------------------------ MODULE ServerMessageProofs -------------------------
(* Proofs about the owserver protocol, in three parts: the client side, for  *)
(* any number of queries, sockets and requests (ServerMessage); the two      *)
(* threads of owserver that answer a request, for any bounds on what they    *)
(* send (PingLoop); and a chain of servers that pass a request on, for any   *)
(* number of them (Antiloop).                                                *)
(*                                                                           *)
(* A query gets no answer but its own because a socket is quiet whenever it  *)
(* changes hands: nothing asked for on it, nothing waiting to be read.  The  *)
(* exception, an answer that was not read to its end on a connection that is *)
(* kept, is what the history variable broken marks.                          *)
(*                                                                           *)
(* Of the two threads one owns the message being sent, and it is the holder  *)
(* of to_client; the final message is on the wire exactly from the time that *)
(* DataHandler sends it; and the loop believes that the request is complete  *)
(* only when DataHandler has ended.                                          *)
EXTENDS ServerMessage, PingLoop, Antiloop, TLAPS

Parts == {"element", "answer", "final", "delay"}

Request == [id : 0..MaxRequests, kind : {"read", "one", "list"}, granted : BOOLEAN, left : Nat]
Message == [id : 0..MaxRequests, what : Parts \cup {"rest"}, granted : BOOLEAN]

NetTypeOK ==
    /\ requests \in [Sock -> Seq(Request)]
    /\ inbox \in [Sock -> Seq(Message)]

\* Where a query is in the code, and which of its variables are set.
PlaceOK(q) ==
    /\ at[q] = "idle" => fd[q] = Bad /\ ~mine[q]
    /\ at[q] = "reconnect" => fd[q] = Bad /\ ~mine[q]
    /\ at[q] = "mark" => ~mine[q]
    /\ at[q] \in {"mark", "write", "read", "close", "release"} => fd[q] # Bad
    /\ at[q] = "release" => mine[q]

-----------------------------------------------------------------------------
(* The slot, while nobody has had to connect again *)

Owns(q) == mine[q] /\ fd[q] # Bad

SlotInv ==
    ~reconnected =>
        /\ \A q \in Query : at[q] \notin {"reconnect", "mark"}
        /\ \A q \in Query : Owns(q) => slot = InUse
        /\ \A q, r \in Query : Owns(q) /\ Owns(r) => q = r
        /\ slot = InUse => \E q \in Query : Owns(q)

-----------------------------------------------------------------------------
(* What is under way on a socket *)

Quiet(s) == inbox[s] = <<>> /\ requests[s] = <<>>

\* The answer to the one request that query q made on s: elements and delay
\* messages, and the final message after which there are no more.
Answering(q, s) ==
    /\ \A i \in 1..Len(inbox[s]) :
         /\ inbox[s][i].id = id[q] /\ inbox[s][i].what # "rest"
         /\ i < Len(inbox[s]) \/ requests[s] # <<>> => inbox[s][i].what \in {"element", "delay"}
         /\ inbox[s][i].what = "element" => kind[q] = "list"
    /\ Len(requests[s]) <= 1
    /\ requests[s] # <<>> => /\ requests[s][1].id = id[q]
                             /\ kind[q] # "list" => requests[s][1].left = 0

\* What is under way on the socket of query q.
SocketOK(q) ==
    fd[q] \in Sock \ broken =>
        /\ at[q] \in {"peek", "mark", "write", "release"} => Quiet(fd[q])
        /\ at[q] = "read" => Answering(q, fd[q])

NetInv ==
    /\ \A s \in Sock \ open : Quiet(s) /\ s \notin alive /\ s \notin broken
    /\ slot \in Sock \ broken => Quiet(slot)
    /\ \A q \in Query : SocketOK(q)

IInv ==
    /\ TypeOK /\ NetTypeOK /\ SocketExclusive
    /\ \A q \in Query : PlaceOK(q)
    /\ SlotInv /\ NetInv

-----------------------------------------------------------------------------
(* Base facts *)

LEMMA InitIInv == Init => IInv
<1>. SUFFICES ASSUME Init PROVE IInv
  BY Zenon
<1>1. NetTypeOK
  BY DEF Init, NetTypeOK
<1>5. TypeOK
  <2>1. 0 \in 0..MaxRequests
    BY BoundsAssumption
  <2>. QED
    BY <2>1, DescriptorAssumption, Zenon DEF Init, TypeOK
<1>2. SocketExclusive /\ \A q \in Query : PlaceOK(q)
  BY Zenon DEF Init, SocketExclusive, PlaceOK
<1>3. SlotInv
  BY DescriptorAssumption, Zenon DEF Init, SlotInv, Owns
<1>4. NetInv
  BY DescriptorAssumption, Zenon DEF Init, NetInv, SocketOK, Quiet
<1>. QED
  BY <1>1, <1>2, <1>3, <1>4, <1>5, Zenon DEF IInv

\* Steps of the client that leave the sockets and the messages alone.
LEMMA TypeClient ==
    ASSUME IInv, NEW q \in Query,
           \/ PeekGood(q) \/ MarkInUse(q) \/ ReadFails(q) \/ Release(q)
    PROVE  TypeOK' /\ NetTypeOK'
<1>1. NetTypeOK'
  BY Zenon DEF IInv, NetTypeOK, network, PeekGood, MarkInUse, ReadFails, Release
<1>2. TypeOK'
  <2>. USE DEF IInv, TypeOK, network, Go
  <2>1. CASE PeekGood(q)
    BY <2>1, Zenon DEF PeekGood
  <2>2. CASE MarkInUse(q)
    BY <2>2, DescriptorAssumption, Zenon DEF MarkInUse
  <2>3. CASE ReadFails(q)
    BY <2>3, Zenon DEF ReadFails
  <2>4. CASE Release(q)
    BY <2>4, DescriptorAssumption, Zenon DEF Release
  <2>. QED
    BY <2>1, <2>2, <2>3, <2>4, Zenon
<1>. QED
  BY <1>1, <1>2, Zenon

LEMMA TypeConnect ==
    ASSUME IInv, NEW q \in Query,
           \/ \E k \in Kinds, s \in Sock \cup {Bad} : Claim(q, k, s)
           \/ \E s \in Sock \cup {Bad} : Reconnect(q, s)
    PROVE  TypeOK' /\ NetTypeOK'
<1>. USE DescriptorAssumption, BoundsAssumption
<1>1. NetTypeOK'
  BY Zenon DEF IInv, NetTypeOK, network, Claim, Connected, Reconnect
<1>2. ASSUME NEW k \in Kinds, NEW s \in Sock \cup {Bad}, Claim(q, k, s)
      PROVE  TypeOK'
  <2>1. made \in Nat /\ made' = made + 1 /\ made < MaxRequests /\ id' = [id EXCEPT ![q] = made + 1]
    BY <1>2 DEF Claim, IInv, TypeOK
  <2>2. made' \in 0..MaxRequests /\ id' \in [Query -> 0..MaxRequests]
    BY <2>1 DEF IInv, TypeOK
  <2>3. /\ at' = [at EXCEPT ![q] = "peek"] /\ kind' = [kind EXCEPT ![q] = k] /\ reconnected' = reconnected
        /\ fd' = [fd EXCEPT ![q] = s] /\ mine' = [mine EXCEPT ![q] = slot # InUse]
    BY <1>2, Zenon DEF Claim, Go
  <2>4. /\ open' \subseteq Sock /\ open \subseteq open' /\ alive' \subseteq Sock /\ broken' \subseteq Sock
        /\ slot' \in Sock \cup {Bad, InUse} /\ (s # Bad => s \in open') /\ slot' \notin Sock
    BY <1>2, Zenon DEF Claim, Connected, network, IInv, TypeOK
  <2>. QED
    BY <2>2, <2>3, <2>4, Zenon DEF IInv, TypeOK
<1>3. ASSUME NEW s \in Sock \cup {Bad}, Reconnect(q, s)
      PROVE  TypeOK'
  <2>1. /\ at' = [at EXCEPT ![q] = IF s = Bad THEN "idle" ELSE "mark"]
        /\ fd' = [fd EXCEPT ![q] = s] /\ UNCHANGED <<kind, id, mine, slot, reconnected, made>>
    BY <1>3, Zenon DEF Reconnect, Go
  <2>2. /\ open' \subseteq Sock /\ open \subseteq open' /\ alive' \subseteq Sock /\ broken' \subseteq Sock
        /\ (s # Bad => s \in open')
    BY <1>3, Zenon DEF Reconnect, Connected, network, IInv, TypeOK
  <2>. QED
    BY <2>1, <2>2, Zenon DEF IInv, TypeOK
<1>. QED
  BY <1>1, <1>2, <1>3, Zenon

\* Test_and_Close, in PeekClosed and Close: nobody else has the socket.
LEMMA TypeClosed ==
    ASSUME IInv, NEW q \in Query, PeekClosed(q) \/ Close(q)
    PROVE  TypeOK' /\ NetTypeOK'
<1>1. /\ fd' = [fd EXCEPT ![q] = Bad]
      /\ open' = open \ {fd[q]} /\ alive' = alive \ {fd[q]} /\ broken' = broken \ {fd[q]}
      /\ requests' = [s \in Sock |-> IF s = fd[q] THEN <<>> ELSE requests[s]]
      /\ inbox' = [s \in Sock |-> IF s = fd[q] THEN <<>> ELSE inbox[s]]
      /\ slot' = (IF mine[q] THEN Bad ELSE slot) /\ mine' = [mine EXCEPT ![q] = FALSE]
      /\ \E place \in {"reconnect", "idle"} : at' = [at EXCEPT ![q] = place]
      /\ UNCHANGED <<kind, id, made>> /\ reconnected' \in {reconnected, TRUE}
  BY Zenon DEF PeekClosed, Close, Closed, Go
<1>2. NetTypeOK'
  BY <1>1 DEF IInv, NetTypeOK
<1>3. TypeOK'
  <2>1. \A r \in Query : fd'[r] # Bad => fd'[r] \in open'
    BY <1>1, Zenon DEF IInv, TypeOK, SocketExclusive
  <2>2. slot' \in Sock \cup {Bad, InUse} /\ (slot' \in Sock => slot' \in open')
    BY <1>1, DescriptorAssumption DEF IInv, TypeOK, SocketExclusive
  <2>3. /\ at' \in [Query -> {"idle", "peek", "reconnect", "mark", "write", "read", "close", "release"}]
        /\ fd' \in [Query -> Sock \cup {Bad}] /\ mine' \in [Query -> BOOLEAN] /\ reconnected' \in BOOLEAN
    BY <1>1, Zenon DEF IInv, TypeOK
  <2>4. open' \subseteq Sock /\ alive' \subseteq Sock /\ broken' \subseteq Sock
    BY <1>1, Zenon DEF IInv, TypeOK
  <2>. QED
    BY <1>1, <2>1, <2>2, <2>3, <2>4, Zenon DEF IInv, TypeOK
<1>. QED
  BY <1>2, <1>3, Zenon

LEMMA TypeWrite ==
    ASSUME IInv, NEW q \in Query, Write(q)
    PROVE  TypeOK' /\ NetTypeOK'
<1>1. /\ at' = [at EXCEPT ![q] = "read"]
      /\ UNCHANGED <<kind, id, fd, mine, slot, reconnected, made, open, alive, inbox, broken>>
  BY Zenon DEF Write, Go
<1>2. TypeOK'
  BY <1>1, Zenon DEF IInv, TypeOK
<1>. DEFINE r(g) == [id |-> id[q], kind |-> kind[q], granted |-> g,
                     left |-> IF kind[q] = "list" THEN MaxElements ELSE 0]
<1>3. \A g \in BOOLEAN : r(g) \in Request
  BY BoundsAssumption, Zenon DEF Request, IInv, TypeOK
<1>4. PICK g \in BOOLEAN : requests' \in {requests, [requests EXCEPT ![fd[q]] = Append(requests[fd[q]], r(g))]}
  BY Zenon DEF Write
<1>. HIDE DEF r
<1>5. requests' \in [Sock -> Seq(Request)]
  <2>1. fd[q] \in Sock /\ requests \in [Sock -> Seq(Request)]
    BY Zenon DEF Write, IInv, TypeOK, NetTypeOK, PlaceOK
  <2>2. Append(requests[fd[q]], r(g)) \in Seq(Request)
    BY <1>3, <2>1
  <2>. QED
    BY <1>4, <2>1, <2>2, Zenon
<1>. QED
  BY <1>1, <1>2, <1>5, Zenon DEF IInv, NetTypeOK

LEMMA EmptySeq ==
    ASSUME NEW S, NEW x \in Seq(S), Len(x) = 0
    PROVE  x = <<>>
  OBVIOUS

LEMMA SingleSeq ==
    ASSUME NEW S, NEW x \in Seq(S), Len(x) <= 1, x # <<>>
    PROVE  Len(x) = 1
<1>1. Len(x) \in Nat /\ Len(x) # 0
  OBVIOUS
<1>. QED
  BY <1>1

LEMMA FirstOf ==
    ASSUME NEW S, NEW x \in Seq(S), x # <<>>
    PROVE  1 \in 1..Len(x) /\ x[1] \in S
<1>1. Len(x) \in Nat /\ Len(x) # 0
  OBVIOUS
<1>2. 1 \in 1..Len(x)
  BY <1>1
<1>. QED
  BY <1>2

LEMMA SeqExcept ==
    ASSUME NEW S, NEW x \in Seq(S), NEW i \in 1..Len(x), NEW v \in S
    PROVE  [x EXCEPT ![i] = v] \in Seq(S)
  OBVIOUS

ReadStep(q) ==
    \/ ReadDelay(q) \/ ReadElement(q) \/ ReadAnswer(q) \/ BreakOff(q) \/ LeaveBody(q) \/ ReadRest(q)

\* A query reads: what is on its way on its socket gets less.
LEMMA Reading ==
    ASSUME IInv, NEW q \in Query, ReadStep(q)
    PROVE  /\ at[q] = "read" /\ fd[q] \in Sock /\ inbox[fd[q]] # <<>> /\ inbox[fd[q]] \in Seq(Message)
           /\ \E box \in Seq(Message) : inbox' = [inbox EXCEPT ![fd[q]] = box]
           /\ \/ at' = at
              \/ mine[q] /\ at' = [at EXCEPT ![q] = "release"]
              \/ at' = [at EXCEPT ![q] = "close"]
           /\ broken' \in {broken, broken \cup {fd[q]}}
           /\ UNCHANGED <<kind, id, fd, mine, slot, reconnected, made, open, alive, requests>>
<1>. USE DEF ReadStep
<1>1. /\ at[q] = "read" /\ inbox[fd[q]] # <<>>
      /\ broken' \in {broken, broken \cup {fd[q]}}
      /\ UNCHANGED <<kind, id, fd, mine, slot, reconnected, made, open, alive, requests>>
  BY Zenon DEF ReadDelay, ReadElement, ReadAnswer, BreakOff, LeaveBody, ReadRest
<1>2. fd[q] \in Sock /\ inbox \in [Sock -> Seq(Message)]
  BY <1>1, Zenon DEF IInv, TypeOK, NetTypeOK, PlaceOK
<1>. DEFINE box == inbox[fd[q]]
<1>3. box \in Seq(Message) /\ Len(box) \in Nat /\ 1 \in 1..Len(box) /\ box[1] \in Message
  BY <1>1, <1>2, FirstOf
<1>4. \/ at' = at
      \/ mine[q] /\ at' = [at EXCEPT ![q] = "release"]
      \/ at' = [at EXCEPT ![q] = "close"]
  BY Zenon DEF ReadDelay, ReadElement, ReadAnswer, BreakOff, LeaveBody, ReadRest, AfterAnswer, Go
<1>5. CASE inbox' = [inbox EXCEPT ![fd[q]] = Tail(box)]
  <2>1. Tail(box) \in Seq(Message)
    BY <1>1, <1>3
  <2>. QED
    BY <1>1, <1>2, <1>3, <1>4, <1>5, <2>1, Zenon
<1>6. CASE LeaveBody(q)
  <2>1. inbox' = [inbox EXCEPT ![fd[q]] = [box EXCEPT ![1] = [box[1] EXCEPT !.what = "rest"]]]
    BY <1>6, Zenon DEF LeaveBody
  <2>2. [box[1] EXCEPT !.what = "rest"] \in Message
    BY <1>3, Zenon DEF Message
  <2>3. [box EXCEPT ![1] = [box[1] EXCEPT !.what = "rest"]] \in Seq(Message)
    BY <1>3, <2>2, SeqExcept, Zenon
  <2>. QED
    BY <1>1, <1>2, <1>3, <1>4, <2>1, <2>3, Zenon
<1>7. CASE ReadRest(q)
  <2>1. PICK n \in 0..Len(box), part \in BOOLEAN : inbox' = [inbox EXCEPT ![fd[q]] = Cut(box, n, part)]
    BY <1>7, Zenon DEF ReadRest
  <2>. DEFINE left == SubSeq(box, n + 1, Len(box))
  <2>2. left \in Seq(Message)
    BY <1>3, <2>1
  <2>3. Cut(box, n, part) \in {left, [left EXCEPT ![1].what = "rest"]} /\ (left = <<>> => Cut(box, n, part) = left)
    BY Zenon DEF Cut
  <2>. HIDE DEF left
  <2>4. ASSUME left # <<>> PROVE [left EXCEPT ![1].what = "rest"] \in Seq(Message)
    <3>1. 1 \in 1..Len(left) /\ left[1] \in Message
      BY <2>2, <2>4, FirstOf, Zenon
    <3>2. [left[1] EXCEPT !.what = "rest"] \in Message
      BY <3>1, Zenon DEF Message
    <3>3. [left EXCEPT ![1] = [left[1] EXCEPT !.what = "rest"]] \in Seq(Message)
      BY <2>2, <3>1, <3>2, SeqExcept, Zenon
    <3>. QED
      BY <3>3, Zenon
  <2>5. Cut(box, n, part) \in Seq(Message)
    BY <2>2, <2>3, <2>4, Zenon
  <2>. QED
    BY <1>1, <1>2, <1>3, <1>4, <2>1, <2>5, Zenon
<1>. QED
  BY <1>5, <1>6, <1>7, Zenon DEF ReadDelay, ReadElement, ReadAnswer, BreakOff, Rest

LEMMA TypeRead ==
    ASSUME IInv, NEW q \in Query, ReadStep(q)
    PROVE  TypeOK' /\ NetTypeOK'
<1>0. PICK place : at' = at \/ (place \in {"release", "close"} /\ at' = [at EXCEPT ![q] = place])
  BY Reading, Zenon
<1>1. TypeOK'
  <2>1. at' \in [Query -> {"idle", "peek", "reconnect", "mark", "write", "read", "close", "release"}]
    BY <1>0, Zenon DEF IInv, TypeOK
  <2>2. broken' \subseteq Sock
    BY Reading, Zenon DEF IInv, TypeOK
  <2>3. UNCHANGED <<kind, id, fd, mine, slot, reconnected, made, open, alive>>
    BY Reading, Zenon
  <2>. QED
    BY <2>1, <2>2, <2>3, Zenon DEF IInv, TypeOK
<1>2. inbox' \in [Sock -> Seq(Message)]
  BY Reading, Zenon DEF IInv, NetTypeOK
<1>. QED
  BY <1>1, <1>2, Reading, Zenon DEF IInv, NetTypeOK

\* What the server does to the messages of socket s.
Sends(s, what) ==
    /\ requests[s] # <<>>
    /\ inbox'[s] = Append(inbox[s], [id |-> requests[s][1].id, what |-> what,
                                     granted |-> requests[s][1].granted])
    /\ what = "element" => /\ requests[s][1].left > 0
                           /\ requests'[s] = [requests[s] EXCEPT ![1].left = @ - 1]
    /\ what = "delay" => requests'[s] = requests[s]
    /\ what \in {"final", "answer"} => requests'[s] \in {<<>>, Tail(requests[s])}

LEMMA RemoteSteps ==
    ASSUME IInv, NEW s \in Sock, Remote(s)
    PROVE  /\ s \in alive /\ s \in open /\ UNCHANGED <<client, open, broken>>
           /\ alive' \subseteq alive
           /\ \A x \in Sock \ {s} : inbox'[x] = inbox[x] /\ requests'[x] = requests[x]
           /\ \/ requests'[s] = <<>> /\ inbox'[s] = inbox[s]
              \/ \E what \in Parts : Sends(s, what)
           /\ inbox' \in [Sock -> Seq(Message)] /\ requests' \in [Sock -> Seq(Request)]
<1>1. requests \in [Sock -> Seq(Request)] /\ inbox \in [Sock -> Seq(Message)]
  BY Zenon DEF IInv, NetTypeOK
<1>2. s \in alive /\ s \in open
  <2>1. s \in alive
    BY Zenon DEF Remote, ServerElement, ServerDelay, ServerFinal, ServerCloses
  <2>. QED
    BY <2>1, Zenon DEF IInv, NetInv
<1>3. CASE ServerCloses(s)
  BY <1>1, <1>2, <1>3 DEF ServerCloses
<1>. DEFINE m(what) == [id |-> requests[s][1].id, what |-> what, granted |-> requests[s][1].granted]
            less == [requests[s] EXCEPT ![1].left = @ - 1]
<1>4. ASSUME NEW what \in Parts, NEW rs,
             requests[s] # <<>>, inbox' = [inbox EXCEPT ![s] = Append(inbox[s], m(what))],
             requests' = [requests EXCEPT ![s] = rs], alive' \subseteq alive, UNCHANGED <<client, open, broken>>,
             what = "element" => requests[s][1].left > 0 /\ rs = less,
             what = "delay" => rs = requests[s],
             what \in {"final", "answer"} => rs \in {<<>>, Tail(requests[s])}
      PROVE  /\ \A x \in Sock \ {s} : inbox'[x] = inbox[x] /\ requests'[x] = requests[x]
             /\ Sends(s, what)
             /\ inbox' \in [Sock -> Seq(Message)] /\ requests' \in [Sock -> Seq(Request)]
  <2>1. /\ requests[s][1] \in Request /\ requests[s][1].left \in Nat /\ 1 \in 1..Len(requests[s])
    <3>1. requests[s][1] \in Request /\ 1 \in 1..Len(requests[s])
      BY <1>1, <1>4, FirstOf, Zenon
    <3>. QED
      BY <3>1, Zenon DEF Request
  <2>2. m(what) \in Message
    BY <1>4, <2>1, Zenon DEF Request, Message
  <2>3. inbox'[s] = Append(inbox[s], m(what)) /\ requests'[s] = rs
    BY <1>1, <1>4, Zenon
  <2>4. Sends(s, what)
    BY <1>4, <2>3, Zenon DEF Sends
  <2>. HIDE DEF m
  <2>5. Append(inbox[s], m(what)) \in Seq(Message)
    BY <1>1, <2>2
  <2>6. requests[s][1].left > 0 => less \in Seq(Request)
    <3>1. ASSUME requests[s][1].left > 0 PROVE [requests[s][1] EXCEPT !.left = @ - 1] \in Request
      <4>1. requests[s][1].left - 1 \in Nat
        BY <2>1, <3>1
      <4>. QED
        BY <2>1, <4>1, Zenon DEF Request
    <3>2. requests[s][1].left > 0 => [requests[s] EXCEPT ![1] = [requests[s][1] EXCEPT !.left = @ - 1]] \in Seq(Request)
      BY <1>1, <2>1, <3>1, SeqExcept, Zenon
    <3>. QED
      BY <3>2, Zenon
  <2>. HIDE DEF less
  <2>7. Tail(requests[s]) \in Seq(Request) /\ <<>> \in Seq(Request)
    BY <1>1, <1>4
  <2>8. rs \in Seq(Request)
    BY <1>1, <1>4, <2>6, <2>7, Zenon DEF Parts
  <2>. QED
    BY <1>1, <1>4, <2>4, <2>5, <2>8, Zenon
<1>5. CASE ServerElement(s)
  <2>1. /\ requests[s] # <<>> /\ inbox' = [inbox EXCEPT ![s] = Append(inbox[s], m("element"))]
        /\ requests' = [requests EXCEPT ![s] = less] /\ requests[s][1].left > 0
        /\ alive' \subseteq alive /\ UNCHANGED <<client, open, broken>>
    BY <1>5, Zenon DEF ServerElement, SendTo
  <2>2. "element" \in Parts
    BY Zenon DEF Parts
  <2>. HIDE DEF m, less
  <2>. QED
    BY <1>2, <1>4, <2>1, <2>2
<1>6. CASE ServerDelay(s)
  <2>1. /\ requests[s] # <<>> /\ inbox' = [inbox EXCEPT ![s] = Append(inbox[s], m("delay"))]
        /\ requests' = [requests EXCEPT ![s] = requests[s]]
        /\ alive' \subseteq alive /\ UNCHANGED <<client, open, broken>>
    BY <1>1, <1>6, Zenon DEF ServerDelay, SendTo
  <2>2. "delay" \in Parts
    BY Zenon DEF Parts
  <2>. HIDE DEF m, less
  <2>. QED
    BY <1>2, <1>4, <2>1, <2>2
<1>7. ASSUME NEW what \in {"final", "answer"}, ServerFinal(s, what)
      PROVE  /\ UNCHANGED <<client, open, broken>> /\ alive' \subseteq alive
             /\ \A x \in Sock \ {s} : inbox'[x] = inbox[x] /\ requests'[x] = requests[x]
             /\ Sends(s, what) /\ what \in Parts
             /\ inbox' \in [Sock -> Seq(Message)] /\ requests' \in [Sock -> Seq(Request)]
  <2>1. PICK rs \in {<<>>, Tail(requests[s])} :
        /\ requests[s] # <<>> /\ inbox' = [inbox EXCEPT ![s] = Append(inbox[s], m(what))]
        /\ requests' = [requests EXCEPT ![s] = rs]
        /\ alive' \subseteq alive /\ UNCHANGED <<client, open, broken>>
    BY <1>7, Zenon DEF ServerFinal, SendTo
  <2>2. what \in Parts /\ what # "element" /\ what # "delay"
    BY <1>7 DEF Parts
  <2>. HIDE DEF m, less
  <2>. QED
    BY <1>4, <2>1, <2>2, Zenon
<1>. QED
  BY <1>2, <1>3, <1>5, <1>6, <1>7, Zenon DEF Remote

LEMMA TypeStep == ASSUME IInv, Next PROVE TypeOK' /\ NetTypeOK'
<1>1. ASSUME NEW q \in Query, Begin(q) \/ QueryStep(q) PROVE TypeOK' /\ NetTypeOK'
  BY <1>1, TypeClient, TypeConnect, TypeClosed, TypeWrite, TypeRead, Zenon DEF Begin, QueryStep, ReadStep
<1>2. ASSUME NEW s \in Sock, Remote(s) PROVE TypeOK' /\ NetTypeOK'
  <2>1. /\ UNCHANGED <<at, kind, id, fd, mine, slot, reconnected, made, open, broken>>
        /\ alive' \subseteq alive
        /\ inbox' \in [Sock -> Seq(Message)] /\ requests' \in [Sock -> Seq(Request)]
    BY <1>2, RemoteSteps, Zenon DEF client
  <2>. QED
    BY <2>1, Zenon DEF IInv, TypeOK, NetTypeOK
<1>. QED
  BY <1>1, <1>2, Zenon DEF Next

-----------------------------------------------------------------------------
(* Who has which socket *)

\* What a step of query q does to the sockets in hand: nothing, or it takes
\* the one in the slot, makes one, closes its own or puts it into the slot.
Keeps == UNCHANGED <<fd, open>> /\ slot' \in {slot, InUse}

Takes(q) ==
    /\ at[q] = "idle" /\ slot \in Sock /\ slot' = InUse
    /\ fd' = [fd EXCEPT ![q] = slot] /\ UNCHANGED open

Makes(q, s) ==
    /\ at[q] \in {"idle", "reconnect"}
    /\ fd' = [fd EXCEPT ![q] = s]
    /\ \/ s \in Sock \ open /\ open' = open \cup {s}
       \/ s = Bad /\ UNCHANGED open
    /\ slot' \in {slot, InUse}

Closes(q) ==
    /\ fd' = [fd EXCEPT ![q] = Bad] /\ open' = open \ {fd[q]}
    /\ slot' = IF mine[q] THEN Bad ELSE slot

Returns(q) ==
    /\ at[q] = "release" /\ fd' = [fd EXCEPT ![q] = Bad] /\ slot' = fd[q] /\ UNCHANGED open

LEMMA QueryHands ==
    ASSUME NEW q \in Query, Begin(q) \/ QueryStep(q)
    PROVE  Keeps \/ Takes(q) \/ (\E s : Makes(q, s)) \/ Closes(q) \/ Returns(q)
<1>1. ASSUME NEW k \in Kinds, NEW s \in Sock \cup {Bad}, Claim(q, k, s)
      PROVE  Takes(q) \/ Makes(q, s)
  BY <1>1, Zenon DEF Claim, Connected, network, Takes, Makes
<1>2. ASSUME NEW s \in Sock \cup {Bad}, Reconnect(q, s)
      PROVE  Makes(q, s)
  BY <1>2, Zenon DEF Reconnect, Connected, network, Makes
<1>3. PeekClosed(q) \/ Close(q) => Closes(q)
  BY Zenon DEF PeekClosed, Close, Closed, Closes
<1>4. Release(q) => Returns(q)
  BY Zenon DEF Release, Returns, network
<1>5. PeekGood(q) \/ MarkInUse(q) \/ Write(q) \/ ReadFails(q) => Keeps
  BY Zenon DEF PeekGood, MarkInUse, Write, ReadFails, Keeps, network
<1>6. ReadStep(q) => Keeps
  BY Zenon DEF ReadStep, ReadDelay, ReadElement, ReadAnswer, BreakOff, LeaveBody, ReadRest, Keeps
<1>. QED
  BY <1>1, <1>2, <1>3, <1>4, <1>5, <1>6, Zenon DEF Begin, QueryStep, ReadStep

LEMMA ExclusiveStep == ASSUME IInv, Next PROVE SocketExclusive'
<1>. USE DescriptorAssumption
<1>1. /\ fd \in [Query -> Sock \cup {Bad}] /\ slot \in Sock \cup {Bad, InUse}
      /\ \A q \in Query : fd[q] # Bad => fd[q] \in open
      /\ slot \in Sock => slot \in open
      /\ SocketExclusive
  BY Zenon DEF IInv, TypeOK
<1>2. ASSUME Keeps PROVE SocketExclusive'
  BY <1>1, <1>2, Zenon DEF Keeps, SocketExclusive
<1>3. ASSUME NEW q \in Query, Takes(q) PROVE SocketExclusive'
  BY <1>1, <1>3, Zenon DEF Takes, SocketExclusive
<1>4. ASSUME NEW q \in Query, NEW s, Makes(q, s) PROVE SocketExclusive'
  BY <1>1, <1>4, Zenon DEF Makes, SocketExclusive
<1>5. ASSUME NEW q \in Query, Closes(q) PROVE SocketExclusive'
  BY <1>1, <1>5, Zenon DEF Closes, SocketExclusive
<1>6. ASSUME NEW q \in Query, Returns(q) PROVE SocketExclusive'
  BY <1>1, <1>6, Zenon DEF Returns, SocketExclusive
<1>7. ASSUME NEW s \in Sock, Remote(s) PROVE SocketExclusive'
  <2>1. UNCHANGED <<fd, slot>>
    BY <1>7, RemoteSteps, Zenon DEF client
  <2>. QED
    BY <1>1, <2>1, Zenon DEF SocketExclusive
<1>. QED
  BY <1>2, <1>3, <1>4, <1>5, <1>6, <1>7, QueryHands, Zenon DEF Next

LEMMA PlaceStep == ASSUME IInv, Next PROVE \A q \in Query : PlaceOK(q)'
<1>. USE DEF PlaceOK
<1>1. /\ at \in [Query -> {"idle", "peek", "reconnect", "mark", "write", "read", "close", "release"}]
      /\ fd \in [Query -> Sock \cup {Bad}] /\ mine \in [Query -> BOOLEAN]
      /\ \A q \in Query : PlaceOK(q)
  BY Zenon DEF IInv, TypeOK
<1>2. ASSUME NEW q \in Query, Begin(q) PROVE \A r \in Query : PlaceOK(r)'
  <2>1. \E s, m : /\ at' = [at EXCEPT ![q] = "peek"] /\ fd' = [fd EXCEPT ![q] = s]
                  /\ mine' = [mine EXCEPT ![q] = m]
    BY <1>2, Zenon DEF Begin, Claim, Go
  <2>. QED
    BY <1>1, <2>1
<1>3. ASSUME NEW q \in Query, PeekGood(q) \/ MarkInUse(q) \/ Write(q) \/ ReadFails(q)
      PROVE  \A r \in Query : PlaceOK(r)'
  BY <1>1, <1>3 DEF PeekGood, MarkInUse, Write, ReadFails, Go
<1>4. ASSUME NEW q \in Query, PeekClosed(q) \/ Close(q) \/ Release(q)
      PROVE  \A r \in Query : PlaceOK(r)'
  BY <1>1, <1>4 DEF PeekClosed, Close, Closed, Release, Go
<1>5. ASSUME NEW q \in Query, NEW s \in Sock \cup {Bad}, Reconnect(q, s)
      PROVE  \A r \in Query : PlaceOK(r)'
  BY <1>1, <1>5, Zenon DEF Reconnect, Go
<1>6. ASSUME NEW q \in Query, ReadStep(q)
      PROVE  \A r \in Query : PlaceOK(r)'
  <2>1. /\ at[q] = "read" /\ UNCHANGED <<fd, mine>>
        /\ \/ at' = at
           \/ mine[q] /\ at' = [at EXCEPT ![q] = "release"]
           \/ at' = [at EXCEPT ![q] = "close"]
    BY <1>6, Reading, Zenon
  <2>. QED
    BY <1>1, <2>1
<1>7. ASSUME NEW s \in Sock, Remote(s) PROVE \A r \in Query : PlaceOK(r)'
  <2>1. UNCHANGED <<at, fd, mine>>
    BY <1>7, RemoteSteps, Zenon DEF client
  <2>. QED
    BY <1>1, <2>1, Zenon
<1>. QED
  BY <1>2, <1>3, <1>4, <1>5, <1>6, <1>7, Zenon DEF Next, QueryStep, ReadStep

LEMMA SlotStep == ASSUME IInv, Next PROVE SlotInv'
<1>. USE DescriptorAssumption
<1>1. SUFFICES ASSUME ~reconnected' PROVE SlotInv'
  BY Zenon DEF SlotInv
<1>2. reconnected \in BOOLEAN /\ (reconnected => reconnected')
  <2>1. reconnected' \in {reconnected, TRUE}
    BY RemoteSteps, Reading, Zenon DEF Next, Begin, QueryStep, ReadStep, Claim, PeekGood, PeekClosed, MarkInUse,
          Write, Reconnect, ReadFails, Close, Release, client
  <2>. QED
    BY <2>1, Zenon DEF IInv, TypeOK
<1>3. /\ at \in [Query -> {"idle", "peek", "reconnect", "mark", "write", "read", "close", "release"}]
      /\ fd \in [Query -> Sock \cup {Bad}] /\ mine \in [Query -> BOOLEAN]
      /\ slot \in Sock \cup {Bad, InUse}
      /\ \A q \in Query : PlaceOK(q)
  BY Zenon DEF IInv, TypeOK
<1>4. /\ \A q \in Query : at[q] \notin {"reconnect", "mark"}
      /\ \A q \in Query : Owns(q) => slot = InUse
      /\ \A q, r \in Query : Owns(q) /\ Owns(r) => q = r
      /\ slot = InUse => \E q \in Query : Owns(q)
  BY <1>1, <1>2, Zenon DEF IInv, SlotInv
\* Steps that change nothing of this: no socket, no slot.
<1>5. ASSUME NEW q \in Query, UNCHANGED <<fd, mine, slot>>,
             at' = at \/ \E place \in {"write", "read", "release", "close"} : at' = [at EXCEPT ![q] = place]
      PROVE  SlotInv'
  <2>1. \A r \in Query : Owns(r)' = Owns(r)
    BY <1>5, Zenon DEF Owns
  <2>2. \A r \in Query : at'[r] \notin {"reconnect", "mark"}
    BY <1>3, <1>4, <1>5, Zenon
  <2>. QED
    BY <1>4, <1>5, <2>1, <2>2, Zenon DEF SlotInv
<1>6. ASSUME NEW q \in Query, NEW k \in Kinds, NEW s \in Sock \cup {Bad}, Claim(q, k, s) PROVE SlotInv'
  <2>1. /\ at[q] = "idle" /\ at' = [at EXCEPT ![q] = "peek"] /\ fd' = [fd EXCEPT ![q] = s]
        /\ mine' = [mine EXCEPT ![q] = slot # InUse]
        /\ \/ slot \in Sock /\ s = slot /\ slot' = InUse
           \/ slot = Bad /\ slot' = IF s = Bad THEN Bad ELSE InUse
           \/ slot = InUse /\ slot' = slot
    BY <1>6, Zenon DEF Claim, Go
  <2>2. /\ \A r \in Query : at'[r] \notin {"reconnect", "mark"}
        /\ \A r \in Query : r # q => Owns(r)' = Owns(r)
        /\ Owns(q)' = (slot # InUse /\ s # Bad) /\ ~Owns(q)
    BY <1>3, <1>4, <2>1, Zenon DEF Owns, PlaceOK
  <2>3. CASE slot = InUse
    BY <1>4, <2>1, <2>2, <2>3, Zenon DEF SlotInv
  <2>4. CASE slot # InUse /\ s = Bad
    BY <1>4, <2>1, <2>2, <2>4, Zenon DEF SlotInv
  <2>5. CASE slot # InUse /\ s # Bad
    BY <1>3, <1>4, <2>1, <2>2, <2>5, Zenon DEF SlotInv
  <2>. QED
    BY <2>3, <2>4, <2>5, Zenon
<1>7. ASSUME NEW q \in Query, Close(q) PROVE SlotInv'
  <2>1. /\ at[q] = "close" /\ at' = [at EXCEPT ![q] = "idle"] /\ fd' = [fd EXCEPT ![q] = Bad]
        /\ mine' = [mine EXCEPT ![q] = FALSE] /\ slot' = IF mine[q] THEN Bad ELSE slot
    BY <1>7, Zenon DEF Close, Closed, Go
  <2>2. /\ \A r \in Query : at'[r] \notin {"reconnect", "mark"}
        /\ \A r \in Query : r # q => Owns(r)' = Owns(r)
        /\ ~Owns(q)' /\ (Owns(q) <=> mine[q])
    BY <1>3, <1>4, <2>1, Zenon DEF Owns, PlaceOK
  <2>. QED
    BY <1>3, <1>4, <2>1, <2>2, Zenon DEF SlotInv
<1>8. ASSUME NEW q \in Query, Release(q) PROVE SlotInv'
  <2>1. /\ at[q] = "release" /\ at' = [at EXCEPT ![q] = "idle"] /\ fd' = [fd EXCEPT ![q] = Bad]
        /\ mine' = [mine EXCEPT ![q] = FALSE] /\ slot' = fd[q]
    BY <1>8, Zenon DEF Release, Go
  <2>2. /\ \A r \in Query : at'[r] \notin {"reconnect", "mark"}
        /\ \A r \in Query : r # q => Owns(r)' = Owns(r)
        /\ ~Owns(q)' /\ Owns(q) /\ slot' \in Sock
    BY <1>3, <1>4, <2>1, Zenon DEF Owns, PlaceOK
  <2>. QED
    BY <1>3, <1>4, <2>1, <2>2, Zenon DEF SlotInv
<1>9. ASSUME NEW q \in Query, PeekGood(q) \/ Write(q) \/ ReadFails(q)
      PROVE  SlotInv'
  BY <1>5, <1>9, Zenon DEF PeekGood, Write, ReadFails, Go
<1>12. ASSUME NEW q \in Query, ReadStep(q)
       PROVE  SlotInv'
  BY <1>5, <1>12, Reading, Zenon
<1>10. ASSUME NEW q \in Query, PeekClosed(q) \/ MarkInUse(q) \/ \E s \in Sock \cup {Bad} : Reconnect(q, s)
       PROVE  FALSE
  BY <1>1, <1>4, <1>10, Zenon DEF PeekClosed, MarkInUse, Reconnect
<1>11. ASSUME NEW s \in Sock, Remote(s) PROVE SlotInv'
  <2>1. UNCHANGED <<at, fd, mine, slot>>
    BY <1>11, RemoteSteps, Zenon DEF client
  <2>2. \A r \in Query : Owns(r)' = Owns(r)
    BY <2>1, Zenon DEF Owns
  <2>. QED
    BY <1>4, <2>1, <2>2, Zenon DEF SlotInv
<1>. QED
  BY <1>6, <1>7, <1>8, <1>9, <1>10, <1>11, <1>12, Zenon DEF Next, Begin, QueryStep, ReadStep

-----------------------------------------------------------------------------
(* Nobody else is disturbed by what happens on socket c *)

Elsewhere(c) ==
    \A x \in Sock \ {c} :
        inbox'[x] = inbox[x] /\ requests'[x] = requests[x] /\ (x \in broken' <=> x \in broken)

LEMMA OthersOK ==
    ASSUME NEW c, Elsewhere(c), NEW r \in Query, SocketOK(r), fd[r] # c,
           at'[r] = at[r], fd'[r] = fd[r], id'[r] = id[r], kind'[r] = kind[r]
    PROVE  SocketOK(r)'
<1>1. SUFFICES ASSUME fd[r] \in Sock, fd[r] \notin broken
               PROVE  /\ at[r] \in {"peek", "mark", "write", "release"} => Quiet(fd[r])'
                      /\ at[r] = "read" => Answering(r, fd[r])'
  BY Zenon DEF SocketOK, Elsewhere
<1>2. inbox'[fd[r]] = inbox[fd[r]] /\ requests'[fd[r]] = requests[fd[r]]
  BY <1>1, Zenon DEF Elsewhere
<1>3. Quiet(fd[r]) => Quiet(fd[r])'
  BY <1>2, Zenon DEF Quiet
<1>4. Answering(r, fd[r]) => Answering(r, fd[r])'
  BY <1>2, Zenon DEF Answering
<1>. QED
  BY <1>1, <1>3, <1>4, Zenon DEF SocketOK

\* A step on the socket of q, which is in nobody else's hands.
LEMMA OwnSocket ==
    ASSUME IInv, NEW q \in Query, fd[q] \in Sock, Elsewhere(fd[q]), SocketOK(q)',
           UNCHANGED <<fd, id, kind, slot, open>>, alive' \subseteq alive,
           \A r \in Query : r # q => at'[r] = at[r]
    PROVE  NetInv'
<1>1. fd[q] \in open /\ slot # fd[q] /\ \A r \in Query : r # q => fd[r] # fd[q]
  BY DescriptorAssumption, Zenon DEF IInv, TypeOK, SocketExclusive
<1>2. \A r \in Query : SocketOK(r)'
  BY <1>1, OthersOK, Zenon DEF IInv, NetInv
<1>3. slot' \in Sock \ broken' => Quiet(slot)'
  BY <1>1, Zenon DEF IInv, NetInv, Elsewhere, Quiet
<1>4. \A s \in Sock \ open' : Quiet(s)' /\ s \notin alive' /\ s \notin broken'
  BY <1>1, Zenon DEF IInv, NetInv, Elsewhere, Quiet
<1>. QED
  BY <1>2, <1>3, <1>4, Zenon DEF NetInv

LEMMA NetPeek ==
    ASSUME IInv, NEW q \in Query, PeekGood(q) \/ MarkInUse(q) \/ ReadFails(q)
    PROVE  NetInv'
<1>1. /\ UNCHANGED <<kind, id, fd, open, alive, requests, inbox, broken>> /\ slot' \in {slot, InUse}
      /\ at[q] \in {"peek", "mark", "read"}
      /\ at' = [at EXCEPT ![q] = IF at[q] = "read" THEN "close" ELSE "write"]
  BY Zenon DEF PeekGood, MarkInUse, ReadFails, Go, network
<1>2. \A s : Quiet(s)' = Quiet(s)
  BY <1>1, Zenon DEF Quiet
<1>3. \A r \in Query : SocketOK(r)'
  <2>1. SocketOK(q)'
    BY <1>1, <1>2, Zenon DEF IInv, TypeOK, NetInv, SocketOK
  <2>2. Elsewhere(Bad)
    BY <1>1, Zenon DEF Elsewhere
  <2>3. \A r \in Query : fd[r] = Bad => SocketOK(r)'
    BY <1>1, DescriptorAssumption, Zenon DEF SocketOK
  <2>4. \A r \in Query : r # q => at'[r] = at[r]
    BY <1>1, Zenon DEF IInv, TypeOK
  <2>. QED
    BY <1>1, <2>1, <2>2, <2>3, <2>4, OthersOK, Zenon DEF IInv, NetInv
<1>. QED
  BY <1>1, <1>2, <1>3, DescriptorAssumption, Zenon DEF IInv, NetInv

LEMMA NetRelease == ASSUME IInv, NEW q \in Query, Release(q) PROVE NetInv'
<1>1. /\ UNCHANGED <<kind, id, open, alive, requests, inbox, broken>> /\ slot' = fd[q]
      /\ fd' = [fd EXCEPT ![q] = Bad] /\ at[q] = "release" /\ at' = [at EXCEPT ![q] = "idle"]
  BY Zenon DEF Release, Go, network
<1>2. \A s : Quiet(s)' = Quiet(s)
  BY <1>1, Zenon DEF Quiet
<1>3. \A r \in Query : SocketOK(r)'
  <2>1. /\ fd'[q] = Bad /\ \A r \in Query : r # q => at'[r] = at[r] /\ fd'[r] = fd[r]
    BY <1>1, Zenon DEF IInv, TypeOK
  <2>2. Elsewhere(Bad)
    BY <1>1, Zenon DEF Elsewhere
  <2>3. \A r \in Query : fd'[r] = Bad => SocketOK(r)'
    BY <1>1, DescriptorAssumption, Zenon DEF SocketOK
  <2>. QED
    BY <1>1, <2>1, <2>2, <2>3, OthersOK, Zenon DEF IInv, NetInv
<1>4. slot' \in Sock \ broken' => Quiet(slot)'
  BY <1>1, <1>2, Zenon DEF IInv, NetInv, SocketOK, Quiet
<1>. QED
  BY <1>1, <1>2, <1>3, <1>4, Zenon DEF IInv, NetInv

\* A socket taken from the slot, or just made, is quiet.
LEMMA NetConnect ==
    ASSUME IInv, NEW q \in Query,
           \/ \E k \in Kinds, s \in Sock \cup {Bad} : Claim(q, k, s)
           \/ \E s \in Sock \cup {Bad} : Reconnect(q, s)
    PROVE  NetInv'
<1>. USE DescriptorAssumption
<1>1. PICK s \in Sock \cup {Bad} :
        /\ \/ s \in Sock /\ s = slot /\ slot' = InUse /\ UNCHANGED <<open, alive>>
           \/ s \in Sock \ open /\ open' = open \cup {s} /\ alive' = alive \cup {s} /\ slot' \in {slot, InUse}
           \/ s = Bad /\ UNCHANGED <<open, alive>> /\ slot' \in {slot, InUse}
        /\ fd' = [fd EXCEPT ![q] = s]
        /\ \E place \in {"peek", "idle", "mark"} : at' = [at EXCEPT ![q] = place]
  BY Zenon DEF Claim, Reconnect, Connected, network, Go
<1>2. /\ UNCHANGED <<requests, inbox, broken>>
      /\ \A r \in Query : r # q => id'[r] = id[r] /\ kind'[r] = kind[r]
  BY Zenon DEF Claim, Reconnect, Connected, network, IInv, TypeOK
<1>3. \A x : Quiet(x)' = Quiet(x)
  BY <1>2, Zenon DEF Quiet
<1>4. s \in Sock \ broken => Quiet(s)
  BY <1>1, Zenon DEF IInv, NetInv
<1>5. \A r \in Query : r # q => at'[r] = at[r] /\ fd'[r] = fd[r]
  BY <1>1, Zenon DEF IInv, TypeOK
<1>6. \A r \in Query : SocketOK(r)'
  <2>1. Elsewhere(Bad)
    BY <1>2, Zenon DEF Elsewhere
  <2>2. \A r \in Query : r # q /\ fd[r] # Bad => SocketOK(r)'
    BY <1>2, <1>5, <2>1, OthersOK, Zenon DEF IInv, NetInv
  <2>3. \A r \in Query : fd'[r] = Bad => SocketOK(r)'
    BY Zenon DEF SocketOK
  <2>4. fd'[q] = s /\ at'[q] \in {"peek", "idle", "mark"}
    BY <1>1, Zenon DEF IInv, TypeOK
  <2>5. SocketOK(q)'
    BY <1>2, <1>3, <1>4, <2>4, Zenon DEF SocketOK
  <2>. QED
    BY <1>5, <2>2, <2>3, <2>5, Zenon
<1>7. slot' \in Sock \ broken' => Quiet(slot)'
  BY <1>1, <1>2, <1>3, Zenon DEF IInv, NetInv, Quiet
<1>8. \A x \in Sock \ open' : Quiet(x)' /\ x \notin alive' /\ x \notin broken'
  BY <1>1, <1>2, <1>3, Zenon DEF IInv, NetInv
<1>. QED
  BY <1>6, <1>7, <1>8, Zenon DEF NetInv

LEMMA NetClosed == ASSUME IInv, NEW q \in Query, PeekClosed(q) \/ Close(q) PROVE NetInv'
<1>. USE DescriptorAssumption
<1>1. /\ fd' = [fd EXCEPT ![q] = Bad]
      /\ open' = open \ {fd[q]} /\ alive' = alive \ {fd[q]} /\ broken' = broken \ {fd[q]}
      /\ requests' = [s \in Sock |-> IF s = fd[q] THEN <<>> ELSE requests[s]]
      /\ inbox' = [s \in Sock |-> IF s = fd[q] THEN <<>> ELSE inbox[s]]
      /\ slot' \in {slot, Bad} /\ UNCHANGED <<kind, id>>
      /\ \E place \in {"reconnect", "idle"} : at' = [at EXCEPT ![q] = place]
  BY Zenon DEF PeekClosed, Close, Closed, Go
<1>2. Elsewhere(fd[q])
  BY <1>1, Zenon DEF Elsewhere
<1>3. /\ fd'[q] = Bad /\ \A r \in Query : r # q => at'[r] = at[r] /\ fd'[r] = fd[r]
      /\ fd[q] # Bad => slot # fd[q] /\ \A r \in Query : r # q => fd[r] # fd[q]
  BY <1>1, Zenon DEF IInv, TypeOK, SocketExclusive
<1>4. \A r \in Query : SocketOK(r)'
  <2>1. \A r \in Query : fd'[r] = Bad => SocketOK(r)'
    BY Zenon DEF SocketOK
  <2>2. \A r \in Query : r # q /\ fd[r] # fd[q] => SocketOK(r)'
    BY <1>1, <1>2, <1>3, OthersOK, Zenon DEF IInv, NetInv
  <2>. QED
    BY <1>3, <2>1, <2>2, Zenon
<1>5. slot' \in Sock \ broken' => Quiet(slot)'
  BY <1>1, <1>3, Zenon DEF IInv, NetInv, Quiet
<1>6. \A x \in Sock \ open' : Quiet(x)' /\ x \notin alive' /\ x \notin broken'
  BY <1>1, Zenon DEF IInv, NetInv, Quiet
<1>. QED
  BY <1>4, <1>5, <1>6, Zenon DEF NetInv

LEMMA NetWrite == ASSUME IInv, NEW q \in Query, Write(q) PROVE NetInv'
<1>0. PICK s \in Sock : s = fd[q]
  BY Zenon DEF Write, IInv, TypeOK, PlaceOK
<1>7. PICK g \in BOOLEAN :
        LET r == [id |-> id[q], kind |-> kind[q], granted |-> g,
                  left |-> IF kind[q] = "list" THEN MaxElements ELSE 0]
        IN  requests' \in {requests, [requests EXCEPT ![s] = Append(requests[s], r)]}
  BY <1>0, Zenon DEF Write
<1>. DEFINE r == [id |-> id[q], kind |-> kind[q], granted |-> g,
                  left |-> IF kind[q] = "list" THEN MaxElements ELSE 0]
<1>1. /\ at[q] = "write" /\ at' = [at EXCEPT ![q] = "read"] /\ fd'[q] = s
      /\ UNCHANGED <<kind, id, fd, slot, open, alive, inbox, broken>>
      /\ requests' \in {requests, [requests EXCEPT ![s] = Append(requests[s], r)]}
  BY <1>0, <1>7, Zenon DEF Write, Go
<1>2. requests \in [Sock -> Seq(Request)] /\ r.id = id[q] /\ (kind[q] # "list" => r.left = 0)
  BY Zenon DEF IInv, NetTypeOK
<1>. HIDE DEF r
<1>3. Elsewhere(s)
  BY <1>1, <1>2, Zenon DEF Elsewhere
<1>4. SocketOK(q)'
  <2>1. SUFFICES ASSUME s \notin broken PROVE Answering(q, s)'
    BY <1>0, <1>1, Zenon DEF SocketOK, IInv, TypeOK
  <2>2. inbox'[s] = <<>> /\ requests[s] = <<>>
    BY <1>0, <1>1, <2>1, Zenon DEF IInv, NetInv, SocketOK, Quiet
  <2>3. requests'[s] \in {<<>>, <<r>>}
    BY <1>1, <1>2, <2>2
  <2>4. Len(requests'[s]) <= 1 /\ (requests'[s] # <<>> => requests'[s][1] = r)
    <3>1. /\ Len(<<>>) = 0 /\ Len(<<r>>) = 1 /\ <<r>>[1] = r
      BY Zenon
    <3>2. CASE requests'[s] = <<>>
      BY <3>1, <3>2
    <3>3. CASE requests'[s] = <<r>>
      BY <3>1, <3>3
    <3>. QED
      BY <2>3, <3>2, <3>3, Zenon
  <2>5. Len(inbox'[s]) = 0
    BY <2>2
  <2>6. \A i \in 1..Len(inbox'[s]) : FALSE
    BY <2>5
  <2>. QED
    BY <1>1, <1>2, <2>4, <2>6, Zenon DEF Answering
<1>5. \A x \in Query : x # q => at'[x] = at[x]
  BY <1>1, Zenon DEF IInv, TypeOK
<1>. QED
  BY <1>0, <1>1, <1>3, <1>4, <1>5, OwnSocket, Zenon

\* The answer is read: its last message is the last of all, and when there
\* is more to come the socket is marked.
LEMMA NetRead ==
    ASSUME IInv, NEW q \in Query, ReadStep(q)
    PROVE  NetInv'
<1>0. PICK s \in Sock : s = fd[q]
  BY Reading, Zenon
<1>1. /\ at[q] = "read" /\ inbox[s] # <<>> /\ inbox[s] \in Seq(Message)
      /\ at' = at \/ \E place \in {"release", "close"} : at' = [at EXCEPT ![q] = place]
      /\ broken' \in {broken, broken \cup {s}}
      /\ UNCHANGED <<kind, id, fd, slot, open, alive, requests>>
  BY <1>0, Reading, Zenon
<1>2. inbox \in [Sock -> Seq(Message)] /\ requests \in [Sock -> Seq(Request)]
  BY Zenon DEF IInv, NetTypeOK
<1>3. Elsewhere(s)
  <2>1. PICK box : inbox' = [inbox EXCEPT ![s] = box]
    BY <1>0, Reading, Zenon
  <2>2. \A x \in Sock \ {s} : x \in broken' <=> x \in broken
    BY <1>1, Zenon
  <2>3. \A x \in Sock \ {s} : inbox'[x] = inbox[x] /\ requests'[x] = requests[x]
    BY <1>1, <1>2, <2>1, Zenon
  <2>. QED
    BY <2>2, <2>3, Zenon DEF Elsewhere
<1>4. SocketOK(q) /\ fd'[q] = s /\ \A x \in Query : x # q => at'[x] = at[x]
  BY <1>0, <1>1, Zenon DEF IInv, TypeOK, NetInv
<1>5. SUFFICES ASSUME s \notin broken' PROVE SocketOK(q)'
  <2>1. s \in broken' => SocketOK(q)'
    BY <1>4, Zenon DEF SocketOK
  <2>. QED
    BY <1>0, <1>1, <1>3, <1>4, <1>5, <2>1, OwnSocket, Zenon
<1>6. broken' = broken /\ Answering(q, s)
  <2>1. broken' = broken
    BY <1>1, <1>5, Zenon
  <2>. QED
    BY <1>0, <1>1, <1>4, <1>5, <2>1, Zenon DEF SocketOK
<1>7. Len(inbox[s]) \in Nat /\ 1 \in 1..Len(inbox[s]) /\ Len(inbox[s]) >= 1
  BY <1>1, FirstOf
<1>8. ~BreakOff(q) /\ ~LeaveBody(q) /\ ~ReadRest(q)
  <2>1. inbox[s][1].what # "rest"
    BY <1>6, <1>7, Zenon DEF Answering
  <2>. QED
    BY <1>0, <1>5, <2>1, Zenon DEF BreakOff, LeaveBody, ReadRest, First
<1>9. /\ inbox'[s] = Tail(inbox[s]) /\ Len(inbox'[s]) = Len(inbox[s]) - 1
      /\ \A i \in 1..Len(inbox'[s]) : inbox'[s][i] = inbox[s][i + 1] /\ i + 1 \in 1..Len(inbox[s])
  <2>1. inbox'[s] = Tail(inbox[s])
    BY <1>0, <1>2, <1>8, Zenon DEF ReadStep, ReadDelay, ReadElement, ReadAnswer, Rest
  <2>. QED
    BY <1>1, <1>7, <2>1
<1>10. CASE ReadDelay(q) \/ ReadElement(q)
  <2>1. at' = at
    BY <1>10, Zenon DEF ReadDelay, ReadElement
  <2>2. \A i \in 1..Len(inbox'[s]) :
          /\ inbox'[s][i].id = id[q] /\ inbox'[s][i].what # "rest"
          /\ i < Len(inbox'[s]) \/ requests[s] # <<>> => inbox'[s][i].what \in {"element", "delay"}
          /\ inbox'[s][i].what = "element" => kind[q] = "list"
    <3>1. SUFFICES ASSUME NEW i \in 1..Len(inbox'[s])
          PROVE  /\ inbox'[s][i].id = id[q] /\ inbox'[s][i].what # "rest"
                 /\ i < Len(inbox'[s]) \/ requests[s] # <<>> => inbox'[s][i].what \in {"element", "delay"}
                 /\ inbox'[s][i].what = "element" => kind[q] = "list"
      BY Zenon
    <3>2. (i < Len(inbox'[s]) => i + 1 < Len(inbox[s]))
      BY <1>7, <1>9
    <3>. QED
      BY <1>6, <1>9, <3>2, Zenon DEF Answering
  <2>3. Answering(q, s)'
    BY <1>1, <1>6, <2>2, Zenon DEF Answering
  <2>. QED
    BY <1>1, <1>4, <2>1, <2>3, Zenon DEF SocketOK
<1>11. CASE ReadAnswer(q)
  <2>1. at'[q] \in {"release", "close"}
    BY <1>11, Zenon DEF ReadAnswer, AfterAnswer, Go, IInv, TypeOK
  <2>2. inbox[s][1].what \notin {"element", "delay"}
    <3>1. inbox[s][1].what = "final" \/ (kind[q] # "list" /\ inbox[s][1].what \in {"element", "answer"})
      BY <1>0, <1>11, Zenon DEF ReadAnswer, First, HasBody
    <3>2. inbox[s][1].what = "element" => kind[q] = "list"
      BY <1>6, <1>7, Zenon DEF Answering
    <3>. QED
      BY <3>1, <3>2
  <2>3. ~(1 < Len(inbox[s])) /\ requests[s] = <<>>
    BY <1>6, <1>7, <2>2, Zenon DEF Answering
  <2>4. inbox'[s] = <<>>
    <3>1. Len(inbox'[s]) = 0
      <4>1. Len(inbox[s]) \in Nat /\ Len(inbox[s]) >= 1 /\ ~(1 < Len(inbox[s]))
        BY <1>7, <2>3, Zenon
      <4>2. Len(inbox'[s]) = Len(inbox[s]) - 1
        BY <1>9, Zenon
      <4>3. \A n \in Nat : n >= 1 /\ ~(1 < n) => n - 1 = 0
        OBVIOUS
      <4>. QED
        BY <4>1, <4>2, <4>3, Zenon
    <3>2. Tail(inbox[s]) \in Seq(Message)
      BY <1>1
    <3>. QED
      BY <1>9, <3>1, <3>2, EmptySeq, Zenon
  <2>. QED
    BY <1>1, <1>4, <2>1, <2>3, <2>4, Zenon DEF SocketOK, Quiet
<1>. QED
  BY <1>8, <1>10, <1>11, Zenon DEF ReadStep

\* The server adds to the answer of the request it has, and to no other.
LEMMA NetRemote == ASSUME IInv, NEW s \in Sock, Remote(s) PROVE NetInv'
<1>1. /\ s \in open /\ UNCHANGED <<at, kind, id, fd, slot, open, broken>> /\ alive' \subseteq alive
      /\ Elsewhere(s)
  BY RemoteSteps, Zenon DEF client, Elsewhere
<1>2. /\ inbox[s] \in Seq(Message) /\ requests[s] \in Seq(Request)
      /\ Len(inbox[s]) \in Nat /\ Len(requests[s]) \in Nat
  BY DEF IInv, NetTypeOK
<1>3. Quiet(s) => Quiet(s)'
  BY RemoteSteps, Zenon DEF Quiet, Sends
<1>4. ASSUME NEW q \in Query, Answering(q, s) PROVE Answering(q, s)'
  <2>1. CASE requests'[s] = <<>> /\ inbox'[s] = inbox[s]
    BY <1>1, <1>4, <2>1, SMTT(30) DEF Answering
  <2>2. ASSUME NEW what \in Parts, Sends(s, what)
        PROVE  Answering(q, s)'
    <3>. DEFINE m == [id |-> requests[s][1].id, what |-> what, granted |-> requests[s][1].granted]
    <3>1. /\ Len(requests[s]) = 1 /\ requests[s][1].id = id[q] /\ requests[s][1] \in Request
          /\ kind[q] # "list" => requests[s][1].left = 0
      <4>1. /\ requests[s] # <<>> /\ Len(requests[s]) <= 1 /\ requests[s][1].id = id[q]
            /\ kind[q] # "list" => requests[s][1].left = 0
        BY <1>4, <2>2, Zenon DEF Answering, Sends
      <4>2. Len(requests[s]) = 1
        BY <1>2, <4>1, SingleSeq, Zenon
      <4>3. requests[s][1] \in Request
        BY <1>2, <4>2
      <4>. QED
        BY <4>1, <4>2, <4>3, Zenon
    <3>2. m.id = id[q] /\ m.what = what
      BY <3>1, Zenon
    <3>. HIDE DEF m
    <3>3. inbox'[s] = Append(inbox[s], m)
      BY <2>2, Zenon DEF m, Sends
    <3>4. what = "element" => kind[q] = "list"
      BY <2>2, <3>1 DEF Sends
    <3>5. /\ what \in {"element", "delay"} =>
                /\ Len(requests'[s]) = 1 /\ requests'[s][1].id = id[q]
                /\ kind[q] # "list" => requests'[s][1].left = 0
          /\ what \notin {"element", "delay"} => requests'[s] = <<>>
      <4>1. CASE what = "element"
        <5>1. requests'[s] = [requests[s] EXCEPT ![1].left = @ - 1] /\ kind[q] = "list"
          BY <2>2, <3>4, <4>1, Zenon DEF Sends
        <5>. QED
          BY <1>2, <3>1, <4>1, <5>1 DEF Request
      <4>2. CASE what = "delay"
        BY <2>2, <3>1, <4>2, Zenon DEF Sends
      <4>3. CASE what \in {"final", "answer"}
        <5>1. requests'[s] \in {<<>>, Tail(requests[s])}
          BY <2>2, <4>3, Zenon DEF Sends
        <5>2. Tail(requests[s]) = <<>>
          <6>1. requests[s] \in Seq(Request) /\ Len(requests[s]) = 1
            BY <1>2, <3>1, Zenon
          <6>2. Tail(requests[s]) \in Seq(Request) /\ Len(Tail(requests[s])) = 0
            BY <6>1
          <6>. QED
            BY <6>2, EmptySeq, Zenon
        <5>. QED
          BY <4>3, <5>1, <5>2
      <4>. QED
        BY <2>2, <4>1, <4>2, <4>3, Zenon DEF Parts
    <3>6. /\ Len(inbox'[s]) = Len(inbox[s]) + 1
          /\ \A i \in 1..Len(inbox[s]) : inbox'[s][i] = inbox[s][i]
          /\ inbox'[s][Len(inbox[s]) + 1] = m
      BY <1>2, <3>3
    <3>7. ASSUME NEW i \in 1..Len(inbox'[s])
          PROVE  /\ inbox'[s][i].id = id[q] /\ inbox'[s][i].what # "rest"
                 /\ i < Len(inbox'[s]) \/ requests'[s] # <<>> => inbox'[s][i].what \in {"element", "delay"}
                 /\ inbox'[s][i].what = "element" => kind[q] = "list"
      <4>1. i \in 1..Len(inbox[s]) \/ i = Len(inbox[s]) + 1
        BY <1>2, <3>6
      <4>2. CASE i \in 1..Len(inbox[s])
        BY <1>4, <2>2, <3>6, <4>2, Zenon DEF Answering, Sends
      <4>3. CASE i = Len(inbox[s]) + 1
        <5>1. ~(i < Len(inbox'[s])) /\ inbox'[s][i] = m /\ what # "rest"
          BY <1>2, <2>2, <3>6, <4>3 DEF Parts
        <5>. QED
          BY <3>2, <3>4, <3>5, <5>1, Zenon
      <4>. QED
        BY <4>1, <4>2, <4>3, Zenon
    <3>8. /\ Len(requests'[s]) <= 1
          /\ requests'[s] # <<>> => /\ requests'[s][1].id = id[q]
                                    /\ kind[q] # "list" => requests'[s][1].left = 0
      <4>1. CASE what \in {"element", "delay"}
        <5>1. Len(requests'[s]) = 1
          BY <3>5, <4>1, Zenon
        <5>2. Len(requests'[s]) <= 1
          BY <5>1
        <5>. QED
          BY <3>5, <4>1, <5>2, Zenon
      <4>2. CASE what \notin {"element", "delay"}
        <5>1. requests'[s] = <<>> /\ Len(<<>>) = 0
          BY <3>5, <4>2, Zenon
        <5>. QED
          BY <5>1
      <4>. QED
        BY <4>1, <4>2, Zenon
    <3>. QED
      BY <1>1, <3>7, <3>8, Zenon DEF Answering
  <2>. QED
    BY <2>1, <2>2, RemoteSteps, Zenon
<1>5. ASSUME NEW r \in Query PROVE SocketOK(r)'
  <2>1. CASE fd[r] = s
    BY <1>1, <1>3, <1>4, <2>1, Zenon DEF IInv, NetInv, SocketOK
  <2>2. CASE fd[r] # s
    BY <1>1, <2>2, OthersOK, Zenon DEF IInv, NetInv
  <2>. QED
    BY <2>1, <2>2, Zenon
<1>6. slot' \in Sock \ broken' => Quiet(slot)'
  BY <1>1, <1>3, Zenon DEF IInv, NetInv, Elsewhere, Quiet
<1>7. \A x \in Sock \ open' : Quiet(x)' /\ x \notin alive' /\ x \notin broken'
  BY <1>1, Zenon DEF IInv, NetInv, Elsewhere, Quiet
<1>. QED
  BY <1>5, <1>6, <1>7, Zenon DEF NetInv

-----------------------------------------------------------------------------
LEMMA NextIInv == IInv /\ [Next]_vars => IInv'
<1>. SUFFICES ASSUME IInv, [Next]_vars PROVE IInv'
  BY Zenon
<1>1. CASE Next
  <2>1. NetInv'
    BY <1>1, NetPeek, NetRelease, NetConnect, NetClosed, NetWrite, NetRead, NetRemote, Zenon
       DEF Next, Begin, QueryStep, ReadStep
  <2>. QED
    BY <1>1, <2>1, TypeStep, ExclusiveStep, PlaceStep, SlotStep, Zenon DEF IInv
<1>2. CASE UNCHANGED vars
  <2>1. UNCHANGED <<at, kind, id, fd, mine, slot, open, alive, requests, inbox, broken, reconnected, made>>
    BY <1>2, Zenon DEF vars
  <2>2. TypeOK' /\ NetTypeOK' /\ SocketExclusive' /\ \A q \in Query : PlaceOK(q)'
    BY <2>1, Zenon DEF IInv, TypeOK, NetTypeOK, SocketExclusive, PlaceOK
  <2>3. SlotInv'
    BY <2>1, ZenonT(30) DEF IInv, SlotInv, Owns
  <2>4. NetInv'
    BY <2>1 DEF IInv, NetInv, SocketOK, Quiet, Answering
  <2>. QED
    BY <2>2, <2>3, <2>4, Zenon DEF IInv
<1>. QED
  BY <1>1, <1>2, Zenon

LEMMA Invariance == Spec => []IInv
  BY InitIInv, NextIInv, PTL DEF Spec

\* Descriptors in use are open, wherever a query is.
THEOREM TypeCorrect == Spec => []TypeOK
<1>1. IInv => TypeOK
  BY Zenon DEF IInv
<1>. QED
  BY <1>1, Invariance, PTL

\* pin->file_descriptor and the descriptors of the queries never share a
\* socket, although To_Server also writes the slot without the bus lock.
THEOREM SocketExclusiveHolds == Spec => []SocketExclusive
<1>1. IInv => SocketExclusive
  BY Zenon DEF IInv
<1>. QED
  BY <1>1, Invariance, PTL

\* From_Server reads no message that was sent for another query's request,
\* on a connection on which every answer before was read to its end.
THEOREM OwnAnswerHolds == Spec => []OwnAnswerUnlessBroken
<1>1. ASSUME IInv, NEW q \in Query, at[q] = "read", fd[q] \notin broken, inbox[fd[q]] # <<>>
      PROVE  First(q).id = id[q]
  <2>1. fd[q] \in Sock /\ SocketOK(q)
    BY <1>1, Zenon DEF IInv, TypeOK, PlaceOK, NetInv
  <2>2. Answering(q, fd[q])
    BY <1>1, <2>1, Zenon DEF SocketOK
  <2>3. inbox[fd[q]] \in Seq(Message)
    BY <1>1, <2>1, Zenon DEF IInv, NetTypeOK
  <2>4. 1 \in 1..Len(inbox[fd[q]])
    BY <1>1, <2>3, FirstOf, Zenon
  <2>. QED
    BY <2>2, <2>4, Zenon DEF Answering, First
<1>2. IInv => OwnAnswerUnlessBroken
  BY <1>1, Zenon DEF OwnAnswerUnlessBroken
<1>. QED
  BY <1>2, Invariance, PTL

\* Until some query has had to connect again, the slot is marked in use just
\* while a query has the persistent connection to give back.
THEOREM SlotOwnedHolds == Spec => []SlotOwned
<1>1. IInv => SlotOwned
  BY Zenon DEF IInv, SlotInv, SlotOwned, Owns
<1>. QED
  BY <1>1, Invariance, PTL

-----------------------------------------------------------------------------
(* The answer to a request (PingLoop) *)

\* The final message of the request is on the wire.
Final == wire # <<>> /\ wire[Len(wire)] = "final"

\* Nothing follows it, and DataHandler knows if it is there.
WireOK ==
    /\ \A i \in 1..Len(wire) : wire[i] = "final" => i = Len(wire)
    /\ loop = "start" => wire = <<>>
    /\ loop = "failed" => ~Final
    /\ loop = "done" => Final
    /\ data \in {"work", "element"} => ~Final
    /\ data \in {"final", "ended"} => Final

\* Who holds to_client, and what DataHandler has told the loop.
DataOK ==
    /\ data = "none" <=> loop \in {"start", "done", "failed"}
    /\ mutex = "data" <=> data \in {"element", "final"}
    /\ mutex = "loop" <=> loop = "locked"
    /\ pipe = IF data = "ended" THEN 1 ELSE 0
    /\ data \in {"work", "element", "final"} => toclient # "complete"
    /\ data = "ended" => toclient = "complete"
    /\ sent /\ data = "work" => toclient = "postmessage"

\* What the loop may conclude from select and from hd->toclient.
LoopOK ==
    /\ loop = "returned" /\ selected = "ready" => data = "ended"
    /\ loop = "locked" /\ current = "complete" => data = "ended"
    /\ loop = "locked" /\ current # "complete" => toclient = current
    /\ loop = "join" /\ ~inline => data = "ended"

ReplyInv == PTypeOK /\ WireOK /\ DataOK /\ LoopOK

-----------------------------------------------------------------------------
\* A message that is sent is the last on the wire.
LEMMA Sending ==
    ASSUME NEW m \in {"ping", "element", "final"},
           wire \in Seq({"ping", "element", "final"}), wire' = Append(wire, m)
    PROVE  /\ wire' \in Seq({"ping", "element", "final"})
           /\ Len(wire') = Len(wire) + 1 /\ wire'[Len(wire')] = m
           /\ \A i \in 1..Len(wire) : wire'[i] = wire[i]
           /\ wire' # wire
           /\ Final' <=> m = "final"
  BY DEF Final

\* A delay message or an element, or the only final one, keeps the final
\* message last.
LEMMA FinalLast ==
    ASSUME NEW m \in {"ping", "element", "final"}, PTypeOK, WireOK, ~Final,
           wire' = Append(wire, m)
    PROVE  \A i \in 1..Len(wire') : wire'[i] = "final" => i = Len(wire')
<1>1. ASSUME NEW i \in 1..Len(wire) PROVE wire[i] # "final"
  BY <1>1 DEF PTypeOK, WireOK, Final
<1>. QED
  BY <1>1, Sending DEF PTypeOK

LEMMA ReplyInitially == ASSUME PInit PROVE ReplyInv
<1>1. wire \in Seq({"ping", "element", "final"}) /\ Len(wire) = 0 /\ ~Final
  BY DEF PInit, Final
<1>2. dir \in BOOLEAN /\ inline \in BOOLEAN /\ sent \in BOOLEAN
  BY Zenon DEF PInit
<1>3. PTypeOK
  BY <1>1, <1>2 DEF PInit, PTypeOK
<1>. QED
  BY <1>1, <1>3 DEF PInit, ReplyInv, WireOK, DataOK, LoopOK

\* The loop pings only while the data thread works.
LEMMA PingingWorks ==
    ASSUME ReplyInv, loop = "locked", current # "complete"
    PROVE  data = "work" /\ ~Final
  BY Zenon DEF ReplyInv, PTypeOK, WireOK, DataOK, LoopOK

LEMMA ReplyPreserved == ASSUME ReplyInv, [PNext]_pvars PROVE ReplyInv'
<1>. USE DEF ReplyInv, PTypeOK
<1>1. ASSUME NEW crazy \in BOOLEAN, loop = "start",
             wire' = IF crazy THEN Append(wire, "ping") ELSE wire
      PROVE  /\ wire' \in Seq({"ping", "element", "final"}) /\ ~Final'
             /\ \A i \in 1..Len(wire') : wire'[i] # "final"
  <2>1. wire = <<>> /\ wire \in Seq({"ping", "element", "final"})
    BY <1>1, Zenon DEF WireOK
  <2>2. CASE wire' = wire
    BY <2>1, <2>2 DEF Final
  <2>3. CASE wire' = Append(wire, "ping")
    BY <2>1, <2>3, Sending
  <2>. QED BY <1>1, <2>2, <2>3, Zenon
<1>2. ASSUME NEW crazy \in BOOLEAN, NEW noThread \in BOOLEAN, StartRequest(crazy, noThread)
      PROVE  ReplyInv'
  <2>0. inline' \in BOOLEAN /\ sent' \in BOOLEAN
    BY <1>2, Zenon DEF StartRequest
  <2>1. PTypeOK'
    BY <1>2, <1>1, <2>0 DEF StartRequest
  <2>2. WireOK'
    BY <1>2, <1>1, Zenon DEF StartRequest, WireOK
  <2>3. DataOK' /\ LoopOK'
    BY <1>2, Zenon DEF StartRequest, DataOK, LoopOK
  <2>. QED BY <2>1, <2>2, <2>3, Zenon
<1>3. ASSUME NEW crazy \in BOOLEAN, SetupFails(crazy) PROVE ReplyInv'
  <2>1. PTypeOK'
    BY <1>3, <1>1 DEF SetupFails
  <2>2. WireOK'
    BY <1>3, <1>1, Zenon DEF SetupFails, WireOK, DataOK
  <2>3. DataOK' /\ LoopOK'
    BY <1>3, Zenon DEF SetupFails, DataOK, LoopOK
  <2>. QED BY <2>1, <2>2, <2>3, Zenon
<1>4. ASSUME NEW result \in {"ready", "timeout", "error"}, Select(result) PROVE ReplyInv'
  BY <1>4 DEF Select, WireOK, DataOK, LoopOK, Final
<1>5. ASSUME LoopLock PROVE ReplyInv'
  BY <1>5, Zenon DEF LoopLock, WireOK, DataOK, LoopOK, Final
<1>6. ASSUME PingOrSend PROVE ReplyInv'
  <2>1. CASE UNCHANGED wire
    BY <1>6, <2>1, Zenon DEF PingOrSend, WireOK, DataOK, LoopOK, Final
  <2>2. CASE wire' = Append(wire, "ping") /\ current # "complete"
    <3>1. data = "work" /\ ~Final
      BY <1>6, <2>2, PingingWorks, Zenon DEF PingOrSend
    <3>2. wire' \in Seq({"ping", "element", "final"}) /\ ~Final'
      BY <2>2, Sending, Zenon
    <3>3. WireOK'
      BY <1>6, <2>2, <3>1, <3>2, FinalLast, Zenon DEF PingOrSend, WireOK
    <3>4. PTypeOK' /\ DataOK' /\ LoopOK'
      BY <1>6, <2>2, <3>1, <3>2, Zenon DEF PingOrSend, DataOK, LoopOK
    <3>. QED BY <3>3, <3>4, Zenon
  <2>. QED BY <1>6, <2>1, <2>2, Zenon DEF PingOrSend
<1>7. ASSUME Join PROVE ReplyInv'
  BY <1>7 DEF Join, WireOK, DataOK, LoopOK, Final
<1>8. ASSUME NextRequest PROVE ReplyInv'
  <2>1. wire' \in Seq({"ping", "element", "final"}) /\ ~Final' /\ Len(wire') = 0
    BY <1>8 DEF NextRequest, Final
  <2>. QED BY <1>8, <2>1 DEF NextRequest, WireOK, DataOK, LoopOK
<1>9. ASSUME ElementToClient PROVE ReplyInv'
  <2>1. wire' \in Seq({"ping", "element", "final"}) /\ ~Final'
    BY <1>9, Sending, Zenon DEF ElementToClient
  <2>2. WireOK'
    BY <1>9, <2>1, FinalLast, Zenon DEF ElementToClient, WireOK, DataOK
  <2>3. PTypeOK' /\ DataOK' /\ LoopOK'
    BY <1>9, <2>1, Zenon DEF ElementToClient, DataOK, LoopOK
  <2>. QED BY <2>2, <2>3, Zenon
<1>10. ASSUME FinalToClient PROVE ReplyInv'
  <2>1. wire' \in Seq({"ping", "element", "final"}) /\ Final'
    BY <1>10, Sending, Zenon DEF FinalToClient
  <2>2. WireOK'
    BY <1>10, <2>1, FinalLast, Zenon DEF FinalToClient, WireOK, DataOK
  <2>3. PTypeOK' /\ DataOK' /\ LoopOK'
    BY <1>10, <2>1, Zenon DEF FinalToClient, DataOK, LoopOK
  <2>. QED BY <2>2, <2>3, Zenon
<1>11. ASSUME ElementDone PROVE ReplyInv'
  BY <1>11 DEF ElementDone, WireOK, DataOK, LoopOK, Final
<1>12. ASSUME SignalDone PROVE ReplyInv'
  BY <1>12 DEF SignalDone, WireOK, DataOK, LoopOK, Final
<1>13. CASE UNCHANGED pvars
  BY <1>13 DEF pvars, WireOK, DataOK, LoopOK, Final
<1>. QED
  BY <1>2, <1>3, <1>4, <1>5, <1>6, <1>7, <1>8, <1>9, <1>10, <1>11, <1>12, <1>13
  DEF PNext, LoopStep, DataStep

LEMMA ReplyAlways == PSpec => []ReplyInv
  BY ReplyInitially, ReplyPreserved, PTL DEF PSpec

-----------------------------------------------------------------------------
\* The connection's thread gives up pinging only when the one final message
\* of the request is on the wire, for any number of pings and elements.
THEOREM PingsUntilAnsweredHolds == PSpec => []PingsUntilAnswered
<1>1. ASSUME ReplyInv PROVE PingsUntilAnswered
  <2>1. ASSUME Final
        PROVE  /\ Len(wire) \in 1..Len(wire)
               /\ \A j \in 1..Len(wire) : wire[j] = "final" <=> j = Len(wire)
    BY <1>1, <2>1 DEF ReplyInv, PTypeOK, WireOK, Final
  <2>. QED BY <1>1, <2>1, Zenon DEF ReplyInv, WireOK, LoopOK, PingsUntilAnswered
<1>. QED BY <1>1, ReplyAlways, PTL

\* A delay message after a timeout is never sent although an element was
\* sent during the interval.
THEOREM PingMeansQuietHolds == PSpec => PingMeansQuiet
<1>1. ASSUME ReplyInv, [PNext]_pvars, loop = "locked", selected = "timeout", wire' # wire
      PROVE  ~sent
  <2>1. PingOrSend
    BY <1>1, Zenon DEF ReplyInv, PTypeOK, DataOK, PNext, LoopStep, DataStep, pvars,
       StartRequest, SetupFails, Select, LoopLock, Join, NextRequest,
       ElementToClient, ElementDone, FinalToClient, SignalDone
  <2>2. current \notin {"complete", "postmessage"} /\ toclient = current
    BY <1>1, <2>1, Zenon DEF PingOrSend, ReplyInv, LoopOK
  <2>. QED BY <1>1, <2>2, PingingWorks, Zenon DEF ReplyInv, DataOK
<1>. QED BY <1>1, ReplyAlways, PTL DEF PSpec, PingMeansQuiet

\* The two threads together answer as Reply promises: every step of theirs
\* sends what Reply allows next, or nothing.
THEOREM ImplementsReplyHolds == PSpec => ImplementsReply
<1>1. ASSUME PInit PROVE R!Init
  BY <1>1, Zenon DEF PInit, R!Init
<1>2. ASSUME ReplyInv, [PNext]_pvars
      PROVE  [R!Next]_<<wire, dir, loop = "failed">>
  <2>. USE <1>2 DEF ReplyInv, PTypeOK
  <2>0. Final <=> R!Answered
    BY Zenon DEF Final, R!Answered
  <2>1. ASSUME NEW m \in {"ping", "element", "final"}, wire' = Append(wire, m), ~Final,
               loop # "failed", loop' # "failed", m = "element" => dir, dir' = dir
        PROVE  R!Next
    BY <2>0, <2>1, Zenon DEF R!Next, R!Send, R!Message
  <2>2. ASSUME NEW crazy \in BOOLEAN, NEW noThread \in BOOLEAN, StartRequest(crazy, noThread)
        PROVE  R!Next \/ UNCHANGED <<wire, dir, loop = "failed">>
    <3>1. ~Final
      BY <2>2, Zenon DEF StartRequest, WireOK, Final
    <3>. QED BY <3>1, <2>2, <2>1, Zenon DEF StartRequest
  <2>3. ASSUME NEW crazy \in BOOLEAN, SetupFails(crazy) PROVE R!Next
    <3>1. wire = <<>> /\ ~Final /\ \A i \in 1..Len(wire) : wire[i] = "ping"
      BY <2>3 DEF SetupFails, WireOK, Final
    <3>. QED BY <3>1, <2>0, <2>3, Zenon DEF SetupFails, R!Next, R!GiveUp
  <2>4. ASSUME PingOrSend
        PROVE  R!Next \/ UNCHANGED <<wire, dir, loop = "failed">>
    <3>1. CASE UNCHANGED wire
      BY <2>4, <3>1, Zenon DEF PingOrSend
    <3>2. CASE wire' = Append(wire, "ping") /\ current # "complete"
      BY <2>4, <3>2, <2>1, PingingWorks, Zenon DEF PingOrSend
    <3>. QED BY <2>4, <3>1, <3>2, Zenon DEF PingOrSend
  <2>5. ASSUME NextRequest PROVE R!Next
    BY <2>5, <2>0, Zenon DEF NextRequest, R!Next, R!NextRequest, WireOK
  <2>6. ASSUME ElementToClient \/ FinalToClient PROVE R!Next
    BY <2>6, <2>1, Zenon DEF ElementToClient, FinalToClient, WireOK, DataOK
  <2>7. ASSUME \/ \E result \in {"ready", "timeout", "error"} : Select(result)
               \/ LoopLock \/ Join \/ ElementDone \/ SignalDone \/ UNCHANGED pvars
        PROVE  UNCHANGED <<wire, dir, loop = "failed">>
    BY <2>7, Zenon DEF Select, LoopLock, Join, ElementDone, SignalDone, pvars
  <2>. QED
    BY <2>2, <2>3, <2>4, <2>5, <2>6, <2>7, Zenon DEF PNext, LoopStep, DataStep
<1>. QED BY <1>1, <1>2, ReplyAlways, PTL DEF PSpec, ImplementsReply, R!Spec

-----------------------------------------------------------------------------
(* The chain of servers (Antiloop) *)

\* Behind its first place the token list names the servers of the chain.
TokensName ==
    \A i \in 2..Len(tokens) : start + i <= Len(chain) /\ tokens[i] = chain[start + i]

\* The server that has accepted the request is the last of the chain.
AcceptedIsLast == state = "accepted" => chain[Len(chain)] = to

ChainInv == ATypeOK /\ TokensName /\ AcceptedIsLast /\ NoLoopBehindFirst

\* What FromClient passes on differs from what came in at the first place
\* at most.
LEMMA ReceivedKeeps ==
    ASSUME NEW ts \in Seq(Server \cup {Mangled}), NEW t
    PROVE  /\ Received(ts, t) \in Seq(Server \cup {Mangled})
           /\ Len(Received(ts, t)) = Len(ts)
           /\ \A i \in 2..Len(ts) : Received(ts, t)[i] = ts[i]
<1>1. CASE Received(ts, t) = ts
  BY <1>1, Zenon
<1>2. CASE Received(ts, t) # ts
  <2>1. ts # <<>> /\ Received(ts, t) = [ts EXCEPT ![1] = Mangled]
    BY <1>2, Zenon DEF Received, Mangle
  <2>2. Len(ts) \in Nat /\ 1 \in 1..Len(ts)
    BY <2>1
  <2>. QED
    BY <2>1, <2>2
<1>. QED
  BY <1>1, <1>2, Zenon

LEMMA ChainInitially == AInit => ChainInv
  BY DEF AInit, Types, ChainInv, ATypeOK, TokensName, AcceptedIsLast, NoLoopBehindFirst

LEMMA FromClientChain ==
    ASSUME ChainInv, FromClient
    PROVE  ChainInv'
<1>. USE DEF ChainInv, ATypeOK
<1>. DEFINE ts == Received(tokens, type)
<1>1. /\ tokens' = ts /\ state = "sent" /\ UNCHANGED <<start, type, to>>
      /\ \/ ~Carries(ts, to) /\ state' = "accepted" /\ chain' = Append(chain, to)
         \/ Carries(ts, to) /\ state' = "refused" /\ chain' = chain
  BY Zenon DEF FromClient
<1>2. /\ ts \in Seq(Server \cup {Mangled}) /\ Len(ts) = Len(tokens)
      /\ \A i \in 2..Len(tokens) : ts[i] = tokens[i]
  BY ReceivedKeeps, Zenon
<1>3. Len(chain) = start + Len(tokens) /\ start \in Nat /\ Len(tokens) \in Nat
  BY <1>1
<1>. HIDE DEF ts
<1>4. CASE Carries(ts, to) /\ state' = "refused" /\ chain' = chain
  <2>1. ATypeOK'
    BY <1>1, <1>2, <1>3, <1>4
  <2>. QED
    BY <1>1, <1>2, <1>4, <2>1, Zenon DEF TokensName, AcceptedIsLast, NoLoopBehindFirst
<1>5. CASE ~Carries(ts, to) /\ state' = "accepted" /\ chain' = Append(chain, to)
  <2>1. /\ chain' \in Seq(Server) /\ Len(chain') = Len(chain) + 1
        /\ \A i \in 1..Len(chain) : chain'[i] = chain[i]
        /\ chain'[Len(chain) + 1] = to
    <3>1. chain \in Seq(Server) /\ to \in Server /\ chain' = Append(chain, to)
      BY <1>5
    <3>. HIDE DEF ChainInv, ATypeOK
    <3>. QED
      BY <3>1
  <2>2. ASSUME NEW i \in (start + 2)..Len(chain) PROVE chain[i] # to
    <3>1. i - start \in 2..Len(tokens) /\ start + (i - start) = i
      BY <1>3, <2>2
    <3>2. tokens[i - start] = chain[i] /\ ts[i - start] = tokens[i - start]
      BY <1>2, <3>1, Zenon DEF TokensName
    <3>3. i - start \in 1..Len(ts)
      BY <1>2, <1>3, <3>1
    <3>. QED
      BY <1>5, <3>2, <3>3, Zenon DEF Carries
  <2>3. ATypeOK'
    BY <1>1, <1>2, <1>3, <1>5, <2>1
  <2>4. TokensName'
    BY <1>1, <1>2, <1>3, <2>1 DEF TokensName
  <2>5. NoLoopBehindFirst'
    <3>1. Len(chain) \in Nat /\ start \in Nat /\ start' = start /\ NoLoopBehindFirst
      BY <1>1
    <3>. HIDE DEF ChainInv, ATypeOK
    <3>. SUFFICES ASSUME NEW i \in (start + 2)..Len(chain'), NEW j \in (start + 2)..Len(chain'),
                         chain'[i] = chain'[j]
                  PROVE  i = j
      BY <3>1, Zenon DEF NoLoopBehindFirst
    <3>2. /\ i \in (start + 2)..Len(chain) \/ i = Len(chain) + 1
          /\ j \in (start + 2)..Len(chain) \/ j = Len(chain) + 1
      BY <2>1, <3>1
    <3>3. \A k \in (start + 2)..Len(chain) : chain'[k] = chain[k] /\ chain'[k] # to
      <4>1. \A k \in (start + 2)..Len(chain) : k \in 1..Len(chain)
        BY <3>1
      <4>. QED
        BY <2>1, <2>2, <4>1, Zenon
    <3>4. CASE i \in (start + 2)..Len(chain) /\ j \in (start + 2)..Len(chain)
      BY <3>1, <3>3, <3>4, Zenon DEF NoLoopBehindFirst
    <3>5. CASE i = Len(chain) + 1 \/ j = Len(chain) + 1
      BY <2>1, <3>2, <3>3, <3>5, Zenon
    <3>. QED
      BY <3>2, <3>4, <3>5, Zenon
  <2>6. AcceptedIsLast'
    BY <1>1, <2>1, Zenon DEF AcceptedIsLast
  <2>. QED
    BY <2>3, <2>4, <2>5, <2>6, Zenon
<1>. QED
  BY <1>1, <1>4, <1>5, Zenon

\* The presence request starts a list of its own, with its sender alone.
LEMMA ParsePresenceChain ==
    ASSUME ChainInv, NEW s \in Server, ParsePresence(s)
    PROVE  ChainInv'
<1>. USE DEF ChainInv, ATypeOK
<1>1. /\ state = "accepted" /\ state' = "sent" /\ to' = s /\ chain' = chain
      /\ tokens' = <<to>> /\ start' = Len(chain) - 1 /\ type' = "presence"
  BY Zenon DEF ParsePresence
<1>2. Len(chain) \in Nat /\ Len(chain) >= 1
  BY <1>1
<1>3. tokens' \in Seq(Server \cup {Mangled}) /\ Len(tokens') = 1
  BY <1>1
<1>4. ATypeOK'
  BY <1>1, <1>2, <1>3 DEF Types
<1>5. TokensName' /\ AcceptedIsLast' /\ NoLoopBehindFirst'
  BY <1>1, <1>2, <1>3 DEF TokensName, AcceptedIsLast, NoLoopBehindFirst
<1>. QED
  BY <1>4, <1>5, Zenon

LEMMA WriteToServerChain ==
    ASSUME ChainInv, NEW s \in Server, WriteToServer(s)
    PROVE  ChainInv'
<1>. USE DEF ChainInv, ATypeOK
<1>1. /\ state = "accepted" /\ state' = "sent" /\ to' = s /\ chain' = chain /\ start' = start
      /\ type' \in {type, "presence"}
      /\ tokens' = Append(tokens, to) /\ Len(chain) = start + Len(tokens) + 1
  BY Zenon DEF WriteToServer
<1>2. /\ tokens' \in Seq(Server \cup {Mangled}) /\ Len(tokens') = Len(tokens) + 1
      /\ \A i \in 1..Len(tokens) : tokens'[i] = tokens[i]
      /\ tokens'[Len(tokens) + 1] = to
  BY <1>1
<1>3. ATypeOK'
  BY <1>1, <1>2 DEF Types
<1>4. TokensName'
  <2>1. /\ start \in Nat /\ Len(tokens) \in Nat /\ TokensName
        /\ chain[start + (Len(tokens) + 1)] = to
    BY <1>1 DEF AcceptedIsLast
  <2>. HIDE DEF ChainInv, ATypeOK
  <2>2. ASSUME NEW i \in 2..Len(tokens')
        PROVE  start + i <= Len(chain) /\ tokens'[i] = chain[start + i]
    <3>1. CASE i = Len(tokens) + 1
      BY <1>1, <1>2, <2>1, <3>1
    <3>2. CASE i \in 2..Len(tokens)
      <4>1. i \in 1..Len(tokens)
        BY <2>1, <3>2
      <4>. QED
        BY <1>2, <2>1, <3>2, <4>1, Zenon DEF TokensName
    <3>. QED
      BY <1>2, <2>1, <2>2, <3>1, <3>2
  <2>. QED
    BY <1>1, <2>2, Zenon DEF TokensName
<1>. QED
  BY <1>1, <1>3, <1>4, Zenon DEF NoLoopBehindFirst, AcceptedIsLast

LEMMA NewRequestChain ==
    ASSUME ChainInv, NEW s \in Server, NewRequest(s)
    PROVE  ChainInv'
  BY DEF NewRequest, Types, ChainInv, ATypeOK, TokensName, AcceptedIsLast, NoLoopBehindFirst

LEMMA ChainPreserved == ChainInv /\ [ANext]_avars => ChainInv'
<1>. SUFFICES ASSUME ChainInv, [ANext]_avars PROVE ChainInv'
  BY Zenon
<1>1. CASE UNCHANGED avars
  BY <1>1, Zenon DEF avars, ChainInv, ATypeOK, TokensName, AcceptedIsLast, NoLoopBehindFirst
<1>2. CASE ANext
  BY <1>2, FromClientChain, ParsePresenceChain, WriteToServerChain, NewRequestChain, Zenon
     DEF ANext, Forward
<1>. QED
  BY <1>1, <1>2, Zenon

\* Every message on its way bears one token for each server that has accepted
\* it since the request, or the presence request made on the way, was sent
\* for the first time.
THEOREM TokensCorrect == ASpec => []ATypeOK
<1>1. ChainInv => ATypeOK
  BY Zenon DEF ChainInv
<1>. QED
  BY ChainInitially, ChainPreserved, <1>1, PTL DEF ASpec

\* FromClient stops a request at every server whose token it should bear,
\* except the first: for any number of servers and any connections between
\* them.  Presence requests made while a path is parsed start anew.
THEOREM LoopsEnd == ASpec => []NoLoopBehindFirst
<1>1. ChainInv => NoLoopBehindFirst
  BY Zenon DEF ChainInv
<1>. QED
  BY ChainInitially, ChainPreserved, <1>1, PTL DEF ASpec
=============================================================================
