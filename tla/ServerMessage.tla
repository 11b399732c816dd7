---------------------------- MODULE ServerMessage ----------------------------
(***************************************************************************)
(* The client side of the owserver protocol (ow_server_message.c): queries *)
(* in many threads send requests to one remote owserver.  One TCP          *)
(* connection may be kept open between requests; its file descriptor is    *)
(* kept in pin->file_descriptor, here called slot.  A query that finds the *)
(* slot in use makes a connection of its own and closes it afterwards.     *)
(*                                                                         *)
(* The remote end of each socket behaves as Handler and Reply say: it      *)
(* answers requests in order, with directory elements before the final     *)
(* message where the request was msg_dir, with delay messages in between,  *)
(* and with the persistence it grants in every message.                    *)
(***************************************************************************)
EXTENDS Naturals, Sequences, FiniteSets

CONSTANTS Query,       \* threads with a query for the remote server
          Sock,        \* file descriptors of sockets
          Bad,         \* FILE_DESCRIPTOR_BAD
          InUse,       \* FILE_DESCRIPTOR_PERSISTENT_IN_USE
          Kinds,       \* requests made: "read" (read, write), "one" (presence, dirall), "list" (dir)
          MaxRequests, \* bound on the requests of a run
          MaxElements  \* bound on the elements of one directory

ASSUME DescriptorAssumption == Bad \notin Sock /\ InUse \notin Sock /\ Bad # InUse
ASSUME BoundsAssumption ==
    MaxRequests \in Nat /\ MaxElements \in Nat /\ Kinds \subseteq {"read", "one", "list"}

VARIABLES
    at,        \* where a query is
    kind,      \* what it asks for
    id,        \* number of its current request (history)
    fd,        \* scs->file_descriptor
    mine,      \* scs->persistence = persistent_yes
    slot,      \* pin->file_descriptor
    open,      \* sockets the client has open
    alive,     \* sockets the server has open
    requests,  \* per socket: requests written and not yet answered in full, with
               \* the number of elements their lists may still have and
               \* whether the server grants persistence
    inbox,     \* per socket: messages on their way to the client; an "element" of
               \* a list and an "answer" have a body, a "final" message and a
               \* "delay" have none, and a "rest" is a body without its header
    broken,    \* sockets on which an answer was not read to its end (history)
    reconnected, \* some query has had to connect again (history)
    made       \* number of requests so far

vars == <<at, kind, id, fd, mine, slot, open, alive, requests, inbox, broken, reconnected, made>>
client == <<at, kind, id, fd, mine, slot, reconnected, made>>
network == <<open, alive, requests, inbox, broken>>

TypeOK ==
    /\ at \in [Query -> {"idle", "peek", "reconnect", "mark", "write", "read", "close", "release"}]
    /\ kind \in [Query -> {"read", "one", "list"}]
    /\ id \in [Query -> 0..MaxRequests] /\ reconnected \in BOOLEAN
    /\ made \in 0..MaxRequests
    /\ fd \in [Query -> Sock \cup {Bad}]
    /\ mine \in [Query -> BOOLEAN]
    /\ slot \in Sock \cup {Bad, InUse}
    /\ open \subseteq Sock /\ alive \subseteq Sock /\ broken \subseteq Sock
    /\ \A q \in Query : fd[q] # Bad => fd[q] \in open
    /\ slot \in Sock => slot \in open

Init ==
    /\ at = [q \in Query |-> "idle"] /\ kind = [q \in Query |-> "read"]
    /\ id = [q \in Query |-> 0] /\ broken = {} /\ reconnected = FALSE /\ made = 0
    /\ fd = [q \in Query |-> Bad] /\ mine = [q \in Query |-> FALSE]
    /\ slot = Bad /\ open = {} /\ alive = {}
    /\ requests = [s \in Sock |-> <<>>] /\ inbox = [s \in Sock |-> <<>>]

\* ClientConnect: a new socket with a server behind it, or none.
Connected(s) ==
    \/ /\ s \in Sock \ open
       /\ open' = open \cup {s} /\ alive' = alive \cup {s}
       /\ UNCHANGED <<requests, inbox, broken>>
    \/ s = Bad /\ UNCHANGED network

\* Test_and_Close(&(scs->file_descriptor))
Closed(q) ==
    /\ fd' = [fd EXCEPT ![q] = Bad]
    /\ open' = open \ {fd[q]} /\ alive' = alive \ {fd[q]} /\ broken' = broken \ {fd[q]}
    /\ requests' = [s \in Sock |-> IF s = fd[q] THEN <<>> ELSE requests[s]]
    /\ inbox' = [s \in Sock |-> IF s = fd[q] THEN <<>> ELSE inbox[s]]

Go(q, to) == at' = [at EXCEPT ![q] = to]

-----------------------------------------------------------------------------
(* To_Server *)

\* Variant: the idle connection is used but not marked as in use.
Claim_NotMarked(q, k, s) ==
    /\ at[q] = "idle" /\ made < MaxRequests /\ k \in Kinds
    /\ made' = made + 1 /\ id' = [id EXCEPT ![q] = made + 1]
    /\ kind' = [kind EXCEPT ![q] = k] /\ UNCHANGED reconnected
    /\ Go(q, "peek")
    /\ fd' = [fd EXCEPT ![q] = s]
    /\ mine' = [mine EXCEPT ![q] = slot # InUse]
    /\ \/ slot \in Sock /\ s = slot /\ UNCHANGED <<slot, network>>
       \/ slot = Bad /\ Connected(s) /\ slot' = IF s = Bad THEN Bad ELSE InUse
       \/ slot = InUse /\ Connected(s) /\ UNCHANGED slot

\* Under BUSLOCKIN: take over the idle persistent connection, or connect and
\* claim the slot, or (slot in use) connect without persistence.
Claim(q, k, s) ==
    /\ at[q] = "idle" /\ made < MaxRequests /\ k \in Kinds
    /\ made' = made + 1 /\ id' = [id EXCEPT ![q] = made + 1]
    /\ kind' = [kind EXCEPT ![q] = k] /\ UNCHANGED reconnected
    /\ Go(q, "peek")
    /\ fd' = [fd EXCEPT ![q] = s]
    /\ mine' = [mine EXCEPT ![q] = slot # InUse]
    /\ \/ slot \in Sock /\ s = slot /\ slot' = InUse /\ UNCHANGED network
       \/ slot = Bad /\ Connected(s) /\ slot' = IF s = Bad THEN Bad ELSE InUse
       \/ slot = InUse /\ Connected(s) /\ UNCHANGED slot

\* recv with MSG_PEEK: there is something to read, or nothing yet.
PeekGood(q) ==
    /\ at[q] = "peek" /\ fd[q] # Bad
    /\ fd[q] \notin alive => inbox[fd[q]] # <<>>
    /\ Go(q, "write")
    /\ UNCHANGED <<kind, id, fd, mine, slot, reconnected, made, network>>

\* The server has closed, or there is no socket: Close_Persistent.
PeekClosed(q) ==
    /\ at[q] = "peek"
    /\ fd[q] # Bad => fd[q] \notin alive /\ inbox[fd[q]] = <<>>
    /\ slot' = IF mine[q] THEN Bad ELSE slot
    /\ mine' = [mine EXCEPT ![q] = FALSE]
    /\ Closed(q) /\ Go(q, "reconnect") /\ reconnected' = TRUE
    /\ UNCHANGED <<kind, id, made>>

\* ... then ClientConnect, outside the bus lock
Reconnect(q, s) ==
    /\ at[q] = "reconnect" /\ Connected(s)
    /\ fd' = [fd EXCEPT ![q] = s]
    /\ Go(q, IF s = Bad THEN "idle" ELSE "mark")
    /\ UNCHANGED <<kind, id, mine, slot, reconnected, made>>

\* ... and the slot is marked, also outside the bus lock.
MarkInUse(q) ==
    /\ at[q] = "mark" /\ slot' = InUse /\ Go(q, "write")
    /\ UNCHANGED <<kind, id, fd, mine, reconnected, made, network>>

\* WriteToServer: its result (writev() != length) is never negative, so a
\* failed write is not noticed here.
Write(q) ==
    /\ at[q] = "write" /\ Go(q, "read")
    /\ \/ /\ fd[q] \in alive
          /\ \E g \in BOOLEAN :
               requests' = [requests EXCEPT ![fd[q]] = Append(@, [id |-> id[q], kind |-> kind[q],
                                granted |-> g, left |-> IF kind[q] = "list" THEN MaxElements ELSE 0])]
       \/ fd[q] \notin alive /\ UNCHANGED requests
    /\ UNCHANGED <<kind, id, fd, mine, slot, reconnected, made, open, alive, inbox, broken>>

-----------------------------------------------------------------------------
(* From_Server, From_ServerAlloc and Release_Persistent *)

First(q) == inbox[fd[q]][1]
Rest(q) == [inbox EXCEPT ![fd[q]] = Tail(@)]
AfterAnswer(q, granted) == Go(q, IF granted /\ mine[q] THEN "release" ELSE "close")

HasBody(m) == m.what \in {"element", "answer"}

\* A delay message (payload < 0): the timeout starts again.
ReadDelay(q) ==
    /\ at[q] = "read" /\ inbox[fd[q]] # <<>> /\ First(q).what = "delay"
    /\ inbox' = Rest(q)
    /\ UNCHANGED <<at, kind, id, fd, mine, slot, reconnected, made, open, alive, requests, broken>>

\* A directory element: ServerDIR goes on reading.
ReadElement(q) ==
    /\ at[q] = "read" /\ inbox[fd[q]] # <<>> /\ HasBody(First(q))
    /\ kind[q] = "list"
    /\ inbox' = Rest(q)
    /\ UNCHANGED <<at, kind, id, fd, mine, slot, reconnected, made, open, alive, requests, broken>>

\* The answer, or where no list is expected whatever message comes first.
ReadAnswer(q) ==
    /\ at[q] = "read" /\ inbox[fd[q]] # <<>>
    /\ First(q).what = "final" \/ (kind[q] # "list" /\ HasBody(First(q)))
    /\ inbox' = Rest(q)
    /\ AfterAnswer(q, First(q).granted)
    /\ UNCHANGED <<kind, id, fd, mine, slot, reconnected, made, open, alive, requests, broken>>

\* Directory_Element fails (the path is too long, there is no memory for it)
\* and ServerDIR stops before the end of the list.  The connection is kept if
\* the element said so.
BreakOff(q) ==
    /\ at[q] = "read" /\ inbox[fd[q]] # <<>> /\ HasBody(First(q)) /\ kind[q] = "list"
    /\ inbox' = Rest(q)
    /\ broken' = broken \cup {fd[q]}
    /\ AfterAnswer(q, First(q).granted)
    /\ UNCHANGED <<kind, id, fd, mine, slot, reconnected, made, open, alive, requests>>

\* From_ServerAlloc does not get the body that the header announced: it is
\* too large, late, or there is no memory for it.  The connection is kept if
\* the header said so, and the body is still to come on it.
LeaveBody(q) ==
    /\ at[q] = "read" /\ inbox[fd[q]] # <<>> /\ HasBody(First(q)) /\ kind[q] # "read"
    /\ inbox' = [inbox EXCEPT ![fd[q]][1].what = "rest"]
    /\ broken' = broken \cup {fd[q]}
    /\ AfterAnswer(q, First(q).granted)
    /\ UNCHANGED <<kind, id, fd, mine, slot, reconnected, made, open, alive, requests>>

\* What is left of a sequence of messages when n of them have been read, and
\* perhaps a part of the next.
Cut(messages, n, part) ==
    LET left == SubSeq(messages, n + 1, Len(messages)) IN
    IF part /\ left # <<>> THEN [left EXCEPT ![1].what = "rest"] ELSE left

\* A body is read as if it were a header: it can say anything.
ReadRest(q) ==
    /\ at[q] = "read" /\ inbox[fd[q]] # <<>> /\ First(q).what = "rest"
    /\ \E n \in 0..Len(inbox[fd[q]]), part \in BOOLEAN :
         inbox' = [inbox EXCEPT ![fd[q]] = Cut(@, n, part)]
    /\ at' = at \/ \E granted \in BOOLEAN : AfterAnswer(q, granted)
    /\ UNCHANGED <<kind, id, fd, mine, slot, reconnected, made, open, alive, requests, broken>>

\* Variant: no timeout while the server is there.
ReadFails_NoTimeout(q) ==
    /\ at[q] = "read" /\ inbox[fd[q]] = <<>> /\ fd[q] \notin alive
    /\ Go(q, "close")
    /\ UNCHANGED <<kind, id, fd, mine, slot, reconnected, made, network>>

\* Variant: a connection that timed out is kept for the next request.
ReadFails_Keeps(q) ==
    /\ at[q] = "read"
    /\ AfterAnswer(q, TRUE)
    /\ UNCHANGED <<kind, id, fd, mine, slot, reconnected, made, network>>

\* The server closed, or nothing came for timeout_network seconds: not a
\* header, or not the body that From_Server or ServerPresence waits for.
ReadFails(q) ==
    /\ at[q] = "read"
    /\ Go(q, "close")
    /\ UNCHANGED <<kind, id, fd, mine, slot, reconnected, made, network>>

\* Variant: the slot is not freed when its connection is closed.
Close_KeepsSlot(q) ==
    /\ at[q] = "close"
    /\ mine' = [mine EXCEPT ![q] = FALSE]
    /\ Closed(q) /\ Go(q, "idle")
    /\ UNCHANGED <<kind, id, slot, reconnected, made>>

\* Close_Persistent: free the slot if this query owns it, and close.
Close(q) ==
    /\ at[q] = "close"
    /\ slot' = IF mine[q] THEN Bad ELSE slot
    /\ mine' = [mine EXCEPT ![q] = FALSE]
    /\ Closed(q) /\ Go(q, "idle")
    /\ UNCHANGED <<kind, id, reconnected, made>>

\* "mark as available": the open connection goes to the slot.
Release(q) ==
    /\ at[q] = "release"
    /\ slot' = fd[q] /\ mine' = [mine EXCEPT ![q] = FALSE]
    /\ fd' = [fd EXCEPT ![q] = Bad] /\ Go(q, "idle")
    /\ UNCHANGED <<kind, id, reconnected, made, network>>

-----------------------------------------------------------------------------
(* The remote owserver, socket by socket *)

SendTo(s, what) ==
    inbox' = [inbox EXCEPT ![s] = Append(@, [id |-> requests[s][1].id, what |-> what,
                                             granted |-> requests[s][1].granted])]

ServerElement(s) ==
    /\ s \in alive /\ requests[s] # <<>> /\ requests[s][1].left > 0
    /\ SendTo(s, "element")
    /\ requests' = [requests EXCEPT ![s][1].left = @ - 1]
    /\ UNCHANGED <<client, open, alive, broken>>

\* PingLoop has sent nothing for a while and sends a delay message.  Bound:
\* it does so only when all it sent before has been read.
ServerDelay(s) ==
    /\ s \in alive /\ requests[s] # <<>> /\ inbox[s] = <<>>
    /\ SendTo(s, "delay")
    /\ UNCHANGED <<client, open, alive, requests, broken>>

\* The final message, without a body where there was a list or an error; a
\* connection without persistence is closed after it.
ServerFinal(s, what) ==
    /\ s \in alive /\ requests[s] # <<>>
    /\ what = "answer" => requests[s][1].kind # "list"
    /\ SendTo(s, what)
    /\ requests' = [requests EXCEPT ![s] = IF @[1].granted THEN Tail(@) ELSE <<>>]
    /\ alive' = IF requests[s][1].granted THEN alive ELSE alive \ {s}
    /\ UNCHANGED <<client, open, broken>>

\* The server stops, or tires of a silent client.
ServerCloses(s) ==
    /\ s \in alive
    /\ alive' = alive \ {s} /\ requests' = [requests EXCEPT ![s] = <<>>]
    /\ UNCHANGED <<client, open, inbox, broken>>

-----------------------------------------------------------------------------
QueryStep(q) ==
    \/ PeekGood(q) \/ PeekClosed(q) \/ MarkInUse(q) \/ Write(q)
    \/ \E s \in Sock \cup {Bad} : Reconnect(q, s)
    \/ ReadDelay(q) \/ ReadElement(q) \/ ReadAnswer(q) \/ BreakOff(q)
    \/ LeaveBody(q) \/ ReadRest(q) \/ ReadFails(q)
    \/ Close(q) \/ Release(q)

Begin(q) == \E k \in Kinds, s \in Sock \cup {Bad} : Claim(q, k, s)

Remote(s) ==
    \/ ServerElement(s) \/ ServerDelay(s) \/ ServerCloses(s)
    \/ \E what \in {"final", "answer"} : ServerFinal(s, what)

Next == (\E q \in Query : Begin(q) \/ QueryStep(q)) \/ (\E s \in Sock : Remote(s))

Spec == Init /\ [][Next]_vars

FairSpec == Spec /\ \A q \in Query : WF_vars(QueryStep(q))

-----------------------------------------------------------------------------
(* Properties *)

\* No two queries talk on one socket, and the idle connection in the slot is
\* not in anyone's hands, although the slot is also written without the lock.
SocketExclusive ==
    /\ \A q, r \in Query : q # r /\ fd[q] # Bad => fd[q] # fd[r]
    /\ \A q \in Query : fd[q] # Bad => fd[q] # slot

\* The message a query is about to read was sent for its own request.
OwnAnswer ==
    \A q \in Query : at[q] = "read" /\ inbox[fd[q]] # <<>> => First(q).id = id[q]

\* That is so on every connection on which each answer was read to its end:
\* through time-outs, closed and reused connections, delay messages and whole
\* lists.  (A list that is broken off, or a body that is not read, leaves the
\* rest of an answer on a connection that may be kept.)
OwnAnswerUnlessBroken ==
    \A q \in Query :
        at[q] = "read" /\ fd[q] \notin broken /\ inbox[fd[q]] # <<>> => First(q).id = id[q]

\* The only slot for a persistent connection is in use just while some query has
\* it to give back, as long as nobody has had to connect again.  (After that the
\* slot can be marked for nobody, or be freed by a query that never had it.)
SlotOwned ==
    ~reconnected => (slot = InUse <=> \E q \in Query : mine[q] /\ fd[q] # Bad)

\* The server sends a delay message to query q.
PingedOn(q) == fd[q] # Bad /\ ServerDelay(fd[q])

\* Every query ends, whatever the server does: it answers, closes, or is
\* timed out.  Only a server that sends delay messages for ever can keep it,
\* because each of them starts the timeout again.
QueryEnds ==
    \A q \in Query : (at[q] = "peek" ~> at[q] = "idle") \/ []<><<PingedOn(q)>>_vars
=============================================================================
