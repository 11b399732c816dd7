---------------------------- MODULE ServerProofs ----------------------------
(* Proofs about owserver as a whole, for any set of connections and any      *)
(* limits: persistent_connections is exact and within its limit, and the     *)
(* shutdown, if no signal ends its wait, waits for all handlers.             *)
(*                                                                           *)
(* The accept loop, the shutdown and the restart leave the state of Handler  *)
(* alone, so the first is an argument about Handler's steps: what they count *)
(* is what they mark.  In the second one handler_thread_count is shown to be *)
(* exact, and no handler starts once shutdown_in_progress is set; that an    *)
(* open round of Handler is that of a working thread joins the two.          *)
EXTENDS Server, FiniteSetTheorems, TLAPS

\* What is inductive: the types, and both properties.
IInv == TypeOK /\ CountExact /\ HighLimit

-----------------------------------------------------------------------------
\* A step of owserver is one of Handler or leaves its state alone.
LEMMA ServerIsHandler ==
    ServerNext => Next \/ UNCHANGED vars
<1>1. ASSUME NEW c \in Conn, Thread(c) \/ Chat(c)
      PROVE  Next \/ UNCHANGED vars
  BY <1>1 DEF Thread, Chat, BeginHandler, EndHandler, CountOff, Routine, Next, Client
<1> QED
  BY <1>1 DEF ServerNext, Loop, Outside

\* The counted connections are finitely many.
LEMMA CountedFinite == IsFiniteSet(Counted) /\ Cardinality(Counted) \in Nat
  BY ConnAssumption, FS_Subset, FS_CardinalityType DEF Counted

\* Marking a connection that is not counted makes one more, ...
LEMMA OneMore ==
    ASSUME NEW c \in Conn, persistent \in [Conn -> BOOLEAN], ~persistent[c],
           persistent' = [persistent EXCEPT ![c] = TRUE]
    PROVE  Cardinality(Counted') = Cardinality(Counted) + 1
<1>1. Counted' = Counted \cup {c} /\ c \notin Counted
  BY DEF Counted
<1> QED
  BY <1>1, CountedFinite, FS_AddElement

\* ... and unmarking one that is makes one less.
LEMMA OneLess ==
    ASSUME NEW c \in Conn, persistent \in [Conn -> BOOLEAN], persistent[c],
           persistent' = [persistent EXCEPT ![c] = FALSE]
    PROVE  Cardinality(Counted') = Cardinality(Counted) - 1
<1>1. Counted' = Counted \ {c} /\ c \in Counted
  BY DEF Counted
<1> QED
  BY <1>1, CountedFinite, FS_RemoveElement

-----------------------------------------------------------------------------
LEMMA Initially == ServerInit => IInv
<1> SUFFICES ASSUME ServerInit PROVE IInv
  OBVIOUS
<1>1. TypeOK
  BY DEF ServerInit, Init, TypeOK, Places
<1>2. Counted = {}
  BY DEF ServerInit, Init, Counted
<1>3. persistent_connections = 0
  BY DEF ServerInit, Init
<1> QED
  BY <1>1, <1>2, <1>3, FS_EmptySet, LimitsAssumption DEF IInv, CountExact, HighLimit

LEMMA Preserved == IInv /\ (Next \/ UNCHANGED vars) => IInv'
<1> SUFFICES ASSUME IInv, Next \/ UNCHANGED vars PROVE IInv'
  OBVIOUS
<1> USE DEF IInv
<1>1. CASE UNCHANGED <<persistent, persistent_connections>> /\ TypeOK'
  <2>1. Counted' = Counted
    BY <1>1 DEF Counted
  <2> QED
    BY <1>1, <2>1 DEF CountExact, HighLimit
<1>2. ASSUME NEW c \in Conn, Decide(c) PROVE IInv'
  <2>1. TypeOK'
    BY <1>2, SMTT(30) DEF Decide, Move, TypeOK, Places
  <2>2. CASE wants[c] /\ ~persistent[c] /\ persistent_connections < High
    <3>1. persistent' = [persistent EXCEPT ![c] = TRUE]
          /\ persistent_connections' = persistent_connections + 1
      BY <1>2, <2>2 DEF Decide, TypeOK
    <3>2. Cardinality(Counted') = Cardinality(Counted) + 1
      BY <2>2, <3>1, OneMore DEF TypeOK
    <3>3. CountExact'
      BY <3>1, <3>2 DEF CountExact
    <3>4. HighLimit'
      BY <2>2, <3>1, LimitsAssumption DEF TypeOK, HighLimit
    <3> QED
      BY <2>1, <3>3, <3>4
  <2>3. CASE ~(wants[c] /\ ~persistent[c] /\ persistent_connections < High)
    BY <1>1, <1>2, <2>1, <2>3 DEF Decide, TypeOK
  <2> QED
    BY <2>2, <2>3
<1>3. ASSUME NEW c \in Conn, Leave(c) PROVE IInv'
  <2>1. CASE persistent[c]
    <3>1. Cardinality(Counted') = Cardinality(Counted) - 1
      BY <1>3, <2>1, OneLess DEF Leave, TypeOK
    <3>2. persistent_connections' = Cardinality(Counted')
          /\ persistent_connections' = persistent_connections - 1
      BY <1>3, <2>1, <3>1 DEF Leave, TypeOK, CountExact
    <3>3. persistent_connections' \in Nat
      BY <3>2, CountedFinite, FS_Subset, FS_CardinalityType, ConnAssumption DEF Counted
    <3>4. TypeOK'
      BY <1>3, <3>3 DEF Leave, Move, TypeOK, Places
    <3> QED
      BY <3>2, <3>4, LimitsAssumption DEF TypeOK, CountExact, HighLimit
  <2>2. CASE ~persistent[c]
    <3>1. UNCHANGED persistent_connections /\ persistent' = persistent
      BY <1>3, <2>2 DEF Leave, TypeOK
    <3>2. TypeOK'
      BY <1>3, <3>1 DEF Leave, Move, TypeOK, Places
    <3> QED
      BY <1>1, <3>1, <3>2
  <2> QED
    BY <2>1, <2>2
<1>4. ASSUME NEW c \in Conn, Client(c) \/ (Server(c) /\ ~Decide(c) /\ ~Leave(c))
      PROVE  IInv'
  <2>1. TypeOK'
    <3> USE DEF Move, TypeOK, Places
    <3>1. ASSUME NEW w \in BOOLEAN, ReadRequest(c, w) PROVE TypeOK'
      BY <3>1 DEF ReadRequest
    <3>2. CASE Enter(c) \/ ReadFails(c) \/ Serve(c) \/ ShortTimeout(c)
      BY <3>2 DEF Enter, ReadFails, Serve, ShortTimeout
    <3>3. CASE Readable(c) \/ LongTimeout(c)
      BY <3>3 DEF Readable, LongTimeout
    <3>4. CASE TestLow(c)
      <4>1. (persistent_connections < Low) \in BOOLEAN
        BY LimitsAssumption
      <4> QED
        BY <3>4, <4>1 DEF TestLow
    <3> QED
      BY <1>4, <3>1, <3>2, <3>3, <3>4 DEF Client, Server
  <2>2. UNCHANGED <<persistent, persistent_connections>>
    BY <1>4 DEF Client, Server, Enter, ReadRequest, ReadFails, Serve, Readable, ShortTimeout,
              TestLow, LongTimeout
  <2> QED
    BY <1>1, <2>1, <2>2
<1>5. CASE UNCHANGED vars
  BY <1>1, <1>5 DEF vars, TypeOK
<1> QED
  BY <1>2, <1>3, <1>4, <1>5 DEF Next, Server

LEMMA Always == ServerSpec => []IInv
<1>1. IInv /\ [ServerNext]_all => IInv'
  BY Preserved, ServerIsHandler DEF all, vars
<1> QED
  BY Initially, <1>1, PTL DEF ServerSpec

\* In owserver as a whole persistent_connections is the number of connections
\* that hold a slot (Handler's counting under PERSISTENCELOCK).
THEOREM CountExactHolds == ServerSpec => []CountExact
  BY Always, PTL DEF IInv

\* And it is never more than clients_persistent_high.
THEOREM HighLimitHolds == ServerSpec => []HighLimit
  BY Always, PTL DEF IInv

-----------------------------------------------------------------------------
(* The accept loop and the shutdown *)

\* The handlers that have not counted themselves off.
Handlers == {c \in Conn : thread[c] \in {"started", "working", "closed"}}

\* What the listener's steps preserve.
NetInv ==
    /\ main \in {"listen", "accepted", "launched", "leaving", "waiting", "closing", "returned"}
    /\ thread \in [Conn -> {"none", "started", "working", "closed", "counted"}]
    /\ handler_thread_count = Cardinality(Handlers)
    /\ pipe \in Nat /\ shutdown_in_progress \in BOOLEAN
    /\ main = "accepted" => cur \in Conn /\ thread[cur] = "none"
    /\ main \in {"waiting", "closing", "returned"} => shutdown_in_progress
    /\ pipe > 0 => pipe = 1 /\ shutdown_in_progress /\ Handlers = {}
    /\ pipe_ok /\ ~interrupted /\ main \in {"closing", "returned"} => Handlers = {}

\* Handler has an open round only for a thread that works.
Inner == \A c \in Conn : /\ at[c] # "none" => thread[c] = "working"
                         /\ persistent[c] => at[c] # "none"

LEMMA HandlersFinite == IsFiniteSet(Handlers) /\ Cardinality(Handlers) \in Nat
  BY ConnAssumption, FS_Subset, FS_CardinalityType DEF Handlers

LEMMA NetInitially == ServerInit => NetInv
<1> SUFFICES ASSUME ServerInit PROVE NetInv
  OBVIOUS
<1>1. Handlers = {}
  BY DEF ServerInit, Listener!Init, Handlers
<1>2. Cardinality(Handlers) = 0
  BY <1>1, FS_EmptySet
<1>3. /\ main = "listen" /\ pipe = 0 /\ handler_thread_count = 0
      /\ shutdown_in_progress = FALSE /\ thread = [c \in Conn |-> "none"]
  BY DEF ServerInit, Listener!Init
<1>4. thread \in [Conn -> {"none", "started", "working", "closed", "counted"}]
  BY <1>3
<1>5. /\ main \notin {"accepted", "waiting", "closing", "returned"}
      /\ pipe \in Nat /\ ~(pipe > 0)
      /\ main \in {"listen", "accepted", "launched", "leaving", "waiting", "closing", "returned"}
  BY <1>3
<1>6. shutdown_in_progress \in BOOLEAN
  BY <1>3, Zenon
<1> QED
  BY <1>1, <1>2, <1>3, <1>4, <1>5, <1>6 DEF NetInv

\* A step of owserver is one of the listener or leaves its state alone.
LEMMA ServerIsListener ==
    ServerNext => Listener!Next \/ UNCHANGED listener
<1>1. ASSUME NEW c \in Conn, Thread(c) \/ Chat(c)
      PROVE  Listener!Next \/ UNCHANGED listener
  BY <1>1 DEF Thread, Chat, BeginHandler, EndHandler, CountOff, Routine, Inside,
              Listener!Next, Listener!Handler
<1> QED
  BY <1>1 DEF ServerNext, Loop, Outside, Listener!Next

\* Steps that leave the handlers and the pipe alone, and main as it must be.
LEMMA NetQuiet ==
    ASSUME NetInv, Handlers' = Handlers, UNCHANGED <<handler_thread_count, pipe, pipe_ok, interrupted>>,
           thread' \in [Conn -> {"none", "started", "working", "closed", "counted"}],
           main' \in {"listen", "accepted", "launched", "leaving", "waiting", "closing", "returned"},
           shutdown_in_progress' \in BOOLEAN, shutdown_in_progress => shutdown_in_progress',
           main' = "accepted" => cur' \in Conn /\ thread'[cur'] = "none",
           main' \in {"waiting", "closing", "returned"} => shutdown_in_progress',
           pipe_ok /\ ~interrupted /\ main' \in {"closing", "returned"} => Handlers = {}
    PROVE  NetInv'
  BY DEF NetInv

LEMMA NetPreserved == NetInv /\ (Listener!Next \/ UNCHANGED listener) => NetInv'
<1> SUFFICES ASSUME NetInv, Listener!Next \/ UNCHANGED listener PROVE NetInv'
  OBVIOUS
<1>1. ASSUME NEW c \in Conn, Listener!Accept(c) PROVE NetInv'
  <2>1. Handlers' = Handlers
    BY <1>1 DEF Listener!Accept, Handlers
  <2> QED
    BY <1>1, <2>1, NetQuiet DEF Listener!Accept, NetInv
<1>2. CASE Listener!Launch
  <2>1. CASE shutdown_in_progress
    <3>1. Handlers' = Handlers
      BY <1>2, <2>1 DEF Listener!Launch, Handlers
    <3> QED
      BY <1>2, <2>1, <3>1, NetQuiet DEF Listener!Launch, NetInv
  <2>2. CASE ~shutdown_in_progress
    <3>1. Handlers' = Handlers \cup {cur} /\ cur \notin Handlers
      BY <1>2, <2>2 DEF Listener!Launch, NetInv, Handlers
    <3>2. Cardinality(Handlers') = Cardinality(Handlers) + 1
      BY <3>1, HandlersFinite, FS_AddElement
    <3> QED
      BY <1>2, <2>2, <3>2 DEF Listener!Launch, NetInv
  <2> QED
    BY <2>1, <2>2
<1>3. CASE Listener!Launched \/ Listener!ListenFails \/ Listener!Exit
           \/ Listener!InterruptListening \/ Listener!FreeOutAll \/ Listener!Exec
  <2>1. Handlers' = Handlers
    BY <1>3 DEF Listener!Launched, Listener!ListenFails, Listener!Exit,
                Listener!InterruptListening, Listener!FreeOutAll, Listener!Exec, Handlers
  <2> QED
    BY <1>3, <2>1, NetQuiet DEF Listener!Launched, Listener!ListenFails, Listener!Exit,
                Listener!InterruptListening, Listener!FreeOutAll, Listener!Exec, NetInv
<1>4. CASE Listener!Shutdown
  <2>1. Handlers' = Handlers
    BY <1>4 DEF Listener!Shutdown, Handlers
  <2>2. ~(handler_thread_count > 0) => Handlers = {}
    BY HandlersFinite, FS_EmptySet DEF NetInv
  <2> QED
    BY <1>4, <2>1, <2>2, NetQuiet DEF Listener!Shutdown, NetInv
<1>5. CASE Listener!ReadPipe \/ Listener!ReadInterrupted \/ Listener!Close
  <2>1. Handlers' = Handlers
    BY <1>5 DEF Listener!ReadPipe, Listener!ReadInterrupted, Listener!Close, Handlers
  <2>2. CASE Listener!ReadPipe
    <3>1. pipe = 1 /\ shutdown_in_progress /\ Handlers = {}
      BY <2>2 DEF Listener!ReadPipe, NetInv
    <3>2. pipe' = 0
      BY <2>2, <3>1 DEF Listener!ReadPipe
    <3> QED
      BY <2>1, <2>2, <3>1, <3>2 DEF Listener!ReadPipe, NetInv
  <2>3. CASE Listener!Close
    BY <2>1, <2>3 DEF Listener!Close, NetInv
  <2>4. CASE Listener!ReadInterrupted
    BY <2>1, <2>4 DEF Listener!ReadInterrupted, NetInv
  <2> QED
    BY <1>5, <2>2, <2>3, <2>4
<1>6. ASSUME NEW c \in Conn, Listener!Begin(c) \/ Listener!Done(c) \/ Listener!Leave(c)
      PROVE  NetInv'
  <2>1. Handlers' = Handlers
    BY <1>6 DEF Listener!Begin, Listener!Done, Listener!Leave, NetInv, Handlers
  <2> QED
    BY <1>6, <2>1, NetQuiet DEF Listener!Begin, Listener!Done, Listener!Leave, NetInv
<1>7. ASSUME NEW c \in Conn, Listener!CountOff(c) PROVE NetInv'
  <2>1. Handlers' = Handlers \ {c} /\ c \in Handlers
    BY <1>7 DEF Listener!CountOff, NetInv, Handlers
  <2>2. Cardinality(Handlers') = Cardinality(Handlers) - 1
    BY <2>1, HandlersFinite, FS_RemoveElement
  <2>3. IsFiniteSet(Handlers') /\ (Cardinality(Handlers') = 0 <=> Handlers' = {})
    BY <2>1, HandlersFinite, FS_Subset, FS_EmptySet
  <2>4. handler_thread_count' = Cardinality(Handlers')
    BY <1>7, <2>2 DEF Listener!CountOff, NetInv
  <2>5. pipe = 0 /\ ~(pipe_ok /\ ~interrupted /\ main \in {"closing", "returned"})
    BY <2>1 DEF NetInv
  <2>6. /\ pipe' \in {0, 1}
        /\ pipe' = 1 => shutdown_in_progress /\ Handlers' = {}
    BY <1>7, <2>3, <2>4, <2>5 DEF Listener!CountOff
  <2>7. thread' \in [Conn -> {"none", "started", "working", "closed", "counted"}]
        /\ (main' = "accepted" => cur' \in Conn /\ thread'[cur'] = "none")
    BY <1>7 DEF Listener!CountOff, NetInv
  <2> QED
    BY <1>7, <2>4, <2>5, <2>6, <2>7 DEF Listener!CountOff, NetInv
<1>8. CASE UNCHANGED listener \/ Listener!Ended
  <2>1. UNCHANGED listener
    BY <1>8 DEF Listener!Ended, Listener!vars, listener
  <2>2. Handlers' = Handlers
    BY <2>1 DEF listener, Handlers
  <2> QED
    BY <2>1, <2>2, NetQuiet DEF listener, NetInv
<1> QED
  BY <1>1, <1>2, <1>3, <1>4, <1>5, <1>6, <1>7, <1>8
     DEF Listener!Next, Listener!Main, Listener!Handler

LEMMA InnerInitially == ServerInit => Inner
  BY DEF ServerInit, Init, Inner

LEMMA InnerPreserved == TypeOK /\ NetInv /\ Inner /\ [ServerNext]_all => Inner'
<1> SUFFICES ASSUME TypeOK, NetInv, Inner, [ServerNext]_all PROVE Inner'
  OBVIOUS
<1> USE DEF TypeOK, NetInv, Inner
<1>1. ASSUME NEW c \in Conn, BeginHandler(c) PROVE Inner'
  BY <1>1 DEF BeginHandler, Listener!Begin, Enter, Move
<1>2. ASSUME NEW c \in Conn, Routine(c) \/ Chat(c) PROVE Inner'
  <2>1. thread[c] = "working" /\ UNCHANGED thread
    BY <1>2 DEF Routine, Chat, Inside, listener
  <2>2. ASSUME NEW d \in Conn \ {c} PROVE at'[d] = at[d] /\ persistent'[d] = persistent[d]
    BY <1>2, <2>2 DEF Routine, Chat, Server, Decide, Serve, Readable, ReadRequest, ReadFails,
                      ShortTimeout, TestLow, LongTimeout, Leave, Move
  <2>3. persistent'[c] => at'[c] # "none"
    <3>1. CASE Leave(c)
      BY <3>1 DEF Leave
    <3>2. CASE ~Leave(c)
      BY <1>2, <3>2 DEF Routine, Chat, Server, Decide, Serve, Readable, ReadRequest, ReadFails,
                      ShortTimeout, TestLow, LongTimeout, Move
    <3> QED
      BY <3>1, <3>2
  <2> QED
    BY <2>1, <2>2, <2>3
<1>3. ASSUME NEW c \in Conn, EndHandler(c) \/ CountOff(c) PROVE Inner'
  BY <1>3 DEF EndHandler, CountOff, Listener!Done, Listener!CountOff, Listener!Leave, vars
<1>4. CASE Loop \/ Outside
  <2>1. UNCHANGED <<at, persistent>>
    BY <1>4 DEF Loop, Outside, vars
  <2>2. \A c \in Conn : thread[c] = "working" => thread'[c] = "working"
    BY <1>4 DEF Loop, Outside, Listener!Main, Listener!Launch, Listener!Launched,
         Listener!Shutdown, Listener!ReadPipe, Listener!ReadInterrupted, Listener!Close, Listener!Exit,
         Listener!ListenFails, Listener!InterruptListening, Listener!FreeOutAll,
         Listener!Exec, Listener!Ended, Listener!Accept, Listener!vars
  <2> QED
    BY <2>1, <2>2
<1>5. CASE UNCHANGED all
  BY <1>5 DEF all, vars, listener
<1> QED
  BY <1>1, <1>2, <1>3, <1>4, <1>5 DEF ServerNext, Thread

LEMMA NetAlways == ServerSpec => [](NetInv /\ Inner)
<1>1. NetInv /\ [ServerNext]_all => NetInv'
  BY NetPreserved, ServerIsListener DEF all
<1>2. IInv => TypeOK
  BY DEF IInv
<1> QED
  BY Always, NetInitially, InnerInitially, <1>1, <1>2, InnerPreserved, PTL DEF ServerSpec

\* When ServerProcess closes down, no handler thread is running, no connection
\* is in Handler and every persistent slot is free, however many connections
\* there were and whoever began the shutdown, unless its read of shutdown_pipe
\* was interrupted by a signal.
THEOREM AllServedHolds == ServerSpec => []AllServed
<1>1. IInv /\ NetInv /\ Inner => AllServed
  <2> SUFFICES ASSUME IInv, NetInv, Inner, pipe_ok, ~interrupted, main \in {"closing", "returned"}
               PROVE  Listener!Running = {} /\ persistent_connections = 0
                      /\ \A c \in Conn : at[c] = "none"
    BY DEF AllServed, Listener!AllServed
  <2>1. Handlers = {}
    BY DEF NetInv
  <2>2. \A c \in Conn : at[c] = "none" /\ ~persistent[c]
    BY <2>1 DEF Inner, Handlers
  <2>3. Counted = {}
    BY <2>2 DEF Counted
  <2>4. Cardinality(Counted) = 0
    BY <2>3, FS_EmptySet
  <2> QED
    BY <2>1, <2>2, <2>4 DEF IInv, CountExact, Handlers, Listener!Running
<1> QED
  BY Always, NetAlways, <1>1, PTL

\* The byte in shutdown_pipe comes once, and after the last handler.
THEOREM LastWordHolds == ServerSpec => []LastWord
<1>1. NetInv => LastWord
  BY DEF NetInv, LastWord, Listener!LastWord, Handlers, Listener!Running
<1> QED
  BY NetAlways, <1>1, PTL
=============================================================================
