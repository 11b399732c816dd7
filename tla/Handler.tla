------------------------------ MODULE Handler ------------------------------
(***************************************************************************)
(* owserver's Handler (handler.c): the life of every client connection and *)
(* the granting of persistence.  persistent_connections is shared by all   *)
(* connection threads under PERSISTENCELOCK; each thread remembers in its  *)
(* local variable persistent whether it has been counted.                  *)
(***************************************************************************)
EXTENDS Integers, FiniteSets

CONSTANTS Conn,   \* sockets of clients
          High,   \* Globals.clients_persistent_high
          Low     \* Globals.clients_persistent_low

ASSUME ConnAssumption == IsFiniteSet(Conn)
ASSUME LimitsAssumption == High \in Nat /\ Low \in Nat

VARIABLES
    at,             \* where the thread of a connection is
    wants,          \* loop_persistent before the decision: requested, not suppressed
    loopPersistent, \* loop_persistent after it, echoed in every reply; gone
                    \* with the round of the loop that declares it
    persistent,     \* this connection is counted
    persistent_connections

vars == <<at, wants, loopPersistent, persistent, persistent_connections>>

Places == {"none", "read", "decide", "serve", "short", "test", "long", "end"}

TypeOK ==
    /\ at \in [Conn -> Places]
    /\ wants \in [Conn -> BOOLEAN]
    /\ loopPersistent \in [Conn -> BOOLEAN]
    /\ persistent \in [Conn -> BOOLEAN]
    /\ persistent_connections \in Nat

Init ==
    /\ at = [c \in Conn |-> "none"]
    /\ wants = [c \in Conn |-> FALSE]
    /\ loopPersistent = [c \in Conn |-> FALSE]
    /\ persistent = [c \in Conn |-> FALSE]
    /\ persistent_connections = 0

Move(c, from, to) == at[c] = from /\ at' = [at EXCEPT ![c] = to]

-----------------------------------------------------------------------------
\* A client connects: Handler is entered with persistent = 0.
Enter(c) ==
    /\ Move(c, "none", "read")
    /\ UNCHANGED <<wants, loopPersistent, persistent, persistent_connections>>

\* FromClient reads a whole message; --no_persistence makes wanted FALSE.
ReadRequest(c, wanted) ==
    /\ Move(c, "read", "decide")
    /\ wants' = [wants EXCEPT ![c] = wanted]
    /\ UNCHANGED <<loopPersistent, persistent, persistent_connections>>

\* FromClient fails: the client closed or is silent, the message is
\* malformed, too large, or has already passed through this server.
ReadFails(c) ==
    /\ Move(c, "read", "end")
    /\ UNCHANGED <<wants, loopPersistent, persistent, persistent_connections>>

\* Variant: one connection more than clients_persistent_high.
Decide_OffByOne(c) ==
    LET room == persistent_connections <= High
        new  == wants[c] /\ ~persistent[c] /\ room
    IN /\ Move(c, "decide", "serve")
       /\ loopPersistent' = [loopPersistent EXCEPT ![c] = wants[c] /\ (persistent[c] \/ room)]
       /\ persistent' = [persistent EXCEPT ![c] = @ \/ new]
       /\ persistent_connections' = persistent_connections + (IF new THEN 1 ELSE 0)
       /\ wants' = [wants EXCEPT ![c] = FALSE]

\* Keep, grant or deny persistence; the counter changes under PERSISTENCELOCK.
Decide(c) ==
    LET room == persistent_connections < High
        new  == wants[c] /\ ~persistent[c] /\ room
    IN /\ Move(c, "decide", "serve")
       /\ loopPersistent' = [loopPersistent EXCEPT ![c] = wants[c] /\ (persistent[c] \/ room)]
       /\ persistent' = [persistent EXCEPT ![c] = @ \/ new]
       /\ persistent_connections' = persistent_connections + (IF new THEN 1 ELSE 0)
       /\ wants' = [wants EXCEPT ![c] = FALSE]

\* SingleHandler (see PingLoop); without persistence that was all.
Serve(c) ==
    /\ Move(c, "serve", IF loopPersistent[c] THEN "short" ELSE "end")
    /\ UNCHANGED <<wants, loopPersistent, persistent, persistent_connections>>

\* tcp_wait finds something to read, in the shorter or in the longer wait.
Readable(c) ==
    /\ at[c] \in {"short", "long"}
    /\ at' = [at EXCEPT ![c] = "read"]
    /\ loopPersistent' = [loopPersistent EXCEPT ![c] = FALSE]
    /\ UNCHANGED <<wants, persistent, persistent_connections>>

\* Nothing for timeout_persistent_low seconds.
ShortTimeout(c) ==
    /\ Move(c, "short", "test")
    /\ UNCHANGED <<wants, loopPersistent, persistent, persistent_connections>>

\* Below clients_persistent_low a silent client may stay longer.
TestLow(c) ==
    /\ Move(c, "test", IF persistent_connections < Low THEN "long" ELSE "end")
    /\ loopPersistent' = [loopPersistent EXCEPT ![c] = persistent_connections < Low]
    /\ UNCHANGED <<wants, persistent, persistent_connections>>

LongTimeout(c) ==
    /\ Move(c, "long", "end")
    /\ loopPersistent' = [loopPersistent EXCEPT ![c] = FALSE]
    /\ UNCHANGED <<wants, persistent, persistent_connections>>

\* Variant: the last reply decides, not the connection, whether to count down.
Leave_ByReply(c) ==
    /\ Move(c, "end", "none")
    /\ persistent' = [persistent EXCEPT ![c] = FALSE]
    /\ persistent_connections' = persistent_connections - (IF loopPersistent[c] THEN 1 ELSE 0)
    /\ loopPersistent' = [loopPersistent EXCEPT ![c] = FALSE]
    /\ UNCHANGED wants

\* "restore the persistent count"; the thread ends and its locals go.
Leave(c) ==
    /\ Move(c, "end", "none")
    /\ persistent' = [persistent EXCEPT ![c] = FALSE]
    /\ persistent_connections' = persistent_connections - (IF persistent[c] THEN 1 ELSE 0)
    /\ UNCHANGED <<wants, loopPersistent>>

-----------------------------------------------------------------------------
\* What the server does by itself: a request under way is finished, and a
\* wait for the client ends when its timeout passes.  (Server.tla has the
\* connections come from the accept loop, and what must happen in the end.)
Server(c) ==
    \/ ReadFails(c) \/ Decide(c) \/ Serve(c)
    \/ ShortTimeout(c) \/ TestLow(c) \/ LongTimeout(c) \/ Leave(c)

Client(c) == Enter(c) \/ (\E w \in BOOLEAN : ReadRequest(c, w)) \/ Readable(c)

Next == \E c \in Conn : Server(c) \/ Client(c)

Spec == Init /\ [][Next]_vars

-----------------------------------------------------------------------------
(* Properties *)

Counted == {c \in Conn : persistent[c]}

\* persistent_connections is the number of connections that were granted
\* persistence and have not ended, through every order of grants, denials,
\* non-persistent requests on a persistent connection, timeouts and failures.
CountExact == persistent_connections = Cardinality(Counted)

\* "Maximum number of persistent tcp connections ... before no more are
\* allowed": Handler never grants beyond clients_persistent_high.
HighLimit == persistent_connections <= High
=============================================================================
