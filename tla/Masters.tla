------------------------------ MODULE Masters -------------------------------
(* The list of bus masters (ow_connect.c) while masters come and go          *)
(* (ow_add_inflight.c, ow_del_inflight.c), as the messages of the kernel's   *)
(* w1 subsystem make them (ow_w1_dispatch.c, ow_w1_addremove.c).             *)
(*                                                                           *)
(* Every message starts a thread of its own.  The thread first makes a port, *)
(* to be added or to serve as the example of what to remove, and then        *)
(* changes the list under the write lock CONNIN.  Queries hold the read lock *)
(* from the parsing of their path to their end.  The numbers of the bus      *)
(* masters, which paths and the cache of locations use, are handed out and   *)
(* taken back outside any lock.                                              *)
EXTENDS Integers, Sequences, FiniteSets

CONSTANTS
    Master,         \* what can be plugged in
    Remote,         \* those that are other owservers: they stay
    None,
    Handler,        \* threads of w1_master_command that run at a time
    MaxCell,        \* places in memory for a port with its bus master
    Start,          \* the masters listed at the start, oldest first
    Query,          \* threads of queries
    MaxTrouble      \* bound: messages, failures, moves, expiries

Cell == 1..MaxCell

ASSUME MastersAssumption ==
    /\ Remote \subseteq Master /\ None \notin Master \cup Handler \cup Cell \cup Query
    /\ Handler \cap Query = {}
    /\ Start \in Seq(Master) /\ MaxCell \in Nat /\ Len(Start) <= MaxCell
    /\ \A i, j \in 1..Len(Start) : Start[i] = Start[j] => i = j
    /\ MaxTrouble \in Nat

VARIABLES
    kernel,         \* the masters that are plugged in
    head_port,      \* Inbound_Control.head_port and what follows it: cells
    id, index,      \* of the bus master in a cell; id None: the cell is free
    next_index,     \* Inbound_Control.next_index
    readers, writer,    \* of the lock CONNIN
    hpc, op, of,    \* of a handler: where it is, "add" or "remove", the master
    port,           \* its own port: a cell
    old,            \* the cell it is about to free
    n,              \* the number it has read from next_index or is to put there
    order,          \* history: the handlers that have not changed the list yet,
                    \* in the order of their messages
    raced,          \* history: two handlers were at next_index at once
    astray,         \* history: a message had no effect, as its handler failed, or
                    \* came after a later one on the same master
    crashed,        \* the program has ended by a bad pointer
    trouble         \* what is left of MaxTrouble

list == <<head_port, id, index, next_index>>
handler == <<hpc, op, of, port, old, n>>
history == <<order, raced, astray>>
mvars == <<kernel, list, readers, writer, handler, history, crashed, trouble>>

Listed == {head_port[i] : i \in 1..Len(head_port)}
Live == {c \in Cell : id[c] # None}

\* The sequence s without x, which is in it once.
Without(s, x) ==
    LET k == CHOOSE i \in 1..Len(s) : s[i] = x
    IN [i \in 1..(Len(s) - 1) |-> s[IF i < k THEN i ELSE i + 1]]

Spend == trouble > 0 /\ trouble' = trouble - 1
Goto(h, l) == hpc' = [hpc EXCEPT ![h] = l]

\* The masters named on the command line have been linked, each at the head.
MInit ==
    /\ kernel = {Start[i] : i \in 1..Len(Start)}
    /\ head_port = [i \in 1..Len(Start) |-> Len(Start) + 1 - i]
    /\ id = [c \in Cell |-> IF c <= Len(Start) THEN Start[c] ELSE None]
    /\ index = [c \in Cell |-> IF c <= Len(Start) THEN c - 1 ELSE 0]
    /\ next_index = Len(Start)
    /\ readers = {} /\ writer = None
    /\ hpc = [h \in Handler |-> "idle"]
    /\ op = [h \in Handler |-> None] /\ of = [h \in Handler |-> None]
    /\ port = [h \in Handler |-> None] /\ old = [h \in Handler |-> None]
    /\ n = [h \in Handler |-> 0]
    /\ order = <<>> /\ raced = FALSE /\ astray = FALSE
    /\ crashed = FALSE /\ trouble = MaxTrouble

MTypeOK ==
    /\ kernel \subseteq Master
    /\ head_port \in Seq(Cell)
    /\ id \in [Cell -> Master \cup {None}] /\ index \in [Cell -> Int] /\ next_index \in Int
    /\ readers \subseteq Query /\ writer \in Handler \cup {None}
    /\ hpc \in [Handler -> {"idle", "alloc", "store", "lock", "list", "test", "free"}]
    /\ op \in [Handler -> {"add", "remove", None}] /\ of \in [Handler -> Master \cup {None}]
    /\ port \in [Handler -> Cell \cup {None}] /\ old \in [Handler -> Cell \cup {None}]
    /\ n \in [Handler -> Int]
    /\ order \in Seq(Handler) /\ trouble \in 0..MaxTrouble

-----------------------------------------------------------------------------
\* A master is plugged in or out, or the kernel lists it, which is asked of it
\* at the start; Dispatch_Packet_root starts a handler (w1_master_command)
\* for the message, or cannot.
Message(h) ==
    /\ hpc[h] = "idle" /\ Spend
    /\ \E m \in Master \ Remote, o \in {"add", "remove", "list"} :
         /\ o = "add" <=> m \notin kernel
         /\ kernel' = CASE o = "add" -> kernel \cup {m} [] o = "remove" -> kernel \ {m}
                        [] o = "list" -> kernel
         /\ \/ /\ Goto(h, "alloc")
               /\ op' = [op EXCEPT ![h] = IF o = "remove" THEN o ELSE "add"]
               /\ of' = [of EXCEPT ![h] = m]
               /\ order' = Append(order, h)
               /\ UNCHANGED astray
            \/ astray' = TRUE /\ UNCHANGED <<hpc, op, of, order>>
    /\ UNCHANGED <<list, readers, writer, port, old, n, raced, crashed>>

\* Another handler has read next_index and not yet written it.
AtIndex(h) == \E g \in Handler \ {h} : hpc[g] \in {"store", "free"}

\* AllocIn: next_index is read, ...
AllocIn(h) ==
    /\ hpc[h] = "alloc" /\ Goto(h, "store")
    /\ n' = [n EXCEPT ![h] = next_index]
    /\ raced' = (raced \/ AtIndex(h))
    /\ UNCHANGED <<kernel, list, readers, writer, op, of, port, old, order, astray,
                   crashed, trouble>>

Others(h) == Without(order, h)

\* ... and written.  CreateW1Port fills in the port, or removes it again if
\* W1_detect fails.
CreateW1Port(h) ==
    /\ hpc[h] = "store"
    /\ \E c \in Cell \ Live :
         /\ \A d \in Cell \ Live : c <= d
         /\ port' = [port EXCEPT ![h] = c]
         /\ id' = [id EXCEPT ![c] = of[h]] /\ index' = [index EXCEPT ![c] = n[h]]
         /\ \/ Goto(h, "lock") /\ UNCHANGED <<old, order, astray, trouble>>
            \/ /\ Spend /\ astray' = TRUE /\ order' = Others(h)
               /\ old' = [old EXCEPT ![h] = c] /\ Goto(h, "test")
    /\ next_index' = n[h] + 1 /\ n' = [n EXCEPT ![h] = 0]
    /\ UNCHANGED <<kernel, head_port, readers, writer, op, of, raced, crashed>>

-----------------------------------------------------------------------------
\* Variant: the lock does not wait for the queries.
Wlock_Barges(h) ==
    /\ hpc[h] = "lock" /\ writer = None
    /\ writer' = h /\ Goto(h, "list")
    /\ UNCHANGED <<kernel, list, readers, op, of, port, old, n, history, crashed, trouble>>

\* CONNIN_WLOCK
Wlock(h) ==
    /\ hpc[h] = "lock" /\ writer = None /\ readers = {}
    /\ writer' = h /\ Goto(h, "list")
    /\ UNCHANGED <<kernel, list, readers, op, of, port, old, n, history, crashed, trouble>>

\* The listed ports that nomatch says match the handler's own.
Matches(h) == {c \in Listed : id[c] = of[h]}

\* The handler changes the list now: is there an earlier message on the same
\* master whose handler has not?
Applied(h) ==
    /\ order' = Others(h)
    /\ astray' = (astray \/ \E i, j \in 1..Len(order) :
                               i < j /\ order[j] = h /\ of[order[i]] = of[h])

Rest(h) ==
    /\ Goto(h, "idle")
    /\ op' = [op EXCEPT ![h] = None] /\ of' = [of EXCEPT ![h] = None]
    /\ port' = [port EXCEPT ![h] = None]

\* Variant: the port is linked without a look for one that matches.
Add_InFlight_Twice(h) ==
    /\ hpc[h] = "list" /\ op[h] = "add"
    /\ Applied(h) /\ writer' = None
    /\ head_port' = <<port[h]>> \o head_port
    /\ Rest(h)
    /\ UNCHANGED <<kernel, id, index, next_index, readers, old, n, raced, crashed, trouble>>

\* Add_InFlight: a port that matches none is linked at the head, another one
\* is removed after CONNIN_WUNLOCK.
Add_InFlight(h) ==
    /\ hpc[h] = "list" /\ op[h] = "add"
    /\ Applied(h) /\ writer' = None
    /\ \/ /\ Matches(h) = {}
          /\ head_port' = <<port[h]>> \o head_port
          /\ Rest(h) /\ UNCHANGED old
       \/ /\ Matches(h) # {}
          /\ old' = [old EXCEPT ![h] = port[h]] /\ Goto(h, "test")
          /\ UNCHANGED <<head_port, op, of, port>>
    /\ UNCHANGED <<kernel, id, index, next_index, readers, n, raced, crashed, trouble>>

\* Del_InFlight: the next port that matches is removed, or the example is
\* after CONNIN_WUNLOCK.
Del_InFlight(h) ==
    /\ hpc[h] = "list" /\ op[h] = "remove"
    /\ \/ /\ Matches(h) # {}
          /\ \E c \in Matches(h) : old' = [old EXCEPT ![h] = c]
          /\ UNCHANGED <<writer, order, astray>>
       \/ /\ Matches(h) = {}
          /\ Applied(h) /\ writer' = None
          /\ old' = [old EXCEPT ![h] = port[h]]
    /\ Goto(h, "test")
    /\ UNCHANGED <<kernel, list, readers, op, of, port, n, raced, crashed, trouble>>

-----------------------------------------------------------------------------
\* Variant: the number is taken back whichever it is.
RemoveIn_Always(h) ==
    /\ hpc[h] = "test" /\ Goto(h, "free")
    /\ n' = [n EXCEPT ![h] = 1]
    /\ raced' = (raced \/ AtIndex(h))
    /\ UNCHANGED <<kernel, list, readers, writer, op, of, port, old, order, astray,
                   crashed, trouble>>

\* RemoveIn: next_index is compared with the number of the bus master.
RemoveIn(h) ==
    /\ hpc[h] = "test" /\ Goto(h, "free")
    /\ n' = [n EXCEPT ![h] = IF index[old[h]] = next_index - 1 THEN 1 ELSE 0]
    /\ raced' = (raced \/ AtIndex(h))
    /\ UNCHANGED <<kernel, list, readers, writer, op, of, port, old, order, astray,
                   crashed, trouble>>

\* The list without the port in cell c, if it is in it.
Unlinked(c) == IF c \in Listed THEN Without(head_port, c) ELSE head_port

\* The rest of RemoveIn and of RemovePort: the number is taken back if it was
\* the last, the port is unlinked and freed.  Del_InFlight then reads the next
\* port from the one it has freed: it goes on, comes to an end early, or ends
\* the program.  A handler's own port is unlinked without the lock, though it
\* is in no list: what another handler frees meanwhile may end the program.
RemovePort(h) ==
    /\ hpc[h] = "free"
    /\ next_index' = next_index - n[h] /\ n' = [n EXCEPT ![h] = 0]
    /\ head_port' = Unlinked(old[h])
    /\ id' = [id EXCEPT ![old[h]] = None] /\ index' = [index EXCEPT ![old[h]] = 0]
    /\ \/ /\ old[h] = port[h]
          /\ Rest(h) /\ old' = [old EXCEPT ![h] = None]
          /\ crashed' \in {FALSE, writer # None}
          /\ UNCHANGED <<writer, order, astray>>
       \/ /\ old[h] # port[h]
          /\ old' = [old EXCEPT ![h] = None] /\ Goto(h, "list")
          /\ UNCHANGED <<op, of, port, writer, order, astray, crashed>>
       \/ /\ old[h] # port[h]
          /\ old' = [old EXCEPT ![h] = port[h]] /\ Goto(h, "test")
          /\ Applied(h) /\ writer' = None
          /\ crashed' \in BOOLEAN
          /\ UNCHANGED <<op, of, port>>
    /\ UNCHANGED <<kernel, readers, raced, trouble>>

Handle(h) ==
    \/ AllocIn(h) \/ CreateW1Port(h) \/ Wlock(h)
    \/ Add_InFlight(h) \/ Del_InFlight(h) \/ RemoveIn(h) \/ RemovePort(h)

-----------------------------------------------------------------------------
\* No two bus masters have the same number, be they listed or on their way,
\* unless two handlers were at next_index at once, which no lock prevents:
\* a path bus.N and a cached location name one bus master.
IndexUnique ==
    ~crashed /\ ~raced => \A c, d \in Live : index[c] = index[d] => c = d

\* When all messages are dealt with, the list holds each master that is
\* plugged in exactly once, and no other, unless of two messages on one
\* master the later was dealt with first or a handler failed.  (Each has
\* a thread of its own, and nothing keeps the threads in order.)
FollowsKernel ==
    ~crashed /\ ~astray /\ (\A h \in Handler : hpc[h] = "idle") =>
        /\ {id[c] : c \in Listed} = kernel
        /\ Cardinality(kernel) = Len(head_port)
=============================================================================
