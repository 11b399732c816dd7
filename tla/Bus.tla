-------------------------------- MODULE Bus ---------------------------------
(* One local bus master as the threads of several queries use it: the lock   *)
(* of the bus (ow_buslock.c), transactions (ow_transaction.c), the reset and *)
(* the count of its errors (ow_reset.c), the test that closes and reopens a  *)
(* bus master after too many of them (ow_reconnect.c), and the selection of  *)
(* a path through DS2409 couplers (ow_select.c, ow_2409.c), for which the    *)
(* bus master remembers the branch it turned on last.                        *)
(*                                                                           *)
(* A coupler joins one of its two branches to the wire it hangs on, or none. *)
(* A path is the sequence of <<coupler, branch>> that leads to a device; the *)
(* devices on the trunk have the empty path.                                 *)
EXTENDS Integers, Sequences

CONSTANTS
    Threads,            \* the queries that run
    None,               \* no thread, no coupler
    Coupler,            \* the DS2409s
    Path,               \* the path each coupler hangs on
    Targets,            \* the paths of the devices the queries are for
    Ds2404,             \* ds2404_found: a failed reset is tried once more
    reconnect_error,    \* 2, ow_connection_in.h
    MaxTrouble          \* bound: exchanges with the bus that fail, times the bus
                        \* master is unplugged, and properties written that
                        \* switch couplers or set reconnect_state

Branch == {"main", "aux"}
Leg == Coupler \X Branch
Bad == <<None, "bad">>          \* eBranch_bad
Cleared == <<None, "cleared">>  \* eBranch_cleared

\* The paths in use.  They are those of one tree: a coupler hangs on one place.
Routes == Targets \cup {Path[c] : c \in Coupler}
Physical(p) == \A i \in 1..Len(p) : Path[p[i][1]] = SubSeq(p, 1, i - 1)

ASSUME BusAssumption ==
    /\ None \notin Threads
    /\ Path \in [Coupler -> Seq(Leg)] /\ Targets \subseteq Seq(Leg)
    /\ \A p \in Routes : Physical(p)
    /\ Ds2404 \in BOOLEAN /\ reconnect_error \in Nat \ {0, 1}
    /\ MaxTrouble \in Nat

VARIABLES
    bus_mutex,          \* the thread that has the bus, or None
    branch,             \* in->branch: Bad, Cleared or the leg turned on last
    reconnect_state,    \* in->reconnect_state, counted up to reconnect_error
    pc, kind,           \* of a thread: where it is, and if its query reads or writes
    job,                \* of the thread that has the bus: what it is to do
    turnoff_level,      \* of the thread that has the bus: the level to clear
    level,              \* its couplers switched since the last reset; -1: reset to do
    shorted,            \* that reset found a short circuit
    on,                 \* hardware: the branch a coupler has joined, or "off"
    open, works,        \* the bus master is open; it is plugged in
    trouble,            \* what is left of MaxTrouble
    dirty,              \* history: a coupler may be on that branch knows nothing of
    sound               \* history: good reset or connection since the last error
                        \* and the last reconnection asked for

levels == <<turnoff_level, level, shorted>>
plug == <<open, works>>
vars == <<bus_mutex, branch, reconnect_state, pc, kind, job, levels, on, plug,
          trouble, dirty, sound>>

-----------------------------------------------------------------------------
\* What a transaction is for: to use a device, to switch a coupler by its
\* property branch, to turn it off (clearevent), or to discharge it.
Use == [cmd : {"use"}, path : Targets]
Manual ==
    [cmd : {"branch"}, path : {Path[c] : c \in Coupler}, leg : Leg]
    \cup [cmd : {"clearevent", "discharge", "again"},
          path : {Path[c] : c \in Coupler}, leg : Coupler \X {"off"}]
NoJob == [cmd |-> "none", path |-> <<>>]

\* Hardware: coupler c is joined to the segment that path p leads to.
Hears(c, p) ==
    /\ Len(p) <= Len(Path[c]) /\ SubSeq(Path[c], 1, Len(p)) = p
    /\ \A i \in (Len(p) + 1)..Len(Path[c]) : on[Path[c][i][1]] = Path[c][i][2]

\* The legs joined to the trunk.
Joined ==
    {<<c, on[c]>> : c \in {d \in Coupler : on[d] # "off" /\ Hears(d, <<>>)}}

TypeOK ==
    /\ bus_mutex \in Threads \cup {None}
    /\ branch \in {Bad, Cleared} \cup Leg
    /\ reconnect_state \in 0..reconnect_error
    /\ pc \in [Threads -> {"idle", "test", "relock", "retest", "detect", "lock",
                           "select", "clear", "turnon", "selected"}]
    /\ kind \in [Threads -> {"none", "read", "write"}]
    /\ job \in Use \cup Manual \cup {NoJob}
    /\ turnoff_level \in Nat /\ level \in Nat \cup {-1}
    /\ on \in [Coupler -> Branch \cup {"off"}]
    /\ open \in BOOLEAN /\ works \in BOOLEAN /\ shorted \in BOOLEAN
    /\ trouble \in 0..MaxTrouble
    /\ dirty \in BOOLEAN /\ sound \in BOOLEAN

\* A bus master that was just detected; AllocIn has set branch.
Init ==
    /\ bus_mutex = None /\ branch = Bad /\ reconnect_state = 0
    /\ pc = [t \in Threads |-> "idle"] /\ kind = [t \in Threads |-> "none"]
    /\ job = NoJob
    /\ turnoff_level = 0 /\ level = -1 /\ shorted = FALSE
    /\ on \in [Coupler -> Branch \cup {"off"}]
    /\ open = TRUE /\ works = TRUE
    /\ trouble = MaxTrouble
    /\ dirty = TRUE /\ sound = TRUE

-----------------------------------------------------------------------------
Goto(t, l) == pc' = [pc EXCEPT ![t] = l]
Restart(l) == turnoff_level' = l /\ level' = -1 /\ shorted' = FALSE

\* A query starts.  Only a read goes to the bus without TestConnection.
\* Verifying that a device is present counts as a write here.
Begin(t) ==
    /\ pc[t] = "idle"
    /\ \E k \in {"read", "write"} :
         kind' = [kind EXCEPT ![t] = k] /\ Goto(t, IF k = "read" THEN "lock" ELSE "test")
    /\ UNCHANGED <<bus_mutex, branch, reconnect_state, job, levels, on, plug,
                   trouble, dirty, sound>>

\* The query is over; a read that failed looks for the device first
\* (FS_read_real, ReCheckPresence), which starts with TestConnection.
Return(t, good) ==
    /\ bus_mutex' = None /\ job' = NoJob /\ Restart(0)
    /\ IF kind[t] = "read" /\ ~good
       THEN Goto(t, "test") /\ kind' = [kind EXCEPT ![t] = "write"]
       ELSE Goto(t, "idle") /\ kind' = [kind EXCEPT ![t] = "none"]

-----------------------------------------------------------------------------
\* TestConnection: the test without the lock.
TestConnection(t) ==
    /\ pc[t] = "test"
    /\ Goto(t, IF reconnect_state < reconnect_error THEN "lock" ELSE "relock")
    /\ UNCHANGED <<bus_mutex, branch, reconnect_state, kind, job, levels, on, plug,
                   trouble, dirty, sound>>

TestLock(t) ==
    /\ pc[t] = "relock" /\ bus_mutex = None
    /\ bus_mutex' = t /\ Goto(t, "retest")
    /\ UNCHANGED <<branch, reconnect_state, kind, job, levels, on, plug, trouble, dirty, sound>>

\* Variant: the state is not looked at again under the lock.
TestAgain_Once(t) ==
    /\ pc[t] = "retest"
    /\ open' = FALSE /\ Goto(t, "detect")
    /\ UNCHANGED <<bus_mutex, branch, reconnect_state, kind, job, levels, on, works,
                   trouble, dirty, sound>>

\* The test with the lock, and BUS_close.
TestAgain(t) ==
    /\ pc[t] = "retest"
    /\ \/ /\ reconnect_state >= reconnect_error
          /\ open' = FALSE /\ Goto(t, "detect")
          /\ UNCHANGED bus_mutex
       \/ /\ reconnect_state < reconnect_error
          /\ bus_mutex' = None /\ Goto(t, "lock")
          /\ UNCHANGED open
    /\ UNCHANGED <<branch, reconnect_state, kind, job, levels, on, works,
                   trouble, dirty, sound>>

\* Trouble comes, or does not.
Spend == trouble > 0 /\ trouble' = trouble - 1
Quiet == UNCHANGED trouble

\* The reconnect or detect routine of the bus master, and what follows it.
Reconnect(t) ==
    /\ pc[t] = "detect"
    /\ \/ /\ works /\ Quiet
          /\ open' = TRUE /\ reconnect_state' = 0 /\ sound' = TRUE
          /\ bus_mutex' = None /\ Goto(t, "lock")
          /\ UNCHANGED <<kind, job, levels>>
       \/ /\ \/ ~works /\ Quiet
             \/ Spend
          /\ reconnect_state' = 1
          /\ Return(t, TRUE)        \* there is no transaction to fail
          /\ UNCHANGED <<open, sound>>
    /\ UNCHANGED <<branch, on, works, dirty>>

\* A thread clears or turns on a path.
InPath(t) == pc[t] \in {"clear", "turnon"}

\* interface/reconnect is written (FS_w_interface, FS_w_reconnect): with no
\* lock and no TestConnection, so that the write is lost if a thread that
\* resets the bus is counting an error meanwhile.  To set the state to ok says
\* nothing of the bus master; to set it to error asks for the reconnection.
FS_w_reconnect(t) ==
    /\ pc[t] = "idle" /\ Spend
    /\ \/ reconnect_state' \in {0, reconnect_error}
       \/ (\E u \in Threads : InPath(u)) /\ level = -1 /\ UNCHANGED reconnect_state
    /\ sound' = (sound /\ reconnect_state' = 0)
    /\ UNCHANGED <<bus_mutex, branch, pc, kind, job, levels, on, plug, dirty>>

-----------------------------------------------------------------------------
\* BUSLOCK, for a transaction.  What it is for is drawn here: nothing before
\* depends on it.  OW_discharge forgets the branch before its transaction.
Lock(t) ==
    /\ pc[t] = "lock" /\ bus_mutex = None
    /\ bus_mutex' = t /\ Goto(t, "select")
    /\ \/ /\ job' \in Use
          /\ Quiet /\ UNCHANGED branch
       \/ /\ kind[t] = "write" /\ Spend
          /\ \E c \in Coupler :
               job' \in [cmd : {"branch"}, path : {Path[c]}, leg : {c} \X Branch]
                   \cup [cmd : {"clearevent", "discharge"}, path : {Path[c]}, leg : {<<c, "off">>}]
          /\ branch' = IF job'.cmd = "discharge" THEN Bad ELSE branch
    /\ UNCHANGED <<reconnect_state, kind, levels, on, plug, dirty, sound>>

\* BUS_select: what branch must be for the path not to be cleared first.
Remembered(p) == IF p = <<>> THEN Cleared ELSE p[Len(p)]

BUS_select(t) ==
    /\ pc[t] = "select"
    /\ Goto(t, IF branch = Remembered(job.path) THEN "turnon" ELSE "clear")
    /\ Restart(0)
    /\ UNCHANGED <<bus_mutex, branch, reconnect_state, kind, job, on, plug,
                   trouble, dirty, sound>>

\* One exchange of BUS_select_branched_path or BUS_clear_this_path is done.
Advance(t, l) ==
    /\ level' = l
    /\ Goto(t, IF pc[t] = "turnon" /\ l = Len(job.path) THEN "selected" ELSE pc[t])
    /\ UNCHANGED <<bus_mutex, branch, kind, job, turnoff_level, dirty>>

\* BUS_select goes on to turn on the path.
TurnOn(t) == Goto(t, "turnon") /\ Restart(0) /\ UNCHANGED <<bus_mutex, kind, job>>

\* It failed: a root path is given up if it cannot be cleared, for another
\* path that is overlooked; a path that cannot be turned on is forgotten.
Fails(t) ==
    LET p == job.path IN
    \/ /\ pc[t] = "clear" /\ p = <<>>
       /\ Return(t, FALSE) /\ UNCHANGED <<branch, dirty>>
    \/ /\ pc[t] = "clear" /\ p # <<>>
       /\ branch' = Remembered(p) /\ dirty' = TRUE
       /\ TurnOn(t)
    \/ /\ pc[t] = "turnon"
       /\ branch' = Bad
       /\ Return(t, FALSE) /\ UNCHANGED dirty

Alive == open /\ works

\* Variant: errors are not counted.
ResetError_NotCounted == sound' = FALSE /\ UNCHANGED reconnect_state

\* An error brings the reconnection nearer.
ResetError ==
    /\ reconnect_state' = IF reconnect_state < reconnect_error
                          THEN reconnect_state + 1 ELSE reconnect_state
    /\ sound' = FALSE

\* BUS_reset, in all its outcomes.  A short circuit passes for a good reset.
BUS_reset(t) ==
    /\ InPath(t) /\ level = -1
    /\ \/ /\ Alive /\ Quiet         \* BUS_RESET_OK
          /\ reconnect_state' = 0 /\ sound' = TRUE /\ shorted' = FALSE
          /\ Advance(t, 0)
       \/ /\ Alive /\ Spend         \* BUS_RESET_SHORT
          /\ shorted' = TRUE
          /\ Advance(t, 0) /\ UNCHANGED <<reconnect_state, sound>>
       \/ /\ Alive /\ Spend /\ Ds2404   \* the second attempt is good
          /\ shorted' = FALSE
          /\ Advance(t, 0) /\ UNCHANGED <<reconnect_state, sound>>
       \/ /\ \/ ~Alive /\ Quiet     \* BUS_RESET_ERROR
             \/ Spend
          /\ ResetError
          /\ Fails(t)
    /\ UNCHANGED <<on, plug>>

\* A command to couplers that makes their switches hw: it is carried out, or
\* it fails and may have been carried out nevertheless.
Carried(hw) == Alive /\ ~shorted /\ Quiet /\ on' = hw
Failed(hw) == \/ (~Alive \/ shorted) /\ Quiet /\ UNCHANGED on
              \/ Spend /\ on' \in {on, IF Alive /\ ~shorted THEN hw ELSE on}

\* The last level of the loop at hand.
LastLevel(t) == IF pc[t] = "clear" THEN turnoff_level ELSE Len(job.path)

\* BUS_select_branch: smart-on, with the echo of a coupler that hears it.
BUS_select_branch(t) ==
    /\ InPath(t) /\ level \in 0..(LastLevel(t) - 1)
    /\ LET p == job.path
           leg == p[level + 1]
           there == Hears(leg[1], SubSeq(p, 1, level)) /\ Hears(leg[1], <<>>)
           hw == [on EXCEPT ![leg[1]] = IF there THEN leg[2] ELSE @]
       IN \/ there /\ Carried(hw) /\ Advance(t, level + 1) /\ UNCHANGED shorted
          \/ there /\ Failed(hw) /\ Fails(t)
          \/ ~there /\ Quiet /\ UNCHANGED on /\ Fails(t)
    /\ UNCHANGED <<reconnect_state, plug, sound>>

\* The couplers that hear "all lines off" after the first l legs of p.
AllOff(p, l) ==
    [c \in Coupler |-> IF Hears(c, SubSeq(p, 1, l)) /\ Hears(c, <<>>) THEN "off" ELSE on[c]]

\* Variant: only the trunk is cleared.
Turnoff_Trunk(t) ==
    /\ pc[t] = "clear" /\ level = turnoff_level
    /\ \/ /\ Carried(AllOff(job.path, level))
          /\ branch' = Remembered(job.path) /\ dirty' = FALSE
          /\ TurnOn(t)
       \/ Failed(AllOff(job.path, level)) /\ Fails(t)
    /\ UNCHANGED <<reconnect_state, plug, sound>>

\* Turnoff, and the end of BUS_clear_this_path after the last level.
Turnoff(t) ==
    /\ pc[t] = "clear" /\ level = turnoff_level
    /\ LET p == job.path IN
       \/ /\ Carried(AllOff(p, level))
          /\ IF turnoff_level < Len(p)
             THEN /\ Restart(turnoff_level + 1)
                  /\ UNCHANGED <<bus_mutex, branch, pc, kind, job, dirty>>
             ELSE /\ branch' = Remembered(p) /\ dirty' = FALSE
                  /\ TurnOn(t)
       \/ Failed(AllOff(p, level)) /\ Fails(t)
    /\ UNCHANGED <<reconnect_state, plug, sound>>

-----------------------------------------------------------------------------
\* The rest of the transaction: the device is selected and does what it is
\* told.  The second half of OW_discharge selects the coupler once more.
Transact(t) ==
    /\ pc[t] = "selected"
    /\ LET hw == IF job.cmd \in {"branch", "clearevent", "again"} /\ Hears(job.leg[1], <<>>)
                 THEN [on EXCEPT ![job.leg[1]] = job.leg[2]] ELSE on
       IN \/ /\ job.cmd = "discharge" /\ Carried(on)
             /\ job' = [job EXCEPT !.cmd = "again"] /\ Goto(t, "select") /\ Restart(0)
             /\ UNCHANGED <<bus_mutex, kind>>
          \/ job.cmd # "discharge" /\ Carried(hw) /\ Return(t, TRUE)
          \/ Failed(hw) /\ Return(t, FALSE)
    /\ dirty' = (dirty \/ job.cmd = "branch")
    /\ UNCHANGED <<branch, reconnect_state, plug, sound>>

\* Hardware: the bus master is unplugged, and its handle may be dead; the
\* couplers may lose their power; it is plugged in again.
Unplug ==
    /\ works /\ Spend
    /\ works' = FALSE
    /\ open' \in {open, FALSE} /\ on' \in {on, [c \in Coupler |-> "off"]}
    /\ UNCHANGED <<bus_mutex, branch, reconnect_state, pc, kind, job, levels,
                   dirty, sound>>

Replug ==
    /\ ~works /\ works' = TRUE
    /\ UNCHANGED <<bus_mutex, branch, reconnect_state, pc, kind, job, levels, on, open,
                   trouble, dirty, sound>>

Step(t) ==
    \/ TestConnection(t) \/ TestLock(t) \/ TestAgain(t) \/ Reconnect(t)
    \/ Lock(t) \/ BUS_select(t)
    \/ BUS_reset(t) \/ BUS_select_branch(t) \/ Turnoff(t) \/ Transact(t)

Next == (\E t \in Threads : Begin(t) \/ FS_w_reconnect(t) \/ Step(t)) \/ Unplug \/ Replug

Spec == Init /\ [][Next]_vars /\ \A t \in Threads : WF_vars(Step(t))

-----------------------------------------------------------------------------
\* When BUS_select has turned on a path, no branch of any other coupler is
\* joined to the trunk: the device is alone with those on its own path.  So it
\* is after any paths selected before, after one that failed while it was
\* turned on, and after the couplers lost their power; but not, until the next
\* path is cleared, while the couplers are dirty: at the start, after a coupler
\* was switched by hand (its property branch), and after the clearing of a
\* branched path failed, which BUS_select overlooks.
OnlyThePath ==
    \A t \in Threads : pc[t] = "selected" /\ ~dirty =>
        Joined \subseteq {job.path[i] : i \in 1..Len(job.path)}

\* TestConnection never closes a bus master that another thread has
\* reconnected, or reset without an error, in the meantime, unless its
\* reconnection was asked for since.  (A reset that is good only at the second
\* attempt, with a DS2404, leaves the errors counted; and a state set to ok by
\* interface/reconnect does not stop a thread that has tested it already.)
ClosesOnlyFailed == \A t \in Threads : pc[t] = "detect" => ~sound

\* If the bus master stays plugged in from some time on, and queries keep
\* coming, it is open again sooner or later, and stays open.  That it stays
\* open rests on the bound MaxTrouble: there are only so many failures, and
\* writes of interface/reconnect, after which the bus is good.
Recovers ==
    (<>[]works /\ []<><<\E t \in Threads : Begin(t)>>_vars) => <>[]open

=============================================================================
