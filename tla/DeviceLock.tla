---------------------------- MODULE DeviceLock ----------------------------
(***************************************************************************)
(* The per-device lock of owlib (module/owlib/src/c/ow_devicelock.c).      *)
(*                                                                         *)
(* Every bus master keeps a tree of devlocks, one for each slave device    *)
(* some query is busy with.  A devlock is allocated by the first query     *)
(* that wants the device, counts the queries that want it (users) and is   *)
(* freed by the last one that leaves.  The tree and the counts are guarded *)
(* by the bus master's dev_mutex; the device is guarded by the mutex       *)
(* inside the devlock, which is taken after dev_mutex has been given back. *)
(***************************************************************************)
EXTENDS Naturals, FiniteSets

CONSTANTS Thread,    \* the query threads
          Bus,       \* bus masters (struct connection_in)
          Sn,        \* serial numbers of slave devices
          Block,     \* heap blocks that owmalloc can hand out
          NoThread,  \* an unlocked mutex
          NoBlock    \* a NULL pointer

ASSUME ThreadAssumption == IsFiniteSet(Thread) /\ NoThread \notin Thread
ASSUME BlockAssumption == NoBlock \notin Block

VARIABLES
    pc,       \* where each thread is inside DeviceLockGet / DeviceLockRelease
    sel,      \* the device (bus master and serial number) each query is about
    lock,     \* each thread's pointer: local_devicelock, tree_devicelock, pn->lock
    devMutex, \* holder of dev_mutex of each bus master
    devDb,    \* the tree of devlocks of every bus master, by device
    heap,     \* the allocated devlocks
    users,    \* devlock.users
    owner     \* holder of devlock.lock

vars == <<pc, sel, lock, devMutex, devDb, heap, users, owner>>

Device == Bus \X Sn

PcValue == {"idle", "unlocked", "tree", "claim", "grab", "held", "leave", "reap"}

TypeOK ==
    /\ pc \in [Thread -> PcValue]
    /\ sel \in [Thread -> Device]
    /\ lock \in [Thread -> Block \cup {NoBlock}]
    /\ devMutex \in [Bus -> Thread \cup {NoThread}]
    /\ devDb \in [Device -> Block \cup {NoBlock}]
    /\ heap \in SUBSET Block
    /\ users \in [Block -> Nat]
    /\ owner \in [Block -> Thread \cup {NoThread}]

Init ==
    /\ pc = [t \in Thread |-> "idle"]
    /\ sel \in [Thread -> Device]
    /\ lock = [t \in Thread |-> NoBlock]
    /\ devMutex = [b \in Bus |-> NoThread]
    /\ devDb = [d \in Device |-> NoBlock]
    /\ heap = {}
    /\ users = [n \in Block |-> 0]
    /\ owner = [n \in Block |-> NoThread]

---------------------------------------------------------------------------
(* DeviceLockGet *)

\* Simultaneous, external, directory, static and statistic entries are read
\* and written without a device lock: DeviceLockGet returns 0 at once.
GetExempt(t) ==
    /\ pc[t] = "idle"
    /\ pc' = [pc EXCEPT ![t] = "unlocked"]
    /\ UNCHANGED <<sel, lock, devMutex, devDb, heap, users, owner>>

\* A devlock block for the tree is allocated before the tree is locked.
Allocate(t, d, n) ==
    /\ pc[t] = "idle"
    /\ n \notin heap
    /\ pc' = [pc EXCEPT ![t] = "tree"]
    /\ sel' = [sel EXCEPT ![t] = d]
    /\ lock' = [lock EXCEPT ![t] = n]
    /\ heap' = heap \cup {n}
    /\ UNCHANGED <<devMutex, devDb, users, owner>>

\* Variants of Search with a slip: the tree is not locked; a new devlock is
\* counted before it is claimed; the superfluous block is not freed.
Search_NoTreeLock(t) ==
    /\ pc[t] = "tree"
    /\ pc' = [pc EXCEPT ![t] = "claim"]
    /\ IF devDb[sel[t]] = NoBlock
         THEN /\ devDb' = [devDb EXCEPT ![sel[t]] = lock[t]]
              /\ UNCHANGED <<lock, heap>>
         ELSE /\ heap' = heap \ {lock[t]}
              /\ lock' = [lock EXCEPT ![t] = devDb[sel[t]]]
              /\ UNCHANGED devDb
    /\ UNCHANGED <<sel, devMutex, users, owner>>

Search_UsersOne(t) ==
    /\ pc[t] = "tree"
    /\ devMutex[sel[t][1]] = NoThread
    /\ devMutex' = [devMutex EXCEPT ![sel[t][1]] = t]
    /\ pc' = [pc EXCEPT ![t] = "claim"]
    /\ IF devDb[sel[t]] = NoBlock
         THEN /\ devDb' = [devDb EXCEPT ![sel[t]] = lock[t]]
              /\ users' = [users EXCEPT ![lock[t]] = 1]
              /\ UNCHANGED <<lock, heap>>
         ELSE /\ heap' = heap \ {lock[t]}
              /\ lock' = [lock EXCEPT ![t] = devDb[sel[t]]]
              /\ UNCHANGED <<devDb, users>>
    /\ UNCHANGED <<sel, owner>>

Search_NoFree(t) ==
    /\ pc[t] = "tree"
    /\ devMutex[sel[t][1]] = NoThread
    /\ devMutex' = [devMutex EXCEPT ![sel[t][1]] = t]
    /\ pc' = [pc EXCEPT ![t] = "claim"]
    /\ IF devDb[sel[t]] = NoBlock
         THEN /\ devDb' = [devDb EXCEPT ![sel[t]] = lock[t]]
              /\ users' = [users EXCEPT ![lock[t]] = 0]
              /\ UNCHANGED lock
         ELSE /\ lock' = [lock EXCEPT ![t] = devDb[sel[t]]]
              /\ UNCHANGED <<devDb, users>>
    /\ UNCHANGED <<sel, heap, owner>>

\* DEVTREE_LOCK and tsearch: the new block becomes the device's devlock, or
\* is freed in favour of the one that is there already.
Search(t) ==
    LET d == sel[t] IN
    /\ pc[t] = "tree"
    /\ devMutex[d[1]] = NoThread
    /\ devMutex' = [devMutex EXCEPT ![d[1]] = t]
    /\ pc' = [pc EXCEPT ![t] = "claim"]
    /\ IF devDb[d] = NoBlock
         THEN /\ devDb' = [devDb EXCEPT ![d] = lock[t]]
              /\ users' = [users EXCEPT ![lock[t]] = 0]
              /\ owner' = [owner EXCEPT ![lock[t]] = NoThread]
              /\ UNCHANGED <<lock, heap>>
         ELSE /\ heap' = heap \ {lock[t]}
              /\ lock' = [lock EXCEPT ![t] = devDb[d]]
              /\ UNCHANGED <<devDb, users, owner>>
    /\ UNCHANGED sel

\* A variant that returns without DEVTREE_UNLOCK.
SearchFails_KeepsTreeLock(t) ==
    /\ pc[t] = "tree"
    /\ devMutex[sel[t][1]] = NoThread
    /\ devDb[sel[t]] = NoBlock
    /\ devMutex' = [devMutex EXCEPT ![sel[t][1]] = t]
    /\ pc' = [pc EXCEPT ![t] = "idle"]
    /\ heap' = heap \ {lock[t]}
    /\ lock' = [lock EXCEPT ![t] = NoBlock]
    /\ UNCHANGED <<sel, devDb, users, owner>>

\* tsearch finds no devlock and cannot grow the tree: -ENOMEM.
SearchFails(t) ==
    LET d == sel[t] IN
    /\ pc[t] = "tree"
    /\ devMutex[d[1]] = NoThread
    /\ devDb[d] = NoBlock
    /\ pc' = [pc EXCEPT ![t] = "idle"]
    /\ heap' = heap \ {lock[t]}
    /\ lock' = [lock EXCEPT ![t] = NoBlock]
    /\ UNCHANGED <<sel, devMutex, devDb, users, owner>>

\* ++users and DEVTREE_UNLOCK.
Claim(t) ==
    /\ pc[t] = "claim"
    /\ users' = [users EXCEPT ![lock[t]] = @ + 1]
    /\ devMutex' = [devMutex EXCEPT ![sel[t][1]] = NoThread]
    /\ pc' = [pc EXCEPT ![t] = "grab"]
    /\ UNCHANGED <<sel, lock, devDb, heap, owner>>

\* The device's own mutex; the query then owns the device.
Grab(t) ==
    /\ pc[t] = "grab"
    /\ owner[lock[t]] = NoThread
    /\ owner' = [owner EXCEPT ![lock[t]] = t]
    /\ pc' = [pc EXCEPT ![t] = "held"]
    /\ UNCHANGED <<sel, lock, devMutex, devDb, heap, users>>

---------------------------------------------------------------------------
(* DeviceLockRelease *)

\* pn->lock is NULL for an exempt query: nothing to release.
ReleaseExempt(t) ==
    /\ pc[t] = "unlocked"
    /\ pc' = [pc EXCEPT ![t] = "idle"]
    /\ UNCHANGED <<sel, lock, devMutex, devDb, heap, users, owner>>

Unlock(t) ==
    /\ pc[t] = "held"
    /\ owner' = [owner EXCEPT ![lock[t]] = NoThread]
    /\ pc' = [pc EXCEPT ![t] = "leave"]
    /\ UNCHANGED <<sel, lock, devMutex, devDb, heap, users>>

\* DEVTREE_LOCK and --users.
Disclaim(t) ==
    /\ pc[t] = "leave"
    /\ devMutex[sel[t][1]] = NoThread
    /\ devMutex' = [devMutex EXCEPT ![sel[t][1]] = t]
    /\ users' = [users EXCEPT ![lock[t]] = @ - 1]
    /\ pc' = [pc EXCEPT ![t] = "reap"]
    /\ UNCHANGED <<sel, lock, devDb, heap, owner>>

\* A variant in which every user frees the devlock.
Reap_Always(t) ==
    /\ pc[t] = "reap"
    /\ devDb' = [devDb EXCEPT ![sel[t]] = NoBlock]
    /\ heap' = heap \ {lock[t]}
    /\ devMutex' = [devMutex EXCEPT ![sel[t][1]] = NoThread]
    /\ lock' = [lock EXCEPT ![t] = NoBlock]
    /\ pc' = [pc EXCEPT ![t] = "idle"]
    /\ UNCHANGED <<sel, users, owner>>

\* The last user takes the devlock out of the tree and frees it; then
\* DEVTREE_UNLOCK.
Reap(t) ==
    /\ pc[t] = "reap"
    /\ IF users[lock[t]] = 0
         THEN /\ devDb' = [devDb EXCEPT ![sel[t]] = NoBlock]
              /\ heap' = heap \ {lock[t]}
         ELSE UNCHANGED <<devDb, heap>>
    /\ devMutex' = [devMutex EXCEPT ![sel[t][1]] = NoThread]
    /\ lock' = [lock EXCEPT ![t] = NoBlock]
    /\ pc' = [pc EXCEPT ![t] = "idle"]
    /\ UNCHANGED <<sel, users, owner>>

---------------------------------------------------------------------------
\* The steps a query takes once it has started; starting one is up to the
\* program's clients.
Proceed(t) ==
    \/ Search(t) \/ Claim(t) \/ Grab(t)
    \/ ReleaseExempt(t) \/ Unlock(t) \/ Disclaim(t) \/ Reap(t)

Step(t) ==
    \/ GetExempt(t)
    \/ \E d \in Device, n \in Block : Allocate(t, d, n)
    \/ SearchFails(t)
    \/ Proceed(t)

Next == \E t \in Thread : Step(t)

Spec == Init /\ [][Next]_vars

\* A thread that can run does run.  Nothing is assumed about who gets a
\* mutex that several threads wait for.
FairSpec == Spec /\ \A t \in Thread : WF_vars(Proceed(t))

---------------------------------------------------------------------------
(* Properties *)

\* The threads inside DeviceLockGet or DeviceLockRelease that have their
\* claim on devlock n counted in n's users.
Claimants(n) == {t \in Thread : lock[t] = n /\ pc[t] \in {"grab", "held", "leave"}}

\* DeviceLockGet promises a device to one query at a time: two queries that
\* were both given the lock are about different devices.
MutualExclusion ==
    \A s, t \in Thread :
        pc[s] = "held" /\ pc[t] = "held" /\ s # t => sel[s] # sel[t]

\* No thread follows a pointer to a devlock that another thread's
\* DeviceLockRelease has already freed, and the devlock it follows is still
\* the one the tree has for its device (the two crashes noted in
\* ow_devicelock.c:130 and :137).
NoUseAfterFree ==
    \A t \in Thread :
        pc[t] \in {"claim", "grab", "held", "leave", "reap"} =>
            lock[t] \in heap /\ devDb[sel[t]] = lock[t]

\* The count that decides when a devlock is freed is the number of queries
\* that have a claim on it.
UsersCountsClaims ==
    \A d \in Device :
        devDb[d] # NoBlock => users[devDb[d]] = Cardinality(Claimants(devDb[d]))

\* Every allocated devlock is referenced by a thread that will free it or
\* leave it to another claimant: when the last query leaves nothing is left
\* behind, in the heap or in the trees.
NoLeak ==
    /\ \A n \in heap : \E t \in Thread : lock[t] = n
    /\ \A d \in Device : devDb[d] # NoBlock => devDb[d] \in heap

\* Once no new query starts, every query that is under way gets its device
\* (or the -ENOMEM answer), gives it back and leaves: dev_mutex and the device
\* mutexes never block each other, whoever wins the race for them.
Drains ==
    <>[][~\E t \in Thread : pc[t] = "idle" /\ pc'[t] # "idle"]_vars
        => <>[](\A t \in Thread : pc[t] = "idle")
===========================================================================
