------------------------- MODULE DeviceLockProofs -------------------------
(***************************************************************************)
(* Proofs about DeviceLock, for any number of threads, bus masters and     *)
(* devices.  The safety properties follow from one inductive invariant.    *)
(***************************************************************************)
EXTENDS DeviceLock, FiniteSetTheorems, TLAPS

InTree == {"claim", "grab", "held", "leave", "reap"}

\* dev_mutex of a bus master is held exactly by the thread that is between
\* DEVTREE_LOCK and DEVTREE_UNLOCK on that bus master.
TreeMutex ==
    \A t \in Thread, b \in Bus :
        devMutex[b] = t <=> pc[t] \in {"claim", "reap"} /\ sel[t][1] = b

\* A block that is not in a tree yet belongs to one thread.
PrivateBlock ==
    \A t \in Thread : pc[t] = "tree" =>
        /\ lock[t] \in heap
        /\ \A d \in Device : devDb[d] # lock[t]
        /\ \A s \in Thread : lock[s] = lock[t] => s = t

\* A devlock serves one device.
TreeInjective ==
    \A d, e \in Device : devDb[d] # NoBlock /\ devDb[d] = devDb[e] => d = e

IdlePointer ==
    \A t \in Thread : pc[t] \in {"idle", "unlocked"} => lock[t] = NoBlock

OwnerHolds == \A t \in Thread : pc[t] = "held" => owner[lock[t]] = t

\* The inductive invariant.
IInv ==
    /\ TypeOK
    /\ TreeMutex
    /\ PrivateBlock
    /\ TreeInjective
    /\ IdlePointer
    /\ OwnerHolds
    /\ NoUseAfterFree
    /\ UsersCountsClaims
    /\ NoLeak

---------------------------------------------------------------------------
LEMMA ClaimantsFinite == \A n : IsFiniteSet(Claimants(n))
  BY ThreadAssumption, FS_Subset DEF Claimants

LEMMA InitIInv == Init => IInv
<1> SUFFICES ASSUME Init PROVE IInv
  OBVIOUS
<1> USE ThreadAssumption, BlockAssumption DEF Init
<1>1. TypeOK
  BY DEF TypeOK, PcValue
<1>2. TreeMutex /\ PrivateBlock /\ TreeInjective /\ IdlePointer /\ OwnerHolds
  BY DEF TreeMutex, PrivateBlock, TreeInjective, IdlePointer, OwnerHolds
<1>3. NoUseAfterFree /\ UsersCountsClaims /\ NoLeak
  BY DEF NoUseAfterFree, UsersCountsClaims, NoLeak
<1> QED
  BY <1>1, <1>2, <1>3 DEF IInv

---------------------------------------------------------------------------
\* Facts about the thread that takes a step.
LEMMA GetExemptIInv == ASSUME NEW t \in Thread, IInv, GetExempt(t) PROVE IInv'
<1> USE DEF IInv, GetExempt
<1>1. TypeOK'
  BY DEF TypeOK, PcValue
<1>2. (TreeMutex /\ PrivateBlock /\ TreeInjective /\ IdlePointer /\ OwnerHolds)'
  BY DEF TypeOK, TreeMutex, PrivateBlock, TreeInjective, IdlePointer, OwnerHolds
<1>3. (NoUseAfterFree /\ NoLeak)'
  BY DEF TypeOK, NoUseAfterFree, NoLeak
<1>4. \A n : Claimants(n)' = Claimants(n)
  BY DEF TypeOK, Claimants
<1>5. UsersCountsClaims'
  BY <1>4 DEF UsersCountsClaims
<1> QED
  BY <1>1, <1>2, <1>3, <1>5

LEMMA AllocateIInv ==
  ASSUME NEW t \in Thread, NEW d \in Device, NEW n \in Block,
         IInv, Allocate(t, d, n)
  PROVE  IInv'
<1> USE BlockAssumption, ThreadAssumption DEF IInv, Allocate
<1>1. TypeOK'
  BY DEF TypeOK, PcValue
<1>2. \A s \in Thread : lock[s] # n
  BY DEF TypeOK, PcValue, PrivateBlock, IdlePointer, NoUseAfterFree
<1>3. \A e \in Device : devDb[e] # n
  BY DEF TypeOK, NoLeak
<1>4. TreeMutex'
  BY DEF TypeOK, TreeMutex
<1>5. PrivateBlock'
  BY <1>2, <1>3 DEF TypeOK, PrivateBlock
<1>6. (TreeInjective /\ IdlePointer /\ OwnerHolds)'
  BY DEF TypeOK, TreeInjective, IdlePointer, OwnerHolds
<1>7. NoUseAfterFree'
  BY DEF TypeOK, NoUseAfterFree
<1>8. NoLeak'
  BY DEF TypeOK, NoLeak, IdlePointer
<1>9. \A m : m # n => Claimants(m)' = Claimants(m)
  BY DEF TypeOK, Claimants
<1>10. UsersCountsClaims'
  BY <1>3, <1>9 DEF UsersCountsClaims
<1> QED
  BY <1>1, <1>4, <1>5, <1>6, <1>7, <1>8, <1>10

LEMMA SearchIInv == ASSUME NEW t \in Thread, IInv, Search(t) PROVE IInv'
<1> USE BlockAssumption, ThreadAssumption DEF IInv
<1> DEFINE d == sel[t]
<1>0. d \in Device /\ d[1] \in Bus /\ lock[t] \in Block
  BY DEF TypeOK, Device, Search, PrivateBlock
<1>1. TypeOK'
  BY <1>0 DEF TypeOK, PcValue, Search
<1>2. TreeMutex'
  BY <1>0 DEF TypeOK, TreeMutex, Search
<1>3. CASE devDb[d] = NoBlock
  <2>1. (PrivateBlock /\ IdlePointer /\ TreeInjective)'
    BY <1>0, <1>3 DEF TypeOK, PrivateBlock, IdlePointer, TreeInjective, Search
  <2>2. \A s \in Thread : s # t => lock[s] # lock[t]
    BY DEF Search, PrivateBlock
  <2>3. OwnerHolds'
    <3> SUFFICES ASSUME NEW s \in Thread, pc'[s] = "held"
                 PROVE  owner'[lock'[s]] = s
      BY DEF OwnerHolds
    <3>1. s # t /\ pc[s] = "held" /\ lock'[s] = lock[s]
      BY <1>0, <1>3 DEF TypeOK, Search
    <3>2. lock[s] \in Block /\ lock[s] # lock[t]
      BY <3>1, <2>2 DEF TypeOK, NoUseAfterFree
    <3>3. owner'[lock[s]] = owner[lock[s]]
      BY <3>2, <1>0, <1>3 DEF TypeOK, Search
    <3> QED BY <3>1, <3>3 DEF OwnerHolds
  <2>4. NoUseAfterFree'
    <3>1. \A s \in Thread : s # t /\ pc[s] \in InTree => sel[s] # d
      BY <1>3 DEF TypeOK, NoUseAfterFree, InTree
    <3>2. \A s \in Thread : s # t /\ pc[s] \in InTree => devDb'[sel[s]] = devDb[sel[s]]
      BY <3>1, <1>0, <1>3 DEF TypeOK, Search
    <3>3. devDb'[d] = lock[t] /\ lock[t] \in heap /\ UNCHANGED <<heap, sel, lock>>
      BY <1>0, <1>3 DEF TypeOK, Search, PrivateBlock
    <3>4. \A s \in Thread : s # t => pc'[s] = pc[s]
      BY DEF TypeOK, Search
    <3> QED BY <3>2, <3>3, <3>4 DEF NoUseAfterFree, InTree
  <2>5. NoLeak'
    BY <1>0, <1>3 DEF TypeOK, NoLeak, PrivateBlock, Search
  <2>6. \A n : Claimants(n)' = Claimants(n)
    BY <1>3 DEF TypeOK, Claimants, Search
  <2>7. Claimants(lock[t]) = {}
    BY <2>2 DEF Claimants, Search
  <2>8. UsersCountsClaims'
    <3> SUFFICES ASSUME NEW e \in Device, devDb'[e] # NoBlock
                 PROVE  users'[devDb'[e]] = Cardinality(Claimants(devDb'[e]))
      BY <2>6 DEF UsersCountsClaims
    <3>1. CASE e = d
      <4>1. devDb'[e] = lock[t] /\ users'[lock[t]] = 0
        BY <3>1, <1>0, <1>3 DEF TypeOK, Search
      <4> QED BY <4>1, <2>7, FS_EmptySet
    <3>2. CASE e # d
      <4>1. devDb'[e] = devDb[e] /\ devDb[e] # lock[t]
        BY <3>2, <1>0, <1>3 DEF TypeOK, Search, PrivateBlock
      <4>2. users'[devDb[e]] = users[devDb[e]]
        BY <4>1, <1>0, <1>3 DEF TypeOK, Search
      <4> QED BY <4>1, <4>2 DEF UsersCountsClaims
    <3> QED BY <3>1, <3>2
  <2> QED BY <1>1, <1>2, <2>1, <2>3, <2>4, <2>5, <2>8
<1>4. CASE devDb[d] # NoBlock
  <2>1. (PrivateBlock /\ IdlePointer /\ TreeInjective)'
    BY <1>0, <1>4 DEF TypeOK, PrivateBlock, IdlePointer, TreeInjective, Search
  <2>2. OwnerHolds'
    BY <1>0, <1>4 DEF TypeOK, OwnerHolds, Search
  <2>3. NoUseAfterFree'
    BY <1>0, <1>4 DEF TypeOK, NoUseAfterFree, PrivateBlock, NoLeak, Search
  <2>4. NoLeak'
    BY <1>0, <1>4 DEF TypeOK, NoLeak, PrivateBlock, Search
  <2>5. \A n : Claimants(n)' = Claimants(n)
    BY <1>0, <1>4 DEF TypeOK, Claimants, Search
  <2>6. UsersCountsClaims'
    BY <1>4, <2>5 DEF UsersCountsClaims, Search
  <2> QED BY <1>1, <1>2, <2>1, <2>2, <2>3, <2>4, <2>6
<1> QED BY <1>3, <1>4

LEMMA SearchFailsIInv == ASSUME NEW t \in Thread, IInv, SearchFails(t) PROVE IInv'
<1> USE BlockAssumption, ThreadAssumption DEF IInv, SearchFails
<1>1. TypeOK'
  BY DEF TypeOK, PcValue
<1>2. (TreeMutex /\ PrivateBlock /\ TreeInjective /\ IdlePointer /\ OwnerHolds)'
  BY DEF TypeOK, TreeMutex, PrivateBlock, TreeInjective, IdlePointer, OwnerHolds
<1>3. NoUseAfterFree'
  BY DEF TypeOK, NoUseAfterFree, PrivateBlock
<1>4. NoLeak'
  BY DEF TypeOK, NoLeak, PrivateBlock
<1>5. \A n : Claimants(n)' = Claimants(n)
  BY DEF TypeOK, Claimants
<1>6. UsersCountsClaims'
  BY <1>5 DEF UsersCountsClaims
<1> QED BY <1>1, <1>2, <1>3, <1>4, <1>6

LEMMA ClaimIInv == ASSUME NEW t \in Thread, IInv, Claim(t) PROVE IInv'
<1> USE BlockAssumption, ThreadAssumption DEF IInv, Claim
<1>0. /\ sel[t] \in Device /\ sel[t][1] \in Bus
      /\ lock[t] \in Block /\ devDb[sel[t]] = lock[t]
  BY DEF TypeOK, Device, NoUseAfterFree
<1>1. TypeOK'
  BY <1>0 DEF TypeOK, PcValue
<1>2. TreeMutex'
  BY <1>0 DEF TypeOK, TreeMutex
<1>3. (PrivateBlock /\ TreeInjective /\ IdlePointer /\ OwnerHolds)'
  BY DEF TypeOK, PrivateBlock, TreeInjective, IdlePointer, OwnerHolds
<1>4. (NoUseAfterFree /\ NoLeak)'
  BY DEF TypeOK, NoUseAfterFree, NoLeak
<1>5. Claimants(lock[t])' = Claimants(lock[t]) \cup {t} /\ t \notin Claimants(lock[t])
  BY DEF TypeOK, Claimants
<1>6. \A n : n # lock[t] => Claimants(n)' = Claimants(n)
  BY DEF TypeOK, Claimants
<1>7. UsersCountsClaims'
  <2> SUFFICES ASSUME NEW e \in Device, devDb[e] # NoBlock
               PROVE  users'[devDb[e]] = Cardinality(Claimants(devDb[e])')
    BY DEF UsersCountsClaims, Claimants
  <2>1. CASE e = sel[t]
    <3>1. users'[lock[t]] = users[lock[t]] + 1
      BY <1>0 DEF TypeOK
    <3>2. Cardinality(Claimants(lock[t]) \cup {t}) = Cardinality(Claimants(lock[t])) + 1
      BY <1>5, ClaimantsFinite, FS_AddElement
    <3> QED BY <3>1, <3>2, <1>0, <1>5, <2>1 DEF UsersCountsClaims
  <2>2. CASE e # sel[t]
    <3>1. devDb[e] # lock[t] /\ devDb[e] \in Block
      BY <1>0, <2>2 DEF TypeOK, TreeInjective
    <3>2. users'[devDb[e]] = users[devDb[e]]
      BY <1>0, <3>1 DEF TypeOK
    <3> QED BY <3>1, <3>2, <1>6 DEF UsersCountsClaims
  <2> QED BY <2>1, <2>2
<1> QED BY <1>1, <1>2, <1>3, <1>4, <1>7

LEMMA GrabIInv == ASSUME NEW t \in Thread, IInv, Grab(t) PROVE IInv'
<1> USE BlockAssumption, ThreadAssumption DEF IInv, Grab
<1>0. lock[t] \in Block
  BY DEF TypeOK, NoUseAfterFree
<1>1. TypeOK'
  BY <1>0 DEF TypeOK, PcValue
<1>2. (TreeMutex /\ PrivateBlock /\ TreeInjective /\ IdlePointer)'
  BY DEF TypeOK, TreeMutex, PrivateBlock, TreeInjective, IdlePointer
<1>3. OwnerHolds'
  BY <1>0 DEF TypeOK, OwnerHolds
<1>4. (NoUseAfterFree /\ NoLeak)'
  BY DEF TypeOK, NoUseAfterFree, NoLeak
<1>5. \A n : Claimants(n)' = Claimants(n)
  BY DEF TypeOK, Claimants
<1>6. UsersCountsClaims'
  BY <1>5 DEF UsersCountsClaims
<1> QED BY <1>1, <1>2, <1>3, <1>4, <1>6
LEMMA ReleaseExemptIInv == ASSUME NEW t \in Thread, IInv, ReleaseExempt(t) PROVE IInv'
<1> USE DEF IInv, ReleaseExempt
<1>1. TypeOK'
  BY DEF TypeOK, PcValue
<1>2. (TreeMutex /\ PrivateBlock /\ TreeInjective /\ IdlePointer /\ OwnerHolds)'
  BY DEF TypeOK, TreeMutex, PrivateBlock, TreeInjective, IdlePointer, OwnerHolds
<1>3. (NoUseAfterFree /\ NoLeak)'
  BY DEF TypeOK, NoUseAfterFree, NoLeak
<1>4. \A n : Claimants(n)' = Claimants(n)
  BY DEF TypeOK, Claimants
<1>5. UsersCountsClaims'
  BY <1>4 DEF UsersCountsClaims
<1> QED BY <1>1, <1>2, <1>3, <1>5

LEMMA UnlockIInv == ASSUME NEW t \in Thread, IInv, Unlock(t) PROVE IInv'
<1> USE BlockAssumption, ThreadAssumption DEF IInv, Unlock
<1>0. lock[t] \in Block
  BY DEF TypeOK, NoUseAfterFree
<1>1. TypeOK'
  BY <1>0 DEF TypeOK, PcValue
<1>2. (TreeMutex /\ PrivateBlock /\ TreeInjective /\ IdlePointer)'
  BY DEF TypeOK, TreeMutex, PrivateBlock, TreeInjective, IdlePointer
<1>3. OwnerHolds'
  BY <1>0 DEF TypeOK, OwnerHolds
<1>4. (NoUseAfterFree /\ NoLeak)'
  BY DEF TypeOK, NoUseAfterFree, NoLeak
<1>5. \A n : Claimants(n)' = Claimants(n)
  BY DEF TypeOK, Claimants
<1>6. UsersCountsClaims'
  BY <1>5 DEF UsersCountsClaims
<1> QED BY <1>1, <1>2, <1>3, <1>4, <1>6

LEMMA DisclaimIInv == ASSUME NEW t \in Thread, IInv, Disclaim(t) PROVE IInv'
<1> USE BlockAssumption, ThreadAssumption DEF IInv, Disclaim
<1>0. /\ sel[t] \in Device /\ sel[t][1] \in Bus
      /\ lock[t] \in Block /\ devDb[sel[t]] = lock[t]
  BY DEF TypeOK, Device, NoUseAfterFree
<1>1. /\ t \in Claimants(lock[t])
      /\ Claimants(lock[t])' = Claimants(lock[t]) \ {t}
  BY DEF TypeOK, Claimants
<1>2. \A n : n # lock[t] => Claimants(n)' = Claimants(n)
  BY DEF TypeOK, Claimants
<1>3. /\ users[lock[t]] = Cardinality(Claimants(lock[t]))
      /\ users[lock[t]] \in Nat
      /\ users'[lock[t]] = users[lock[t]] - 1
  BY <1>0 DEF TypeOK, UsersCountsClaims
<1>4. Cardinality(Claimants(lock[t]) \ {t}) = users[lock[t]] - 1
  BY <1>1, <1>3, ClaimantsFinite, FS_RemoveElement
<1>5. users[lock[t]] - 1 \in Nat
  BY <1>4, ClaimantsFinite, FS_RemoveElement, FS_CardinalityType
<1>6. TypeOK'
  BY <1>0, <1>5 DEF TypeOK, PcValue
<1>7. TreeMutex'
  BY <1>0 DEF TypeOK, TreeMutex
<1>8. (PrivateBlock /\ TreeInjective /\ IdlePointer /\ OwnerHolds)'
  BY DEF TypeOK, PrivateBlock, TreeInjective, IdlePointer, OwnerHolds
<1>9. (NoUseAfterFree /\ NoLeak)'
  BY DEF TypeOK, NoUseAfterFree, NoLeak
<1>10. UsersCountsClaims'
  <2> SUFFICES ASSUME NEW e \in Device, devDb[e] # NoBlock
               PROVE  users'[devDb[e]] = Cardinality(Claimants(devDb[e])')
    BY DEF UsersCountsClaims, Claimants
  <2>1. CASE e = sel[t]
    BY <1>0, <1>1, <1>3, <1>4, <2>1
  <2>2. CASE e # sel[t]
    <3>1. devDb[e] # lock[t] /\ devDb[e] \in Block
      BY <1>0, <2>2 DEF TypeOK, TreeInjective
    <3>2. users'[devDb[e]] = users[devDb[e]]
      BY <1>0, <3>1 DEF TypeOK
    <3> QED BY <3>1, <3>2, <1>2 DEF UsersCountsClaims
  <2> QED BY <2>1, <2>2
<1> QED BY <1>6, <1>7, <1>8, <1>9, <1>10

LEMMA ReapIInv == ASSUME NEW t \in Thread, IInv, Reap(t) PROVE IInv'
<1> USE BlockAssumption, ThreadAssumption DEF IInv
<1>0. /\ sel[t] \in Device /\ sel[t][1] \in Bus /\ pc[t] = "reap"
      /\ lock[t] \in Block /\ devDb[sel[t]] = lock[t]
  BY DEF TypeOK, Device, NoUseAfterFree, Reap
<1>1. TypeOK'
  BY DEF TypeOK, PcValue, Reap
<1>2. TreeMutex'
  BY <1>0 DEF TypeOK, TreeMutex, Reap
<1>3. \A n \in Block : Claimants(n)' = Claimants(n)
  BY DEF TypeOK, Claimants, Reap
<1>4. users[lock[t]] = Cardinality(Claimants(lock[t]))
  BY <1>0 DEF UsersCountsClaims
<1>5. CASE users[lock[t]] = 0
  <2>1. Claimants(lock[t]) = {}
    BY <1>4, <1>5, ClaimantsFinite, FS_EmptySet
  \* a thread that claims or reaps the same device would hold dev_mutex too
  <2>2. \A s \in Thread : s # t /\ pc[s] \in InTree => sel[s] # sel[t] /\ lock[s] # lock[t]
    <3> SUFFICES ASSUME NEW s \in Thread, s # t, pc[s] \in InTree,
                        sel[s] = sel[t] \/ lock[s] = lock[t]
                 PROVE  FALSE
      OBVIOUS
    <3>1. sel[s] = sel[t] /\ lock[s] = lock[t]
      BY <1>0 DEF TypeOK, NoUseAfterFree, TreeInjective, InTree
    <3>2. pc[s] \in {"claim", "reap"}
      BY <2>1, <3>1 DEF Claimants, InTree
    <3> QED BY <3>1, <3>2, <1>0 DEF TreeMutex
  <2>3. (PrivateBlock /\ TreeInjective /\ IdlePointer)'
    BY <1>0, <1>5 DEF TypeOK, PrivateBlock, TreeInjective, IdlePointer, Reap
  <2>4. OwnerHolds'
    BY <1>0, <1>5 DEF TypeOK, OwnerHolds, Reap
  <2>5. NoUseAfterFree'
    BY <1>0, <1>5, <2>2 DEF TypeOK, NoUseAfterFree, InTree, Reap
  <2>6. NoLeak'
    BY <1>0, <1>5 DEF TypeOK, NoLeak, TreeInjective, Reap
  <2>7. UsersCountsClaims'
    BY <1>0, <1>3, <1>5 DEF TypeOK, UsersCountsClaims, Reap
  <2> QED BY <1>1, <1>2, <2>3, <2>4, <2>5, <2>6, <2>7
<1>6. CASE users[lock[t]] # 0
  <2>1. PICK s \in Thread : s # t /\ lock[s] = lock[t]
    <3>1. Claimants(lock[t]) # {}
      BY <1>4, <1>6, FS_EmptySet
    <3> QED BY <3>1, <1>0 DEF Claimants
  <2>2. (PrivateBlock /\ TreeInjective /\ IdlePointer /\ OwnerHolds)'
    BY <1>0, <1>6 DEF TypeOK, PrivateBlock, TreeInjective, IdlePointer, OwnerHolds, Reap
  <2>3. NoUseAfterFree'
    BY <1>0, <1>6 DEF TypeOK, NoUseAfterFree, Reap
  <2>4. NoLeak'
    BY <1>0, <1>6, <2>1 DEF TypeOK, NoLeak, Reap
  <2>5. UsersCountsClaims'
    BY <1>0, <1>3, <1>6 DEF TypeOK, UsersCountsClaims, Reap
  <2> QED BY <1>1, <1>2, <2>2, <2>3, <2>4, <2>5
<1> QED BY <1>5, <1>6

---------------------------------------------------------------------------
\* Every step of every thread preserves the invariant.
LEMMA NextIInv == IInv /\ [Next]_vars => IInv'
<1> SUFFICES ASSUME IInv, [Next]_vars PROVE IInv'
  OBVIOUS
<1>1. ASSUME NEW t \in Thread, Step(t) PROVE IInv'
  BY <1>1, GetExemptIInv, AllocateIInv, SearchIInv, SearchFailsIInv, ClaimIInv,
     GrabIInv, ReleaseExemptIInv, UnlockIInv, DisclaimIInv, ReapIInv DEF Step, Proceed
<1>2. CASE UNCHANGED vars
  BY <1>2 DEF vars, IInv, TypeOK, TreeMutex, PrivateBlock, TreeInjective,
     IdlePointer, OwnerHolds, NoUseAfterFree, UsersCountsClaims, Claimants, NoLeak
<1> QED BY <1>1, <1>2 DEF Next

LEMMA Invariance == Spec => []IInv
  BY InitIInv, NextIInv, PTL DEF Spec

\* The type invariant of the device locks.
THEOREM TypeCorrect == Spec => []TypeOK
  BY Invariance, PTL DEF IInv

\* For any number of threads, devices and bus masters, DeviceLockGet never
\* gives one device to two queries at once.
THEOREM DeviceExclusion == Spec => []MutualExclusion
<1>1. IInv => MutualExclusion
  <2> SUFFICES ASSUME IInv, NEW s \in Thread, NEW t \in Thread,
                      pc[s] = "held", pc[t] = "held", sel[s] = sel[t]
               PROVE  s = t
    BY DEF MutualExclusion
  <2>1. lock[s] = lock[t]
    BY DEF IInv, NoUseAfterFree
  <2> QED BY <2>1 DEF IInv, OwnerHolds
<1> QED BY <1>1, Invariance, PTL

\* No thread inside DeviceLockGet or DeviceLockRelease follows a pointer to a
\* devlock that has been freed or taken out of its tree.
THEOREM NoDanglingDevlock == Spec => []NoUseAfterFree
  BY Invariance, PTL DEF IInv

\* devlock.users is the number of queries with a claim on the device.
THEOREM UsersExact == Spec => []UsersCountsClaims
  BY Invariance, PTL DEF IInv

\* Every allocated devlock is still referenced by a thread.
THEOREM NothingLeaks == Spec => []NoLeak
  BY Invariance, PTL DEF IInv
===========================================================================
