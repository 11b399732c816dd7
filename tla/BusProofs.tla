------------------------------ MODULE BusProofs -----------------------------
(* TestConnection closes no bus master that is sound, and what is joined to  *)
(* the trunk when a device is selected is its own path: for any number of    *)
(* threads, any tree of couplers, and any bound on the trouble.              *)
(*                                                                           *)
(* The second part is about the branch that a bus master remembers.  Unless  *)
(* the couplers are dirty no coupler along that path leads off it, so the    *)
(* rest of the tree, which hangs behind such couplers, is cut off.           *)
EXTENDS Bus, FiniteSetTheorems, SequenceTheorems, WellFoundedInduction, TLAPS

\* The places where a thread has the bus.
Within == {"retest", "detect", "select", "clear", "turnon", "selected"}

\* What makes ClosesOnlyFailed inductive: only one thread is within the lock,
\* a sound bus master has no errors counted, so that a thread that finds
\* enough of them under the lock has found a bus master that is not sound,
\* and it stays so while the thread has the lock.
IInv ==
    /\ DOMAIN pc = Threads
    /\ \A t \in Threads : pc[t] \in Within => bus_mutex = t
    /\ sound => reconnect_state = 0
    /\ \A t \in Threads : pc[t] = "detect" => ~sound

LEMMA Initially == ASSUME Init PROVE IInv
  BY Zenon DEF Init, IInv, Within

LEMMA Preserved == ASSUME IInv, [Next]_vars PROVE IInv'
<1> USE BusAssumption DEF IInv, Within, Goto, Restart, levels, plug
<1>1. ASSUME NEW t \in Threads, Begin(t) PROVE IInv'
  BY <1>1, Zenon DEF Begin
<1>2. ASSUME NEW t \in Threads, TestConnection(t) PROVE IInv'
  BY <1>2, Zenon DEF TestConnection
<1>3. ASSUME NEW t \in Threads, TestLock(t) PROVE IInv'
  BY <1>3, Zenon DEF TestLock
<1>4. ASSUME NEW t \in Threads, TestAgain(t) PROVE IInv'
  BY <1>4 DEF TestAgain
<1>5. ASSUME NEW t \in Threads, Reconnect(t) PROVE IInv'
  <2>1. pc[t] = "detect" /\ ~sound /\ bus_mutex = t
    BY <1>5, Zenon DEF Reconnect
  <2>2. bus_mutex' = None /\ (reconnect_state' = 0 \/ UNCHANGED <<open, sound>>)
    BY <1>5, Zenon DEF Reconnect, Return
  <2>3. \E l \in {"lock", "test", "idle"} : pc' = [pc EXCEPT ![t] = l]
    BY <1>5, Zenon DEF Reconnect, Return
  <2>. QED BY <2>1, <2>2, <2>3
<1>6. ASSUME NEW t \in Threads, Lock(t) PROVE IInv'
  BY <1>6, Zenon DEF Lock
<1>7. ASSUME NEW t \in Threads, FS_w_reconnect(t) PROVE IInv'
  BY <1>7, Zenon DEF FS_w_reconnect
<1>8. ASSUME NEW t \in Threads, BUS_select(t) PROVE IInv'
  BY <1>8, Zenon DEF BUS_select
<1>9. ASSUME NEW t \in Threads, BUS_reset(t) PROVE IInv'
  <2>1. pc[t] \in {"clear", "turnon"}
    BY <1>9, Zenon DEF BUS_reset, InPath
  <2>2. CASE Advance(t, 0) /\ reconnect_state' = 0 /\ sound'
    BY <2>1, <2>2, Zenon DEF Advance
  <2>3. CASE Advance(t, 0) /\ UNCHANGED <<reconnect_state, sound>>
    BY <2>1, <2>3, Zenon DEF Advance
  <2>4. CASE ResetError /\ Fails(t)
    BY <2>1, <2>4, Zenon DEF ResetError, Fails, Return, TurnOn
  <2>. QED BY <1>9, <2>2, <2>3, <2>4, Zenon DEF BUS_reset
<1>10. ASSUME NEW t \in Threads, BUS_select_branch(t) PROVE IInv'
  <2>1. pc[t] \in {"clear", "turnon"} /\ UNCHANGED <<reconnect_state, sound>>
    BY <1>10, Zenon DEF BUS_select_branch, InPath
  <2>2. CASE Advance(t, level + 1)
    BY <2>1, <2>2, Zenon DEF Advance
  <2>3. CASE Fails(t)
    BY <2>1, <2>3, Zenon DEF Fails, Return, TurnOn
  <2>. QED BY <1>10, <2>2, <2>3, Zenon DEF BUS_select_branch
<1>11. ASSUME NEW t \in Threads, Turnoff(t) PROVE IInv'
  <2>1. pc[t] = "clear" /\ UNCHANGED <<reconnect_state, sound>>
    BY <1>11, Zenon DEF Turnoff
  <2>2. CASE UNCHANGED <<bus_mutex, pc>>
    BY <2>1, <2>2, Zenon
  <2>3. CASE TurnOn(t)
    BY <2>1, <2>3, Zenon DEF TurnOn
  <2>4. CASE Fails(t)
    BY <2>1, <2>4, Zenon DEF Fails, Return, TurnOn
  <2>. QED BY <1>11, <2>2, <2>3, <2>4, Zenon DEF Turnoff
<1>12. ASSUME NEW t \in Threads, Transact(t) PROVE IInv'
  <2>1. pc[t] = "selected" /\ UNCHANGED <<reconnect_state, sound>>
    BY <1>12, Zenon DEF Transact
  <2>2. CASE Goto(t, "select") /\ UNCHANGED bus_mutex
    BY <2>1, <2>2, Zenon
  <2>3. CASE Return(t, TRUE) \/ Return(t, FALSE)
    BY <2>1, <2>3, Zenon DEF Return
  <2>. QED BY <1>12, <2>2, <2>3, Zenon DEF Transact
<1>13. CASE Unplug \/ Replug \/ UNCHANGED vars
  <2>1. UNCHANGED <<pc, bus_mutex, reconnect_state, sound>>
    BY <1>13, Zenon DEF Unplug, Replug, vars
  <2>. QED BY <2>1, Zenon
<1>. QED
  BY <1>1, <1>2, <1>3, <1>4, <1>5, <1>6, <1>7, <1>8, <1>9, <1>10, <1>11, <1>12, <1>13
  DEF Next, Step

\* A bus master is closed for its reconnection only if no thread has
\* reconnected it or had a good reset since its last error, or since its
\* reconnection was asked for, however the tests without the lock
\* (TestConnection) and the writes without one (FS_w_reconnect) interleave.
THEOREM ClosesOnlyFailedHolds == Spec => []ClosesOnlyFailed
<1>1. IInv => ClosesOnlyFailed
  BY Zenon DEF IInv, ClosesOnlyFailed
<1>. QED BY Initially, Preserved, <1>1, PTL DEF Spec

-----------------------------------------------------------------------------
(* What is joined to the trunk *)

Legs(p) == {p[i] : i \in 1..Len(p)}

\* Coupler c hangs on the path p, or on a part of it.
Along(c, p) ==
    /\ Len(Path[c]) <= Len(p)
    /\ \A i \in 1..Len(Path[c]) : Path[c][i] = p[i]

\* With the switches sw no coupler along the first l places of p leads off it.
ClearTo(sw, p, l) ==
    \A c \in Coupler : Along(c, p) /\ Len(Path[c]) < l =>
        sw[c] = "off" \/ <<c, sw[c]>> \in Legs(p)

Clear(sw, p) == ClearTo(sw, p, Len(p) + 1)

\* The first l legs of p are on, unless the couplers have lost their power.
Walked(sw, p, l) ==
    \/ \A i \in 1..l : sw[p[i][1]] = p[i][2]
    \/ \A c \in Coupler : sw[c] = "off"

Switches == [Coupler -> Branch \cup {"off"}]

\* In less a coupler is off, or as it is in sw.
Fewer(less, sw) == \A c \in Coupler : less[c] = "off" \/ less[c] = sw[c]

\* A path in use is the path of its couplers, leg by leg.
LEMMA RouteFacts ==
    ASSUME NEW p \in Routes
    PROVE  /\ p \in Seq(Leg) /\ Len(p) \in Nat
           /\ \A i \in 1..Len(p) :
                /\ p[i] \in Leg /\ p[i][1] \in Coupler /\ p[i][2] \in Branch
                /\ p[i] = <<p[i][1], p[i][2]>>
                /\ Path[p[i][1]] \in Seq(Leg) /\ Len(Path[p[i][1]]) = i - 1
                /\ \A j \in 1..(i - 1) : Path[p[i][1]][j] = p[j]
<1>1. p \in Seq(Leg) /\ Len(p) \in Nat
  BY BusAssumption DEF Routes
<1>2. ASSUME NEW i \in 1..Len(p)
      PROVE  /\ p[i] \in Leg /\ p[i][1] \in Coupler /\ p[i][2] \in Branch
             /\ p[i] = <<p[i][1], p[i][2]>>
  BY <1>1 DEF Leg
<1>3. ASSUME NEW i \in 1..Len(p)
      PROVE  /\ Path[p[i][1]] \in Seq(Leg) /\ Len(Path[p[i][1]]) = i - 1
             /\ \A j \in 1..(i - 1) : Path[p[i][1]][j] = p[j]
  <2>1. Path[p[i][1]] = SubSeq(p, 1, i - 1)
    BY BusAssumption, Zenon DEF Physical
  <2>2. Path[p[i][1]] \in Seq(Leg)
    BY <1>2, BusAssumption, Zenon
  <2>3. i - 1 \in 0..Len(p)
    BY <1>1
  <2>. QED
    BY <1>1, <2>1, <2>2, <2>3
<1>. QED
  BY <1>1, <1>2, <1>3, Zenon

\* Two paths in use with a leg in common have it at the same place, and are
\* the same up to it.
LEMMA SameLeg ==
    ASSUME NEW p \in Routes, NEW q \in Routes,
           NEW i \in 1..Len(p), NEW j \in 1..Len(q), p[i][1] = q[j][1]
    PROVE  i = j /\ \A k \in 1..(i - 1) : p[k] = q[k]
<1>1. /\ Len(Path[p[i][1]]) = i - 1
      /\ \A k \in 1..(i - 1) : Path[p[i][1]][k] = p[k]
  BY RouteFacts, Zenon
<1>2. /\ Len(Path[q[j][1]]) = j - 1
      /\ \A k \in 1..(j - 1) : Path[q[j][1]][k] = q[k]
  BY RouteFacts, Zenon
<1>3. i = j
  BY <1>1, <1>2
<1>. QED
  BY <1>1, <1>2, <1>3, Zenon

\* The branch that is remembered says which path it was.
LEMMA RememberedPath ==
    ASSUME NEW p \in Routes, NEW q \in Routes, Remembered(p) = Remembered(q)
    PROVE  p = q
<1>1. ASSUME NEW r \in Routes, r # <<>>
      PROVE  /\ Len(r) \in 1..Len(r) /\ Remembered(r) = r[Len(r)]
             /\ r[Len(r)][2] \in Branch
  <2>1. Len(r) \in 1..Len(r)
    BY <1>1, RouteFacts
  <2>. QED
    BY <1>1, <2>1, RouteFacts, Zenon DEF Remembered
<1>2. Cleared[2] \notin Branch
  BY Zenon DEF Cleared, Branch
<1>3. Remembered(<<>>) = Cleared
  BY Zenon DEF Remembered
<1>4. CASE p # <<>> /\ q # <<>>
  <2>1. p[Len(p)] = q[Len(q)]
    BY <1>1, <1>4, Zenon
  <2>2. Len(p) = Len(q) /\ \A k \in 1..(Len(p) - 1) : p[k] = q[k]
    BY <1>1, <1>4, <2>1, SameLeg
  <2>3. \A k \in 1..Len(p) : p[k] = q[k]
    BY <2>1, <2>2, RouteFacts
  <2>4. p \in Seq(Leg) /\ q \in Seq(Leg)
    BY RouteFacts, Zenon
  <2>. QED
    BY <2>2, <2>3, <2>4, SeqEqual, Zenon
<1>5. CASE p = <<>> \/ q = <<>>
  BY <1>1, <1>2, <1>3, <1>5, Zenon
<1>. QED
  BY <1>4, <1>5, Zenon

LEMMA RememberedGood == ASSUME NEW p \in Routes PROVE Remembered(p) # Bad
<1>1. Bad[2] \notin Branch /\ Bad # Cleared
  BY Zenon DEF Bad, Cleared, Branch
<1>2. CASE p # <<>>
  <2>1. Len(p) \in 1..Len(p)
    BY <1>2, RouteFacts
  <2>. QED
    BY <1>1, <1>2, <2>1, RouteFacts, Zenon DEF Remembered
<1>. QED
  BY <1>1, <1>2, Zenon DEF Remembered

\* The proper subsets of finite sets are well-founded; so are intervals.
LEMMA Least ==
    ASSUME NEW S, S \subseteq Nat, S # {}
    PROVE  \E k \in S : \A l \in S : k <= l
<1> DEFINE T == {1..k : k \in S}
           R == StrictSubsetOrdering(Nat)
<1>1. IsWellFoundedOn(R, FiniteSubsetsOf(Nat))
  BY FS_StrictSubsetOrderingWellFounded, Zenon
<1>2. ASSUME NEW k \in S PROVE 1..k \in FiniteSubsetsOf(Nat)
  <2>1. IsFiniteSet(1..k)
    BY FS_Interval
  <2>2. 1..k \in SUBSET Nat
    OBVIOUS
  <2> QED
    BY <2>1, <2>2, Zenon DEF FiniteSubsetsOf
<1>3. T \subseteq FiniteSubsetsOf(Nat) /\ T # {}
  BY <1>2, Zenon
<1> HIDE DEF T, R
<1>4. \E t \in T : \A u \in T : ~(<<u, t>> \in R)
  BY <1>1, <1>3, WFMin, Zenon
<1>5. PICK k \in S : \A l \in S : ~(<<1..l, 1..k>> \in R)
  BY <1>4, Zenon DEF T
<1>6. ASSUME NEW l \in S, ~(k <= l) PROVE FALSE
  <2>1. 1..l \subseteq 1..k /\ k \in 1..k /\ k \notin 1..l
    BY <1>6
  <2>2. 1..l \in SUBSET Nat /\ 1..k \in SUBSET Nat
    BY <1>6
  <2> QED
    BY <1>5, <2>1, <2>2, Zenon DEF R, StrictSubsetOrdering
<1> QED
  BY <1>6, Zenon

\* If no coupler along p leads off it, only its legs are joined to the trunk:
\* the first place where the path of a joined coupler left p would be a
\* coupler along p that leads off it.
LEMMA ClearJoined ==
    ASSUME NEW p \in Routes, on \in Switches, Clear(on, p)
    PROVE  Joined \subseteq Legs(p)
<1>1. SUFFICES ASSUME NEW c \in Coupler, on[c] # "off", Hears(c, <<>>)
               PROVE  <<c, on[c]>> \in Legs(p)
  BY Zenon DEF Joined
<1>2. PICK q \in Routes : q = Path[c]
  BY Zenon DEF Routes
<1>3. /\ q \in Seq(Leg) /\ Len(q) \in Nat /\ Len(p) \in Nat
      /\ \A i \in 1..Len(q) :
            /\ q[i][1] \in Coupler /\ q[i][2] \in Branch
            /\ q[i] = <<q[i][1], q[i][2]>>
            /\ Len(Path[q[i][1]]) = i - 1
            /\ \A j \in 1..(i - 1) : Path[q[i][1]][j] = q[j]
  BY RouteFacts, Zenon
<1>4. ASSUME NEW i \in 1..Len(q) PROVE on[q[i][1]] = q[i][2]
  BY <1>1, <1>2, <1>3 DEF Hears
<1>5. ASSUME NEW k \in 1..Len(q), k - 1 <= Len(p), \A i \in 1..(k - 1) : q[i] = p[i]
      PROVE  k <= Len(p) /\ q[k] = p[k]
  <2>1. PICK d \in Coupler : d = q[k][1]
    BY <1>3, Zenon
  <2>2. Len(Path[d]) = k - 1 /\ \A j \in 1..(k - 1) : Path[d][j] = q[j]
    BY <1>3, <2>1, Zenon
  <2>3. Along(d, p) /\ Len(Path[d]) < Len(p) + 1
    BY <1>3, <1>5, <2>2 DEF Along
  <2>4. on[d] # "off" /\ q[k] = <<d, on[d]>>
    BY <1>3, <1>4, <2>1, Zenon DEF Branch
  <2>5. q[k] \in Legs(p)
    BY <2>3, <2>4, Zenon DEF Clear, ClearTo
  <2>6. PICK j \in 1..Len(p) : q[k] = p[j]
    BY <2>5, Zenon DEF Legs
  <2>7. k = j
    BY <2>6, SameLeg
  <2>. QED
    BY <1>3, <2>6, <2>7
<1>6. DEFINE S == {k \in 1..Len(q) : ~(k <= Len(p) /\ q[k] = p[k])}
<1>7. S = {}
  <2>1. SUFFICES ASSUME S # {} PROVE FALSE
    BY Zenon
  <2>2. S \subseteq Nat
    BY <1>3
  <2>3. PICK k \in S : \A l \in S : k <= l
    BY <2>1, <2>2, Least, Zenon
  <2>4. k \in 1..Len(q) /\ \A l \in 1..(k - 1) : l \notin S
    BY <1>3, <2>3
  <2>5. \A l \in 1..(k - 1) : l <= Len(p) /\ q[l] = p[l]
    BY <1>3, <2>4
  <2>6. k - 1 <= Len(p)
    BY <1>3, <2>4, <2>5
  <2>. QED
    BY <1>5, <2>3, <2>4, <2>5, <2>6, Zenon
<1>8. \A k \in 1..Len(q) : k <= Len(p) /\ q[k] = p[k]
  BY <1>7, Zenon
<1>9. Len(q) <= Len(p)
  BY <1>3, <1>8
<1>10. Along(c, p)
  BY <1>2, <1>8, <1>9, Zenon DEF Along
<1>11. Len(Path[c]) < Len(p) + 1
  BY <1>2, <1>3, <1>9
<1>. QED
  BY <1>1, <1>10, <1>11, Zenon DEF Clear, ClearTo

\* A path stays clear when couplers are turned off, ...
LEMMA FewerClear ==
    ASSUME NEW sw, NEW less, NEW p, NEW l, Fewer(less, sw), ClearTo(sw, p, l)
    PROVE  ClearTo(less, p, l)
  BY Zenon DEF Fewer, ClearTo

\* ... and when one of its own legs is turned on.
LEMMA LegClear ==
    ASSUME NEW sw \in Switches, NEW p \in Routes, NEW l, NEW i \in 1..Len(p),
           ClearTo(sw, p, l)
    PROVE  ClearTo([sw EXCEPT ![p[i][1]] = p[i][2]], p, l)
<1>1. p[i] \in Legs(p) /\ p[i] = <<p[i][1], p[i][2]>>
  BY RouteFacts, Zenon DEF Legs
<1>. QED
  BY <1>1, Zenon DEF ClearTo, Switches

\* A coupler that hears a command has its path turned on, so that the couplers
\* have not lost their power unless it hangs on the trunk.
LEMMA LegWalked ==
    ASSUME NEW p \in Routes, NEW l \in Nat, l + 1 <= Len(p), on \in Switches,
           Walked(on, p, l), Hears(p[l + 1][1], <<>>)
    PROVE  Walked([on EXCEPT ![p[l + 1][1]] = p[l + 1][2]], p, l + 1)
<1>1. PICK d \in Coupler : d = p[l + 1][1]
  BY RouteFacts
<1>2. Len(Path[d]) = l /\ \A j \in 1..l : Path[d][j] = p[j]
  <2>1. l + 1 \in 1..Len(p) /\ (l + 1) - 1 = l
    BY RouteFacts
  <2>. QED
    BY <1>1, <2>1, RouteFacts
<1>3. \A i \in 1..l : on[p[i][1]] = p[i][2]
  BY <1>1, <1>2 DEF Hears
<1>4. \A i \in 1..l : p[i][1] \in Coupler /\ p[i][1] # d
  <2>1. ASSUME NEW i \in 1..l PROVE p[i][1] \in Coupler /\ p[i][1] # d
    <3>1. i \in 1..Len(p) /\ l + 1 \in 1..Len(p) /\ i # l + 1
      BY RouteFacts
    <3>. QED
      BY <1>1, <3>1, RouteFacts, SameLeg, Zenon
  <2>. QED
    BY <2>1, Zenon
<1>5. ASSUME NEW i \in 1..(l + 1)
      PROVE  [on EXCEPT ![d] = p[l + 1][2]][p[i][1]] = p[i][2]
  <2>1. CASE i = l + 1
    BY <1>1, <2>1, Zenon DEF Switches
  <2>2. CASE i \in 1..l
    BY <1>3, <1>4, <2>2, Zenon DEF Switches
  <2>. QED
    BY <2>1, <2>2
<1>. QED
  BY <1>1, <1>5, Zenon DEF Walked

LEMMA AllOffFewer ==
    ASSUME NEW p, NEW l, on \in Switches
    PROVE  Fewer(AllOff(p, l), on) /\ AllOff(p, l) \in Switches
  BY Zenon DEF Fewer, AllOff, Switches

\* "All lines off" behind the first l legs of p clears the place there.
LEMMA AllOffClear ==
    ASSUME NEW p \in Routes, NEW l \in Nat, l <= Len(p), on \in Switches,
           Walked(on, p, l), ClearTo(on, p, l)
    PROVE  ClearTo(AllOff(p, l), p, l + 1)
<1>1. SUFFICES ASSUME NEW c \in Coupler, Along(c, p), Len(Path[c]) < l + 1,
                      AllOff(p, l)[c] # "off"
               PROVE  <<c, AllOff(p, l)[c]>> \in Legs(p)
  BY Zenon DEF ClearTo
<1>2. on[c] # "off" /\ AllOff(p, l)[c] = on[c]
      /\ ~(Hears(c, SubSeq(p, 1, l)) /\ Hears(c, <<>>))
  BY <1>1, Zenon DEF AllOff
<1>3. Path[c] \in Seq(Leg) /\ Len(Path[c]) \in Nat /\ p \in Seq(Leg) /\ Len(p) \in Nat
  BY RouteFacts, BusAssumption
<1>4. CASE Len(Path[c]) < l
  BY <1>1, <1>2, <1>4, Zenon DEF ClearTo
<1>5. CASE Len(Path[c]) = l
  <2>1. \A i \in 1..l : Path[c][i] = p[i] /\ on[Path[c][i][1]] = Path[c][i][2]
    BY <1>1, <1>2, <1>5, Zenon DEF Walked, Along
  <2>2. Hears(c, <<>>)
    <3>1. SubSeq(Path[c], 1, 0) = <<>>
      BY <1>3
    <3>. QED
      BY <1>3, <1>5, <2>1, <3>1 DEF Hears
  <2>3. SubSeq(p, 1, l) \in Seq(Leg) /\ Len(SubSeq(p, 1, l)) = l
        /\ \A i \in 1..l : SubSeq(p, 1, l)[i] = p[i]
    BY <1>3
  <2>4. SubSeq(Path[c], 1, l) \in Seq(Leg) /\ Len(SubSeq(Path[c], 1, l)) = l
        /\ \A i \in 1..l : SubSeq(Path[c], 1, l)[i] = Path[c][i]
    BY <1>3, <1>5
  <2>5. SubSeq(Path[c], 1, l) = SubSeq(p, 1, l)
    BY <2>1, <2>3, <2>4, SeqEqual
  <2>6. Hears(c, SubSeq(p, 1, l))
    BY <1>3, <1>5, <2>3, <2>5 DEF Hears
  <2>. QED
    BY <1>2, <2>2, <2>6, Zenon
<1>. QED
  BY <1>1, <1>3, <1>4, <1>5

-----------------------------------------------------------------------------
(* The branch that is remembered *)

Busy == {"select", "clear", "turnon", "selected"}

\* The path that br stands for, if it stands for one, is clear.
Trusted(sw, br) == \A p \in Routes : br = Remembered(p) => Clear(sw, p)

Clearing == \E t \in Threads : pc[t] = "clear" /\ job.path # <<>>

\* What makes OnlyThePath inductive: in->branch can be trusted unless the
\* couplers are dirty or a path is being cleared, and a path is turned on or
\* used only while in->branch stands for it.  While a path is being cleared,
\* the places that BUS_clear_this_path has done with are clear.
PathInv ==
    /\ on \in Switches /\ turnoff_level \in Nat /\ level \in Int
    /\ \A t \in Threads : pc[t] \in Busy => job \in Use \cup Manual
    /\ \A t \in Threads : pc[t] \in {"turnon", "selected"} => branch = Remembered(job.path)
    /\ \A t \in Threads : pc[t] = "clear" =>
         /\ level <= turnoff_level /\ turnoff_level <= Len(job.path)
         /\ ClearTo(on, job.path, turnoff_level) /\ Walked(on, job.path, level)
    /\ dirty \/ Clearing \/ Trusted(on, branch)

LEMMA JobPath == ASSUME NEW j \in Use \cup Manual PROVE j.path \in Routes
  BY Zenon DEF Use, Manual, Routes

LEMMA BadTrusted == ASSUME NEW sw PROVE Trusted(sw, Bad)
  BY RememberedGood, Zenon DEF Trusted

LEMMA FewerTrusted ==
    ASSUME NEW sw, NEW less, NEW br, Fewer(less, sw), Trusted(sw, br)
    PROVE  Trusted(less, br)
  BY FewerClear, Zenon DEF Trusted, Clear

\* The path that is remembered is the only one to be clear.
LEMMA PathTrusted ==
    ASSUME NEW sw, NEW p \in Routes, Clear(sw, p)
    PROVE  Trusted(sw, Remembered(p))
  BY RememberedPath, Zenon DEF Trusted

\* Outside of the lock only the places change.
LEMMA PlacesChange ==
    ASSUME PathInv, UNCHANGED <<on, turnoff_level, level, job, branch, dirty>>,
           \A t \in Threads : pc[t] \in Busy \/ pc'[t] \in Busy => pc'[t] = pc[t]
    PROVE  PathInv'
<1>1. Clearing' <=> Clearing
  BY Zenon DEF Clearing, Busy
<1>. QED
  BY <1>1, Zenon DEF PathInv, Busy

\* Only one thread is within the lock.
LEMMA Alone ==
    ASSUME IInv, NEW t \in Threads, pc[t] \in Within \/ bus_mutex = None
    PROVE  \A u \in Threads \ {t} : pc[u] \notin Within
  BY BusAssumption, Zenon DEF IInv

\* So only the thread that moves has to be looked at.
LEMMA OneMoves ==
    ASSUME NEW t \in Threads, \A u \in Threads \ {t} : pc'[u] \notin Busy,
           on' \in Switches, turnoff_level' \in Nat, level' \in Int,
           pc'[t] \in Busy => job' \in Use \cup Manual,
           pc'[t] \in {"turnon", "selected"} => branch' = Remembered(job'.path),
           pc'[t] = "clear" =>
              /\ level' <= turnoff_level' /\ turnoff_level' <= Len(job'.path)
              /\ ClearTo(on', job'.path, turnoff_level') /\ Walked(on', job'.path, level'),
           \/ dirty'
           \/ pc'[t] = "clear" /\ job'.path # <<>>
           \/ Trusted(on', branch')
    PROVE  PathInv'
<1>1. \A u \in Threads : pc'[u] \in Busy => u = t
  BY Zenon
<1>2. pc'[t] = "clear" /\ job'.path # <<>> => Clearing'
  BY Zenon DEF Clearing
<1>3. \A u \in Threads : pc'[u] \in Busy => job' \in Use \cup Manual
  BY <1>1, Zenon
<1>4. \A u \in Threads : pc'[u] \in {"turnon", "selected"} => branch' = Remembered(job'.path)
  BY <1>1, Zenon DEF Busy
<1>5. \A u \in Threads : pc'[u] = "clear" =>
         /\ level' <= turnoff_level' /\ turnoff_level' <= Len(job'.path)
         /\ ClearTo(on', job'.path, turnoff_level') /\ Walked(on', job'.path, level')
  BY <1>1, Zenon DEF Busy
<1>6. (dirty \/ Clearing \/ Trusted(on, branch))'
  BY <1>2, Zenon
<1>. QED
  BY <1>3, <1>4, <1>5, <1>6, Zenon DEF PathInv

\* A thread that is alone and not clearing a path finds what is remembered
\* as it should be.
LEMMA Remembers ==
    ASSUME IInv, PathInv, NEW t \in Threads, pc[t] \in Within \/ bus_mutex = None,
           pc[t] # "clear" \/ job.path = <<>>
    PROVE  dirty \/ Trusted(on, branch)
<1>1. ~Clearing
  BY Alone, Zenon DEF Clearing, Within
<1>. QED
  BY <1>1, Zenon DEF PathInv

LEMMA PathInitially == ASSUME Init PROVE PathInv
  BY DEF Init, PathInv, Busy, Switches

\* Return leaves the lock.
LEMMA Returned ==
    ASSUME IInv, NEW t \in Threads, pc[t] \in Within \/ bus_mutex = None,
           NEW good, Return(t, good), on' \in Switches,
           dirty' \/ Trusted(on', branch')
    PROVE  PathInv'
<1>1. pc'[t] \in {"idle", "test"} /\ \A u \in Threads \ {t} : pc'[u] = pc[u]
  BY Zenon DEF Return, Goto, IInv
<1>2. turnoff_level' \in Nat /\ level' \in Int
  BY DEF Return, Restart
<1>3. \A u \in Threads \ {t} : pc'[u] \notin Busy
  BY <1>1, Alone, Zenon DEF Within, Busy
<1>. QED
  BY <1>1, <1>2, <1>3, OneMoves, Zenon DEF Busy

\* Whatever fails on a path, what is remembered of it afterwards is right.
LEMMA FailsPath ==
    ASSUME IInv, PathInv, NEW t \in Threads, InPath(t), Fails(t), on' \in Switches,
           pc[t] = "clear" /\ job.path = <<>> => Fewer(on', on)
    PROVE  PathInv'
<1>1. pc[t] \in Within
  BY Zenon DEF InPath, Within
<1>2. CASE pc[t] = "clear" /\ job.path = <<>>
  <2>1. Return(t, FALSE) /\ UNCHANGED <<branch, dirty>>
    BY <1>2, Zenon DEF Fails
  <2>2. dirty \/ Trusted(on, branch)
    BY <1>1, <1>2, Remembers, Zenon
  <2>3. dirty' \/ Trusted(on', branch')
    BY <1>2, <2>1, <2>2, FewerTrusted, Zenon
  <2>. QED
    BY <1>1, <2>1, <2>3, Returned, Zenon
<1>3. CASE pc[t] = "clear" /\ job.path # <<>>
  <2>1. branch' = Remembered(job.path) /\ dirty' /\ TurnOn(t)
    BY <1>3, Zenon DEF Fails
  <2>2. pc'[t] = "turnon" /\ \A u \in Threads \ {t} : pc'[u] = pc[u]
    BY <2>1, Zenon DEF TurnOn, Goto, IInv
  <2>3. turnoff_level' \in Nat /\ level' \in Int /\ job' = job
    BY <2>1 DEF TurnOn, Restart
  <2>4. \A u \in Threads \ {t} : pc'[u] \notin Busy
    BY <1>1, <2>2, Alone, Zenon DEF Within, Busy
  <2>5. job \in Use \cup Manual
    BY <1>3, Zenon DEF PathInv, Busy
  <2>. QED
    BY <2>1, <2>2, <2>3, <2>4, <2>5, OneMoves, Zenon
<1>4. CASE pc[t] = "turnon"
  <2>1. branch' = Bad /\ Return(t, FALSE)
    BY <1>4, Zenon DEF Fails
  <2>. QED
    BY <1>1, <2>1, BadTrusted, Returned, Zenon
<1>. QED
  BY <1>2, <1>3, <1>4, Zenon DEF InPath

\* An exchange that is good leaves the thread in its loop, or ends it.
LEMMA AdvancePath ==
    ASSUME IInv, PathInv, NEW t \in Threads, InPath(t), NEW l \in Int, Advance(t, l),
           on' \in Switches,
           pc[t] = "clear" =>
              /\ l <= turnoff_level
              /\ ClearTo(on', job.path, turnoff_level) /\ Walked(on', job.path, l),
           \/ dirty
           \/ pc[t] = "clear" /\ job.path # <<>>
           \/ Trusted(on', branch)
    PROVE  PathInv'
<1>1. pc[t] \in Within /\ pc[t] \in Busy
  BY Zenon DEF InPath, Within, Busy
<1>2. /\ \A u \in Threads \ {t} : pc'[u] = pc[u]
      /\ pc[t] = "clear" => pc'[t] = "clear"
      /\ pc[t] = "turnon" => pc'[t] \in {"turnon", "selected"}
  BY Zenon DEF Advance, Goto, IInv
<1>3. level' = l /\ UNCHANGED <<branch, job, turnoff_level, dirty>>
  BY Zenon DEF Advance
<1>4. \A u \in Threads \ {t} : pc'[u] \notin Busy
  BY <1>1, <1>2, Alone, Zenon DEF Within, Busy
<1>5. turnoff_level' \in Nat /\ level' \in Int /\ job' \in Use \cup Manual
  BY <1>1, <1>3, Zenon DEF PathInv
<1>6. CASE pc[t] = "clear"
  <2>1. turnoff_level <= Len(job.path)
    BY <1>6, Zenon DEF PathInv
  <2>2. pc'[t] = "clear"
    BY <1>2, <1>6, Zenon
  <2>. QED
    BY <1>3, <1>4, <1>5, <1>6, <2>1, <2>2, OneMoves, Zenon
<1>7. CASE pc[t] = "turnon"
  <2>1. branch = Remembered(job.path)
    BY <1>7, Zenon DEF PathInv
  <2>2. pc'[t] # "clear"
    BY <1>2, <1>7, Zenon
  <2>. QED
    BY <1>3, <1>4, <1>5, <1>7, <2>1, <2>2, OneMoves, Zenon
<1>. QED
  BY <1>6, <1>7, Zenon DEF InPath

LEMMA OutsidePath ==
    ASSUME IInv, PathInv, NEW t \in Threads,
           Begin(t) \/ TestConnection(t) \/ TestLock(t) \/ TestAgain(t)
    PROVE  PathInv'
<1>1. UNCHANGED <<on, turnoff_level, level, job, branch, dirty>>
  BY Zenon DEF Begin, TestConnection, TestLock, TestAgain, levels
<1>2. pc[t] \notin Busy /\ pc'[t] \notin Busy /\ \A u \in Threads \ {t} : pc'[u] = pc[u]
  BY Zenon DEF Begin, TestConnection, TestLock, TestAgain, Goto, IInv, Busy
<1>. QED
  BY <1>1, <1>2, PlacesChange, Zenon

LEMMA ReconnectPath ==
    ASSUME IInv, PathInv, NEW t \in Threads, Reconnect(t)
    PROVE  PathInv'
<1>1. pc[t] = "detect" /\ UNCHANGED <<on, branch, dirty>>
  BY Zenon DEF Reconnect
<1>2. dirty \/ Trusted(on, branch)
  BY <1>1, Remembers, Zenon DEF Within
<1>3. on \in Switches
  BY Zenon DEF PathInv
<1>4. CASE Return(t, TRUE)
  BY <1>1, <1>2, <1>3, <1>4, Returned, Zenon DEF Within
<1>5. CASE Goto(t, "lock") /\ UNCHANGED <<job, levels>>
  <2>1. pc'[t] = "lock" /\ \A u \in Threads \ {t} : pc'[u] = pc[u]
    BY <1>5, Zenon DEF Goto, IInv
  <2>2. UNCHANGED <<turnoff_level, level, job>>
    BY <1>5, Zenon DEF levels
  <2>. QED
    BY <1>1, <2>1, <2>2, PlacesChange, Zenon DEF Busy
<1>. QED
  BY <1>4, <1>5, Zenon DEF Reconnect

LEMMA LockPath ==
    ASSUME IInv, PathInv, NEW t \in Threads, Lock(t)
    PROVE  PathInv'
<1>1. bus_mutex = None /\ pc[t] = "lock"
  BY Zenon DEF Lock
<1>2. UNCHANGED <<on, turnoff_level, level, dirty>>
  BY Zenon DEF Lock, levels
<1>3. pc'[t] = "select" /\ \A u \in Threads \ {t} : pc'[u] = pc[u]
  BY Zenon DEF Lock, Goto, IInv
<1>4. job' \in Use \cup Manual
  <2>1. ASSUME NEW c \in Coupler,
               job' \in [cmd : {"branch"}, path : {Path[c]}, leg : {c} \X Branch]
                   \cup [cmd : {"clearevent", "discharge"}, path : {Path[c]}, leg : {<<c, "off">>}]
        PROVE  job' \in Manual
    BY <2>1 DEF Manual, Leg
  <2>. QED
    BY <2>1, Zenon DEF Lock
<1>5. branch' \in {branch, Bad}
  BY Zenon DEF Lock
<1>6. dirty' \/ Trusted(on', branch')
  BY <1>1, <1>2, <1>5, Remembers, BadTrusted, Zenon
<1>7. \A u \in Threads \ {t} : pc'[u] \notin Busy
  BY <1>1, <1>3, Alone, Zenon DEF Within, Busy
<1>8. on' \in Switches /\ turnoff_level' \in Nat /\ level' \in Int
  BY <1>2, Zenon DEF PathInv
<1>. QED
  BY <1>3, <1>4, <1>6, <1>7, <1>8, OneMoves, Zenon

LEMMA WriteReconnectPath ==
    ASSUME IInv, PathInv, NEW t \in Threads, FS_w_reconnect(t)
    PROVE  PathInv'
<1>1. UNCHANGED <<pc, on, turnoff_level, level, job, branch, dirty>>
  BY Zenon DEF FS_w_reconnect, levels
<1>. QED
  BY <1>1, PlacesChange, Zenon

LEMMA SelectPath ==
    ASSUME IInv, PathInv, NEW t \in Threads, BUS_select(t)
    PROVE  PathInv'
<1>1. pc[t] = "select" /\ UNCHANGED <<on, branch, job, dirty>>
  BY Zenon DEF BUS_select
<1>2. turnoff_level' = 0 /\ level' = -1
  BY Zenon DEF BUS_select, Restart
<1>3. /\ \A u \in Threads \ {t} : pc'[u] = pc[u]
      /\ \/ pc'[t] = "turnon" /\ branch = Remembered(job.path)
         \/ pc'[t] = "clear"
  BY Zenon DEF BUS_select, Goto, IInv
<1>4. job \in Use \cup Manual /\ on \in Switches
  BY <1>1, Zenon DEF PathInv, Busy
<1>5. dirty \/ Trusted(on, branch)
  BY <1>1, Remembers, Zenon DEF Within
<1>6. \A u \in Threads \ {t} : pc'[u] \notin Busy
  BY <1>1, <1>3, Alone, Zenon DEF Within, Busy
<1>7. Walked(on, job.path, -1)
  BY DEF Walked
<1>8. ClearTo(on, job.path, 0)
  <2>1. \A c \in Coupler : Len(Path[c]) \in Nat
    BY BusAssumption
  <2>. QED
    BY <2>1 DEF ClearTo
<1>9. 0 <= Len(job.path)
  BY <1>4, JobPath, RouteFacts
<1>10. turnoff_level' \in Nat /\ level' \in Int /\ level' <= turnoff_level'
  BY <1>2
<1>. QED
  BY <1>1, <1>2, <1>3, <1>4, <1>5, <1>6, <1>7, <1>8, <1>9, <1>10, OneMoves

LEMMA ResetPath ==
    ASSUME IInv, PathInv, NEW t \in Threads, BUS_reset(t)
    PROVE  PathInv'
<1>1. InPath(t) /\ on' = on /\ on \in Switches
  BY Zenon DEF BUS_reset, PathInv
<1>2. CASE Advance(t, 0)
  <2>1. pc[t] = "clear" => 0 <= turnoff_level /\ ClearTo(on, job.path, turnoff_level)
    BY DEF PathInv
  <2>2. Walked(on, job.path, 0)
    BY DEF Walked
  <2>3. dirty \/ (pc[t] = "clear" /\ job.path # <<>>) \/ Trusted(on, branch)
    BY <1>1, Remembers, Zenon DEF InPath, Within
  <2>. QED
    BY <1>1, <1>2, <2>1, <2>2, <2>3, AdvancePath
<1>3. CASE Fails(t)
  BY <1>1, <1>3, FailsPath, Zenon DEF Fewer
<1>. QED
  BY <1>2, <1>3, Zenon DEF BUS_reset

LEMMA SelectBranchPath ==
    ASSUME IInv, PathInv, NEW t \in Threads, BUS_select_branch(t)
    PROVE  PathInv'
<1>1. /\ InPath(t) /\ level \in 0..(LastLevel(t) - 1)
      /\ on \in Switches /\ turnoff_level \in Nat /\ level \in Int
  BY Zenon DEF BUS_select_branch, PathInv
<1>2. PICK p \in Routes : p = job.path
  <2>1. job \in Use \cup Manual
    BY <1>1, Zenon DEF InPath, PathInv, Busy
  <2>. QED
    BY <2>1, JobPath, Zenon
<1>3. Len(p) \in Nat
  BY RouteFacts, Zenon
<1>4. /\ pc[t] = "clear" => level + 1 <= turnoff_level /\ turnoff_level <= Len(p)
      /\ level \in Nat /\ level + 1 <= Len(p)
  BY <1>1, <1>2, <1>3 DEF LastLevel, InPath, PathInv
<1>5. level + 1 \in 1..Len(p) /\ p # <<>>
  BY <1>3, <1>4
<1>6. PICK hw : hw = [on EXCEPT ![p[level + 1][1]] = p[level + 1][2]]
  BY Zenon
<1>7. hw \in Switches
  <2>1. p[level + 1][2] \in Branch
    BY <1>5, RouteFacts, Zenon
  <2>. QED
    BY <1>1, <1>6, <2>1, Zenon DEF Switches
<1>8. \/ Hears(p[level + 1][1], <<>>) /\ on' = hw /\ Advance(t, level + 1)
      \/ on' \in {on, hw} /\ Fails(t)
  BY <1>1, <1>2, <1>6, Zenon DEF BUS_select_branch, Carried, Failed, Switches
<1>9. CASE Hears(p[level + 1][1], <<>>) /\ on' = hw /\ Advance(t, level + 1)
  <2>1. CASE pc[t] = "clear"
    <3>1. ClearTo(on, p, turnoff_level) /\ Walked(on, p, level)
      BY <1>2, <2>1, Zenon DEF PathInv
    <3>2. ClearTo(hw, p, turnoff_level)
      BY <1>1, <1>5, <1>6, <3>1, LegClear, Zenon
    <3>3. Walked(hw, p, level + 1)
      BY <1>1, <1>4, <1>6, <1>9, <3>1, LegWalked, Zenon
    <3>. QED
      BY <1>1, <1>2, <1>4, <1>5, <1>7, <1>9, <2>1, <3>2, <3>3, AdvancePath
  <2>2. CASE pc[t] = "turnon"
    <3>1. branch = Remembered(p) /\ (dirty \/ Trusted(on, branch))
      BY <1>2, <2>2, Remembers, Zenon DEF PathInv, Within
    <3>2. Trusted(on, branch) => Clear(hw, p)
      BY <1>1, <1>5, <1>6, <3>1, LegClear, Zenon DEF Trusted, Clear
    <3>3. dirty \/ Trusted(hw, branch)
      BY <3>1, <3>2, PathTrusted, Zenon
    <3>. QED
      BY <1>1, <1>7, <1>9, <2>2, <3>3, AdvancePath
  <2>. QED
    BY <1>1, <2>1, <2>2, Zenon DEF InPath
<1>10. CASE on' \in {on, hw} /\ Fails(t)
  BY <1>1, <1>2, <1>5, <1>7, <1>10, FailsPath, Zenon
<1>. QED
  BY <1>8, <1>9, <1>10

LEMMA TurnoffPath ==
    ASSUME IInv, PathInv, NEW t \in Threads, Turnoff(t)
    PROVE  PathInv'
<1>1. /\ pc[t] = "clear" /\ level = turnoff_level
      /\ on \in Switches /\ turnoff_level \in Nat
  BY Zenon DEF Turnoff, PathInv
<1>2. job \in Use \cup Manual
  BY <1>1, Zenon DEF PathInv, Busy
<1>3. PICK p \in Routes : p = job.path
  BY <1>2, JobPath, Zenon
<1>4. turnoff_level <= Len(p) /\ Len(p) \in Nat
  BY <1>1, <1>3, RouteFacts, Zenon DEF PathInv
<1>5. PICK hw \in Switches : hw = AllOff(p, level) /\ Fewer(hw, on)
  BY <1>1, AllOffFewer, Zenon
<1>6. ClearTo(hw, p, turnoff_level + 1)
  <2>1. Walked(on, p, level) /\ ClearTo(on, p, level)
    BY <1>1, <1>3, Zenon DEF PathInv
  <2>. QED
    BY <1>1, <1>4, <1>5, <2>1, AllOffClear, Zenon
<1>7. \/ /\ on' = hw /\ turnoff_level < Len(p) /\ Restart(turnoff_level + 1)
         /\ UNCHANGED <<branch, pc, job, dirty>>
      \/ /\ on' = hw /\ ~(turnoff_level < Len(p))
         /\ branch' = Remembered(p) /\ TurnOn(t)
      \/ on' \in {on, hw} /\ Fails(t)
  BY <1>3, <1>5, Zenon DEF Turnoff, Carried, Failed
<1>8. \A u \in Threads \ {t} : pc[u] \notin Busy
  BY <1>1, Alone, Zenon DEF Within, Busy
<1>9. CASE /\ on' = hw /\ turnoff_level < Len(p) /\ Restart(turnoff_level + 1)
           /\ UNCHANGED <<branch, pc, job, dirty>>
  <2>1. turnoff_level' = turnoff_level + 1 /\ level' = -1
    BY <1>9, Zenon DEF Restart
  <2>2. /\ turnoff_level' \in Nat /\ level' \in Int
        /\ level' <= turnoff_level' /\ turnoff_level' <= Len(p)
    BY <1>1, <1>4, <1>9, <2>1
  <2>3. Walked(hw, p, -1)
    BY DEF Walked
  <2>4. p # <<>>
    BY <1>1, <1>4, <1>9
  <2>. QED
    BY <1>1, <1>2, <1>3, <1>5, <1>6, <1>8, <1>9, <2>1, <2>2, <2>3, <2>4, OneMoves
<1>10. CASE /\ on' = hw /\ ~(turnoff_level < Len(p))
            /\ branch' = Remembered(p) /\ TurnOn(t)
  <2>1. turnoff_level + 1 = Len(p) + 1
    BY <1>1, <1>4, <1>10
  <2>2. Trusted(hw, Remembered(p))
    BY <1>6, <2>1, PathTrusted, Zenon DEF Clear
  <2>3. pc'[t] = "turnon" /\ \A u \in Threads \ {t} : pc'[u] = pc[u]
    BY <1>10, Zenon DEF TurnOn, Goto, IInv
  <2>4. turnoff_level' \in Nat /\ level' \in Int /\ job' = job
    BY <1>10 DEF TurnOn, Restart
  <2>. QED
    BY <1>2, <1>3, <1>5, <1>8, <1>10, <2>2, <2>3, <2>4, OneMoves
<1>11. CASE on' \in {on, hw} /\ Fails(t)
  <2>1. InPath(t) /\ on' \in Switches /\ Fewer(on', on)
    BY <1>1, <1>5, <1>11, Zenon DEF InPath, Fewer
  <2>. QED
    BY <1>11, <2>1, FailsPath, Zenon
<1>. QED
  BY <1>7, <1>9, <1>10, <1>11, Zenon

\* Only the property branch of a coupler turns one on by hand.
LEMMA TransactPath ==
    ASSUME IInv, PathInv, NEW t \in Threads, Transact(t)
    PROVE  PathInv'
<1>1. /\ pc[t] = "selected" /\ branch' = branch /\ on \in Switches
      /\ dirty' = (dirty \/ job.cmd = "branch")
      /\ branch = Remembered(job.path) /\ job \in Use \cup Manual
  BY Zenon DEF Transact, PathInv, Busy
<1>2. dirty \/ Trusted(on, branch)
  BY <1>1, Remembers, Zenon DEF Within
<1>3. PICK hw : hw = IF job.cmd \in {"branch", "clearevent", "again"} /\ Hears(job.leg[1], <<>>)
                     THEN [on EXCEPT ![job.leg[1]] = job.leg[2]] ELSE on
  BY Zenon
<1>4. CASE job.cmd = "discharge" /\ on' = on /\ job' = [job EXCEPT !.cmd = "again"]
           /\ Goto(t, "select") /\ Restart(0)
  <2>1. job' \in Use \cup Manual
    BY <1>1, <1>4, Zenon DEF Use, Manual
  <2>2. pc'[t] = "select" /\ \A u \in Threads \ {t} : pc'[u] = pc[u]
    BY <1>4, Zenon DEF Goto, IInv
  <2>3. turnoff_level' \in Nat /\ level' \in Int
    BY <1>4 DEF Restart
  <2>4. \A u \in Threads \ {t} : pc'[u] \notin Busy
    BY <1>1, <2>2, Alone, Zenon DEF Within, Busy
  <2>. QED
    BY <1>1, <1>2, <1>4, <2>1, <2>2, <2>3, <2>4, OneMoves, Zenon
<1>5. ASSUME on' \in {on, hw}, NEW good, Return(t, good) PROVE PathInv'
  <2>1. hw \in Switches
    BY <1>1, <1>3, Zenon DEF Switches, Use, Manual, Leg, Branch
  <2>2. job.cmd # "branch" => Fewer(hw, on)
    BY <1>1, <1>3, Zenon DEF Switches, Use, Manual, Fewer
  <2>3. Fewer(on, on)
    BY Zenon DEF Fewer
  <2>4. dirty' \/ Trusted(on', branch')
    BY <1>1, <1>2, <1>5, <2>2, <2>3, FewerTrusted, Zenon
  <2>. QED
    BY <1>1, <1>5, <2>1, <2>4, Returned, Zenon DEF Within
<1>. QED
  BY <1>3, <1>4, <1>5, Zenon DEF Transact, Carried, Failed

\* Couplers that lose their power are off.
LEMMA PowerPath ==
    ASSUME PathInv, Unplug \/ Replug \/ UNCHANGED vars
    PROVE  PathInv'
<1>1. UNCHANGED <<pc, turnoff_level, level, job, branch, dirty>>
  BY Zenon DEF Unplug, Replug, vars, levels
<1>2. CASE on' = on
  BY <1>1, <1>2, PlacesChange, Zenon
<1>3. CASE on' = [c \in Coupler |-> "off"]
  <2>1. on' \in Switches /\ Fewer(on', on)
    BY <1>3, Zenon DEF Switches, Fewer
  <2>2. Walked(on', job.path, level)
    BY <1>3, Zenon DEF Walked
  <2>3. \A l : ClearTo(on, job.path, l) => ClearTo(on', job.path, l)
    BY <2>1, FewerClear, Zenon
  <2>4. Trusted(on, branch) => Trusted(on', branch)
    BY <2>1, FewerTrusted, Zenon
  <2>5. Clearing => Clearing'
    BY <1>1, Zenon DEF Clearing
  <2>. QED
    BY <1>1, <2>1, <2>2, <2>3, <2>4, <2>5, Zenon DEF PathInv
<1>. QED
  BY <1>2, <1>3, Zenon DEF Unplug, Replug, vars

LEMMA PathPreserved == ASSUME IInv, PathInv, [Next]_vars PROVE PathInv'
  BY OutsidePath, ReconnectPath, LockPath, WriteReconnectPath, SelectPath, ResetPath,
     SelectBranchPath, TurnoffPath, TransactPath, PowerPath DEF Next, Step

\* Unless the couplers are dirty, a device that BUS_select has selected is
\* alone with those on its own path: whatever paths were selected before, in
\* whatever order and by whichever threads, whether they could be turned on,
\* and whatever lost its power meanwhile, the branch that is remembered saves
\* the clearing of a path only if that path is clear.  A clearing that fails
\* and a coupler switched by its property make the couplers dirty, until a
\* path is cleared: of that time nothing is claimed.
THEOREM OnlyThePathHolds == Spec => []OnlyThePath
<1>1. ASSUME IInv, PathInv PROVE OnlyThePath
  <2>1. SUFFICES ASSUME NEW t \in Threads, pc[t] = "selected", ~dirty
                 PROVE  Joined \subseteq {job.path[i] : i \in 1..Len(job.path)}
    BY Zenon DEF OnlyThePath
  <2>2. job.path \in Routes /\ on \in Switches /\ branch = Remembered(job.path)
    BY <1>1, <2>1, JobPath, Zenon DEF PathInv, Busy
  <2>3. Clear(on, job.path)
    BY <1>1, <2>1, <2>2, Remembers, Zenon DEF Within, Trusted
  <2>. QED
    BY <2>2, <2>3, ClearJoined, Zenon DEF Legs
<1>. QED
  BY Initially, Preserved, PathInitially, PathPreserved, <1>1, PTL DEF Spec
=============================================================================
