---------------------------- MODULE LocateProofs ----------------------------
(* Proofs about the list of bus masters and the queries that use it, for any *)
(* number of masters, message threads, queries and faults: no two masters    *)
(* have one number unless two threads were at next_index at once, the list   *)
(* follows the kernel unless threads overtook each other, what a query       *)
(* points to stays in the list, and a device that stays where it is is found.*)
(*                                                                           *)
(* The first part is about the threads that add and remove masters (Masters):*)
(* who owns a port, and how the numbers in use relate to next_index.  The    *)
(* queries leave that alone.  The second part is about the queries: a        *)
(* handler takes out a listed port only as the writer, when no query is at   *)
(* work.  The third follows a query that meets no trouble to its end.        *)
EXTENDS Locate, FiniteSetTheorems, WellFoundedInduction, TLAPS

\* The types that matter.  next_index may get below 0 when threads race.
MTyped ==
    /\ head_port \in Seq(Cell)
    /\ id \in [Cell -> Master \cup {None}] /\ index \in [Cell -> Int] /\ next_index \in Int
    /\ readers \subseteq Query /\ writer \in Handler \cup {None}
    /\ hpc \in [Handler -> {"idle", "alloc", "store", "lock", "list", "test", "free"}]
    /\ of \in [Handler -> Master \cup {None}]
    /\ port \in [Handler -> Cell \cup {None}] /\ old \in [Handler -> Cell \cup {None}]
    /\ n \in [Handler -> Int]

HasPort(h) == hpc[h] \in {"lock", "list", "test", "free"}
Frees(h) == hpc[h] \in {"test", "free"}

\* A port in memory is listed once, or the own port of one handler; to change
\* or to shorten the list takes the write lock.
Owned ==
    /\ \A i, j \in 1..Len(head_port) : head_port[i] = head_port[j] => i = j
    /\ Listed \subseteq Live
    /\ \A h \in Handler : hpc[h] # "idle" => of[h] \in Master
    /\ \A h \in Handler : HasPort(h) => port[h] \in Live \ Listed
    /\ \A g, h \in Handler : HasPort(g) /\ HasPort(h) /\ port[g] = port[h] => g = h
    /\ \A h \in Handler : hpc[h] = "list" => writer = h
    /\ \A h \in Handler : Frees(h) => old[h] = port[h] \/ (old[h] \in Listed /\ writer = h)

AtNumbers(h) == hpc[h] \in {"store", "free"}

\* Without a race one handler at most is at next_index, what it has read is
\* still true, and next_index is above all the numbers in use.
Numbered ==
    ~raced =>
        /\ \A g, h \in Handler : AtNumbers(g) /\ AtNumbers(h) => g = h
        /\ \A h \in Handler : hpc[h] = "store" => n[h] = next_index
        /\ \A h \in Handler : hpc[h] = "free" =>
                n[h] = IF index[old[h]] = next_index - 1 THEN 1 ELSE 0
        /\ \A c \in Live : index[c] < next_index
        /\ \A c, d \in Live : index[c] = index[d] => c = d

MInv == MTyped /\ Owned /\ Numbered

-----------------------------------------------------------------------------
(* Sequences: linking and unlinking *)

\* The elements of a sequence, and that each is there once.
Elems(s) == {s[i] : i \in 1..Len(s)}
Once(s) == \A i, j \in 1..Len(s) : s[i] = s[j] => i = j

\* Where the elements of a sequence are when the one at k is taken out.
LEMMA WithoutOne ==
    ASSUME NEW S, NEW s \in Seq(S), NEW k \in 1..Len(s),
           Once(s)
    PROVE  LET w == Without(s, s[k]) IN
           /\ w \in Seq(S) /\ Len(w) = Len(s) - 1
           /\ \A i \in 1..(k - 1) : w[i] = s[i]
           /\ \A i \in k..(Len(s) - 1) : w[i] = s[i + 1]
<1> DEFINE w == Without(s, s[k])
           m == Len(s)
<1>1. m \in Nat /\ \A i \in 1..m : s[i] \in S
  OBVIOUS
<1>2. (CHOOSE i \in 1..m : s[i] = s[k]) = k
  BY Zenon DEF Once
<1>3. w = [i \in 1..(m - 1) |-> s[IF i < k THEN i ELSE i + 1]]
  BY <1>2, Zenon DEF Without
<1>4. m - 1 \in Nat /\ \A i \in 1..(m - 1) : (IF i < k THEN i ELSE i + 1) \in 1..m
  BY <1>1
<1> HIDE DEF w
<1>5. w \in Seq(S) /\ Len(w) = m - 1
  BY <1>1, <1>3, <1>4
<1>6. /\ \A i \in 1..(k - 1) : w[i] = s[i]
      /\ \A i \in k..(m - 1) : w[i] = s[i + 1]
  BY <1>1, <1>3
<1> QED
  BY <1>5, <1>6 DEF w

\* The others stay, each once.
LEMMA WithoutRest ==
    ASSUME NEW S, NEW s \in Seq(S), NEW x \in Elems(s), Once(s)
    PROVE  /\ Without(s, x) \in Seq(S) /\ Once(Without(s, x))
           /\ Elems(Without(s, x)) = Elems(s) \ {x}
<1>0. PICK k \in 1..Len(s) : x = s[k]
  BY Zenon DEF Elems
<1> DEFINE w == Without(s, s[k])
           from(i) == IF i < k THEN i ELSE i + 1
<1>1. /\ w \in Seq(S) /\ Len(w) = Len(s) - 1
      /\ \A i \in 1..(k - 1) : w[i] = s[i]
      /\ \A i \in k..(Len(s) - 1) : w[i] = s[i + 1]
  BY WithoutOne, Zenon
<1> HIDE DEF w
<1>2. /\ \A i \in 1..Len(w) : from(i) \in (1..Len(s)) \ {k} /\ w[i] = s[from(i)]
      /\ \A i, j \in 1..Len(w) : from(i) = from(j) => i = j
  BY <1>1
<1> HIDE DEF from
<1>3. ASSUME NEW i \in 1..Len(w), NEW j \in 1..Len(w), w[i] = w[j] PROVE i = j
  <2>1. from(i) \in 1..Len(s) /\ from(j) \in 1..Len(s) /\ s[from(i)] = s[from(j)]
    BY <1>2, <1>3, Zenon
  <2> QED
    BY <1>2, <2>1, Zenon DEF Once
<1>4. ASSUME NEW i \in 1..Len(w) PROVE w[i] # s[k] /\ \E l \in 1..Len(s) : s[l] = w[i]
  BY <1>2, Zenon DEF Once
<1>5. ASSUME NEW l \in 1..Len(s), s[l] # s[k] PROVE \E i \in 1..Len(w) : w[i] = s[l]
  <2>1. CASE l < k
    BY <1>1, <2>1
  <2>2. CASE l > k
    <3>1. l - 1 \in k..(Len(s) - 1) /\ l - 1 \in 1..Len(w) /\ s[l] = s[(l - 1) + 1]
      BY <1>1, <2>2
    <3>2. w[l - 1] = s[l]
      BY <1>1, <3>1, Zenon
    <3> QED
      BY <3>1, <3>2, Zenon
  <2> QED
    BY <1>5, <2>1, <2>2
<1>6. Once(w)
  BY <1>3, Zenon DEF Once
<1>7. ASSUME NEW y \in Elems(w) PROVE y \in Elems(s) /\ y # s[k]
  BY <1>4, Zenon DEF Elems
<1>8. ASSUME NEW y \in Elems(s), y # s[k] PROVE y \in Elems(w)
  BY <1>5, <1>8, Zenon DEF Elems
<1> QED
  BY <1>0, <1>1, <1>6, <1>7, <1>8, Zenon DEF w

\* A port put at the head of the list.
LEMMA Linked ==
    ASSUME NEW s \in Seq(Cell), NEW c \in Cell
    PROVE  /\ <<c>> \o s \in Seq(Cell) /\ Len(<<c>> \o s) = Len(s) + 1
           /\ (<<c>> \o s)[1] = c
           /\ \A i \in 1..Len(s) : (<<c>> \o s)[i + 1] = s[i]
           /\ \A i \in 2..(Len(s) + 1) : (<<c>> \o s)[i] = s[i - 1]
  OBVIOUS

LEMMA LinkedMore ==
    ASSUME head_port \in Seq(Cell), NEW c \in Cell \ Listed, head_port' = <<c>> \o head_port,
           \A i, j \in 1..Len(head_port) : head_port[i] = head_port[j] => i = j
    PROVE  /\ head_port' \in Seq(Cell) /\ Listed' = Listed \cup {c}
           /\ \A i, j \in 1..Len(head_port') : head_port'[i] = head_port'[j] => i = j
<1>1. /\ head_port' \in Seq(Cell) /\ Len(head_port') = Len(head_port) + 1
      /\ head_port'[1] = c
      /\ \A i \in 1..Len(head_port) : head_port'[i + 1] = head_port[i]
      /\ \A i \in 2..(Len(head_port) + 1) : head_port'[i] = head_port[i - 1]
  BY Linked
<1>2. ASSUME NEW d \in Listed PROVE d \in Listed'
  <2>1. PICK i \in 1..Len(head_port) : d = head_port[i]
    BY Zenon DEF Listed
  <2>2. i + 1 \in 1..Len(head_port') /\ head_port'[i + 1] = d
    BY <1>1, <2>1
  <2> QED
    BY <2>2, Zenon DEF Listed
<1>3. c \in Listed'
  <2>1. 1 \in 1..Len(head_port')
    BY <1>1
  <2> QED
    BY <1>1, <2>1, Zenon DEF Listed
<1>4. ASSUME NEW d \in Listed' PROVE d \in Listed \/ d = c
  <2>1. PICK i \in 1..Len(head_port') : d = head_port'[i]
    BY Zenon DEF Listed
  <2>2. CASE i = 1
    BY <1>1, <2>1, <2>2, Zenon
  <2>3. CASE i # 1
    <3>1. i - 1 \in 1..Len(head_port) /\ d = head_port[i - 1]
      BY <1>1, <2>1, <2>3
    <3> QED
      BY <3>1, Zenon DEF Listed
  <2> QED
    BY <2>2, <2>3, Zenon
<1>5. \A i \in 1..Len(head_port) : head_port[i] # c
  BY Zenon DEF Listed
<1>6. ASSUME NEW i \in 1..Len(head_port'), NEW j \in 1..Len(head_port'), i # j
      PROVE  head_port'[i] # head_port'[j]
  <2>1. CASE i = 1
    BY <1>1, <1>5, <1>6, <2>1
  <2>2. CASE j = 1
    BY <1>1, <1>5, <1>6, <2>2
  <2>3. CASE i # 1 /\ j # 1
    <3>1. i - 1 \in 1..Len(head_port) /\ j - 1 \in 1..Len(head_port) /\ i - 1 # j - 1
          /\ head_port'[i] = head_port[i - 1] /\ head_port'[j] = head_port[j - 1]
      BY <1>1, <1>6, <2>3
    <3> QED
      BY <3>1, Zenon
  <2> QED
    BY <2>1, <2>2, <2>3, Zenon
<1> QED
  BY <1>1, <1>2, <1>3, <1>4, <1>6, Zenon

\* A port taken out of the list.
LEMMA UnlinkedRest ==
    ASSUME head_port \in Seq(Cell), NEW c \in Listed, head_port' = Unlinked(c),
           \A i, j \in 1..Len(head_port) : head_port[i] = head_port[j] => i = j
    PROVE  /\ head_port' \in Seq(Cell) /\ Listed' = Listed \ {c}
           /\ \A i, j \in 1..Len(head_port') : head_port'[i] = head_port'[j] => i = j
<1>1. head_port' = Without(head_port, c) /\ c \in Elems(head_port) /\ Once(head_port)
  BY Zenon DEF Unlinked, Listed, Elems, Once
<1>2. head_port' \in Seq(Cell) /\ Once(head_port') /\ Elems(head_port') = Elems(head_port) \ {c}
  BY <1>1, WithoutRest
<1> QED
  BY <1>2, Zenon DEF Listed, Elems, Once

-----------------------------------------------------------------------------
\* The masters of the start, newest first.
LEMMA InitiallyListed ==
    ASSUME MInit
    PROVE  Listed = 1..Len(Start) /\ head_port \in Seq(Cell) /\ Len(head_port) = Len(Start)
           /\ \A i \in 1..Len(Start) : head_port[i] = Len(Start) + 1 - i
<1> DEFINE k == Len(Start)
<1>1. k \in Nat /\ k <= MaxCell /\ MaxCell \in Nat
  BY MastersAssumption
<1>2. Len(head_port) = k /\ head_port \in Seq(Cell)
      /\ \A i \in 1..k : head_port[i] = k + 1 - i
  BY <1>1 DEF MInit, Cell
<1> HIDE DEF k
<1>3. ASSUME NEW c \in 1..k PROVE c \in Listed
  <2>1. k + 1 - c \in 1..k /\ head_port[k + 1 - c] = c
    BY <1>1, <1>2
  <2> QED
    BY <1>2, <2>1, Zenon DEF Listed
<1>4. ASSUME NEW c \in Listed PROVE c \in 1..k
  <2>1. PICK i \in 1..k : c = head_port[i]
    BY <1>2, Zenon DEF Listed
  <2> QED
    BY <1>1, <1>2, <2>1
<1> QED
  BY <1>2, <1>3, <1>4, Zenon DEF k

LEMMA MastersInitially == MInit => MInv
<1> SUFFICES ASSUME MInit PROVE MInv
  BY Zenon
<1> DEFINE k == Len(Start)
<1>1. k \in Nat /\ Start \in Seq(Master) /\ k <= MaxCell /\ MaxCell \in Nat /\ None \notin Master
  BY MastersAssumption
<1>2. \A i \in 1..k : Start[i] \in Master
  BY <1>1
<1>3. Len(head_port) = k /\ head_port \in Seq(Cell)
      /\ \A i \in 1..k : head_port[i] = k + 1 - i
  BY InitiallyListed, Zenon
<1>4. Listed = 1..k
  BY InitiallyListed, Zenon
<1>5. Live = 1..k
  BY <1>1, <1>2 DEF MInit, Live, Cell
<1>6. MTyped
  BY <1>1, <1>2, <1>3 DEF MInit, MTyped, Cell
<1>7. Owned
  BY <1>1, <1>3, <1>4, <1>5 DEF MInit, Owned, HasPort, Frees
<1>8. Numbered
  BY <1>1, <1>5 DEF MInit, Numbered, AtNumbers, Cell
<1> QED
  BY <1>6, <1>7, <1>8, Zenon DEF MInv

-----------------------------------------------------------------------------
\* The steps that leave the list and the ports alone.
LEMMA MessageKeeps ==
    ASSUME MInv, NEW h \in Handler, Message(h) PROVE MInv'
<1> USE MastersAssumption DEF MInv
<1>1. UNCHANGED <<head_port, id, index, next_index, readers, writer, port, old, n, raced>>
  BY Zenon DEF Message, list
<1>2. /\ hpc[h] = "idle"
      /\ \/ hpc' = hpc /\ of' = of
         \/ /\ hpc' = [hpc EXCEPT ![h] = "alloc"]
            /\ \E m \in Master : of' = [of EXCEPT ![h] = m]
  BY Zenon DEF Message, Goto
<1>3. Listed' = Listed /\ Live' = Live
  BY <1>1, Zenon DEF Listed, Live
<1>4. CASE hpc' = hpc /\ of' = of
  BY <1>1, <1>3, <1>4 DEF MTyped, Owned, HasPort, Frees, Numbered, AtNumbers
<1>5. ASSUME hpc' = [hpc EXCEPT ![h] = "alloc"],
             NEW m \in Master, of' = [of EXCEPT ![h] = m]
      PROVE  MInv'
  <2>1. MTyped'
    BY <1>1, <1>5, Zenon DEF MTyped
  <2>2. Owned'
    BY <1>1, <1>2, <1>3, <1>5 DEF MTyped, Owned, HasPort, Frees
  <2>3. Numbered'
    BY <1>1, <1>2, <1>3, <1>5, Zenon DEF MTyped, Numbered, AtNumbers
  <2> QED
    BY <2>1, <2>2, <2>3, Zenon
<1> QED
  BY <1>2, <1>4, <1>5, Zenon

LEMMA AllocInKeeps ==
    ASSUME MInv, NEW h \in Handler, AllocIn(h) PROVE MInv'
<1> USE DEF MInv
<1>1. UNCHANGED <<head_port, id, index, next_index, readers, writer, of, port, old>>
  BY Zenon DEF AllocIn, list
<1>2. /\ hpc[h] = "alloc" /\ hpc' = [hpc EXCEPT ![h] = "store"]
      /\ n' = [n EXCEPT ![h] = next_index] /\ (raced' <=> raced \/ AtIndex(h))
  BY Zenon DEF AllocIn, Goto
<1>3. Listed' = Listed /\ Live' = Live
  BY <1>1, Zenon DEF Listed, Live
<1>4. MTyped'
  BY <1>1, <1>2, Zenon DEF MTyped
<1>5. Owned'
  BY <1>1, <1>2, <1>3, Zenon DEF MTyped, Owned, HasPort, Frees
<1>6. Numbered'
  BY <1>1, <1>2, <1>3 DEF MTyped, Numbered, AtNumbers, AtIndex
<1> QED
  BY <1>4, <1>5, <1>6, Zenon

LEMMA WlockKeeps ==
    ASSUME MInv, NEW h \in Handler, Wlock(h) PROVE MInv' /\ readers = {}
<1> USE DEF MInv
<1>1. UNCHANGED <<head_port, id, index, next_index, readers, of, port, old, n, raced>>
  BY Zenon DEF Wlock, list, history
<1>2. /\ hpc[h] = "lock" /\ hpc' = [hpc EXCEPT ![h] = "list"]
      /\ writer = None /\ writer' = h /\ readers = {}
  BY Zenon DEF Wlock, Goto
<1>3. Listed' = Listed /\ Live' = Live
  BY <1>1, Zenon DEF Listed, Live
<1>4. MTyped'
  BY <1>1, <1>2, Zenon DEF MTyped
<1>5. Owned'
  BY <1>1, <1>2, <1>3, MastersAssumption DEF MTyped, Owned, HasPort, Frees
<1>6. Numbered'
  BY <1>1, <1>2, <1>3, Zenon DEF MTyped, Numbered, AtNumbers
<1> QED
  BY <1>2, <1>4, <1>5, <1>6, Zenon

LEMMA DelInFlightKeeps ==
    ASSUME MInv, NEW h \in Handler, Del_InFlight(h) PROVE MInv'
<1> USE DEF MInv
<1>1. UNCHANGED <<head_port, id, index, next_index, readers, of, port, n, raced>>
  BY Zenon DEF Del_InFlight, list
<1>2. hpc[h] = "list" /\ hpc' = [hpc EXCEPT ![h] = "test"]
  BY Zenon DEF Del_InFlight, Goto
<1>3. \/ writer' = writer /\ \E c \in Listed : old' = [old EXCEPT ![h] = c]
      \/ writer' = None /\ old' = [old EXCEPT ![h] = port[h]]
  BY Zenon DEF Del_InFlight, Matches
<1>4. Listed' = Listed /\ Live' = Live /\ Listed \subseteq Cell
  BY <1>1 DEF Listed, Live, Owned
<1>5. MTyped'
  BY <1>1, <1>2, <1>3, <1>4, Zenon DEF MTyped
<1>6. Owned'
  BY <1>1, <1>2, <1>3, <1>4, MastersAssumption DEF MTyped, Owned, HasPort, Frees
<1>7. Numbered'
  BY <1>1, <1>2, <1>3, <1>4, Zenon DEF MTyped, Numbered, AtNumbers
<1> QED
  BY <1>5, <1>6, <1>7, Zenon

LEMMA RemoveInKeeps ==
    ASSUME MInv, NEW h \in Handler, RemoveIn(h) PROVE MInv'
<1> USE DEF MInv
<1>1. UNCHANGED <<head_port, id, index, next_index, readers, writer, of, port, old>>
  BY Zenon DEF RemoveIn, list
<1>2. /\ hpc[h] = "test" /\ hpc' = [hpc EXCEPT ![h] = "free"]
      /\ n' = [n EXCEPT ![h] = IF index[old[h]] = next_index - 1 THEN 1 ELSE 0]
      /\ (raced' <=> raced \/ AtIndex(h))
  BY Zenon DEF RemoveIn, Goto
<1>3. Listed' = Listed /\ Live' = Live
  BY <1>1, Zenon DEF Listed, Live
<1>4. MTyped'
  BY <1>1, <1>2 DEF MTyped
<1>5. Owned'
  BY <1>1, <1>2, <1>3 DEF MTyped, Owned, HasPort, Frees
<1>6. Numbered'
  BY <1>1, <1>2, <1>3, Zenon DEF MTyped, Numbered, AtNumbers, AtIndex
<1> QED
  BY <1>4, <1>5, <1>6, Zenon

-----------------------------------------------------------------------------
\* The steps that make, link and free a port.
LEMMA CreateW1PortKeeps ==
    ASSUME MInv, NEW h \in Handler, CreateW1Port(h) PROVE MInv'
<1> USE DEF MInv
<1>1. UNCHANGED <<head_port, readers, writer, of, raced>>
  BY Zenon DEF CreateW1Port
<1>2. /\ hpc[h] = "store"
      /\ next_index' = n[h] + 1 /\ n' = [n EXCEPT ![h] = 0]
  BY Zenon DEF CreateW1Port
<1>3. PICK c \in Cell \ Live :
        /\ port' = [port EXCEPT ![h] = c]
        /\ id' = [id EXCEPT ![c] = of[h]] /\ index' = [index EXCEPT ![c] = n[h]]
        /\ \/ hpc' = [hpc EXCEPT ![h] = "lock"] /\ old' = old
           \/ hpc' = [hpc EXCEPT ![h] = "test"] /\ old' = [old EXCEPT ![h] = c]
  BY Zenon DEF CreateW1Port, Goto
<1>4. of[h] \in Master /\ of[h] # None
  BY <1>2, MastersAssumption, SMTT(30) DEF Owned
<1>5. Listed' = Listed /\ c \notin Listed
  BY <1>1, <1>3 DEF Listed, Owned
<1>6. Live' = Live \cup {c}
  BY <1>3, <1>4 DEF Live, MTyped
<1>7. MTyped'
  <2>1. old' \in [Handler -> Cell \cup {None}] /\ port' \in [Handler -> Cell \cup {None}]
    <3>1. old \in [Handler -> Cell \cup {None}] /\ port \in [Handler -> Cell \cup {None}]
      BY Zenon DEF MTyped
    <3>2. port' \in [Handler -> Cell \cup {None}]
      BY <1>3, <3>1, SMTT(30)
    <3>3. old' \in [Handler -> Cell \cup {None}]
      BY <1>3, <3>1, SMTT(30)
    <3> QED
      BY <3>2, <3>3
  <2>2. hpc' \in [Handler -> {"idle", "alloc", "store", "lock", "list", "test", "free"}]
    BY <1>3, Zenon DEF MTyped
  <2>3. id' \in [Cell -> Master \cup {None}] /\ index' \in [Cell -> Int]
        /\ next_index' \in Int /\ n' \in [Handler -> Int]
    BY <1>2, <1>3, <1>4 DEF MTyped
  <2> QED
    BY <1>1, <2>1, <2>2, <2>3, Zenon DEF MTyped
<1>8. Owned'
  BY <1>1, <1>2, <1>3, <1>4, <1>5, <1>6 DEF MTyped, Owned, HasPort, Frees
<1>9. Numbered'
  <2> SUFFICES ASSUME ~raced' PROVE Numbered'
    BY Zenon DEF Numbered
  <2>1. ~raced /\ n[h] = next_index
    BY <1>1, <1>2, Zenon DEF Numbered
  <2>2. \A g \in Handler : hpc'[g] \notin {"store", "free"}
    BY <1>2, <1>3, <2>1, Zenon DEF MTyped, Numbered, AtNumbers
  <2>3. next_index' = next_index + 1 /\ index'[c] = next_index
        /\ \A d \in Live : index'[d] = index[d] /\ index[d] < next_index
    BY <1>2, <1>3, <2>1, Zenon DEF MTyped, Numbered, Live
  <2>4. next_index \in Int /\ \A d \in Live : index[d] \in Int
    BY Zenon DEF MTyped, Live
  <2>5. ASSUME NEW d \in Live' PROVE index'[d] < next_index'
    <3>1. d = c \/ d \in Live
      BY <1>6, Zenon
    <3> QED
      BY <2>3, <2>4, <3>1
  <2>6. ASSUME NEW d \in Live', NEW e \in Live', index'[d] = index'[e] PROVE d = e
    <3>1. (d = c \/ d \in Live) /\ (e = c \/ e \in Live)
      BY <1>6, Zenon
    <3>2. CASE d \in Live /\ e \in Live
      BY <2>1, <2>3, <2>6, <3>2, Zenon DEF Numbered
    <3> QED
      BY <2>3, <2>4, <2>6, <3>1, <3>2
  <2> QED
    BY <2>2, <2>5, <2>6, Zenon DEF Numbered, AtNumbers
<1> QED
  BY <1>7, <1>8, <1>9, Zenon

LEMMA AddInFlightKeeps ==
    ASSUME MInv, NEW h \in Handler, Add_InFlight(h) PROVE MInv'
<1> USE DEF MInv
<1>1. UNCHANGED <<id, index, next_index, readers, n, raced>>
  BY Zenon DEF Add_InFlight
<1>2. hpc[h] = "list" /\ writer' = None /\ writer = h /\ HasPort(h) /\ Live' = Live
      /\ port[h] \in Live \ Listed /\ port[h] \in Cell
  BY <1>1, Zenon DEF Add_InFlight, Owned, HasPort, Live
<1>3. CASE Matches(h) = {}
  <2>1. /\ head_port' = <<port[h]>> \o head_port /\ old' = old
        /\ hpc' = [hpc EXCEPT ![h] = "idle"] /\ of' = [of EXCEPT ![h] = None]
        /\ port' = [port EXCEPT ![h] = None]
    BY <1>3, Zenon DEF Add_InFlight, Rest, Goto
  <2>2. /\ head_port' \in Seq(Cell) /\ Listed' = Listed \cup {port[h]}
        /\ \A i, j \in 1..Len(head_port') : head_port'[i] = head_port'[j] => i = j
    BY <1>2, <2>1, LinkedMore, Zenon DEF MTyped, Owned
  <2>3. MTyped'
    BY <1>1, <1>2, <2>1, <2>2, Zenon DEF MTyped
  <2>4. Owned'
    BY <1>1, <1>2, <2>1, <2>2, MastersAssumption DEF MTyped, Owned, HasPort, Frees
  <2>5. Numbered'
    BY <1>1, <1>2, <2>1, Zenon DEF MTyped, Numbered, AtNumbers
  <2> QED
    BY <2>3, <2>4, <2>5, Zenon
<1>4. CASE Matches(h) # {}
  <2>1. /\ old' = [old EXCEPT ![h] = port[h]] /\ hpc' = [hpc EXCEPT ![h] = "test"]
        /\ UNCHANGED <<head_port, of, port>>
    BY <1>4, Zenon DEF Add_InFlight, Goto
  <2>2. Listed' = Listed
    BY <2>1, Zenon DEF Listed
  <2>3. MTyped'
    BY <1>1, <1>2, <2>1, Zenon DEF MTyped
  <2>4. Owned'
    BY <1>1, <1>2, <2>1, <2>2, MastersAssumption, SMTT(30) DEF MTyped, Owned, HasPort, Frees
  <2>5. Numbered'
    BY <1>1, <1>2, <2>1 DEF MTyped, Numbered, AtNumbers
  <2> QED
    BY <2>3, <2>4, <2>5, Zenon
<1> QED
  BY <1>3, <1>4, Zenon

LEMMA RemovePortKeeps ==
    ASSUME MInv, NEW h \in Handler, RemovePort(h) PROVE MInv'
<1> USE DEF MInv
<1>1. UNCHANGED <<readers, raced>> /\ hpc[h] = "free"
      /\ next_index' = next_index - n[h] /\ n' = [n EXCEPT ![h] = 0]
      /\ id' = [id EXCEPT ![old[h]] = None] /\ index' = [index EXCEPT ![old[h]] = 0]
      /\ head_port' = Unlinked(old[h])
  BY Zenon DEF RemovePort
<1>2. /\ HasPort(h) /\ Frees(h) /\ port[h] \in Live \ Listed /\ old[h] \in Live /\ old[h] \in Cell
      /\ old[h] = port[h] \/ (old[h] \in Listed /\ writer = h)
  BY <1>1, Zenon DEF Owned, HasPort, Frees, Live
<1>3. Live' = Live \ {old[h]}
  BY <1>1, <1>2, Zenon DEF Live, MTyped
<1>4. Numbered'
  <2> SUFFICES ASSUME ~raced' PROVE Numbered'
    BY Zenon DEF Numbered
  <2>1. ~raced /\ n[h] = IF index[old[h]] = next_index - 1 THEN 1 ELSE 0
    BY <1>1, Zenon DEF Numbered
  <2>2. \A g \in Handler : hpc'[g] \notin {"store", "free"}
    <3>1. \A g \in Handler \ {h} : hpc[g] \notin {"store", "free"} /\ hpc'[g] = hpc[g]
      BY <1>1, <2>1, Zenon DEF MTyped, Numbered, AtNumbers, RemovePort, Rest, Goto
    <3>2. hpc'[h] \in {"idle", "list", "test"}
      BY Zenon DEF RemovePort, Rest, Goto, MTyped
    <3> QED
      BY <3>1, <3>2, Zenon
  <2>3. \A d \in Live' : index'[d] = index[d] /\ index[d] \in Int
                         /\ index[d] < next_index /\ index[d] # index[old[h]]
    <3>1. \A d \in Live' : d \in Live /\ d \in Cell /\ d # old[h]
      BY <1>3, Zenon DEF Live
    <3>2. \A d \in Live' : index'[d] = index[d] /\ index[d] \in Int
      BY <1>1, <1>2, <3>1, Zenon DEF MTyped
    <3>3. \A d \in Live' : index[d] < next_index /\ index[d] # index[old[h]]
      BY <1>2, <2>1, <3>1, Zenon DEF Numbered
    <3> QED
      BY <3>2, <3>3, Zenon
  <2>4. \A d \in Live' : index'[d] < next_index'
    BY <1>1, <1>2, <2>1, <2>3, SMTT(30) DEF MTyped
  <2>5. \A d, e \in Live' : index'[d] = index'[e] => d = e
    BY <1>3, <2>1, <2>3 DEF Numbered
  <2> QED
    BY <2>2, <2>4, <2>5, Zenon DEF Numbered, AtNumbers
<1>5. /\ id' \in [Cell -> Master \cup {None}] /\ index' \in [Cell -> Int]
      /\ next_index' \in Int /\ n' \in [Handler -> Int]
  BY <1>1, <1>2 DEF MTyped
<1>6. CASE old[h] = port[h]
  <2>1. /\ hpc' = [hpc EXCEPT ![h] = "idle"] /\ of' = [of EXCEPT ![h] = None]
        /\ port' = [port EXCEPT ![h] = None] /\ old' = [old EXCEPT ![h] = None]
        /\ writer' = writer
    BY <1>6, Zenon DEF RemovePort, Rest, Goto
  <2>2. head_port' = head_port /\ Listed' = Listed
    BY <1>1, <1>2, <1>6, Zenon DEF Unlinked, Listed
  <2>3. MTyped'
    BY <1>1, <1>5, <2>1, <2>2, Zenon DEF MTyped
  <2>4. Owned'
    BY <1>1, <1>2, <1>3, <1>6, <2>1, <2>2, Zenon DEF MTyped, Owned, HasPort, Frees
  <2> QED
    BY <1>4, <2>3, <2>4, Zenon
<1>7. CASE old[h] # port[h]
  <2>1. /\ UNCHANGED <<of, port>> /\ old[h] \in Listed /\ writer = h
        /\ \/ /\ hpc' = [hpc EXCEPT ![h] = "list"] /\ old' = [old EXCEPT ![h] = None]
              /\ writer' = writer
           \/ /\ hpc' = [hpc EXCEPT ![h] = "test"] /\ old' = [old EXCEPT ![h] = port[h]]
              /\ writer' = None
    BY <1>2, <1>7, Zenon DEF RemovePort, Goto
  <2>2. /\ head_port' \in Seq(Cell) /\ Listed' = Listed \ {old[h]}
        /\ \A i, j \in 1..Len(head_port') : head_port'[i] = head_port'[j] => i = j
    BY <1>1, <2>1, UnlinkedRest, Zenon DEF MTyped, Owned
  <2>3. MTyped'
    <3>1. /\ old' \in [Handler -> Cell \cup {None}] /\ writer' \in Handler \cup {None}
          /\ hpc' \in [Handler -> {"idle", "alloc", "store", "lock", "list", "test", "free"}]
      BY <1>2, <2>1, Zenon DEF MTyped, Live
    <3> QED
      BY <1>1, <1>5, <2>1, <2>2, <3>1, Zenon DEF MTyped
  <2>4. Owned'
    <3>1. /\ \A g \in Handler \ {h} : hpc'[g] = hpc[g] /\ old'[g] = old[g]
          /\ HasPort(h)' /\ hpc[h] # "idle"
          /\ hpc'[h] = "list" => writer' = h
          /\ Frees(h)' => old'[h] = port[h]
      BY <1>1, <2>1, Zenon DEF MTyped, HasPort, Frees
    <3>2. Listed' \subseteq Live'
      BY <1>3, <2>2, Zenon DEF Owned
    <3>3. \A g \in Handler : HasPort(g)' => HasPort(g)
      BY <1>2, <3>1, Zenon DEF HasPort
    <3>4. \A g \in Handler : HasPort(g)' => port'[g] \in Live' \ Listed'
      BY <1>2, <1>3, <2>1, <2>2, <3>3, Zenon DEF Owned
    <3>5. \A g \in Handler : hpc'[g] = "list" => writer' = g
      BY <2>1, <3>1, Zenon DEF Owned
    <3>6. \A g \in Handler \ {h} : Frees(g)' => old'[g] = port'[g]
      BY <2>1, <3>1, Zenon DEF Owned, Frees
    <3>7. \A g \in Handler : hpc'[g] # "idle" => of'[g] \in Master
      BY <2>1, <3>1, Zenon DEF Owned
    <3>8. \A f, g \in Handler : HasPort(f)' /\ HasPort(g)' /\ port'[f] = port'[g] => f = g
      BY <2>1, <3>3, Zenon DEF Owned
    <3> QED
      BY <2>1, <2>2, <3>1, <3>2, <3>4, <3>5, <3>6, <3>7, <3>8, Zenon DEF Owned
  <2> QED
    BY <1>4, <2>3, <2>4, Zenon
<1> QED
  BY <1>6, <1>7, Zenon

LEMMA HandleKeeps ==
    ASSUME MInv, NEW h \in Handler, Handle(h) PROVE MInv'
  BY AllocInKeeps, CreateW1PortKeeps, WlockKeeps, AddInFlightKeeps, DelInFlightKeeps,
     RemoveInKeeps, RemovePortKeeps, Zenon DEF Handle

-----------------------------------------------------------------------------
(* Sets of positions *)

\* The proper subsets of finite sets are well-founded; so are intervals.
LEMMA Least ==
    ASSUME NEW S, S \subseteq Nat, S # {}
    PROVE  \E k \in S : \A l \in S : k <= l
<1> DEFINE T == {1..k : k \in S}
           R == StrictSubsetOrdering(Nat)
<1>1. IsWellFoundedOn(R, FiniteSubsetsOf(Nat))
  BY FS_StrictSubsetOrderingWellFounded, Zenon
<1>2. ASSUME NEW k \in S PROVE 1..k \in FiniteSubsetsOf(Nat)
  <2>1. IsFiniteSet(1..k)
    BY FS_Interval
  <2>2. 1..k \in SUBSET Nat
    OBVIOUS
  <2> QED
    BY <2>1, <2>2, Zenon DEF FiniteSubsetsOf
<1>3. T \subseteq FiniteSubsetsOf(Nat) /\ T # {}
  BY <1>2, Zenon
<1> HIDE DEF T, R
<1>4. \E t \in T : \A u \in T : ~(<<u, t>> \in R)
  BY <1>1, <1>3, WFMin, Zenon
<1>5. PICK k \in S : \A l \in S : ~(<<1..l, 1..k>> \in R)
  BY <1>4, Zenon DEF T
<1>6. ASSUME NEW l \in S, ~(k <= l) PROVE FALSE
  <2>1. 1..l \subseteq 1..k /\ k \in 1..k /\ k \notin 1..l
    BY <1>6
  <2>2. 1..l \in SUBSET Nat /\ 1..k \in SUBSET Nat
    BY <1>6
  <2> QED
    BY <1>5, <2>1, <2>2, Zenon DEF R, StrictSubsetOrdering
<1> QED
  BY <1>6, Zenon

\* Positions in a list are bounded, so there is a last one as well.
LEMMA Last ==
    ASSUME NEW m \in Nat, NEW S, S \subseteq 1..m, S # {}
    PROVE  \E k \in S : \A l \in S : l <= k
<1> DEFINE T == {m - k : k \in S}
<1>1. T \subseteq Nat /\ T # {}
  <2>1. \A k \in S : m - k \in Nat /\ m - k \in T
    OBVIOUS
  <2> HIDE DEF T
  <2>2. T # {}
    BY <2>1, Zenon
  <2> QED
    BY <2>1, <2>2, Zenon DEF T
<1>2. PICK t \in T : \A u \in T : t <= u
  BY <1>1, Least, Zenon
<1>3. PICK k \in S : t = m - k
  BY <1>2, Zenon
<1>4. \A l \in S : m - k <= m - l
  BY <1>2, <1>3, Zenon
<1> QED
  BY <1>4

-----------------------------------------------------------------------------
(* The numbers *)

\* Queries only take and give back the read lock.
LEMMA AskKeeps ==
    ASSUME MInv, NEW q \in Query, Ask(q) PROVE MInv'
<1>1. /\ UNCHANGED <<head_port, id, index, next_index, writer, hpc, of, port, old, n, raced>>
      /\ readers' \in {readers, readers \cup {q}, readers \ {q}}
  BY Zenon DEF Ask, FS_ParsedName, CheckPresence, CheckThisConnection, FoundHere,
         CheckPresence_low, ReCheckPresence, ReCheckCached, StillHere, Cache_Del_Device,
         First, TooManyChanges, Further, FS_ParsedName_destroy, Fixed, Keep, list, handler,
         history
<1>2. Listed' = Listed /\ Live' = Live
  BY <1>1, Zenon DEF Listed, Live
<1>3. MTyped'
  BY <1>1, Zenon DEF MInv, MTyped
<1>4. Owned'
  BY <1>1, <1>2, Zenon DEF MInv, Owned, HasPort, Frees
<1>5. Numbered'
  BY <1>1, <1>2, Zenon DEF MInv, Numbered, AtNumbers
<1> QED
  BY <1>3, <1>4, <1>5, Zenon DEF MInv

LEMMA StutterKeeps ==
    ASSUME MInv, UNCHANGED <<list, readers, writer, handler, raced>> PROVE MInv'
<1>1. UNCHANGED <<head_port, id, index, next_index, readers, writer, hpc, of, port, old, n, raced>>
  BY Zenon DEF list, handler
<1>2. Listed' = Listed /\ Live' = Live
  BY <1>1, Zenon DEF Listed, Live
<1>3. MTyped'
  BY <1>1, Zenon DEF MInv, MTyped
<1>4. Owned'
  BY <1>1, <1>2, Zenon DEF MInv, Owned, HasPort, Frees
<1>5. Numbered'
  BY <1>1, <1>2 DEF MInv, Numbered, AtNumbers
<1> QED
  BY <1>3, <1>4, <1>5, Zenon DEF MInv

LEMMA MastersAlways == Spec => []MInv
<1>1. Init => MInv
  BY MastersInitially, Zenon DEF Init
<1>2. MInv /\ [Next]_vars => MInv'
  <2> SUFFICES ASSUME MInv, [Next]_vars PROVE MInv'
    BY Zenon
  <2>1. CASE \E h \in Handler : News(h) \/ Serve(h)
    BY <2>1, MessageKeeps, HandleKeeps, Zenon DEF News, Serve
  <2>2. CASE \E q \in Query : Ask(q)
    BY <2>2, AskKeeps, Zenon
  <2>3. CASE Move \/ Expire \/ UNCHANGED vars
    BY <2>3, StutterKeeps, Zenon DEF Move, Expire, Keep, vars, mvars, history
  <2> QED
    BY <2>1, <2>2, <2>3, Zenon DEF Next, Halted
<1> QED
  BY <1>1, <1>2, PTL DEF Spec

\* No two bus masters have the same number, be they listed or on their way,
\* unless two of the threads that add and remove masters were at next_index
\* at once (AllocIn and RemoveIn, outside any lock).
THEOREM IndexUniqueHolds == Spec => []IndexUnique
<1>1. MInv => IndexUnique
  BY Zenon DEF MInv, Numbered, IndexUnique
<1> QED
  BY <1>1, MastersAlways, PTL

-----------------------------------------------------------------------------
(* The list and the kernel *)

\* In s, g comes before h.
Before(s, g, h) == \E i, j \in 1..Len(s) : i < j /\ s[i] = g /\ s[j] = h

\* Of two elements one comes before the other.
LEMMA BeforeTotal ==
    ASSUME NEW S, NEW s \in Seq(S), NEW g \in Elems(s), NEW h \in Elems(s), g # h
    PROVE  Before(s, g, h) \/ Before(s, h, g)
<1>1. PICK i \in 1..Len(s), j \in 1..Len(s) : s[i] = g /\ s[j] = h
  BY Zenon DEF Elems
<1>2. i < j \/ j < i
  BY <1>1
<1> QED
  BY <1>1, <1>2, Zenon DEF Before

LEMMA BeforeElems ==
    ASSUME NEW S, NEW s \in Seq(S), NEW g, NEW h, Before(s, g, h)
    PROVE  g \in Elems(s) /\ h \in Elems(s)
  BY Zenon DEF Before, Elems

\* What is appended comes last.
LEMMA Appended ==
    ASSUME NEW S, NEW s \in Seq(S), NEW x \in S, x \notin Elems(s), Once(s)
    PROVE  /\ Append(s, x) \in Seq(S) /\ Once(Append(s, x))
           /\ Elems(Append(s, x)) = Elems(s) \cup {x}
           /\ \A g, h : Before(Append(s, x), g, h) => g # x /\ (h = x \/ Before(s, g, h))
<1> DEFINE t == Append(s, x)
           k == Len(s)
<1>1. t \in Seq(S) /\ Len(t) = k + 1 /\ t[k + 1] = x /\ k \in Nat
      /\ \A i \in 1..k : t[i] = s[i]
  OBVIOUS
<1> HIDE DEF t
<1>2. \A i \in 1..k : t[i] # x
  BY <1>1, Zenon DEF Elems
<1>3. Once(t)
  <2> SUFFICES ASSUME NEW i \in 1..(k + 1), NEW j \in 1..(k + 1), t[i] = t[j] PROVE i = j
    BY <1>1, Zenon DEF Once
  <2>1. CASE i = k + 1
    BY <1>1, <1>2, <2>1
  <2>2. CASE j = k + 1
    BY <1>1, <1>2, <2>2
  <2>3. CASE i # k + 1 /\ j # k + 1
    BY <1>1, <2>3 DEF Once
  <2> QED
    BY <2>1, <2>2, <2>3, Zenon
<1>4. ASSUME NEW y \in Elems(t) PROVE y \in Elems(s) \/ y = x
  <2>1. PICK i \in 1..(k + 1) : t[i] = y
    BY <1>1, Zenon DEF Elems
  <2>2. CASE i = k + 1
    BY <1>1, <2>1, <2>2, Zenon
  <2>3. CASE i # k + 1
    <3>1. i \in 1..k /\ s[i] = y
      BY <1>1, <2>1, <2>3
    <3> QED
      BY <3>1, Zenon DEF Elems
  <2> QED
    BY <2>2, <2>3, Zenon
<1>5. x \in Elems(t)
  BY <1>1 DEF Elems
<1>6. ASSUME NEW y \in Elems(s) PROVE y \in Elems(t)
  <2>1. PICK i \in 1..k : s[i] = y
    BY Zenon DEF Elems
  <2>2. i \in 1..Len(t) /\ t[i] = y
    BY <1>1, <2>1
  <2> QED
    BY <2>2, Zenon DEF Elems
<1>7. ASSUME NEW g, NEW h, Before(t, g, h) PROVE g # x /\ (h = x \/ Before(s, g, h))
  <2>1. PICK i \in 1..(k + 1), j \in 1..(k + 1) : i < j /\ t[i] = g /\ t[j] = h
    BY <1>1, <1>7, Zenon DEF Before
  <2>2. i \in 1..k
    BY <1>1, <2>1
  <2>3. CASE j = k + 1
    BY <1>1, <1>2, <2>1, <2>2, <2>3, Zenon
  <2>4. CASE j # k + 1
    <3>1. j \in 1..k /\ s[i] = g /\ s[j] = h
      BY <1>1, <2>1, <2>2, <2>4
    <3>2. Before(s, g, h)
      BY <2>1, <2>2, <3>1, Zenon DEF Before
    <3> QED
      BY <1>2, <2>1, <2>2, <3>2, Zenon
  <2> QED
    BY <2>3, <2>4, Zenon
<1>8. Elems(t) = Elems(s) \cup {x}
  BY <1>4, <1>5, <1>6, Zenon
<1> QED
  BY <1>1, <1>3, <1>7, <1>8, Zenon DEF t

\* What is left stays in order.
LEMMA WithoutBefore ==
    ASSUME NEW S, NEW s \in Seq(S), NEW x \in Elems(s), Once(s), NEW g, NEW h,
           Before(Without(s, x), g, h)
    PROVE  Before(s, g, h)
<1>0. PICK k \in 1..Len(s) : x = s[k]
  BY Zenon DEF Elems
<1> DEFINE w == Without(s, s[k])
           from(l) == IF l < k THEN l ELSE l + 1
<1>1. /\ Len(w) = Len(s) - 1 /\ Len(s) \in Nat
      /\ \A i \in 1..(k - 1) : w[i] = s[i]
      /\ \A i \in k..(Len(s) - 1) : w[i] = s[i + 1]
  BY WithoutOne
<1>2. Before(w, g, h)
  BY <1>0, Zenon
<1> HIDE DEF w
<1>3. PICK i \in 1..(Len(s) - 1), j \in 1..(Len(s) - 1) : i < j /\ w[i] = g /\ w[j] = h
  BY <1>1, <1>2, Zenon DEF Before
<1>4. from(i) \in 1..Len(s) /\ from(j) \in 1..Len(s) /\ from(i) < from(j)
  BY <1>1, <1>3
<1>5. ASSUME NEW m \in 1..(Len(s) - 1) PROVE w[m] = s[from(m)]
  <2>1. CASE m < k
    <3>1. m \in 1..(k - 1) /\ from(m) = m
      BY <2>1
    <3> QED
      BY <1>1, <3>1, Zenon
  <2>2. CASE ~(m < k)
    <3>1. m \in k..(Len(s) - 1) /\ from(m) = m + 1
      BY <1>1, <2>2, SMTT(30)
    <3> QED
      BY <1>1, <3>1, Zenon
  <2> QED
    BY <2>1, <2>2, Zenon
<1> HIDE DEF from
<1> QED
  BY <1>3, <1>4, <1>5, Zenon DEF Before

-----------------------------------------------------------------------------
\* The handler is still to change the list.
Pending(h) == hpc[h] \in {"alloc", "store", "lock", "list"} \/ (Frees(h) /\ old[h] # port[h])

ListedIds == {id[c] : c \in Listed}

\* The history of the messages: those whose handlers are still to change the
\* list, each once.
Ordered ==
    /\ order \in Seq(Handler) /\ Once(order)
    /\ \A h \in Handler : Pending(h) <=> h \in Elems(order)

\* A handler's own port is of the master of its message, as is the port it
\* takes out, and no master is listed twice.
Served ==
    /\ op \in [Handler -> {"add", "remove", None}]
    /\ \A h \in Handler : Pending(h) => op[h] \in {"add", "remove"}
    /\ \A h \in Handler : HasPort(h) => id[port[h]] = of[h]
    /\ \A h \in Handler : Frees(h) /\ old[h] # port[h] => op[h] = "remove" /\ id[old[h]] = of[h]
    /\ \A c, d \in Listed : id[c] = id[d] => c = d

\* The last message on a master that is still to be dealt with says what the
\* kernel has; if there is none, the list does.
LastOn(h, m) ==
    /\ h \in Elems(order) /\ of[h] = m
    /\ \A g \in Handler : Before(order, h, g) => of[g] # m
Tracked(m) ==
    \/ \E h \in Handler : LastOn(h, m) /\ (op[h] = "add" <=> m \in kernel)
    \/ (\A h \in Elems(order) : of[h] # m) /\ (m \in kernel <=> m \in ListedIds)

KInv == kernel \subseteq Master /\ Ordered /\ Served /\ (~astray => \A m \in Master : Tracked(m))

-----------------------------------------------------------------------------
\* A step that moves no port, and lets no handler take out another one.
LEMMA StaysServed ==
    ASSUME KInv, UNCHANGED <<id, port>>, Listed' = Listed,
           op' \in [Handler -> {"add", "remove", None}],
           \A g \in Handler : Pending(g)' => op'[g] \in {"add", "remove"},
           \A g \in Handler : HasPort(g)' => HasPort(g) /\ of'[g] = of[g],
           \A g \in Handler : Frees(g)' /\ old'[g] # port'[g] =>
             Frees(g) /\ old'[g] = old[g] /\ of'[g] = of[g] /\ op'[g] = op[g]
    PROVE  Served'
<1>1. \A g \in Handler : HasPort(g) => id[port[g]] = of[g]
  BY Zenon DEF KInv, Served
<1>2. \A g \in Handler : HasPort(g)' => id'[port'[g]] = of'[g]
  BY <1>1, Zenon
<1>3. \A g \in Handler : Frees(g) /\ old[g] # port[g] => op[g] = "remove" /\ id[old[g]] = of[g]
  BY Zenon DEF KInv, Served
<1>4. ASSUME NEW g \in Handler, Frees(g)', old'[g] # port'[g]
      PROVE  op'[g] = "remove" /\ id'[old'[g]] = of'[g]
  <2>1. Frees(g) /\ old'[g] = old[g] /\ of'[g] = of[g] /\ op'[g] = op[g] /\ old[g] # port[g]
    BY <1>4, Zenon
  <2> QED
    BY <1>3, <2>1, Zenon
<1>5. \A c, d \in Listed : id[c] = id[d] => c = d
  BY Zenon DEF KInv, Served
<1>6. \A c, d \in Listed' : id'[c] = id'[d] => c = d
  BY <1>5, Zenon
<1> QED
  BY <1>2, <1>4, <1>6, Zenon DEF Served

\* A step that deals with no message.
LEMMA StillTracked ==
    ASSUME KInv, order' = order, kernel' = kernel,
           \A g \in Elems(order) : of'[g] = of[g] /\ op'[g] = op[g],
           NEW m, Tracked(m),
           (m \in ListedIds' <=> m \in ListedIds) \/ \E g \in Elems(order) : of[g] = m
    PROVE  Tracked(m)'
<1>1. \A g, h : Before(order, h, g) => g \in Elems(order)
  BY BeforeElems, Zenon DEF KInv, Ordered
<1>2. CASE \E h \in Handler : LastOn(h, m) /\ (op[h] = "add" <=> m \in kernel)
  <2>1. PICK h \in Handler : LastOn(h, m) /\ (op[h] = "add" <=> m \in kernel)
    BY <1>2, Zenon
  <2>2. LastOn(h, m)'
    BY <1>1, <2>1, Zenon DEF LastOn
  <2>3. op'[h] = "add" <=> m \in kernel'
    BY <2>1, Zenon DEF LastOn
  <2> QED
    BY <2>2, <2>3, Zenon DEF Tracked
<1>3. CASE (\A h \in Elems(order) : of[h] # m) /\ (m \in kernel <=> m \in ListedIds)
  <2>1. \A h \in Elems(order') : of'[h] # m
    BY <1>3, Zenon
  <2>2. m \in kernel' <=> m \in ListedIds'
    BY <1>3, Zenon
  <2> QED
    BY <2>1, <2>2, Zenon DEF Tracked
<1> QED
  BY <1>2, <1>3, Zenon DEF Tracked

\* A handler that deals with its message, the first on that master.
LEMMA AppliedTracked ==
    ASSUME KInv, NEW h \in Handler, h \in Elems(order), Applied(h), ~astray', kernel' = kernel,
           \A g \in Elems(order) \ {h} : of'[g] = of[g] /\ op'[g] = op[g],
           \A m \in Master \ {of[h]} : m \in ListedIds' <=> m \in ListedIds,
           of[h] \in ListedIds' <=> op[h] = "add",
           NEW m \in Master
    PROVE  Tracked(m)'
<1>1. order \in Seq(Handler) /\ Once(order) /\ order' = Without(order, h)
      /\ Elems(order) \subseteq Handler
  BY SMTT(30) DEF KInv, Ordered, Applied, Others, Elems
<1>2. Elems(order') = Elems(order) \ {h} /\ order' \in Seq(Handler)
  BY <1>1, WithoutRest, Zenon
<1>3. \A f, g : Before(order', f, g) =>
                  Before(order, f, g) /\ f \in Elems(order') /\ g \in Elems(order')
  BY <1>1, <1>2, WithoutBefore, BeforeElems, Zenon
<1>4. ~astray /\ \A g : Before(order, g, h) => of[g] # of[h]
  BY Zenon DEF Applied, Before
<1>5. Tracked(m)
  BY <1>4, Zenon DEF KInv
<1>6. ASSUME NEW f \in Handler, LastOn(f, m), op[f] = "add" <=> m \in kernel, f # h
      PROVE  Tracked(m)'
  <2>1. f \in Elems(order') /\ of'[f] = m /\ op'[f] = op[f]
    BY <1>2, <1>6, Zenon DEF LastOn
  <2>2. \A g \in Handler : Before(order', f, g) => of'[g] # m
    BY <1>2, <1>3, <1>6, Zenon DEF LastOn
  <2>3. LastOn(f, m)'
    BY <2>1, <2>2, Zenon DEF LastOn
  <2> QED
    BY <1>6, <2>1, <2>3, Zenon DEF Tracked
<1>7. ASSUME LastOn(h, m), op[h] = "add" <=> m \in kernel
      PROVE  Tracked(m)'
  <2>1. ASSUME NEW g \in Elems(order') PROVE of'[g] # m
    <3>1. g \in Elems(order) /\ g # h /\ g \in Handler
      BY <1>1, <1>2, Zenon
    <3>2. Before(order, g, h) \/ Before(order, h, g)
      BY <1>1, <3>1, BeforeTotal, Zenon
    <3> QED
      BY <1>4, <1>7, <3>1, <3>2, Zenon DEF LastOn
  <2>2. m \in kernel' <=> m \in ListedIds'
    BY <1>7, Zenon DEF LastOn
  <2> QED
    BY <2>1, <2>2, Zenon DEF Tracked
<1>8. ASSUME \A g \in Elems(order) : of[g] # m, m \in kernel <=> m \in ListedIds
      PROVE  Tracked(m)'
  <2>1. m # of[h] /\ (m \in kernel' <=> m \in ListedIds')
    BY <1>8, Zenon
  <2>2. \A g \in Elems(order') : of'[g] # m
    BY <1>2, <1>8, Zenon
  <2> QED
    BY <2>1, <2>2, Zenon DEF Tracked
<1> QED
  BY <1>5, <1>6, <1>7, <1>8, Zenon DEF Tracked

\* A new message.
LEMMA NewTracked ==
    ASSUME KInv, NEW h \in Handler, h \notin Elems(order), order' = Append(order, h),
           \A g \in Elems(order) : of'[g] = of[g] /\ op'[g] = op[g],
           ListedIds' = ListedIds, NEW m \in Master, of'[h] = m,
           \A l \in Master \ {m} : l \in kernel' <=> l \in kernel,
           op'[h] = "add" <=> m \in kernel',
           NEW l \in Master, Tracked(l)
    PROVE  Tracked(l)'
<1>1. order \in Seq(Handler) /\ Once(order) /\ Elems(order) \subseteq Handler
  BY SMTT(30) DEF KInv, Ordered, Elems
<1>2. /\ Elems(order') = Elems(order) \cup {h} /\ order' \in Seq(Handler)
      /\ \A f, g : Before(order', f, g) => f # h /\ (g = h \/ Before(order, f, g))
  BY <1>1, Appended, SMTT(30)
<1>3. \A f, g : Before(order, f, g) => g \in Elems(order)
  BY <1>1, BeforeElems, Zenon
<1>4. CASE l = m
  <2>1. LastOn(h, m)'
    BY <1>2, Zenon DEF LastOn
  <2> QED
    BY <1>4, <2>1, Zenon DEF Tracked
<1>5. CASE l # m
  <2>1. ASSUME NEW f \in Handler, LastOn(f, l), op[f] = "add" <=> l \in kernel
        PROVE  Tracked(l)'
    <3>1. f \in Elems(order') /\ of'[f] = l /\ op'[f] = op[f]
      BY <1>2, <2>1, Zenon DEF LastOn
    <3>2. \A g \in Handler : Before(order', f, g) => of'[g] # l
      BY <1>2, <1>3, <1>5, <2>1, Zenon DEF LastOn
    <3>3. LastOn(f, l)'
      BY <3>1, <3>2, Zenon DEF LastOn
    <3> QED
      BY <1>5, <2>1, <3>1, <3>3, Zenon DEF Tracked
  <2>2. ASSUME \A g \in Elems(order) : of[g] # l, l \in kernel <=> l \in ListedIds
        PROVE  Tracked(l)'
    <3>1. \A g \in Elems(order') : of'[g] # l
      BY <1>2, <1>5, <2>2, Zenon
    <3>2. l \in kernel' <=> l \in ListedIds'
      BY <1>5, <2>2, Zenon
    <3> QED
      BY <3>1, <3>2, Zenon DEF Tracked
  <2> QED
    BY <2>1, <2>2, Zenon DEF Tracked
<1> QED
  BY <1>4, <1>5, Zenon

LEMMA LeavesOrder ==
    ASSUME KInv, NEW h \in Handler, h \in Elems(order), order' = Others(h), ~Pending(h)',
           \A g \in Handler \ {h} : Pending(g)' <=> Pending(g)
    PROVE  Ordered'
<1>1. order \in Seq(Handler) /\ Once(order) /\ order' = Without(order, h)
  BY Zenon DEF KInv, Ordered, Others
<1>2. /\ order' \in Seq(Handler) /\ Once(order')
      /\ Elems(order') = Elems(order) \ {h}
  BY <1>1, WithoutRest
<1>3. \A g \in Handler : Pending(g)' <=> g \in Elems(order')
  BY <1>2, Zenon DEF KInv, Ordered
<1> QED
  BY <1>2, <1>3, Zenon DEF Ordered

LEMMA StaysOrdered ==
    ASSUME KInv, order' = order, \A g \in Handler : Pending(g)' <=> Pending(g)
    PROVE  Ordered'
  BY Zenon DEF KInv, Ordered

LEMMA KernelInitially == MInit => KInv
<1> SUFFICES ASSUME MInit PROVE KInv
  BY Zenon
<1>1. /\ Len(Start) \in Nat /\ Start \in Seq(Master) /\ Len(Start) <= MaxCell /\ MaxCell \in Nat
      /\ \A i \in 1..Len(Start) : Start[i] \in Master
      /\ \A i, j \in 1..Len(Start) : Start[i] = Start[j] => i = j
  BY MastersAssumption
<1>2. Listed = 1..Len(Start)
  BY InitiallyListed, Zenon
<1>3. \A c \in 1..Len(Start) : id[c] = Start[c]
  BY <1>1 DEF MInit, Cell
<1>4. ListedIds = kernel /\ kernel \subseteq Master
  <2>1. kernel = {Start[i] : i \in 1..Len(Start)}
    BY Zenon DEF MInit
  <2>2. \A m : m \in ListedIds <=> m \in kernel
    BY <1>2, <1>3, <2>1, Zenon DEF ListedIds
  <2> QED
    BY <1>1, <2>1, <2>2, Zenon
<1>5. order = <<>> /\ order \in Seq(Handler) /\ Once(order) /\ Elems(order) = {}
  BY DEF MInit, Once, Elems
<1>6. Ordered
  BY <1>5, Zenon DEF Ordered, MInit, Pending, Frees
<1>7. Served
  BY <1>1, <1>2, <1>3 DEF Served, MInit, Pending, Frees, HasPort
<1>8. \A m \in Master : Tracked(m)
  BY <1>4, <1>5, Zenon DEF Tracked
<1> QED
  BY <1>4, <1>6, <1>7, <1>8, Zenon DEF KInv

-----------------------------------------------------------------------------
LEMMA MessageFollows ==
    ASSUME MInv, KInv, NEW h \in Handler, Message(h) PROVE KInv'
<1>1. UNCHANGED <<head_port, id, port, old>> /\ hpc[h] = "idle" /\ ~Pending(h)
  BY Zenon DEF Message, list, Pending, Frees
<1>2. Listed' = Listed /\ ListedIds' = ListedIds
  BY <1>1, Zenon DEF Listed, ListedIds
<1>3. PICK m \in Master, o \in {"add", "remove", "list"} :
        /\ o = "add" <=> m \notin kernel
        /\ kernel' = CASE o = "add" -> kernel \cup {m} [] o = "remove" -> kernel \ {m}
                       [] o = "list" -> kernel
        /\ \/ /\ Goto(h, "alloc")
              /\ op' = [op EXCEPT ![h] = IF o = "remove" THEN o ELSE "add"]
              /\ of' = [of EXCEPT ![h] = m]
              /\ order' = Append(order, h)
              /\ UNCHANGED astray
           \/ astray' = TRUE /\ UNCHANGED <<hpc, op, of, order>>
  BY Zenon DEF Message
<1>4. /\ m \in kernel' <=> o # "remove"
      /\ \A l \in Master \ {m} : l \in kernel' <=> l \in kernel
      /\ kernel' \subseteq Master
  BY <1>3, Zenon DEF KInv
<1>5. CASE astray' = TRUE /\ UNCHANGED <<hpc, op, of, order>>
  <2>1. \A g \in Handler : (Pending(g)' <=> Pending(g)) /\ (HasPort(g)' <=> HasPort(g))
                           /\ (Frees(g)' <=> Frees(g))
    BY <1>1, <1>5, Zenon DEF Pending, Frees, HasPort
  <2>2. Ordered'
    BY <1>5, <2>1, StaysOrdered, Zenon
  <2>3. Served'
    BY <1>1, <1>2, <1>5, <2>1, Zenon DEF KInv, Served
  <2> QED
    BY <1>4, <1>5, <2>2, <2>3, Zenon DEF KInv
<1>6. CASE /\ Goto(h, "alloc")
           /\ op' = [op EXCEPT ![h] = IF o = "remove" THEN o ELSE "add"]
           /\ of' = [of EXCEPT ![h] = m]
           /\ order' = Append(order, h)
           /\ UNCHANGED astray
  <2>1. /\ hpc'[h] = "alloc" /\ of'[h] = m /\ op'[h] \in {"add", "remove"}
        /\ op'[h] = "add" <=> o # "remove"
        /\ \A g \in Handler \ {h} : hpc'[g] = hpc[g] /\ of'[g] = of[g] /\ op'[g] = op[g]
        /\ op' \in [Handler -> {"add", "remove", None}]
    BY <1>6, Zenon DEF Goto, MInv, MTyped, KInv, Served
  <2>2. /\ \A g \in Handler \ {h} : (Pending(g)' <=> Pending(g)) /\ (HasPort(g)' <=> HasPort(g))
                                    /\ (Frees(g)' <=> Frees(g))
        /\ Pending(h)' /\ ~HasPort(h)' /\ ~Frees(h)'
    BY <1>1, <2>1, Zenon DEF Pending, Frees, HasPort
  <2>3. h \notin Elems(order) /\ order \in Seq(Handler) /\ Once(order)
        /\ Elems(order) \subseteq Handler
    BY <1>1 DEF KInv, Ordered, Elems
  <2>4. /\ order' \in Seq(Handler) /\ Once(order')
        /\ Elems(order') = Elems(order) \cup {h}
    BY <1>6, <2>3, Appended, Zenon
  <2>5. Ordered'
    <3>1. \A g \in Handler : Pending(g)' <=> g \in Elems(order')
      BY <2>2, <2>4, Zenon DEF KInv, Ordered
    <3> QED
      BY <2>4, <3>1, Zenon DEF Ordered
  <2>6. Served'
    <3>1. \A g \in Handler : Pending(g)' => op'[g] \in {"add", "remove"}
      BY <2>1, <2>2, Zenon DEF KInv, Served
    <3> QED
      BY <1>1, <1>2, <2>1, <2>2, <3>1, StaysServed, Zenon
  <2>7. ASSUME ~astray', NEW l \in Master PROVE Tracked(l)'
    <3>1. Tracked(l)
      BY <1>6, <2>7, Zenon DEF KInv
    <3>2. \A g \in Elems(order) : of'[g] = of[g] /\ op'[g] = op[g]
      BY <2>1, <2>3, Zenon
    <3> QED
      BY <1>2, <1>4, <1>6, <2>1, <2>3, <3>1, <3>2, NewTracked
  <2> QED
    BY <1>4, <2>5, <2>6, <2>7, Zenon DEF KInv
<1> QED
  BY <1>3, <1>5, <1>6, Zenon

\* The steps of a handler that leave the list, and what it is to do, alone.
LEMMA StepFollows ==
    ASSUME MInv, KInv, NEW h \in Handler, AllocIn(h) \/ Wlock(h) \/ RemoveIn(h) PROVE KInv'
<1>1. UNCHANGED <<head_port, id, port, old, of, op, order, astray, kernel>>
      /\ (\/ hpc[h] = "alloc" /\ hpc' = [hpc EXCEPT ![h] = "store"]
          \/ hpc[h] = "lock" /\ hpc' = [hpc EXCEPT ![h] = "list"]
          \/ hpc[h] = "test" /\ hpc' = [hpc EXCEPT ![h] = "free"])
  BY Zenon DEF AllocIn, Wlock, RemoveIn, list, Goto, history
<1>2. Listed' = Listed /\ ListedIds' = ListedIds
  BY <1>1, SMTT(30) DEF Listed, ListedIds
<1>3. \A g \in Handler : (Pending(g)' <=> Pending(g)) /\ (HasPort(g)' <=> HasPort(g))
                         /\ (Frees(g)' <=> Frees(g))
  BY <1>1 DEF Pending, Frees, HasPort, MInv, MTyped
<1>4. Ordered'
  BY <1>1, <1>3, StaysOrdered, Zenon
<1>5. Served'
  <2>1. /\ op' \in [Handler -> {"add", "remove", None}]
        /\ \A g \in Handler : Pending(g)' => op'[g] \in {"add", "remove"}
    BY <1>1, <1>3, Zenon DEF KInv, Served
  <2> QED
    BY <1>1, <1>2, <1>3, <2>1, StaysServed, Zenon
<1>6. ASSUME ~astray', NEW m \in Master PROVE Tracked(m)'
  <2>1. Tracked(m)
    BY <1>1, <1>6, Zenon DEF KInv
  <2> QED
    BY <1>1, <1>2, <2>1, StillTracked, Zenon
<1> QED
  BY <1>1, <1>4, <1>5, <1>6, Zenon DEF KInv

LEMMA CreateW1PortFollows ==
    ASSUME MInv, KInv, NEW h \in Handler, CreateW1Port(h) PROVE KInv'
<1>1. UNCHANGED <<head_port, of, op, kernel>> /\ hpc[h] = "store"
  BY Zenon DEF CreateW1Port
<1>2. PICK c \in Cell \ Live :
        /\ port' = [port EXCEPT ![h] = c] /\ id' = [id EXCEPT ![c] = of[h]]
        /\ \/ /\ hpc' = [hpc EXCEPT ![h] = "lock"]
              /\ UNCHANGED <<old, order, astray>>
           \/ /\ hpc' = [hpc EXCEPT ![h] = "test"] /\ old' = [old EXCEPT ![h] = c]
              /\ order' = Others(h) /\ astray' = TRUE
  BY Zenon DEF CreateW1Port, Goto
<1>3. /\ id'[c] = of[h] /\ port'[h] = c /\ \A d \in Live : id'[d] = id[d]
      /\ \A g \in Handler \ {h} : port'[g] = port[g]
  BY <1>2, Zenon DEF MInv, MTyped, Live
<1>4. /\ \A g \in Handler \ {h} : hpc'[g] = hpc[g] /\ old'[g] = old[g]
      /\ hpc'[h] = "lock" \/ (hpc'[h] = "test" /\ old'[h] = c)
  BY <1>2, Zenon DEF MInv, MTyped
<1>5. /\ \A g \in Handler \ {h} : (Pending(g)' <=> Pending(g)) /\ (HasPort(g)' <=> HasPort(g))
                                  /\ (Frees(g)' <=> Frees(g))
      /\ Pending(h) /\ HasPort(h)' /\ (Frees(h)' => old'[h] = port'[h])
      /\ Pending(h)' <=> hpc'[h] = "lock"
  BY <1>1, <1>3, <1>4, Zenon DEF Pending, Frees, HasPort
<1>6. Listed' = Listed /\ ListedIds' = ListedIds /\ \A d \in Listed : id'[d] = id[d]
  <2>1. Listed' = Listed /\ \A d \in Listed : id'[d] = id[d]
    BY <1>1, <1>3, SMTT(30) DEF Listed, MInv, Owned
  <2> QED
    BY <2>1, Zenon DEF ListedIds
<1>7. h \in Elems(order)
  BY <1>5, Zenon DEF KInv, Ordered
<1>8. Served'
  <2>1. \A g \in Handler : HasPort(g)' => id'[port'[g]] = of'[g]
    <3> SUFFICES ASSUME NEW g \in Handler, HasPort(g)' PROVE id'[port'[g]] = of'[g]
      BY Zenon
    <3>1. CASE g = h
      BY <1>1, <1>3, <3>1, Zenon
    <3>2. CASE g # h
      <4>1. port'[g] = port[g] /\ HasPort(g) /\ port[g] \in Live
        BY <1>3, <1>5, <3>2, Zenon DEF MInv, Owned
      <4>2. id[port[g]] = of[g]
        BY <4>1, Zenon DEF KInv, Served
      <4>3. id'[port[g]] = id[port[g]]
        BY <1>3, <4>1, Zenon
      <4> QED
        BY <1>1, <4>1, <4>2, <4>3, Zenon
    <3> QED
      BY <3>1, <3>2, Zenon
  <2>2. \A g \in Handler : Frees(g)' /\ old'[g] # port'[g] =>
                             op'[g] = "remove" /\ id'[old'[g]] = of'[g]
    <3> SUFFICES ASSUME NEW g \in Handler, Frees(g)', old'[g] # port'[g]
                 PROVE  op'[g] = "remove" /\ id'[old'[g]] = of'[g]
      BY Zenon
    <3>1. g # h /\ Frees(g) /\ old[g] # port[g]
      BY <1>3, <1>4, <1>5, Zenon
    <3>2. old[g] \in Live
      BY <3>1, Zenon DEF MInv, Owned
    <3>3. old'[g] = old[g] /\ op[g] = "remove" /\ id[old[g]] = of[g]
      BY <1>4, <3>1, Zenon DEF KInv, Served
    <3> QED
      BY <1>1, <1>3, <3>2, <3>3, Zenon
  <2>3. \A g \in Handler : Pending(g)' => op'[g] \in {"add", "remove"}
    BY <1>1, <1>5, Zenon DEF KInv, Served
  <2>4. \A d, e \in Listed' : id'[d] = id'[e] => d = e
    <3>1. \A d, e \in Listed : id[d] = id[e] => d = e
      BY Zenon DEF KInv, Served
    <3> QED
      BY <1>6, <3>1
  <2> QED
    BY <1>1, <2>1, <2>2, <2>3, <2>4, Zenon DEF KInv, Served
<1>9. CASE hpc' = [hpc EXCEPT ![h] = "lock"] /\ UNCHANGED <<old, order, astray>>
  <2>1. hpc'[h] = "lock"
    BY <1>9, Zenon DEF MInv, MTyped
  <2>2. Ordered'
    BY <1>5, <1>9, <2>1, StaysOrdered, Zenon
  <2>3. ASSUME ~astray', NEW m \in Master PROVE Tracked(m)'
    <3>1. Tracked(m)
      BY <1>9, <2>3, Zenon DEF KInv
    <3> QED
      BY <1>1, <1>6, <1>9, <3>1, StillTracked, Zenon
  <2> QED
    BY <1>1, <1>8, <2>2, <2>3, Zenon DEF KInv
<1>10. CASE /\ hpc' = [hpc EXCEPT ![h] = "test"] /\ old' = [old EXCEPT ![h] = c]
            /\ order' = Others(h) /\ astray' = TRUE
  <2>1. hpc'[h] = "test"
    BY <1>10, Zenon DEF MInv, MTyped
  <2>2. Ordered'
    BY <1>5, <1>7, <1>10, <2>1, LeavesOrder, Zenon
  <2> QED
    BY <1>1, <1>8, <1>10, <2>2, Zenon DEF KInv
<1> QED
  BY <1>2, <1>9, <1>10, Zenon

LEMMA AddInFlightFollows ==
    ASSUME MInv, KInv, NEW h \in Handler, Add_InFlight(h) PROVE KInv'
<1>1. UNCHANGED <<id, kernel>> /\ hpc[h] = "list" /\ op[h] = "add" /\ Applied(h)
      /\ order' = Others(h)
  BY Zenon DEF Add_InFlight, Applied
<1>2. Pending(h) /\ HasPort(h) /\ ~Frees(h) /\ id[port[h]] = of[h] /\ port[h] \in Cell \ Listed
  BY <1>1, Zenon DEF Pending, HasPort, Frees, KInv, Served, MInv, Owned, Live
<1>3. h \in Elems(order) /\ Elems(order) \subseteq Handler
  BY <1>2, SMTT(30) DEF KInv, Ordered, Elems
<1>4. CASE Matches(h) = {}
  <2>1. /\ head_port' = <<port[h]>> \o head_port /\ UNCHANGED old
        /\ hpc' = [hpc EXCEPT ![h] = "idle"] /\ op' = [op EXCEPT ![h] = None]
        /\ of' = [of EXCEPT ![h] = None] /\ port' = [port EXCEPT ![h] = None]
    BY <1>4, Zenon DEF Add_InFlight, Rest, Goto
  <2>2. Listed' = Listed \cup {port[h]}
    BY <1>2, <2>1, LinkedMore, Zenon DEF MInv, MTyped, Owned
  <2>3. \A m : m \in ListedIds' <=> m \in ListedIds \/ m = of[h]
    BY <1>1, <1>2, <2>2, Zenon DEF ListedIds
  <2>4. /\ \A g \in Handler \ {h} : hpc'[g] = hpc[g] /\ op'[g] = op[g] /\ of'[g] = of[g]
                                    /\ port'[g] = port[g]
        /\ hpc'[h] = "idle" /\ op' \in [Handler -> {"add", "remove", None}]
    BY <2>1, Zenon DEF MInv, MTyped, KInv, Served
  <2>5. /\ \A g \in Handler \ {h} : (Pending(g)' <=> Pending(g)) /\ (HasPort(g)' <=> HasPort(g))
                                    /\ (Frees(g)' <=> Frees(g))
        /\ ~Pending(h)' /\ ~HasPort(h)' /\ ~Frees(h)'
    BY <2>1, <2>4, Zenon DEF Pending, Frees, HasPort
  <2>6. Ordered'
    BY <1>1, <1>3, <2>5, LeavesOrder, Zenon
  <2>7. \A c, d \in Listed' : id'[c] = id'[d] => c = d
    BY <1>1, <1>2, <1>4, <2>2, SMTT(30) DEF KInv, Served, Matches
  <2>8. Served'
    BY <1>1, <2>1, <2>4, <2>5, <2>7 DEF KInv, Served
  <2>9. ASSUME ~astray', NEW m \in Master PROVE Tracked(m)'
    BY <1>1, <1>3, <2>3, <2>4, <2>9, AppliedTracked, Zenon
  <2> QED
    BY <1>1, <2>6, <2>8, <2>9, Zenon DEF KInv
<1>5. CASE Matches(h) # {}
  <2>1. /\ old' = [old EXCEPT ![h] = port[h]] /\ hpc' = [hpc EXCEPT ![h] = "test"]
        /\ UNCHANGED <<head_port, of, op, port>>
    BY <1>5, Zenon DEF Add_InFlight, Goto
  <2>2. Listed' = Listed /\ ListedIds' = ListedIds /\ of[h] \in ListedIds
    <3>1. Listed' = Listed
      BY <2>1, Zenon DEF Listed
    <3> QED
      BY <1>1, <1>5, <3>1, Zenon DEF ListedIds, Matches
  <2>3. /\ \A g \in Handler \ {h} : hpc'[g] = hpc[g] /\ old'[g] = old[g]
        /\ hpc'[h] = "test" /\ old'[h] = port[h]
    BY <2>1, Zenon DEF MInv, MTyped
  <2>4. /\ \A g \in Handler \ {h} : (Pending(g)' <=> Pending(g)) /\ (HasPort(g)' <=> HasPort(g))
                                    /\ (Frees(g)' <=> Frees(g))
        /\ ~Pending(h)' /\ HasPort(h)' /\ Frees(h)'
    BY <2>1, <2>3, Zenon DEF Pending, Frees, HasPort
  <2>5. Ordered'
    BY <1>1, <1>3, <2>4, LeavesOrder, Zenon
  <2>6. Served'
    <3>1. /\ op' \in [Handler -> {"add", "remove", None}]
          /\ \A g \in Handler : Pending(g)' => op'[g] \in {"add", "remove"}
      BY <2>1, <2>4, Zenon DEF KInv, Served
    <3>2. \A g \in Handler : Frees(g)' /\ old'[g] # port'[g] => g \in Handler \ {h}
      BY <2>1, <2>3, Zenon
    <3>3. \A g \in Handler : HasPort(g)' => HasPort(g)
      BY <1>2, <2>4, Zenon
    <3> QED
      BY <1>1, <2>1, <2>2, <2>3, <2>4, <3>1, <3>2, <3>3, StaysServed, Zenon
  <2>7. ASSUME ~astray', NEW m \in Master PROVE Tracked(m)'
    BY <1>1, <1>3, <2>1, <2>2, <2>7, AppliedTracked, Zenon
  <2> QED
    BY <1>1, <2>5, <2>6, <2>7, Zenon DEF KInv
<1> QED
  BY <1>4, <1>5, Zenon

LEMMA DelInFlightFollows ==
    ASSUME MInv, KInv, NEW h \in Handler, Del_InFlight(h) PROVE KInv'
<1>0. UNCHANGED <<list, kernel, op, of, port>> /\ hpc[h] = "list" /\ op[h] = "remove"
      /\ hpc' = [hpc EXCEPT ![h] = "test"]
  BY Zenon DEF Del_InFlight, Goto
<1>1. UNCHANGED <<head_port, id, kernel, op, of, port>> /\ hpc[h] = "list" /\ op[h] = "remove"
      /\ hpc' = [hpc EXCEPT ![h] = "test"]
  BY <1>0, Zenon DEF list
<1>2. Pending(h) /\ HasPort(h) /\ ~Frees(h) /\ id[port[h]] = of[h] /\ port[h] \in Cell \ Listed
  BY <1>1, Zenon DEF Pending, HasPort, Frees, KInv, Served, MInv, Owned, Live
<1>3. h \in Elems(order) /\ Elems(order) \subseteq Handler
  BY <1>2 DEF KInv, Ordered, Elems
<1>4. Listed' = Listed /\ ListedIds' = ListedIds
  BY <1>1, Zenon DEF Listed, ListedIds
<1>5. /\ \A g \in Handler \ {h} : hpc'[g] = hpc[g] /\ (HasPort(g)' <=> HasPort(g))
                                  /\ (Frees(g)' <=> Frees(g))
      /\ hpc'[h] = "test" /\ HasPort(h)' /\ Frees(h)'
  BY <1>1, Zenon DEF MInv, MTyped, HasPort, Frees
<1>6. ASSUME NEW c \in Matches(h), old' = [old EXCEPT ![h] = c], UNCHANGED <<order, astray>>
      PROVE  KInv'
  <2>1. c \in Listed /\ id[c] = of[h]
    BY Zenon DEF Matches
  <2>2. old'[h] = c /\ old'[h] # port'[h] /\ \A g \in Handler \ {h} : old'[g] = old[g]
    BY <1>1, <1>2, <1>6, <2>1, Zenon DEF MInv, MTyped
  <2>3. \A g \in Handler : Pending(g)' <=> Pending(g)
    BY <1>1, <1>2, <1>5, <2>2, Zenon DEF Pending
  <2>4. Ordered'
    BY <1>6, <2>3, StaysOrdered, Zenon
  <2>5. Served'
    <3>1. \A g \in Handler : HasPort(g)' => id'[port'[g]] = of'[g]
      BY <1>1, <1>2, <1>5, Zenon DEF KInv, Served
    <3>2. \A g \in Handler : Frees(g)' /\ old'[g] # port'[g] =>
                               op'[g] = "remove" /\ id'[old'[g]] = of'[g]
      <4> SUFFICES ASSUME NEW g \in Handler, Frees(g)', old'[g] # port'[g]
                   PROVE  op'[g] = "remove" /\ id'[old'[g]] = of'[g]
        BY Zenon
      <4>1. CASE g = h
        BY <1>1, <2>1, <2>2, <4>1, Zenon
      <4>2. CASE g # h
        <5>1. Frees(g) /\ old'[g] = old[g] /\ old[g] # port[g]
          BY <1>1, <1>5, <2>2, <4>2, Zenon
        <5>2. op[g] = "remove" /\ id[old[g]] = of[g]
          BY <5>1, Zenon DEF KInv, Served
        <5> QED
          BY <1>1, <5>1, <5>2, Zenon
      <4> QED
        BY <4>1, <4>2, Zenon
    <3> QED
      BY <1>1, <1>4, <2>3, <3>1, <3>2, Zenon DEF KInv, Served
  <2>6. ASSUME ~astray', NEW m \in Master PROVE Tracked(m)'
    <3>1. Tracked(m)
      BY <1>6, <2>6, Zenon DEF KInv
    <3> QED
      BY <1>1, <1>4, <1>6, <3>1, StillTracked, Zenon
  <2> QED
    BY <1>1, <2>4, <2>5, <2>6, Zenon DEF KInv
<1>7. ASSUME Matches(h) = {}, Applied(h), old' = [old EXCEPT ![h] = port[h]] PROVE KInv'
  <2>1. order' = Others(h) /\ of[h] \notin ListedIds
    BY <1>7, Zenon DEF Applied, Matches, ListedIds
  <2>2. old'[h] = port'[h] /\ \A g \in Handler \ {h} : old'[g] = old[g]
    BY <1>1, <1>7, Zenon DEF MInv, MTyped
  <2>3. (\A g \in Handler \ {h} : Pending(g)' <=> Pending(g)) /\ ~Pending(h)'
    BY <1>1, <1>5, <2>2, Zenon DEF Pending
  <2>4. Ordered'
    BY <1>3, <2>1, <2>3, LeavesOrder, Zenon
  <2>5. Served'
    <3>1. /\ op' \in [Handler -> {"add", "remove", None}]
          /\ \A g \in Handler : Pending(g)' => op'[g] \in {"add", "remove"}
      BY <1>1, <2>3, Zenon DEF KInv, Served
    <3>2. \A g \in Handler : Frees(g)' /\ old'[g] # port'[g] => g \in Handler \ {h}
      BY <2>2, Zenon
    <3>3. \A g \in Handler : HasPort(g)' => HasPort(g)
      BY <1>2, <1>5, Zenon
    <3> QED
      BY <1>1, <1>4, <1>5, <2>2, <3>1, <3>2, <3>3, StaysServed, Zenon
  <2>6. ASSUME ~astray', NEW m \in Master PROVE Tracked(m)'
    BY <1>1, <1>3, <1>4, <1>7, <2>1, <2>6, AppliedTracked, Zenon
  <2> QED
    BY <1>1, <2>4, <2>5, <2>6, Zenon DEF KInv
<1> QED
  BY <1>6, <1>7, Zenon DEF Del_InFlight

LEMMA RemovePortFollows ==
    ASSUME MInv, KInv, NEW h \in Handler, RemovePort(h) PROVE KInv'
<1>1. kernel' = kernel /\ hpc[h] = "free" /\ id' = [id EXCEPT ![old[h]] = None]
      /\ head_port' = Unlinked(old[h])
  BY Zenon DEF RemovePort
<1>2. /\ HasPort(h) /\ Frees(h) /\ port[h] \in Live \ Listed /\ old[h] \in Cell
      /\ old[h] = port[h] \/ (old[h] \in Listed /\ writer = h)
  BY <1>1, Zenon DEF MInv, Owned, HasPort, Frees, Live
<1>3. Elems(order) \subseteq Handler
  BY DEF KInv, Ordered, Elems
<1>4. \A d \in Cell \ {old[h]} : id'[d] = id[d]
  BY <1>1, Zenon DEF MInv, MTyped
\* Of the others, none is at the cell that is freed.
<1>5. ASSUME NEW g \in Handler \ {h}
      PROVE  /\ HasPort(g) => port[g] \in Cell \ {old[h]}
             /\ Frees(g) /\ old[g] # port[g] => old[g] \in Cell \ {old[h]}
  <2>1. HasPort(g) => port[g] \in Live \ Listed /\ port[g] # port[h]
    BY <1>2, Zenon DEF MInv, Owned
  <2>2. Frees(g) /\ old[g] # port[g] => old[g] \in Listed /\ old[h] = port[h]
    BY <1>2, Zenon DEF MInv, Owned
  <2>3. Listed \subseteq Cell /\ Live \subseteq Cell
    BY Zenon DEF MInv, Owned, Live
  <2> QED
    BY <1>2, <2>1, <2>2, <2>3, Zenon
<1>6. CASE old[h] = port[h]
  <2>1. /\ hpc' = [hpc EXCEPT ![h] = "idle"] /\ op' = [op EXCEPT ![h] = None]
        /\ of' = [of EXCEPT ![h] = None] /\ port' = [port EXCEPT ![h] = None]
        /\ old' = [old EXCEPT ![h] = None] /\ UNCHANGED <<order, astray>>
    BY <1>6, Zenon DEF RemovePort, Rest, Goto
  <2>2. Listed' = Listed /\ ListedIds' = ListedIds /\ \A c \in Listed : id'[c] = id[c]
    <3>1. Listed' = Listed
      BY <1>1, <1>2, <1>6, Zenon DEF Unlinked, Listed
    <3>2. \A c \in Listed : id'[c] = id[c]
      BY <1>2, <1>4, <1>6, Zenon DEF MInv, Owned, Live
    <3> QED
      BY <3>1, <3>2, Zenon DEF ListedIds
  <2>3. /\ \A g \in Handler \ {h} : hpc'[g] = hpc[g] /\ op'[g] = op[g] /\ of'[g] = of[g]
                                    /\ port'[g] = port[g] /\ old'[g] = old[g]
        /\ hpc'[h] = "idle" /\ op' \in [Handler -> {"add", "remove", None}]
    BY <2>1, Zenon DEF MInv, MTyped, KInv, Served
  <2>4. /\ \A g \in Handler \ {h} : (Pending(g)' <=> Pending(g)) /\ (HasPort(g)' <=> HasPort(g))
                                    /\ (Frees(g)' <=> Frees(g))
        /\ ~Pending(h)' /\ ~HasPort(h)' /\ ~Frees(h)' /\ ~Pending(h)
    BY <1>1, <1>6, <2>3, Zenon DEF Pending, Frees, HasPort
  <2>5. Ordered'
    BY <2>1, <2>4, StaysOrdered, Zenon
  <2>6. \A c, d \in Listed' : id'[c] = id'[d] => c = d
    BY <2>2, SMTT(30) DEF KInv, Served
  <2>7. Served'
    <3>1. \A g \in Handler : Pending(g)' => op'[g] \in {"add", "remove"}
      BY <2>3, <2>4, Zenon DEF KInv, Served
    <3>2. \A g \in Handler : HasPort(g)' => id'[port'[g]] = of'[g]
      <4>1. ASSUME NEW g \in Handler \ {h}, HasPort(g) PROVE id'[port[g]] = of[g]
        <5>1. id[port[g]] = of[g]
          BY <4>1, Zenon DEF KInv, Served
        <5> QED
          BY <1>4, <1>5, <4>1, <5>1, Zenon
      <4> QED
        BY <2>3, <2>4, <4>1, Zenon
    <3>3. \A g \in Handler : Frees(g)' /\ old'[g] # port'[g] =>
             op'[g] = "remove" /\ id'[old'[g]] = of'[g]
      <4>1. ASSUME NEW g \in Handler \ {h}, Frees(g), old[g] # port[g]
            PROVE  op[g] = "remove" /\ id'[old[g]] = of[g]
        <5>1. op[g] = "remove" /\ id[old[g]] = of[g]
          BY <4>1, Zenon DEF KInv, Served
        <5> QED
          BY <1>4, <1>5, <4>1, <5>1, Zenon
      <4> QED
        BY <2>3, <2>4, <4>1, Zenon
    <3> QED
      BY <2>3, <2>6, <3>1, <3>2, <3>3, Zenon DEF Served
  <2>8. ASSUME ~astray', NEW m \in Master PROVE Tracked(m)'
    <3>1. Tracked(m)
      BY <2>1, <2>8, Zenon DEF KInv
    <3>2. \A g \in Elems(order) : g \in Handler \ {h}
      BY <1>3, <2>4, Zenon DEF KInv, Ordered
    <3> QED
      BY <1>1, <2>1, <2>2, <2>3, <3>1, <3>2, StillTracked, Zenon
  <2> QED
    BY <1>1, <2>5, <2>7, <2>8, Zenon DEF KInv
<1>7. CASE old[h] # port[h]
  <2>1. /\ UNCHANGED <<op, of, port>> /\ old[h] \in Listed /\ writer = h
        /\ \/ /\ hpc' = [hpc EXCEPT ![h] = "list"] /\ old' = [old EXCEPT ![h] = None]
              /\ UNCHANGED <<order, astray>>
           \/ /\ hpc' = [hpc EXCEPT ![h] = "test"] /\ old' = [old EXCEPT ![h] = port[h]]
              /\ Applied(h)
    BY <1>2, <1>7, Zenon DEF RemovePort, Goto
  <2>2. Listed' = Listed \ {old[h]}
    BY <1>1, <2>1, UnlinkedRest, Zenon DEF MInv, MTyped, Owned
  <2>3. op[h] = "remove" /\ id[old[h]] = of[h] /\ Pending(h) /\ h \in Elems(order)
    BY <1>2, <1>7, Zenon DEF KInv, Served, Ordered, Pending
  <2>4. \A c \in Listed' : c \in Listed /\ id'[c] = id[c] /\ id[c] # of[h]
    <3>1. \A c \in Listed' : c \in Listed /\ c \in Cell \ {old[h]}
      BY <2>2, Zenon DEF MInv, Owned, Live
    <3>2. \A c, d \in Listed : id[c] = id[d] => c = d
      BY Zenon DEF KInv, Served
    <3>3. \A c \in Listed' : id[c] # of[h]
      BY <2>1, <2>3, <3>1, <3>2, Zenon
    <3> QED
      BY <1>4, <3>1, <3>3, Zenon
  <2>5. of[h] \notin ListedIds' /\ \A m : m # of[h] => (m \in ListedIds' <=> m \in ListedIds)
    <3>1. of[h] \notin ListedIds' /\ \A m : m \in ListedIds' => m \in ListedIds
      BY <2>4, Zenon DEF ListedIds
    <3>2. ASSUME NEW m \in ListedIds, m # of[h] PROVE m \in ListedIds'
      <4>1. PICK c \in Listed : m = id[c]
        BY Zenon DEF ListedIds
      <4>2. c \in Listed' /\ id'[c] = m
        BY <2>2, <2>3, <2>4, <3>2, <4>1, Zenon
      <4> QED
        BY <4>2, Zenon DEF ListedIds
    <3> QED
      BY <3>1, <3>2, Zenon
  <2>6. /\ \A g \in Handler \ {h} : hpc'[g] = hpc[g] /\ old'[g] = old[g]
        /\ hpc'[h] = "list" \/ (hpc'[h] = "test" /\ old'[h] = port'[h])
    BY <2>1, Zenon DEF MInv, MTyped
  <2>7. /\ \A g \in Handler \ {h} : (Pending(g)' <=> Pending(g)) /\ (HasPort(g)' <=> HasPort(g))
                                    /\ (Frees(g)' <=> Frees(g))
        /\ HasPort(h)' /\ (Frees(h)' => old'[h] = port'[h])
        /\ Pending(h)' <=> hpc'[h] = "list"
    BY <2>1, <2>6, Zenon DEF Pending, Frees, HasPort
  <2>8. Served'
    <3>0. \A c, d \in Listed : id[c] = id[d] => c = d
      BY Zenon DEF KInv, Served
    <3>1. \A c, d \in Listed' : id'[c] = id'[d] => c = d
      BY <2>4, <3>0, Zenon
    <3>2. id'[port[h]] = of[h]
      BY <1>2, <1>4, <1>7, Zenon DEF KInv, Served, Live
    <3>3. \A g \in Handler : HasPort(g)' => id'[port'[g]] = of'[g]
      BY <1>4, <1>5, <2>1, <2>7, <3>2, Zenon DEF KInv, Served
    <3>4. \A g \in Handler : Frees(g)' /\ old'[g] # port'[g] =>
                               op'[g] = "remove" /\ id'[old'[g]] = of'[g]
      <4> SUFFICES ASSUME NEW g \in Handler, Frees(g)', old'[g] # port'[g]
                   PROVE  op'[g] = "remove" /\ id'[old'[g]] = of'[g]
        BY Zenon
      <4>1. g # h /\ Frees(g) /\ old'[g] = old[g] /\ old[g] # port[g]
        BY <2>1, <2>6, <2>7, Zenon
      <4>2. op[g] = "remove" /\ id[old[g]] = of[g]
        BY <4>1, Zenon DEF KInv, Served
      <4> QED
        BY <1>4, <1>5, <2>1, <4>1, <4>2, Zenon
    <3>5. \A g \in Handler : Pending(g)' => op'[g] \in {"add", "remove"}
      BY <2>1, <2>3, <2>7, Zenon DEF KInv, Served
    <3> QED
      BY <2>1, <3>1, <3>3, <3>4, <3>5, Zenon DEF KInv, Served
  <2>9. CASE hpc' = [hpc EXCEPT ![h] = "list"] /\ UNCHANGED <<order, astray>>
    <3>1. Ordered'
      <4>1. hpc'[h] = "list"
        BY <2>9, Zenon DEF MInv, MTyped
      <4> QED
        BY <2>3, <2>7, <2>9, <4>1, StaysOrdered, Zenon
    <3>2. ASSUME ~astray', NEW m \in Master PROVE Tracked(m)'
      <4>1. Tracked(m)
        BY <2>9, <3>2, Zenon DEF KInv
      <4>2. (m \in ListedIds' <=> m \in ListedIds) \/ \E g \in Elems(order) : of[g] = m
        BY <2>3, <2>5, Zenon
      <4> QED
        BY <1>1, <2>1, <2>9, <4>1, <4>2, StillTracked, Zenon
    <3> QED
      BY <1>1, <2>8, <3>1, <3>2, Zenon DEF KInv
  <2>10. CASE hpc' = [hpc EXCEPT ![h] = "test"] /\ Applied(h)
    <3>1. Ordered'
      <4>1. hpc'[h] = "test" /\ order' = Others(h)
        BY <2>10, Zenon DEF MInv, MTyped, Applied
      <4> QED
        BY <2>3, <2>7, <4>1, LeavesOrder, Zenon
    <3>2. ASSUME ~astray', NEW m \in Master PROVE Tracked(m)'
      BY <1>1, <2>1, <2>3, <2>5, <2>10, <3>2, AppliedTracked, Zenon
    <3> QED
      BY <1>1, <2>8, <3>1, <3>2, Zenon DEF KInv
  <2> QED
    BY <2>1, <2>9, <2>10, Zenon
<1> QED
  BY <1>6, <1>7, Zenon

\* Nothing else touches the list, the handlers or their messages.
LEMMA OthersFollow ==
    ASSUME KInv, UNCHANGED <<kernel, list, handler, history>> PROVE KInv'
<1>1. UNCHANGED <<kernel, head_port, id, hpc, op, of, port, old, order, astray>>
  BY Zenon DEF list, handler, history
<1>2. Listed' = Listed /\ ListedIds' = ListedIds
  BY <1>1, Zenon DEF Listed, ListedIds
<1>3. \A g \in Handler : (Pending(g)' <=> Pending(g)) /\ (HasPort(g)' <=> HasPort(g))
                         /\ (Frees(g)' <=> Frees(g))
  BY <1>1, Zenon DEF Pending, Frees, HasPort
<1>4. Ordered'
  BY <1>1, <1>3, StaysOrdered, Zenon
<1>5. Served'
  BY <1>1, <1>2, <1>3, ZenonT(30) DEF KInv, Served
<1>6. ASSUME ~astray', NEW m \in Master PROVE Tracked(m)'
  <2>1. Tracked(m)
    BY <1>1, <1>6, Zenon DEF KInv
  <2> QED
    BY <1>1, <1>2, <2>1, StillTracked, Zenon
<1> QED
  BY <1>1, <1>4, <1>5, <1>6, Zenon DEF KInv

LEMMA AskUnchanged ==
    ASSUME NEW q \in Query, Ask(q) PROVE UNCHANGED <<kernel, list, handler, history>>
  BY Zenon DEF Ask, FS_ParsedName, CheckPresence, CheckThisConnection, FoundHere,
         CheckPresence_low, ReCheckPresence, ReCheckCached, StillHere, Cache_Del_Device, First,
         TooManyChanges, Further, FS_ParsedName_destroy, Fixed, Keep

LEMMA KernelAlways == Spec => []KInv
<1>1. Init => KInv
  BY KernelInitially, Zenon DEF Init
<1>2. MInv /\ KInv /\ [Next]_vars => KInv'
  <2> SUFFICES ASSUME MInv, KInv, [Next]_vars PROVE KInv'
    BY Zenon
  <2>1. ASSUME NEW h \in Handler, Handle(h) PROVE KInv'
    BY <2>1, StepFollows, CreateW1PortFollows, AddInFlightFollows, DelInFlightFollows,
       RemovePortFollows, Zenon DEF Handle
  <2>2. CASE \E h \in Handler : News(h) \/ Serve(h)
    BY <2>1, <2>2, MessageFollows, Zenon DEF News, Serve
  <2>3. CASE \E q \in Query : Ask(q)
    BY <2>3, AskUnchanged, OthersFollow, Zenon
  <2>4. CASE Move \/ Expire \/ UNCHANGED vars
    <3>1. UNCHANGED <<kernel, list, handler, history>>
      BY <2>4, Zenon DEF Move, Expire, Keep, vars, mvars
    <3> QED
      BY <3>1, OthersFollow, Zenon
  <2> QED
    BY <2>2, <2>3, <2>4, Zenon DEF Next, Halted
<1> QED
  BY <1>1, <1>2, MastersAlways, PTL DEF Spec

\* When all messages are dealt with, the list holds each master that is
\* plugged in once, and no other, unless one of the messages had no effect or
\* was dealt with out of order: Add_InFlight and Del_InFlight, one thread for
\* each message, in any order that the write lock leaves them.
THEOREM FollowsKernelHolds == Spec => []FollowsKernel
<1>1. ASSUME MInv, KInv, ~astray, \A h \in Handler : hpc[h] = "idle"
      PROVE  ListedIds = kernel /\ Cardinality(kernel) = Len(head_port)
  <2>1. Elems(order) = {}
    <3>1. \A h \in Elems(order) : h \in Handler /\ Pending(h)
      BY <1>1 DEF KInv, Ordered, Elems
    <3> QED
      BY <1>1, <3>1, Zenon DEF Pending, Frees
  <2>2. \A m \in Master : m \in kernel <=> m \in ListedIds
    BY <1>1, <2>1, Zenon DEF KInv, Tracked, LastOn
  <2>3. ListedIds \subseteq Master /\ kernel \subseteq Master
    BY <1>1 DEF MInv, MTyped, Owned, Live, ListedIds, KInv
  <2>4. ListedIds = kernel
    BY <2>2, <2>3, Zenon
  <2> DEFINE k == Len(head_port)
             f == [i \in 1..k |-> id[head_port[i]]]
  <2>5. k \in Nat /\ head_port \in Seq(Cell)
    BY <1>1 DEF MInv, MTyped
  <2>6. \A i \in 1..k : head_port[i] \in Listed /\ f[i] \in kernel
    BY <2>4, Zenon DEF Listed, ListedIds
  <2>7. \A i, j \in 1..k : f[i] = f[j] => i = j
    <3>1. \A c, d \in Listed : id[c] = id[d] => c = d
      BY <1>1, Zenon DEF KInv, Served
    <3>2. \A i, j \in 1..k : head_port[i] = head_port[j] => i = j
      BY <1>1, Zenon DEF MInv, Owned
    <3> QED
      BY <2>6, <3>1, <3>2, Zenon
  <2>8. \A m \in kernel : \E i \in 1..k : f[i] = m
    BY <2>4, Zenon DEF Listed, ListedIds
  <2>9. f \in [1..k -> kernel]
    BY <2>6, Zenon
  <2> HIDE DEF f, k
  <2>10. f \in Bijection(1..k, kernel)
    BY <2>7, <2>8, <2>9, Zenon DEF Bijection, Injection, Surjection, IsInjective
  <2>11. IsFiniteSet(1..k) /\ Cardinality(1..k) = k
    <3>1. 1 \in Int /\ k \in Int
      BY <2>5 DEF k
    <3>2. Cardinality(1..k) = IF 1 > k THEN 0 ELSE k - 1 + 1
      BY <3>1, FS_Interval, Zenon
    <3> QED
      BY <2>5, <3>1, <3>2, FS_Interval DEF k
  <2>12. Cardinality(1..k) = Cardinality(kernel)
    BY <2>10, <2>11, FS_Bijection, Zenon DEF ExistsBijection
  <2> QED
    BY <2>4, <2>11, <2>12, Zenon DEF k
<1>2. MInv /\ KInv => FollowsKernel
  BY <1>1, Zenon DEF FollowsKernel, ListedIds
<1> QED
  BY <1>2, MastersAlways, KernelAlways, PTL

-----------------------------------------------------------------------------
(* The queries *)

\* The first bus master with a number is in the list, if there is any.
LEMMA Find ==
    ASSUME MInv, NEW i
    PROVE  /\ find_connection_in(i) \in Listed \cup {None}
           /\ (\E c \in Listed : index[c] = i) => find_connection_in(i) \in Listed
<1> DEFINE at == {k \in 1..Len(head_port) : index[head_port[k]] = i}
<1>1. CASE at = {}
  BY <1>1, Zenon DEF find_connection_in, Listed
<1>2. CASE at # {}
  <2>1. at \subseteq Nat /\ at \subseteq 1..Len(head_port)
    BY DEF MInv, MTyped
  <2>2. \E k \in at : \A l \in at : k <= l
    BY <1>2, <2>1, Least, Zenon
  <2> DEFINE k == CHOOSE k \in at : \A l \in at : k <= l
  <2>3. k \in 1..Len(head_port)
    BY <2>1, <2>2, Zenon
  <2>4. find_connection_in(i) = head_port[k]
    BY <1>2, Zenon DEF find_connection_in
  <2> QED
    BY <2>3, <2>4, Zenon DEF Listed
<1> QED
  BY <1>1, <1>2, Zenon

\* While there are queries, handlers change no port that is listed.
LEMMA ListStays ==
    ASSUME MInv, writer # None => readers = {}, readers # {}, NEW h \in Handler,
           Handle(h) \/ Message(h)
    PROVE  Listed' = Listed /\ writer' = None /\ readers' = readers
           /\ \A c \in Listed : index'[c] = index[c] /\ id'[c] = id[c]
<1>1. writer = None
  BY Zenon
<1>2. hpc[h] # "list"
  BY <1>1, MastersAssumption, Zenon DEF MInv, Owned
<1>3. CASE Message(h) \/ AllocIn(h) \/ RemoveIn(h)
  BY <1>1, <1>3, Zenon DEF Message, AllocIn, RemoveIn, list, Listed
<1>4. CASE CreateW1Port(h)
  <2>1. UNCHANGED <<head_port, readers, writer>>
        /\ \E c \in Cell \ Live : /\ index' = [index EXCEPT ![c] = n[h]]
                                 /\ id' = [id EXCEPT ![c] = of[h]]
    BY <1>4, Zenon DEF CreateW1Port
  <2>2. \A c \in Listed : c \in Live /\ c \in Cell
    BY Zenon DEF MInv, Owned, Live
  <2>3. Listed' = Listed
    BY <2>1, Zenon DEF Listed
  <2> QED
    BY <1>1, <2>1, <2>2, <2>3, Zenon DEF MInv, MTyped
<1>5. CASE RemovePort(h)
  <2>1. old[h] = port[h] /\ port[h] \notin Listed
    BY <1>1, <1>5, MastersAssumption, Zenon DEF RemovePort, MInv, Owned, HasPort, Frees
  <2>2. head_port' = head_port /\ UNCHANGED <<writer, readers>>
        /\ index' = [index EXCEPT ![old[h]] = 0] /\ id' = [id EXCEPT ![old[h]] = None]
    BY <1>5, <2>1, Zenon DEF RemovePort, Unlinked
  <2>3. \A c \in Listed : c \in Cell
    BY Zenon DEF MInv, Owned, Live
  <2> QED
    BY <1>1, <2>1, <2>2, <2>3, Zenon DEF Listed, MInv, MTyped
<1> QED
  BY <1>2, <1>3, <1>4, <1>5, Zenon DEF Handle, Wlock, Add_InFlight, Del_InFlight

-----------------------------------------------------------------------------
Record ==
    [pc : {"idle", "check", "scan", "try", "second", "third", "recheck", "known",
           "recached", "cached", "del", "done"},
     op : {"read", "write", None}, spec : BOOLEAN,
     sel : Cell \cup {None}, first : Cell \cup {None}, depth : Nat, again : BOOLEAN,
     todo : SUBSET Cell, hit : SUBSET Cell, found : SUBSET Cell, gone : BOOLEAN,
     res : {"ok", "EIO", "ENOENT", "ENODEV", None}]

\* What PointersLive says of a query, and that a bus found again is selected.
Sound(r) ==
    /\ r.sel # None => r.sel \in Listed
    /\ r.todo \cup r.hit \cup r.found \subseteq Listed
    /\ r.op = "write" /\ r.pc \in {"try", "second", "third"} => r.sel # None
    /\ r.pc \in {"known", "cached"} => r.sel # None

\* A location that names a bus master, if it is one.
Names(i) == i = NoBus \/ \E c \in Listed : index[c] = i

\* A query that is at work keeps the writer out.  Once one has cleared the
\* cached location, what is there is of a bus master that is still listed.
QInv ==
    /\ pn \in [Query -> Record]
    /\ writer # None => readers = {}
    /\ \A q \in Query : pn[q].pc # "idle" => q \in readers
    /\ \A q \in Query : pn[q].pc = "idle" => pn[q] = Rested
    /\ \A q \in Query : Sound(pn[q])
    /\ \A q \in Query : pn[q].again => Names(loc)

LEMMA RestedSound == Rested \in Record /\ Rested.pc = "idle" /\ Sound(Rested) /\ ~Rested.again
<1>1. Rested \in Record
  BY Zenon DEF Rested, Record
<1> QED
  BY <1>1, Zenon DEF Rested, Sound

LEMMA EndedSound ==
    ASSUME NEW p \in Record, NEW r \in {"ok", "EIO", "ENOENT", "ENODEV"}
    PROVE  Ended(p, r) \in Record /\ Ended(p, r).pc = "done" /\ Sound(Ended(p, r))
           /\ ~Ended(p, r).again
<1>1. Ended(p, r) \in Record
  BY Zenon DEF Ended, Rested, Record
<1> QED
  BY <1>1, Zenon DEF Ended, Rested, Sound

LEMMA RecheckedSound ==
    ASSUME MInv, NEW p \in Record, NEW c \in Listed
    PROVE  /\ Rechecked(p, c) \in Record /\ Rechecked(p, c).pc # "idle"
           /\ Sound(Rechecked(p, c)) /\ ~Rechecked(p, c).again
<1> DEFINE q == [Rested EXCEPT !.op = p.op, !.sel = c, !.gone = p.gone]
           a == [q EXCEPT !.pc = "second"]
           b == [q EXCEPT !.pc = "try", !.depth = p.depth + 1]
<1>1. c \in Cell /\ c # None
  BY MastersAssumption, Zenon DEF MInv, Owned, Live
<1>2. q \in Record
  BY <1>1, Zenon DEF Rested, Record
<1>3. a \in Record /\ b \in Record
  <2>1. a \in Record
    BY <1>1, Zenon DEF Rested, Record
  <2>2. ASSUME NEW d \in Nat PROVE [q EXCEPT !.pc = "try", !.depth = d] \in Record
    BY <1>1, Zenon DEF Rested, Record
  <2>3. p.depth + 1 \in Nat
    BY DEF Record
  <2> QED
    BY <2>1, <2>2, <2>3, Zenon
<1>4. Sound(a) /\ Sound(b) /\ ~a.again /\ ~b.again /\ a.pc # "idle" /\ b.pc # "idle"
  BY <1>1, Zenon DEF Rested, Sound
<1>5. Rechecked(p, c) \in {Ended(q, "EIO"), a, b}
  BY Zenon DEF Rechecked
<1> HIDE DEF q, a, b
<1> QED
  BY <1>2, <1>3, <1>4, <1>5, EndedSound, Zenon

\* A query at work goes on with r.
LEMMA Advance ==
    ASSUME MInv, QInv, NEW q \in Query, NEW r \in Record,
           pn[q].pc # "idle", r.pc # "idle", Sound(r), Set(q, r),
           UNCHANGED <<list, readers, writer>>,
           Names(loc) => Names(loc)', r.again => Names(loc)'
    PROVE  QInv'
<1>1. pn' = [pn EXCEPT ![q] = r] /\ pn' \in [Query -> Record]
  BY Zenon DEF Set, QInv
<1>2. UNCHANGED <<head_port, index, readers, writer>> /\ Listed' = Listed
  BY Zenon DEF list, Listed
<1>3. \A p \in Query : p # q => pn'[p] = pn[p]
  BY <1>1, Zenon DEF QInv
<1>4. pn'[q] = r
  BY <1>1, Zenon DEF QInv
<1>5. \A p \in Query : Sound(pn[p])'
  <2>1. Sound(r)'
    BY <1>2, Zenon DEF Sound
  <2>2. \A p \in Query : p # q => Sound(pn[p])'
    BY <1>2, <1>3, Zenon DEF QInv, Sound
  <2> QED
    BY <1>4, <2>1, <2>2, Zenon DEF Sound
<1> QED
  BY <1>1, <1>2, <1>3, <1>4, <1>5, Zenon DEF QInv

\* CheckPresence has found a bus master.
LEMMA LocatedSound ==
    ASSUME MInv, QInv, NEW q \in Query, NEW p \in Record, NEW c \in Listed \cup {None},
           p.again => c \in Listed, Located(q, p, c), pn[q].pc # "idle",
           UNCHANGED <<list, readers, writer>>, Names(loc) => Names(loc)'
    PROVE  QInv'
<1>1. CASE p.again
  BY <1>1, Advance, RecheckedSound, Zenon DEF Located
<1>2. CASE ~p.again
  <2>1. PICK o \in {"read", "write"} :
          Set(q, IF o = "write" /\ c = None
                 THEN Ended([p EXCEPT !.op = o], "ENODEV")
                 ELSE [Rested EXCEPT !.pc = "try", !.op = o, !.sel = c, !.gone = p.gone])
    BY <1>2, Zenon DEF Located, Ops
  <2> DEFINE a == [p EXCEPT !.op = o]
             b == [Rested EXCEPT !.pc = "try", !.op = o, !.sel = c, !.gone = p.gone]
  <2>2. c \in Cell \cup {None}
    BY Zenon DEF MInv, Owned, Live
  <2>3. a \in Record /\ b \in Record
    <3>1. a \in Record
      BY Zenon DEF Record
    <3>2. b \in Record
      BY <2>2, Zenon DEF Record, Rested
    <3> QED
      BY <3>1, <3>2, Zenon
  <2>4. CASE o = "write" /\ c = None
    BY <2>1, <2>3, <2>4, Advance, EndedSound, Zenon
  <2>5. CASE ~(o = "write" /\ c = None)
    <3>1. Sound(b) /\ b.pc # "idle" /\ ~b.again
      BY <2>5, Zenon DEF Sound, Rested
    <3>2. Set(q, b)
      BY <2>1, <2>5, Zenon
    <3> QED
      BY <2>3, <3>1, <3>2, Advance, Zenon
  <2> QED
    BY <2>4, <2>5, Zenon
<1> QED
  BY <1>1, <1>2, Zenon

LEMMA ParseKeeps ==
    ASSUME MInv, QInv, NEW q \in Query, FS_ParsedName(q) PROVE QInv'
<1> DEFINE a == [Rested EXCEPT !.pc = "check"]
           b(o, c) == [Rested EXCEPT !.pc = "try", !.op = o, !.spec = TRUE, !.sel = c]
<1>1. /\ readers' = readers \cup {q} /\ writer = None
      /\ UNCHANGED <<head_port, index, writer, loc>> /\ Listed' = Listed
  BY Zenon DEF FS_ParsedName, list, Listed
<1>2. ASSUME NEW r \in Record, Sound(r), ~r.again, Set(q, r), r.pc # "idle" PROVE QInv'
  <2>1. pn' = [pn EXCEPT ![q] = r] /\ pn' \in [Query -> Record]
    BY <1>2, Zenon DEF Set, QInv
  <2>2. pn'[q] = r /\ \A p \in Query : p # q => pn'[p] = pn[p]
    BY <2>1, Zenon DEF QInv
  <2>3. \A p \in Query : Sound(pn[p])'
    BY <1>1, <1>2, <2>2, Zenon DEF QInv, Sound
  <2>4. Names(loc)' = Names(loc)
    BY <1>1, Zenon DEF Names
  <2>5. \A p \in Query : pn'[p].again => Names(loc)'
    BY <1>2, <2>2, <2>4, Zenon DEF QInv
  <2> QED
    BY <1>1, <1>2, <2>1, <2>2, <2>3, <2>5, Zenon DEF QInv
<1>3. CASE Set(q, a)
  <2>1. a \in Record
    BY Zenon DEF Rested, Record
  <2>2. Sound(a) /\ ~a.again /\ a.pc # "idle"
    BY Zenon DEF Rested, Sound
  <2> QED
    BY <1>2, <1>3, <2>1, <2>2, Zenon
<1>4. ASSUME NEW o \in {"read", "write"}, NEW c \in Listed, Set(q, b(o, c)) PROVE QInv'
  <2>1. c \in Cell /\ c # None
    BY MastersAssumption, Zenon DEF MInv, Owned, Live
  <2>2. b(o, c) \in Record
    BY <2>1, Zenon DEF Rested, Record
  <2>3. Sound(b(o, c)) /\ ~b(o, c).again /\ b(o, c).pc # "idle"
    BY <2>1, Zenon DEF Rested, Sound
  <2> QED
    BY <1>2, <1>4, <2>2, <2>3, Zenon
<1>5. \A c \in Listed : find_connection_in(index[c]) \in Listed
  BY Find, Zenon
<1> QED
  BY <1>3, <1>4, <1>5, Zenon DEF FS_ParsedName, Ops

\* Most steps of a query leave the list and the lock alone.
LEMMA FixedKeeps == Fixed => UNCHANGED <<list, readers, writer>>
  BY Zenon DEF Fixed, Keep

LEMMA NamesStays == UNCHANGED <<list, loc>> /\ Names(loc) => Names(loc)'
  BY Zenon DEF list, Names, Listed

LEMMA NamesCached == ASSUME NEW c \in Listed, Cached(c), UNCHANGED list PROVE Names(loc)'
  BY Zenon DEF list, Names, Listed, Cached

LEMMA CheckKeeps ==
    ASSUME MInv, QInv, NEW q \in Query, CheckPresence(q) PROVE QInv'
<1>1. /\ UNCHANGED <<list, readers, writer, loc>> /\ pn[q].pc # "idle" /\ pn[q] \in Record
      /\ pn[q].again => Names(loc)
  BY FixedKeeps, Zenon DEF CheckPresence, QInv
<1>2. CASE loc # NoBus
  <2> DEFINE c == find_connection_in(loc)
             p == [pn[q] EXCEPT !.gone = c = None]
  <2>1. c \in Listed \cup {None} /\ (pn[q].again => c \in Listed)
    BY <1>1, <1>2, Find, Zenon DEF Names
  <2>2. p \in Record /\ p.again = pn[q].again
    BY <1>1, Zenon DEF Record
  <2>3. Located(q, p, c)
    BY <1>2, Zenon DEF CheckPresence
  <2> HIDE DEF c, p
  <2> QED
    BY <1>1, <2>1, <2>2, <2>3, LocatedSound, NamesStays, Zenon
<1>3. CASE loc = NoBus
  <2> DEFINE r == [pn[q] EXCEPT !.pc = "scan", !.todo = Listed]
  <2>1. Listed \in SUBSET Cell
    BY Zenon DEF MInv, Owned, Live
  <2>2. r \in Record
    BY <1>1, <2>1, Zenon DEF Record
  <2>3. r.pc = "scan" /\ r.todo = Listed
        /\ r.sel = pn[q].sel /\ r.hit = pn[q].hit /\ r.found = pn[q].found
        /\ r.op = pn[q].op
    BY <1>1, Zenon DEF Record
  <2>4. Sound(r) /\ r.pc # "idle"
    BY <2>3, Zenon DEF Sound, QInv
  <2>5. Names(loc)'
    BY <1>1, <1>3, Zenon DEF Names
  <2>6. Set(q, r)
    BY <1>3, Zenon DEF CheckPresence
  <2> HIDE DEF r
  <2> QED
    BY <1>1, <2>2, <2>4, <2>5, <2>6, Advance, Zenon
<1> QED
  BY <1>2, <1>3, Zenon

LEMMA ScanKeeps ==
    ASSUME MInv, QInv, NEW q \in Query, CheckThisConnection(q) \/ FoundHere(q) PROVE QInv'
<1>1. /\ UNCHANGED <<list, readers, writer>> /\ pn[q].pc = "scan" /\ pn[q] \in Record
      /\ pn[q].again => Names(loc)
  BY FixedKeeps, ZenonT(30) DEF CheckThisConnection, FoundHere, QInv
<1>2. pn[q].todo \cup pn[q].hit \cup pn[q].found \subseteq Listed
      /\ (pn[q].sel # None => pn[q].sel \in Listed) /\ Listed \subseteq Cell
  BY Zenon DEF QInv, Sound, MInv, Owned, Live
<1> DEFINE a(t, u) == [pn[q] EXCEPT !.todo = t, !.hit = u]
           b(t, u) == [pn[q] EXCEPT !.hit = t, !.found = u]
<1>3. ASSUME NEW t \in SUBSET Listed, NEW u \in SUBSET Listed
      PROVE  /\ a(t, u) \in Record /\ Sound(a(t, u)) /\ a(t, u).pc = "scan"
             /\ a(t, u).again = pn[q].again
             /\ b(t, u) \in Record /\ Sound(b(t, u)) /\ b(t, u).pc = "scan"
             /\ b(t, u).again = pn[q].again
  <2>1. t \in SUBSET Cell /\ u \in SUBSET Cell
    BY <1>2, Zenon
  <2>2. a(t, u) \in Record /\ a(t, u).again = pn[q].again
    BY <1>1, <2>1, Zenon DEF Record
  <2>3. b(t, u) \in Record /\ b(t, u).again = pn[q].again
    BY <1>1, <2>1, Zenon DEF Record
  <2>4. /\ a(t, u).pc = "scan" /\ a(t, u).sel = pn[q].sel
        /\ a(t, u).todo = t /\ a(t, u).hit = u /\ a(t, u).found = pn[q].found
    BY <1>1, Zenon DEF Record
  <2>5. /\ b(t, u).pc = "scan" /\ b(t, u).sel = pn[q].sel
        /\ b(t, u).todo = pn[q].todo /\ b(t, u).hit = t /\ b(t, u).found = u
    BY <1>1, Zenon DEF Record
  <2>6. Sound(a(t, u)) /\ Sound(b(t, u))
    BY <1>2, <2>4, <2>5, Zenon DEF Sound
  <2> QED
    BY <2>2, <2>3, <2>4, <2>5, <2>6, Zenon
<1>4. CASE CheckThisConnection(q)
  <2>1. UNCHANGED loc
    BY <1>4, Zenon DEF CheckThisConnection
  <2>2. PICK c \in pn[q].todo :
          \/ Set(q, [pn[q] EXCEPT !.todo = @ \ {c}, !.hit = @ \cup {c}])
          \/ Set(q, [pn[q] EXCEPT !.todo = @ \ {c}])
    BY <1>4, Zenon DEF CheckThisConnection
  <2>3. [pn[q] EXCEPT !.todo = @ \ {c}] = a(pn[q].todo \ {c}, pn[q].hit)
    BY <1>1, Zenon DEF Record
  <2>4. \/ Set(q, a(pn[q].todo \ {c}, pn[q].hit \cup {c}))
        \/ Set(q, a(pn[q].todo \ {c}, pn[q].hit))
    BY <2>2, <2>3, Zenon
  <2>5. PICK t \in SUBSET Listed, u \in SUBSET Listed : Set(q, a(t, u))
    BY <1>2, <2>4, Zenon
  <2> HIDE DEF a, b
  <2> QED
    BY <1>1, <1>3, <2>1, <2>5, Advance, NamesStays, Zenon
<1>5. CASE FoundHere(q)
  <2>1. PICK c \in pn[q].hit :
          Cached(c) /\ Set(q, b(pn[q].hit \ {c}, pn[q].found \cup {c}))
    BY <1>5, Zenon DEF FoundHere
  <2>2. PICK t \in SUBSET Listed, u \in SUBSET Listed : Set(q, b(t, u))
    BY <1>2, <2>1, Zenon
  <2>3. Names(loc)'
    BY <1>1, <1>2, <2>1, NamesCached, Zenon
  <2> HIDE DEF a, b
  <2> QED
    BY <1>1, <1>3, <2>2, <2>3, Advance, Zenon
<1> QED
  BY <1>4, <1>5, Zenon

LEMMA LowKeeps ==
    ASSUME MInv, QInv, NEW q \in Query, CheckPresence_low(q) PROVE QInv'
<1>0. Fixed /\ pn[q].pc = "scan"
  BY Zenon DEF CheckPresence_low
<1>1. /\ UNCHANGED <<list, readers, writer>> /\ pn[q].pc # "idle" /\ pn[q] \in Record
      /\ pn[q].again => Names(loc)
  BY <1>0, FixedKeeps, Zenon DEF QInv
<1> DEFINE at == {k \in 1..Len(head_port) : head_port[k] \in pn[q].found}
           c == head_port[CHOOSE k \in at : \A l \in at : l <= k]
<1>2. CASE at = {}
  <2>1. Set(q, Ended(pn[q], "ENOENT")) /\ UNCHANGED loc
    BY <1>2, Zenon DEF CheckPresence_low
  <2> QED
    BY <1>1, <2>1, Advance, EndedSound, NamesStays, Zenon
<1>3. CASE at # {}
  <2>1. Cached(c) /\ Located(q, pn[q], find_connection_in(index[c]))
    BY <1>3, Zenon DEF CheckPresence_low
  <2>2. \E k \in at : \A l \in at : l <= k
    <3>1. Len(head_port) \in Nat
      BY SMTT(30) DEF MInv, MTyped
    <3> QED
      BY <1>3, <3>1, Last, ZenonT(30)
  <2>3. c \in Listed
    BY <2>2, Zenon DEF Listed
  <2> HIDE DEF c
  <2>4. find_connection_in(index[c]) \in Listed
    BY <2>3, Find, Zenon
  <2>5. Names(loc)'
    BY <1>1, <2>1, <2>3, NamesCached, Zenon
  <2> QED
    BY <1>1, <2>1, <2>4, <2>5, LocatedSound, ZenonT(30)
<1> QED
  BY <1>2, <1>3, Zenon

\* A query at work goes to l, with bus master c selected, f the first one.
LEMMA MoveSound ==
    ASSUME MInv, QInv, NEW q \in Query, NEW c \in Listed \cup {None},
           NEW f \in Cell \cup {None},
           NEW l \in {"known", "recached", "cached", "del", "second", "third", "recheck"},
           l \in {"known", "cached"} => c # None,
           l \in {"second", "third"} /\ pn[q].op = "write" => c # None,
           Set(q, [pn[q] EXCEPT !.pc = l, !.sel = c, !.first = f]),
           pn[q].pc # "idle", UNCHANGED <<list, readers, writer, loc>>
    PROVE  QInv'
<1> DEFINE r == [pn[q] EXCEPT !.pc = l, !.sel = c, !.first = f]
<1>1. pn[q] \in Record /\ (pn[q].again => Names(loc))
  BY Zenon DEF QInv
<1>2. c \in Cell \cup {None} /\ f \in Cell \cup {None}
  BY Zenon DEF MInv, Owned, Live
<1>3. r \in Record /\ r.again = pn[q].again
  BY <1>1, <1>2, Zenon DEF Record
<1>4. /\ r.pc = l /\ r.sel = c /\ r.op = pn[q].op
      /\ r.todo = pn[q].todo /\ r.hit = pn[q].hit /\ r.found = pn[q].found
  BY <1>1, Zenon DEF Record
<1>5. Sound(r) /\ r.pc # "idle"
  BY <1>4, Zenon DEF QInv, Sound
<1> HIDE DEF r
<1>6. Set(q, r)
  BY Zenon DEF r
<1> QED
  BY <1>1, <1>3, <1>5, <1>6, Advance, NamesStays

\* What is left out of such a step stays.
LEMMA SameFields ==
    ASSUME QInv, NEW q \in Query, NEW l, NEW c
    PROVE  /\ [pn[q] EXCEPT !.pc = l] =
                [pn[q] EXCEPT !.pc = l, !.sel = pn[q].sel, !.first = pn[q].first]
           /\ [pn[q] EXCEPT !.pc = l, !.sel = c] =
                [pn[q] EXCEPT !.pc = l, !.sel = c, !.first = pn[q].first]
           /\ [pn[q] EXCEPT !.pc = l, !.first = c] =
                [pn[q] EXCEPT !.pc = l, !.sel = pn[q].sel, !.first = c]
<1>1. pn[q] \in Record
  BY Zenon DEF QInv
<1> QED
  BY <1>1, Zenon DEF Record

LEMMA RecheckKeeps ==
    ASSUME MInv, QInv, NEW q \in Query, ReCheckPresence(q) \/ ReCheckCached(q) PROVE QInv'
<1>1. /\ UNCHANGED <<list, readers, writer, loc>> /\ pn[q].pc # "idle"
      /\ pn[q].sel \in Listed \cup {None} /\ pn[q].first \in Cell \cup {None}
  BY FixedKeeps, Zenon DEF ReCheckPresence, ReCheckCached, QInv, Sound, Record
<1>2. CASE ReCheckPresence(q)
  <2>1. \/ Set(q, [pn[q] EXCEPT !.pc = "known"]) /\ pn[q].sel # None
        \/ Set(q, [pn[q] EXCEPT !.pc = "recached"])
    BY <1>2, Zenon DEF ReCheckPresence, Answers
  <2>2. PICK l \in {"known", "recached"} :
          /\ l = "known" => pn[q].sel # None
          /\ Set(q, [pn[q] EXCEPT !.pc = l, !.sel = pn[q].sel, !.first = pn[q].first])
    BY <2>1, SameFields, Zenon
  <2> QED
    BY <1>1, <2>2, MoveSound, Zenon
<1>3. CASE ReCheckCached(q)
  <2>1. PICK c \in Listed \cup {None} :
          \/ c # None /\ Set(q, [pn[q] EXCEPT !.pc = "cached", !.sel = c])
          \/ Set(q, [pn[q] EXCEPT !.pc = "del"])
    BY <1>3, Find, Zenon DEF ReCheckCached, Answers
  <2>2. CASE c # None /\ Set(q, [pn[q] EXCEPT !.pc = "cached", !.sel = c])
    <3>1. Set(q, [pn[q] EXCEPT !.pc = "cached", !.sel = c, !.first = pn[q].first])
      BY <2>2, SameFields, Zenon
    <3> QED
      BY <1>1, <2>2, <3>1, MoveSound, Zenon
  <2>3. CASE Set(q, [pn[q] EXCEPT !.pc = "del"])
    <3>1. Set(q, [pn[q] EXCEPT !.pc = "del", !.sel = pn[q].sel, !.first = pn[q].first])
      BY <2>3, SameFields, Zenon
    <3> QED
      BY <1>1, <3>1, MoveSound, Zenon
  <2> QED
    BY <2>1, <2>2, <2>3, Zenon
<1> QED
  BY <1>2, <1>3, Zenon

LEMMA StillHereKeeps ==
    ASSUME MInv, QInv, NEW q \in Query, StillHere(q) PROVE QInv'
<1>0. UNCHANGED <<list, readers, writer>> /\ pn[q].pc \in {"known", "cached"}
  BY FixedKeeps, Zenon DEF StillHere
<1>1. /\ UNCHANGED <<list, readers, writer>> /\ pn[q].pc # "idle" /\ pn[q] \in Record
      /\ pn[q].sel \in Listed
  BY <1>0, Zenon DEF QInv, Sound
<1>2. Names(loc)'
  BY <1>1, NamesCached, Zenon DEF StillHere
<1> QED
  BY <1>1, <1>2, Advance, RecheckedSound, Zenon DEF StillHere

LEMMA ForgetKeeps ==
    ASSUME MInv, QInv, NEW q \in Query, Cache_Del_Device(q) PROVE QInv'
<1> DEFINE r == [pn[q] EXCEPT !.pc = "check", !.sel = None, !.again = TRUE]
<1>1. /\ UNCHANGED <<list, readers, writer>> /\ pn[q].pc # "idle" /\ pn[q] \in Record
      /\ Set(q, r) /\ Names(loc)'
  BY FixedKeeps, Zenon DEF Cache_Del_Device, QInv, Names
<1>2. r \in Record
  BY <1>1, Zenon DEF Record
<1>3. /\ r.pc = "check" /\ r.sel = None
      /\ r.todo = pn[q].todo /\ r.hit = pn[q].hit /\ r.found = pn[q].found
  BY <1>1, Zenon DEF Record
<1>4. Sound(r) /\ r.pc # "idle"
  BY <1>3, Zenon DEF QInv, Sound
<1> HIDE DEF r
<1> QED
  BY <1>1, <1>2, <1>4, Advance, Zenon

LEMMA TryKeeps ==
    ASSUME MInv, QInv, NEW q \in Query, First(q) \/ TooManyChanges(q) \/ Further(q) PROVE QInv'
<1>1. /\ UNCHANGED <<list, readers, writer, loc>>
      /\ pn[q].pc \in {"try", "second", "third"} /\ pn[q] \in Record
  BY FixedKeeps, Zenon DEF First, TooManyChanges, Further, QInv
<1>2. /\ pn[q].sel \in Listed \cup {None} /\ pn[q].sel \in Cell \cup {None}
      /\ pn[q].first \in Cell \cup {None} /\ (pn[q].op = "write" => pn[q].sel # None)
  BY <1>1, Zenon DEF QInv, Sound, Record
<1>3. CASE \E r \in {"ok", "EIO", "ENODEV"} : Set(q, Ended(pn[q], r))
  BY <1>1, <1>3, Advance, EndedSound, NamesStays, Zenon
<1>4. CASE \E l \in {"second", "recheck"} : Set(q, [pn[q] EXCEPT !.pc = l, !.first = pn[q].sel])
  <2>1. PICK l \in {"second", "recheck"} :
          Set(q, [pn[q] EXCEPT !.pc = l, !.sel = pn[q].sel, !.first = pn[q].sel])
    BY <1>4, SameFields, Zenon
  <2> QED
    BY <1>1, <1>2, <2>1, MoveSound, Zenon
<1>5. CASE Set(q, [pn[q] EXCEPT !.pc = "third"])
  <2>1. Set(q, [pn[q] EXCEPT !.pc = "third", !.sel = pn[q].sel, !.first = pn[q].first])
    BY <1>5, SameFields, ZenonT(30)
  <2>2. pn[q].pc # "idle"
    BY <1>1, Zenon
  <2> QED
    BY <1>1, <1>2, <2>1, <2>2, MoveSound, Zenon
<1>6. First(q) => \/ \E r \in {"ok", "EIO", "ENODEV"} : Set(q, Ended(pn[q], r))
                  \/ \E l \in {"second", "recheck"} :
                       Set(q, [pn[q] EXCEPT !.pc = l, !.first = pn[q].sel])
  BY Zenon DEF First
<1> QED
  BY <1>3, <1>4, <1>5, <1>6 DEF TooManyChanges, Further

LEMMA DestroyKeeps ==
    ASSUME MInv, QInv, NEW q \in Query, FS_ParsedName_destroy(q) PROVE QInv'
<1>1. /\ readers' = readers \ {q} /\ UNCHANGED <<head_port, index, writer, loc>>
      /\ Listed' = Listed /\ pn' = [pn EXCEPT ![q] = Rested]
  BY Zenon DEF FS_ParsedName_destroy, list, Listed, Set
<1>2. pn' \in [Query -> Record] /\ pn'[q] = Rested /\ \A p \in Query : p # q => pn'[p] = pn[p]
  BY <1>1, RestedSound, Zenon DEF QInv
<1>3. \A p \in Query : Sound(pn'[p])
  BY <1>2, RestedSound, Zenon DEF QInv
<1>4. \A p \in Query : Sound(pn[p])'
  BY <1>1, <1>3, Zenon DEF Sound
<1>5. Names(loc)' = Names(loc)
  BY <1>1, Zenon DEF Names
<1>6. \A p \in Query : pn'[p].again => Names(loc)'
  BY <1>2, <1>5, RestedSound, Zenon DEF QInv
<1> QED
  BY <1>1, <1>2, <1>4, <1>6, RestedSound, Zenon DEF QInv

-----------------------------------------------------------------------------
LEMMA QueriesInitially == Init => QInv
<1> SUFFICES ASSUME Init PROVE QInv
  BY Zenon
<1>1. pn = [q \in Query |-> Rested] /\ writer = None
  BY Zenon DEF Init, MInit
<1> QED
  BY <1>1, RestedSound, Zenon DEF QInv

\* The handlers: with no query at work there is nothing to show, with one
\* they leave the list alone.
LEMMA HandlersKeep ==
    ASSUME MInv, QInv, NEW h \in Handler, Handle(h) \/ Message(h), UNCHANGED <<loc, pn>>
    PROVE  QInv'
<1>1. readers' = readers
  BY Zenon DEF Handle, AllocIn, CreateW1Port, Wlock, Add_InFlight, Del_InFlight, RemoveIn,
         RemovePort, Message
<1>2. CASE readers = {}
  <2>1. \A q \in Query : pn'[q] = Rested
    BY <1>2, Zenon DEF QInv
  <2>2. \A q \in Query : Sound(pn[q])'
    <3>1. /\ Rested.sel = None /\ Rested.todo = {} /\ Rested.hit = {} /\ Rested.found = {}
          /\ Rested.pc = "idle"
      BY Zenon DEF Rested
    <3> QED
      BY <2>1, <3>1, Zenon DEF Sound
  <2> QED
    BY <1>1, <1>2, <2>1, <2>2, RestedSound, Zenon DEF QInv
<1>3. CASE readers # {}
  <2>1. Listed' = Listed /\ writer' = None /\ \A c \in Listed : index'[c] = index[c]
    BY <1>3, ListStays, Zenon DEF QInv
  <2>2. \A q \in Query : Sound(pn[q])'
    BY <2>1, Zenon DEF QInv, Sound
  <2>3. Names(loc) => Names(loc)'
    BY <2>1, Zenon DEF Names
  <2> QED
    BY <1>1, <2>1, <2>2, <2>3, Zenon DEF QInv
<1> QED
  BY <1>2, <1>3, Zenon

LEMMA QueriesPreserved == MInv /\ QInv /\ [Next]_vars => QInv'
<1> SUFFICES ASSUME MInv, QInv, [Next]_vars PROVE QInv'
  BY Zenon
<1>1. CASE \E h \in Handler : News(h) \/ Serve(h)
  BY <1>1, HandlersKeep, Zenon DEF News, Serve, lvars
<1>2. CASE \E q \in Query : Ask(q)
  BY <1>2, ParseKeeps, CheckKeeps, ScanKeeps, LowKeeps, RecheckKeeps, StillHereKeeps,
     ForgetKeeps, TryKeeps, DestroyKeeps, Zenon, Zenon, Zenon DEF Ask
<1>3. CASE Move \/ Expire \/ UNCHANGED vars
  <2>1. UNCHANGED <<list, readers, writer, pn>> /\ loc' \in {loc, NoBus}
    BY <1>3, Zenon DEF Move, Expire, Keep, vars, mvars, lvars
  <2>2. UNCHANGED <<head_port, index>> /\ Listed' = Listed
    BY <2>1, Zenon DEF list, Listed
  <2>3. \A q \in Query : Sound(pn[q])'
    BY <2>1, <2>2, Zenon DEF QInv, Sound
  <2>4. Names(loc) => Names(loc)'
    BY <2>1, <2>2, Zenon DEF Names
  <2> QED
    BY <2>1, <2>3, <2>4, Zenon DEF QInv
<1> QED
  BY <1>1, <1>2, <1>3, Zenon DEF Next, Halted

\* The bus master a query has selected, and those it asks, stay in the list
\* until the query has returned, however bus masters come and go meanwhile;
\* and FS_write_real always has one to follow.
THEOREM PointersLiveHolds == Spec => []PointersLive
<1>1. QInv => PointersLive
  BY Zenon DEF QInv, Sound, PointersLive
<1> QED
  BY <1>1, QueriesInitially, QueriesPreserved, MastersAlways, PTL DEF Spec

-----------------------------------------------------------------------------
(* A device that answers is found *)

\* The listed bus masters on which the device answers, and the others.
On == {c \in Listed : Answers(c)}
Off == Listed \ On

\* The number of a listed bus master names that one only.
Distinct == \A c, d \in Listed : index[c] = index[d] => c = d

\* A cached location is the right one.
Right == loc = NoBus \/ \E c \in On : index[c] = loc

\* A query that has met no trouble is on its way to a success: what it has
\* found answers, what it has given up does not, and after it has deleted
\* the cached location there is none, or a right one.
Good(r, on, off, right) ==
    /\ r.pc # "idle"
    /\ r.hit \cup r.found \subseteq on
    /\ r.pc \in {"check", "scan", "recheck", "known", "recached", "cached", "del"} =>
         r.depth = 0 /\ ~r.spec /\ r.first \in off \cup {None}
    /\ r.pc = "try" => r.depth \in {0, 1} /\ (r.spec \/ r.depth = 1 => r.sel \in on)
    /\ r.pc \in {"second", "third", "known", "cached"} => r.sel \in on
    /\ r.pc = "check" /\ r.again => right
    /\ r.pc = "recheck" => r.sel \notin on
    /\ r.pc = "scan" => \E c \in on : c \in r.todo \cup r.hit \cup r.found
    /\ r.pc = "done" /\ r.res # "ok" => r.op = "write" /\ r.gone /\ r.res = "ENODEV"

\* A query that is to succeed.
Sure(q) == steady[q] /\ q \notin misled

FInv ==
    /\ steady \in [Query -> BOOLEAN]
    /\ \A q \in Query : Sure(q) => Distinct /\ On # {} /\ Good(pn[q], On, Off, Right)

LEMMA OnListed ==
    ASSUME MInv
    PROVE  /\ On \subseteq Listed /\ Off \subseteq Listed /\ On \cap Off = {}
           /\ None \notin Listed /\ Listed \subseteq Cell
           /\ \A c \in Listed \cup {None} : c \in On <=> Answers(c)
<1>1. Listed \subseteq Cell /\ None \notin Listed
  BY MastersAssumption, Zenon DEF MInv, Owned, Live
<1> QED
  BY <1>1, Zenon DEF On, Off, Answers

\* What find_connection_in returns for the number of a bus master.
LEMMA FindsIt ==
    ASSUME MInv, Distinct, NEW c \in Listed PROVE find_connection_in(index[c]) = c
<1> DEFINE at == {k \in 1..Len(head_port) : index[head_port[k]] = index[c]}
<1>1. \E k \in 1..Len(head_port) : head_port[k] = c
  BY Zenon DEF Listed
<1>2. at # {}
  BY <1>1, Zenon
<1>3. at \subseteq Nat /\ at \subseteq 1..Len(head_port)
  BY DEF MInv, MTyped
<1>4. \E k \in at : \A l \in at : k <= l
  BY <1>2, <1>3, Least, Zenon
<1> DEFINE k == CHOOSE k \in at : \A l \in at : k <= l
<1>5. k \in at
  BY <1>4, Zenon
<1>6. find_connection_in(index[c]) = head_port[k]
  BY <1>2, Zenon DEF find_connection_in
<1>7. head_port[k] \in Listed /\ index[head_port[k]] = index[c]
  BY <1>5, Zenon DEF Listed
<1> QED
  BY <1>6, <1>7, Zenon DEF Distinct

LEMMA GoodEnded ==
    ASSUME NEW p \in Record, NEW r, NEW on, NEW off, NEW right,
           r = "ok" \/ (r = "ENODEV" /\ p.op = "write" /\ p.gone)
    PROVE  Good(Ended(p, r), on, off, right)
  BY Zenon DEF Ended, Rested, Good

LEMMA GoodTry ==
    ASSUME NEW o, NEW c, NEW g, NEW on, NEW off, NEW right
    PROVE  Good([Rested EXCEPT !.pc = "try", !.op = o, !.sel = c, !.gone = g], on, off, right)
  BY DEF Rested, Good

\* ReCheckPresence has set a bus master that answers: it is not the one of the
\* first try, so there is a second try on it, or the write starts anew there.
LEMMA GoodRechecked ==
    ASSUME MInv, Distinct, NEW p \in Record, p.first \in Off \cup {None}, p.depth = 0,
           NEW c \in On, NEW right
    PROVE  Good(Rechecked(p, c), On, Off, right)
<1> DEFINE q == [Rested EXCEPT !.op = p.op, !.sel = c, !.gone = p.gone]
           a == [q EXCEPT !.pc = "second"]
           b == [q EXCEPT !.pc = "try", !.depth = 1]
<1>1. ~(c # None /\ p.first # None /\ index[p.first] = index[c])
  BY OnListed, Zenon DEF Distinct
<1>2. p.depth + 1 = 1
  OBVIOUS
<1>3. Rechecked(p, c) = a \/ Rechecked(p, c) = b
  BY <1>1, <1>2, Zenon DEF Rechecked
<1>4. a.pc = "second" /\ a.sel = c /\ a.hit = {} /\ a.found = {}
  BY Zenon DEF Rested
<1>5. b.pc = "try" /\ b.sel = c /\ b.hit = {} /\ b.found = {} /\ b.depth = 1
  BY Zenon DEF Rested
<1> HIDE DEF a, b
<1>6. Good(a, On, Off, right)
  BY <1>4, Zenon DEF Good
<1>7. Good(b, On, Off, right)
  BY <1>5, Zenon DEF Good
<1> QED
  BY <1>3, <1>6, <1>7, Zenon

LEMMA GoodLocated ==
    ASSUME MInv, QInv, Distinct, NEW q \in Query, NEW p \in Record, NEW c \in Listed \cup {None},
           p.first \in Off \cup {None}, p.depth = 0, p.again => c \in On,
           ~p.again /\ c = None => p.gone, Located(q, p, c), NEW right
    PROVE  Good(pn'[q], On, Off, right)
<1>1. \A r : Set(q, r) => pn'[q] = r
  BY Zenon DEF Set, QInv
<1>2. CASE p.again
  <2>1. pn'[q] = Rechecked(p, c)
    BY <1>1, <1>2, Zenon DEF Located
  <2> QED
    BY <1>2, <2>1, GoodRechecked, Zenon
<1>3. CASE ~p.again
  <2>1. PICK o \in {"read", "write"} :
          pn'[q] = IF o = "write" /\ c = None
                   THEN Ended([p EXCEPT !.op = o], "ENODEV")
                   ELSE [Rested EXCEPT !.pc = "try", !.op = o, !.sel = c, !.gone = p.gone]
    BY <1>1, <1>3, Zenon DEF Located, Ops
  <2>2. CASE o = "write" /\ c = None
    <3>1. [p EXCEPT !.op = "write"] \in Record /\ [p EXCEPT !.op = "write"].op = "write"
          /\ [p EXCEPT !.op = "write"].gone = p.gone
      BY Zenon DEF Record
    <3> QED
      BY <1>3, <2>1, <2>2, <3>1, GoodEnded, Zenon
  <2>3. CASE ~(o = "write" /\ c = None)
    <3> DEFINE b == [Rested EXCEPT !.pc = "try", !.op = o, !.sel = c, !.gone = p.gone]
    <3>1. pn'[q] = b
      BY <2>1, <2>3, Zenon
    <3>2. Good(b, On, Off, right)
      BY GoodTry, Zenon
    <3> HIDE DEF b
    <3> QED
      BY <3>1, <3>2, Zenon
  <2> QED
    BY <2>2, <2>3, Zenon
<1> QED
  BY <1>2, <1>3, Zenon

-----------------------------------------------------------------------------
\* A query takes a step.  The others keep what they have, and so does the
\* list; a location is cached only if it is right, or if it misleads nobody
\* who is sure to succeed.
LEMMA AskFinds ==
    ASSUME MInv, QInv, FInv, NEW q \in Query, \A p \in Query \ {q} : pn'[p] = pn[p],
           UNCHANGED <<kernel, list, where>>, steady' \in [Query -> BOOLEAN],
           \A p \in Query : Sure(p)' => Sure(p),
           Sure(q)' => Good(pn'[q], On, Off, Right'),
           \A p \in Query : Sure(p)' /\ Deleted(p) /\ Right => Right'
    PROVE  FInv'
<1>1. Listed' = Listed /\ On' = On /\ Off' = Off /\ Distinct' = Distinct
  <2>1. UNCHANGED <<head_port, id, index>>
    BY Zenon DEF list
  <2>2. Listed' = Listed
    BY <2>1, Zenon DEF Listed
  <2>3. On' = On
    BY <2>1, <2>2, Zenon DEF On, Answers
  <2> QED
    BY <2>1, <2>2, <2>3, Zenon DEF Off, Distinct
<1>2. ASSUME NEW p \in Query, Sure(p)' PROVE Distinct /\ On # {} /\ Good(pn'[p], On, Off, Right')
  <2>1. /\ Distinct /\ On # {} /\ Good(pn[p], On, Off, Right)
        /\ Deleted(p) /\ Right => Right'
    BY <1>2, Zenon DEF FInv
  <2>2. CASE p = q
    BY <1>2, <2>1, <2>2, Zenon
  <2>3. CASE p # q
    <3>1. pn'[p] = pn[p]
      BY <2>3, Zenon
    <3>2. Good(pn[p], On, Off, Right')
      BY <2>1, Zenon DEF Good, Deleted
    <3> QED
      BY <2>1, <3>1, <3>2, Zenon
  <2> QED
    BY <2>2, <2>3, Zenon
<1> QED
  BY <1>1, <1>2, Zenon DEF FInv

\* Caching the number of a bus master: a query that has deleted the location
\* and is not misled finds the right one.
LEMMA CachedSure ==
    ASSUME MInv, FInv, NEW c \in Listed, Cached(c), UNCHANGED <<kernel, list, where>>
    PROVE  /\ steady' \in [Query -> BOOLEAN]
           /\ \A p \in Query : Sure(p)' => Sure(p) /\ (Deleted(p) => Right')
<1>1. /\ steady' = steady /\ loc' = index[c]
      /\ misled' = misled \cup {q \in Query : Deleted(q) /\ ~Answers(c)}
  BY Zenon DEF Cached
<1>2. Listed' = Listed /\ index' = index /\ (Answers(c) => Answers(c)')
  BY Zenon DEF Listed, list, Answers
<1>3. Answers(c) => c \in On'
  BY <1>2, Zenon DEF On
<1>4. Answers(c) => Right'
  BY <1>1, <1>2, <1>3, Zenon DEF Right
<1>5. ASSUME NEW p \in Query, Sure(p)' PROVE Sure(p) /\ (Deleted(p) => Answers(c))
  BY <1>1, <1>5, Zenon DEF Sure
<1>6. steady' \in [Query -> BOOLEAN]
  BY <1>1, Zenon DEF FInv
<1> QED
  BY <1>4, <1>5, <1>6, Zenon

\* The location stays as it is.
LEMMA RightStays ==
    ASSUME UNCHANGED <<kernel, list, where, loc>> PROVE Right' <=> Right
<1>1. Listed' = Listed /\ index' = index /\ On' = On
  BY Zenon DEF Listed, list, Answers, On
<1> QED
  BY <1>1, Zenon DEF Right

\* No fault, or one of the query's own.
LEMMA SmoothOrFault ==
    ASSUME FInv, NEW q \in Query, Smooth \/ Fault(q)
    PROVE  /\ steady' \in [Query -> BOOLEAN] /\ \A p \in Query : Sure(p)' => Sure(p)
           /\ Sure(q)' => Smooth
  BY Zenon DEF FInv, Sure, Smooth, Fault

-----------------------------------------------------------------------------
\* Setting the query's record leaves the others'.
LEMMA SetOne ==
    ASSUME QInv, NEW q \in Query, NEW r, Set(q, r)
    PROVE  pn'[q] = r /\ \A p \in Query \ {q} : pn'[p] = pn[p]
  BY Zenon DEF QInv, Set

LEMMA LocatedOne ==
    ASSUME QInv, NEW q \in Query, NEW p, NEW c, Located(q, p, c)
    PROVE  \A o \in Query \ {q} : pn'[o] = pn[o]
  BY SetOne, Zenon DEF Located

LEMMA ParseFinds ==
    ASSUME MInv, QInv, FInv, NEW q \in Query, FS_ParsedName(q) PROVE FInv'
<1>1. UNCHANGED <<kernel, list, where, loc, misled>> /\ pn[q].pc = "idle"
  BY Zenon DEF FS_ParsedName
<1> DEFINE a == [Rested EXCEPT !.pc = "check"]
           b(o, c) == [Rested EXCEPT !.pc = "try", !.op = o, !.spec = TRUE, !.sel = c]
<1>3. /\ steady' \in [Query -> BOOLEAN]
      /\ \A p \in Query \ {q} : steady'[p] = steady[p] /\ pn'[p] = pn[p]
      /\ steady'[q] => ~raced /\ On # {} /\ Good(pn'[q], On, Off, Right)
  <2>1. CASE /\ Set(q, a)
             /\ steady' = [steady EXCEPT ![q] = ~raced /\ \E c \in Listed : Answers(c)]
    <3>1. /\ a.pc = "check" /\ a.hit = {} /\ a.found = {} /\ a.depth = 0 /\ a.spec = FALSE
          /\ a.first = None /\ a.again = FALSE
      BY Zenon DEF Rested
    <3>2. Good(a, On, Off, Right)
      BY <3>1, Zenon DEF Good
    <3>3. (\E c \in Listed : Answers(c)) => On # {}
      BY Zenon DEF On
    <3> HIDE DEF a
    <3>4. pn'[q] = a /\ \A p \in Query \ {q} : pn'[p] = pn[p]
      BY <2>1, SetOne, Zenon
    <3>5. steady' \in [Query -> BOOLEAN] /\ (\A p \in Query \ {q} : steady'[p] = steady[p])
          /\ (steady'[q] <=> ~raced /\ \E c \in Listed : Answers(c))
      BY <2>1, Zenon DEF FInv
    <3> QED
      BY <3>2, <3>3, <3>4, <3>5, Zenon
  <2>2. ASSUME NEW o, NEW c \in Listed, Set(q, b(o, c)),
               steady' = [steady EXCEPT ![q] = ~raced /\ Answers(c)]
        PROVE  /\ steady' \in [Query -> BOOLEAN]
               /\ \A p \in Query \ {q} : steady'[p] = steady[p] /\ pn'[p] = pn[p]
               /\ steady'[q] => ~raced /\ On # {} /\ Good(pn'[q], On, Off, Right)
    <3>1. /\ b(o, c).pc = "try" /\ b(o, c).hit = {} /\ b(o, c).found = {}
          /\ b(o, c).depth = 0 /\ b(o, c).sel = c
      BY Zenon DEF Rested
    <3> HIDE DEF b
    <3>2. c \in On => Good(b(o, c), On, Off, Right)
      BY <3>1, Zenon DEF Good
    <3>3. Answers(c) => c \in On
      BY Zenon DEF On
    <3>4. pn'[q] = b(o, c) /\ \A p \in Query \ {q} : pn'[p] = pn[p]
      BY <2>2, SetOne, Zenon
    <3>5. steady' \in [Query -> BOOLEAN] /\ (\A p \in Query \ {q} : steady'[p] = steady[p])
          /\ (steady'[q] <=> ~raced /\ Answers(c))
      BY <2>2, Zenon DEF FInv
    <3> QED
      BY <3>2, <3>3, <3>4, <3>5, Zenon
  <2>3. \A c \in Listed : find_connection_in(index[c]) \in Listed
    BY Find, Zenon
  <2> QED
    BY <2>1, <2>2, <2>3, Zenon DEF FS_ParsedName
<1>5. Listed' = Listed /\ On' = On /\ Off' = Off /\ Distinct' = Distinct /\ Right' = Right
  <2>1. UNCHANGED <<head_port, id, index>>
    BY <1>1, Zenon DEF list
  <2>2. Listed' = Listed
    BY <2>1, Zenon DEF Listed
  <2>3. On' = On
    BY <1>1, <2>1, <2>2, Zenon DEF On, Answers
  <2> QED
    BY <1>1, <2>1, <2>2, <2>3, Zenon DEF Off, Distinct, Right
<1>6. ~raced => Distinct
  BY Zenon DEF MInv, Numbered, Owned, Distinct
<1>7. ASSUME NEW p \in Query, Sure(p)'
      PROVE  Distinct /\ On # {} /\ Good(pn'[p], On, Off, Right)
  <2>1. CASE p = q
    BY <1>3, <1>6, <1>7, <2>1, Zenon DEF Sure
  <2>2. CASE p # q
    <3>1. Sure(p) /\ pn'[p] = pn[p]
      BY <1>1, <1>3, <1>7, <2>2, Zenon DEF Sure
    <3> QED
      BY <3>1, Zenon DEF FInv
  <2> QED
    BY <2>1, <2>2, Zenon
<1> QED
  BY <1>3, <1>5, <1>7, Zenon DEF FInv

LEMMA CheckFinds ==
    ASSUME MInv, QInv, FInv, NEW q \in Query, CheckPresence(q) PROVE FInv'
<1>1. UNCHANGED <<kernel, list, where, loc, steady, misled>> /\ pn[q].pc = "check" /\ pn[q] \in Record
  BY Zenon DEF CheckPresence, Fixed, Keep, Smooth, QInv
<1>2. Right' <=> Right
  BY <1>1, RightStays, Zenon
<1>3. ASSUME Sure(q)
      PROVE  /\ Distinct /\ On # {} /\ pn[q].hit \cup pn[q].found \subseteq On
             /\ pn[q].depth = 0 /\ ~pn[q].spec /\ pn[q].first \in Off \cup {None}
             /\ pn[q].again => Right
  BY <1>1, <1>3, Zenon DEF FInv, Good
<1>6. steady' \in [Query -> BOOLEAN] /\ \A p \in Query : Sure(p)' <=> Sure(p)
  BY <1>1, Zenon DEF Sure, FInv
<1>4. CASE loc # NoBus
  <2> DEFINE c == find_connection_in(loc)
             p == [pn[q] EXCEPT !.gone = c = None]
  <2>1. Located(q, p, c)
    BY <1>4, Zenon DEF CheckPresence
  <2>2. p \in Record /\ p.again = pn[q].again /\ p.depth = pn[q].depth /\ p.first = pn[q].first
        /\ p.gone = (c = None)
    BY <1>1, Zenon DEF Record
  <2>3. ASSUME Sure(q), pn[q].again PROVE c \in On
    <3>1. PICK d \in On : index[d] = loc
      BY <1>3, <1>4, <2>3 DEF Right
    <3> QED
      BY <1>3, <2>3, <3>1, FindsIt, OnListed, Zenon
  <2>4. c \in Listed \cup {None}
    BY Find, Zenon
  <2> HIDE DEF c, p
  <2>5. Sure(q) => Good(pn'[q], On, Off, Right')
    BY <1>3, <2>1, <2>2, <2>3, <2>4, GoodLocated, Zenon
  <2>6. \A o \in Query \ {q} : pn'[o] = pn[o]
    BY <2>1, LocatedOne, Zenon
  <2> QED
    BY <1>1, <1>2, <1>6, <2>5, <2>6, AskFinds, Zenon
<1>5. CASE loc = NoBus
  <2> DEFINE r == [pn[q] EXCEPT !.pc = "scan", !.todo = Listed]
  <2>1. /\ r.pc = "scan" /\ r.todo = Listed /\ r.hit = pn[q].hit /\ r.found = pn[q].found
        /\ r.depth = pn[q].depth /\ r.spec = pn[q].spec /\ r.first = pn[q].first
    BY <1>1, Zenon DEF Record
  <2>2. Set(q, r)
    BY <1>5, Zenon DEF CheckPresence
  <2> HIDE DEF r
  <2>3. On \subseteq Listed
    BY Zenon DEF On
  <2>4. Sure(q) => Good(r, On, Off, Right')
    BY <1>3, <2>1, <2>3 DEF Good
  <2> QED
    BY <1>1, <1>2, <1>6, <2>2, <2>4, SetOne, AskFinds, Zenon
<1> QED
  BY <1>4, <1>5, Zenon

LEMMA ThisConnectionFinds ==
    ASSUME MInv, QInv, FInv, NEW q \in Query, CheckThisConnection(q) PROVE FInv'
<1>1. UNCHANGED <<kernel, list, where, loc>> /\ pn[q].pc = "scan" /\ pn[q] \in Record
      /\ pn[q].todo \subseteq Listed
  BY Zenon DEF CheckThisConnection, Fixed, Keep, QInv, Sound
<1>2. Right' <=> Right
  BY <1>1, RightStays, Zenon
<1> DEFINE a(c) == [pn[q] EXCEPT !.todo = pn[q].todo \ {c}, !.hit = pn[q].hit \cup {c}]
           b(c) == [pn[q] EXCEPT !.todo = pn[q].todo \ {c}]
<1>3. PICK c \in pn[q].todo :
        \/ Answers(c) /\ Set(q, a(c)) /\ Smooth
        \/ ~Answers(c) /\ Set(q, b(c)) /\ Smooth
        \/ Answers(c) /\ Set(q, b(c)) /\ Fault(q)
  BY Zenon DEF CheckThisConnection
<1>4. /\ a(c).pc = "scan" /\ a(c).todo = pn[q].todo \ {c} /\ a(c).hit = pn[q].hit \cup {c}
      /\ a(c).found = pn[q].found /\ a(c).depth = pn[q].depth /\ a(c).spec = pn[q].spec
      /\ a(c).first = pn[q].first
  BY <1>1, Zenon DEF Record
<1>5. /\ b(c).pc = "scan" /\ b(c).todo = pn[q].todo \ {c} /\ b(c).hit = pn[q].hit
      /\ b(c).found = pn[q].found /\ b(c).depth = pn[q].depth /\ b(c).spec = pn[q].spec
      /\ b(c).first = pn[q].first
  BY <1>1, Zenon DEF Record
<1> HIDE DEF a, b
<1>6. c \in On <=> Answers(c)
  BY <1>1, <1>3, Zenon DEF On
<1>7. /\ steady' \in [Query -> BOOLEAN] /\ \A p \in Query : Sure(p)' => Sure(p)
      /\ Sure(q)' => \/ Answers(c) /\ Set(q, a(c))
                     \/ ~Answers(c) /\ Set(q, b(c))
  <2>1. CASE Smooth
    <3>1. steady'[q] = steady[q] /\ (Fault(q) => ~steady'[q])
      BY <2>1, Zenon DEF Smooth, Fault, FInv
    <3>2. steady' \in [Query -> BOOLEAN] /\ \A p \in Query : Sure(p)' => Sure(p)
      BY <2>1, SmoothOrFault, Zenon
    <3> QED
      BY <1>3, <3>1, <3>2, Zenon DEF Sure
  <2>2. CASE Fault(q)
    <3>1. ~steady'[q]
      BY <2>2, Zenon DEF Fault, FInv
    <3> QED
      BY <2>2, <3>1, SmoothOrFault, Zenon DEF Sure
  <2> QED
    BY <1>3, <2>1, <2>2, Zenon
<1>8. ASSUME Sure(q)' PROVE Good(pn'[q], On, Off, Right')
  <2>1. Good(pn[q], On, Off, Right)
    BY <1>7, <1>8, Zenon DEF FInv
  <2>2. CASE Answers(c) /\ Set(q, a(c))
    <3>1. Good(a(c), On, Off, Right')
      BY <1>1, <1>4, <1>6, <2>1, <2>2, Zenon DEF Good
    <3> QED
      BY <2>2, <3>1, SetOne, Zenon
  <2>3. CASE ~Answers(c) /\ Set(q, b(c))
    <3>1. Good(b(c), On, Off, Right')
      BY <1>1, <1>5, <1>6, <2>1, <2>3, Zenon DEF Good
    <3> QED
      BY <2>3, <3>1, SetOne, Zenon
  <2> QED
    BY <1>7, <1>8, <2>2, <2>3, Zenon
<1>9. \A p \in Query \ {q} : pn'[p] = pn[p]
  BY <1>3, SetOne, Zenon
<1> QED
  BY <1>1, <1>2, <1>7, <1>8, <1>9, AskFinds, Zenon

LEMMA FoundHereFinds ==
    ASSUME MInv, QInv, FInv, NEW q \in Query, FoundHere(q) PROVE FInv'
<1>1. UNCHANGED <<kernel, list, where>> /\ pn[q].pc = "scan" /\ pn[q] \in Record
      /\ pn[q].hit \subseteq Listed
  BY Zenon DEF FoundHere, Fixed, Keep, QInv, Sound
<1> DEFINE a(c) == [pn[q] EXCEPT !.hit = pn[q].hit \ {c}, !.found = pn[q].found \cup {c}]
<1>2. PICK c \in pn[q].hit : Cached(c) /\ Set(q, a(c))
  BY Zenon DEF FoundHere
<1>3. /\ a(c).pc = "scan" /\ a(c).hit = pn[q].hit \ {c} /\ a(c).found = pn[q].found \cup {c}
      /\ a(c).todo = pn[q].todo /\ a(c).depth = pn[q].depth /\ a(c).spec = pn[q].spec
      /\ a(c).first = pn[q].first
  BY <1>1, Zenon DEF Record
<1> HIDE DEF a
<1>4. /\ steady' \in [Query -> BOOLEAN]
      /\ \A p \in Query : Sure(p)' => Sure(p) /\ (Deleted(p) => Right')
  BY <1>1, <1>2, CachedSure, Zenon
<1>5. ASSUME Sure(q)' PROVE Good(a(c), On, Off, Right')
  <2>1. Good(pn[q], On, Off, Right)
    BY <1>4, <1>5, Zenon DEF FInv
  <2>2. c \in On
    BY <1>2, <2>1, Zenon DEF Good
  <2> QED
    BY <1>1, <1>3, <2>1, <2>2, Zenon DEF Good
<1> QED
  BY <1>1, <1>2, <1>4, <1>5, SetOne, AskFinds, Zenon

LEMMA LowFinds ==
    ASSUME MInv, QInv, FInv, NEW q \in Query, CheckPresence_low(q) PROVE FInv'
<1>1. UNCHANGED <<kernel, list, where>> /\ pn[q].pc = "scan" /\ pn[q] \in Record
      /\ pn[q].todo = {} /\ pn[q].hit = {} /\ pn[q].found \subseteq Listed
  <2>1. Fixed /\ pn[q].pc = "scan" /\ pn[q].todo = {} /\ pn[q].hit = {}
    BY Zenon DEF CheckPresence_low
  <2> QED
    BY <2>1, Zenon DEF Fixed, Keep, QInv, Sound
<1>2. ASSUME Sure(q)
      PROVE  /\ Distinct /\ pn[q].found \subseteq On /\ (\E c \in On : c \in pn[q].found)
             /\ pn[q].depth = 0 /\ pn[q].first \in Off \cup {None}
  BY <1>1, <1>2, Zenon DEF FInv, Good
<1> DEFINE at == {k \in 1..Len(head_port) : head_port[k] \in pn[q].found}
           c == head_port[CHOOSE k \in at : \A l \in at : l <= k]
<1>3. CASE at = {}
  <2>1. Set(q, Ended(pn[q], "ENOENT")) /\ UNCHANGED <<loc, steady, misled>>
    BY <1>3, Zenon DEF CheckPresence_low
  <2>2. ~Sure(q)
    <3> SUFFICES ASSUME Sure(q) PROVE FALSE
      BY Zenon
    <3>1. PICK d \in Listed : d \in pn[q].found
      BY <1>1, <1>2, Zenon
    <3>2. PICK k \in 1..Len(head_port) : d = head_port[k]
      BY Zenon DEF Listed
    <3> QED
      BY <1>3, <3>1, <3>2, Zenon
  <2>3. Right' <=> Right
    BY <1>1, <2>1, RightStays, Zenon
  <2>4. steady' \in [Query -> BOOLEAN] /\ \A p \in Query : Sure(p)' <=> Sure(p)
    BY <2>1, Zenon DEF Sure, FInv
  <2> QED
    BY <1>1, <2>1, <2>2, <2>3, <2>4, SetOne, AskFinds, Zenon
<1>4. CASE at # {}
  <2>1. Cached(c) /\ Located(q, pn[q], find_connection_in(index[c]))
    BY <1>4, Zenon DEF CheckPresence_low
  <2>2. \E k \in at : \A l \in at : l <= k
    <3>1. Len(head_port) \in Nat
      BY DEF MInv, MTyped
    <3> QED
      BY <1>4, <3>1, Last, ZenonT(30)
  <2>3. c \in pn[q].found /\ c \in Listed
    BY <1>1, <2>2, Zenon
  <2> HIDE DEF c
  <2>4. /\ steady' \in [Query -> BOOLEAN]
        /\ \A p \in Query : Sure(p)' => Sure(p) /\ (Deleted(p) => Right')
    BY <1>1, <2>1, <2>3, CachedSure
  <2>5. ASSUME Sure(q)' PROVE Good(pn'[q], On, Off, Right')
    <3>1. Distinct /\ c \in On /\ pn[q].depth = 0 /\ pn[q].first \in Off \cup {None}
      BY <1>2, <2>3, <2>4, <2>5, Zenon
    <3>2. Located(q, pn[q], c) /\ c # None
      <4>1. find_connection_in(index[c]) = c
        BY <2>3, <3>1, FindsIt, Zenon
      <4>2. c # None
        BY <2>3, OnListed, Zenon
      <4> QED
        BY <2>1, <4>1, <4>2, Zenon
    <3> QED
      BY <1>1, <2>3, <3>1, <3>2, GoodLocated, Zenon
  <2>6. \A o \in Query \ {q} : pn'[o] = pn[o]
    BY <2>1, LocatedOne, Zenon
  <2> QED
    BY <1>1, <2>4, <2>5, <2>6, AskFinds, Zenon
<1> QED
  BY <1>3, <1>4, Zenon

LEMMA RecheckFinds ==
    ASSUME MInv, QInv, FInv, NEW q \in Query, ReCheckPresence(q) PROVE FInv'
<1>1. UNCHANGED <<kernel, list, where, loc>> /\ pn[q].pc = "recheck" /\ pn[q] \in Record
      /\ pn[q].sel \in Listed \cup {None}
  BY Zenon DEF ReCheckPresence, Fixed, Keep, QInv, Sound, Record
<1>2. Right' <=> Right
  BY <1>1, RightStays, Zenon
<1> DEFINE c == IF pn[q].sel = None THEN None ELSE find_connection_in(index[pn[q].sel])
           r == [pn[q] EXCEPT !.pc = "recached"]
<1>3. PICK l \in {"known", "recached"} :
        /\ Set(q, [pn[q] EXCEPT !.pc = l])
        /\ \/ Answers(c) /\ l = "known" /\ Smooth
           \/ ~Answers(c) /\ l = "recached" /\ Smooth
           \/ Answers(c) /\ l = "recached" /\ Fault(q)
  BY Zenon DEF ReCheckPresence
<1> HIDE DEF c
<1>4. /\ steady' \in [Query -> BOOLEAN] /\ \A p \in Query : Sure(p)' => Sure(p)
      /\ Sure(q)' => Smooth
  BY <1>3, SmoothOrFault, Zenon
<1>5. ASSUME Sure(q)' PROVE Good(pn'[q], On, Off, Right')
  <2>1. Good(pn[q], On, Off, Right) /\ Distinct
    BY <1>4, <1>5, Zenon DEF FInv
  <2>2. pn[q].sel \notin On
    BY <1>1, <2>1, Zenon DEF Good
  <2>3. c = pn[q].sel /\ ~Answers(c)
    BY <1>1, <2>1, <2>2, FindsIt, OnListed, Zenon DEF c
  <2>4. ~Fault(q)
    BY <1>5, Zenon DEF Fault, Sure, FInv
  <2>5. Set(q, r)
    BY <1>3, <2>3, <2>4, Zenon
  <2>6. /\ r.pc = "recached" /\ r.hit = pn[q].hit /\ r.found = pn[q].found
        /\ r.depth = pn[q].depth /\ r.spec = pn[q].spec /\ r.first = pn[q].first
    BY <1>1, Zenon DEF Record
  <2> HIDE DEF r
  <2>7. Good(r, On, Off, Right')
    BY <1>1, <2>1, <2>6, Zenon DEF Good
  <2> QED
    BY <2>5, <2>7, SetOne
<1>6. \A p \in Query \ {q} : pn'[p] = pn[p]
  BY <1>3, SetOne, Zenon
<1> QED
  BY <1>1, <1>2, <1>4, <1>5, <1>6, AskFinds, Zenon

LEMMA RecachedFinds ==
    ASSUME MInv, QInv, FInv, NEW q \in Query, ReCheckCached(q) PROVE FInv'
<1>1. UNCHANGED <<kernel, list, where, loc>> /\ pn[q].pc = "recached" /\ pn[q] \in Record
  BY Zenon DEF ReCheckCached, Fixed, Keep, QInv
<1>2. Right' <=> Right
  BY <1>1, RightStays, Zenon
<1> DEFINE c == IF loc = NoBus THEN None ELSE find_connection_in(loc)
           a == [pn[q] EXCEPT !.pc = "cached", !.sel = c]
           b == [pn[q] EXCEPT !.pc = "del"]
<1>3. \/ Answers(c) /\ Set(q, a) /\ Smooth
      \/ Set(q, b) /\ (Smooth \/ Fault(q))
  BY Zenon DEF ReCheckCached
<1>4. c \in Listed \cup {None}
  BY Find, Zenon
<1>5. /\ a.pc = "cached" /\ a.sel = c /\ a.hit = pn[q].hit /\ a.found = pn[q].found
      /\ a.depth = pn[q].depth /\ a.spec = pn[q].spec /\ a.first = pn[q].first
  BY <1>1, <1>4, OnListed DEF Record
<1>6. /\ b.pc = "del" /\ b.hit = pn[q].hit /\ b.found = pn[q].found
      /\ b.depth = pn[q].depth /\ b.spec = pn[q].spec /\ b.first = pn[q].first
  BY <1>1, Zenon DEF Record
<1> HIDE DEF a, b, c
<1>7. /\ steady' \in [Query -> BOOLEAN] /\ \A p \in Query : Sure(p)' => Sure(p)
  BY <1>3, SmoothOrFault, Zenon
<1>8. ASSUME Sure(q)' PROVE Good(pn'[q], On, Off, Right')
  <2>1. Good(pn[q], On, Off, Right)
    BY <1>7, <1>8, Zenon DEF FInv
  <2>2. Answers(c) => Good(a, On, Off, Right')
    <3>1. Answers(c) => c \in On
      BY <1>4, OnListed, Zenon
    <3> QED
      BY <1>1, <1>5, <2>1, <3>1, Zenon DEF Good
  <2>3. Good(b, On, Off, Right')
    BY <1>1, <1>6, <2>1, Zenon DEF Good
  <2> QED
    BY <1>3, <2>2, <2>3, SetOne
<1>9. \A p \in Query \ {q} : pn'[p] = pn[p]
  BY <1>3, SetOne, Zenon
<1> QED
  BY <1>1, <1>2, <1>7, <1>8, <1>9, AskFinds, Zenon

LEMMA StillHereFinds ==
    ASSUME MInv, QInv, FInv, NEW q \in Query, StillHere(q) PROVE FInv'
<1>1. /\ UNCHANGED <<kernel, list, where>> /\ pn[q].pc \in {"known", "cached"}
      /\ Cached(pn[q].sel) /\ Set(q, Rechecked(pn[q], pn[q].sel))
  BY Zenon DEF StillHere, Fixed, Keep
<1>2. pn[q] \in Record /\ pn[q].sel \in Listed
  BY <1>1, ZenonT(30) DEF QInv, Sound
<1>3. /\ steady' \in [Query -> BOOLEAN]
      /\ \A p \in Query : Sure(p)' => Sure(p) /\ (Deleted(p) => Right')
  BY <1>1, <1>2, CachedSure, Zenon
<1>4. ASSUME Sure(q)' PROVE Good(Rechecked(pn[q], pn[q].sel), On, Off, Right')
  <2>1. Distinct /\ pn[q].depth = 0 /\ pn[q].first \in Off \cup {None} /\ pn[q].sel \in On
    BY <1>1, <1>3, <1>4, Zenon DEF FInv, Good
  <2> QED
    BY <1>2, <2>1, GoodRechecked
<1> QED
  BY <1>1, <1>3, <1>4, SetOne, AskFinds, Zenon

LEMMA ForgetFinds ==
    ASSUME MInv, QInv, FInv, NEW q \in Query, Cache_Del_Device(q) PROVE FInv'
<1> DEFINE r == [pn[q] EXCEPT !.pc = "check", !.sel = None, !.again = TRUE]
<1>1. /\ UNCHANGED <<kernel, list, where, steady, misled>> /\ loc' = NoBus /\ pn[q].pc = "del"
      /\ Set(q, r) /\ pn[q] \in Record
  BY Zenon DEF Cache_Del_Device, Fixed, Keep, Smooth, QInv
<1>2. Right'
  BY <1>1, Zenon DEF Right
<1>3. /\ r.pc = "check" /\ r.hit = pn[q].hit /\ r.found = pn[q].found
      /\ r.depth = pn[q].depth /\ r.spec = pn[q].spec /\ r.first = pn[q].first
  BY <1>1, Zenon DEF Record
<1> HIDE DEF r
<1>4. ASSUME Sure(q) PROVE Good(r, On, Off, Right')
  <2>1. Good(pn[q], On, Off, Right)
    BY <1>4, Zenon DEF FInv
  <2> QED
    BY <1>1, <1>2, <1>3, <2>1, Zenon DEF Good
<1>5. steady' \in [Query -> BOOLEAN] /\ \A p \in Query : Sure(p)' <=> Sure(p)
  BY <1>1, Zenon DEF Sure, FInv
<1> QED
  BY <1>1, <1>2, <1>4, <1>5, SetOne, AskFinds, Zenon

LEMMA TryFinds ==
    ASSUME MInv, QInv, FInv, NEW q \in Query, First(q) \/ TooManyChanges(q) \/ Further(q)
    PROVE  FInv'
<1>1. UNCHANGED <<kernel, list, where, loc>> /\ pn[q] \in Record
      /\ pn[q].pc \in {"try", "second", "third"}
  BY Zenon DEF First, TooManyChanges, Further, Fixed, Keep, QInv
<1>2. pn[q].sel \in Listed \cup {None} /\ (pn[q].sel \in On <=> Answers(pn[q].sel))
  BY OnListed, Zenon DEF QInv, Sound
<1>3. Right' <=> Right
  BY <1>1, RightStays, Zenon
<1>4. steady' \in [Query -> BOOLEAN] /\ \A p \in Query : Sure(p)' => Sure(p)
  <2>1. Smooth \/ Fault(q)
    BY Zenon DEF First, TooManyChanges, Further, Succeeds, GoesWrong
  <2> QED
    BY <2>1, SmoothOrFault, Zenon
<1>5. \A p \in Query \ {q} : pn'[p] = pn[p]
  BY SetOne, Zenon DEF First, TooManyChanges, Further
<1>6. ASSUME Sure(q)' PROVE Good(pn'[q], On, Off, Right')
  <2>1. Good(pn[q], On, Off, Right)
    BY <1>4, <1>6, Zenon DEF FInv
  <2>2. ~Fault(q)
    BY <1>6, Zenon DEF Fault, Sure, FInv
  <2>3. CASE Set(q, Ended(pn[q], "ok"))
    BY <1>1, <2>3, GoodEnded, SetOne, Zenon
  <2>4. CASE First(q) /\ ~Answers(pn[q].sel)
    <3> DEFINE r == [pn[q] EXCEPT !.pc = "recheck", !.first = pn[q].sel]
    <3>1. pn[q].pc = "try"
      BY <2>4, Zenon DEF First
    <3>2. pn[q].depth = 0 /\ ~pn[q].spec
      BY <1>2, <2>1, <2>4, <3>1, Zenon DEF Good
    <3>3. Set(q, r)
      BY <2>2, <2>4, <3>2, Zenon DEF First, Succeeds, GoesWrong
    <3>4. /\ r.pc = "recheck" /\ r.hit = pn[q].hit /\ r.found = pn[q].found
          /\ r.depth = pn[q].depth /\ r.spec = pn[q].spec /\ r.first = pn[q].sel
          /\ r.sel = pn[q].sel
      BY <1>1, Zenon DEF Record
    <3>5. pn[q].sel \in Off \cup {None} /\ pn[q].sel \notin On
      BY <1>2, <2>4, Zenon DEF Off
    <3> HIDE DEF r
    <3>6. Good(r, On, Off, Right')
      BY <2>1, <3>2, <3>4, <3>5, Zenon DEF Good
    <3> QED
      BY <3>3, <3>6, SetOne, Zenon
  <2>5. CASE First(q) /\ Answers(pn[q].sel)
    BY <2>2, <2>3, <2>5, Zenon DEF First, GoesWrong
  <2>6. CASE TooManyChanges(q)
    <3>1. pn[q].pc = "try" /\ pn[q].depth > 1
      BY <2>6, Zenon DEF TooManyChanges
    <3>2. pn[q].depth \in {0, 1}
      BY <2>1, <3>1, Zenon DEF Good
    <3>3. ~(0 > 1) /\ ~(1 > 1)
      OBVIOUS
    <3> QED
      BY <3>1, <3>2, <3>3, Zenon
  <2>7. CASE Further(q)
    <3>1. pn[q].pc \in {"second", "third"}
      BY <2>7, Zenon DEF Further
    <3>2. Answers(pn[q].sel)
      BY <1>2, <2>1, <3>1, Zenon DEF Good
    <3> QED
      BY <2>2, <2>3, <2>7, <3>2, Zenon DEF Further, GoesWrong
  <2> QED
    BY <2>4, <2>5, <2>6, <2>7
<1> QED
  BY <1>1, <1>3, <1>4, <1>5, <1>6, AskFinds, Zenon

LEMMA DestroyFinds ==
    ASSUME MInv, QInv, FInv, NEW q \in Query, FS_ParsedName_destroy(q) PROVE FInv'
<1>1. UNCHANGED <<kernel, list, where, loc>> /\ Set(q, Rested)
      /\ steady' = [steady EXCEPT ![q] = FALSE] /\ misled' = misled \ {q}
  BY Zenon DEF FS_ParsedName_destroy
<1>2. /\ steady' \in [Query -> BOOLEAN] /\ \A p \in Query : Sure(p)' => Sure(p)
      /\ ~Sure(q)'
  BY <1>1, Zenon DEF Sure, FInv
<1>3. Right' <=> Right
  BY <1>1, RightStays, Zenon
<1> QED
  BY <1>1, <1>2, <1>3, SetOne, AskFinds, Zenon

-----------------------------------------------------------------------------
\* The handlers leave the list alone while there is a query; a message on the
\* device's own master ends what the query may expect.
LEMMA HandlersFind ==
    ASSUME MInv, QInv, FInv, NEW h \in Handler, News(h) \/ Serve(h) PROVE FInv'
<1>1. UNCHANGED <<where, loc, pn, misled>> /\ (Handle(h) \/ Message(h))
  BY Zenon DEF News, Serve, lvars
<1>2. steady' \in [Query -> BOOLEAN]
      /\ \A q \in Query : Sure(q)' => Sure(q) /\ (where \in kernel <=> where \in kernel')
  <2>1. CASE Serve(h)
    <3>1. kernel' = kernel /\ steady' = steady
      BY <2>1, Zenon DEF Serve, lvars, Handle, AllocIn, CreateW1Port, Wlock, Add_InFlight,
         Del_InFlight, RemoveIn, RemovePort
    <3> QED
      BY <1>1, <3>1, Zenon DEF Sure, FInv
  <2>2. CASE News(h)
    BY <2>2, Zenon DEF News, Sure, FInv
  <2> QED
    BY <2>1, <2>2, Zenon
<1>3. ASSUME NEW q \in Query, Sure(q)' PROVE (Distinct /\ On # {} /\ Good(pn[q], On, Off, Right))'
  <2>1. Distinct /\ On # {} /\ Good(pn[q], On, Off, Right)
    BY <1>2, <1>3, Zenon DEF FInv
  <2>2. readers # {}
    BY <2>1, Zenon DEF Good, QInv
  <2>3. Listed' = Listed /\ \A c \in Listed : index'[c] = index[c] /\ id'[c] = id[c]
    BY <1>1, <2>2, ListStays, Zenon DEF QInv
  <2>4. \A c \in Listed : Answers(c)' <=> Answers(c)
    BY <1>1, <1>2, <1>3, <2>3, Zenon DEF Answers
  <2>5. On' = On
    BY <2>3, <2>4, Zenon DEF On
  <2>6. Off' = Off
    BY <2>3, <2>5, Zenon DEF Off
  <2>7. On \subseteq Listed
    BY Zenon DEF On
  <2>8. Distinct' /\ (Right' <=> Right)
    <3>1. Distinct'
      <4> SUFFICES ASSUME NEW c \in Listed', NEW d \in Listed', index'[c] = index'[d]
                   PROVE  c = d
        BY Zenon DEF Distinct
      <4>1. c \in Listed /\ d \in Listed /\ index[c] = index[d]
        BY <2>3, Zenon
      <4> QED
        BY <2>1, <4>1, Zenon DEF Distinct
    <3>2. \A c \in On : index'[c] = index[c]
      BY <2>3, <2>7, Zenon
    <3> QED
      BY <1>1, <2>5, <3>1, <3>2, Zenon DEF Right
  <2>9. Good(pn[q], On, Off, Right')
    BY <2>1, <2>8, Zenon DEF Good
  <2> QED
    BY <1>1, <2>1, <2>5, <2>6, <2>8, <2>9, Zenon
<1> QED
  BY <1>2, <1>3, Zenon DEF FInv

LEMMA EventsFind ==
    ASSUME MInv, QInv, FInv, Move \/ Expire \/ UNCHANGED vars PROVE FInv'
<1>1. CASE Move
  <2>1. steady' = [q \in Query |-> FALSE]
    BY <1>1, Zenon DEF Move
  <2> QED
    BY <2>1, Zenon DEF Sure, FInv
<1>2. CASE Expire \/ UNCHANGED vars
  <2>1. UNCHANGED <<kernel, list, where, pn, steady, misled>> /\ loc' \in {loc, NoBus}
    BY <1>2, Zenon DEF Expire, Keep, vars, mvars, lvars
  <2>2. Listed' = Listed /\ On' = On /\ Off' = Off /\ Distinct' = Distinct /\ (Right => Right')
    <3>1. UNCHANGED <<head_port, id, index>>
      BY <2>1, Zenon DEF list
    <3>2. Listed' = Listed
      BY <3>1, Zenon DEF Listed
    <3>3. On' = On
      BY <2>1, <3>1, <3>2 DEF On, Answers
    <3>4. Right => Right'
      BY <2>1, <3>1, <3>3 DEF Right
    <3> QED
      BY <3>1, <3>2, <3>3, <3>4 DEF Off, Distinct
  <2>3. ASSUME NEW q \in Query, Sure(q) PROVE Good(pn[q], On, Off, Right')
    BY <2>2, <2>3, Zenon DEF FInv, Good
  <2>4. \A q \in Query : Sure(q)' <=> Sure(q)
    BY <2>1, Zenon DEF Sure
  <2> QED
    BY <2>1, <2>2, <2>3, <2>4, Zenon DEF FInv
<1> QED
  BY <1>1, <1>2, Zenon

LEMMA FindsPreserved == MInv /\ QInv /\ FInv /\ [Next]_vars => FInv'
<1> SUFFICES ASSUME MInv, QInv, FInv, [Next]_vars PROVE FInv'
  BY Zenon
<1>1. ASSUME NEW q \in Query, Ask(q) PROVE FInv'
  BY <1>1, ParseFinds, CheckFinds, ThisConnectionFinds, FoundHereFinds, LowFinds, RecheckFinds,
     RecachedFinds, StillHereFinds, ForgetFinds, TryFinds, DestroyFinds, Zenon DEF Ask
<1> QED
  BY <1>1, HandlersFind, EventsFind, Zenon DEF Next, Halted

\* A device that stays where it is is found, whatever location the cache
\* holds at first and whatever the messages of the kernel do meanwhile, but
\* for two cases: a write whose cached location names a bus master that is
\* gone gives up with ENODEV, and a query may fail if another caches a wrong
\* location between its Cache_Del_Device and its second CheckPresence.  The
\* code: CheckPresence, ReCheckPresence, and the tries of FS_read_real and
\* FS_write_real.
THEOREM FindsHolds == Spec => []Finds
<1>1. Init => FInv
  BY Zenon DEF Init, FInv, Sure
<1>2. FInv => Finds
  BY Zenon DEF FInv, Sure, Good, Finds
<1>3. Spec => []QInv
  BY QueriesInitially, QueriesPreserved, MastersAlways, PTL DEF Spec
<1> QED
  BY <1>1, <1>2, <1>3, FindsPreserved, MastersAlways, PTL DEF Spec
=============================================================================
