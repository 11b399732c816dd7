---------------------------- MODULE CacheProofs ----------------------------
(* Proofs about the timed cache, for any number of keys and values, any      *)
(* timeouts, any size limit and a clock without end.                         *)
(*                                                                           *)
(* A lookup is right because of what each tree may hold for a key.  A node   *)
(* in the new tree is the latest one stored or has been killed.  A node in   *)
(* the old tree, if the new one has none, is the latest too, or was killed,  *)
(* or was deleted when the tree was beyond its time, where deleting does not *)
(* look: lookups go there only with a timeout above the lifespan.  All this  *)
(* holds while the timeout of the key is positive.  One that is zero has     *)
(* emptied the trees of its keys, and one that is negative cannot become     *)
(* positive without clearing the cache, since FS_w_timeout compares timeouts *)
(* as unsigned numbers.                                                      *)
EXTENDS Cache, FiniteSetTheorems, TLAPS

\* While no timeout changed under it, a node on its way into the cache bears
\* the time of expiry that the present timeout gives it.
AddingOK ==
    ~raced /\ adding # NoAdd =>
        /\ adding.node.there /\ adding.node.val \in Val
        /\ TimeOut(adding.key) > 0
        /\ adding.node.expires = adding.at + TimeOut(adding.key)

Latest(k, n) == n.val = last[k] /\ n.expires = until[k]

\* What the trees hold for a key whose kind is cached, against what was stored
\* under it last.
Holds(k) ==
    /\ last[k] # None \/ new[k].there \/ old[k].there => until[k] <= since[k] + TimeOut(k)
    /\ new[k].there =>
         \/ last[k] # None /\ Latest(k, new[k])
         \/ last[k] = None /\ new[k].expires < now
    /\ ~new[k].there /\ old[k].there =>
         \/ last[k] # None /\ Latest(k, old[k])
         \/ last[k] = None /\ old[k].expires < now
         \/ last[k] = None /\ time_to_kill <= now /\ old[k].expires = until[k]
    /\ last[k] # None /\ ~new[k].there => since[k] <= time_retired
    /\ last[k] # None /\ ~new[k].there /\ ~old[k].there =>
         until[k] < now \/ since[k] + Lifespan < now

KeyOK(k) ==
    /\ TimeOut(k) = 0 => ~new[k].there /\ ~old[k].there /\ last[k] = None
    /\ TimeOut(k) > 0 => Holds(k)

IInv == TypeOK /\ AddingOK /\ (Settled => \A k \in Key : KeyOK(k))

LEMMA NilFacts ==
    /\ Nil \in Node /\ Nil.there = FALSE
    /\ Empty \in [Key -> Node] /\ \A k \in Key : Empty[k] = Nil
  BY DEF Nil, Node, Empty

LEMMA NoAddFacts ==
    /\ NoAdd.key \notin Key
    /\ adding # NoAdd /\ TypeOK => adding \in [key : Key, node : Node, at : 0..now]
  BY KeyAssumption DEF NoAdd, TypeOK

\* Timeouts are integers of the type int.
LEMMA TimeoutInt ==
    ASSUME NEW t \in Timeout
    PROVE  t \in Int /\ IntMax \in Nat /\ t <= IntMax /\ t >= -(IntMax + 1)
<1>1. t \in -(IntMax + 1)..IntMax /\ IntMax \in Nat
  BY TimeAssumption
<1>. QED
  BY <1>1

LEMMA KindType ==
    ASSUME NEW k \in Key, NEW f \in [Kind -> Timeout]
    PROVE  KindOf[k] \in Kind /\ f[KindOf[k]] \in Timeout /\ f[KindOf[k]] \in Int
<1>1. KindOf[k] \in Kind /\ f[KindOf[k]] \in Timeout
  BY KeyAssumption
<1>. QED
  BY <1>1, TimeoutInt

LEMMA TimeOutType ==
    ASSUME TypeOK, NEW k \in Key
    PROVE  TimeOut(k) \in Int /\ KindOf[k] \in Kind
  BY KindType DEF TypeOK, TimeOut

LEMMA InitIInv == Init => IInv
<1>. SUFFICES ASSUME Init PROVE IInv
  OBVIOUS
<1>1. TypeOK
  <2>1. /\ new \in [Key -> Node] /\ old \in [Key -> Node]
        /\ new_ram \in Nat /\ old_ram \in Nat
        /\ now \in Nat /\ time_retired \in 0..now
        /\ time_to_kill = time_retired + Lifespan
    BY NilFacts, TimeAssumption DEF Init
  <2>2. /\ timeout \in [Kind -> Timeout]
        /\ adding = NoAdd /\ clearing \in BOOLEAN /\ raced \in BOOLEAN
    BY DEF Init
  <2>3. /\ last \in [Key -> Val \cup {None}] /\ since \in [Key -> 0..now]
        /\ until \in [Key -> Int]
    BY DEF Init
  <2>. QED
    BY <2>1, <2>2, <2>3 DEF TypeOK
<1>2. AddingOK
  BY DEF Init, AddingOK
<1>3. \A k \in Key : KeyOK(k)
  BY NilFacts DEF Init, KeyOK, Holds
<1>. QED
  BY <1>1, <1>2, <1>3 DEF IInv

LEMMA NewNodeIInv ==
    ASSUME IInv, NEW k \in Key, NEW v \in Val, NewNode(k, v)
    PROVE  IInv'
<1>. DEFINE n == [val |-> v, expires |-> now + TimeOut(k), there |-> TRUE]
<1>1. /\ n \in Node /\ adding' = [key |-> k, at |-> now, node |-> n]
      /\ TimeOut(k) > 0 /\ TimeOut(k) \in Int
      /\ UNCHANGED <<trees, now, timeout, clearing, history>>
  BY TimeOutType DEF NewNode, IInv, TypeOK, Node
<1>2. TypeOK'
  BY <1>1 DEF IInv, TypeOK, trees, history
<1>3. AddingOK'
  BY <1>1 DEF AddingOK, history, IInv, TypeOK, TimeOut
<1>4. Settled' => \A j \in Key : KeyOK(j)'
  BY <1>1 DEF IInv, KeyOK, Holds, Latest, TimeOut, Settled, trees, history
<1>. QED
  BY <1>2, <1>3, <1>4 DEF IInv

LEMMA TimeoutIInv ==
    ASSUME IInv, NEW c \in Kind, NEW t \in Timeout, FS_w_timeout(c, t)
    PROVE  IInv'
<1>1. /\ timeout' = [timeout EXCEPT ![c] = t]
      /\ clearing' = (clearing \/ Unsigned(timeout[c]) > Unsigned(t))
      /\ raced' = (raced \/ adding # NoAdd)
      /\ UNCHANGED <<trees, now, adding, last, since, until>>
  BY DEF FS_w_timeout
<1>2. TypeOK'
  BY <1>1 DEF IInv, TypeOK, trees
<1>3. AddingOK'
  BY <1>1 DEF AddingOK
<1>4. ASSUME Settled', NEW j \in Key
      PROVE  /\ Settled
             /\ \/ TimeOut(j)' < 0
                \/ TimeOut(j) >= 0 /\ TimeOut(j)' >= TimeOut(j)
  <2>1. /\ timeout \in [Kind -> Timeout] /\ KindOf[j] \in Kind
        /\ TimeOut(j) \in Int /\ TimeOut(j)' \in Int
        /\ TimeOut(j) = timeout[KindOf[j]] /\ TimeOut(j)' = timeout'[KindOf[j]]
    BY <1>2, KindType DEF IInv, TypeOK, TimeOut
  <2>2. ~clearing /\ ~raced /\ ~(Unsigned(timeout[c]) > Unsigned(t))
    BY <1>1, <1>4 DEF Settled
  <2>3. CASE KindOf[j] # c
    BY <1>1, <2>1, <2>2, <2>3 DEF Settled
  <2>4. CASE KindOf[j] = c
    <3>1. TimeOut(j) = timeout[c] /\ TimeOut(j)' = t /\ timeout[c] \in Timeout
      BY <1>1, <2>1, <2>4
    <3>2. /\ timeout[c] \in Int /\ t \in Int /\ IntMax \in Nat
          /\ timeout[c] <= IntMax /\ t <= IntMax
          /\ timeout[c] >= -(IntMax + 1) /\ t >= -(IntMax + 1)
      BY <3>1, TimeoutInt
    <3>3. t < 0 \/ (timeout[c] >= 0 /\ t >= timeout[c])
      BY <2>2, <3>2 DEF Unsigned
    <3>. QED
      BY <2>2, <3>1, <3>3 DEF Settled
  <2>. QED
    BY <2>3, <2>4
<1>5. ASSUME Settled', NEW j \in Key PROVE KeyOK(j)'
  <2>1. KeyOK(j) /\ TimeOut(j) \in Int /\ TimeOut(j)' \in Int
    BY <1>2, <1>4, <1>5, KindType DEF IInv, TypeOK, TimeOut
  <2>2. since[j] \in Nat /\ until[j] \in Int
    BY DEF IInv, TypeOK
  <2>3. CASE TimeOut(j)' < 0
    BY <2>1, <2>3 DEF KeyOK
  <2>4. CASE TimeOut(j) >= 0 /\ TimeOut(j)' >= TimeOut(j)
    <3>1. CASE TimeOut(j) = 0
      BY <1>1, <2>1, <3>1 DEF KeyOK, Holds, trees
    <3>2. CASE TimeOut(j) > 0
      BY <1>1, <2>1, <2>2, <2>4, <3>2 DEF KeyOK, Holds, Latest, trees
    <3>. QED
      BY <2>1, <2>4, <3>1, <3>2
  <2>. QED
    BY <1>4, <1>5, <2>3, <2>4
<1>. QED
  BY <1>2, <1>3, <1>5 DEF IInv

LEMMA ClearIInv == IInv /\ Cache_Clear => IInv'
<1>. SUFFICES ASSUME IInv, Cache_Clear PROVE IInv'
  OBVIOUS
<1>1. /\ new' = Empty /\ old' = Empty /\ new_ram' = 0 /\ old_ram' = 0
      /\ time_retired' = now /\ time_to_kill' = now + Lifespan
      /\ last' = [j \in Key |-> None] /\ raced' = (raced /\ adding # NoAdd)
      /\ clearing' = FALSE /\ UNCHANGED <<now, timeout, adding, since, until>>
  BY DEF Cache_Clear
<1>2. TypeOK'
  <2>1. /\ new' \in [Key -> Node] /\ old' \in [Key -> Node]
        /\ new_ram' \in Nat /\ old_ram' \in Nat
        /\ now' \in Nat /\ time_retired' \in 0..now'
        /\ time_to_kill' = time_retired' + Lifespan
    BY <1>1, NilFacts, TimeAssumption DEF IInv, TypeOK
  <2>2. last' \in [Key -> Val \cup {None}]
    BY <1>1
  <2>3. clearing' \in BOOLEAN /\ raced' \in BOOLEAN
    BY <1>1 DEF IInv, TypeOK
  <2>. QED
    BY <1>1, <2>1, <2>2, <2>3 DEF IInv, TypeOK
<1>3. AddingOK'
  BY <1>1 DEF IInv, AddingOK, TimeOut
<1>4. \A j \in Key : KeyOK(j)'
  BY <1>1, NilFacts DEF KeyOK, Holds
<1>. QED
  BY <1>2, <1>3, <1>4 DEF IInv

LEMMA TickIInv == IInv /\ Tick => IInv'
<1>. SUFFICES ASSUME IInv, Tick PROVE IInv'
  OBVIOUS
<1>1. now' = now + 1 /\ UNCHANGED <<trees, timeout, adding, clearing, history>>
  BY DEF Tick
<1>2. TypeOK'
  BY <1>1 DEF IInv, TypeOK, trees, history
<1>3. AddingOK'
  BY <1>1 DEF IInv, AddingOK, history, TimeOut
<1>4. ASSUME Settled', NEW j \in Key PROVE KeyOK(j)'
  <2>1. KeyOK(j)
    BY <1>1, <1>4 DEF IInv, Settled, history
  <2>2. /\ new[j].expires \in Int /\ old[j].expires \in Int
        /\ now \in Nat /\ time_to_kill \in Int /\ until[j] \in Int
        /\ since[j] \in Nat /\ Lifespan \in Int
    BY TimeAssumption DEF IInv, TypeOK, Node
  <2>. QED
    BY <1>1, <2>1, <2>2 DEF KeyOK, Holds, Latest, TimeOut, trees, history
<1>. QED
  BY <1>2, <1>3, <1>4 DEF IInv

LEMMA DelIInv ==
    ASSUME IInv, NEW k \in Key, NEW tried \in BOOLEAN, TimeOut(k) > 0 => tried,
           Cache_Del_Common(k, tried)
    PROVE  IInv'
<1>1. /\ new' = IF tried /\ new[k].there THEN Expire(new, k) ELSE new
      /\ old' = IF tried /\ InOld(k) THEN Expire(old, k) ELSE old
      /\ last' = [last EXCEPT ![k] = None]
      /\ UNCHANGED <<new_ram, old_ram, time_retired, time_to_kill>>
      /\ UNCHANGED <<now, timeout, adding, clearing, since, until, raced>>
  BY DEF Cache_Del_Common
<1>2. \A tree \in [Key -> Node] :
         /\ Expire(tree, k) \in [Key -> Node]
         /\ Expire(tree, k)[k].there = tree[k].there /\ Expire(tree, k)[k].expires = now - 1
         /\ \A j \in Key : j # k => Expire(tree, k)[j] = tree[j]
  <2>. SUFFICES ASSUME NEW tree \in [Key -> Node]
                PROVE  /\ Expire(tree, k) \in [Key -> Node]
                       /\ Expire(tree, k)[k].there = tree[k].there /\ Expire(tree, k)[k].expires = now - 1
                       /\ \A j \in Key : j # k => Expire(tree, k)[j] = tree[j]
    OBVIOUS
  <2>. DEFINE n == [tree[k] EXCEPT !.expires = now - 1]
  <2>1. Expire(tree, k) = [tree EXCEPT ![k] = n]
    BY DEF Expire
  <2>2. tree[k] \in Node /\ now - 1 \in Int
    BY DEF IInv, TypeOK
  <2>3. n \in Node /\ n.there = tree[k].there /\ n.expires = now - 1
    BY <2>2 DEF Node
  <2>. HIDE DEF n
  <2>. QED
    BY <2>1, <2>3
<1>3. new \in [Key -> Node] /\ old \in [Key -> Node] /\ now \in Nat /\ last \in [Key -> Val \cup {None}]
  BY DEF IInv, TypeOK
<1>4. TypeOK'
  <2>1. new' \in [Key -> Node] /\ old' \in [Key -> Node] /\ last' \in [Key -> Val \cup {None}]
    BY <1>1, <1>2, <1>3
  <2>. QED
    BY <1>1, <2>1 DEF IInv, TypeOK
<1>5. AddingOK'
  BY <1>1 DEF IInv, AddingOK, TimeOut
<1>6. ASSUME Settled', NEW j \in Key PROVE KeyOK(j)'
  <2>1. KeyOK(j) /\ KeyOK(k)
    BY <1>1, <1>6, SMTT(30) DEF IInv, Settled
  <2>2. CASE j # k
    <3>1. new'[j] = new[j] /\ old'[j] = old[j] /\ last'[j] = last[j]
      BY <1>1, <1>2, <1>3, <2>2
    <3>. QED
      BY <1>1, <2>1, <3>1 DEF KeyOK, Holds, Latest, TimeOut
  <2>3. CASE j = k
    <3>1. last'[k] = None /\ new'[k].there = new[k].there /\ old'[k].there = old[k].there
      BY <1>1, <1>2, <1>3
    <3>2. TimeOut(k) > 0 /\ new[k].there => new'[k].expires < now'
      BY <1>1, <1>2, <1>3
    <3>3. TimeOut(k) > 0 /\ ~new[k].there /\ old[k].there =>
              \/ old'[k].expires < now'
              \/ time_to_kill' <= now' /\ old'[k].expires = until'[k]
      <4>1. time_to_kill \in Int
        BY TimeAssumption DEF IInv, TypeOK
      <4>2. CASE time_to_kill > now
        BY <1>1, <1>2, <1>3, <4>2, SMTT(30) DEF InOld
      <4>3. CASE ~(time_to_kill > now)
        <5>1. old' = old
          BY <1>1, <4>3 DEF InOld
        <5>. QED
          BY <1>1, <1>3, <2>1, <4>1, <4>3, <5>1 DEF KeyOK, Holds, Latest
      <4>. QED
        BY <4>2, <4>3
    <3>4. TimeOut(k)' = TimeOut(k)
      BY <1>1 DEF TimeOut
    <3>5. TimeOut(k) = 0 => ~new[k].there /\ ~old[k].there
      BY <2>1, SMTT(30) DEF KeyOK
    <3>6. TimeOut(k) > 0 => (new[k].there \/ old[k].there => until'[k] <= since'[k] + TimeOut(k)')
      BY <1>1, <2>1, <3>4, SMTT(30) DEF KeyOK, Holds
    <3>. QED
      BY <2>3, <3>1, <3>2, <3>3, <3>4, <3>5, <3>6 DEF KeyOK, Holds
  <2>. QED
    BY <2>2, <2>3
<1>. QED
  BY <1>4, <1>5, <1>6 DEF IInv

\* What the flip that may come before an addition does to the keys: an entry
\* of the old tree is dropped after its time.
LEMMA FlipKeepsKey ==
    ASSUME IInv, NEW j \in Key, KeyOK(j), time_to_kill < now, FlipTree,
           ~new'[j].there, UNCHANGED <<now, timeout>>,
           last'[j] = last[j], since'[j] = since[j], until'[j] = until[j]
    PROVE  KeyOK(j)'
<1>1. /\ old'[j] = new[j] /\ time_retired' = now /\ time_to_kill' = now + Lifespan
      /\ TimeOut(j)' = TimeOut(j)
  BY DEF FlipTree, TimeOut
<1>2. /\ now \in Nat /\ time_retired \in Nat /\ TimeOut(j) \in Int
      /\ time_to_kill = time_retired + Lifespan /\ Lifespan \in Int
      /\ since[j] \in Nat /\ since[j] <= now /\ until[j] \in Int
      /\ new[j].expires \in Int /\ old[j].expires \in Int
  BY TimeAssumption, TimeOutType DEF IInv, TypeOK, Node
<1>3. TimeOut(j) > 0 /\ last[j] # None /\ ~new[j].there => since[j] + Lifespan < now
  BY <1>2, SMTT(30) DEF KeyOK, Holds
<1>4. TimeOut(j) > 0 => Holds(j)'
  BY <1>1, <1>2, <1>3 DEF KeyOK, Holds, Latest
<1>. QED
  BY <1>1, <1>4 DEF KeyOK

LEMMA AddIInv ==
    ASSUME IInv, NEW k \in Key, Cache_Add_Common(k)
    PROVE  IInv'
<1>. DEFINE n == adding.node
<1>1. /\ adding # NoAdd /\ adding.key = k
      /\ n \in Node /\ adding.at \in 0..now /\ adding' = NoAdd
      /\ UNCHANGED <<now, timeout, clearing, raced>>
  BY NoAddFacts DEF Cache_Add_Common, IInv
<1>2. PICK base \in {new, Empty}, baseRam \in Nat, oldRam \in Nat :
         /\ \/ /\ time_to_kill < now /\ FlipTree /\ base = Empty
            \/ /\ UNCHANGED <<old, old_ram, time_retired, time_to_kill>> /\ base = new
         /\ InsertIfRoom(k, adding, base, baseRam, oldRam)
  BY DEF Cache_Add_Common, IInv, TypeOK
<1>. DEFINE Refused == new' = base /\ new_ram' = baseRam /\ UNCHANGED <<last, since, until>>
            Inserted ==
                /\ new' = [base EXCEPT ![k] = n]
                /\ new_ram' = baseRam + (IF base[k].there THEN 0 ELSE 1)
                /\ last' = [last EXCEPT ![k] = n.val]
                /\ since' = [since EXCEPT ![k] = adding.at] /\ until' = [until EXCEPT ![k] = n.expires]
<1>3. Refused \/ Inserted
  BY <1>2 DEF InsertIfRoom, Insert, Stored
<1>4. base \in [Key -> Node]
  BY NilFacts DEF IInv, TypeOK
<1>. HIDE DEF n
<1>5. TypeOK'
  <2>1. n.val \in Val \cup {None} /\ n.expires \in Int
    BY <1>1 DEF Node
  <2>2. new' \in [Key -> Node] /\ new_ram' \in Nat
    BY <1>1, <1>3, <1>4
  <2>3. /\ last' \in [Key -> Val \cup {None}] /\ since' \in [Key -> 0..now'] /\ until' \in [Key -> Int]
    BY <1>1, <1>3, <2>1 DEF IInv, TypeOK
  <2>4. /\ old' \in [Key -> Node] /\ old_ram' \in Nat
        /\ time_retired' \in 0..now' /\ time_to_kill' = time_retired' + Lifespan
    BY <1>1, <1>2, TimeAssumption DEF FlipTree, IInv, TypeOK
  <2>. QED
    BY <1>1, <2>2, <2>3, <2>4 DEF IInv, TypeOK
<1>6. AddingOK'
  BY <1>1 DEF AddingOK
<1>7. ASSUME Settled', NEW j \in Key PROVE KeyOK(j)'
  <2>1. KeyOK(j) /\ ~raced
    BY <1>1, <1>7 DEF IInv, Settled
  <2>2. CASE j = k /\ Inserted
    <3>1. /\ new'[j] = n /\ last'[j] = n.val /\ since'[j] = adding.at /\ until'[j] = n.expires
      BY <1>4, <2>2 DEF IInv, TypeOK
    <3>2. /\ n.there /\ n.val \in Val /\ n.val # None /\ TimeOut(j) > 0
          /\ n.expires = adding.at + TimeOut(j)
      BY <1>1, <2>1, <2>2, KeyAssumption DEF IInv, AddingOK, n
    <3>3. adding.at \in Nat /\ TimeOut(j) \in Int /\ n.expires \in Int /\ TimeOut(j)' = TimeOut(j)
      BY <1>1, <3>2, TimeOutType DEF IInv, TypeOK, TimeOut
    <3>. QED
      BY <1>1, <3>1, <3>2, <3>3 DEF KeyOK, Holds, Latest
  <2>3. CASE j # k \/ Refused
    <3>1. new'[j] = base[j] /\ last'[j] = last[j] /\ since'[j] = since[j] /\ until'[j] = until[j]
      BY <1>3, <1>4, <2>3 DEF IInv, TypeOK
    <3>2. CASE time_to_kill < now /\ FlipTree /\ base = Empty
      <4>1. ~new'[j].there
        BY <3>1, <3>2, NilFacts, SMTT(30)
      <4>. QED
        BY <1>1, <2>1, <3>1, <3>2, <4>1, FlipKeepsKey
    <3>3. CASE UNCHANGED <<old, old_ram, time_retired, time_to_kill>> /\ base = new
      BY <1>1, <2>1, <3>1, <3>3 DEF KeyOK, Holds, Latest, TimeOut
    <3>. QED
      BY <1>2, <3>2, <3>3
  <2>. QED
    BY <1>3, <2>2, <2>3
<1>. QED
  BY <1>5, <1>6, <1>7 DEF IInv

LEMMA DeletesIInv ==
    ASSUME IInv,
           \/ \E k \in Key \ Internal : Cache_Del(k)
           \/ \E k \in Internal : Cache_Del_Internal(k)
    PROVE  IInv'
<1>1. ASSUME NEW k \in Key, Cache_Del(k) PROVE IInv'
  <2>. DEFINE called == k \in Dir \cup Simul \/ TimeOut(k) > 0
  <2>1. called \in BOOLEAN /\ (TimeOut(k) > 0 => called) /\ Cache_Del_Common(k, called)
    BY <1>1 DEF Cache_Del
  <2>. HIDE DEF called
  <2>. QED
    BY <2>1, DelIInv
<1>2. ASSUME NEW k \in Internal, Cache_Del_Internal(k) PROVE IInv'
  <2>. DEFINE d == Bare[k]
              called == TimeOut(k) > 0
  <2>1. d \in Simul /\ d \in Key /\ k \in Key
    BY <1>2, KeyAssumption DEF Cache_Del_Internal, Key
  <2>2. KindOf[d] = KindOf[k]
    BY <2>1, KeyAssumption
  <2>3. called \in BOOLEAN /\ (TimeOut(d) > 0 => called)
    BY <2>2 DEF TimeOut
  <2>4. Cache_Del_Common(d, called)
    BY <1>2 DEF Cache_Del_Internal
  <2>. HIDE DEF d, called
  <2>. QED
    BY <2>1, <2>3, <2>4, DelIInv
<1>. QED
  BY <1>1, <1>2

LEMMA NextIInv == IInv /\ [Next]_vars => IInv'
<1>. SUFFICES ASSUME IInv, [Next]_vars PROVE IInv'
  BY SMTT(30)
<1>1. CASE UNCHANGED vars
  BY <1>1 DEF vars, trees, history, IInv, TypeOK, AddingOK, Settled, KeyOK, Holds, Latest, TimeOut
<1>2. CASE Next
  BY <1>1, <1>2, NewNodeIInv, AddIInv, DeletesIInv, TimeoutIInv, ClearIInv, TickIInv DEF Next
<1>. QED
  BY <1>1, <1>2

LEMMA Invariance == Spec => []IInv
<1>. QED
  BY InitIInv, NextIInv, PTL DEF Spec

LEMMA LookupOK ==
    ASSUME IInv, Settled, NEW k \in Key
    PROVE  /\ \/ Get(k) \in {None, last[k]}
              \/ last[k] = None /\ TimeOut(k) > Lifespan /\ time_to_kill <= now
           /\ Get(k) # None => IF k \in Dir THEN now - since[k] <= TimeOut(k) ELSE now - since[k] < TimeOut(k)
           /\ last[k] # None /\ TimeOut(k) > 0 /\ now < until[k] /\ now <= since[k] + Lifespan
                  => Get(k) = last[k]
<1>1. KeyOK(k)
  BY DEF IInv
<1>2. /\ now \in Nat /\ time_retired \in Nat /\ TimeOut(k) \in Int
      /\ time_to_kill = time_retired + Lifespan /\ Lifespan \in Int
      /\ since[k] \in Nat /\ until[k] \in Int
      /\ new[k] \in Node /\ old[k] \in Node
  BY TimeAssumption, TimeOutType, SMTT(30) DEF IInv, TypeOK
<1>3. new[k].expires \in Int /\ old[k].expires \in Int /\ Nil.there = FALSE
  BY <1>2, NilFacts DEF Node
<1>4. CASE ~(TimeOut(k) > 0)
  BY <1>4 DEF Get
<1>5. CASE TimeOut(k) > 0 /\ new[k].there
  <2>1. Get(k) = IF Live(k, new[k]) THEN new[k].val ELSE None
    BY <1>5, Zenon DEF Get, Found
  <2>2. Live(k, new[k]) <=> IF k \in Dir THEN new[k].expires >= now ELSE new[k].expires > now
    BY <1>2, <1>3, <1>5 DEF Live
  <2>3. /\ until[k] <= since[k] + TimeOut(k)
        /\ \/ last[k] # None /\ new[k].val = last[k] /\ new[k].expires = until[k]
           \/ last[k] = None /\ new[k].expires < now
    BY <1>1, <1>5, Zenon DEF KeyOK, Holds, Latest
  <2>. QED
    BY <1>2, <1>3, <2>1, <2>2, <2>3
<1>6. CASE TimeOut(k) > 0 /\ ~new[k].there /\ old[k].there
  <2>. DEFINE reach == time_retired + TimeOut(k) > now
  <2>1. Get(k) = IF reach /\ Live(k, old[k]) THEN old[k].val ELSE None
    BY <1>3, <1>6, Zenon DEF Get, Found, Live
  <2>2. Live(k, old[k]) <=> IF k \in Dir THEN old[k].expires >= now ELSE old[k].expires > now
    BY <1>2, <1>3, <1>6 DEF Live
  <2>3. /\ until[k] <= since[k] + TimeOut(k)
        /\ last[k] # None => since[k] <= time_retired
        /\ \/ last[k] # None /\ old[k].val = last[k] /\ old[k].expires = until[k]
           \/ last[k] = None /\ old[k].expires < now
           \/ last[k] = None /\ time_to_kill <= now /\ old[k].expires = until[k]
    BY <1>1, <1>6, Zenon DEF KeyOK, Holds, Latest
  <2>. QED
    BY <1>2, <1>3, <2>1, <2>2, <2>3
<1>7. CASE TimeOut(k) > 0 /\ ~new[k].there /\ ~old[k].there
  <2>1. Get(k) = None
    BY <1>3, <1>7, Zenon DEF Get, Found, Live
  <2>2. last[k] # None => until[k] < now \/ since[k] + Lifespan < now
    BY <1>1, <1>7, Zenon DEF KeyOK, Holds
  <2>. QED
    BY <1>2, <2>1, <2>2
<1>. QED
  BY <1>4, <1>5, <1>6, <1>7

\* Type invariant of the cache.
THEOREM TypeCorrect == Spec => []TypeOK
<1>1. IInv => TypeOK
  BY DEF IInv
<1>. QED
  BY <1>1, Invariance, PTL

\* A lookup never gives a value that was replaced or cleared away, for any
\* keys, timeouts and size limit, however often the trees are flipped; nor one
\* that was deleted (with Cache_Del, Cache_Del_Device, Cache_Del_Dir or
\* Cache_Del_Simul), unless its timeout is longer than the lifespan of a retired
\* tree and the old tree has outlived that.
THEOREM LookupIsLatest == Spec => []GetLatest
<1>1. IInv => GetLatest
  BY LookupOK DEF GetLatest
<1>. QED
  BY <1>1, Invariance, PTL

\* A lookup never gives a value older than the timeout now set for its kind.
THEOREM LookupIsFresh == Spec => []GetFresh
<1>1. IInv => GetFresh
  BY LookupOK DEF GetFresh
<1>. QED
  BY <1>1, Invariance, PTL

\* A value that was accepted is found until it expires, or at least for the
\* lifespan of a retired tree.
THEOREM NothingLostEarly == Spec => []CachedItsTime
<1>1. IInv => CachedItsTime
  BY LookupOK DEF CachedItsTime
<1>. QED
  BY <1>1, Invariance, PTL

-----------------------------------------------------------------------------
(* The sizes of the trees *)

Nodes(tree) == {k \in Key : tree[k].there}

\* Sizes are exact, the trees finite, and what is added is a node.
RamInv ==
    /\ RamExact
    /\ IsFiniteSet(Nodes(new)) /\ IsFiniteSet(Nodes(old))
    /\ adding # NoAdd => adding.node.there

LEMMA EmptyTree == Nodes(Empty) = {} /\ IsFiniteSet({}) /\ Cardinality({}) = 0
<1>1. Nodes(Empty) = {}
  BY NilFacts DEF Nodes
<1>. QED
  BY <1>1, FS_EmptySet

\* tsearch makes a tree larger by one, unless the key is there already.
LEMMA TreeGrows ==
    ASSUME NEW tree \in [Key -> Node], NEW k \in Key, NEW n \in Node, n.there, IsFiniteSet(Nodes(tree))
    PROVE  /\ IsFiniteSet(Nodes([tree EXCEPT ![k] = n]))
           /\ Cardinality(Nodes([tree EXCEPT ![k] = n]))
                = Cardinality(Nodes(tree)) + (IF tree[k].there THEN 0 ELSE 1)
<1>1. Nodes([tree EXCEPT ![k] = n]) = Nodes(tree) \cup {k}
  BY DEF Nodes
<1>2. k \in Nodes(tree) <=> tree[k].there
  BY DEF Nodes
<1>3. /\ IsFiniteSet(Nodes(tree) \cup {k})
      /\ Cardinality(Nodes(tree) \cup {k})
           = IF k \in Nodes(tree) THEN Cardinality(Nodes(tree)) ELSE Cardinality(Nodes(tree)) + 1
  BY FS_AddElement
<1>4. Cardinality(Nodes(tree)) \in Nat
  BY FS_CardinalityType
<1>. DEFINE larger == [tree EXCEPT ![k] = n]
            grown == IF tree[k].there THEN 0 ELSE 1
<1>5. /\ tree[k].there => grown = 0 /\ Cardinality(Nodes(tree) \cup {k}) = Cardinality(Nodes(tree))
      /\ ~tree[k].there => grown = 1 /\ Cardinality(Nodes(tree) \cup {k}) = Cardinality(Nodes(tree)) + 1
  BY <1>2, <1>3
<1>6. Nodes(larger) = Nodes(tree) \cup {k}
  BY <1>1
<1>. HIDE DEF larger, grown
<1>7. Cardinality(Nodes(larger)) = Cardinality(Nodes(tree)) + grown
  BY <1>4, <1>5, <1>6
<1>8. IsFiniteSet(Nodes(larger))
  BY <1>3, <1>6
<1>. QED
  BY <1>7, <1>8 DEF larger, grown

\* A tree keeps its size when a node of it is made expired.
LEMMA ExpireKeeps ==
    ASSUME NEW tree \in [Key -> Node], NEW k \in Key
    PROVE  Nodes(Expire(tree, k)) = Nodes(tree)
<1>1. \A j \in Key : Expire(tree, k)[j].there = tree[j].there
  BY DEF Expire, Node
<1>. QED
  BY <1>1 DEF Nodes

LEMMA AddRam ==
    ASSUME IInv, RamInv, NEW k \in Key, Cache_Add_Common(k)
    PROVE  RamInv'
<1>. DEFINE n == adding.node
<1>1. adding # NoAdd /\ adding.key = k /\ n \in Node /\ n.there /\ adding' = NoAdd
  BY NoAddFacts DEF Cache_Add_Common, IInv, RamInv
<1>2. PICK base \in {new, Empty}, baseRam \in Nat, oldRam \in Nat :
         /\ \/ FlipTree /\ base = Empty /\ baseRam = 0
            \/ UNCHANGED <<old, old_ram>> /\ base = new /\ baseRam = new_ram
         /\ InsertIfRoom(k, adding, base, baseRam, oldRam)
  BY DEF Cache_Add_Common, IInv, TypeOK
<1>3. base \in [Key -> Node] /\ IsFiniteSet(Nodes(base)) /\ baseRam = Cardinality(Nodes(base))
  BY <1>2, NilFacts, EmptyTree DEF IInv, TypeOK, RamInv, RamExact, Nodes
<1>4. \/ new' = base /\ new_ram' = baseRam
      \/ /\ new' = [base EXCEPT ![k] = n]
         /\ new_ram' = baseRam + (IF base[k].there THEN 0 ELSE 1)
  BY <1>2 DEF InsertIfRoom, Insert
<1>. HIDE DEF n
<1>5. IsFiniteSet(Nodes(new')) /\ new_ram' = Cardinality(Nodes(new'))
  <2>1. CASE new' = base /\ new_ram' = baseRam
    BY <1>3, <2>1
  <2>2. CASE /\ new' = [base EXCEPT ![k] = n]
             /\ new_ram' = baseRam + (IF base[k].there THEN 0 ELSE 1)
    BY <1>1, <1>3, <2>2, TreeGrows
  <2>. QED
    BY <1>4, <2>1, <2>2
<1>6. IsFiniteSet(Nodes(old')) /\ old_ram' = Cardinality(Nodes(old'))
  <2>1. \/ old' = new /\ old_ram' = new_ram
        \/ old' = old /\ old_ram' = old_ram
    BY <1>2 DEF FlipTree
  <2>. QED
    BY <2>1 DEF RamInv, RamExact, Nodes
<1>. QED
  BY <1>1, <1>5, <1>6 DEF RamInv, RamExact, Nodes

LEMMA DelRam ==
    ASSUME IInv, RamInv, NEW k \in Key, NEW called, Cache_Del_Common(k, called)
    PROVE  RamInv'
<1>1. /\ new' \in {new, Expire(new, k)} /\ old' \in {old, Expire(old, k)}
      /\ UNCHANGED <<new_ram, old_ram, adding>>
  BY DEF Cache_Del_Common
<1>2. Nodes(new') = Nodes(new) /\ Nodes(old') = Nodes(old)
  BY <1>1, ExpireKeeps DEF IInv, TypeOK
<1>. QED
  BY <1>1, <1>2 DEF RamInv, RamExact, Nodes

LEMMA NextRam == IInv /\ RamInv /\ [Next]_vars => RamInv'
<1>. SUFFICES ASSUME IInv, RamInv, [Next]_vars PROVE RamInv'
  OBVIOUS
<1>1. ASSUME UNCHANGED trees, adding' = adding \/ adding'.node.there PROVE RamInv'
  BY <1>1 DEF RamInv, RamExact, Nodes, trees
<1>2. ASSUME NEW k \in Key, NEW v \in Val, NewNode(k, v) PROVE RamInv'
  BY <1>1, <1>2 DEF NewNode
<1>3. ASSUME NEW c \in Kind, NEW t \in Timeout, FS_w_timeout(c, t) PROVE RamInv'
  BY <1>1, <1>3, SMTT(30) DEF FS_w_timeout
<1>4. CASE Cache_Clear
  BY <1>4, EmptyTree DEF Cache_Clear, RamInv, RamExact, Nodes
<1>5. CASE Tick \/ UNCHANGED vars
  BY <1>1, <1>5 DEF Tick, vars
<1>6. ASSUME NEW k \in Key, Cache_Del(k) PROVE RamInv'
  BY <1>6, DelRam DEF Cache_Del
<1>7. ASSUME NEW k \in Internal, Cache_Del_Internal(k) PROVE RamInv'
  <2>1. Bare[k] # None => Bare[k] \in Key
    BY KeyAssumption DEF Key
  <2>. QED
    BY <1>7, <2>1, DelRam DEF Cache_Del_Internal
<1>. QED
  BY <1>2, <1>3, <1>4, <1>5, <1>6, <1>7, AddRam DEF Next

\* cache.new_ram_size and cache.old_ram_size are what Cache_Add_Common takes
\* them for, through flips, replacements, refusals, deletions and clearing.
THEOREM RamExactHolds == Spec => []RamExact
<1>1. Init => RamInv
  BY EmptyTree DEF Init, RamInv, RamExact, Nodes
<1>2. RamInv => RamExact
  BY DEF RamInv
<1>. QED
  BY <1>1, <1>2, NextRam, Invariance, PTL DEF Spec
=============================================================================
