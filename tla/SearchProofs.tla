---------------------------- MODULE SearchProofs ----------------------------
(* The search finds every device of a bus exactly once, for serial numbers   *)
(* of any length, any set of devices and any number of tries: the proof.     *)
(*                                                                           *)
(* Serial numbers are ordered by the first bit in which they differ.  Each   *)
(* pass of the search ends at the least number above the one before it.  A   *)
(* pass that fails leaves in sn what it has set, but it has set nothing in   *)
(* front of LastDiscrepancy, and that is all the next try looks at.          *)
EXTENDS Search, TLAPS

\* d and e have the same bits in front of bit n.
Agree(d, e, n) == \A j \in 0..(n - 1) : d[j] = e[j]

\* Of the devices S, one with the same bits as e in front of bit i has b there.
Branches(S, e, i, b) == \E d \in S : Agree(d, e, i) /\ d[i] = b

\* With LastDiscrepancy l the search has passed d: the path to d leaves that
\* of e towards zero in front of bit l, or has a zero at l.
Passed(d, e, l) ==
    \/ \E i \in 0..(l - 1) : Agree(d, e, i) /\ d[i] = 0 /\ e[i] = 1
    \/ Agree(d, e, l) /\ d[l] = 0

\* The devices that the caller has, or is about to get.
Got == IF status = "good" THEN found \cup {sn} ELSE found

\* While a pass runs some device follows all of it, so that the bits it has
\* set are never put together from two devices, even if devices go away.
Followed ==
    /\ status = "bits" =>
        /\ \E d \in active : Agree(d, sn, bit_number)
        /\ \A d \in active : Agree(d, sn, bit_number - 1)
        /\ bit_number > 0 => search_direction = sn[bit_number - 1]
    /\ status = "good" => sn \in orig

\* Between passes, LastDiscrepancy and the bits of sn in front of it tell the
\* devices found from the others, and there are some of both.
Progress ==
    /\ LastDevice => Got = orig
    /\ ~LastDevice /\ LastDiscrepancy = -1 => Got = {}
    /\ LastDiscrepancy >= 0 =>
        /\ Got = {d \in orig : Passed(d, sn, LastDiscrepancy)}
        /\ Branches(orig, sn, LastDiscrepancy, 0) /\ Branches(orig, sn, LastDiscrepancy, 1)
    /\ status = "done" => LastDevice
    /\ status = "good" => sn \notin found

\* In a pass, all devices behind the bits that were sent are active, and the
\* others differ in a first bit; behind LastDiscrepancy a one was sent only
\* where there was no zero; and last_zero is the last bit at which a zero was
\* sent where there was a one.
Pass ==
    status = "bits" =>
        /\ ~LastDevice
        /\ active = {d \in orig : Agree(d, sn, bit_number - 1)}
        /\ bit_number > LastDiscrepancy /\ LastDiscrepancy >= 0 => sn[LastDiscrepancy] = 1
        /\ \A d \in orig : \/ Agree(d, sn, bit_number)
                           \/ \E i \in 0..(bit_number - 1) : Agree(d, sn, i) /\ d[i] # sn[i]
        /\ \A i \in 0..(bit_number - 1) :
             i > LastDiscrepancy /\ sn[i] = 1 => ~Branches(orig, sn, i, 0)
        /\ last_zero < bit_number
        /\ last_zero >= 0 => sn[last_zero] = 0 /\ Branches(orig, sn, last_zero, 1)
        /\ \A i \in 0..(bit_number - 1) :
             sn[i] = 0 /\ Branches(orig, sn, i, 1) => i <= last_zero

IInv == TypeOK /\ Followed /\ (dev = orig => Progress /\ Pass)

-----------------------------------------------------------------------------
(* Setting a bit *)

\* Numbers with the same bits in front of bit n are the same to all that looks
\* at those bits only.
LEMMA Front ==
    ASSUME NEW e, NEW f, NEW n \in Nat, \A j \in 0..(n - 1) : f[j] = e[j],
           NEW m \in Int, m <= n
    PROVE  /\ \A d : Agree(d, f, m) <=> Agree(d, e, m)
           /\ \A S, c : Branches(S, f, m, c) <=> Branches(S, e, m, c)
           /\ \A d : Passed(d, f, m) <=> Passed(d, e, m)
<1>1. ASSUME NEW d, NEW i \in Int, i <= n PROVE Agree(d, f, i) <=> Agree(d, e, i)
  BY <1>1 DEF Agree
<1>2. \A S, c : Branches(S, f, m, c) <=> Branches(S, e, m, c)
  BY <1>1 DEF Branches
<1>3. ASSUME NEW d PROVE Passed(d, f, m) <=> Passed(d, e, m)
  <2>1. ASSUME NEW i \in 0..(m - 1) PROVE f[i] = e[i] /\ (Agree(d, f, i) <=> Agree(d, e, i))
    <3>1. i \in Int /\ i \in 0..(n - 1) /\ i <= n
      BY <2>1
    <3>. QED
      BY <1>1, <3>1
  <2>2. Agree(d, f, m) <=> Agree(d, e, m)
    BY <1>1
  <2>. QED
    BY <2>1, <2>2 DEF Passed
<1>. QED
  BY <1>1, <1>2, <1>3

LEMMA AgreeNext ==
    ASSUME NEW d, NEW e, NEW n \in Nat
    PROVE  Agree(d, e, n + 1) <=> Agree(d, e, n) /\ d[n] = e[n]
<1>1. 0..(n + 1 - 1) = 0..(n - 1) \cup {n}
  OBVIOUS
<1>. QED
  BY <1>1 DEF Agree

\* Numbers that agree in all bits are the same.
LEMMA AgreeAll ==
    ASSUME NEW d \in SN, NEW e \in SN, Agree(d, e, B)
    PROVE  d = e
<1>1. \A j \in 0..(B - 1) : d[j] = e[j]
  BY DEF Agree
<1>2. d = [j \in 0..(B - 1) |-> d[j]] /\ e = [j \in 0..(B - 1) |-> e[j]]
  BY DEF SN
<1>. QED
  BY <1>1, <1>2

-----------------------------------------------------------------------------
(* One bit of a pass *)

\* The master never sends a bit that none of the devices S has, and in front
\* of, at and behind LastDiscrepancy it sends what the search needs.
LEMMA Directed ==
    ASSUME TypeOK, bit_number < B, NEW S \in SUBSET SN, S # {}
    PROVE  /\ Direction(S) \in Bit
           /\ \E d \in S : d[bit_number] = Direction(S)
           /\ bit_number > LastDiscrepancy /\ Direction(S) = 1 => \A d \in S : d[bit_number] = 1
           /\ bit_number = LastDiscrepancy /\ (\E d \in S : d[bit_number] = 1) => Direction(S) = 1
           /\ bit_number < LastDiscrepancy /\ (\E d \in S : d[bit_number] = sn[bit_number])
                => Direction(S) = sn[bit_number]
<1>1. bit_number \in 0..(B - 1) /\ LastDiscrepancy \in Int
  BY SearchAssumption DEF TypeOK
<1>2. \A d \in S : d[bit_number] = 0 \/ d[bit_number] = 1
  BY <1>1 DEF SN, Bit
<1>3. sn[bit_number] = 0 \/ sn[bit_number] = 1
  BY <1>1 DEF TypeOK, SN, Bit
<1>4. CASE \A d \in S : d[bit_number] = 1
  BY <1>1, <1>4 DEF Direction, Bit
<1>5. CASE (\A d \in S : d[bit_number] = 0) /\ ~(\A d \in S : d[bit_number] = 1)
  BY <1>1, <1>5 DEF Direction, Bit
<1>6. CASE ~(\A d \in S : d[bit_number] = 0) /\ ~(\A d \in S : d[bit_number] = 1)
  <2>1. (\E d \in S : d[bit_number] = 0) /\ (\E d \in S : d[bit_number] = 1)
    BY <1>2, <1>6
  <2>2. Direction(S) = IF bit_number > LastDiscrepancy THEN 0
                       ELSE IF bit_number = LastDiscrepancy THEN 1 ELSE sn[bit_number]
    BY <1>6 DEF Direction
  <2>. QED
    BY <1>1, <1>3, <2>1, <2>2 DEF Bit
<1>. QED
  BY <1>4, <1>5, <1>6

\* The devices that follow have the bits that were sent; with none unplugged
\* they are all of those.
LEMMA FollowOK ==
    ASSUME TypeOK, Followed, status = "bits"
    PROVE  /\ Follow \subseteq orig /\ Follow \subseteq SN
           /\ \A d \in Follow : Agree(d, sn, bit_number)
           /\ dev = orig => \E d \in Follow : Agree(d, sn, bit_number)
           /\ dev = orig /\ Pass => Follow = {d \in orig : Agree(d, sn, bit_number)}
<1>1. CASE bit_number = 0
  <2>1. \A d : Agree(d, sn, 0) /\ Agree(d, sn, 0 - 1)
    BY DEF Agree
  <2>2. Follow = active \cap dev
    BY <1>1 DEF Follow
  <2>. QED
    BY <1>1, <2>1, <2>2 DEF TypeOK, Followed, Pass
<1>2. CASE bit_number # 0
  <2>1. bit_number \in Nat /\ bit_number > 0
    BY <1>2 DEF TypeOK
  <2>2. \A d : Agree(d, sn, bit_number) <=>
                   Agree(d, sn, bit_number - 1) /\ d[bit_number - 1] = search_direction
    <3>. TAKE d
    <3>1. Agree(d, sn, (bit_number - 1) + 1) <=>
              Agree(d, sn, bit_number - 1) /\ d[bit_number - 1] = sn[bit_number - 1]
      BY <2>1, AgreeNext
    <3>2. (bit_number - 1) + 1 = bit_number /\ search_direction = sn[bit_number - 1]
      BY <2>1 DEF Followed
    <3>. QED
      BY <3>1, <3>2
  <2>3. Follow = {d \in active \cap dev : d[bit_number - 1] = search_direction}
    BY <2>1 DEF Follow
  <2>. QED
    BY <2>2, <2>3 DEF TypeOK, Followed, Pass
<1>. QED
  BY <1>1, <1>2

LEMMA NextBitIInv == ASSUME IInv, NextBit PROVE IInv'
<1>. DEFINE n == bit_number
            S == Follow
            b == Direction(S)
<1>1. /\ status = "bits" /\ n \in Nat /\ n < B /\ n \in 0..(B - 1)
      /\ UNCHANGED <<dev, orig, LastDiscrepancy, try, found>>
      /\ LastDiscrepancy \in Int /\ last_zero \in Int
  BY SearchAssumption DEF NextBit, IInv, TypeOK
<1>2. /\ S \subseteq orig /\ S \subseteq SN
      /\ \A d \in S : Agree(d, sn, n)
      /\ dev = orig => S # {} /\ S = {d \in orig : Agree(d, sn, n)}
  BY <1>1, FollowOK DEF IInv
<1>3. CASE S = {}
  <2>1. /\ status' = "done" /\ LastDevice' = TRUE /\ PassOver /\ sn' = sn
    BY <1>3 DEF NextBit
  <2>2. TypeOK'
    BY <1>1, <2>1, SearchAssumption DEF IInv, TypeOK, PassOver, Bit
  <2>. QED
    BY <1>1, <1>2, <1>3, <2>1, <2>2 DEF IInv, Followed
<1>4. CASE S # {}
  <2>1. /\ search_direction' = b /\ sn' = [sn EXCEPT ![n] = b]
        /\ last_zero' = IF b = 0 /\ \E d \in S : d[n] = 1 THEN n ELSE last_zero
        /\ bit_number' = n + 1 /\ active' = S
        /\ UNCHANGED <<status, LastDevice>>
    BY <1>4 DEF NextBit
  <2>2. /\ b \in Bit
        /\ \E d \in S : d[n] = b
        /\ n > LastDiscrepancy /\ b = 1 => \A d \in S : d[n] = 1
        /\ n = LastDiscrepancy /\ (\E d \in S : d[n] = 1) => b = 1
        /\ n < LastDiscrepancy /\ (\E d \in S : d[n] = sn[n]) => b = sn[n]
    BY <1>1, <1>2, <1>4, Directed DEF IInv
  <2>. HIDE DEF b, S
  <2>3. sn \in SN /\ orig \subseteq SN
    BY DEF IInv, TypeOK
  <2>4. sn' \in SN /\ sn'[n] = b /\ \A j \in 0..(B - 1) : j # n => sn'[j] = sn[j]
    <3>1. sn \in SN /\ n \in 0..(B - 1) /\ b \in Bit /\ sn' = [sn EXCEPT ![n] = b]
      BY <1>1, <2>1, <2>2, <2>3
    <3>. QED
      BY <3>1 DEF SN
  <2>5. ASSUME NEW m \in Int, m <= n
        PROVE  /\ \A d : Agree(d, sn', m) <=> Agree(d, sn, m)
               /\ \A T, c : Branches(T, sn', m, c) <=> Branches(T, sn, m, c)
               /\ \A d : Passed(d, sn', m) <=> Passed(d, sn, m)
    <3>1. \A j \in 0..(n - 1) : sn'[j] = sn[j]
      BY <1>1, <2>4, SearchAssumption
    <3>. QED
      BY <1>1, <2>5, <3>1, Front
  <2>6. TypeOK'
    <3>1. last_zero' \in {n, last_zero} /\ last_zero \in -1..(B - 1)
      BY <2>1 DEF IInv, TypeOK
    <3>2. last_zero' \in -1..(B - 1) /\ bit_number' \in 0..B
      BY <1>1, <2>1, <3>1, SearchAssumption
    <3>. QED
      BY <1>1, <1>2, <2>1, <2>2, <2>4, <3>2 DEF IInv, TypeOK
  <2>7. \A d : Agree(d, sn', n + 1) <=> Agree(d, sn, n) /\ d[n] = b
    BY <1>1, <2>4, <2>5, AgreeNext
  <2>8. Followed'
    <3>1. bit_number' - 1 = n
      BY <1>1, <2>1
    <3>2. \E d \in active' : Agree(d, sn', bit_number')
      BY <1>2, <2>1, <2>2, <2>7
    <3>3. \A d \in active' : Agree(d, sn', n)
      <4>1. \A d : Agree(d, sn', n) <=> Agree(d, sn, n)
        BY <1>1, <2>5
      <4>. QED
        BY <1>2, <2>1, <4>1
    <3>. QED
      BY <1>1, <2>1, <2>4, <3>1, <3>2, <3>3 DEF Followed
  <2>9. ASSUME dev' = orig' PROVE Progress' /\ Pass'
    <3>1. dev = orig /\ Progress /\ Pass /\ S = {d \in orig : Agree(d, sn, n)}
      BY <1>1, <1>2, <2>9 DEF IInv
    <3>2. ASSUME LastDiscrepancy >= 0, n <= LastDiscrepancy
          PROVE  b = IF n = LastDiscrepancy THEN 1 ELSE sn[n]
      <4>1. PICK d1 \in orig : Agree(d1, sn, LastDiscrepancy) /\ d1[LastDiscrepancy] = 1
        BY <3>1, <3>2 DEF Progress, Branches
      <4>2. Agree(d1, sn, n) /\ (n < LastDiscrepancy => d1[n] = sn[n])
        BY <1>1, <3>2, <4>1 DEF Agree
      <4>. QED
        BY <1>1, <2>2, <3>1, <3>2, <4>1, <4>2
    <3>3. ASSUME LastDiscrepancy >= 0
          PROVE  /\ \A d : Passed(d, sn', LastDiscrepancy) <=> Passed(d, sn, LastDiscrepancy)
                 /\ \A c : Branches(orig, sn', LastDiscrepancy, c) <=> Branches(orig, sn, LastDiscrepancy, c)
      <4>1. CASE n < LastDiscrepancy
        <5>1. b = sn[n]
          BY <1>1, <3>2, <3>3, <4>1
        <5>2. sn' = sn
          BY <1>1, <2>1, <2>3, <5>1 DEF SN
        <5>. QED
          BY <5>2
      <4>2. CASE LastDiscrepancy <= n
        BY <1>1, <2>5, <4>2
      <4>. QED
        BY <1>1, <4>1, <4>2
    <3>4. Progress'
      <4>1. Got' = Got /\ status' = "bits" /\ UNCHANGED <<orig, LastDevice, LastDiscrepancy>>
        BY <1>1, <2>1 DEF Got
      <4>2. LastDiscrepancy >= 0 =>
              /\ Got = {d \in orig : Passed(d, sn', LastDiscrepancy)}
              /\ Branches(orig, sn', LastDiscrepancy, 0) /\ Branches(orig, sn', LastDiscrepancy, 1)
        BY <3>1, <3>3 DEF Progress
      <4>. QED
        BY <3>1, <4>1, <4>2 DEF Progress
    <3>5. Pass'
      <4>1. /\ bit_number' - 1 = n /\ 0..(bit_number' - 1) = 0..(n - 1) \cup {n}
            /\ LastDevice' = FALSE /\ LastDiscrepancy' = LastDiscrepancy /\ orig' = orig
        BY <1>1, <2>1, <3>1 DEF Pass
      <4>2. \A d : Agree(d, sn', n) <=> Agree(d, sn, n)
        BY <1>1, <2>5
      <4>3. ASSUME NEW i \in 0..(n - 1)
            PROVE  /\ sn'[i] = sn[i] /\ \A d : Agree(d, sn', i) <=> Agree(d, sn, i)
                   /\ \A c : Branches(orig, sn', i, c) <=> Branches(orig, sn, i, c)
        <5>1. i \in Int /\ i <= n /\ i \in 0..(B - 1) /\ i # n
          BY <1>1, <4>3, SearchAssumption
        <5>. QED
          BY <2>4, <2>5, <5>1
      <4>4. \A c : Branches(orig, sn', n, c) <=> \E d \in S : d[n] = c
        BY <1>1, <2>5, <3>1 DEF Branches
      <4>5. active' = {d \in orig' : Agree(d, sn', bit_number' - 1)}
        BY <2>1, <3>1, <4>1, <4>2
      <4>6. ASSUME bit_number' > LastDiscrepancy, LastDiscrepancy >= 0 PROVE sn'[LastDiscrepancy] = 1
        <5>1. CASE n = LastDiscrepancy
          BY <1>1, <2>4, <3>2, <5>1
        <5>2. CASE n > LastDiscrepancy
          <6>1. sn[LastDiscrepancy] = 1 /\ LastDiscrepancy \in 0..(n - 1)
            BY <1>1, <3>1, <4>6, <5>2 DEF Pass
          <6>. QED
            BY <4>3, <6>1
        <5>. QED
          BY <1>1, <2>1, <4>6, <5>1, <5>2
      <4>7. ASSUME NEW d \in orig
            PROVE  \/ Agree(d, sn', n + 1)
                   \/ \E i \in 0..n : Agree(d, sn', i) /\ d[i] # sn'[i]
        <5>1. CASE Agree(d, sn, n)
          <6>1. n \in 0..n
            BY <1>1
          <6>. QED
            BY <2>4, <2>7, <4>2, <5>1, <6>1
        <5>2. CASE ~Agree(d, sn, n)
          <6>1. PICK i \in 0..(n - 1) : Agree(d, sn, i) /\ d[i] # sn[i]
            BY <1>1, <3>1, <4>7, <5>2 DEF Pass
          <6>2. i \in 0..n
            BY <1>1, <6>1
          <6>. QED
            BY <4>3, <6>1, <6>2
        <5>. QED
          BY <5>1, <5>2
      <4>8. ASSUME NEW i \in 0..n, i > LastDiscrepancy, sn'[i] = 1 PROVE ~Branches(orig, sn', i, 0)
        <5>1. CASE i = n
          <6>1. \A d \in S : d[n] = 1
            BY <2>2, <2>4, <4>8, <5>1
          <6>. QED
            BY <4>4, <5>1, <6>1
        <5>2. CASE i \in 0..(n - 1)
          BY <1>1, <3>1, <4>3, <4>8, <5>2 DEF Pass
        <5>. QED
          BY <1>1, <5>1, <5>2
      <4>9. /\ last_zero' <= n
            /\ last_zero' >= 0 => sn'[last_zero'] = 0 /\ Branches(orig, sn', last_zero', 1)
            /\ \A i \in 0..n : sn'[i] = 0 /\ Branches(orig, sn', i, 1) => i <= last_zero'
        <5>1. CASE b = 0 /\ \E d \in S : d[n] = 1
          <6>1. last_zero' = n
            BY <2>1, <5>1
          <6>. QED
            BY <1>1, <2>4, <4>4, <5>1, <6>1
        <5>2. CASE ~(b = 0 /\ \E d \in S : d[n] = 1)
          <6>1. last_zero' = last_zero /\ last_zero < n
            BY <1>1, <2>1, <3>1, <5>2 DEF Pass
          <6>2. last_zero >= 0 => sn'[last_zero] = 0 /\ Branches(orig, sn', last_zero, 1)
            <7>1. last_zero >= 0 => last_zero \in 0..(n - 1) /\ sn[last_zero] = 0 /\ Branches(orig, sn, last_zero, 1)
              BY <1>1, <3>1, <6>1 DEF Pass
            <7>. QED
              BY <4>3, <7>1
          <6>3. ASSUME NEW i \in 0..n, sn'[i] = 0, Branches(orig, sn', i, 1) PROVE i <= last_zero
            <7>1. i # n
              BY <2>4, <4>4, <5>2, <6>3
            <7>2. i \in 0..(n - 1)
              BY <1>1, <7>1
            <7>. QED
              BY <1>1, <3>1, <4>3, <6>3, <7>2 DEF Pass
          <6>. QED
            BY <1>1, <6>1, <6>2, <6>3
        <5>. QED
          BY <5>1, <5>2
      <4>10. bit_number' = n + 1 /\ bit_number' - 1 = n /\ last_zero' < bit_number'
        BY <1>1, <2>1, <2>6, <4>9 DEF TypeOK
      <4>. QED
        BY <4>1, <4>5, <4>6, <4>7, <4>8, <4>9, <4>10 DEF Pass
    <3>. QED
      BY <3>4, <3>5
  <2>. QED
    BY <2>6, <2>8, <2>9 DEF IInv
<1>. QED
  BY <1>3, <1>4

-----------------------------------------------------------------------------
(* The end of a pass *)

\* The pass ends at the next device: all found before are below it, and with
\* last_zero as the new LastDiscrepancy just those and it have been passed.
LEMMA FoundIInv == ASSUME IInv, Found PROVE IInv'
<1>1. /\ status = "bits" /\ bit_number = B /\ B \in Nat /\ status' = "good"
      /\ LastDiscrepancy' = last_zero /\ LastDevice' = (last_zero < 0)
      /\ PassOver /\ UNCHANGED <<dev, orig, sn, try, found>>
      /\ last_zero \in -1..(B - 1) /\ LastDiscrepancy \in -1..(B - 1)
      /\ sn \in SN /\ orig \subseteq SN
  BY SearchAssumption DEF Found, IInv, TypeOK
<1>2. TypeOK'
  <2>1. LastDevice' \in BOOLEAN
    BY <1>1
  <2>2. bit_number' \in 0..B /\ search_direction' \in Bit /\ last_zero' \in -1..(B - 1)
    BY <1>1, SearchAssumption DEF PassOver, Bit
  <2>. QED
    BY <1>1, <2>1, <2>2 DEF IInv, TypeOK, PassOver
<1>3. sn \in orig
  <2>1. PICK d \in active : Agree(d, sn, B)
    BY <1>1 DEF IInv, Followed
  <2>2. d \in orig
    BY DEF IInv, TypeOK
  <2>3. d = sn
    BY <1>1, <2>1, <2>2, AgreeAll
  <2>. QED
    BY <2>2, <2>3
<1>4. Followed'
  BY <1>1, <1>3 DEF Followed
<1>5. ASSUME dev' = orig' PROVE Progress' /\ Pass'
  <2>1. Progress /\ Pass
    BY <1>1, <1>5 DEF IInv
  <2>. DEFINE Less(d) == \E i \in 0..(B - 1) : Agree(d, sn, i) /\ d[i] = 0 /\ sn[i] = 1
              More(d) == \E i \in 0..(B - 1) : Agree(d, sn, i) /\ d[i] = 1 /\ sn[i] = 0
              l == LastDiscrepancy
  <2>2. ASSUME NEW d \in orig PROVE d = sn \/ Less(d) \/ More(d)
    <3>1. CASE Agree(d, sn, B)
      BY <1>1, <3>1, AgreeAll
    <3>2. CASE ~Agree(d, sn, B)
      <4>1. PICK i \in 0..(B - 1) : Agree(d, sn, i) /\ d[i] # sn[i]
        BY <1>1, <2>1, <2>2, <3>2 DEF Pass
      <4>2. d[i] \in Bit /\ sn[i] \in Bit
        BY <1>1, <2>2, <4>1 DEF SN
      <4>. QED
        BY <4>1, <4>2 DEF Bit
    <3>. QED
      BY <3>1, <3>2
  <2>3. ASSUME NEW d \in orig, NEW i \in 0..(B - 1), NEW j \in 0..(B - 1),
               Agree(d, sn, i), d[i] # sn[i], Agree(d, sn, j), d[j] # sn[j]
        PROVE  i = j
    BY <2>3 DEF Agree
  <2>4. /\ \A i \in 0..(B - 1) : i > l /\ sn[i] = 1 => ~Branches(orig, sn, i, 0)
        /\ \A i \in 0..(B - 1) : sn[i] = 0 /\ Branches(orig, sn, i, 1) => i <= last_zero
        /\ l >= 0 => sn[l] = 1
        /\ last_zero >= 0 => sn[last_zero] = 0 /\ Branches(orig, sn, last_zero, 1)
        /\ found = IF l >= 0 THEN {d \in orig : Passed(d, sn, l)} ELSE {}
    <3>1. Got = found /\ ~LastDevice
      BY <1>1, <2>1 DEF Got, Pass
    <3>2. B - 1 \in Int /\ (l >= 0 => B > l) /\ (l >= 0 \/ l = -1)
      BY <1>1
    <3>3. found = IF l >= 0 THEN {d \in orig : Passed(d, sn, l)} ELSE {}
      BY <2>1, <3>1, <3>2 DEF Progress
    <3>. QED
      BY <1>1, <2>1, <3>2, <3>3 DEF Pass
  <2>5. ASSUME NEW d \in orig PROVE d \in found <=> Less(d)
    <3>1. ASSUME NEW i \in 0..(B - 1), Agree(d, sn, i), d[i] = 0, sn[i] = 1 PROVE d \in found
      <4>1. i <= l
        BY <1>1, <2>4, <2>5, <3>1 DEF Branches
      <4>2. l >= 0 /\ (i \in 0..(l - 1) \/ i = l)
        BY <1>1, <4>1
      <4>. QED
        BY <2>4, <2>5, <3>1, <4>2 DEF Passed
    <3>2. ASSUME d \in found PROVE Less(d)
      <4>1. l >= 0 /\ Passed(d, sn, l)
        BY <2>4, <3>2
      <4>2. l \in 0..(B - 1) /\ \A i \in 0..(l - 1) : i \in 0..(B - 1)
        BY <1>1, <4>1
      <4>. QED
        BY <2>4, <4>1, <4>2 DEF Passed
    <3>. QED
      BY <3>1, <3>2
  <2>6. ASSUME NEW d \in orig, NEW i \in 0..(B - 1), Agree(d, sn, i), d[i] = 1, sn[i] = 0
        PROVE  i <= last_zero
    BY <2>4, <2>6 DEF Branches
  <2>7. ASSUME last_zero >= 0, NEW d \in orig PROVE Passed(d, sn, last_zero) <=> d = sn \/ Less(d)
    <3>1. last_zero \in 0..(B - 1) /\ \A i \in 0..(last_zero - 1) : i \in 0..(B - 1)
      BY <1>1, <2>7
    <3>2. ASSUME NEW i \in 0..(B - 1), Agree(d, sn, i), d[i] = 0, sn[i] = 1
          PROVE  Passed(d, sn, last_zero)
      <4>1. i # last_zero
        BY <2>4, <2>7, <3>2
      <4>2. CASE i < last_zero
        <5>1. i \in 0..(last_zero - 1)
          BY <1>1, <4>2
        <5>. QED
          BY <3>2, <5>1 DEF Passed
      <4>3. CASE i > last_zero
        <5>1. Agree(d, sn, last_zero) /\ d[last_zero] = sn[last_zero]
          BY <1>1, <2>7, <3>2, <4>3 DEF Agree
        <5>. QED
          BY <2>4, <2>7, <5>1 DEF Passed
      <4>. QED
        BY <1>1, <4>1, <4>2, <4>3
    <3>3. CASE d = sn
      <4>1. Agree(sn, sn, last_zero) /\ sn[last_zero] = 0
        BY <2>4, <2>7 DEF Agree
      <4>. QED
        BY <3>3, <4>1 DEF Passed
    <3>4. ASSUME Agree(d, sn, last_zero), d[last_zero] = 0 PROVE ~More(d)
      <4>. SUFFICES ASSUME NEW i \in 0..(B - 1), Agree(d, sn, i), d[i] = 1, sn[i] = 0 PROVE FALSE
        OBVIOUS
      <4>1. i <= last_zero
        BY <2>6, <2>7
      <4>2. i # last_zero
        BY <3>4
      <4>3. i \in 0..(last_zero - 1)
        BY <1>1, <4>1, <4>2
      <4>. QED
        BY <3>4, <4>3 DEF Agree
    <3>5. ASSUME Passed(d, sn, last_zero) PROVE d = sn \/ Less(d)
      BY <2>2, <2>7, <3>1, <3>4, <3>5 DEF Passed
    <3>. QED
      BY <3>2, <3>3, <3>5
  <2>8. last_zero < 0 => \A d \in orig : ~More(d)
    BY <1>1, <2>6
  <2>9. Got' = {d \in orig : d = sn \/ Less(d)} /\ sn \notin found
    <3>1. Got' = found \cup {sn}
      BY <1>1 DEF Got
    <3>2. found \subseteq orig
      BY <2>4
    <3>3. sn \notin found
      BY <1>3, <2>5
    <3>. QED
      BY <1>3, <2>5, <3>1, <3>2, <3>3
  <2>. HIDE DEF Less, More
  <2>10. LastDevice' => Got' = orig'
    BY <1>1, <2>2, <2>8, <2>9
  <2>11. ASSUME last_zero >= 0
         PROVE  /\ Got' = {d \in orig : Passed(d, sn, last_zero)}
                /\ Branches(orig, sn, last_zero, 0) /\ Branches(orig, sn, last_zero, 1)
    <3>1. Got' = {d \in orig : Passed(d, sn, last_zero)}
      BY <2>7, <2>9, <2>11
    <3>2. Branches(orig, sn, last_zero, 0)
      BY <1>3, <2>4, <2>11 DEF Branches, Agree
    <3>. QED
      BY <2>4, <2>11, <3>1, <3>2
  <2>12. LastDiscrepancy' = -1 => LastDevice'
    <3>1. last_zero = -1 => last_zero < 0
      OBVIOUS
    <3>. QED
      BY <1>1, <3>1, Zenon
  <2>. QED
    BY <1>1, <2>9, <2>10, <2>11, <2>12 DEF Progress, Pass
<1>. QED
  BY <1>2, <1>4, <1>5 DEF IInv

-----------------------------------------------------------------------------
(* The other steps *)

LEMMA InitIInv == Init => IInv
<1>. SUFFICES ASSUME Init PROVE IInv
  OBVIOUS
<1>1. TypeOK
  <2>1. sn \in SN /\ search_direction \in Bit
    BY DEF Init, SN, Bit
  <2>2. /\ LastDiscrepancy \in -1..(B - 1) /\ last_zero \in -1..(B - 1)
        /\ try \in 1..Tries /\ bit_number \in 0..B
    BY SearchAssumption DEF Init
  <2>. QED
    BY <2>1, <2>2 DEF Init, TypeOK
<1>2. Followed /\ Pass
  BY DEF Init, Followed, Pass
<1>3. Progress
  BY DEF Init, Progress, Got
<1>. QED
  BY <1>1, <1>2, <1>3 DEF IInv

\* Before and after a pass, and if it fails, what was found stays found.
LEMMA OutsideIInv ==
    ASSUME IInv, TypeOK', Got' = Got, status' \in {"select", "error"},
           UNCHANGED <<dev, orig, ds>>
    PROVE  IInv'
  BY DEF IInv, Followed, Progress, Pass, ds

LEMMA BUS_nextIInv == ASSUME IInv, BUS_next PROVE IInv'
<1>1. Got' = Got /\ status' = "select" /\ UNCHANGED <<dev, orig, ds>>
  BY DEF BUS_next, Got
<1>2. TypeOK'
  <2>1. found' \subseteq SN
    BY DEF BUS_next, IInv, TypeOK
  <2>. QED
    BY <1>1, <2>1, SearchAssumption DEF BUS_next, IInv, TypeOK, ds, pass
<1>. QED
  BY <1>1, <1>2, OutsideIInv

LEMMA FailIInv == ASSUME IInv, Fail PROVE IInv'
<1>1. Got' = Got /\ status' \in {"select", "error"} /\ UNCHANGED <<dev, orig, ds>>
  BY DEF Fail, Got
<1>2. TypeOK'
  <2>1. try' \in 1..Tries
    BY SearchAssumption DEF Fail, IInv, TypeOK
  <2>2. bit_number' \in 0..B /\ search_direction' \in Bit /\ last_zero' \in -1..(B - 1)
    BY SearchAssumption DEF Fail, PassOver, Bit
  <2>. QED
    BY <1>1, <2>1, <2>2 DEF Fail, PassOver, IInv, TypeOK, ds
<1>. QED
  BY <1>1, <1>2, OutsideIInv

LEMMA SelectIInv == ASSUME IInv, Select PROVE IInv'
<1>1. /\ status = "select" /\ UNCHANGED <<dev, orig, sn, LastDiscrepancy, try, found>>
      /\ Got = found /\ LastDiscrepancy \in -1..(B - 1)
  BY DEF Select, Got, IInv, TypeOK
<1>2. CASE LastDevice \/ dev = {}
  <2>1. status' = "done" /\ LastDevice' = TRUE /\ UNCHANGED pass /\ Got' = found
    BY <1>1, <1>2 DEF Select, Got
  <2>2. TypeOK'
    BY <1>1, <2>1 DEF IInv, TypeOK, pass
  <2>3. ASSUME dev' = orig' PROVE Progress' /\ Pass'
    <3>1. Progress
      BY <1>1, <2>3 DEF IInv
    <3>2. found = orig
      <4>1. CASE LastDevice
        BY <1>1, <3>1, <4>1 DEF Progress
      <4>2. CASE ~LastDevice
        <5>1. orig = {} /\ LastDiscrepancy = -1
          BY <1>1, <1>2, <2>3, <3>1, <4>2 DEF Progress, Branches
        <5>. QED
          BY <1>1, <3>1, <4>2, <5>1 DEF Progress
      <4>. QED
        BY <4>1, <4>2
    <3>. QED
      BY <1>1, <2>1, <3>1, <3>2 DEF Progress, Pass
  <2>. QED
    BY <2>1, <2>2, <2>3 DEF IInv, Followed
<1>3. CASE ~(LastDevice \/ dev = {})
  <2>1. /\ status' = "bits" /\ active' = dev /\ bit_number' = 0 /\ search_direction' = 0
        /\ last_zero' = -1 /\ LastDevice' = LastDevice /\ Got' = found /\ dev # {}
    BY <1>1, <1>3 DEF Select, Got
  <2>2. TypeOK'
    BY <1>1, <2>1, SearchAssumption DEF IInv, TypeOK, Bit
  <2>3. \A d, e : Agree(d, e, 0) /\ Agree(d, e, 0 - 1)
    BY DEF Agree
  <2>4. Followed'
    BY <2>1, <2>3 DEF Followed
  <2>5. ASSUME dev' = orig' PROVE Progress' /\ Pass'
    <3>1. Progress
      BY <1>1, <2>5 DEF IInv
    <3>2. Progress'
      BY <1>1, <2>1, <3>1 DEF Progress
    <3>3. Pass'
      <4>1. 0..(bit_number' - 1) = {} /\ bit_number' - 1 = 0 - 1
        BY <2>1
      <4>2. active' = {d \in orig' : Agree(d, sn', bit_number' - 1)}
        BY <2>1, <2>3, <2>5, <1>1, <4>1
      <4>3. \A d \in orig' : Agree(d, sn', bit_number')
        BY <2>1, <2>3
      <4>4. ~(bit_number' > LastDiscrepancy' /\ LastDiscrepancy' >= 0)
        BY <1>1, <2>1
      <4>. QED
        BY <1>3, <2>1, <4>1, <4>2, <4>3, <4>4 DEF Pass
    <3>. QED
      BY <3>2, <3>3
  <2>. QED
    BY <2>2, <2>4, <2>5 DEF IInv
<1>. QED
  BY <1>2, <1>3

\* A device that goes away takes no part in what follows, and was there.
LEMMA UnplugIInv == ASSUME IInv, NEW d \in SN, Unplug(d) PROVE IInv'
<1>1. /\ d \in dev /\ dev' = dev \ {d} /\ UNCHANGED <<orig, ds, status, try, pass, found>>
  BY DEF Unplug
<1>2. TypeOK' /\ dev' # orig'
  BY <1>1 DEF IInv, TypeOK, ds, pass
<1>. QED
  BY <1>1, <1>2 DEF IInv, Followed, ds, pass

LEMMA NextIInv == IInv /\ [Next]_vars => IInv'
<1>. SUFFICES ASSUME IInv, [Next]_vars PROVE IInv'
  OBVIOUS
<1>1. CASE UNCHANGED vars
  BY <1>1 DEF vars, IInv, TypeOK, Followed, Progress, Pass, Got
<1>2. CASE Next
  BY <1>1, <1>2, BUS_nextIInv, FailIInv, SelectIInv, NextBitIInv, FoundIInv, UnplugIInv
     DEF Next, Step, Over
<1>. QED
  BY <1>1, <1>2

LEMMA Invariance == Spec => []IInv
  BY InitIInv, NextIInv, PTL DEF Spec

\* A search that ends without an error, and without a device being unplugged,
\* has found every device on the bus (BUS_next_both_bitbang skips no branch of
\* the tree, whatever passes BUS_next_3try had to repeat): for serial numbers
\* of any length and any devices.
THEOREM CompleteHolds == Spec => []Complete
<1>1. IInv => Complete
  BY DEF IInv, Progress, Got, Complete
<1>. QED
  BY <1>1, Invariance, PTL

\* It gives no device twice.
THEOREM NoTwiceHolds == Spec => []NoTwice
<1>1. IInv => NoTwice
  BY DEF IInv, Progress, NoTwice
<1>. QED
  BY <1>1, Invariance, PTL

\* Whatever is unplugged half-way, it gives only numbers of devices that were
\* on the bus.
THEOREM PresentHolds == Spec => []Present
<1>1. IInv => Present
  BY DEF IInv, Followed, Present
<1>. QED
  BY <1>1, Invariance, PTL
=============================================================================
