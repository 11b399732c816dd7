-------------------------- MODULE ReadWriteProofs ---------------------------
(* Reads give what is in the device, writes that report success are complete *)
(* and leave the other elements alone, and nothing stale stays cached: for   *)
(* any number of queries, elements and values.                               *)
(*                                                                           *)
(* The heart of it is which extensions are ever cached for a property.  Only *)
(* for a mixed one do the entries of two extensions stand for the same       *)
(* element, and there every request first deletes the other kind.            *)
EXTENDS ReadWrite, TLAPS

Set(s) == {s[k] : k \in 1..Len(s)}

\* The extensions that can be in the cache.
Usable(e) ==
    /\ e \in Extension
    /\ Cacheable => /\ e # BYTE
                    /\ combined = "aggregate" => e = ALL
                    /\ combined = "separate" => e \in Elements

Coherent(e) == \A i \in Covers(e) : cache[e][i] = mem[i]

\* An entry is right, but for the one under which a query has just written.
CacheOK ==
    \A e \in Extension : cache[e] # None =>
        /\ Cacheable /\ Usable(e) /\ cache[e] \in [Covers(e) -> Val]
        /\ Coherent(e) \/ \E q \in Query : at[q] = "del" /\ e = Head(out[q])

\* The elements that are to be in buf before the query goes on.
Needs(q) ==
    IF op[q] = "read" THEN Covers(ext[q])
    ELSE IF combined = "aggregate" /\ ext[q] \in Elements THEN Elements ELSE {}

\* One of the extensions es stands for element i.
Among(i, es) == \E e \in es : i \in Covers(e)

\* A query that reads has, or has yet to read, what it needs.
ReadOK(q) ==
    at[q] \in {"read", "add"} =>
        /\ \A e \in Set(todo[q]) : Usable(e)
        /\ \A i \in Needs(q) : buf[q][i] = mem[i] \/ Among(i, Set(todo[q]))
        /\ at[q] = "add" => /\ todo[q] # <<>>
                            /\ \A i \in Covers(Head(todo[q])) : buf[q][i] = mem[i]
        /\ op[q] = "write" => /\ out[q] = ToWrite(ext[q])
                              /\ combined # "aggregate" => todo[q] = <<>>

\* What is left to write, after the part at hand.
Left(q) == IF at[q] = "del" THEN Tail(out[q]) ELSE out[q]

\* A query that writes has its value in buf, next to what the device holds;
\* and it has written, or has yet to write, every part.
WriteOK(q) ==
    at[q] \in {"write", "del"} =>
        /\ op[q] = "write"
        /\ Set(out[q]) \subseteq Set(ToWrite(ext[q])) /\ (at[q] = "del" => out[q] # <<>>)
        /\ \A i \in Covers(ext[q]) : buf[q][i] = value[q][i]
        /\ \A i \in Elements \ Covers(ext[q]) : Among(i, Set(out[q])) => buf[q][i] = mem[i]
        /\ good[q] => \A i \in Covers(ext[q]) : mem[i] = value[q][i] \/ Among(i, Set(Left(q)))

\* What a write deletes first is not cached again while it is under way.
DeletedOK(q) ==
    op[q] = "write" /\ at[q] \in {"read", "add", "write", "del"} =>
        \A e \in Deleted(ext[q]) : cache[e] = None

DoneOK(q) ==
    at[q] = "done" => \A i \in Covers(ext[q]) :
        (op[q] = "read" => buf[q][i] = mem[i]) /\ (op[q] = "write" => mem[i] = value[q][i])

QueryOK(q) ==
    /\ at[q] # "idle" /\ ext[q] = BYTE => format = "bitfield"
    /\ ReadOK(q) /\ WriteOK(q) /\ DeletedOK(q) /\ DoneOK(q)

IInv == TypeOK /\ CacheOK /\ \A q \in Query : QueryOK(q)

-----------------------------------------------------------------------------
(* Extensions and sequences of them *)

LEMMA Extensions ==
    /\ ALL \in Extension /\ BYTE \in Extension /\ Elements \subseteq Extension
    /\ ALL \notin Elements /\ BYTE \notin Elements /\ ALL # BYTE
    /\ \A e \in Extension : e \in Elements \/ e = ALL \/ e = BYTE
    /\ \A e : Covers(e) \subseteq Elements
    /\ \A e \in Elements : Covers(e) = {e}
    /\ \A e : e \notin Elements => Covers(e) = Elements
<1>1. ALL \notin Elements /\ BYTE \notin Elements /\ ALL # BYTE
  BY ReadWriteAssumption DEF ALL, BYTE, Elements
<1>. QED
  BY <1>1, Zenon DEF Extension, Covers

LEMMA Parts ==
    ASSUME NEW s \in Seq(Extension), s # <<>>
    PROVE  /\ Head(s) \in Extension /\ Tail(s) \in Seq(Extension)
           /\ Head(s) \in Set(s) /\ Set(Tail(s)) \subseteq Set(s)
           /\ \A e \in Set(s) : e = Head(s) \/ e \in Set(Tail(s))
<1>1. Len(s) \in Nat /\ Len(s) >= 1 /\ Head(s) = s[1]
  OBVIOUS
<1>2. /\ Tail(s) \in Seq(Extension) /\ Len(Tail(s)) = Len(s) - 1
      /\ \A k \in 1..(Len(s) - 1) : Tail(s)[k] = s[k + 1]
  OBVIOUS
<1>3. Head(s) \in Extension /\ Head(s) \in Set(s)
  BY <1>1 DEF Set
<1>4. ASSUME NEW k \in 1..Len(Tail(s)) PROVE Tail(s)[k] \in Set(s)
  <2>1. k + 1 \in 1..Len(s) /\ Tail(s)[k] = s[k + 1]
    BY <1>1, <1>2
  <2>. QED
    BY <2>1, Zenon DEF Set
<1>5. ASSUME NEW k \in 1..Len(s), k # 1 PROVE s[k] \in Set(Tail(s))
  <2>1. k - 1 \in 1..Len(Tail(s)) /\ Tail(s)[k - 1] = s[(k - 1) + 1] /\ (k - 1) + 1 = k
    BY <1>1, <1>2, <1>5
  <2>. QED
    BY <2>1, Zenon DEF Set
<1>. QED
  BY <1>1, <1>2, <1>3, <1>4, <1>5, Zenon DEF Set

LEMMA NoParts == Set(<<>>) = {} /\ <<>> \in Seq(Extension)
  BY DEF Set

LEMMA OnePart ==
    ASSUME NEW e \in Extension
    PROVE  <<e>> \in Seq(Extension) /\ Set(<<e>>) = {e}
  BY DEF Set

LEMMA AllParts == EachElement \in Seq(Extension) /\ Set(EachElement) = Elements
<1>1. /\ DOMAIN EachElement = 1..N /\ \A i \in 1..N : EachElement[i] = i - 1 /\ i - 1 \in Elements
      /\ \A e \in Elements : e + 1 \in 1..N /\ (e + 1) - 1 = e
  BY ReadWriteAssumption DEF EachElement, Elements
<1>2. EachElement \in Seq(Extension) /\ Len(EachElement) = N
  BY <1>1, ReadWriteAssumption, Extensions DEF EachElement
<1>. QED
  BY <1>1, <1>2 DEF Set

-----------------------------------------------------------------------------
(* What a request comes down to *)

\* What is read for an extension may be cached, and is all that is needed.
LEMMA ToReadOK ==
    ASSUME combined \in {"aggregate", "mixed", "separate"}, format \in Formats,
           NEW e \in Extension, e = BYTE => format = "bitfield"
    PROVE  /\ ToRead(e) \in Seq(Extension) /\ ToReadFirst(e) \in Seq(Extension)
           /\ \A x \in Set(ToRead(e)) \cup Set(ToReadFirst(e)) : Usable(x)
           /\ \A i \in Covers(e) : Among(i, Set(ToRead(e)))
           /\ combined = "aggregate" /\ e \in Elements => \A i \in Elements : Among(i, Set(ToReadFirst(e)))
           /\ combined # "aggregate" => ToReadFirst(e) = <<>>
<1>. USE Extensions
<1>1. (All \in Extension /\ Usable(All)) \/ combined = "separate"
  BY Zenon DEF All, Usable, Cacheable
<1>2. All \in Extension /\ <<All>> \in Seq(Extension) /\ Set(<<All>>) = {All} /\ Covers(All) = Elements
  BY OnePart, Zenon DEF All
<1>3. /\ <<e>> \in Seq(Extension) /\ Set(<<e>>) = {e}
      /\ <<BYTE>> \in Seq(Extension) /\ Set(<<BYTE>>) = {BYTE}
  BY OnePart, Zenon
<1>4. CASE combined = "aggregate"
  <2>1. ToRead(e) = <<All>> /\ ToReadFirst(e) = IF e \in Elements THEN <<All>> ELSE <<>>
    BY <1>4, Zenon DEF ToRead, ToReadFirst
  <2>. QED
    BY <1>1, <1>2, <1>4, <2>1, NoParts, Zenon DEF Among
<1>5. CASE combined = "mixed"
  <2>1. ToRead(e) = (IF e \in Elements THEN <<e>> ELSE <<All>>) /\ ToReadFirst(e) = <<>>
    BY <1>5, Zenon DEF ToRead, ToReadFirst
  <2>2. e \in Elements => Usable(e)
    BY <1>5, Zenon DEF Usable
  <2>. QED
    BY <1>1, <1>2, <1>3, <1>5, <2>1, <2>2, NoParts, Zenon DEF Among
<1>6. CASE combined = "separate"
  <2>1. /\ ToReadFirst(e) = <<>>
        /\ ToRead(e) = IF e \in Elements THEN <<e>>
                       ELSE IF e = ALL /\ format = "bitfield" THEN <<BYTE>> ELSE EachElement
    BY <1>6, Zenon DEF ToRead, ToReadFirst
  <2>2. /\ \A x \in Elements : Usable(x)
        /\ format = "bitfield" => Usable(BYTE)
    BY <1>6, Zenon DEF Usable, Cacheable
  <2>. QED
    BY <1>2, <1>3, <1>6, <2>1, <2>2, NoParts, AllParts, Zenon DEF Among
<1>. QED
  BY <1>4, <1>5, <1>6, Zenon

\* What is written for an extension covers it; only an aggregate is written
\* beyond it.
LEMMA ToWriteOK ==
    ASSUME combined \in {"aggregate", "mixed", "separate"}, NEW e \in Extension
    PROVE  /\ ToWrite(e) \in Seq(Extension)
           /\ \A i \in Covers(e) : Among(i, Set(ToWrite(e)))
           /\ \A i \in Elements \ Covers(e) :
                Among(i, Set(ToWrite(e))) => combined = "aggregate" /\ e \in Elements
<1>. USE Extensions
<1>1. All \in Extension /\ <<All>> \in Seq(Extension) /\ Set(<<All>>) = {All} /\ Covers(All) = Elements
  BY OnePart, Zenon DEF All
<1>2. <<e>> \in Seq(Extension) /\ Set(<<e>>) = {e}
  BY OnePart, Zenon
<1>3. CASE combined = "aggregate"
  <2>1. ToWrite(e) = <<All>>
    BY <1>3, Zenon DEF ToWrite
  <2>. QED
    BY <1>1, <1>3, <2>1, Zenon DEF Among
<1>4. CASE combined = "mixed"
  <2>1. ToWrite(e) = IF e \in Elements THEN <<e>> ELSE <<All>>
    BY <1>4, Zenon DEF ToWrite
  <2>. QED
    BY <1>1, <1>2, <2>1, Zenon DEF Among
<1>5. CASE combined = "separate"
  <2>1. ToWrite(e) = IF e \in Elements THEN <<e>> ELSE EachElement
    BY <1>5, Zenon DEF ToWrite
  <2>. QED
    BY <1>2, <2>1, AllParts, Zenon DEF Among
<1>. QED
  BY <1>3, <1>4, <1>5, Zenon

\* No entry but the one that is deleted after it stands for an element that
\* is written, as those that did were deleted before.
LEMMA Disjoint ==
    ASSUME combined \in {"aggregate", "mixed", "separate"}, format \in Formats,
           NEW e \in Extension, NEW w \in Set(ToWrite(e)),
           NEW x \in Extension, Cacheable, Usable(x), x # w, x \notin Deleted(e)
    PROVE  Covers(x) \cap Covers(w) = {}
<1>. USE Extensions
<1>1. All = ALL
  BY Zenon DEF All, Cacheable
<1>2. CASE combined = "aggregate"
  <2>1. w = ALL
    BY <1>1, <1>2, OnePart DEF ToWrite
  <2>. QED
    BY <1>2, <2>1, Zenon DEF Usable
<1>3. CASE combined = "mixed"
  <2>1. CASE e \in Elements
    <3>1. w = e /\ x \in Elements
      BY <1>3, <2>1, OnePart DEF ToWrite, Deleted
    <3>. QED
      BY <2>1, <3>1
  <2>2. CASE e \notin Elements
    <3>1. w = ALL /\ x \notin Elements
      BY <1>1, <1>3, <2>2, OnePart DEF ToWrite, Deleted
    <3>. QED
      BY <3>1, Zenon DEF Usable
  <2>. QED
    BY <2>1, <2>2, Zenon
<1>4. CASE combined = "separate"
  <2>1. w \in Elements
    BY <1>4, OnePart, AllParts DEF ToWrite
  <2>2. x \in Elements
    BY <1>4, Zenon DEF Usable
  <2>. QED
    BY <2>1, <2>2
<1>. QED
  BY <1>2, <1>3, <1>4, Zenon

-----------------------------------------------------------------------------
(* One query has the device at a time *)

LEMMA OnlyOwner ==
    ASSUME TypeOK, NEW q \in Query, at[q] # "idle"
    PROVE  owner = q /\ \A r \in Query : r # q => at[r] = "idle"
  BY ReadWriteAssumption, Zenon DEF TypeOK

\* So a step of one query leaves the others where they are.
LEMMA OthersOK ==
    ASSUME TypeOK', NEW q \in Query, owner' \in {q, None}, QueryOK(q)'
    PROVE  \A r \in Query : QueryOK(r)'
<1>. SUFFICES ASSUME NEW r \in Query, r # q PROVE QueryOK(r)'
  BY Zenon
<1>1. (at[r])' = "idle"
  BY ReadWriteAssumption, Zenon DEF TypeOK
<1>. QED
  BY <1>1, Zenon DEF QueryOK, ReadOK, WriteOK, DeletedOK, DoneOK

\* Unless it is about to delete an entry, every entry is right.
LEMMA AllCoherent ==
    ASSUME TypeOK, CacheOK, NEW q \in Query, at[q] \notin {"idle", "del"},
           NEW e \in Extension, cache[e] # None
    PROVE  Coherent(e) /\ cache[e] \in [Covers(e) -> Val]
<1>1. \A r \in Query : at[r] # "del"
  BY OnlyOwner, Zenon
<1>. QED
  BY <1>1, Zenon DEF CacheOK

\* Entries may go away, unless mem changes; the one that is just written must.
LEMMA CacheShrinks ==
    ASSUME CacheOK, UNCHANGED <<mem, combined, format>>,
           \A e \in Extension : cache'[e] = None \/ cache'[e] = cache[e],
           \A q \in Query : at[q] = "del" =>
               (at'[q] = "del" /\ out'[q] = out[q]) \/ cache'[Head(out[q])] = None
    PROVE  CacheOK'
<1>. SUFFICES ASSUME NEW e \in Extension, cache'[e] # None
              PROVE  /\ Cacheable' /\ Usable(e)' /\ cache'[e] \in [Covers(e) -> Val]
                     /\ Coherent(e)' \/ \E q \in Query : at'[q] = "del" /\ e = Head(out'[q])
  BY Zenon DEF CacheOK
<1>1. cache'[e] = cache[e] /\ cache[e] # None
  BY Zenon
<1>2. Cacheable' = Cacheable /\ Usable(e)' = Usable(e)
  BY Zenon DEF Cacheable, Usable
<1>3. Coherent(e) => Coherent(e)'
  BY <1>1, Zenon DEF Coherent
<1>4. ASSUME NEW q \in Query, at[q] = "del", e = Head(out[q])
      PROVE  at'[q] = "del" /\ e = Head(out'[q])
  BY <1>1, <1>4, Zenon
<1>. QED
  BY <1>1, <1>2, <1>3, <1>4, Zenon DEF CacheOK

LEMMA Entries ==
    /\ Blank \in Array
    /\ \A e \in Extension : \A f \in [Covers(e) -> Val] :
           f \in UNION {[S -> Val] : S \in SUBSET Elements}
<1>1. \E v : v \in Val
  BY ReadWriteAssumption, Zenon
<1>2. Array # {}
  <2>1. PICK v : v \in Val
    BY <1>1, Zenon
  <2>2. [i \in Elements |-> v] \in Array
    BY <2>1, Zenon DEF Array
  <2>. QED
    BY <2>2, Zenon
<1>3. Blank \in Array
  BY <1>2, Zenon DEF Blank
<1>. QED
  BY <1>3, Extensions

-----------------------------------------------------------------------------
(* The steps of a query *)

LEMMA InitIInv == Init => IInv
<1>. SUFFICES ASSUME Init PROVE IInv
  BY Zenon
<1>1. TypeOK
  <2>1. ext \in [Query -> Extension] /\ value \in [Query -> Array] /\ buf \in [Query -> Array]
    BY Extensions, Entries, Zenon DEF Init
  <2>2. todo \in [Query -> Seq(Extension)] /\ out \in [Query -> Seq(Extension)]
    BY DEF Init
  <2>3. \A q \in Query : at[q] # "idle" <=> owner = q
    BY ReadWriteAssumption, Zenon DEF Init
  <2>. QED
    BY <2>1, <2>2, <2>3, Zenon DEF Init, TypeOK
<1>2. CacheOK
  BY Zenon DEF Init, CacheOK
<1>3. \A q \in Query : QueryOK(q)
  BY Zenon DEF Init, QueryOK, ReadOK, WriteOK, DeletedOK, DoneOK
<1>. QED
  BY <1>1, <1>2, <1>3, Zenon DEF IInv

LEMMA RequestIInv == ASSUME IInv, NEW q \in Query, Request(q) PROVE IInv'
<1>1. PICK o \in {"read", "write"}, e \in Extension, u \in BOOLEAN, v \in Array :
        (e = BYTE => format = "bitfield") /\ Start(q, o, e, u, v)
  BY Zenon DEF Request
<1>2. /\ at[q] = "idle" /\ owner = None /\ owner' = q
      /\ at' = [at EXCEPT ![q] = "start"] /\ op' = [op EXCEPT ![q] = o] /\ ext' = [ext EXCEPT ![q] = e]
      /\ uncached' = [uncached EXCEPT ![q] = u] /\ value' = [value EXCEPT ![q] = v]
      /\ good' = [good EXCEPT ![q] = TRUE]
      /\ UNCHANGED <<combined, format, mem, cache, todo, out, buf>>
  BY <1>1, Zenon DEF Start, Put, fixed
<1>3. TypeOK'
  <2>1. \A r \in Query : at'[r] # "idle" <=> owner' = r
    BY <1>2, ReadWriteAssumption, Zenon DEF IInv, TypeOK
  <2>2. /\ at' \in [Query -> {"idle", "start", "read", "add", "write", "del", "done", "failed"}]
        /\ op' \in [Query -> {"read", "write"}] /\ ext' \in [Query -> Extension]
        /\ uncached' \in [Query -> BOOLEAN] /\ value' \in [Query -> Array] /\ good' \in [Query -> BOOLEAN]
    BY <1>1, <1>2, Zenon DEF IInv, TypeOK
  <2>. QED
    BY <1>2, <2>1, <2>2, Zenon DEF IInv, TypeOK
<1>4. CacheOK'
  <2>1. \A r \in Query : at[r] # "del"
    BY <1>2, ReadWriteAssumption, Zenon DEF IInv, TypeOK
  <2>. QED
    BY <1>2, <2>1, CacheShrinks, Zenon DEF IInv
<1>5. QueryOK(q)'
  BY <1>1, <1>2, Zenon DEF IInv, TypeOK, QueryOK, ReadOK, WriteOK, DeletedOK, DoneOK
<1>. QED
  BY <1>2, <1>3, <1>4, <1>5, OthersOK, Zenon DEF IInv

LEMMA DispatchIInv == ASSUME IInv, NEW q \in Query, Dispatch(q) PROVE IInv'
<1>1. /\ at[q] = "start" /\ owner = q /\ cache' = Forget(cache, Deleted(ext[q]))
      /\ at' = [at EXCEPT ![q] = "read"]
      /\ UNCHANGED <<combined, format, mem, owner, op, ext, uncached, value, buf, good>>
      /\ \/ op[q] = "read" /\ todo' = [todo EXCEPT ![q] = ToRead(ext[q])] /\ out' = out
         \/ /\ op[q] = "write" /\ todo' = [todo EXCEPT ![q] = ToReadFirst(ext[q])]
            /\ out' = [out EXCEPT ![q] = ToWrite(ext[q])]
  BY OnlyOwner, Zenon DEF Dispatch, Put, fixed, local, IInv
<1>2. /\ combined \in {"aggregate", "mixed", "separate"} /\ format \in Formats
      /\ ext[q] \in Extension /\ (ext[q] = BYTE => format = "bitfield")
  BY <1>1, Zenon DEF IInv, TypeOK, QueryOK
<1>3. TypeOK'
  <2>1. todo' \in [Query -> Seq(Extension)] /\ out' \in [Query -> Seq(Extension)]
    <3>1. /\ ToRead(ext[q]) \in Seq(Extension) /\ ToReadFirst(ext[q]) \in Seq(Extension)
          /\ ToWrite(ext[q]) \in Seq(Extension)
      BY <1>2, ToReadOK, ToWriteOK, Zenon
    <3>2. todo \in [Query -> Seq(Extension)] /\ out \in [Query -> Seq(Extension)]
      BY Zenon DEF IInv, TypeOK
    <3>. QED
      BY <1>1, <3>1, <3>2, Zenon
  <2>2. cache' \in [Extension -> {None} \cup UNION {[S -> Val] : S \in SUBSET Elements}]
    BY <1>1, Zenon DEF IInv, TypeOK, Forget
  <2>3. /\ at' \in [Query -> {"idle", "start", "read", "add", "write", "del", "done", "failed"}]
        /\ \A r \in Query : at'[r] # "idle" <=> owner' = r
    BY <1>1, Zenon DEF IInv, TypeOK
  <2>. QED
    BY <1>1, <2>1, <2>2, <2>3, Zenon DEF IInv, TypeOK
<1>4. CacheOK'
  <2>1. \A r \in Query : at[r] # "del"
    BY <1>1, OnlyOwner, Zenon DEF IInv
  <2>2. \A e \in Extension : cache'[e] = None \/ cache'[e] = cache[e]
    BY <1>1, Zenon DEF Forget
  <2>. QED
    BY <1>1, <2>1, <2>2, CacheShrinks, Zenon DEF IInv
<1>5. QueryOK(q)'
  <2>1. /\ at'[q] = "read" /\ op'[q] = op[q] /\ ext'[q] = ext[q] /\ op[q] \in {"read", "write"}
        /\ Deleted(ext[q])' = Deleted(ext[q]) /\ \A e : Usable(e)' = Usable(e)
        /\ todo'[q] = IF op[q] = "read" THEN ToRead(ext[q]) ELSE ToReadFirst(ext[q])
        /\ op[q] = "write" => out'[q] = ToWrite(ext[q])
    BY <1>1, Zenon DEF IInv, TypeOK, Deleted, Usable, Cacheable
  <2>2. ReadOK(q)'
    <3>1. Needs(q)' = Needs(q) /\ ToWrite(ext[q])' = ToWrite(ext[q])
      BY <1>1, Zenon DEF Needs, ToWrite, All
    <3>2. \A e \in Set(todo'[q]) : Usable(e)'
      BY <1>2, <2>1, ToReadOK, Zenon
    <3>3. \A i \in Needs(q) : Among(i, Set(todo'[q]))
      BY <1>2, <2>1, ToReadOK, Zenon DEF Needs
    <3>4. op[q] = "write" => (combined # "aggregate" => todo'[q] = <<>>)
      BY <1>2, <2>1, ToReadOK, Zenon
    <3>. QED
      BY <1>1, <2>1, <3>1, <3>2, <3>3, <3>4, Zenon DEF ReadOK
  <2>3. DeletedOK(q)'
    <3>1. \A e \in Deleted(ext[q]) : e \in Extension
      BY Extensions, Zenon DEF Deleted
    <3>. QED
      BY <1>1, <2>1, <3>1, Zenon DEF DeletedOK, Forget
  <2>. QED
    BY <1>1, <1>2, <2>1, <2>2, <2>3, Zenon DEF QueryOK, WriteOK, DoneOK
<1>. QED
  BY <1>1, <1>3, <1>4, <1>5, OthersOK, Zenon DEF IInv

LEMMA ReadCachedIInv == ASSUME IInv, NEW q \in Query, ReadCached(q) PROVE IInv'
<1>. DEFINE e == Head(todo[q])
<1>1. /\ at[q] = "read" /\ owner = q /\ todo[q] # <<>> /\ cache[e] # None
      /\ buf' = [buf EXCEPT ![q] = [i \in Elements |-> IF i \in Covers(e) THEN cache[e][i] ELSE buf[q][i]]]
      /\ todo' = [todo EXCEPT ![q] = Tail(todo[q])]
      /\ UNCHANGED <<combined, format, mem, cache, owner, at, op, ext, uncached, value, out, good>>
  BY OnlyOwner, Zenon DEF ReadCached, Put, fixed, local, IInv
<1>2. /\ todo[q] \in Seq(Extension) /\ e \in Extension /\ Tail(todo[q]) \in Seq(Extension)
      /\ Set(Tail(todo[q])) \subseteq Set(todo[q])
      /\ \A x \in Set(todo[q]) : x = e \/ x \in Set(Tail(todo[q]))
  BY <1>1, Parts, Zenon DEF IInv, TypeOK
<1>3. Coherent(e) /\ cache[e] \in [Covers(e) -> Val] /\ Covers(e) \subseteq Elements
  BY <1>1, <1>2, AllCoherent, Extensions, Zenon DEF IInv
<1>. HIDE DEF e
<1>4. TypeOK'
  <2>1. [i \in Elements |-> IF i \in Covers(e) THEN cache[e][i] ELSE buf[q][i]] \in Array
    BY <1>3, SMTT(30) DEF IInv, TypeOK, Array
  <2>2. buf' \in [Query -> Array] /\ todo' \in [Query -> Seq(Extension)]
    BY <1>1, <1>2, <2>1, Zenon DEF IInv, TypeOK
  <2>. QED
    BY <1>1, <2>2, Zenon DEF IInv, TypeOK
<1>5. CacheOK'
  BY <1>1, CacheShrinks, Zenon DEF IInv
<1>6. QueryOK(q)'
  <2>1. /\ todo'[q] = Tail(todo[q])
        /\ \A i \in Elements : buf'[q][i] = IF i \in Covers(e) THEN mem[i] ELSE buf[q][i]
    BY <1>1, <1>3, Zenon DEF IInv, TypeOK, Coherent
  <2>2. /\ Needs(q)' = Needs(q) /\ Needs(q) \subseteq Elements /\ ToWrite(ext[q])' = ToWrite(ext[q])
        /\ Deleted(ext[q])' = Deleted(ext[q]) /\ \A x : Usable(x)' = Usable(x)
    BY <1>1, Extensions, Zenon DEF Needs, ToWrite, All, Deleted, Usable, Cacheable
  <2>3. QueryOK(q) /\ ReadOK(q)
    BY Zenon DEF IInv, QueryOK
  <2>4. \A i \in Needs(q) : buf'[q][i] = mem[i] \/ Among(i, Set(todo'[q]))
    BY <1>1, <1>2, <2>1, <2>2, <2>3, Zenon DEF ReadOK, Among
  <2>5. op[q] = "write" /\ combined # "aggregate" => FALSE
    BY <1>1, <2>3, Zenon DEF ReadOK
  <2>6. ReadOK(q)'
    BY <1>1, <1>2, <2>1, <2>2, <2>3, <2>4, <2>5, Zenon DEF ReadOK
  <2>. QED
    BY <1>1, <2>2, <2>3, <2>6, Zenon DEF QueryOK, WriteOK, DeletedOK, DoneOK
<1>. QED
  BY <1>1, <1>4, <1>5, <1>6, OthersOK, Zenon DEF IInv

LEMMA ReadDeviceIInv == ASSUME IInv, NEW q \in Query, ReadDevice(q) PROVE IInv'
<1>. DEFINE e == Head(todo[q])
<1>1. /\ at[q] = "read" /\ owner = q /\ todo[q] # <<>>
      /\ \/ buf' = [buf EXCEPT ![q] = Overlay(buf[q], mem, e)] /\ at' = [at EXCEPT ![q] = "add"]
         \/ buf' = buf /\ at' = [at EXCEPT ![q] = "failed"]
      /\ UNCHANGED <<combined, format, mem, cache, owner, op, ext, uncached, value, todo, out, good>>
  BY OnlyOwner, Zenon DEF ReadDevice, Put, fixed, local, IInv
<1>2. TypeOK'
  <2>1. Overlay(buf[q], mem, e) \in Array
    BY DEF IInv, TypeOK, Array, Overlay
  <2>2. /\ at' \in [Query -> {"idle", "start", "read", "add", "write", "del", "done", "failed"}]
        /\ \A r \in Query : at'[r] # "idle" <=> owner' = r
    BY <1>1, Zenon DEF IInv, TypeOK
  <2>3. buf' \in [Query -> Array]
    BY <1>1, <2>1, Zenon DEF IInv, TypeOK
  <2>. QED
    BY <1>1, <2>2, <2>3, Zenon DEF IInv, TypeOK
<1>3. CacheOK'
  <2>1. \A r \in Query : at[r] # "del"
    BY <1>1, OnlyOwner, Zenon DEF IInv
  <2>. QED
    BY <1>1, <2>1, CacheShrinks, Zenon DEF IInv
<1>4. QueryOK(q)'
  <2>1. QueryOK(q) /\ ReadOK(q)
    BY Zenon DEF IInv, QueryOK
  <2>2. CASE at' = [at EXCEPT ![q] = "failed"]
    <3>1. at'[q] = "failed"
      BY <2>2, Zenon DEF IInv, TypeOK
    <3>. QED
      BY <1>1, <2>1, <3>1, ZenonT(30) DEF QueryOK, ReadOK, WriteOK, DeletedOK, DoneOK
  <2>3. CASE buf' = [buf EXCEPT ![q] = Overlay(buf[q], mem, e)] /\ at' = [at EXCEPT ![q] = "add"]
    <3>1. /\ at'[q] = "add" /\ Covers(e) \subseteq Elements
          /\ \A i \in Elements : buf'[q][i] = IF i \in Covers(e) THEN mem[i] ELSE buf[q][i]
      BY <2>3, Extensions, Zenon DEF IInv, TypeOK, Overlay
    <3>2. /\ Needs(q)' = Needs(q) /\ Needs(q) \subseteq Elements /\ ToWrite(ext[q])' = ToWrite(ext[q])
          /\ Deleted(ext[q])' = Deleted(ext[q]) /\ \A x : Usable(x)' = Usable(x)
      BY <1>1, Extensions, Zenon DEF Needs, ToWrite, All, Deleted, Usable, Cacheable
    <3>3. \A i \in Needs(q) : buf'[q][i] = mem[i] \/ Among(i, Set(todo[q]))
      BY <1>1, <2>1, <3>1, <3>2, Zenon DEF ReadOK
    <3>4. \A i \in Covers(e) : buf'[q][i] = mem[i]
      BY <3>1, Zenon
    <3>5. ReadOK(q)'
      BY <1>1, <2>1, <3>1, <3>2, <3>3, <3>4, Zenon DEF ReadOK
    <3>. QED
      BY <1>1, <2>1, <3>1, <3>2, <3>5, Zenon DEF QueryOK, WriteOK, DeletedOK, DoneOK
  <2>. QED
    BY <1>1, <2>2, <2>3, Zenon
<1>. QED
  BY <1>1, <1>2, <1>3, <1>4, OthersOK, Zenon DEF IInv

LEMMA AddToCacheIInv == ASSUME IInv, NEW q \in Query, AddToCache(q) PROVE IInv'
<1>. DEFINE e == Head(todo[q])
            entry == [i \in Covers(e) |-> buf[q][i]]
<1>1. /\ at[q] = "add" /\ owner = q
      /\ (Cacheable /\ cache' = [cache EXCEPT ![e] = entry]) \/ cache' = cache
      /\ todo' = [todo EXCEPT ![q] = Tail(todo[q])] /\ at' = [at EXCEPT ![q] = "read"]
      /\ UNCHANGED <<combined, format, mem, owner, op, ext, uncached, value, out, buf, good>>
  BY OnlyOwner, Zenon DEF AddToCache, Put, fixed, local, IInv
<1>2. QueryOK(q) /\ ReadOK(q) /\ todo[q] # <<>>
  BY <1>1, Zenon DEF IInv, QueryOK, ReadOK
<1>3. /\ todo[q] \in Seq(Extension) /\ e \in Extension /\ Tail(todo[q]) \in Seq(Extension)
      /\ e \in Set(todo[q]) /\ Set(Tail(todo[q])) \subseteq Set(todo[q])
      /\ \A x \in Set(todo[q]) : x = e \/ x \in Set(Tail(todo[q]))
  BY <1>2, Parts, Zenon DEF IInv, TypeOK
<1>4. \A i \in Covers(e) : buf[q][i] = mem[i]
  BY <1>1, <1>2, Zenon DEF ReadOK
<1>5. entry \in [Covers(e) -> Val]
  BY Extensions, SMTT(30) DEF IInv, TypeOK, Array
<1>6. Usable(e)
  BY <1>1, <1>2, <1>3, Zenon DEF ReadOK
<1>7. \A i \in Covers(e) : entry[i] = mem[i]
  BY <1>4, Zenon
<1>. HIDE DEF e, entry
<1>8. TypeOK'
  <2>1. /\ at' \in [Query -> {"idle", "start", "read", "add", "write", "del", "done", "failed"}]
        /\ \A r \in Query : at'[r] # "idle" <=> owner' = r
    BY <1>1, Zenon DEF IInv, TypeOK
  <2>2. cache' \in [Extension -> {None} \cup UNION {[S -> Val] : S \in SUBSET Elements}]
    <3>. DEFINE U == UNION {[S -> Val] : S \in SUBSET Elements}
    <3>1. entry \in U /\ cache \in [Extension -> {None} \cup U]
      BY <1>3, <1>5, Entries, Zenon DEF IInv, TypeOK
    <3>. HIDE DEF U
    <3>2. cache' \in [Extension -> {None} \cup U]
      BY <1>1, <1>3, <3>1, Zenon
    <3>. QED
      BY <3>2, Zenon DEF U
  <2>3. todo' \in [Query -> Seq(Extension)]
    BY <1>1, <1>3, Zenon DEF IInv, TypeOK
  <2>. QED
    BY <1>1, <2>1, <2>2, <2>3, Zenon DEF IInv, TypeOK
<1>9. CacheOK'
  <2>1. SUFFICES ASSUME NEW x \in Extension, cache'[x] # None
                 PROVE  Cacheable' /\ Usable(x)' /\ cache'[x] \in [Covers(x) -> Val] /\ Coherent(x)'
    BY Zenon DEF CacheOK
  <2>2. Cacheable' = Cacheable /\ Usable(x)' = Usable(x)
    BY <1>1, Zenon DEF Cacheable, Usable
  <2>3. CASE cache'[x] = cache[x]
    <3>1. Coherent(x) /\ cache[x] \in [Covers(x) -> Val]
      BY <1>1, <2>1, <2>3, AllCoherent, Zenon DEF IInv
    <3>2. Cacheable /\ Usable(x)
      BY <2>1, <2>3, Zenon DEF IInv, CacheOK
    <3>. QED
      BY <1>1, <2>2, <2>3, <3>1, <3>2, Zenon DEF Coherent
  <2>4. CASE cache'[x] # cache[x]
    <3>1. Cacheable /\ x = e /\ cache'[x] = entry
      BY <1>1, <1>3, <2>4, Zenon DEF IInv, TypeOK
    <3>. QED
      BY <1>1, <1>5, <1>6, <1>7, <2>2, <3>1, Zenon DEF Coherent
  <2>. QED
    BY <2>3, <2>4, Zenon
<1>10. QueryOK(q)'
  <2>1. todo'[q] = Tail(todo[q]) /\ at'[q] = "read"
    BY <1>1, Zenon DEF IInv, TypeOK
  <2>2. /\ Needs(q)' = Needs(q) /\ ToWrite(ext[q])' = ToWrite(ext[q])
        /\ Deleted(ext[q])' = Deleted(ext[q]) /\ \A x : Usable(x)' = Usable(x)
    BY <1>1, Zenon DEF Needs, ToWrite, All, Deleted, Usable, Cacheable
  <2>3. \A i \in Needs(q) : buf[q][i] = mem[i] \/ Among(i, Set(todo'[q]))
    BY <1>1, <1>2, <1>3, <1>4, <2>1, Zenon DEF ReadOK, Among
  <2>4. op[q] = "write" => combined = "aggregate"
    BY <1>1, <1>2, Zenon DEF ReadOK
  <2>5. ReadOK(q)'
    BY <1>1, <1>2, <1>3, <2>1, <2>2, <2>3, <2>4, Zenon DEF ReadOK
  <2>6. DeletedOK(q)'
    BY <1>1, <2>2, <2>4, Zenon DEF DeletedOK, Deleted
  <2>. QED
    BY <1>1, <1>2, <2>1, <2>5, <2>6, Zenon DEF QueryOK, WriteOK, DoneOK
<1>. QED
  BY <1>1, <1>8, <1>9, <1>10, OthersOK, Zenon DEF IInv

LEMMA ReadDoneIInv == ASSUME IInv, NEW q \in Query, ReadDone(q) PROVE IInv'
<1>1. /\ at[q] = "read" /\ todo[q] = <<>> /\ op[q] = "read" /\ owner = q
      /\ at' = [at EXCEPT ![q] = "done"]
      /\ UNCHANGED <<combined, format, mem, cache, owner, op, ext, uncached, value, todo, out, buf, good>>
  BY OnlyOwner, Zenon DEF ReadDone, Put, fixed, local, IInv
<1>2. TypeOK'
  <2>1. /\ at' \in [Query -> {"idle", "start", "read", "add", "write", "del", "done", "failed"}]
        /\ \A r \in Query : at'[r] # "idle" <=> owner' = r
    BY <1>1, Zenon DEF IInv, TypeOK
  <2>. QED
    BY <1>1, <2>1, Zenon DEF IInv, TypeOK
<1>3. CacheOK'
  <2>1. \A r \in Query : at[r] # "del"
    BY <1>1, OnlyOwner, Zenon DEF IInv
  <2>. QED
    BY <1>1, <2>1, CacheShrinks, Zenon DEF IInv
<1>4. QueryOK(q)'
  <2>1. QueryOK(q) /\ ReadOK(q) /\ at'[q] = "done"
    BY <1>1, Zenon DEF IInv, TypeOK, QueryOK
  <2>2. \A i \in Covers(ext[q]) : buf[q][i] = mem[i]
    BY <1>1, <2>1, NoParts, Zenon DEF ReadOK, Needs, Among
  <2>. QED
    BY <1>1, <2>1, <2>2, Zenon DEF QueryOK, ReadOK, WriteOK, DeletedOK, DoneOK
<1>. QED
  BY <1>1, <1>2, <1>3, <1>4, OthersOK, Zenon DEF IInv

LEMMA MergeIInv == ASSUME IInv, NEW q \in Query, Merge(q) PROVE IInv'
<1>1. /\ at[q] = "read" /\ todo[q] = <<>> /\ op[q] = "write" /\ owner = q
      /\ buf' = [buf EXCEPT ![q] = Overlay(buf[q], value[q], ext[q])]
      /\ at' = [at EXCEPT ![q] = "write"]
      /\ UNCHANGED <<combined, format, mem, cache, owner, op, ext, uncached, value, todo, out, good>>
  BY OnlyOwner, Zenon DEF Merge, Put, fixed, local, IInv
<1>2. TypeOK'
  <2>1. /\ at' \in [Query -> {"idle", "start", "read", "add", "write", "del", "done", "failed"}]
        /\ \A r \in Query : at'[r] # "idle" <=> owner' = r
    BY <1>1, Zenon DEF IInv, TypeOK
  <2>2. Overlay(buf[q], value[q], ext[q]) \in Array
    BY SMTT(30) DEF IInv, TypeOK, Array, Overlay
  <2>3. buf' \in [Query -> Array]
    BY <1>1, <2>2, Zenon DEF IInv, TypeOK
  <2>. QED
    BY <1>1, <2>1, <2>3, Zenon DEF IInv, TypeOK
<1>3. CacheOK'
  <2>1. \A r \in Query : at[r] # "del"
    BY <1>1, OnlyOwner, Zenon DEF IInv
  <2>. QED
    BY <1>1, <2>1, CacheShrinks, Zenon DEF IInv
<1>4. QueryOK(q)'
  <2>1. QueryOK(q) /\ ReadOK(q) /\ at'[q] = "write" /\ ext[q] \in Extension
    BY <1>1, Zenon DEF IInv, TypeOK, QueryOK
  <2>2. \A i \in Elements : buf'[q][i] = IF i \in Covers(ext[q]) THEN value[q][i] ELSE buf[q][i]
    BY <1>1, Zenon DEF IInv, TypeOK, Overlay
  <2>3. /\ Covers(ext[q]) \subseteq Elements /\ ToWrite(ext[q])' = ToWrite(ext[q])
        /\ Deleted(ext[q])' = Deleted(ext[q])
    BY <1>1, Extensions, Zenon DEF ToWrite, All, Deleted
  <2>4. out[q] = ToWrite(ext[q])
    BY <1>1, <2>1, Zenon DEF ReadOK
  <2>5. ASSUME NEW i \in Elements \ Covers(ext[q]), Among(i, Set(out[q]))
        PROVE  buf'[q][i] = mem[i]
    <3>1. combined = "aggregate" /\ ext[q] \in Elements
      BY <2>1, <2>4, <2>5, ToWriteOK, ZenonT(30) DEF IInv, TypeOK
    <3>2. buf[q][i] = mem[i]
      BY <1>1, <2>1, <3>1, NoParts, Zenon DEF ReadOK, Needs, Among
    <3>. QED
      BY <2>2, <3>2, Zenon
  <2>6. \A i \in Covers(ext[q]) : buf'[q][i] = value[q][i] /\ Among(i, Set(out[q]))
    BY <2>1, <2>2, <2>3, <2>4, ToWriteOK, Zenon DEF IInv, TypeOK
  <2>7. WriteOK(q)'
    BY <1>1, <2>1, <2>3, <2>4, <2>5, <2>6, Zenon DEF WriteOK, Left
  <2>. QED
    BY <1>1, <2>1, <2>3, <2>7, Zenon DEF QueryOK, ReadOK, DeletedOK, DoneOK
<1>. QED
  BY <1>1, <1>2, <1>3, <1>4, OthersOK, Zenon DEF IInv

\* What a write, successful or not, does to the device.
LEMMA Written ==
    ASSUME TypeOK, NEW q \in Query, WriteDevice(q)
    PROVE  /\ mem' \in Array
           /\ \A i \in Elements :
                  mem'[i] = mem[i] \/ (mem'[i] = buf[q][i] /\ i \in Covers(Head(out[q])))
<1>. DEFINE e == Head(out[q])
<1>1. /\ mem \in [Elements -> Val] /\ buf[q] \in [Elements -> Val]
      /\ Covers(e) \subseteq Elements
  BY Extensions, Zenon DEF TypeOK, Array
<1>2. \E S \in SUBSET Covers(e) : mem' = [i \in Elements |-> IF i \in S THEN buf[q][i] ELSE mem[i]]
  <2>1. CASE mem' = Overlay(mem, buf[q], e)
    <3>1. mem' = [i \in Elements |-> IF i \in Covers(e) THEN buf[q][i] ELSE mem[i]]
      BY <2>1, Zenon DEF Overlay
    <3>2. Covers(e) \in SUBSET Covers(e)
      BY Zenon
    <3>. QED
      BY <3>1, <3>2, Zenon
  <2>. QED
    BY <2>1, Zenon DEF WriteDevice
<1>3. PICK S \in SUBSET Covers(e) : mem' = [i \in Elements |-> IF i \in S THEN buf[q][i] ELSE mem[i]]
  BY <1>2, Zenon
<1>. HIDE DEF e
<1>4. \A i \in Elements : mem'[i] = IF i \in S THEN buf[q][i] ELSE mem[i]
  BY <1>3, Zenon
<1>5. mem' \in [Elements -> Val]
  BY <1>1, <1>3, Zenon
<1>6. S \subseteq Covers(e)
  BY <1>3, Zenon
<1>7. \A i \in Elements : mem'[i] = mem[i] \/ (mem'[i] = buf[q][i] /\ i \in Covers(e))
  BY <1>4, <1>6, Zenon
<1>. QED
  BY <1>5, <1>7, Zenon DEF Array, e

\* A write reaches no entry but the one that is deleted next.
LEMMA WriteDeviceIInv == ASSUME IInv, NEW q \in Query, WriteDevice(q) PROVE IInv'
<1>. DEFINE e == Head(out[q])
<1>1. /\ at[q] = "write" /\ owner = q /\ out[q] # <<>>
      /\ at' = [at EXCEPT ![q] = "del"]
      /\ UNCHANGED <<combined, format, cache, owner, op, ext, uncached, value, todo, out, buf>>
  BY OnlyOwner, Zenon DEF WriteDevice, Put, fixed, local, IInv
<1>2. \/ mem' = Overlay(mem, buf[q], e) /\ good' = good
      \/ /\ \E S \in SUBSET Covers(e) : mem' = [i \in Elements |-> IF i \in S THEN buf[q][i] ELSE mem[i]]
         /\ good' = [good EXCEPT ![q] = FALSE]
  BY ZenonT(30) DEF WriteDevice, Put
<1>3. /\ e \in Extension /\ Covers(e) \subseteq Elements /\ e \in Set(out[q])
      /\ Tail(out[q]) \in Seq(Extension)
      /\ \A x \in Set(out[q]) : x = e \/ x \in Set(Tail(out[q]))
  BY <1>1, Parts, Extensions, Zenon DEF IInv, TypeOK
<1>4. QueryOK(q) /\ WriteOK(q) /\ DeletedOK(q) /\ ext[q] \in Extension /\ Covers(ext[q]) \subseteq Elements
  BY Extensions, Zenon DEF IInv, TypeOK, QueryOK
<1>. HIDE DEF e
<1>5. /\ mem' \in Array
      /\ \A i \in Elements : mem'[i] = mem[i] \/ (mem'[i] = buf[q][i] /\ i \in Covers(e))
      /\ good' \in [Query -> BOOLEAN]
  <2>1. good' \in [Query -> BOOLEAN]
    BY <1>2, Zenon DEF IInv, TypeOK
  <2>. QED
    BY <2>1, Written, Zenon DEF IInv, e
<1>6. good'[q] => good[q] /\ \A i \in Covers(e) : mem'[i] = buf[q][i]
  BY <1>2, <1>3, Zenon DEF IInv, TypeOK, Overlay
<1>7. TypeOK'
  <2>1. /\ at' \in [Query -> {"idle", "start", "read", "add", "write", "del", "done", "failed"}]
        /\ \A r \in Query : at'[r] # "idle" <=> owner' = r
    BY <1>1, Zenon DEF IInv, TypeOK
  <2>. QED
    BY <1>1, <1>5, <2>1, Zenon DEF IInv, TypeOK
<1>8. CacheOK'
  <2>1. SUFFICES ASSUME NEW x \in Extension, cache'[x] # None
                 PROVE  /\ Cacheable' /\ Usable(x)' /\ cache'[x] \in [Covers(x) -> Val]
                        /\ Coherent(x)' \/ \E r \in Query : at'[r] = "del" /\ x = Head(out'[r])
    BY Zenon DEF CacheOK
  <2>2. /\ Cacheable' = Cacheable /\ Usable(x)' = Usable(x) /\ cache'[x] = cache[x]
        /\ at'[q] = "del" /\ Head(out'[q]) = e
    BY <1>1, Zenon DEF Cacheable, Usable, IInv, TypeOK, e
  <2>3. Cacheable /\ Usable(x) /\ Coherent(x) /\ cache[x] \in [Covers(x) -> Val]
    BY <1>1, <2>1, <2>2, AllCoherent, Zenon DEF IInv, CacheOK
  <2>4. CASE x # e
    <3>1. x \notin Deleted(ext[q])
      BY <1>1, <1>4, <2>1, <2>2, Zenon DEF DeletedOK, WriteOK
    <3>2. e \in Set(ToWrite(ext[q]))
      BY <1>1, <1>3, <1>4, Zenon DEF WriteOK
    <3>3. Covers(x) \cap Covers(e) = {}
      BY <1>4, <2>3, <2>4, <3>1, <3>2, Disjoint, Zenon DEF IInv, TypeOK
    <3>4. \A i \in Covers(x) : mem'[i] = mem[i]
      BY <1>5, <3>3, Extensions, Zenon
    <3>. QED
      BY <2>2, <2>3, <3>4, Zenon DEF Coherent
  <2>. QED
    BY <2>2, <2>3, <2>4, Zenon
<1>9. QueryOK(q)'
  <2>1. /\ at'[q] = "del" /\ ToWrite(ext[q])' = ToWrite(ext[q]) /\ Deleted(ext[q])' = Deleted(ext[q])
        /\ Left(q)' = Tail(out[q]) /\ Left(q) = out[q]
    BY <1>1, Zenon DEF IInv, TypeOK, ToWrite, All, Deleted, Left
  <2>2. \A i \in Elements \ Covers(ext[q]) : Among(i, Set(out[q])) => buf[q][i] = mem'[i]
    BY <1>1, <1>4, <1>5, Zenon DEF WriteOK
  <2>3. ASSUME good'[q], NEW i \in Covers(ext[q])
        PROVE  mem'[i] = value[q][i] \/ Among(i, Set(Tail(out[q])))
    <3>1. buf[q][i] = value[q][i] /\ (mem[i] = value[q][i] \/ Among(i, Set(out[q])))
      BY <1>1, <1>4, <1>6, <2>1, <2>3, Zenon DEF WriteOK
    <3>2. CASE i \in Covers(e)
      BY <1>6, <2>3, <3>1, <3>2, ZenonT(30)
    <3>3. CASE i \notin Covers(e)
      BY <1>3, <1>4, <1>5, <3>1, <3>3, Zenon DEF Among
    <3>. QED
      BY <3>2, <3>3, Zenon
  <2>4. WriteOK(q)'
    BY <1>1, <1>4, <2>1, <2>2, <2>3, Zenon DEF WriteOK
  <2>. QED
    BY <1>1, <1>4, <2>1, <2>4, Zenon DEF QueryOK, ReadOK, WriteOK, DeletedOK, DoneOK
<1>. QED
  BY <1>1, <1>7, <1>8, <1>9, OthersOK, Zenon DEF IInv

LEMMA DelWrittenIInv == ASSUME IInv, NEW q \in Query, DelWritten(q) PROVE IInv'
<1>1. /\ at[q] = "del" /\ owner = q /\ cache' = Forget(cache, {Head(out[q])})
      /\ out' = [out EXCEPT ![q] = Tail(out[q])] /\ at' = [at EXCEPT ![q] = "write"]
      /\ UNCHANGED <<combined, format, mem, owner, op, ext, uncached, value, todo, buf, good>>
  BY OnlyOwner, Zenon DEF DelWritten, Put, fixed, local, IInv
<1>2. QueryOK(q) /\ WriteOK(q) /\ DeletedOK(q) /\ out[q] # <<>>
  BY <1>1, Zenon DEF IInv, QueryOK, WriteOK
<1>3. /\ Head(out[q]) \in Extension /\ Tail(out[q]) \in Seq(Extension)
      /\ Set(Tail(out[q])) \subseteq Set(out[q])
  BY <1>2, Parts, Zenon DEF IInv, TypeOK
<1>4. \A x \in Extension : cache'[x] = IF x = Head(out[q]) THEN None ELSE cache[x]
  BY <1>1, Zenon DEF Forget
<1>5. TypeOK'
  <2>1. /\ at' \in [Query -> {"idle", "start", "read", "add", "write", "del", "done", "failed"}]
        /\ \A r \in Query : at'[r] # "idle" <=> owner' = r
    BY <1>1, Zenon DEF IInv, TypeOK
  <2>2. cache' \in [Extension -> {None} \cup UNION {[S -> Val] : S \in SUBSET Elements}]
    BY <1>1, Zenon DEF IInv, TypeOK, Forget
  <2>3. out' \in [Query -> Seq(Extension)]
    BY <1>1, <1>3, Zenon DEF IInv, TypeOK
  <2>. QED
    BY <1>1, <2>1, <2>2, <2>3, ZenonT(30) DEF IInv, TypeOK
<1>6. CacheOK'
  <2>1. \A r \in Query : at[r] = "del" => r = q
    BY <1>1, OnlyOwner, Zenon DEF IInv
  <2>. QED
    BY <1>1, <1>3, <1>4, <2>1, CacheShrinks, Zenon DEF IInv
<1>7. QueryOK(q)'
  <2>1. /\ at'[q] = "write" /\ ToWrite(ext[q])' = ToWrite(ext[q]) /\ Deleted(ext[q])' = Deleted(ext[q])
        /\ out'[q] = Tail(out[q]) /\ Left(q)' = Tail(out[q]) /\ Left(q) = Tail(out[q])
    BY <1>1, Zenon DEF IInv, TypeOK, ToWrite, All, Deleted, Left
  <2>2. \A i : Among(i, Set(Tail(out[q]))) => Among(i, Set(out[q]))
    BY <1>3, Zenon DEF Among
  <2>3. WriteOK(q)'
    BY <1>1, <1>2, <1>3, <2>1, <2>2, Zenon DEF WriteOK
  <2>4. DeletedOK(q)'
    <3>1. Deleted(ext[q]) \subseteq Extension
      BY Extensions, Zenon DEF Deleted
    <3>. QED
      BY <1>1, <1>2, <1>4, <2>1, <3>1, Zenon DEF DeletedOK
  <2>. QED
    BY <1>1, <1>2, <2>1, <2>3, <2>4, Zenon DEF QueryOK, ReadOK, DoneOK
<1>. QED
  BY <1>1, <1>5, <1>6, <1>7, OthersOK, Zenon DEF IInv

LEMMA WriteDoneIInv == ASSUME IInv, NEW q \in Query, WriteDone(q) PROVE IInv'
<1>1. /\ at[q] = "write" /\ out[q] = <<>> /\ owner = q
      /\ at' = [at EXCEPT ![q] = IF good[q] THEN "done" ELSE "failed"]
      /\ UNCHANGED <<combined, format, mem, cache, owner, op, ext, uncached, value, todo, out, buf, good>>
  BY OnlyOwner, Zenon DEF WriteDone, Put, fixed, local, IInv
<1>2. TypeOK'
  <2>1. /\ at' \in [Query -> {"idle", "start", "read", "add", "write", "del", "done", "failed"}]
        /\ \A r \in Query : at'[r] # "idle" <=> owner' = r
    BY <1>1, Zenon DEF IInv, TypeOK
  <2>. QED
    BY <1>1, <2>1, Zenon DEF IInv, TypeOK
<1>3. CacheOK'
  <2>1. \A r \in Query : at[r] # "del"
    BY <1>1, OnlyOwner, Zenon DEF IInv
  <2>. QED
    BY <1>1, <2>1, CacheShrinks, Zenon DEF IInv
<1>4. QueryOK(q)'
  <2>1. QueryOK(q) /\ WriteOK(q) /\ at'[q] = IF good[q] THEN "done" ELSE "failed"
    BY <1>1, Zenon DEF IInv, TypeOK, QueryOK
  <2>2. op[q] = "write" /\ (good[q] => \A i \in Covers(ext[q]) : mem[i] = value[q][i])
    BY <1>1, <2>1, NoParts, Zenon DEF WriteOK, Left, Among
  <2>3. /\ at'[q] \in {"done", "failed"} /\ (at'[q] = "done" => good[q])
        /\ op'[q] = "write" /\ ext'[q] = ext[q]
    <3>1. op'[q] = "write" /\ ext'[q] = ext[q]
      BY <1>1, <2>2, Zenon
    <3>2. CASE good[q]
      BY <2>1, <3>1, <3>2, Zenon
    <3>3. CASE ~good[q]
      BY <2>1, <3>1, <3>3, Zenon
    <3>. QED BY <3>2, <3>3, Zenon
  <2>4. ReadOK(q)' /\ WriteOK(q)' /\ DeletedOK(q)'
    BY <2>3, ZenonT(30) DEF ReadOK, WriteOK, DeletedOK
  <2>5. DoneOK(q)'
    BY <1>1, <2>2, <2>3, Zenon DEF DoneOK
  <2>. QED
    BY <1>1, <2>1, <2>3, <2>4, <2>5, Zenon DEF QueryOK
<1>. QED
  BY <1>1, <1>2, <1>3, <1>4, OthersOK, Zenon DEF IInv

LEMMA ReleaseIInv == ASSUME IInv, NEW q \in Query, Release(q) PROVE IInv'
<1>1. /\ at[q] \in {"done", "failed"} /\ owner = q /\ owner' = None
      /\ at' = [at EXCEPT ![q] = "idle"] /\ op' = [op EXCEPT ![q] = "read"]
      /\ ext' = [ext EXCEPT ![q] = ALL] /\ uncached' = [uncached EXCEPT ![q] = FALSE]
      /\ value' = [value EXCEPT ![q] = Blank] /\ buf' = [buf EXCEPT ![q] = Blank]
      /\ todo' = [todo EXCEPT ![q] = <<>>] /\ out' = [out EXCEPT ![q] = <<>>]
      /\ good' = [good EXCEPT ![q] = TRUE]
      /\ UNCHANGED <<combined, format, mem, cache>>
  BY OnlyOwner, Zenon DEF Release, Ended, Put, fixed, IInv
<1>2. TypeOK'
  <2>1. /\ at' \in [Query -> {"idle", "start", "read", "add", "write", "del", "done", "failed"}]
        /\ \A r \in Query : at'[r] # "idle" <=> owner' = r
    BY <1>1, ReadWriteAssumption, Zenon DEF IInv, TypeOK
  <2>2. /\ value' \in [Query -> Array] /\ buf' \in [Query -> Array] /\ ext' \in [Query -> Extension]
        /\ todo' \in [Query -> Seq(Extension)] /\ out' \in [Query -> Seq(Extension)]
    BY <1>1, Entries, Extensions, NoParts, ZenonT(30) DEF IInv, TypeOK
  <2>3. op' \in [Query -> {"read", "write"}] /\ uncached' \in [Query -> BOOLEAN] /\ good' \in [Query -> BOOLEAN]
    BY <1>1, Zenon DEF IInv, TypeOK
  <2>. QED
    BY <1>1, <2>1, <2>2, <2>3, ZenonT(30) DEF IInv, TypeOK
<1>3. CacheOK'
  <2>1. \A r \in Query : at[r] # "del"
    BY <1>1, OnlyOwner, Zenon DEF IInv
  <2>. QED
    BY <1>1, <2>1, CacheShrinks, Zenon DEF IInv
<1>4. QueryOK(q)'
  <2>1. at'[q] = "idle"
    BY <1>1, Zenon DEF IInv, TypeOK
  <2>. QED
    BY <2>1, ZenonT(30) DEF QueryOK, ReadOK, WriteOK, DeletedOK, DoneOK
<1>. QED
  BY <1>1, <1>2, <1>3, <1>4, OthersOK, Zenon DEF IInv

LEMMA ExpireIInv == ASSUME IInv, NEW e \in Extension, Expire(e) PROVE IInv'
<1>1. /\ cache' = Forget(cache, {e})
      /\ UNCHANGED <<combined, format, mem, owner, at, op, ext, uncached, value, todo, out, buf, good>>
  BY Zenon DEF Expire, fixed, local
<1>2. \A x \in Extension : cache'[x] = None \/ cache'[x] = cache[x]
  BY <1>1, Zenon DEF Forget
<1>3. TypeOK'
  <2>1. cache' \in [Extension -> {None} \cup UNION {[S -> Val] : S \in SUBSET Elements}]
    BY <1>1, Zenon DEF IInv, TypeOK, Forget
  <2>. QED
    BY <1>1, <2>1, ZenonT(30) DEF IInv, TypeOK
<1>4. CacheOK'
  BY <1>1, <1>2, CacheShrinks, Zenon DEF IInv
<1>5. ASSUME NEW q \in Query PROVE QueryOK(q)'
  <2>1. QueryOK(q)
    BY Zenon DEF IInv
  <2>2. /\ Needs(q)' = Needs(q) /\ ToWrite(ext[q])' = ToWrite(ext[q]) /\ Left(q)' = Left(q)
        /\ Deleted(ext[q])' = Deleted(ext[q]) /\ \A x : Usable(x)' = Usable(x)
    BY <1>1, Zenon DEF Needs, ToWrite, All, Deleted, Usable, Cacheable, Left
  <2>3. ReadOK(q)' /\ WriteOK(q)' /\ DoneOK(q)'
    BY <1>1, <2>1, <2>2, Zenon DEF QueryOK, ReadOK, WriteOK, DoneOK
  <2>4. DeletedOK(q)'
    <3>1. Deleted(ext[q]) \subseteq Extension
      BY Extensions, Zenon DEF Deleted
    <3>. QED
      BY <1>1, <1>2, <2>1, <2>2, <3>1, Zenon DEF QueryOK, DeletedOK
  <2>. QED
    BY <1>1, <2>1, <2>3, <2>4, Zenon DEF QueryOK
<1>. QED
  BY <1>3, <1>4, <1>5, Zenon DEF IInv

LEMMA StutterIInv == ASSUME IInv, UNCHANGED vars PROVE IInv'
<1>1. UNCHANGED <<combined, format, mem, cache, owner, at, op, ext, uncached, value, todo, out, buf, good>>
  BY Zenon DEF vars
<1>2. TypeOK'
  BY <1>1, Zenon DEF IInv, TypeOK
<1>3. CacheOK'
  BY <1>1, CacheShrinks, Zenon DEF IInv
<1>4. ASSUME NEW q \in Query PROVE QueryOK(q)'
  <2>1. QueryOK(q)
    BY Zenon DEF IInv
  <2>2. /\ Needs(q)' = Needs(q) /\ ToWrite(ext[q])' = ToWrite(ext[q]) /\ Left(q)' = Left(q)
        /\ Deleted(ext[q])' = Deleted(ext[q]) /\ \A x : Usable(x)' = Usable(x)
    BY <1>1, Zenon DEF Needs, ToWrite, All, Deleted, Usable, Cacheable, Left
  <2>. QED
    BY <1>1, <2>1, <2>2, Zenon DEF QueryOK, ReadOK, WriteOK, DeletedOK, DoneOK
<1>. QED
  BY <1>2, <1>3, <1>4, Zenon DEF IInv

-----------------------------------------------------------------------------
LEMMA NextIInv == IInv /\ [Next]_vars => IInv'
<1>. SUFFICES ASSUME IInv, [Next]_vars PROVE IInv'
  BY Zenon
<1>1. ASSUME NEW q \in Query, Request(q) \/ Step(q) PROVE IInv'
  BY <1>1, RequestIInv, DispatchIInv, ReadCachedIInv, ReadDeviceIInv, AddToCacheIInv, ReadDoneIInv,
     MergeIInv, WriteDeviceIInv, DelWrittenIInv, WriteDoneIInv, ReleaseIInv, Zenon DEF Step
<1>. QED
  BY <1>1, ExpireIInv, StutterIInv, Zenon DEF Next

LEMMA Invariance == Spec => []IInv
  BY InitIInv, NextIInv, PTL DEF Spec

\* Every variable keeps its type, and the lock its one owner.
THEOREM TypeCorrect == Spec => []TypeOK
<1>1. IInv => TypeOK
  BY Zenon DEF IInv
<1>. QED
  BY <1>1, Invariance, PTL

\* FS_r_local gives what is in the device, for every kind of aggregate, every
\* format and every extension, cached or not.
THEOREM ReadCurrentHolds == Spec => []ReadCurrent
<1>1. IInv => ReadCurrent
  BY Zenon DEF IInv, QueryOK, DoneOK, ReadCurrent
<1>. QED
  BY <1>1, Invariance, PTL

\* FS_w_local reports success only if every element it was given is written.
THEOREM WriteCompleteHolds == Spec => []WriteComplete
<1>1. IInv => WriteComplete
  BY Zenon DEF IInv, QueryOK, DoneOK, WriteComplete
<1>. QED
  BY <1>1, Invariance, PTL

\* OWQ_Cache_Del and the deletion of parts and wholes leave nothing stale.
THEOREM CacheCoherentHolds == Spec => []CacheCoherent
<1>1. ASSUME IInv PROVE CacheCoherent
  <2>1. owner = None => \A q \in Query : at[q] # "del"
    BY <1>1, ReadWriteAssumption, Zenon DEF IInv, TypeOK
  <2>. QED
    BY <1>1, <2>1, Zenon DEF IInv, CacheOK, CacheCoherent, Coherent
<1>. QED
  BY <1>1, Invariance, PTL

\* FS_write_a_part and FS_write_a_bit write the other elements back as they
\* were.
THEOREM OthersKeptHolds == Spec => OthersKept
<1>1. ASSUME IInv, NEW q \in Query, WriteDevice(q), NEW i \in Elements \ Covers(ext[q])
      PROVE  mem'[i] = mem[i]
  <2>. DEFINE e == Head(out[q])
  <2>1. at[q] = "write" /\ out[q] # <<>> /\ WriteOK(q)
    BY <1>1, Zenon DEF WriteDevice, IInv, QueryOK
  <2>2. e \in Set(out[q])
    BY <1>1, <2>1, Parts, Zenon DEF IInv, TypeOK
  <2>3. mem'[i] = mem[i] \/ (mem'[i] = buf[q][i] /\ i \in Covers(e))
    BY <1>1, Written, Zenon DEF IInv
  <2>4. i \in Covers(e) => buf[q][i] = mem[i]
    BY <2>1, <2>2, Zenon DEF WriteOK, Among
  <2>. QED
    BY <2>3, <2>4, Zenon
<1>2. IInv /\ [Next]_vars =>
        [\A q \in Query : WriteDevice(q) => \A i \in Elements \ Covers(ext[q]) : mem'[i] = mem[i]]_vars
  BY <1>1, Zenon
<1>. QED
  BY <1>2, Invariance, PTL DEF Spec, OthersKept
=============================================================================
