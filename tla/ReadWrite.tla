----------------------------- MODULE ReadWrite -----------------------------
(* Reading and writing an array property of a device (ow_read.c, ow_write.c) *)
(* through the cache.  A property is asked for by element (.0, .1, ...), as  *)
(* a whole (.ALL) or, if its elements are bits, as a number (.BYTE); how it  *)
(* is asked for, how the device gives it and under which key it is cached    *)
(* are three different things, and FS_r_local and FS_w_local turn each into  *)
(* the others.                                                               *)
(*                                                                           *)
(* Queries of one device are kept apart by its lock (see DeviceLock); here   *)
(* that is the variable owner.  The cache is what Cache promises: a lookup   *)
(* gives the value stored last, or nothing.  The property is one that only   *)
(* writes change, and any access to the device may fail.                     *)
(*                                                                           *)
(* Its elements are numbers or bits.  Strings that the device only takes all *)
(* at once are in no table of properties: they can only be declared as an    *)
(* external property (ow_parse_external.c:362), and those take no device     *)
(* lock (ow_devicelock.c:71).  The branch FS_write_a_part has for them       *)
(* (ow_write.c:527-562), in which the loop over the elements before the      *)
(* written one counts the wrong variable and never ends, is therefore never  *)
(* taken under the lock, and is not modelled.                                *)
EXTENDS Integers, Sequences

CONSTANTS
    Query,      \* threads with a query for this property
    N,          \* ag->elements
    Val,        \* values of an element
    Formats,    \* of {"number", "bitfield"}
    None

ASSUME ReadWriteAssumption ==
    /\ N \in Nat /\ Val # {}
    /\ Formats \subseteq {"number", "bitfield"} /\ None \notin Query

Elements == 0..(N - 1)
ALL == -1           \* EXTENSION_ALL
BYTE == -2          \* EXTENSION_BYTE
Extension == Elements \cup {ALL, BYTE}

\* The elements an extension stands for.
Covers(e) == IF e \in Elements THEN {e} ELSE Elements

VARIABLES
    combined, format,   \* of the property, fixed
    mem,                \* the elements in the device
    cache,              \* extension -> what is cached for it, or None
    owner,              \* the query that has the device lock
    at, op, ext,        \* of each query: place in the code, and what it is for
    uncached,           \* it came by way of /uncached
    value,              \* what it writes
    todo,               \* native extensions it has yet to read
    out,                \* native extensions it has yet to write
    buf,                \* what it has read: owq_all, owq_byte or its own buffer
    good                \* no write of it failed

vars == <<combined, format, mem, cache, owner, at, op, ext, uncached, value, todo, out, buf, good>>
local == <<op, ext, uncached, value>>
fixed == <<combined, format>>

Array == [Elements -> Val]

\* The buffers of a query that has ended.
Blank == CHOOSE a \in Array : TRUE

TypeOK ==
    /\ combined \in {"aggregate", "mixed", "separate"} /\ format \in Formats
    /\ mem \in Array
    /\ cache \in [Extension -> {None} \cup UNION {[S -> Val] : S \in SUBSET Elements}]
    /\ owner \in Query \cup {None}
    /\ at \in [Query -> {"idle", "start", "read", "add", "write", "del", "done", "failed"}]
    /\ \A q \in Query : at[q] # "idle" <=> owner = q
    /\ op \in [Query -> {"read", "write"}] /\ ext \in [Query -> Extension]
    /\ uncached \in [Query -> BOOLEAN]
    /\ value \in [Query -> Array] /\ buf \in [Query -> Array]
    /\ todo \in [Query -> Seq(Extension)] /\ out \in [Query -> Seq(Extension)]
    /\ good \in [Query -> BOOLEAN]

Init ==
    /\ combined \in {"aggregate", "mixed", "separate"} /\ format \in Formats
    /\ mem \in Array
    /\ cache = [e \in Extension |-> None]
    /\ owner = None
    /\ at = [q \in Query |-> "idle"] /\ op = [q \in Query |-> "read"]
    /\ ext = [q \in Query |-> ALL] /\ uncached = [q \in Query |-> FALSE]
    /\ value = [q \in Query |-> Blank] /\ buf = [q \in Query |-> Blank]
    /\ todo = [q \in Query |-> <<>>] /\ out = [q \in Query |-> <<>>]
    /\ good = [q \in Query |-> TRUE]

-----------------------------------------------------------------------------
(* Which native extensions a request comes down to *)

All == IF format = "bitfield" THEN BYTE ELSE ALL

\* Variant: the loop over the elements ends one too early.
EachElement_Short == [i \in 1..(N - 1) |-> i - 1]

EachElement == [i \in 1..N |-> i - 1]

\* FS_r_local: what is read for extension e.
ToRead(e) ==
    CASE combined = "aggregate" -> <<All>>
      [] combined = "mixed"     -> IF e \in Elements THEN <<e>> ELSE <<All>>
      [] combined = "separate"  -> IF e \in Elements THEN <<e>>
                                   ELSE IF e = ALL /\ format = "bitfield" THEN <<BYTE>>
                                   ELSE EachElement

\* FS_w_local: what is read before a write, to be written back with it, by
\* FS_write_a_part and FS_write_a_bit ...
ToReadFirst(e) == IF combined = "aggregate" /\ e \in Elements THEN <<All>> ELSE <<>>

\* ... and what is written.
ToWrite(e) ==
    CASE combined = "aggregate" -> <<All>>
      [] combined = "mixed"     -> IF e \in Elements THEN <<e>> ELSE <<All>>
      [] combined = "separate"  -> IF e \in Elements THEN <<e>> ELSE EachElement

\* OWQ_Cache_Del_parts, OWQ_Cache_Del_ALL and OWQ_Cache_Del_BYTE: what a
\* request for e deletes from the cache before anything else.
Deleted(e) ==
    IF combined # "mixed" THEN {}
    ELSE IF e \in Elements THEN {ALL, BYTE} ELSE Elements

\* OWQ_Cache_Add and OWQ_Cache_Get handle no format but numbers here.
Cacheable == format = "number"

Forget(c, es) == [e \in Extension |-> IF e \in es THEN None ELSE c[e]]

\* Replace in a the elements that e stands for by those of b.
Overlay(a, b, e) == [i \in Elements |-> IF i \in Covers(e) THEN b[i] ELSE a[i]]

-----------------------------------------------------------------------------
(* A query *)

Put(f, q, x) == f' = [f EXCEPT ![q] = x]

\* FS_r_given_bus and FS_w_given_bus get the device lock.
Start(q, o, e, u, v) ==
    /\ at[q] = "idle" /\ owner = None
    /\ owner' = q
    /\ Put(at, q, "start") /\ Put(op, q, o) /\ Put(ext, q, e)
    /\ Put(uncached, q, u) /\ Put(value, q, v) /\ Put(good, q, TRUE)
    /\ UNCHANGED <<fixed, mem, cache, todo, out, buf>>

\* FS_r_local and FS_w_local up to the first access to the property.
Dispatch(q) ==
    /\ at[q] = "start"
    /\ cache' = Forget(cache, Deleted(ext[q]))
    /\ \/ op[q] = "read" /\ Put(todo, q, ToRead(ext[q])) /\ UNCHANGED out
       \/ op[q] = "write" /\ Put(todo, q, ToReadFirst(ext[q])) /\ Put(out, q, ToWrite(ext[q]))
    /\ Put(at, q, "read")
    /\ UNCHANGED <<fixed, mem, owner, local, buf, good>>

\* Variant: after an element from the cache the loop does not move on.
ReadCached_Stays(q) ==
    /\ at[q] = "read" /\ todo[q] # <<>>
    /\ LET e == Head(todo[q]) IN
        /\ ~uncached[q] /\ cache[e] # None
        /\ Put(buf, q, [i \in Elements |-> IF i \in Covers(e) THEN cache[e][i] ELSE buf[q][i]])
    /\ UNCHANGED <<fixed, mem, cache, owner, at, local, todo, out, good>>

\* FS_read_owq: from the cache, ...
ReadCached(q) ==
    /\ at[q] = "read" /\ todo[q] # <<>>
    /\ LET e == Head(todo[q]) IN
        /\ ~uncached[q] /\ cache[e] # None
        /\ Put(buf, q, [i \in Elements |-> IF i \in Covers(e) THEN cache[e][i] ELSE buf[q][i]])
    /\ Put(todo, q, Tail(todo[q]))
    /\ UNCHANGED <<fixed, mem, cache, owner, at, local, out, good>>

\* ... or from the device, which may fail, ...
ReadDevice(q) ==
    /\ at[q] = "read" /\ todo[q] # <<>>
    /\ LET e == Head(todo[q]) IN
        /\ uncached[q] \/ cache[e] = None
        /\ \/ Put(buf, q, Overlay(buf[q], mem, e)) /\ Put(at, q, "add")
           \/ UNCHANGED buf /\ Put(at, q, "failed")
    /\ UNCHANGED <<fixed, mem, cache, owner, local, todo, out, good>>

\* ... and what was read from the device is cached, by way of /uncached too,
\* unless the cache refuses it (no timeout for it, no memory, no room).
AddToCache(q) ==
    /\ at[q] = "add"
    /\ LET e == Head(todo[q]) IN
        \/ Cacheable /\ cache' = [cache EXCEPT ![e] = [i \in Covers(e) |-> buf[q][i]]]
        \/ UNCHANGED cache
    /\ Put(todo, q, Tail(todo[q])) /\ Put(at, q, "read")
    /\ UNCHANGED <<fixed, mem, owner, local, out, buf, good>>

\* A read has all it needs; it copies its own element or bit out of buf.
ReadDone(q) ==
    /\ at[q] = "read" /\ todo[q] = <<>> /\ op[q] = "read"
    /\ Put(at, q, "done")
    /\ UNCHANGED <<fixed, mem, cache, owner, local, todo, out, buf, good>>

\* Variant: the array is filled from the request alone.
Merge_NoRead(q) ==
    /\ at[q] = "read" /\ op[q] = "write"
    /\ Put(buf, q, value[q]) /\ Put(todo, q, <<>>)
    /\ Put(at, q, "write")
    /\ UNCHANGED <<fixed, mem, cache, owner, local, out, good>>

\* A write puts its number or bit into what it has read, or its elements into
\* nothing read.
Merge(q) ==
    /\ at[q] = "read" /\ todo[q] = <<>> /\ op[q] = "write"
    /\ Put(buf, q, Overlay(buf[q], value[q], ext[q]))
    /\ Put(at, q, "write")
    /\ UNCHANGED <<fixed, mem, cache, owner, local, todo, out, good>>

\* FS_write_owq: if the write fails, some of it may have reached the device.
WriteDevice(q) ==
    /\ at[q] = "write" /\ out[q] # <<>>
    /\ LET e == Head(out[q]) IN
        \/ mem' = Overlay(mem, buf[q], e) /\ UNCHANGED good
        \/ /\ \E S \in SUBSET Covers(e) : mem' = [i \in Elements |-> IF i \in S THEN buf[q][i] ELSE mem[i]]
           /\ Put(good, q, FALSE)
    /\ Put(at, q, "del")
    /\ UNCHANGED <<fixed, cache, owner, local, todo, out, buf>>

\* Variant: the entry is only deleted after a write that went well.
DelWritten_IfGood(q) ==
    /\ at[q] = "del"
    /\ cache' = IF good[q] THEN Forget(cache, {Head(out[q])}) ELSE cache
    /\ Put(out, q, Tail(out[q])) /\ Put(at, q, "write")
    /\ UNCHANGED <<fixed, mem, owner, local, todo, buf, good>>

\* "Delete anyways"
DelWritten(q) ==
    /\ at[q] = "del"
    /\ cache' = Forget(cache, {Head(out[q])})
    /\ Put(out, q, Tail(out[q])) /\ Put(at, q, "write")
    /\ UNCHANGED <<fixed, mem, owner, local, todo, buf, good>>

\* Variant: the outcome of the parts is not passed on.
WriteDone_Forgets(q) ==
    /\ at[q] = "write" /\ out[q] = <<>>
    /\ Put(at, q, "done")
    /\ UNCHANGED <<fixed, mem, cache, owner, local, todo, out, buf, good>>

\* Every part has been tried, those after one that failed included.
WriteDone(q) ==
    /\ at[q] = "write" /\ out[q] = <<>>
    /\ Put(at, q, IF good[q] THEN "done" ELSE "failed")
    /\ UNCHANGED <<fixed, mem, cache, owner, local, todo, out, buf, good>>

\* The lock is given back and the query destroyed.
Ended(q) ==
    /\ owner' = None /\ Put(at, q, "idle")
    /\ Put(op, q, "read") /\ Put(ext, q, ALL) /\ Put(uncached, q, FALSE)
    /\ Put(value, q, Blank) /\ Put(buf, q, Blank)
    /\ Put(todo, q, <<>>) /\ Put(out, q, <<>>) /\ Put(good, q, TRUE)
    /\ UNCHANGED <<fixed, mem, cache>>

\* DeviceLockRelease, with or without success.
Release(q) ==
    /\ at[q] \in {"done", "failed"}
    /\ Ended(q)

\* The cache may lose any entry at any time.
Expire(e) ==
    /\ cache[e] # None /\ cache' = Forget(cache, {e})
    /\ UNCHANGED <<fixed, mem, owner, at, local, todo, out, buf, good>>

\* .BYTE is only there for bits (FS_ParsedName).  A write may come by way of
\* /uncached too: the read before it has a copy of its parsed name.
Request(q) ==
    \E o \in {"read", "write"}, e \in Extension, u \in BOOLEAN, v \in Array :
        /\ e = BYTE => format = "bitfield"
        /\ o = "read" => v = value[q]
        /\ Start(q, o, e, u, v)

Step(q) ==
    \/ Dispatch(q) \/ ReadCached(q) \/ ReadDevice(q) \/ AddToCache(q)
    \/ ReadDone(q) \/ Merge(q) \/ WriteDevice(q) \/ DelWritten(q)
    \/ WriteDone(q) \/ Release(q)

Next == (\E q \in Query : Request(q) \/ Step(q)) \/ \E e \in Extension : Expire(e)

Spec == Init /\ [][Next]_vars

FairSpec == Spec /\ \A q \in Query : WF_vars(Step(q))

-----------------------------------------------------------------------------
(* Properties *)

\* A read gives what is in the device: whichever way earlier reads filled the
\* cache and earlier writes changed the device, succeeded or failed half-way.
ReadCurrent ==
    \A q \in Query : at[q] = "done" /\ op[q] = "read" =>
        \A i \in Covers(ext[q]) : buf[q][i] = mem[i]

\* A write that reports success has put all it was given into the device.
WriteComplete ==
    \A q \in Query : at[q] = "done" /\ op[q] = "write" =>
        \A i \in Covers(ext[q]) : mem[i] = value[q][i]

\* Between queries no stale entry is in the cache, under any extension.
CacheCoherent ==
    owner = None => \A e \in Extension : cache[e] # None => \A i \in Covers(e) : cache[e][i] = mem[i]

\* Writing one element leaves the others as they are, although the device may
\* only take them all at once.
OthersKept ==
    [][\A q \in Query : WriteDevice(q) => \A i \in Elements \ Covers(ext[q]) : mem'[i] = mem[i]]_vars

\* The device lock comes back after every query for an array of numbers or of
\* bits, the arrays whose queries take it in the code: however many parts are
\* read and written, from the cache or from the device, and whichever fail.
LockComesBack == \A q \in Query : owner = q ~> owner # q
=============================================================================
