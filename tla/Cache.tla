------------------------------- MODULE Cache -------------------------------
(* The timed cache of owlib (ow_cache.c).  Entries live in two trees.  What  *)
(* is added goes to the new tree; when the old tree has outlived its time    *)
(* FlipTree drops it whole, retires the new tree to its place and starts an  *)
(* empty one.  An entry is looked for in the new tree and then, if the old   *)
(* tree was retired recently enough for this kind of entry, in the old one.  *)
(* Deleting makes the entry it finds expired and leaves it in its tree.      *)
(*                                                                           *)
(* Every operation holds cache_mutex_rw from its first look at the trees to  *)
(* its last, so what it does there is one step.  An addition is two steps:   *)
(* the node gets its time of expiry from the clock and the timeout before    *)
(* Cache_Add_Common takes the lock.  So is FS_w_timeout: it changes the      *)
(* timeout, lets go of the lock, and then clears the cache.                  *)
(*                                                                           *)
(* Sizes are counted in units of sizeof(tn), a pointer, which is what        *)
(* Cache_Add_Common adds for every node.                                     *)
EXTENDS Integers, FiniteSets

CONSTANTS
    Item,       \* keys of values and devices
    Simul,      \* keys of simultaneous conversions
    Internal,   \* keys of what is kept for a device, extension EXTENSION_INTERNAL
    Dir,        \* keys of directories, found up to and including the last second
    Bare,       \* an internal key with extension 0, if that is a key of Simul
    Kind,       \* the timeouts there are: volatile, stable, presence, directory
    KindOf,     \* the one that TimeOut() looks at for a key
    Timeout,    \* values of timeouts, of type int
    IntMax,     \* INT_MAX
    Val,        \* what is stored
    None,       \* no value
    Lifespan,   \* cache.retired_lifespan
    CacheSize   \* Globals.cache_size, 0 for no limit

Key == Item \cup Simul \cup Internal \cup Dir
Nil == [val |-> None, expires |-> -1, there |-> FALSE]

\* retired_lifespan is the timeout of stable values at the start, at most an
\* hour; timeouts may be set to anything later, longer ones included.
ASSUME TimeAssumption ==
    /\ Lifespan \in Int /\ CacheSize \in Nat /\ IntMax \in Nat
    /\ Timeout \subseteq -(IntMax + 1)..IntMax

ASSUME KeyAssumption ==
    /\ Dir \cap (Item \cup Simul \cup Internal) = {} /\ None \notin Val \cup Key
    /\ KindOf \in [Key -> Kind]
    /\ Bare \in [Internal -> Simul \cup {None}]
    /\ \A k \in Internal : Bare[k] # None => KindOf[Bare[k]] = KindOf[k]

VARIABLES
    new, old,          \* cache.temporary_tree_new and _old
    new_ram, old_ram,  \* cache.new_ram_size, cache.old_ram_size
    time_retired, time_to_kill,
    now,               \* NOW_TIME
    timeout,           \* Globals.timeout_*
    adding,            \* a node on its way into Cache_Add_Common, with its key
    clearing,          \* some FS_w_timeout has yet to call Cache_Clear
    last, since, until, \* history: latest value stored under a key, when, and how long
    raced              \* history: a timeout changed while a node was on its way

trees == <<new, old, new_ram, old_ram, time_retired, time_to_kill>>
history == <<last, since, until, raced>>
vars == <<trees, now, timeout, adding, clearing, history>>

Node == [val : Val \cup {None}, expires : Int, there : BOOLEAN]
NoAdd == [key |-> None, node |-> Nil, at |-> 0]

TypeOK ==
    /\ new \in [Key -> Node] /\ old \in [Key -> Node]
    /\ new_ram \in Nat /\ old_ram \in Nat
    /\ now \in Nat /\ time_retired \in 0..now
    /\ time_to_kill = time_retired + Lifespan
    /\ timeout \in [Kind -> Timeout]
    /\ adding = NoAdd \/ adding \in [key : Key, node : Node, at : 0..now]
    /\ clearing \in BOOLEAN /\ raced \in BOOLEAN
    /\ last \in [Key -> Val \cup {None}] /\ since \in [Key -> 0..now]
    /\ until \in [Key -> Int]

Empty == [k \in Key |-> Nil]

TimeOut(k) == timeout[KindOf[k]]

\* Cache_Open
Init ==
    /\ new = Empty /\ old = Empty /\ new_ram = 0 /\ old_ram = 0
    /\ now = 0 /\ time_retired = 0 /\ time_to_kill = Lifespan
    /\ timeout \in [Kind -> Timeout]
    /\ adding = NoAdd /\ clearing = FALSE /\ raced = FALSE
    /\ last = [k \in Key |-> None] /\ since = [k \in Key |-> 0]
    /\ until = [k \in Key |-> 0]

-----------------------------------------------------------------------------
(* Looking up *)

\* The node that Cache_Get_Common or Cache_Get_Common_Dir looks at.
Found(k) ==
    IF new[k].there THEN new[k]
    ELSE IF time_retired + TimeOut(k) > now THEN old[k]
    ELSE Nil

\* Variant: every kind of entry lives through the second it expires in.
Live_Inclusive(k, n) == n.there /\ n.expires - now >= 0

Live(k, n) ==
    /\ n.there
    /\ IF k \in Dir THEN n.expires - now >= 0 ELSE n.expires - now > 0

\* Cache_Get, Cache_Get_Dir, Cache_Get_Device ...: None is a miss.  For a kind
\* whose timeout is zero or negative nothing is looked up.
Get(k) ==
    IF TimeOut(k) > 0 /\ Live(k, Found(k)) THEN Found(k).val ELSE None

-----------------------------------------------------------------------------
(* Changing *)

\* Cache_Add, Cache_Add_Dir, Cache_Add_Device ...: the node is made, with its
\* time of expiry.
NewNode(k, v) ==
    /\ adding = NoAdd
    /\ TimeOut(k) > 0
    /\ adding' = [key |-> k, at |-> now,
                  node |-> [val |-> v, expires |-> now + TimeOut(k), there |-> TRUE]]
    /\ UNCHANGED <<trees, now, timeout, clearing, history>>

FlipTree ==
    /\ old' = new /\ old_ram' = new_ram
    /\ time_retired' = now /\ time_to_kill' = now + Lifespan

\* The history of what was stored.
Stored(k, n) ==
    /\ last' = [last EXCEPT ![k] = n.node.val]
    /\ since' = [since EXCEPT ![k] = n.at] /\ until' = [until EXCEPT ![k] = n.node.expires]

\* Variant: a node that replaces another is counted like a new one.
Insert_Recounts(k, n, newTree, newRam) ==
    /\ new' = [newTree EXCEPT ![k] = n.node]
    /\ new_ram' = newRam + 1
    /\ Stored(k, n)

\* tsearch in the new tree: the node is added or replaces the one there.
Insert(k, n, newTree, newRam) ==
    /\ new' = [newTree EXCEPT ![k] = n.node]
    /\ new_ram' = newRam + (IF newTree[k].there THEN 0 ELSE 1)
    /\ Stored(k, n)

\* The size test before the node is inserted: if it fails the node is freed.
InsertIfRoom(k, n, newTree, newRam, oldRam) ==
    IF CacheSize # 0 /\ oldRam + newRam > CacheSize
      THEN new' = newTree /\ new_ram' = newRam /\ UNCHANGED <<last, since, until>>
      ELSE Insert(k, n, newTree, newRam)

\* Variant: the trees are flipped one lifespan too early.
Cache_Add_Common_Early(k) ==
    /\ adding.key = k
    /\ FlipTree /\ InsertIfRoom(k, adding, Empty, 0, new_ram)
    /\ adding' = NoAdd
    /\ UNCHANGED <<now, timeout, clearing, raced>>

Cache_Add_Common(k) ==
    /\ adding.key = k
    /\ \/ /\ time_to_kill < now
          /\ FlipTree /\ InsertIfRoom(k, adding, Empty, 0, new_ram)
       \/ /\ time_to_kill >= now
          /\ UNCHANGED <<old, old_ram, time_retired, time_to_kill>>
          /\ InsertIfRoom(k, adding, new, new_ram, old_ram)
    /\ adding' = NoAdd
    /\ UNCHANGED <<now, timeout, clearing, raced>>

Expire(tree, k) == [tree EXCEPT ![k].expires = now - 1]

\* Variant: an entry is deleted in the new tree only.
InOld_Never(k) == FALSE

\* "not in new tree", and "old tree still alive"
InOld(k) == ~new[k].there /\ time_to_kill > now /\ old[k].there

\* Cache_Del_Common, if the caller calls it.
Cache_Del_Common(k, called) ==
    /\ new' = IF called /\ new[k].there THEN Expire(new, k) ELSE new
    /\ old' = IF called /\ InOld(k) THEN Expire(old, k) ELSE old
    /\ last' = [last EXCEPT ![k] = None]
    /\ UNCHANGED <<new_ram, old_ram, time_retired, time_to_kill>>
    /\ UNCHANGED <<now, timeout, adding, clearing, since, until, raced>>

\* Cache_Del and Cache_Del_Device test the timeout; Cache_Del_Dir and
\* Cache_Del_Simul do not.
Cache_Del(k) == Cache_Del_Common(k, k \in Dir \cup Simul \/ TimeOut(k) > 0)

\* Cache_Del_Internal: it looks for extension 0, where what was added with
\* EXTENSION_INTERNAL is not.  If nothing else is there it changes nothing.
Cache_Del_Internal(k) == Bare[k] # None /\ Cache_Del_Common(Bare[k], TimeOut(k) > 0)

\* What (UINT) makes of a timeout.
Unsigned(t) == IF t < 0 THEN t + 2 * (IntMax + 1) ELSE t

\* The first half of FS_w_timeout.
FS_w_timeout(c, t) ==
    /\ timeout' = [timeout EXCEPT ![c] = t]
    /\ clearing' = (clearing \/ Unsigned(timeout[c]) > Unsigned(t))
    /\ raced' = (raced \/ adding # NoAdd)
    /\ UNCHANGED <<trees, now, adding, last, since, until>>

\* Cache_Clear, called by FS_w_timeout: two flips.  FS_w_timeout serves other
\* timeouts too, so that it may come at any time.
Cache_Clear ==
    /\ new' = Empty /\ new_ram' = 0 /\ old' = Empty /\ old_ram' = 0
    /\ time_retired' = now /\ time_to_kill' = now + Lifespan
    /\ last' = [k \in Key |-> None] /\ raced' = (raced /\ adding # NoAdd)
    /\ clearing' = FALSE
    /\ UNCHANGED <<now, timeout, adding, since, until>>

Tick ==
    /\ now' = now + 1
    /\ UNCHANGED <<trees, timeout, adding, clearing, history>>

Next ==
    \/ \E k \in Key : \/ \E v \in Val : NewNode(k, v)
                      \/ Cache_Add_Common(k)
    \/ \E k \in Key \ Internal : Cache_Del(k)
    \/ \E k \in Internal : Cache_Del_Internal(k)
    \/ \E c \in Kind, t \in Timeout : FS_w_timeout(c, t)
    \/ Cache_Clear
    \/ Tick

Spec == Init /\ [][Next]_vars

-----------------------------------------------------------------------------
(* Properties *)

\* No timeout has just been made shorter with the clearing still to come, or
\* changed under a node that already had its time of expiry.
Settled == ~clearing /\ ~raced

\* What a lookup finds is the value stored last under the key, never one it
\* replaced, and never one that was deleted since or cleared away: not after a
\* flip, not with one copy in each tree, and not after a time with the kind
\* of entry not cached at all.  One case is excepted, and there the code does
\* find deleted entries: the timeout is longer than the lifespan of a retired
\* tree, and the tree has outlived that.  (An internal entry is never deleted:
\* see Cache_Del_Internal.)
GetLatest ==
    Settled => \A k \in Key :
        \/ Get(k) \in {None, last[k]}
        \/ last[k] = None /\ TimeOut(k) > Lifespan /\ time_to_kill <= now

\* What a lookup finds is younger than the timeout that is set for its kind at
\* the time of the lookup, not the one at the time it was stored; a directory
\* may be just as old as it.
GetFresh ==
    Settled => \A k \in Key : Get(k) # None =>
                   IF k \in Dir THEN now - since[k] <= TimeOut(k) ELSE now - since[k] < TimeOut(k)

\* An entry that was accepted is found until it expires, and with a timeout
\* longer than the lifespan of a retired tree for at least that lifespan:
\* retiring the tree it is in, or dropping the old tree, loses none before.
CachedItsTime ==
    Settled => \A k \in Key :
        last[k] # None /\ TimeOut(k) > 0 /\ now < until[k] /\ now <= since[k] + Lifespan
            => Get(k) = last[k]

\* The sizes the limit is tested with are those of what is in the trees, so
\* that the cache cannot fill up with nodes that have long gone.  (Nodes of the
\* alias trees, which are left out, are counted with them.)
RamExact ==
    /\ new_ram = Cardinality({k \in Key : new[k].there})
    /\ old_ram = Cardinality({k \in Key : old[k].there})
=============================================================================
