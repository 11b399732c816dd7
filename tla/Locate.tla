------------------------------- MODULE Locate -------------------------------
(* How a query finds the bus of its device and keeps to it: the parsing of   *)
(* the path (ow_parsename.c), the check of the device's presence on all bus  *)
(* masters (ow_presence.c), the location that the cache remembers, and the   *)
(* second and third tries of reads and writes (ow_read.c, ow_write.c), while *)
(* devices are moved and bus masters come and go (Masters).                  *)
(*                                                                           *)
(* There is one device.  An access fails if the device is not on the bus     *)
(* master it is tried on, if that is not plugged in, or by a fault.          *)
EXTENDS Masters

NoBus == -1             \* INDEX_BAD

VARIABLES
    where,      \* the master the device is on, or None
    loc,        \* its cached location, a bus number, or NoBus
    pn,         \* of a query: struct parsedname and the locals of its functions
    steady,     \* history: during the query the device stayed on a listed and
                \* working master that has a number of its own, and the query
                \* met no fault
    misled      \* history: the queries for which a wrong location was cached
                \* after they had deleted the one they had tried

lvars == <<where, loc, pn, steady, misled>>
vars == <<mvars, lvars>>

Rested == [pc |-> "idle", op |-> None, spec |-> FALSE,
           sel |-> None,        \* selected_connection and known_bus: a cell
           first |-> None,      \* the one of the first try
           depth |-> 0,         \* of FS_write_real
           again |-> FALSE,     \* ReCheckPresence, not the parser, asks
           todo |-> {}, hit |-> {}, found |-> {},   \* of CheckPresence_low
           gone |-> FALSE,      \* history: the cached bus number named no bus
           res |-> None]        \* what is returned: "ok" or an error

Init ==
    /\ MInit
    /\ where \in kernel
    /\ loc = NoBus
    /\ pn = [q \in Query |-> Rested]
    /\ steady = [q \in Query |-> FALSE] /\ misled = {}

TypeOK ==
    /\ MTypeOK
    /\ where \in Master \cup {None} /\ loc \in Int
    /\ steady \in [Query -> BOOLEAN] /\ misled \subseteq Query
    /\ pn \in [Query ->
         [pc : {"idle", "check", "scan", "try", "second", "third", "recheck", "known",
                "recached", "cached", "del", "done"},
          op : {"read", "write", None}, spec : BOOLEAN,
          sel : Cell \cup {None}, first : Cell \cup {None}, depth : 0..2, again : BOOLEAN,
          todo : SUBSET Cell, hit : SUBSET Cell, found : SUBSET Cell, gone : BOOLEAN,
          res : {"ok", "EIO", "ENOENT", "ENODEV", None}]]

-----------------------------------------------------------------------------
\* find_connection_in: the first bus master of the list with that number.
find_connection_in(i) ==
    LET at == {k \in 1..Len(head_port) : index[head_port[k]] = i}
    IN IF at = {} THEN None
       ELSE head_port[CHOOSE k \in at : \A l \in at : k <= l]

\* The device answers on the bus master in cell c.
Answers(c) == c # None /\ id[c] = where /\ where \in kernel

Set(q, new) == pn' = [pn EXCEPT ![q] = new]
Keep == UNCHANGED <<kernel, list, readers, writer, handler, history>>

\* No fault, or one that spoils what query q may expect.
Smooth == UNCHANGED <<trouble, steady, misled>>
Fault(q) == Spend /\ steady' = [steady EXCEPT ![q] = FALSE] /\ UNCHANGED misled

\* A query is between Cache_Del_Device and CheckPresence in ReCheckPresence.
Deleted(q) == pn[q].pc = "check" /\ pn[q].again

\* Cache_Add_Device(c's number), some time after the device answered there.
Cached(c) ==
    /\ loc' = index[c]
    /\ misled' = misled \cup {q \in Query : Deleted(q) /\ ~Answers(c)}
    /\ UNCHANGED steady

\* What the query is to do.  It is drawn when it begins to matter.
Ops == {"read", "write"}

\* FS_ParsedName up to the device: CONNIN_RLOCK, and bus.N if given.
FS_ParsedName(q) ==
    /\ pn[q].pc = "idle" /\ writer = None
    /\ readers' = readers \cup {q}
    /\ \/ /\ Set(q, [Rested EXCEPT !.pc = "check"])
          /\ steady' = [steady EXCEPT ![q] = ~raced /\ \E c \in Listed : Answers(c)]
       \/ \E c \in Listed, o \in Ops :
            LET sel == find_connection_in(index[c]) IN
            /\ Set(q, [Rested EXCEPT !.pc = "try", !.op = o, !.spec = TRUE, !.sel = sel])
            /\ steady' = [steady EXCEPT ![q] = ~raced /\ Answers(sel)]
    /\ UNCHANGED <<kernel, list, writer, handler, history, crashed, trouble, where, loc,
                   misled>>

\* The query returns r, and uses nothing else any more.
Ended(p, r) == [Rested EXCEPT !.pc = "done", !.op = p.op, !.gone = p.gone, !.res = r]

\* FS_read_real and FS_write_real after ReCheckPresence has set bus master c:
\* the new state of the query.
Rechecked(p, c) ==
    LET same == c # None /\ p.first # None /\ index[p.first] = index[c]
        isServer == same /\ id[c] \in Remote
        q == [Rested EXCEPT !.op = p.op, !.sel = c, !.gone = p.gone]
    IN CASE isServer -> Ended(q, "EIO")
         [] ~isServer /\ (p.op = "read" \/ same) -> [q EXCEPT !.pc = "second"]
         [] OTHER -> [q EXCEPT !.pc = "try", !.depth = p.depth + 1]

\* CheckPresence has found bus master c, or a number that names none.
Located(q, p, c) ==
    \/ p.again /\ Set(q, Rechecked(p, c))
    \/ /\ ~p.again
       /\ \E o \in Ops :
            Set(q, IF o = "write" /\ c = None       \* FS_write_post_input
                   THEN Ended([p EXCEPT !.op = o], "ENODEV")
                   ELSE [Rested EXCEPT !.pc = "try", !.op = o, !.sel = c, !.gone = p.gone])

Fixed == Keep /\ UNCHANGED <<crashed, where>>

-----------------------------------------------------------------------------
\* CheckPresence without a known bus: the cached location is taken as it is,
\* and if there is none all bus masters are asked.
CheckPresence(q) ==
    /\ pn[q].pc = "check"
    /\ \/ /\ loc # NoBus
          /\ LET c == find_connection_in(loc)
             IN Located(q, [pn[q] EXCEPT !.gone = c = None], c)
       \/ /\ loc = NoBus
          /\ Set(q, [pn[q] EXCEPT !.pc = "scan", !.todo = Listed])
    /\ Fixed /\ Smooth /\ UNCHANGED loc

\* CheckThisConnection in the threads of CheckPresence_low: ask, ...
CheckThisConnection(q) ==
    /\ pn[q].pc = "scan"
    /\ \E c \in pn[q].todo :
         \/ Answers(c) /\ Set(q, [pn[q] EXCEPT !.todo = @ \ {c}, !.hit = @ \cup {c}]) /\ Smooth
         \/ ~Answers(c) /\ Set(q, [pn[q] EXCEPT !.todo = @ \ {c}]) /\ Smooth
         \/ Answers(c) /\ Set(q, [pn[q] EXCEPT !.todo = @ \ {c}]) /\ Fault(q)
    /\ Fixed /\ UNCHANGED loc

\* ... and remember.
FoundHere(q) ==
    /\ pn[q].pc = "scan"
    /\ \E c \in pn[q].hit :
         Cached(c) /\ Set(q, [pn[q] EXCEPT !.hit = @ \ {c}, !.found = @ \cup {c}])
    /\ Fixed /\ UNCHANGED trouble

\* All have answered: of those that found the device the last in the list.
CheckPresence_low(q) ==
    /\ pn[q].pc = "scan" /\ pn[q].todo = {} /\ pn[q].hit = {}
    /\ LET at == {k \in 1..Len(head_port) : head_port[k] \in pn[q].found}
           c == head_port[CHOOSE k \in at : \A l \in at : l <= k]
       IN \/ /\ at # {}
             /\ Cached(c) /\ Located(q, pn[q], find_connection_in(index[c]))
          \/ /\ at = {}
             /\ Set(q, Ended(pn[q], "ENOENT"))
             /\ UNCHANGED <<loc, steady, misled>>
    /\ Fixed /\ UNCHANGED trouble

-----------------------------------------------------------------------------
\* ReCheckPresence: is the device still on the known bus ...
ReCheckPresence(q) ==
    /\ pn[q].pc = "recheck"
    /\ LET c == IF pn[q].sel = None THEN None ELSE find_connection_in(index[pn[q].sel])
       IN \/ Answers(c) /\ Set(q, [pn[q] EXCEPT !.pc = "known"]) /\ Smooth
          \/ ~Answers(c) /\ Set(q, [pn[q] EXCEPT !.pc = "recached"]) /\ Smooth
          \/ Answers(c) /\ Set(q, [pn[q] EXCEPT !.pc = "recached"]) /\ Fault(q)
    /\ Fixed /\ UNCHANGED loc

\* ... or on the one in the cache?
ReCheckCached(q) ==
    /\ pn[q].pc = "recached"
    /\ LET c == IF loc = NoBus THEN None ELSE find_connection_in(loc)
       IN \/ Answers(c) /\ Set(q, [pn[q] EXCEPT !.pc = "cached", !.sel = c]) /\ Smooth
          \/ ~Answers(c) /\ Set(q, [pn[q] EXCEPT !.pc = "del"]) /\ Smooth
          \/ Answers(c) /\ Set(q, [pn[q] EXCEPT !.pc = "del"]) /\ Fault(q)
    /\ Fixed /\ UNCHANGED loc

\* It is: remember that, and try again.
StillHere(q) ==
    /\ pn[q].pc \in {"known", "cached"}
    /\ Cached(pn[q].sel) /\ Set(q, Rechecked(pn[q], pn[q].sel))
    /\ Fixed /\ UNCHANGED trouble

\* Variant: the cached location stays.
Cache_Del_Device_Not(q) ==
    /\ pn[q].pc = "del"
    /\ Set(q, [pn[q] EXCEPT !.pc = "check", !.sel = None, !.again = TRUE])
    /\ Fixed /\ Smooth /\ UNCHANGED loc

\* It is on neither: forget the location and start anew.
Cache_Del_Device(q) ==
    /\ pn[q].pc = "del"
    /\ Set(q, [pn[q] EXCEPT !.pc = "check", !.sel = None, !.again = TRUE])
    /\ loc' = NoBus
    /\ Fixed /\ Smooth

-----------------------------------------------------------------------------
\* The outcome of an access on the selected bus.
Succeeds(q) == Answers(pn[q].sel) /\ Smooth
GoesWrong(q) == \/ ~Answers(pn[q].sel) /\ Smooth
                \/ Answers(pn[q].sel) /\ Fault(q)

\* The first try, or the first after the location changed.
First(q) ==
    /\ pn[q].pc = "try" /\ pn[q].depth <= 1
    /\ \/ Succeeds(q) /\ Set(q, Ended(pn[q], "ok"))
       \/ /\ GoesWrong(q)
          /\ Set(q, [pn[q] EXCEPT !.pc = IF pn[q].spec THEN "second" ELSE "recheck",
                                  !.first = pn[q].sel])
       \/ /\ pn[q].spec /\ pn[q].op = "read"    \* TestConnection says no
          /\ Fault(q) /\ Set(q, Ended(pn[q], "EIO"))
    /\ Fixed /\ UNCHANGED loc

\* FS_write_real: the location changed too often.
TooManyChanges(q) ==
    /\ pn[q].pc = "try" /\ pn[q].depth > 1
    /\ Set(q, Ended(pn[q], "ENODEV"))
    /\ Fixed /\ Smooth /\ UNCHANGED loc

\* The second and the third.
Further(q) ==
    /\ pn[q].pc \in {"second", "third"}
    /\ \/ Succeeds(q) /\ Set(q, Ended(pn[q], "ok"))
       \/ /\ pn[q].pc = "second" /\ GoesWrong(q)
          /\ Set(q, [pn[q] EXCEPT !.pc = "third"])
       \/ pn[q].pc = "third" /\ GoesWrong(q) /\ Set(q, Ended(pn[q], "EIO"))
    /\ Fixed /\ UNCHANGED loc

\* FS_ParsedName_destroy: CONNIN_RUNLOCK.
FS_ParsedName_destroy(q) ==
    /\ pn[q].pc = "done"
    /\ Set(q, Rested) /\ steady' = [steady EXCEPT ![q] = FALSE] /\ misled' = misled \ {q}
    /\ readers' = readers \ {q}
    /\ UNCHANGED <<kernel, list, writer, handler, history, crashed, trouble, where, loc>>

Ask(q) ==
    /\ ~crashed
    /\ \/ FS_ParsedName(q) \/ CheckPresence(q) \/ CheckThisConnection(q) \/ FoundHere(q)
       \/ CheckPresence_low(q) \/ ReCheckPresence(q) \/ ReCheckCached(q) \/ StillHere(q)
       \/ Cache_Del_Device(q) \/ First(q) \/ TooManyChanges(q) \/ Further(q)
       \/ FS_ParsedName_destroy(q)

-----------------------------------------------------------------------------
\* The device is moved to another master, or away.
Move ==
    /\ ~crashed /\ Spend /\ where' \in (Master \cup {None}) \ {where}
    /\ steady' = [q \in Query |-> FALSE]
    /\ Keep /\ UNCHANGED <<crashed, loc, pn, misled>>

\* The cached location expires (Cache).
Expire ==
    /\ ~crashed /\ Spend /\ loc # NoBus /\ loc' = NoBus
    /\ Keep /\ UNCHANGED <<crashed, where, pn, steady, misled>>

\* A message on the device's master means it was plugged in or out.
News(h) ==
    /\ ~crashed /\ Message(h)
    /\ steady' = [q \in Query |-> steady[q] /\ (where \in kernel <=> where \in kernel')]
    /\ UNCHANGED <<where, loc, pn, misled>>

\* A handler goes on.
Serve(h) == ~crashed /\ Handle(h) /\ UNCHANGED lvars

\* Nothing follows a crash.
Halted == crashed /\ UNCHANGED vars

Next == (\E h \in Handler : News(h) \/ Serve(h)) \/ (\E q \in Query : Ask(q)) \/ Move \/ Expire
        \/ Halted

Spec == Init /\ [][Next]_vars

-----------------------------------------------------------------------------
\* The bus master a query has selected, and those its threads ask, stay in
\* the list, and with it in memory, until the query has returned; and
\* FS_write_real, which follows the pointer without a look, always has one.
PointersLive ==
    \A q \in Query :
        /\ pn[q].sel # None => pn[q].sel \in Listed
        /\ pn[q].todo \cup pn[q].hit \cup pn[q].found \subseteq Listed
        /\ pn[q].op = "write" /\ pn[q].pc \in {"try", "second", "third"} => pn[q].sel # None

\* A device that stays where it is is found, however wrong the location is
\* that the cache holds: the query succeeds.  There are two exceptions.  A
\* write whose cached location names a bus master that is gone gives up with
\* ENODEV, without a look at the others.  And a query that has deleted a wrong
\* location takes what it finds in the cache right after that; if another
\* query has just cached where the device was before, it tries the wrong bus
\* again and fails.  At any other time what other queries cache and delete
\* does it no harm.
Finds ==
    \A q \in Query : pn[q].pc = "done" /\ steady[q] /\ pn[q].res # "ok" =>
        \/ pn[q].op = "write" /\ pn[q].gone /\ pn[q].res = "ENODEV"
        \/ q \in misled
=============================================================================
