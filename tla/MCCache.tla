------------------------------ MODULE MCCache ------------------------------
(* Model-checking instance of Cache.  The clock runs on for ever, but the    *)
(* cache only ever compares differences with it, and differences beyond the  *)
(* longest timeout and the lifespan decide alike.  The view names a state by *)
(* these differences, cut off there, so that TLC visits one state of each    *)
(* kind.  The trees of a cache that waits to be cleared are left out: until  *)
(* the clearing nothing is claimed of lookups, and it empties them.          *)
(*                                                                           *)
(* There is no key of Item: a key of Simul that is also deleted as an        *)
(* internal one does all that it would do, and more.                         *)
EXTENDS Cache, FiniteSetsExt

Longest == Max(Timeout \cup {Lifespan}) + 1

MCTimeout == {-1, 0, 1, 2}
MCBare == [k \in Internal |-> CHOOSE s \in Simul : TRUE]
MCKindOf == [k \in Key |-> IF k \in Dir THEN "directory" ELSE "volatile"]

Cut(d, low) == IF d < low THEN low ELSE d

\* A node that has expired is as good as any other that has.
ViewNode(n) == IF n.expires < now THEN [n EXCEPT !.val = None, !.expires = -1]
                                  ELSE [n EXCEPT !.expires = @ - now]

ViewHistory(k) ==
    IF last[k] = None /\ ~Live(k, old[k]) THEN <<>>
    ELSE <<last[k], Cut(since[k] - now, -Longest), Cut(until[k] - now, 0)>>

ViewTrees ==
    <<[k \in Key |-> ViewNode(new[k])], [k \in Key |-> ViewNode(old[k])],
      new_ram, old_ram, Cut(time_retired - now, -Longest),
      [k \in Key |-> ViewHistory(k)]>>

View ==
    <<timeout, clearing, raced,
      adding.key, ViewNode(adding.node), Cut(adding.at - now, -Longest),
      IF Settled THEN ViewTrees ELSE <<>>>>
=============================================================================
