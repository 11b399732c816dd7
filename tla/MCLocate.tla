------------------------------ MODULE MCLocate ------------------------------
(* Model-checking instance of Locate: two masters that are listed at the     *)
(* start, the second of which is another owserver.                           *)
EXTENDS Locate, TLC

CONSTANTS m1, m2, remote

MCStart == <<remote, m1>>
MCSymmetry == Permutations(Query) \cup Permutations(Handler)
=============================================================================
