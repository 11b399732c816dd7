------------------------------- MODULE MCBus --------------------------------
(* Model-checking instance of Bus: two couplers on the trunk, and one behind *)
(* the main branch of the first.                                             *)
EXTENDS Bus

CONSTANTS a, b, c

MCPath == [x \in Coupler |-> IF x = b THEN << <<a, "main">> >> ELSE <<>>]

MCTargets == {<<>>, << <<a, "main">> >>, << <<a, "main">>, <<b, "aux">> >>, << <<c, "aux">> >>}
=============================================================================
