--------------------------- MODULE MCValidityClient ---------------------------
(***************************************************************************)
(* Six L2 blocks, two of which share an L1 block, then a gap.              *)
(***************************************************************************)
EXTENDS ValidityClient

MCIncludedIn == [n \in Blocks |-> IF n <= 1 THEN 0 ELSE IF n <= 3 THEN 1 ELSE n - 1]
==============================================================================
