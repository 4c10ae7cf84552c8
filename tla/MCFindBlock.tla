----------------------------- MODULE MCFindBlock -----------------------------
(***************************************************************************)
(* Every chain of up to four blocks with these gaps.                       *)
(***************************************************************************)
EXTENDS FindBlock

CONSTANT Genesis   \* timestamps of block 0

MCChains ==
  {<<t>> : t \in Genesis}
    \cup {<<t, t + d>> : t \in Genesis, d \in Slots}
    \cup {<<t, t + d, t + d + e>> : t \in Genesis, d \in Slots, e \in Slots}
    \cup {<<t, t + d, t + d + e, t + d + e + f>> :
            t \in Genesis, d \in Slots, e \in Slots, f \in Slots}
==============================================================================
