-------------------------- MODULE MCInMemoryOracle --------------------------
(***************************************************************************)
(* Stores of up to four entries: hashed ones, blob elements inside and     *)
(* beyond the struct and the width of a place, with right, wrong and zero  *)
(* values and wrong sizes.                                                 *)
(***************************************************************************)
EXTENDS InMemoryOracle, FiniteSetsExt

CONSTANTS c1, c2, v0, v1, v2

Plain(kind, ok) ==
  [kind |-> kind, matches |-> ok, commitment |-> c1, element |-> 0, value |-> v1,
   sized |-> TRUE]

BlobElement(c, e, v, ok) ==
  [kind |-> "Blob", matches |-> ok, commitment |-> c, element |-> e, value |-> v,
   sized |-> TRUE]

IllSized(e) == [BlobElement(c1, e, v1, TRUE) EXCEPT !.sized = FALSE]

(* Index 3 is the KZG proof, 4 shares the place of 0, 2 and 7 fit nowhere. *)
MCEntries ==
  {Plain("Local", FALSE), Plain("Keccak256", TRUE), Plain("Keccak256", FALSE),
   Plain("Sha256", TRUE), Plain("Sha256", FALSE),
   Plain("GlobalGeneric", TRUE), Plain("Precompile", TRUE),
   Plain("Malformed", TRUE)}
  \cup {BlobElement(c1, e, v, TRUE) : e \in {0, 1, 4}, v \in {v0, v1, v2}}
  \cup {BlobElement(c1, e, v1, TRUE) : e \in {2, 3, 7}}
  \cup {BlobElement(c2, 0, v2, TRUE), BlobElement(c1, 1, v1, FALSE)}
  \cup {IllSized(e) : e \in {0, 2, 3, 4}}

MCStores == {s \in SUBSET MCEntries : Cardinality(s) <= 4}
==============================================================================
