---------------------------- MODULE InMemoryOracle ----------------------------
(***************************************************************************)
(* InMemoryOracle::verify of crates/client-utils/src/oracle/mod.rs: the    *)
(* program's only check of the key-value store the host gives it.  The     *)
(* store is a hash map, so its entries are visited in any order.           *)
(*                                                                         *)
(* A key's hash is abstracted to one bit, whether the value matches it.    *)
(* A blob element has its commitment, its index and its value; the element *)
(* with index Elements is the KZG proof of the blob.  The index is a u64   *)
(* that nothing bounds.  Only Capacity elements fit the Blob struct (4096  *)
(* bytes, 32 per element): get_mut gives None beyond them.                 *)
(***************************************************************************)
EXTENDS Integers, FiniteSets

CONSTANTS
  Stores,       \* the key-value stores the host may supply, sets of entries
  Commitments,
  MaxElement,   \* the highest index, 2^64 - 1
  Elements,     \* field elements of a blob (4096)
  Capacity,     \* elements that fit the Blob struct (128)
  PlaceMod,     \* 32-byte places a usize can number (2^27 in the zkVM)
  Values,       \* the contents of values
  ZeroValue

Kinds == {"Local", "Keccak256", "Sha256", "GlobalGeneric", "Precompile", "Blob",
          "Malformed"}   \* no key type, or a blob key's data of the wrong size

(* matches: the value hashes to the key; for a blob element, the entry     *)
(* with its commitment and index is in the store.  sized: a blob element   *)
(* has 32 bytes, the KZG proof 48.                                         *)
Entry ==
  [kind : Kinds, matches : BOOLEAN, commitment : Commitments,
   element : 0 .. MaxElement, value : Values, sized : BOOLEAN]

ASSUME OracleAssumption ==
  /\ MaxElement \in Nat /\ Elements \in Nat
  /\ Capacity \in Nat \ {0} /\ PlaceMod \in Nat /\ Capacity < PlaceMod
  /\ ZeroValue \in Values
  /\ Stores \subseteq SUBSET Entry

VARIABLES
  cache,     \* the store
  pending,   \* entries the loop has still to visit
  blobs,     \* the data field of the blobs gathered so far
  result     \* "running", "ok", "error" (an Err is returned), "panicked"

vars == <<cache, pending, blobs, result>>

EmptyBlob == [e \in 0 .. Capacity - 1 |-> ZeroValue]

Init ==
  /\ cache \in Stores
  /\ pending = cache
  /\ blobs = [c \in Commitments |-> EmptyBlob]
  /\ result = "running"

-----------------------------------------------------------------------------
Visit(entry) == result = "running" /\ entry \in pending /\ pending' = pending \ {entry}

(* Mutant, as are the ones below, which no action uses: sha256 keys are    *)
(* not compared.                                                           *)
VisitHashedUnchecked(entry) ==
  /\ Visit(entry)
  /\ entry.kind \in {"Local", "Keccak256", "Sha256"}
  /\ entry.kind \in {"Local", "Sha256"} \/ entry.matches
  /\ UNCHANGED <<cache, blobs, result>>

(* Local values are believed; a keccak or sha256 key must match. *)
VisitHashed(entry) ==
  /\ Visit(entry)
  /\ entry.kind \in {"Local", "Keccak256", "Sha256"}
  /\ entry.kind = "Local" \/ entry.matches
  /\ UNCHANGED <<cache, blobs, result>>

(* (element as usize) << 5: the high bits of the index are lost, so two    *)
(* indices may share a place.  The end of the last place a usize can       *)
(* number wraps to 0; get_mut gives None there too.                        *)
Place(element) == element % PlaceMod

Fits(entry) == Place(entry.element) < Capacity

(* The value is copied: the KZG proof always, an element unless its place  *)
(* has something already.  copy_from_slice panics on another length.       *)
Copied(entry) ==
  \/ entry.element = Elements
  \/ Fits(entry) /\ blobs[entry.commitment][Place(entry.element)] = ZeroValue

(* A failed assertion, unimplemented!(), the unwrap of a conversion, or a  *)
(* copy of the wrong length.                                               *)
Unchecked == {"GlobalGeneric", "Precompile", "Malformed"}

VisitBad(entry) ==
  /\ Visit(entry)
  /\ \/ entry.kind \in {"Keccak256", "Sha256"} /\ ~entry.matches
     \/ entry.kind \in Unchecked
     \/ entry.kind = "Blob" /\ entry.matches /\ Copied(entry) /\ ~entry.sized
  /\ result' = "panicked"
  /\ UNCHANGED <<cache, blobs>>

(* Mutants: an element lands in the next place; an index is compared with  *)
(* the capacity before its high bits are lost.                             *)
WithElementShifted(blob, entry) ==
  IF Fits(entry)
    THEN [blob EXCEPT ![(Place(entry.element) + 1) % Capacity] = entry.value]
    ELSE blob

WithElementBounded(blob, entry) ==
  IF entry.element < Capacity /\ blob[Place(entry.element)] = ZeroValue
    THEN [blob EXCEPT ![Place(entry.element)] = entry.value]
    ELSE blob

(* An element goes to its place unless something is there already; the     *)
(* error of an overwrite is dropped with the value of map().               *)
WithElement(blob, entry) ==
  IF Fits(entry) /\ blob[Place(entry.element)] = ZeroValue
    THEN [blob EXCEPT ![Place(entry.element)] = entry.value]
    ELSE blob

VisitBlob(entry) ==
  /\ Visit(entry)
  /\ entry.kind = "Blob" /\ entry.matches
  /\ Copied(entry) => entry.sized
  /\ blobs' = IF entry.element = Elements
                THEN blobs     \* the KZG proof
                ELSE [blobs EXCEPT ![entry.commitment] = WithElement(@, entry)]
  /\ UNCHANGED <<cache, result>>

VisitBlobWithoutKey(entry) ==
  /\ Visit(entry)
  /\ entry.kind = "Blob" /\ ~entry.matches
  /\ result' = "error"
  /\ UNCHANGED <<cache, blobs>>

(* The loop over the gathered blobs checks nothing: the call of            *)
(* verify_blob_kzg_proof is commented out.                                 *)
Finish ==
  /\ result = "running" /\ pending = {}
  /\ result' = "ok"
  /\ UNCHANGED <<cache, pending, blobs>>

Next ==
  \/ \E entry \in pending :
       VisitHashed(entry) \/ VisitBad(entry) \/ VisitBlob(entry)
         \/ VisitBlobWithoutKey(entry)
  \/ Finish

Spec == Init /\ [][Next]_vars

-----------------------------------------------------------------------------
(* The loop visits entries of the store only, and every place of a blob    *)
(* holds a value.                                                          *)
TypeOK ==
  /\ cache \in Stores /\ pending \subseteq cache
  /\ blobs \in [Commitments -> [0 .. Capacity - 1 -> Values]]
  /\ result \in {"running", "ok", "error", "panicked"}

Hashed(entry) == entry.kind \in {"Keccak256", "Sha256"}

(* A blob element, and not the KZG proof, of commitment c at place e.      *)
ElementAt(entry, c, e) ==
  /\ entry.kind = "Blob" /\ entry.commitment = c
  /\ entry.element # Elements /\ Place(entry.element) = e

(* Every hashed value matches its key, no entry has a kind the program     *)
(* cannot check and every blob element has its key ...                     *)
Checked(store) ==
  \A entry \in store :
    /\ Hashed(entry) \/ entry.kind = "Blob" => entry.matches
    /\ entry.kind \notin Unchecked
    /\ entry.kind = "Blob" /\ entry.element = Elements => entry.sized

(* ... and what is copied to a place has the size of an element.           *)
Sized(store) ==
  \A entry \in store : entry.kind = "Blob" /\ Fits(entry) => entry.sized

(* An element that another one may keep from being copied: its size is     *)
(* then looked at in some orders only.                                     *)
Hidden(store) ==
  \E x, y \in store :
    /\ x.kind = "Blob" /\ ~x.sized /\ x.element # Elements
    /\ y.value # ZeroValue /\ y.sized
    /\ ElementAt(y, x.commitment, Place(x.element))

(* The verdict does not depend on the order of the hash map: a store is    *)
(* accepted exactly when it is Checked and Sized.  Only an element of the  *)
(* wrong size at the place of another makes the order count, and then for  *)
(* that size alone.                                                        *)
VerdictIndependentOfOrder ==
  result # "running" =>
    /\ result = "ok" => Checked(cache)
    /\ Checked(cache) /\ Sized(cache) => result = "ok"
    /\ result = "ok" => Sized(cache) \/ Hidden(cache)

(* Each place of a gathered blob holds the value of an element the store   *)
(* has for that place and commitment; and once verify has returned Ok, a   *)
(* place is zero only if every such element is: whatever the order, values *)
(* are dropped at a taken place only, or beyond the struct.  The place of  *)
(* an index below PlaceMod is the index; for the others see Place.         *)
BlobsComeFromStore ==
  \A c \in Commitments, e \in 0 .. Capacity - 1 :
    /\ blobs[c][e] # ZeroValue =>
         \E entry \in cache : ElementAt(entry, c, e) /\ entry.value = blobs[c][e]
    /\ result = "ok" /\ blobs[c][e] = ZeroValue =>
         \A entry \in cache : ElementAt(entry, c, e) => entry.value = ZeroValue
==============================================================================
