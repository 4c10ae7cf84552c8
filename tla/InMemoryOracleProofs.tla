-------------------------- MODULE InMemoryOracleProofs -------------------------
(***************************************************************************)
(* Machine-checked theorems about InMemoryOracle, for stores of any size   *)
(* and every order in which the hash map may be visited.                   *)
(***************************************************************************)
EXTENDS InMemoryOracle, TLAPS

(* What verify() may accept in an entry.                                   *)
Good(entry) ==
  /\ Hashed(entry) \/ entry.kind = "Blob" => entry.matches
  /\ entry.kind \notin Unchecked
  /\ entry.kind = "Blob" /\ entry.element = Elements => entry.sized

(* What only the entries visited before may have kept it from seeing.      *)
IllSized(entry) == entry.kind = "Blob" /\ Fits(entry) /\ ~entry.sized

(* An element that was visited is in its place, or another one is.         *)
Placed(entry) ==
  entry.kind = "Blob" /\ entry.element # Elements /\ Fits(entry) =>
    \/ blobs[entry.commitment][Place(entry.element)] # ZeroValue
    \/ entry.value = ZeroValue /\ entry.sized

(* Every entry already visited was good and is placed, or the loop has     *)
(* ended on a bad one.                                                     *)
VisitedInv ==
  /\ result \in {"running", "ok"} =>
       \A entry \in cache \ pending : Good(entry) /\ Placed(entry)
  /\ result = "ok" => pending = {}
  /\ result \in {"error", "panicked"} =>
       \E entry \in cache : ~Good(entry) \/ IllSized(entry)

(* What a place holds is the value of an element of the right size.        *)
PlacesInv ==
  \A c \in Commitments, e \in 0 .. Capacity - 1 :
    blobs[c][e] # ZeroValue =>
      \E entry \in cache :
        ElementAt(entry, c, e) /\ entry.sized /\ entry.value = blobs[c][e]

IInv == TypeOK /\ VisitedInv /\ PlacesInv

LEMMA InitIInv == Init => IInv
<1> SUFFICES ASSUME Init PROVE IInv
  OBVIOUS
<1>1. \A e \in 0 .. Capacity - 1 : EmptyBlob[e] = ZeroValue
  BY DEF EmptyBlob
<1>2. EmptyBlob \in [0 .. Capacity - 1 -> Values]
  BY OracleAssumption DEF EmptyBlob
<1>3. TypeOK
  BY <1>2 DEF Init, TypeOK
<1>4. VisitedInv
  BY DEF Init, VisitedInv
<1>5. PlacesInv
  BY <1>1 DEF Init, PlacesInv
<1> QED
  BY <1>3, <1>4, <1>5 DEF IInv

(* A visit that gathers nothing and goes on: the entry was good.           *)
LEMMA VisitHashedStep ==
  ASSUME IInv, NEW entry \in pending, VisitHashed(entry)
  PROVE  IInv'
<1>1. /\ result = "running" /\ pending' = pending \ {entry}
      /\ UNCHANGED <<cache, blobs, result>>
  BY DEF VisitHashed, Visit
<1>2. Good(entry) /\ Placed(entry)
  BY DEF VisitHashed, Good, Placed, Hashed, Unchecked
<1>3. TypeOK'
  BY <1>1 DEF IInv, TypeOK
<1>4. VisitedInv'
  <2>1. \A x : Placed(x)' <=> Placed(x)
    BY <1>1 DEF Placed
  <2> QED
    BY <1>1, <1>2, <2>1 DEF IInv, VisitedInv
<1>5. PlacesInv'
  BY <1>1 DEF IInv, PlacesInv
<1> QED
  BY <1>3, <1>4, <1>5 DEF IInv

(* The two ways to end the loop early: the entry was bad.                  *)
LEMMA EarlyEndStep ==
  ASSUME IInv, NEW entry \in pending,
         VisitBad(entry) \/ VisitBlobWithoutKey(entry)
  PROVE  IInv'
<1>1. /\ pending' = pending \ {entry} /\ UNCHANGED <<cache, blobs>>
      /\ result' \in {"error", "panicked"}
  BY DEF VisitBad, VisitBlobWithoutKey, Visit
<1>2. entry \in cache
  BY DEF IInv, TypeOK
<1>3. ~Good(entry) \/ IllSized(entry)
  BY DEF VisitBad, VisitBlobWithoutKey, Copied, Good, IllSized, Hashed, Unchecked
<1>4. TypeOK'
  BY <1>1 DEF IInv, TypeOK
<1>5. VisitedInv'
  BY <1>1, <1>2, <1>3 DEF VisitedInv
<1>6. PlacesInv'
  BY <1>1 DEF IInv, PlacesInv
<1> QED
  BY <1>4, <1>5, <1>6 DEF IInv

(* One element of a blob: it may change its own place only, to its value,  *)
(* and only when nothing is there; afterwards something is, or it is zero. *)
LEMMA ElementPlaced ==
  ASSUME NEW blob \in [0 .. Capacity - 1 -> Values], NEW entry \in Entry
  PROVE  /\ WithElement(blob, entry) \in [0 .. Capacity - 1 -> Values]
         /\ \A e \in 0 .. Capacity - 1 :
              \/ WithElement(blob, entry)[e] = blob[e]
              \/ /\ Fits(entry) /\ e = Place(entry.element)
                 /\ blob[e] = ZeroValue
                 /\ WithElement(blob, entry)[e] = entry.value
         /\ Fits(entry) =>
              /\ Place(entry.element) \in 0 .. Capacity - 1
              /\ \/ WithElement(blob, entry)[Place(entry.element)] # ZeroValue
                 \/ blob[Place(entry.element)] = ZeroValue /\ entry.value = ZeroValue
<1> DEFINE p == Place(entry.element)
<1>1. entry.value \in Values /\ entry.element \in Nat
  BY OracleAssumption DEF Entry
<1>2. Fits(entry) => p \in 0 .. Capacity - 1
  BY <1>1, OracleAssumption DEF Fits, Place
<1>3. WithElement(blob, entry) =
        IF Fits(entry) /\ blob[p] = ZeroValue THEN [blob EXCEPT ![p] = entry.value]
                                             ELSE blob
  BY DEF WithElement
<1> HIDE DEF p
<1>4. CASE Fits(entry) /\ blob[p] = ZeroValue
  <2>1. WithElement(blob, entry) = [blob EXCEPT ![p] = entry.value]
    BY <1>3, <1>4
  <2> QED
    BY <1>1, <1>2, <1>4, <2>1 DEF p
<1>5. CASE ~(Fits(entry) /\ blob[p] = ZeroValue)
  <2>1. WithElement(blob, entry) = blob
    BY <1>3, <1>5
  <2> QED
    BY <1>2, <1>5, <2>1 DEF p
<1> QED
  BY <1>4, <1>5

LEMMA VisitBlobStep ==
  ASSUME IInv, NEW entry \in pending, VisitBlob(entry)
  PROVE  IInv'
<1>1. /\ result = "running" /\ pending' = pending \ {entry}
      /\ entry.kind = "Blob" /\ entry.matches
      /\ Copied(entry) => entry.sized
      /\ UNCHANGED <<cache, result>>
  BY DEF VisitBlob, Visit
<1>2. /\ entry \in cache /\ entry \in Entry /\ entry.commitment \in Commitments
      /\ blobs \in [Commitments -> [0 .. Capacity - 1 -> Values]]
  <2>1. entry \in cache /\ cache \in Stores
    BY DEF IInv, TypeOK
  <2>2. entry \in Entry
    BY <2>1, OracleAssumption
  <2> QED
    BY <2>1, <2>2 DEF Entry, IInv, TypeOK
<1>3. Good(entry)
  BY <1>1 DEF Good, Unchecked, Copied
(* What the visit does to the places, and to the place of the entry.       *)
<1>4. /\ blobs' \in [Commitments -> [0 .. Capacity - 1 -> Values]]
      /\ \A c \in Commitments, e \in 0 .. Capacity - 1 :
           \/ blobs'[c][e] = blobs[c][e]
           \/ /\ blobs[c][e] = ZeroValue
              /\ ElementAt(entry, c, e) /\ entry.sized
              /\ blobs'[c][e] = entry.value
      /\ Placed(entry)'
  <2>1. CASE entry.element = Elements
    BY <1>2, <2>1 DEF VisitBlob, Placed
  <2>2. CASE entry.element # Elements
    <3> DEFINE new == WithElement(blobs[entry.commitment], entry)
               old == blobs[entry.commitment]
               p == Place(entry.element)
    <3>1. old \in [0 .. Capacity - 1 -> Values]
      BY <1>2
    <3>2. /\ new \in [0 .. Capacity - 1 -> Values]
          /\ \A e \in 0 .. Capacity - 1 :
               \/ new[e] = old[e]
               \/ /\ Fits(entry) /\ e = p /\ old[e] = ZeroValue
                  /\ new[e] = entry.value
          /\ Fits(entry) =>
               /\ p \in 0 .. Capacity - 1
               /\ new[p] # ZeroValue \/ (old[p] = ZeroValue /\ entry.value = ZeroValue)
      BY <1>2, <3>1, ElementPlaced
    <3>3. blobs' = [blobs EXCEPT ![entry.commitment] = new]
      BY <2>2 DEF VisitBlob
    <3>4. Fits(entry) /\ old[p] = ZeroValue => entry.sized
      BY <1>1 DEF Copied
    <3>5. \A e \in 0 .. Capacity - 1 : e = p => ElementAt(entry, entry.commitment, e)
      BY <1>1, <2>2 DEF ElementAt
    <3> HIDE DEF new, old
    <3>6. blobs'[entry.commitment] = new
      BY <1>2, <3>3
    <3>7. Placed(entry)'
      BY <1>1, <3>2, <3>4, <3>6 DEF Placed
    <3>8. blobs' \in [Commitments -> [0 .. Capacity - 1 -> Values]]
      BY <1>2, <3>2, <3>3
    <3>9. ASSUME NEW c \in Commitments, NEW e \in 0 .. Capacity - 1
          PROVE  \/ blobs'[c][e] = blobs[c][e]
                 \/ /\ blobs[c][e] = ZeroValue
                    /\ ElementAt(entry, c, e) /\ entry.sized
                    /\ blobs'[c][e] = entry.value
      <4>1. CASE c # entry.commitment
        BY <1>2, <3>3, <4>1
      <4>2. CASE c = entry.commitment
        <5>1. blobs[c] = old
          BY <4>2 DEF old
        <5> HIDE DEF p
        <5> QED
          BY <3>2, <3>4, <3>5, <3>6, <4>2, <5>1
      <4> QED
        BY <4>1, <4>2
    <3> QED
      BY <3>7, <3>8, <3>9
  <2> QED
    BY <2>1, <2>2
<1>5. TypeOK'
  BY <1>1, <1>4 DEF IInv, TypeOK
<1>6. VisitedInv'
  <2>1. ASSUME NEW x \in cache, Placed(x) PROVE Placed(x)'
    <3>1. x \in Entry
      BY OracleAssumption DEF IInv, TypeOK
    <3>2. x.commitment \in Commitments /\ x.element \in Nat
      BY <3>1, OracleAssumption DEF Entry
    <3>3. Fits(x) => Place(x.element) \in 0 .. Capacity - 1
      BY <3>2, OracleAssumption DEF Fits, Place
    <3>4. Fits(x) /\ blobs[x.commitment][Place(x.element)] # ZeroValue =>
            blobs'[x.commitment][Place(x.element)] # ZeroValue
      BY <1>4, <3>2, <3>3
    <3> QED
      BY <2>1, <3>4 DEF Placed
  <2>2. \A x \in cache \ pending' : Good(x) /\ Placed(x)'
    BY <1>1, <1>3, <1>4, <2>1 DEF IInv, VisitedInv
  <2> QED
    BY <1>1, <2>2 DEF VisitedInv
<1>7. PlacesInv'
  <2>1. SUFFICES ASSUME NEW c \in Commitments, NEW e \in 0 .. Capacity - 1,
                        blobs'[c][e] # ZeroValue
                 PROVE  \E x \in cache : /\ ElementAt(x, c, e) /\ x.sized
                                         /\ x.value = blobs'[c][e]
    BY <1>1 DEF PlacesInv
  <2>2. CASE blobs'[c][e] = blobs[c][e]
    BY <2>1, <2>2 DEF IInv, PlacesInv
  <2>3. CASE ElementAt(entry, c, e) /\ entry.sized /\ blobs'[c][e] = entry.value
    BY <1>2, <2>3
  <2> QED
    BY <1>4, <2>2, <2>3
<1> QED
  BY <1>5, <1>6, <1>7 DEF IInv

LEMMA FinishStep == ASSUME IInv, Finish PROVE IInv'
<1>1. /\ result = "running" /\ pending = {} /\ result' = "ok"
      /\ UNCHANGED <<cache, pending, blobs>>
  BY DEF Finish
<1>2. TypeOK' /\ PlacesInv'
  BY <1>1 DEF IInv, TypeOK, PlacesInv
<1>3. VisitedInv'
  <2>1. \A x : Placed(x)' <=> Placed(x)
    BY <1>1 DEF Placed
  <2> QED
    BY <1>1, <2>1 DEF IInv, VisitedInv
<1> QED
  BY <1>2, <1>3 DEF IInv

LEMMA Invariance == Spec => []IInv
<1>1. IInv /\ [Next]_vars => IInv'
  <2> SUFFICES ASSUME IInv, [Next]_vars PROVE IInv'
    OBVIOUS
  <2>1. ASSUME NEW entry \in pending,
               \/ VisitHashed(entry) \/ VisitBad(entry) \/ VisitBlob(entry)
               \/ VisitBlobWithoutKey(entry)
        PROVE  IInv'
    BY <2>1, VisitHashedStep, EarlyEndStep, VisitBlobStep
  <2>2. CASE Finish
    BY <2>2, FinishStep
  <2>3. CASE UNCHANGED vars
    BY <2>3 DEF vars, IInv, TypeOK, VisitedInv, PlacesInv, Placed
  <2> QED
    BY <2>1, <2>2, <2>3 DEF Next
<1> QED
  BY <1>1, InitIInv, PTL DEF Spec

-----------------------------------------------------------------------------
(* Whatever the order in which the hash map yields its entries, verify()   *)
(* accepts every store that is Checked and Sized, and no store that is not *)
(* Checked or has a size that no order of its entries could have hidden.   *)
THEOREM OrderIrrelevant == Spec => []VerdictIndependentOfOrder
<1>1. Checked(cache) <=> \A entry \in cache : Good(entry)
  BY DEF Checked, Good
<1>2. Sized(cache) <=> \A entry \in cache : ~IllSized(entry)
  BY DEF Sized, IllSized
<1>3. ASSUME IInv, result = "ok", NEW x \in cache, IllSized(x)
      PROVE  Hidden(cache)
  <2>1. Good(x) /\ Placed(x)
    BY <1>3 DEF IInv, VisitedInv
  <2>2. x \in Entry
    BY <1>3, OracleAssumption DEF IInv, TypeOK
  <2>3. x.kind = "Blob" /\ ~x.sized /\ Fits(x) /\ x.element # Elements
    BY <1>3, <2>1 DEF IllSized, Good
  <2>4. x.commitment \in Commitments /\ Place(x.element) \in 0 .. Capacity - 1
    BY <2>2, <2>3, OracleAssumption DEF Entry, Fits, Place
  <2>5. blobs[x.commitment][Place(x.element)] # ZeroValue
    BY <2>1, <2>3 DEF Placed
  <2>6. PICK y \in cache : /\ ElementAt(y, x.commitment, Place(x.element)) /\ y.sized
                           /\ y.value # ZeroValue
    BY <1>3, <2>4, <2>5 DEF IInv, PlacesInv
  <2> QED
    BY <2>3, <2>6 DEF Hidden
<1>4. IInv => VerdictIndependentOfOrder
  BY <1>1, <1>2, <1>3 DEF IInv, TypeOK, VisitedInv, VerdictIndependentOfOrder
<1> QED
  BY <1>4, Invariance, PTL

(* The blobs verify() gathers hold, in each place, an element the store    *)
(* has for that place and commitment; and a place that is zero once it has *)
(* accepted the store is one for which the store has nothing else.         *)
THEOREM BlobsFaithful == Spec => []BlobsComeFromStore
<1>1. ASSUME IInv, NEW c \in Commitments, NEW e \in 0 .. Capacity - 1,
             result = "ok", blobs[c][e] = ZeroValue,
             NEW x \in cache, ElementAt(x, c, e)
      PROVE  x.value = ZeroValue
  <2>1. Placed(x)
    BY <1>1 DEF IInv, VisitedInv
  <2>2. Fits(x)
    BY <1>1, OracleAssumption DEF ElementAt, Fits
  <2> QED
    BY <1>1, <2>1, <2>2 DEF Placed, ElementAt
<1>2. IInv => BlobsComeFromStore
  BY <1>1 DEF IInv, PlacesInv, BlobsComeFromStore
<1> QED
  BY <1>2, Invariance, PTL
==============================================================================
