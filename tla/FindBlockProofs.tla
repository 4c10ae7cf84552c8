--------------------------- MODULE FindBlockProofs ---------------------------
(***************************************************************************)
(* The binary search of find_block_by_timestamp finds the first block at   *)
(* or after the target, for every chain, every target and every growth of  *)
(* the chain during the search.                                            *)
(***************************************************************************)
EXTENDS FindBlock, TLAPS

Started == pc \notin {"latest", "failed"}

(* As long as L1 does not reorg: below low everything is earlier than the  *)
(* target, and from high + 1 to the latest block read everything is later; *)
(* either the bounds are ordinary numbers, or high has wrapped.            *)
Bounded ==
  /\ latest < Len(chain)
  /\ \A n \in 0 .. low - 1 : Exists(n) /\ Timestamp(n) < target_timestamp
  /\ \/ /\ high <= latest /\ low <= high + 1
        /\ \A n \in high + 1 .. latest : Timestamp(n) > target_timestamp
     \/ high = Mod64 - 1 /\ low = 0 /\ Timestamp(0) > target_timestamp

SearchInv ==
  /\ pc = "latest" => low = 0
  /\ reorgs = 0 =>
    /\ Started => Bounded
    /\ pc = "last" => low > high
    /\ pc = "found" =>
         /\ Exists(found)
         /\ \/ Timestamp(found) = target_timestamp
            \/ low = found /\ low > high
    /\ pc = "panicked" => 
         Timestamp(0) > target_timestamp \/ Timestamp(latest) < target_timestamp

IInv == TypeOK /\ Increasing(chain) /\ SearchInv

(* A prefix of an increasing sequence is increasing, and so is the sequence *)
(* with a larger element after its last one.                               *)
LEMMA ElementType ==
  ASSUME NEW s \in Seq(Nat), NEW i \in 1 .. Len(s)
  PROVE  s[i] \in Nat
  OBVIOUS

LEMMA PrefixFacts ==
  ASSUME NEW s \in Seq(Nat), Increasing(s), NEW n \in 1 .. Len(s)
  PROVE  /\ SubSeq(s, 1, n) \in Seq(Nat) /\ Len(SubSeq(s, 1, n)) = n
         /\ \A i \in 1 .. n : SubSeq(s, 1, n)[i] = s[i]
         /\ Increasing(SubSeq(s, 1, n))
<1>1. SubSeq(s, 1, n) \in Seq(Nat) /\ Len(SubSeq(s, 1, n)) = n
  OBVIOUS
<1>2. \A i \in 1 .. n : SubSeq(s, 1, n)[i] = s[i]
  OBVIOUS
<1>3. ASSUME NEW i \in 1 .. n, NEW j \in 1 .. n, i < j
      PROVE  SubSeq(s, 1, n)[i] < SubSeq(s, 1, n)[j]
  <2>1. s[i] < s[j]
    BY <1>3 DEF Increasing
  <2> QED
    BY <2>1, <1>2
<1>4. Increasing(SubSeq(s, 1, n))
  BY <1>1, <1>3 DEF Increasing
<1> QED
  BY <1>1, <1>2, <1>4

LEMMA ExtensionFacts ==
  ASSUME NEW s \in Seq(Nat), Increasing(s), Len(s) > 0, NEW e \in Nat, s[Len(s)] < e
  PROVE  /\ Append(s, e) \in Seq(Nat) /\ Len(Append(s, e)) = Len(s) + 1
         /\ \A i \in 1 .. Len(s) : Append(s, e)[i] = s[i]
         /\ Increasing(Append(s, e))
<1>1. /\ Append(s, e) \in Seq(Nat) /\ Len(Append(s, e)) = Len(s) + 1
      /\ Append(s, e)[Len(s) + 1] = e
  OBVIOUS
<1>2. \A i \in 1 .. Len(s) : Append(s, e)[i] = s[i]
  OBVIOUS
<1>3. \A i \in 1 .. Len(s) : s[i] < e
  <2> SUFFICES ASSUME NEW i \in 1 .. Len(s) PROVE s[i] < e
    OBVIOUS
  <2>1. s[i] \in Nat /\ s[Len(s)] \in Nat
    BY ElementType
  <2>2. i = Len(s) \/ s[i] < s[Len(s)]
    BY DEF Increasing
  <2> QED
    BY <2>1, <2>2
<1>4. ASSUME NEW i \in 1 .. Len(s) + 1, NEW j \in 1 .. Len(s) + 1, i < j
      PROVE  Append(s, e)[i] < Append(s, e)[j]
  <2>1. i \in 1 .. Len(s)
    BY <1>4
  <2>2. CASE j = Len(s) + 1
    BY <2>1, <2>2, <1>1, <1>2, <1>3
  <2>3. CASE j \in 1 .. Len(s)
    BY <2>1, <2>3, <1>2, <1>4 DEF Increasing
  <2> QED
    BY <2>2, <2>3
<1>5. Increasing(Append(s, e))
  BY <1>1, <1>4 DEF Increasing
<1> QED
  BY <1>1, <1>2, <1>5

LEMMA InitIInv == Init => IInv
<1> SUFFICES ASSUME Init PROVE IInv
  OBVIOUS
<1>1. chain \in Seq(Nat) /\ Increasing(chain) /\ chain # <<>> /\ Len(chain) <= MaxLength
  BY FindBlockAssumption DEF Init
<1>2. MaxLength \in Nat /\ MaxLength > 0 /\ Mod64 \in Nat /\ Mod64 > 0
      /\ MaxReorgs \in Nat
  BY <1>1, FindBlockAssumption
<1>3. TypeOK
  <2>1. target_timestamp \in Nat
    BY FindBlockAssumption DEF Init
  <2> QED
    BY <1>1, <1>2, <2>1 DEF Init, TypeOK
<1>4. SearchInv
  BY DEF Init, SearchInv, Started
<1> QED
  BY <1>1, <1>3, <1>4 DEF IInv

(* The facts about the types and the constants every step uses. *)
LEMMA Numbers ==
  ASSUME IInv
  PROVE  /\ MaxLength \in Nat /\ MaxLength > 0
         /\ Mod64 \in Nat /\ Mod64 > 2 * MaxLength + 2
         /\ MaxReorgs \in Nat /\ reorgs \in 0 .. MaxReorgs
         /\ target_timestamp \in Nat
         /\ latest \in 0 .. MaxLength - 1 /\ low \in 0 .. MaxLength
         /\ high \in 0 .. Mod64 - 1 /\ found \in 0 .. MaxLength
  BY FindBlockAssumption DEF IInv, TypeOK

LEMMA ChainType ==
  ASSUME IInv
  PROVE  /\ chain \in Seq(Nat) /\ chain # <<>>
         /\ Len(chain) \in Nat /\ Len(chain) > 0 /\ Len(chain) <= MaxLength
<1>1. chain \in Seq(Nat) /\ chain # <<>> /\ Len(chain) <= MaxLength
  BY DEF IInv, TypeOK
<1>2. Len(chain) \in Nat /\ Len(chain) > 0
  BY <1>1
<1> QED
  BY <1>1, <1>2

LEMMA TimestampType ==
  ASSUME IInv, NEW n \in Nat, Exists(n)
  PROVE  Timestamp(n) \in Nat
<1>1. n + 1 \in 1 .. Len(chain)
  BY ChainType DEF Exists
<1> QED
  BY <1>1, ChainType DEF Timestamp

(* Later blocks have later timestamps. *)
LEMMA LaterBlocks ==
  ASSUME IInv, NEW m \in Nat, NEW n \in Nat, m < n, Exists(n)
  PROVE  Timestamp(m) < Timestamp(n)
<1>1. m + 1 \in 1 .. Len(chain) /\ n + 1 \in 1 .. Len(chain) /\ m + 1 < n + 1
  BY ChainType DEF Exists
<1>2. \A i, j \in 1 .. Len(chain) : i < j => chain[i] < chain[j]
  BY DEF IInv, Increasing
<1> QED
  BY <1>1, <1>2 DEF Timestamp

LEMMA SmallRemainder ==
  ASSUME NEW m \in Nat, NEW x \in Nat, x < m
  PROVE  x % m = x
  OBVIOUS

(* With ordinary bounds the midpoint lies between them; with a wrapped one *)
(* it is a block number beyond every chain.                                *)
LEMMA Midpoint ==
  ASSUME IInv
  PROVE  /\ high < MaxLength /\ low <= high => low <= mid /\ mid <= high /\ mid \in Nat
         /\ high = Mod64 - 1 /\ low = 0 => ~Exists(mid)
<1>1. ASSUME high < MaxLength, low <= high
      PROVE  low <= mid /\ mid <= high /\ mid \in Nat
  <2>1. low + high \in Nat /\ low + high < Mod64 /\ Mod64 \in Nat
    BY Numbers, <1>1
  <2>2. (low + high) % Mod64 = low + high
    BY <2>1, SmallRemainder
  <2>3. mid = (low + high) \div 2
    BY <2>2 DEF mid
  <2> QED
    BY Numbers, <1>1, <2>3
<1>2. ASSUME high = Mod64 - 1, low = 0 PROVE ~Exists(mid)
  <2>1. low + high \in Nat /\ low + high < Mod64 /\ Mod64 \in Nat
        /\ low + high = Mod64 - 1
    BY Numbers, <1>2
  <2>2. (low + high) % Mod64 = low + high
    BY <2>1, SmallRemainder
  <2>3. mid = (Mod64 - 1) \div 2
    BY <2>1, <2>2 DEF mid
  <2>4. mid \in Nat /\ mid > MaxLength
    BY Numbers, <2>3
  <2> QED
    BY Numbers, ChainType, <2>4 DEF Exists
<1> QED
  BY <1>1, <1>2

LEMMA ReadLatestIInv == ASSUME IInv, ReadLatest PROVE IInv'
<1>1. /\ latest' = Len(chain) - 1 /\ high' = Len(chain) - 1 /\ low' = low
      /\ pc = "latest" /\ pc' = "search" /\ chain' = chain /\ reorgs' = reorgs
      /\ target_timestamp' = target_timestamp /\ found' = found
  BY DEF ReadLatest
<1>2. TypeOK'
  BY <1>1, Numbers, ChainType DEF IInv, TypeOK
<1>3. low = 0
  BY <1>1 DEF IInv, SearchInv, Started
<1>4. SearchInv'
  BY <1>1, <1>3, Numbers, ChainType DEF SearchInv, Started, Bounded, Exists, Timestamp
<1> QED
  BY <1>1, <1>2, <1>4 DEF IInv, Increasing

(* One read of the midpoint while the bounds are as SearchInv says. *)
LEMMA ReadMidBounded ==
  ASSUME IInv, ReadMid, reorgs = 0
  PROVE  Bounded'
<1>1. /\ pc = "search" /\ low <= high /\ Exists(mid)
      /\ chain' = chain /\ latest' = latest
      /\ target_timestamp' = target_timestamp
  BY DEF ReadMid
<1>2. Bounded
  BY <1>1 DEF IInv, SearchInv, Started
<1>3. /\ high <= latest
      /\ \A n \in high + 1 .. latest : Timestamp(n) > target_timestamp
  BY <1>1, <1>2, Midpoint DEF Bounded
<1>4. mid \in Nat /\ low <= mid /\ mid <= high
  BY <1>1, <1>3, Numbers, Midpoint
<1>5. Timestamp(mid) \in Nat /\ target_timestamp \in Nat
  BY <1>1, <1>4, TimestampType, Numbers
<1>6. latest < Len(chain)
  BY <1>2 DEF Bounded
<1>7. CASE low' = low /\ high' = high
  BY <1>1, <1>2, <1>7 DEF Bounded, Exists, Timestamp
<1>8. CASE /\ Timestamp(mid) < target_timestamp
           /\ low' = mid + 1 /\ high' = high
  <2>1. \A n \in 0 .. mid : Exists(n) /\ Timestamp(n) < target_timestamp
    <3> SUFFICES ASSUME NEW n \in 0 .. mid
                 PROVE  Exists(n) /\ Timestamp(n) < target_timestamp
      OBVIOUS
    <3>1. n \in Nat /\ Exists(n)
      BY <1>1, <1>4, ChainType DEF Exists
    <3>2. Timestamp(n) \in Nat
      BY <3>1, TimestampType
    <3>3. CASE n = mid
      BY <3>1, <3>3, <1>8
    <3>4. CASE n < mid
      <4>1. Timestamp(n) < Timestamp(mid)
        BY <1>1, <1>4, <3>1, <3>4, LaterBlocks
      <4> QED
        BY <4>1, <3>1, <3>2, <1>5, <1>8
    <3> QED
      BY <3>3, <3>4, <1>4
  <2>2. low' <= high' + 1 /\ low' - 1 = mid
    BY <1>4, <1>8, Numbers
  <2> QED
    BY <2>1, <2>2, <1>1, <1>3, <1>6, <1>8 DEF Bounded, Exists, Timestamp
<1>9. CASE /\ Timestamp(mid) > target_timestamp
           /\ high' = Below(mid) /\ low' = low
  <2>1. \A n \in mid .. latest : Timestamp(n) > target_timestamp
    <3> SUFFICES ASSUME NEW n \in mid .. latest
                 PROVE  Timestamp(n) > target_timestamp
      OBVIOUS
    <3>1. n \in Nat /\ Exists(n)
      BY <1>4, <1>6, Numbers, ChainType DEF Exists
    <3>2. Timestamp(n) \in Nat
      BY <3>1, TimestampType
    <3>3. CASE mid < n
      <4>1. Timestamp(mid) < Timestamp(n)
        BY <1>4, <3>1, <3>3, LaterBlocks
      <4> QED
        BY <4>1, <3>2, <1>5, <1>9
    <3> QED
      BY <3>3, <3>1, <1>4, <1>9
  <2>2. CASE mid = 0
    <3>1. low' = 0 /\ high' = Mod64 - 1
      BY <2>2, <1>4, <1>9, Numbers DEF Below
    <3>2. Timestamp(0) > target_timestamp
      BY <2>2, <1>9 DEF Timestamp
    <3> QED
      BY <3>1, <3>2, <1>1, <1>6 DEF Bounded, Exists, Timestamp
  <2>3. CASE mid # 0
    <3>1. high' = mid - 1
      BY <2>3, <1>9 DEF Below
    <3>2. high' <= latest /\ low' <= high' + 1 /\ high' + 1 = mid
      BY <3>1, <1>3, <1>4, <1>9, Numbers
    <3>3. \A n \in 0 .. low - 1 : Exists(n) /\ Timestamp(n) < target_timestamp
      BY <1>2 DEF Bounded
    <3> QED
      BY <3>2, <3>3, <2>1, <1>1, <1>6, <1>9 DEF Bounded, Exists, Timestamp
  <2> QED
    BY <2>2, <2>3
<1> QED
  BY <1>7, <1>8, <1>9 DEF ReadMid, Above

LEMMA ReadMidIInv == ASSUME IInv, ReadMid PROVE IInv'
<1>1. /\ pc = "search" /\ Exists(mid)
      /\ chain' = chain /\ reorgs' = reorgs
      /\ target_timestamp' = target_timestamp /\ latest' = latest
  BY DEF ReadMid
<1>2. mid \in Nat /\ mid < Len(chain)
  <2>1. (low + high) % Mod64 \in Nat
    BY Numbers
  <2> QED
    BY <2>1, <1>1 DEF mid, Exists
<1>3. TypeOK'
  <2>1. low' \in 0 .. MaxLength /\ found' \in 0 .. MaxLength
    <3>1. mid \in 0 .. MaxLength /\ Above(mid) \in 0 .. MaxLength
      BY <1>2, Numbers, ChainType DEF Above
    <3>2. (low' = low \/ low' = Above(mid)) /\ (found' = found \/ found' = mid)
      BY DEF ReadMid
    <3>3. low \in 0 .. MaxLength /\ found \in 0 .. MaxLength
      BY DEF IInv, TypeOK
    <3> QED
      BY <3>1, <3>2, <3>3
  <2>2. high' \in 0 .. Mod64 - 1
    <3>1. Below(mid) \in 0 .. Mod64 - 1
      BY <1>2, Numbers, ChainType DEF Below
    <3> QED
      BY <3>1, Numbers DEF ReadMid
  <2>3. pc' \in {"search", "found"}
    BY <1>1 DEF ReadMid
  <2> QED
    BY <2>1, <2>2, <2>3, <1>1 DEF IInv, TypeOK
<1>4. SearchInv'
  <2>1. reorgs = 0 => Bounded'
    BY ReadMidBounded
  <2>2. \/ pc' = "search"
        \/ pc' = "found" /\ found' = mid /\ Timestamp(mid) = target_timestamp
    BY <1>1 DEF ReadMid
  <2>3. pc' = "found" => Exists(found)' /\ Timestamp(found)' = target_timestamp'
    BY <2>2, <1>1 DEF Exists, Timestamp
  <2> QED
    BY <2>1, <2>2, <2>3, <1>1 DEF SearchInv, Started
<1> QED
  BY <1>1, <1>3, <1>4 DEF IInv, Increasing

LEMMA EndSearchIInv == ASSUME IInv, EndSearch PROVE IInv'
<1>1. /\ pc = "search" /\ low > high /\ pc' = "last"
      /\ UNCHANGED <<chain, reorgs, target_timestamp, latest, low, high, found>>
  BY DEF EndSearch
<1>2. TypeOK' /\ Increasing(chain')
  BY <1>1 DEF IInv, TypeOK
<1>3. SearchInv'
  BY <1>1 DEF IInv, SearchInv, Started, Bounded, Exists, Timestamp
<1> QED
  BY <1>2, <1>3 DEF IInv, Increasing

LEMMA ReadLowIInv == ASSUME IInv, ReadLow PROVE IInv'
<1>1. /\ pc = "last" /\ Exists(low) /\ pc' = "found" /\ found' = low
      /\ chain' = chain /\ reorgs' = reorgs
      /\ target_timestamp' = target_timestamp /\ latest' = latest
      /\ low' = low /\ high' = high
  BY DEF ReadLow
<1>2. TypeOK' /\ Increasing(chain')
  BY <1>1, Numbers, ChainType DEF IInv, TypeOK
<1>3. SearchInv'
  BY <1>1 DEF IInv, SearchInv, Started, Bounded, Exists, Timestamp
<1> QED
  BY <1>2, <1>3 DEF IInv, Increasing

LEMMA PanicIInv == ASSUME IInv, Panic PROVE IInv'
<1>1. /\ pc' = "panicked" /\ chain' = chain /\ reorgs' = reorgs
      /\ target_timestamp' = target_timestamp /\ latest' = latest
      /\ low' = low /\ high' = high /\ found' = found
  BY DEF Panic
<1>2. TypeOK' /\ Increasing(chain')
  BY <1>1 DEF IInv, TypeOK
<1>3. ASSUME reorgs = 0 
      PROVE  /\ Bounded
             /\ Timestamp(0) > target_timestamp \/ Timestamp(latest) < target_timestamp
  <2>1. Bounded /\ (pc = "last" => low > high)
    BY <1>3 DEF IInv, SearchInv, Started, Panic
  <2>2. CASE high = Mod64 - 1 /\ low = 0 /\ Timestamp(0) > target_timestamp
    BY <2>1, <2>2
  <2>3. CASE high <= latest /\ low <= high + 1
    <3>1. high < MaxLength
      BY <2>3, Numbers, ChainType
    <3>2. pc = "last" /\ ~Exists(low)
      <4>1. CASE low <= high /\ ~Exists(mid)
        BY <4>1, <3>1, <2>1, <2>3, Midpoint, Numbers, ChainType DEF Bounded, Exists
      <4> QED
        BY <4>1 DEF Panic
    <3>3. latest \in 0 .. low - 1
      BY <3>2, <2>1, <2>3, Numbers, ChainType DEF Bounded, Exists
    <3> QED
      BY <3>3, <2>1 DEF Bounded
  <2> QED
    BY <2>1, <2>2, <2>3 DEF Bounded
<1>4. SearchInv'
  <2>1. reorgs = 0 => Bounded'
    BY <1>1, <1>3 DEF Bounded, Exists, Timestamp
  <2>2. reorgs = 0 => Timestamp(0)' > target_timestamp' \/ Timestamp(latest)' < target_timestamp'
    BY <1>1, <1>3 DEF Timestamp
  <2> QED
    BY <2>1, <2>2, <1>1 DEF SearchInv, Started
<1> QED
  BY <1>2, <1>4 DEF IInv, Increasing

LEMMA RpcErrorIInv == ASSUME IInv, RpcError PROVE IInv'
<1>1. /\ pc' = "failed"
      /\ UNCHANGED <<chain, reorgs, target_timestamp, latest, low, high, found>>
  BY DEF RpcError
<1>2. TypeOK' /\ Increasing(chain') /\ SearchInv'
  BY <1>1 DEF IInv, TypeOK, SearchInv, Started
<1> QED
  BY <1>2 DEF IInv, Increasing

LEMMA GrowIInv == ASSUME IInv, Grow PROVE IInv'
<1>1. /\ reorgs' = reorgs /\ target_timestamp' = target_timestamp /\ pc' = pc
      /\ latest' = latest /\ low' = low /\ high' = high /\ found' = found
      /\ Len(chain) < MaxLength
  BY DEF Grow, searchVars
<1>2. PICK d \in Slots : chain' = Append(chain, chain[Len(chain)] + d)
  BY DEF Grow
<1>3. d \in Nat /\ d > 0
  BY FindBlockAssumption
<1>4. chain \in Seq(Nat) /\ Increasing(chain) /\ Len(chain) > 0 /\ Len(chain) \in Nat
  BY ChainType DEF IInv
<1>5. chain[Len(chain)] \in Nat
  BY <1>4, ElementType
<1>6. chain[Len(chain)] + d \in Nat /\ chain[Len(chain)] < chain[Len(chain)] + d
  BY <1>3, <1>5
<1>7. /\ chain' \in Seq(Nat) /\ Len(chain') = Len(chain) + 1
      /\ \A i \in 1 .. Len(chain) : chain'[i] = chain[i]
      /\ Increasing(chain')
  BY <1>2, <1>4, <1>6, ExtensionFacts
<1>8. TypeOK'
  <2>1. chain' # <<>> /\ Len(chain') <= MaxLength
    BY <1>1, <1>4, <1>7, Numbers
  <2> QED
    BY <2>1, <1>1, <1>7 DEF IInv, TypeOK
<1>9. SearchInv'
  <2>1. \A n \in Nat : n < Len(chain) =>
          n < Len(chain') /\ chain'[n + 1] = chain[n + 1]
    <3> SUFFICES ASSUME NEW n \in Nat, n < Len(chain)
                 PROVE  n < Len(chain') /\ chain'[n + 1] = chain[n + 1]
      OBVIOUS
    <3>1. n + 1 \in 1 .. Len(chain)
      BY <1>4
    <3> QED
      BY <3>1, <1>4, <1>7
  <2>2. \A n \in Nat : Exists(n) => Exists(n)' /\ Timestamp(n)' = Timestamp(n)
    BY <2>1 DEF Exists, Timestamp
  <2>3. Exists(0)
    BY <1>4 DEF Exists
  <2>4. SearchInv
    BY DEF IInv
  <2>5. ASSUME reorgs = 0, Started
        PROVE  Bounded' /\ Exists(latest)
    <3>1. Bounded
      BY <2>4, <2>5 DEF SearchInv
    <3>2. latest \in Nat /\ latest < Len(chain) /\ latest < Len(chain')
      BY <3>1, <1>4, <1>7, Numbers DEF Bounded
    <3>3. \A n \in 0 .. low - 1 : Exists(n)' /\ Timestamp(n)' < target_timestamp
      BY <3>1, <2>2, Numbers DEF Bounded
    <3>4. CASE /\ high <= latest /\ low <= high + 1
               /\ \A n \in high + 1 .. latest : Timestamp(n) > target_timestamp
      <4>1. \A n \in high + 1 .. latest : n \in Nat /\ Exists(n)
        BY <3>2, Numbers DEF Exists
      <4>2. \A n \in high + 1 .. latest : Timestamp(n)' > target_timestamp
        BY <3>4, <4>1, <2>2
      <4> QED
        BY <3>2, <3>3, <3>4, <4>2, <1>1 DEF Bounded, Exists
    <3>5. CASE high = Mod64 - 1 /\ low = 0 /\ Timestamp(0) > target_timestamp
      <4>1. Timestamp(0)' > target_timestamp
        BY <3>5, <2>2, <2>3
      <4>2. high' = Mod64 - 1 /\ low' = 0 /\ latest' < Len(chain')
        BY <3>2, <3>5, <1>1
      <4> QED
        BY <4>1, <4>2, <3>2, <3>3, <1>1 DEF Bounded, Exists
    <3>6. Exists(latest)
      BY <3>2 DEF Exists
    <3> QED
      BY <3>1, <3>4, <3>5, <3>6 DEF Bounded
  <2>6. reorgs = 0 => (Started => Bounded')
    BY <2>5
  <2>7. reorgs = 0 /\ pc = "last" => low > high
    BY <2>4 DEF SearchInv
  <2>8. ASSUME reorgs = 0, pc = "found"
        PROVE  /\ Exists(found)'
               /\ \/ Timestamp(found)' = target_timestamp
                  \/ low = found /\ low > high
    <3>1. /\ Exists(found)
          /\ \/ Timestamp(found) = target_timestamp
             \/ low = found /\ low > high
      BY <2>4, <2>8 DEF SearchInv
    <3>2. found \in Nat /\ found' = found
      BY <1>1, Numbers
    <3>3. found < Len(chain)
      BY <3>1 DEF Exists
    <3>4. found < Len(chain') /\ chain'[found + 1] = chain[found + 1]
      BY <2>1, <3>2, <3>3
    <3> QED
      BY <3>1, <3>2, <3>4 DEF Exists, Timestamp
  <2>9. ASSUME reorgs = 0, pc = "panicked"
        PROVE  Timestamp(0)' > target_timestamp \/ Timestamp(latest)' < target_timestamp
    <3>1. Timestamp(0) > target_timestamp \/ Timestamp(latest) < target_timestamp
      BY <2>4, <2>9 DEF SearchInv
    <3>2. latest \in Nat /\ latest < Len(chain) /\ latest' = latest
      BY <2>5, <2>9, <1>1, Numbers DEF Started, Exists
    <3>3. chain'[latest + 1] = chain[latest + 1] /\ chain'[0 + 1] = chain[0 + 1]
      BY <2>1, <3>2, <1>4
    <3> QED
      BY <3>1, <3>2, <3>3 DEF Timestamp
  <2> QED
    BY <2>4, <2>6, <2>7, <2>8, <2>9, <1>1 DEF SearchInv, Started
<1> QED
  BY <1>7, <1>8, <1>9 DEF IInv

LEMMA ReorgIInv == ASSUME IInv, Reorg PROVE IInv'
<1>1. /\ reorgs' = reorgs + 1 /\ target_timestamp' = target_timestamp /\ pc' = pc
      /\ latest' = latest /\ low' = low /\ high' = high /\ found' = found
      /\ reorgs < MaxReorgs
  BY DEF Reorg, searchVars
<1>2. PICK n \in 1 .. Len(chain) - 1, d \in Slots :
        chain' = Append(SubSeq(chain, 1, n), chain[n] + d)
  BY DEF Reorg
<1>3. d \in Nat /\ d > 0
  BY FindBlockAssumption
<1>4. chain \in Seq(Nat) /\ Increasing(chain) /\ n \in 1 .. Len(chain)
      /\ n + 1 <= Len(chain)
  BY ChainType DEF IInv
<1>5. chain[n] \in Nat
  BY <1>4, ElementType
<1>6. chain[n] + d \in Nat /\ chain[n] < chain[n] + d
  BY <1>3, <1>5
<1> DEFINE kept == SubSeq(chain, 1, n)
<1>7. /\ kept \in Seq(Nat) /\ Len(kept) = n /\ Increasing(kept)
      /\ kept[n] = chain[n] /\ Len(kept) > 0
  BY <1>4, PrefixFacts
<1>8. chain' = Append(kept, chain[n] + d)
  BY <1>2
<1> HIDE DEF kept
<1>9. chain' \in Seq(Nat) /\ Len(chain') = n + 1 /\ Increasing(chain')
  BY <1>4, <1>6, <1>7, <1>8, ExtensionFacts
<1>10. TypeOK'
  <2>1. chain' # <<>> /\ Len(chain') <= MaxLength
    BY <1>4, <1>9, ChainType, Numbers
  <2>2. reorgs' \in 0 .. MaxReorgs
    BY <1>1, Numbers
  <2> QED
    BY <2>1, <2>2, <1>1, <1>9 DEF IInv, TypeOK
<1>11. SearchInv'
  <2>1. reorgs' # 0
    BY <1>1, Numbers
  <2>2. SearchInv
    BY DEF IInv
  <2> QED
    BY <2>1, <2>2, <1>1 DEF SearchInv, Started
<1> QED
  BY <1>9, <1>10, <1>11 DEF IInv

LEMMA StutterIInv == ASSUME IInv, UNCHANGED vars PROVE IInv'
BY DEF IInv, TypeOK, SearchInv, Started, Bounded, Increasing, Exists, Timestamp,
       vars, searchVars

LEMMA InvariantHolds == Spec => []IInv
<1>1. IInv /\ [Next]_vars => IInv'
  BY ReadLatestIInv, ReadMidIInv, EndSearchIInv, ReadLowIInv, PanicIInv,
     RpcErrorIInv, GrowIInv, ReorgIInv, StutterIInv
     DEF Next, Search
<1> QED
  BY InitIInv, <1>1, PTL DEF Spec

(* The variables of the search keep their types: in particular the lower   *)
(* bound, which is read as a block number, never wraps.                    *)
THEOREM SearchTypes == Spec => []TypeOK
<1>1. IInv => TypeOK
  BY DEF IInv
<1> QED
  BY InvariantHolds, <1>1, PTL

(* find_block_by_timestamp returns the first block at or after the target, *)
(* however L1 grows meanwhile: what [10 minutes after the L2 block] means  *)
(* for the L1 head of a range proof.                                       *)
THEOREM FirstBlockFound == Spec => []FirstAtOrAfterTarget
<1>1. ASSUME IInv, pc = "found", reorgs = 0, TargetReached
      PROVE  /\ Exists(found) /\ Timestamp(found) >= target_timestamp
             /\ \A n \in 0 .. found - 1 : Timestamp(n) < target_timestamp
  <2>1. Bounded /\ Exists(found)
    BY <1>1 DEF IInv, SearchInv, Started
  <2>2. CASE Timestamp(found) = target_timestamp
    <3>1. ASSUME NEW n \in 0 .. found - 1
          PROVE  Timestamp(n) < target_timestamp
      <4>1. n \in Nat /\ found \in Nat /\ n < found
        BY <1>1, Numbers
      <4>2. Timestamp(n) < Timestamp(found)
        BY <4>1, <2>1, <1>1, LaterBlocks
      <4> QED
        BY <4>2, <2>2
    <3>2. Timestamp(found) >= target_timestamp
      BY <2>2, <1>1, Numbers
    <3> QED
      BY <2>1, <3>1, <3>2
  <2>3. CASE low = found /\ low > high
    <3>1. high <= latest /\ low = high + 1
      BY <2>1, <2>3, <1>1, Numbers, ChainType DEF Bounded
    <3>2. low <= latest
      <4>1. latest \notin 0 .. low - 1
        <5> SUFFICES ASSUME latest \in 0 .. low - 1 PROVE FALSE
          OBVIOUS
        <5>1. Timestamp(latest) < target_timestamp
          BY <2>1 DEF Bounded
        <5>2. Timestamp(latest) >= target_timestamp /\ Timestamp(latest) \in Nat
          BY <1>1, Numbers, TimestampType DEF TargetReached, Exists
        <5> QED
          BY <5>1, <5>2, <1>1, Numbers, ChainType
      <4> QED
        BY <4>1, <1>1, Numbers, ChainType
    <3>3. Timestamp(low) > target_timestamp
      BY <2>1, <2>3, <3>1, <3>2, <1>1, Numbers, ChainType DEF Bounded
    <3>4. Timestamp(low) \in Nat
      BY <2>1, <2>3, <1>1, Numbers, TimestampType
    <3>5. \A n \in 0 .. low - 1 : Timestamp(n) < target_timestamp
      BY <2>1 DEF Bounded
    <3>6. Timestamp(low) >= target_timestamp
      BY <3>3, <3>4, <1>1, Numbers
    <3> QED
      BY <2>1, <2>3, <3>5, <3>6
  <2> QED
    BY <2>2, <2>3, <1>1 DEF IInv, SearchInv
<1>2. IInv => FirstAtOrAfterTarget
  BY <1>1 DEF FirstAtOrAfterTarget
<1> QED
  BY InvariantHolds, <1>2, PTL

(* Without a reorg the unwraps of the search panic only for a target       *)
(* before genesis: the wrapped upper bound is the only way to them.        *)
THEOREM PanicsOnlyBeforeGenesis == Spec => []PanicOnlyBeforeGenesis
<1>1. ASSUME IInv, pc = "panicked", reorgs = 0, TargetReached
      PROVE  Timestamp(0) > target_timestamp
  <2>1. Timestamp(0) > target_timestamp \/ Timestamp(latest) < target_timestamp
    BY <1>1 DEF IInv, SearchInv
  <2>2. Timestamp(latest) >= target_timestamp /\ Timestamp(latest) \in Nat
    BY <1>1, Numbers, TimestampType DEF TargetReached, Exists
  <2> QED
    BY <2>1, <2>2, <1>1, Numbers, ChainType
<1>2. IInv => PanicOnlyBeforeGenesis
  BY <1>1 DEF PanicOnlyBeforeGenesis
<1> QED
  BY InvariantHolds, <1>2, PTL

-----------------------------------------------------------------------------
(* The refinement of HeadSearch.                                           *)
LEMMA ClosestIsFirst ==
  ASSUME IInv, latest < Len(chain), NEW k \in 0 .. latest,
         Timestamp(k) >= target_timestamp,
         \A m \in 0 .. k - 1 : Timestamp(m) < target_timestamp
  PROVE  Atomic!Closest = k
<1> DEFINE time == [n \in 0 .. Len(chain) - 1 |-> chain[n + 1]]
           First(n) == /\ time[n] >= target_timestamp
                       /\ \A m \in 0 .. n - 1 : time[m] < target_timestamp
<1>1. latest \in Nat /\ Len(chain) \in Nat /\ target_timestamp \in Nat
  BY Numbers, ChainType
<1>2. \A n \in 0 .. latest : time[n] = Timestamp(n) /\ time[n] \in Nat
  <2> SUFFICES ASSUME NEW n \in 0 .. latest
               PROVE  time[n] = Timestamp(n) /\ time[n] \in Nat
    OBVIOUS
  <2>1. n \in 0 .. Len(chain) - 1 /\ n \in Nat /\ Exists(n)
    BY <1>1 DEF Exists
  <2>2. time[n] = Timestamp(n)
    BY <2>1 DEF Timestamp
  <2> QED
    BY <2>1, <2>2, TimestampType
<1> HIDE DEF time
<1>3. First(k)
  BY <1>1, <1>2
<1>4. ASSUME NEW n \in 0 .. latest, First(n) PROVE n = k
  <2>1. ~(n < k)
    <3> SUFFICES ASSUME n < k PROVE FALSE
      OBVIOUS
    <3>1. n \in 0 .. k - 1
      BY <1>1
    <3>2. time[n] < target_timestamp /\ time[n] >= target_timestamp
      BY <1>3, <1>4, <3>1
    <3> QED
      BY <1>1, <1>2, <3>2
  <2>2. ~(k < n)
    <3> SUFFICES ASSUME k < n PROVE FALSE
      OBVIOUS
    <3>1. k \in 0 .. n - 1
      BY <1>1
    <3>2. time[k] < target_timestamp /\ time[k] >= target_timestamp
      BY <1>3, <1>4, <3>1
    <3> QED
      BY <1>1, <1>2, <3>2
  <2> QED
    BY <1>1, <2>1, <2>2
<1>5. time[latest] >= target_timestamp
  <2>1. time[latest] = Timestamp(latest) /\ Exists(latest)
    BY <1>1, <1>2 DEF Exists
  <2>2. k = latest \/ Timestamp(k) < Timestamp(latest)
    BY <1>1, <2>1, LaterBlocks
  <2>3. Timestamp(k) \in Nat /\ Timestamp(latest) \in Nat
    BY <1>1, <1>2
  <2> QED
    BY <1>1, <2>1, <2>2, <2>3
<1>6. Atomic!Closest = CHOOSE n \in 0 .. latest : First(n)
  BY <1>5 DEF Atomic!Closest, Atomic!ClosestBlock, time
<1> HIDE DEF First
<1> QED
  BY <1>3, <1>4, <1>6

LEMMA ClosestBeyond ==
  ASSUME IInv, latest < Len(chain), Timestamp(latest) < target_timestamp
  PROVE  Atomic!Closest = latest + 1
<1> DEFINE time == [n \in 0 .. Len(chain) - 1 |-> chain[n + 1]]
<1>1. latest \in Nat /\ Len(chain) \in Nat /\ target_timestamp \in Nat
      /\ Timestamp(latest) \in Nat
  BY Numbers, ChainType, TimestampType DEF Exists
<1>2. time[latest] = Timestamp(latest)
  BY <1>1 DEF Timestamp
<1>3. ~(time[latest] >= target_timestamp)
  BY <1>1, <1>2
<1> HIDE DEF time
<1> QED
  BY <1>3 DEF Atomic!Closest, Atomic!ClosestBlock, time

(* When the loop is over without a hit, low is the closest block.          *)
LEMMA LowIsClosest ==
  ASSUME IInv, pc = "last", reorgs = 0
  PROVE  Atomic!Closest = low /\ ~Atomic!BeforeGenesis
<1>1. Bounded /\ low > high
  BY DEF IInv, SearchInv, Started
<1>2. /\ latest \in Nat /\ low \in Nat /\ high \in Nat /\ latest < Len(chain)
      /\ Len(chain) \in Nat /\ target_timestamp \in Nat
  BY <1>1, Numbers, ChainType DEF Bounded
<1>3. /\ high <= latest /\ low = high + 1
      /\ \A n \in high + 1 .. latest : Timestamp(n) > target_timestamp
      /\ \A n \in 0 .. low - 1 : Timestamp(n) < target_timestamp
  BY <1>1, <1>2, Numbers DEF Bounded
<1>4. ~Atomic!BeforeGenesis
  <2>1. 0 \in 0 .. low - 1 /\ Exists(0)
    BY <1>2, <1>3 DEF Exists
  <2>2. Timestamp(0) < target_timestamp /\ Timestamp(0) \in Nat
    BY <1>3, <2>1, TimestampType
  <2>3. Timestamp(0) = chain[1]
    BY DEF Timestamp
  <2> QED
    BY <1>2, <2>2, <2>3 DEF Atomic!BeforeGenesis
<1>5. CASE low <= latest
  <2>1. low \in 0 .. latest /\ low \in high + 1 .. latest /\ Exists(low)
    BY <1>2, <1>3, <1>5 DEF Exists
  <2>2. Timestamp(low) > target_timestamp /\ Timestamp(low) \in Nat
    BY <1>2, <1>3, <2>1, TimestampType
  <2>3. Timestamp(low) >= target_timestamp
    BY <1>2, <2>2
  <2> QED
    BY <1>2, <1>3, <1>4, <2>1, <2>3, ClosestIsFirst
<1>6. CASE ~(low <= latest)
  <2>1. low = latest + 1 /\ latest \in 0 .. low - 1
    BY <1>2, <1>3, <1>6
  <2>2. Timestamp(latest) < target_timestamp
    BY <1>3, <2>1
  <2> QED
    BY <1>2, <1>4, <2>1, <2>2, ClosestBeyond
<1> QED
  BY <1>5, <1>6

(* A hit of the loop is the closest block. *)
LEMMA HitIsClosest ==
  ASSUME IInv, pc = "search", low <= high, Exists(mid), reorgs = 0,
         Timestamp(mid) = target_timestamp
  PROVE  mid \in Nat /\ Atomic!Closest = mid /\ ~Atomic!BeforeGenesis
<1>1. Bounded
  BY DEF IInv, SearchInv, Started
<1>2. high <= latest
  BY <1>1, Midpoint DEF Bounded
<1>3. latest \in Nat /\ latest < Len(chain) /\ high < MaxLength
  BY <1>1, <1>2, Numbers, ChainType DEF Bounded
<1>4. mid \in 0 .. latest
  BY <1>2, <1>3, Numbers, Midpoint
<1>5. \A m \in 0 .. mid - 1 : Timestamp(m) < target_timestamp
  <2> SUFFICES ASSUME NEW m \in 0 .. mid - 1
               PROVE  Timestamp(m) < target_timestamp
    OBVIOUS
  <2>1. m \in Nat /\ mid \in Nat /\ m < mid
    BY <1>4
  <2> QED
    BY <2>1, LaterBlocks
<1>6. Timestamp(mid) >= target_timestamp
  BY Numbers
<1>7. Atomic!Closest = mid
  BY <1>3, <1>4, <1>5, <1>6, ClosestIsFirst
<1>8. ~Atomic!BeforeGenesis
  <2>1. mid = 0 \/ Timestamp(0) < Timestamp(mid)
    BY <1>4, LaterBlocks
  <2>2. Timestamp(0) = chain[1] /\ Exists(0) /\ Timestamp(0) \in Nat
    BY ChainType, TimestampType DEF Exists, Timestamp
  <2> QED
    BY <2>1, <2>2, Numbers DEF Atomic!BeforeGenesis
<1> QED
  BY <1>4, <1>7, <1>8

LEMMA InitAtomic == Init => Atomic!Init
<1> SUFFICES ASSUME Init PROVE Atomic!Init
  OBVIOUS
<1>1. chain \in Seq(Nat) /\ chain # <<>> /\ target_timestamp \in Nat
  BY FindBlockAssumption DEF Init
<1>2. (reorgs > 0) = FALSE
  BY DEF Init
<1> QED
  BY <1>1, <1>2 DEF Init, Atomic!Init, Phase

(* One read of the loop: a hit answers, any other read is no step.         *)
LEMMA ReadMidAtomic ==
  ASSUME IInv, ReadMid
  PROVE  Atomic!Answer \/ UNCHANGED <<chain, reorgs > 0, Atomic!searchVars>>
<1>1. /\ pc = "search" /\ low <= high /\ Exists(mid)
      /\ UNCHANGED <<chain, reorgs, target_timestamp, latest>>
  BY DEF ReadMid
<1>2. CASE /\ Timestamp(mid) = target_timestamp
           /\ found' = mid /\ pc' = "found"
  <2>1. mid \in Nat
    BY Numbers DEF mid
  <2>2. Phase = "looking" /\ Phase' = "found"
    BY <1>1, <1>2 DEF Phase
  <2>3. ~(reorgs > 0) => reorgs = 0
    BY Numbers
  <2>4. ~(reorgs > 0) => /\ found' = Atomic!Closest
                         /\ found' < Len(chain)
                         /\ ~Atomic!BeforeGenesis
    BY <1>1, <1>2, <2>3, HitIsClosest DEF Exists
  <2> QED
    BY <1>1, <1>2, <2>1, <2>2, <2>4 DEF Atomic!Answer, Atomic!Block
<1>3. CASE UNCHANGED <<pc, found>>
  BY <1>1, <1>3 DEF Atomic!searchVars, Phase
<1> QED
  BY <1>2, <1>3 DEF ReadMid

LEMMA ReadLowAtomic == ASSUME IInv, ReadLow PROVE Atomic!Answer
<1>1. /\ pc = "last" /\ Exists(low) /\ found' = low /\ pc' = "found"
      /\ UNCHANGED <<chain, reorgs, target_timestamp, latest>>
  BY DEF ReadLow
<1>2. Phase = "looking" /\ Phase' = "found"
  BY <1>1 DEF Phase
<1>3. low \in Nat /\ (~(reorgs > 0) => reorgs = 0)
  BY Numbers
<1>4. ~(reorgs > 0) => /\ found' = Atomic!Closest
                       /\ found' < Len(chain)
                       /\ ~Atomic!BeforeGenesis
  BY <1>1, <1>3, LowIsClosest DEF Exists
<1> QED
  BY <1>1, <1>2, <1>3, <1>4 DEF Atomic!Answer, Atomic!Block

LEMMA PanicAtomic == ASSUME IInv, Panic PROVE Atomic!Panic
<1>1. /\ pc \in {"search", "last"} /\ pc' = "panicked"
      /\ UNCHANGED <<chain, reorgs, target_timestamp, latest, found>>
  BY DEF Panic
<1>2. Phase = "looking" /\ Phase' = "panicked"
  BY <1>1 DEF Phase
<1>3. ASSUME reorgs = 0 PROVE Atomic!BeforeGenesis \/ ~Atomic!Block(Atomic!Closest)
  <2>1. CASE pc = "search"
    <3>1. /\ low <= high /\ ~Exists(mid) /\ Bounded
      BY <1>3, <2>1 DEF IInv, SearchInv, Started, Panic
    <3>2. ~(high <= latest)
      BY <3>1, Numbers, ChainType, Midpoint DEF Bounded, Exists
    <3>3. Timestamp(0) > target_timestamp /\ Timestamp(0) \in Nat
      BY <3>1, <3>2, ChainType, TimestampType DEF Bounded, Exists
    <3> QED
      BY <3>3, Numbers DEF Atomic!BeforeGenesis, Timestamp
  <2>2. CASE pc = "last"
    <3>1. ~Exists(low)
      BY <2>2 DEF Panic
    <3> QED
      BY <1>3, <2>2, <3>1, LowIsClosest DEF Exists, Atomic!Block
  <2> QED
    BY <1>1, <2>1, <2>2
<1>4. ~(reorgs > 0) => reorgs = 0
  BY Numbers
<1> QED
  BY <1>1, <1>2, <1>3, <1>4 DEF Atomic!Panic

LEMMA L1Atomic ==
  ASSUME IInv, Grow \/ Reorg
  PROVE  Atomic!Grow \/ Atomic!Reorg
<1>1. UNCHANGED <<target_timestamp, Phase, latest, found>>
  BY DEF Grow, Reorg, searchVars, Phase
<1>2. CASE Grow
  <2>1. PICK e : chain' = Append(chain, e) /\ reorgs' = reorgs
    BY <1>2 DEF Grow
  <2>2. e \in Nat
    <3>1. PICK d \in Slots : chain' = Append(chain, chain[Len(chain)] + d)
      BY <1>2 DEF Grow
    <3>2. chain' \in Seq(Nat) /\ Len(chain') = Len(chain) + 1
      BY <1>2, GrowIInv, ChainType, <2>1 DEF IInv, TypeOK
    <3>3. chain'[Len(chain) + 1] = e
      BY <2>1, ChainType
    <3>4. Len(chain) + 1 \in 1 .. Len(chain')
      BY <3>2, ChainType
    <3> QED
      BY <3>2, <3>3, <3>4, ElementType
  <2>3. Len(chain') = Len(chain) + 1 /\ SubSeq(chain', 1, Len(chain)) = chain
    BY <2>1, <2>2, ChainType
  <2> QED
    BY <1>1, <2>1, <2>3 DEF Atomic!Grow, Atomic!searchVars
<1>3. CASE Reorg
  <2>1. (reorgs' > 0) = TRUE
    BY <1>3, Numbers DEF Reorg
  <2> QED
    BY <1>1, <2>1 DEF Atomic!Reorg, Atomic!searchVars
<1> QED
  BY <1>2, <1>3

LEMMA StepAtomic ==
  IInv /\ [Next]_vars => [Atomic!Next]_<<chain, reorgs > 0, Atomic!searchVars>>
<1> SUFFICES ASSUME IInv, [Next]_vars
             PROVE  \/ Atomic!Next
                    \/ UNCHANGED <<chain, reorgs > 0, Atomic!searchVars>>
  OBVIOUS
<1>1. CASE ReadLatest
  <2>1. Atomic!Look
    BY <1>1 DEF ReadLatest, Atomic!Look, Phase
  <2> QED
    BY <2>1 DEF Atomic!Next
<1>2. CASE ReadMid
  BY <1>2, ReadMidAtomic DEF Atomic!Next
<1>3. CASE EndSearch
  BY <1>3 DEF EndSearch, Atomic!searchVars, Phase
<1>4. CASE ReadLow
  BY <1>4, ReadLowAtomic DEF Atomic!Next
<1>5. CASE Panic
  BY <1>5, PanicAtomic DEF Atomic!Next
<1>6. CASE RpcError
  <2>1. Atomic!RpcFails
    BY <1>6 DEF RpcError, Atomic!RpcFails, Phase
  <2> QED
    BY <2>1 DEF Atomic!Next
<1>7. CASE Grow \/ Reorg
  BY <1>7, L1Atomic DEF Atomic!Next
<1>8. CASE UNCHANGED vars
  BY <1>8 DEF vars, searchVars, Atomic!searchVars, Phase
<1> QED
  BY <1>1, <1>2, <1>3, <1>4, <1>5, <1>6, <1>7, <1>8 DEF Next, Search

(* The search over a growing L1 implements one atomic look at it: every    *)
(* step of the program is a step of HeadSearch or changes nothing there,   *)
(* so whatever holds of the first block at or after the target at once     *)
(* holds of the block find_block_by_timestamp returns.                     *)
THEOREM SearchIsAtomic == Spec => ImplementsHeadSearch
<1>1. Init => Atomic!Init
  BY InitAtomic
<1>2. IInv /\ [Next]_vars => [Atomic!Next]_<<chain, reorgs > 0, Atomic!searchVars>>
  BY StepAtomic
<1> QED
  BY <1>1, <1>2, InvariantHolds, PTL DEF Spec, ImplementsHeadSearch, Atomic!Spec
==============================================================================
