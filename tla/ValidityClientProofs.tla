------------------------- MODULE ValidityClientProofs -------------------------
(***************************************************************************)
(* Machine-checked theorems about ValidityClient, for every number of      *)
(* blocks, every placing of batches on L1, every span and every input.     *)
(***************************************************************************)
EXTENDS ValidityClient, SequenceTheorems, TLAPS

(* The payloads in hand are the children of executed, executed + 1, ...    *)
Consecutive(queue, first) ==
  \A i \in 1 .. Len(queue) : queue[i] = first + i - 1

End == executed + Len(payloads)

PayloadInv ==
  /\ Consecutive(payloads, executed)
  /\ start <= executed /\ End \in Blocks
  /\ start < l2_claim_block => End <= l2_claim_block
  /\ pc \in {"verify", "derive"} =>
       /\ payloads = <<>> /\ prepared = <<>>
       /\ l2_safe_head = executed

(* What multi knows: its three heads and four caches agree; payloads are   *)
(* left in the pipeline only behind the claimed block.                     *)
MultiInv ==
  program = "multi" =>
    /\ l2_block_info = executed
    /\ header_by_number = ExecutedBlocks /\ payload_by_number = ExecutedBlocks
    /\ system_config_by_number = ExecutedBlocks
    /\ l2_block_info_by_number = ExecutedBlocks
    /\ pc = "execute" /\ prepared # <<>> =>
         start < l2_claim_block /\ End = l2_claim_block
    /\ pc \in {"verify", "derive", "execute"} =>
         (start < l2_claim_block => executed < l2_claim_block)
    /\ pc \in {"epilogue", "proved"} =>
         executed = l2_claim_block /\ start < l2_claim_block

(* What single knows: it executes one block and touches no cache.          *)
SingleInv ==
  program = "single" =>
    /\ header_by_number = {} /\ payload_by_number = {}
    /\ system_config_by_number = {} /\ l2_block_info_by_number = {}
    /\ End <= start + 1
    /\ pc \in {"verify", "derive", "execute"} => executed = start
    /\ pc = "execute" => Len(payloads) = 1
    /\ pc \in {"epilogue", "proved"} => executed = start + 1
    /\ pc = "proved" => executed = l2_claim_block

(* What derivation has established about L1.                               *)
OriginInv ==
  /\ origin <= l1_head
  /\ start < End => IncludedIn[End] <= origin
  /\ pc \notin {"verify", "panicked"} => store_valid
  /\ pc = "proved" => executed = l2_claim

IInv == TypeOK /\ PayloadInv /\ MultiInv /\ SingleInv /\ OriginInv

-----------------------------------------------------------------------------
(* Sequences of consecutive blocks.                                        *)
LEMMA PrefixFacts ==
  ASSUME NEW q \in Seq(Blocks), NEW first \in Int, Consecutive(q, first),
         NEW m \in 0 .. Len(q)
  PROVE  /\ SubSeq(q, 1, m) \in Seq(Blocks) /\ Len(SubSeq(q, 1, m)) = m
         /\ Consecutive(SubSeq(q, 1, m), first)
         /\ SubSeq(q, m + 1, Len(q)) \in Seq(Blocks)
         /\ m = Len(q) => SubSeq(q, m + 1, Len(q)) = <<>>
<1>1. /\ Len(q) \in Nat /\ m \in Int
      /\ \A i \in 1 .. Len(q) : q[i] \in Blocks
  BY LenProperties, ElementOfSeq
<1>2. \A i \in 1 .. m : q[i] \in Blocks
  BY <1>1
<1>3. /\ SubSeq(q, 1, m) \in Seq(Blocks)
      /\ Len(SubSeq(q, 1, m)) = IF 1 <= m THEN m - 1 + 1 ELSE 0
      /\ \A i \in 1 .. m - 1 + 1 : SubSeq(q, 1, m)[i] = q[1 + i - 1]
  BY <1>1, <1>2, SubSeqProperties
<1>4. Len(SubSeq(q, 1, m)) = m
  BY <1>1, <1>3
<1>5. \A i \in 1 .. m : SubSeq(q, 1, m)[i] = q[i]
  BY <1>1, <1>3
<1>6. Consecutive(SubSeq(q, 1, m), first)
  BY <1>1, <1>4, <1>5 DEF Consecutive
<1>7. \A i \in m + 1 .. Len(q) : q[i] \in Blocks
  BY <1>1
<1>8. SubSeq(q, m + 1, Len(q)) \in Seq(Blocks)
  BY <1>1, <1>7, SubSeqProperties
<1>9. m = Len(q) => SubSeq(q, m + 1, Len(q)) = <<>>
  BY <1>1, SubSeqEmpty
<1> QED
  BY <1>3, <1>4, <1>6, <1>8, <1>9

LEMMA TailFacts ==
  ASSUME NEW q \in Seq(Blocks), NEW first \in Int, Consecutive(q, first),
         q # <<>>
  PROVE  /\ Len(q) >= 1 /\ q[1] = first
         /\ Tail(q) \in Seq(Blocks) /\ Len(Tail(q)) = Len(q) - 1
         /\ Consecutive(Tail(q), first + 1)
<1>1. Len(q) \in Nat \ {0}
  BY EmptySeq
<1>2. /\ Tail(q) \in Seq(Blocks) /\ Len(Tail(q)) = Len(q) - 1
      /\ \A i \in 1 .. Len(Tail(q)) : Tail(q)[i] = q[i + 1]
  BY HeadTailProperties
<1>3. q[1] = first
  BY <1>1 DEF Consecutive
<1>4. Consecutive(Tail(q), first + 1)
  BY <1>1, <1>2 DEF Consecutive
<1> QED
  BY <1>1, <1>2, <1>3, <1>4

(* What produce_payloads takes is a prefix, cut only behind the claim.     *)
LEMMA TakenIsPrefix ==
  ASSUME NEW q \in Seq(Blocks), NEW first \in Int, Consecutive(q, first),
         l2_claim_block \in Int
  PROVE  \E m \in 0 .. Len(q) :
           /\ TakenUpToClaim(q) = SubSeq(q, 1, m)
           /\ m = Len(q) \/ first + m = l2_claim_block
           /\ first < l2_claim_block => first + m <= l2_claim_block
           /\ m # Len(q) => first < l2_claim_block
<1> DEFINE stops == {i \in DOMAIN q : q[i] + 1 = l2_claim_block}
<1>1. Len(q) \in Nat /\ DOMAIN q = 1 .. Len(q)
  BY LenProperties
<1>2. \A i \in 1 .. Len(q) : q[i] + 1 = first + i
  BY <1>1 DEF Consecutive
<1>3. \A i \in 1 .. Len(q) : i \in stops <=> first + i = l2_claim_block
  BY <1>1, <1>2
<1>4. CASE stops = {}
  <2>1. TakenUpToClaim(q) = SubSeq(q, 1, Len(q))
    BY <1>4, SubSeqFull DEF TakenUpToClaim
  <2>2. first < l2_claim_block => first + Len(q) <= l2_claim_block
    <3>1. SUFFICES ASSUME first < l2_claim_block, first + Len(q) > l2_claim_block
                   PROVE  FALSE
      BY <1>1
    <3> DEFINE i == l2_claim_block - first
    <3>2. i \in 1 .. Len(q) /\ first + i = l2_claim_block
      BY <1>1, <3>1
    <3>3. i \in stops
      BY <1>3, <3>2
    <3> QED
      BY <1>4, <3>3
  <2>3. Len(q) \in 0 .. Len(q)
    BY <1>1
  <2> HIDE DEF stops
  <2> WITNESS Len(q) \in 0 .. Len(q)
  <2> QED
    BY <2>1, <2>2
<1>5. CASE stops # {}
  <2>1. PICK i \in 1 .. Len(q) : i \in stops /\ first + i = l2_claim_block
    BY <1>1, <1>3, <1>5
  <2>2. \A j \in stops : j \in 1 .. Len(q) /\ first + j = l2_claim_block
    BY <1>1, <1>3
  <2>3. \A j \in stops : j = i
    BY <1>1, <2>1, <2>2
  <2>4. (CHOOSE j \in stops : \A l \in stops : j <= l) = i
    <3>1. \A l \in stops : i <= l
      BY <1>1, <2>1, <2>3
    <3> HIDE DEF stops
    <3> QED
      BY <2>1, <2>3, <3>1
  <2>5. TakenUpToClaim(q) = SubSeq(q, 1, i)
    BY <1>5, <2>4 DEF TakenUpToClaim
  <2>6. /\ i \in 0 .. Len(q) /\ first < l2_claim_block
        /\ first + i <= l2_claim_block
    BY <1>1, <2>1
  <2> HIDE DEF stops
  <2> WITNESS i \in 0 .. Len(q)
  <2> QED
    BY <2>1, <2>5, <2>6
<1> QED
  BY <1>4, <1>5

-----------------------------------------------------------------------------
(* The inductive invariant. *)
LEMMA Numbers ==
  /\ Blocks \subseteq Nat /\ MaxBlock \in Nat /\ MaxSpan \in Nat
  /\ Starts \subseteq Nat /\ Claims \subseteq Nat /\ L1Heads \subseteq Nat
  /\ \A n \in Blocks : IncludedIn[n] \in Nat
  /\ \A m, n \in Blocks : m <= n => IncludedIn[m] <= IncludedIn[n]
<1>1. Blocks \subseteq Nat /\ MaxBlock \in Nat /\ MaxSpan \in Nat
  BY ValidityAssumption DEF Blocks
<1>2. /\ Starts \subseteq Nat /\ Claims \subseteq Nat /\ L1Heads \subseteq Nat
      /\ \A n \in Blocks : IncludedIn[n] \in Nat
  BY <1>1, ValidityAssumption
<1>3. ASSUME NEW m \in Blocks, NEW n \in Blocks, m <= n
      PROVE  IncludedIn[m] <= IncludedIn[n]
  <2>1. m < n \/ m = n
    BY <1>1, <1>3
  <2> QED
    BY <1>2, <2>1, ValidityAssumption
<1> QED
  BY <1>1, <1>2, <1>3

LEMMA InitIInv == Init => IInv
<1> SUFFICES ASSUME Init PROVE IInv
  OBVIOUS
<1>1. start \in Blocks /\ start \in Nat /\ l2_claim_block \in Nat
  BY Numbers, ValidityAssumption DEF Init
<1>2. /\ prepared = <<>> /\ payloads = <<>> /\ <<>> \in Seq(Blocks)
      /\ Len(<<>>) = 0
  BY EmptySeq DEF Init
<1>3. TypeOK
  BY <1>1, <1>2 DEF Init, TypeOK
<1>4. End = start
  BY <1>1, <1>2 DEF Init, End
<1>5. ExecutedBlocks = {}
  BY <1>1 DEF ExecutedBlocks, Init
<1>6. PayloadInv
  BY <1>1, <1>2, <1>4 DEF Init, PayloadInv, Consecutive
<1>7. MultiInv
  BY <1>1, <1>2, <1>5 DEF Init, MultiInv
<1>8. SingleInv
  BY <1>1, <1>4 DEF Init, SingleInv
<1>9. OriginInv
  BY <1>1, <1>4, Numbers DEF Init, OriginInv
<1> QED
  BY <1>3, <1>6, <1>7, <1>8, <1>9 DEF IInv

LEMMA Naturals ==
  ASSUME TypeOK
  PROVE  /\ start \in Nat /\ l2_claim_block \in Nat /\ l1_head \in Nat
         /\ executed \in Nat /\ executable \in Nat /\ l2_safe_head \in Nat
         /\ origin \in Nat /\ Len(payloads) \in Nat /\ End \in Nat
<1>1. Len(payloads) \in Nat
  BY LenProperties DEF TypeOK
<1>2. executed \in Nat /\ executable \in Nat /\ l2_safe_head \in Nat
  BY Numbers DEF TypeOK
<1> QED
  BY <1>1, <1>2, Numbers DEF TypeOK, End

(* The steps that only move pc.                                            *)
dataVars == <<inputs, l2_safe_head, pipeline, payloads, executed, caches,
              l2_block_info>>

LEMMA PcOnly ==
  ASSUME IInv, UNCHANGED dataVars,
         pc' \in {"derive", "proved", "panicked"},
         pc' = "derive" => pc = "verify" /\ store_valid,
         pc' = "proved" => /\ pc = "epilogue" /\ executed = l2_claim
                           /\ program = "single" => executed = l2_claim_block
  PROVE  IInv'
<1> USE DEF dataVars, inputs, pipeline, caches
<1>1. TypeOK'
  BY DEF IInv, TypeOK
<1>2. End' = End /\ ExecutedBlocks' = ExecutedBlocks
  BY DEF End, ExecutedBlocks
<1>3. Consecutive(payloads, executed)'
  BY DEF IInv, PayloadInv, Consecutive
<1>4. PayloadInv'
  BY <1>2, <1>3 DEF IInv, PayloadInv
<1>5. MultiInv'
  BY <1>2 DEF IInv, MultiInv
<1>6. SingleInv'
  BY <1>2 DEF IInv, SingleInv
<1>7. OriginInv'
  BY <1>2 DEF IInv, OriginInv
<1> QED
  BY <1>1, <1>4, <1>5, <1>6, <1>7 DEF IInv

LEMMA StartupStep == ASSUME IInv, Startup PROVE IInv'
BY PcOnly DEF Startup, dataVars

LEMMA EpilogueStep == ASSUME IInv, Epilogue \/ EpilogueSingle PROVE IInv'
<1>1. CASE Epilogue
  BY <1>1, PcOnly DEF Epilogue, OutputRootMatches, dataVars
<1>2. CASE EpilogueSingle
  BY <1>2, PcOnly DEF EpilogueSingle, ClaimNumberMatches, OutputRootMatches,
     dataVars
<1> QED
  BY <1>1, <1>2

LEMMA PanicStep == ASSUME IInv, Panic PROVE IInv'
BY PcOnly DEF Panic, dataVars

LEMMA AdvanceOriginStep == ASSUME IInv, AdvanceOrigin PROVE IInv'
<1>1. /\ UNCHANGED <<inputs, pc, l2_safe_head, prepared, payloads, executed,
                     caches, l2_block_info>>
      /\ origin' = origin + 1 /\ origin < l1_head
  BY DEF AdvanceOrigin
<1>2. End' = End /\ ExecutedBlocks' = ExecutedBlocks
  BY <1>1 DEF End, ExecutedBlocks, inputs
<1>3. TypeOK'
  BY <1>1 DEF IInv, TypeOK, inputs, caches
<1>4. PayloadInv'
  BY <1>1, <1>2 DEF IInv, PayloadInv, Consecutive, inputs
<1>5. MultiInv'
  BY <1>1, <1>2 DEF IInv, MultiInv, inputs, caches
<1>6. SingleInv'
  BY <1>1, <1>2 DEF IInv, SingleInv, inputs, caches
<1>7. OriginInv'
  <2>1. /\ origin \in Nat /\ l1_head \in Nat
        /\ End \in Blocks => IncludedIn[End] \in Nat
    BY Naturals, Numbers DEF IInv
  <2>2. End \in Blocks
    BY DEF IInv, PayloadInv
  <2>3. origin' <= l1_head'
    BY <1>1, <2>1 DEF inputs
  <2>4. start' < End' => IncludedIn[End'] <= origin'
    <3>1. start < End => IncludedIn[End] <= origin
      BY DEF IInv, OriginInv
    <3> QED
      BY <1>1, <1>2, <2>1, <2>2, <3>1 DEF inputs
  <2> QED
    BY <1>1, <2>3, <2>4 DEF IInv, OriginInv, inputs
<1> QED
  BY <1>3, <1>4, <1>5, <1>6, <1>7 DEF IInv

(* A step of the pipeline prepares the next k blocks. *)
LEMMA QueueFacts ==
  ASSUME IInv, NEW k \in 1 .. MaxSpan, Prepares(k)
  PROVE  /\ Queue(k) \in Seq(Blocks) /\ Len(Queue(k)) = k
         /\ Consecutive(Queue(k), executed)
         /\ End = executed /\ executed + k \in Blocks
<1> DEFINE span == [i \in 1 .. k |-> executed + i - 1]
<1>1. /\ prepared = <<>> /\ payloads = <<>> /\ l2_safe_head = executed
      /\ executed \in Nat /\ k \in Nat /\ k >= 1
      /\ executed + k <= MaxBlock /\ MaxBlock \in Nat
  BY Naturals, Numbers DEF Prepares, IInv, PayloadInv
<1>2. \A i \in 1 .. k : executed + i - 1 \in Blocks
  BY <1>1 DEF Blocks
<1>3. span \in [1 .. k -> Blocks]
  BY <1>2
<1>4. span \in Seq(Blocks) /\ Len(span) = k
  <2>1. DOMAIN span = 1 .. k
    OBVIOUS
  <2> HIDE DEF span
  <2>2. span \in Seq(Blocks)
    BY <1>1, <1>3
  <2>3. Len(span) \in Nat /\ DOMAIN span = 1 .. Len(span)
    BY <2>2, LenProperties
  <2> QED
    BY <1>1, <2>1, <2>2, <2>3
<1>5. Queue(k) = span
  BY <1>1, <1>4, ConcatEmptySeq DEF Queue
<1>6. Consecutive(span, executed)
  BY <1>1, <1>4 DEF Consecutive
<1>7. End = executed /\ executed + k \in Blocks
  BY <1>1, EmptySeq DEF End, Blocks
<1> QED
  BY <1>4, <1>5, <1>6, <1>7

(* Taking a prefix of the queue keeps what does not depend on the program. *)
LEMMA TakeCommon ==
  ASSUME IInv, NEW k \in 1 .. MaxSpan, Prepares(k), NEW m \in 0 .. k,
         Take(Queue(k), SubSeq(Queue(k), 1, m)),
         start < l2_claim_block => executed + m <= l2_claim_block
  PROVE  /\ TypeOK' /\ PayloadInv' /\ OriginInv'
         /\ End' = executed + m /\ Len(payloads') = m
         /\ ExecutedBlocks' = ExecutedBlocks
         /\ m = k => prepared' = <<>>
<1>1. /\ Queue(k) \in Seq(Blocks) /\ Len(Queue(k)) = k
      /\ Consecutive(Queue(k), executed)
      /\ End = executed /\ executed + k \in Blocks
  BY QueueFacts
<1>2. /\ executed \in Nat /\ k \in Nat /\ m \in Nat /\ m <= k /\ start \in Nat
      /\ origin \in Nat /\ l1_head \in Nat /\ start <= executed
  BY Naturals, Numbers DEF IInv, PayloadInv
<1>3. /\ payloads' = SubSeq(Queue(k), 1, m)
      /\ payloads' \in Seq(Blocks) /\ Len(payloads') = m
      /\ Consecutive(payloads', executed)
  BY <1>1, <1>2, PrefixFacts DEF Take
<1>4. prepared' \in Seq(Blocks) /\ (m = k => prepared' = <<>>)
  <2>1. prepared' = SubSeq(Queue(k), m + 1, Len(Queue(k)))
    BY <1>3 DEF Take
  <2> QED
    BY <1>1, <1>2, <2>1, PrefixFacts
<1>5. /\ pc' = "execute"
      /\ UNCHANGED <<inputs, l2_safe_head, origin, executed, caches,
                     l2_block_info>>
  BY DEF Take
<1>6. TypeOK'
  BY <1>3, <1>4, <1>5 DEF IInv, TypeOK, inputs, caches
<1>7. End' = executed + m /\ ExecutedBlocks' = ExecutedBlocks
  BY <1>3, <1>5 DEF End, ExecutedBlocks, inputs
<1>8. End' \in Blocks
  BY <1>1, <1>2, <1>7, Numbers DEF Blocks
<1>9. PayloadInv'
  <2>1. Consecutive(payloads, executed)'
    BY <1>3, <1>5 DEF Consecutive
  <2> QED
    BY <1>2, <1>5, <1>7, <1>8, <2>1 DEF PayloadInv, inputs
<1>10. OriginInv'
  <2>1. IncludedIn[executed + k] <= origin
    BY DEF Prepares, IInv, PayloadInv
  <2>2. IncludedIn[End'] <= IncludedIn[executed + k]
    BY <1>1, <1>2, <1>7, <1>8, Numbers
  <2>3. IncludedIn[End'] \in Nat /\ IncludedIn[executed + k] \in Nat
    BY <1>1, <1>8, Numbers
  <2>4. IncludedIn[End'] <= origin'
    BY <1>2, <1>5, <2>1, <2>2, <2>3
  <2>5. store_valid /\ origin <= l1_head
    BY DEF Prepares, IInv, OriginInv
  <2> QED
    BY <1>5, <2>4, <2>5 DEF OriginInv, inputs
<1> QED
  BY <1>3, <1>4, <1>6, <1>7, <1>9, <1>10

LEMMA ProducePayloadsStep ==
  ASSUME IInv, NEW k \in 1 .. MaxSpan, ProducePayloads(k)
  PROVE  IInv'
<1>1. /\ program = "multi" /\ Prepares(k) /\ pc = "derive"
      /\ Take(Queue(k), TakenUpToClaim(Queue(k)))
  BY DEF ProducePayloads, Prepares
<1>2. /\ Queue(k) \in Seq(Blocks) /\ Len(Queue(k)) = k
      /\ Consecutive(Queue(k), executed)
  BY <1>1, QueueFacts
<1>3. /\ executed \in Nat /\ l2_claim_block \in Nat /\ start \in Nat
      /\ start <= executed
  BY Naturals DEF IInv, PayloadInv
<1>4. PICK m \in 0 .. k :
        /\ TakenUpToClaim(Queue(k)) = SubSeq(Queue(k), 1, m)
        /\ m = k \/ executed + m = l2_claim_block
        /\ executed < l2_claim_block => executed + m <= l2_claim_block
        /\ m # k => executed < l2_claim_block
  BY <1>2, <1>3, TakenIsPrefix
<1>5. start < l2_claim_block => executed < l2_claim_block
  BY <1>1 DEF IInv, MultiInv
<1>6. /\ TypeOK' /\ PayloadInv' /\ OriginInv'
      /\ End' = executed + m /\ ExecutedBlocks' = ExecutedBlocks
      /\ m = k => prepared' = <<>>
  <2>1. Take(Queue(k), SubSeq(Queue(k), 1, m))
    BY <1>1, <1>4
  <2>2. start < l2_claim_block => executed + m <= l2_claim_block
    BY <1>4, <1>5
  <2> QED
    BY <1>1, <2>1, <2>2, TakeCommon
<1>7. /\ pc' = "execute"
      /\ UNCHANGED <<inputs, l2_safe_head, executed, caches, l2_block_info>>
  BY <1>1 DEF Take
<1>8. MultiInv'
  <2>1. prepared' # <<>> => start < l2_claim_block /\ End' = l2_claim_block
    BY <1>3, <1>4, <1>6
  <2> QED
    BY <1>1, <1>5, <1>6, <1>7, <2>1 DEF IInv, MultiInv, inputs, caches
<1>9. SingleInv'
  BY <1>1, <1>7 DEF SingleInv, inputs
<1> QED
  BY <1>6, <1>8, <1>9 DEF IInv

LEMMA ProduceDisputedPayloadStep ==
  ASSUME IInv, NEW k \in 1 .. MaxSpan, ProduceDisputedPayload(k)
  PROVE  IInv'
<1>1. /\ program = "single" /\ Prepares(k) /\ pc = "derive"
      /\ Take(Queue(k), <<Head(Queue(k))>>)
  BY DEF ProduceDisputedPayload, Prepares
<1>2. Queue(k) \in Seq(Blocks) /\ Len(Queue(k)) = k /\ k \in Nat /\ 1 <= k
  BY <1>1, QueueFacts, Numbers
<1>3. <<Head(Queue(k))>> = SubSeq(Queue(k), 1, 1)
  BY <1>2
<1>4. /\ executed = start /\ start \in Nat /\ l2_claim_block \in Nat
  BY <1>1, Naturals DEF IInv, SingleInv
<1>5. /\ TypeOK' /\ PayloadInv' /\ OriginInv'
      /\ End' = executed + 1 /\ Len(payloads') = 1
  <2>1. Take(Queue(k), SubSeq(Queue(k), 1, 1))
    BY <1>1, <1>3, Zenon
  <2>2. 1 \in 0 .. k
    BY <1>2
  <2>3. start < l2_claim_block => executed + 1 <= l2_claim_block
    BY <1>4
  <2> QED
    BY <1>1, <2>1, <2>2, <2>3, TakeCommon
<1>6. /\ pc' = "execute"
      /\ UNCHANGED <<inputs, l2_safe_head, executed, caches, l2_block_info>>
  BY <1>1 DEF Take
<1>7. SingleInv'
  BY <1>1, <1>4, <1>5, <1>6 DEF IInv, SingleInv, inputs, caches
<1>8. MultiInv'
  BY <1>1, <1>6 DEF MultiInv, inputs
<1> QED
  BY <1>5, <1>7, <1>8 DEF IInv

(* One payload executed: the end of the payloads in hand stays.            *)
LEMMA ExecuteCommon ==
  ASSUME IInv, pc = "execute", payloads # <<>>, StateAvailable,
         executed' = executed + 1, payloads' = Tail(payloads),
         pc' \in {"execute", "epilogue"},
         UNCHANGED <<inputs, l2_safe_head, pipeline>>,
         l2_block_info' \in Blocks,
         header_by_number' \subseteq Blocks, payload_by_number' \subseteq Blocks,
         system_config_by_number' \subseteq Blocks,
         l2_block_info_by_number' \subseteq Blocks
  PROVE  /\ TypeOK' /\ PayloadInv' /\ OriginInv'
         /\ End' = End /\ executed' \in Blocks /\ executed' <= End
         /\ Len(payloads') = Len(payloads) - 1
<1>1. /\ executed \in Nat /\ executable \in Nat /\ start \in Nat
      /\ Len(payloads) \in Nat /\ MaxBlock \in Nat /\ executable <= MaxBlock
      /\ start <= executed
  BY Naturals, Numbers DEF IInv, PayloadInv, TypeOK, Blocks
<1>2. payloads \in Seq(Blocks) /\ Consecutive(payloads, executed)
  BY DEF IInv, PayloadInv, TypeOK
<1>3. /\ Len(payloads) >= 1 /\ payloads' \in Seq(Blocks)
      /\ Len(payloads') = Len(payloads) - 1
      /\ Consecutive(payloads', executed + 1)
  BY <1>1, <1>2, TailFacts
<1>4. executed' \in Blocks
  BY <1>1 DEF StateAvailable, Blocks
<1>5. End' = End /\ executed' <= End
  BY <1>1, <1>3 DEF End
<1>6. TypeOK'
  BY <1>3, <1>4 DEF IInv, TypeOK, inputs, pipeline
<1>7. PayloadInv'
  <2>1. Consecutive(payloads, executed)'
    BY <1>3 DEF Consecutive
  <2>2. start' <= executed'
    BY <1>1 DEF inputs
  <2> QED
    BY <1>5, <2>1, <2>2 DEF IInv, PayloadInv, inputs
<1>8. OriginInv'
  BY <1>5 DEF IInv, OriginInv, inputs, pipeline
<1> QED
  BY <1>3, <1>4, <1>5, <1>6, <1>7, <1>8

LEMMA ExecutePayloadStep == ASSUME IInv, ExecutePayload PROVE IInv'
<1>1. /\ program = "multi" /\ pc = "execute" /\ payloads # <<>>
      /\ StateAvailable
      /\ executed' = executed + 1 /\ payloads' = Tail(payloads)
      /\ pc' = IF ClaimReached THEN "epilogue" ELSE "execute"
      /\ UNCHANGED <<inputs, l2_safe_head, pipeline>>
      /\ UpdateCache(executed + 1)
  BY DEF ExecutePayload
<1>2. /\ executed \in Nat /\ start \in Nat /\ l2_claim_block \in Nat
      /\ executed + 1 \in Blocks /\ start <= executed
  <2>1. executed \in Nat /\ executable \in Blocks /\ MaxBlock \in Nat
    BY Naturals, Numbers DEF IInv, TypeOK
  <2> QED
    BY <1>1, <2>1, Naturals DEF StateAvailable, Blocks, IInv, PayloadInv
<1>3. /\ TypeOK' /\ PayloadInv' /\ OriginInv' /\ End' = End
      /\ executed + 1 <= End
  <2>1. /\ l2_block_info' \in Blocks
        /\ header_by_number' \subseteq Blocks /\ payload_by_number' \subseteq Blocks
        /\ system_config_by_number' \subseteq Blocks
        /\ l2_block_info_by_number' \subseteq Blocks
    BY <1>1, <1>2 DEF UpdateCache, IInv, TypeOK
  <2> QED
    BY <1>1, <2>1, ExecuteCommon
<1>4. /\ start < l2_claim_block => executed < l2_claim_block
      /\ start < l2_claim_block => End <= l2_claim_block
      /\ prepared # <<>> => start < l2_claim_block /\ End = l2_claim_block
  BY <1>1 DEF IInv, MultiInv, PayloadInv
<1>5. ExecutedBlocks' = ExecutedBlocks \cup {executed + 1}
  BY <1>1, <1>2 DEF ExecutedBlocks, inputs
<1>6. /\ l2_block_info' = executed'
      /\ header_by_number' = ExecutedBlocks'
      /\ payload_by_number' = ExecutedBlocks'
      /\ system_config_by_number' = ExecutedBlocks'
      /\ l2_block_info_by_number' = ExecutedBlocks'
  BY <1>1, <1>5 DEF UpdateCache, IInv, MultiInv
<1>7. CASE ClaimReached
  <2>1. pc' = "epilogue" /\ executed' = l2_claim_block' /\ start' < l2_claim_block'
    BY <1>1, <1>2, <1>7 DEF ClaimReached, inputs
  <2> QED
    <3>1. MultiInv'
      BY <1>6, <2>1 DEF MultiInv
    <3>2. SingleInv'
      BY <1>1 DEF SingleInv, inputs
    <3> QED
      BY <1>3, <3>1, <3>2 DEF IInv
<1>8. CASE ~ClaimReached
  <2>1. start < l2_claim_block => executed + 1 < l2_claim_block
    BY <1>2, <1>4, <1>8 DEF ClaimReached
  <2>2. pc' = "execute" /\ prepared' = prepared
    BY <1>1, <1>8 DEF pipeline
  <2> QED
    BY <1>1, <1>3, <1>4, <1>6, <2>1, <2>2 DEF IInv, MultiInv, SingleInv, inputs
<1> QED
  BY <1>7, <1>8

LEMMA ExecuteDisputedPayloadStep ==
  ASSUME IInv, ExecuteDisputedPayload
  PROVE  IInv'
<1>1. /\ program = "single" /\ pc = "execute" /\ StateAvailable
      /\ executed' = executed + 1 /\ payloads' = Tail(payloads)
      /\ pc' = "epilogue"
      /\ UNCHANGED <<inputs, l2_safe_head, pipeline, caches, l2_block_info>>
  BY DEF ExecuteDisputedPayload
<1>2. Len(payloads) = 1 /\ executed = start /\ End <= start + 1
  BY <1>1 DEF IInv, SingleInv
<1>3. payloads # <<>>
  BY <1>2, EmptySeq
<1>4. /\ TypeOK' /\ PayloadInv' /\ OriginInv' /\ End' = End
  BY <1>1, <1>3, ExecuteCommon DEF caches, IInv, TypeOK
<1>5. SingleInv'
  BY <1>1, <1>2, <1>4 DEF IInv, SingleInv, inputs, caches
<1>6. MultiInv'
  BY <1>1 DEF MultiInv, inputs
<1> QED
  BY <1>4, <1>5, <1>6 DEF IInv

LEMMA UpdateSafeHeadStep == ASSUME IInv, UpdateSafeHead PROVE IInv'
<1>1. /\ program = "multi" /\ pc = "execute" /\ payloads = <<>>
      /\ l2_safe_head' = l2_block_info /\ pc' = "derive"
      /\ UNCHANGED <<inputs, pipeline, payloads, executed, caches, l2_block_info>>
  BY DEF UpdateSafeHead
<1>2. /\ l2_block_info = executed
      /\ start < l2_claim_block => executed < l2_claim_block
      /\ prepared # <<>> => start < l2_claim_block /\ End = l2_claim_block
  BY <1>1 DEF IInv, MultiInv
<1>3. End = executed /\ executed \in Nat /\ l2_claim_block \in Nat
  BY <1>1, Naturals, EmptySeq DEF End, IInv
<1>4. prepared = <<>>
  BY <1>2, <1>3
<1>5. End' = End /\ ExecutedBlocks' = ExecutedBlocks
  BY <1>1 DEF End, ExecutedBlocks, inputs
<1>6. TypeOK'
  BY <1>1 DEF IInv, TypeOK, inputs, pipeline, caches
<1>7. PayloadInv'
  BY <1>1, <1>2, <1>4, <1>5 DEF IInv, PayloadInv, Consecutive, inputs, pipeline
<1>8. MultiInv'
  BY <1>1, <1>2, <1>4, <1>5 DEF IInv, MultiInv, inputs, pipeline, caches
<1>9. SingleInv'
  BY <1>1 DEF SingleInv, inputs
<1>10. OriginInv'
  BY <1>1, <1>5 DEF IInv, OriginInv, inputs, pipeline
<1> QED
  BY <1>6, <1>7, <1>8, <1>9, <1>10 DEF IInv

LEMMA NextIInv == IInv /\ [Next]_vars => IInv'
<1> SUFFICES ASSUME IInv, [Next]_vars PROVE IInv'
  OBVIOUS
<1>1. CASE Startup
  BY <1>1, StartupStep
<1>2. CASE \E k \in 1 .. MaxSpan : ProducePayloads(k) \/ ProduceDisputedPayload(k)
  BY <1>2, ProducePayloadsStep, ProduceDisputedPayloadStep
<1>3. CASE AdvanceOrigin
  BY <1>3, AdvanceOriginStep
<1>4. CASE ExecutePayload \/ ExecuteDisputedPayload
  BY <1>4, ExecutePayloadStep, ExecuteDisputedPayloadStep
<1>5. CASE UpdateSafeHead
  BY <1>5, UpdateSafeHeadStep
<1>6. CASE Epilogue \/ EpilogueSingle
  BY <1>6, EpilogueStep
<1>7. CASE Panic
  BY <1>7, PanicStep
<1>8. CASE UNCHANGED vars
  <2> USE <1>8 DEF vars, inputs, pipeline, caches
  <2>1. End' = End /\ ExecutedBlocks' = ExecutedBlocks
    BY DEF End, ExecutedBlocks
  <2>2. TypeOK' /\ PayloadInv'
    BY <2>1 DEF IInv, TypeOK, PayloadInv, Consecutive
  <2>3. MultiInv' /\ SingleInv'
    BY <2>1 DEF IInv, MultiInv, SingleInv
  <2>4. OriginInv'
    BY <2>1 DEF IInv, OriginInv
  <2> QED
    BY <2>2, <2>3, <2>4 DEF IInv
<1> QED
  BY <1>1, <1>2, <1>3, <1>4, <1>5, <1>6, <1>7, <1>8 DEF Next

LEMMA Invariance == Spec => []IInv
BY InitIInv, NextIInv, PTL DEF Spec

-----------------------------------------------------------------------------
(* The heads, queues and caches of both programs keep their types,         *)
(* whatever the host claims.                                               *)
THEOREM TypeCorrect == Spec => []TypeOK
<1>1. IInv => TypeOK
  BY DEF IInv
<1> QED
  BY <1>1, Invariance, PTL

(* Driver, executor and the clones of the chain provider agree whenever    *)
(* the pipeline is stepped (the loop of main, update_cache).               *)
THEOREM HeadsAndCachesAgree == Spec => []SafeHeadInStep
<1>1. ASSUME IInv, pc = "derive" PROVE SafeHeadInStep
  <2>1. l2_safe_head = executed
    BY <1>1 DEF IInv, PayloadInv
  <2>2. CASE program = "multi"
    BY <2>1, <2>2, <1>1 DEF IInv, MultiInv, SafeHeadInStep
  <2>3. CASE program = "single"
    <3>1. executed = start /\ start \in Nat
      BY <1>1, <2>3, Naturals DEF IInv, SingleInv
    <3>2. ExecutedBlocks = {}
      BY <3>1 DEF ExecutedBlocks
    <3> QED
      BY <2>1, <2>3, <3>2, <1>1 DEF IInv, SingleInv, SafeHeadInStep
  <2> QED
    BY <1>1, <2>2, <2>3 DEF IInv, TypeOK
<1>2. IInv => SafeHeadInStep
  BY <1>1 DEF SafeHeadInStep
<1> QED
  BY <1>2, Invariance, PTL

(* produce_payloads hands out the next blocks, none past the claim.        *)
THEOREM NextPayloadsOnly == Spec => []PayloadsInOrder
<1>1. ASSUME IInv PROVE PayloadsInOrder
  <2>1. DOMAIN payloads = 1 .. Len(payloads)
    BY <1>1, LenProperties DEF IInv, TypeOK
  <2> QED
    BY <1>1, <2>1 DEF IInv, PayloadInv, PayloadsInOrder, Consecutive, End
<1> QED
  BY <1>1, Invariance, PTL

(* Neither program ends with a proof of anything but a claim it executed   *)
(* from batches at or below the L1 head: the epilogues, with the one exit  *)
(* of the loop.                                                            *)
THEOREM ProofsAreOfExecutedClaims == Spec => []ProvedMeansExecuted
<1>1. ASSUME IInv, pc = "proved" PROVE ProvedMeansExecuted
  <2>1. /\ executed = l2_claim_block /\ start < l2_claim_block
        /\ program = "single" => l2_claim_block = start + 1
    <3>1. start \in Nat
      BY <1>1, Naturals DEF IInv
    <3>2. program \in {"multi", "single"}
      BY <1>1 DEF IInv, TypeOK
    <3>3. CASE program = "multi"
      BY <1>1, <3>3 DEF IInv, MultiInv
    <3>4. CASE program = "single"
      BY <1>1, <3>1, <3>4 DEF IInv, SingleInv
    <3> QED
      BY <3>2, <3>3, <3>4
  <2>2. l2_claim = l2_claim_block /\ store_valid
    BY <1>1, <2>1 DEF IInv, OriginInv
  <2>3. End = l2_claim_block /\ End \in Blocks
    <3>1. /\ executed \in Nat /\ Len(payloads) \in Nat
          /\ End = executed + Len(payloads)
      BY <1>1, Naturals DEF IInv, End
    <3>2. End <= l2_claim_block /\ End \in Blocks
      BY <1>1, <2>1 DEF IInv, PayloadInv
    <3> QED
      BY <2>1, <3>1, <3>2
  <2>4. IncludedIn[l2_claim_block] <= l1_head
    <3>1. IncludedIn[l2_claim_block] <= origin /\ origin <= l1_head
      BY <1>1, <2>1, <2>3 DEF IInv, OriginInv
    <3>2. IncludedIn[l2_claim_block] \in Nat /\ origin \in Nat /\ l1_head \in Nat
      BY <1>1, <2>3, Naturals, Numbers DEF IInv
    <3> QED
      BY <3>1, <3>2
  <2> QED
    BY <2>1, <2>2, <2>4 DEF ProvedMeansExecuted
<1>2. IInv => ProvedMeansExecuted
  BY <1>1 DEF ProvedMeansExecuted
<1> QED
  BY <1>2, Invariance, PTL

-----------------------------------------------------------------------------
(* Every block executed above the start had its state in the store.        *)
ExecutableInv == start < executed => executed <= executable

LEMMA NextExecutable ==
  IInv /\ ExecutableInv /\ [Next]_vars => ExecutableInv'
<1> SUFFICES ASSUME IInv, ExecutableInv, [Next]_vars PROVE ExecutableInv'
  OBVIOUS
<1>1. /\ start \in Nat /\ executed \in Nat /\ executable \in Nat
  BY Naturals DEF IInv
<1>2. CASE ExecutePayload \/ ExecuteDisputedPayload
  <2>1. /\ executed < executable /\ executed' = executed + 1
        /\ UNCHANGED inputs
    BY <1>2 DEF ExecutePayload, ExecuteDisputedPayload, StateAvailable
  <2> QED
    BY <1>1, <2>1 DEF ExecutableInv, inputs
<1>3. CASE ~(ExecutePayload \/ ExecuteDisputedPayload)
  <2>1. UNCHANGED <<inputs, executed>>
    BY <1>3 DEF Next, vars, Startup, ProducePayloads, ProduceDisputedPayload,
       Take, AdvanceOrigin, UpdateSafeHead, Epilogue, EpilogueSingle, Panic
  <2> QED
    BY <2>1 DEF ExecutableInv, inputs
<1> QED
  BY <1>2, <1>3

LEMMA Executability == Spec => [](IInv /\ ExecutableInv)
<1>1. Init => IInv /\ ExecutableInv
  <2>1. ASSUME Init PROVE ExecutableInv
    <3>1. start \in Nat /\ executed = start
      BY <2>1, Numbers DEF Init
    <3> QED
      BY <3>1 DEF ExecutableInv
  <2> QED
    BY <2>1, InitIInv
<1>2. IInv /\ ExecutableInv /\ [Next]_vars => (IInv /\ ExecutableInv)'
  BY NextIInv, NextExecutable
<1> QED
  BY <1>1, <1>2, PTL DEF Spec

-----------------------------------------------------------------------------
(* Both programs implement RangeExecution.                                 *)
LEMMA InitPlain == Init => Plain!Init
<1> SUFFICES ASSUME Init PROVE Plain!Init
  OBVIOUS
<1>1. /\ start \in Nat /\ l2_claim_block \in Nat /\ l1_head \in Nat
      /\ executable \in Nat
  BY Numbers DEF Init
<1> QED
  BY <1>1 DEF Init, Plain!Init, Verdict

(* What the pipeline, the queues and the caches do is no step of it.       *)
LEMMA HiddenStep ==
  ASSUME UNCHANGED <<inputs, executed>>, Verdict' = Verdict
  PROVE  UNCHANGED <<Plain!inputs, executed, Verdict>>
BY DEF inputs, Plain!inputs

(* A payload in hand was derived at or below the L1 head.                  *)
LEMMA PayloadDerived ==
  ASSUME IInv, payloads # <<>>
  PROVE  /\ executed + 1 \in Blocks /\ IncludedIn[executed + 1] <= l1_head
         /\ start < l2_claim_block => executed < l2_claim_block
         /\ payloads[1] = executed
<1>1. /\ executed \in Nat /\ start \in Nat /\ l2_claim_block \in Nat
      /\ origin \in Nat /\ l1_head \in Nat /\ start <= executed
      /\ Len(payloads) \in Nat
  BY Naturals DEF IInv, PayloadInv
<1>2. payloads \in Seq(Blocks) /\ Consecutive(payloads, executed)
  BY DEF IInv, PayloadInv, TypeOK
<1>3. Len(payloads) >= 1 /\ payloads[1] = executed
  BY <1>1, <1>2, TailFacts
<1>4. End \in Blocks /\ executed + 1 <= End
  BY <1>1, <1>3 DEF IInv, PayloadInv, End
<1>5. executed + 1 \in Blocks
  BY <1>1, <1>4, Numbers DEF Blocks
<1>6. IncludedIn[executed + 1] <= IncludedIn[End]
  BY <1>4, <1>5, Numbers
<1>7. IncludedIn[End] <= origin /\ origin <= l1_head
  BY <1>1, <1>4, Numbers DEF IInv, OriginInv
<1>8. IncludedIn[executed + 1] \in Nat /\ IncludedIn[End] \in Nat
  BY <1>4, <1>5, Numbers
<1>9. IncludedIn[executed + 1] <= l1_head
  BY <1>1, <1>6, <1>7, <1>8
<1>10. start < l2_claim_block => executed < l2_claim_block
  <2>1. start < l2_claim_block => End <= l2_claim_block
    BY DEF IInv, PayloadInv
  <2> QED
    BY <1>1, <1>4, <2>1, Numbers
<1> QED
  BY <1>3, <1>5, <1>9, <1>10

LEMMA ExecutePlain ==
  ASSUME IInv, ExecutePayload \/ ExecuteDisputedPayload
  PROVE  Plain!Execute
<1>1. /\ pc = "execute" /\ pc' \in {"execute", "epilogue"}
      /\ executed < executable /\ executed' = executed + 1
      /\ UNCHANGED inputs
  BY DEF ExecutePayload, ExecuteDisputedPayload, StateAvailable
<1>2. payloads # <<>> /\ (program = "single" => executed = start)
  <2>1. CASE program = "single"
    <3>1. Len(payloads) = 1 /\ executed = start
      BY <1>1, <2>1 DEF IInv, SingleInv
    <3> QED
      BY <3>1, EmptySeq
  <2>2. CASE program # "single"
    BY <2>2 DEF ExecutePayload, ExecuteDisputedPayload
  <2> QED
    BY <2>1, <2>2
<1>3. /\ IncludedIn[executed + 1] <= l1_head
      /\ start < l2_claim_block => executed < l2_claim_block
  BY <1>2, PayloadDerived
<1>4. store_valid
  BY <1>1 DEF IInv, OriginInv
<1>5. Verdict = "running" /\ Verdict' = "running"
  BY <1>1 DEF Verdict
<1>6. UNCHANGED <<Plain!inputs, Verdict>>
  BY <1>1, <1>5 DEF inputs, Plain!inputs
<1> QED
  BY <1>1, <1>2, <1>3, <1>4, <1>5, <1>6 DEF Plain!Execute

(* What holds when the epilogue compares the output root.                  *)
LEMMA AtEpilogue ==
  ASSUME IInv, ExecutableInv, pc = "epilogue", executed = l2_claim_block
  PROVE  /\ store_valid /\ start < l2_claim_block
         /\ IncludedIn[l2_claim_block] <= l1_head
         /\ program = "single" => l2_claim_block = start + 1
         /\ l2_claim_block <= executable
<1>1. /\ executed \in Nat /\ start \in Nat /\ Len(payloads) \in Nat
      /\ End = executed + Len(payloads) /\ origin \in Nat /\ l1_head \in Nat
      /\ program \in {"multi", "single"}
  BY Naturals DEF IInv, End, TypeOK
<1>2. program = "multi" => start < l2_claim_block
  BY DEF IInv, MultiInv
<1>3. program = "single" => l2_claim_block = start + 1
  BY DEF IInv, SingleInv
<1>4. start < l2_claim_block
  BY <1>1, <1>2, <1>3
<1>5. End \in Blocks /\ End = l2_claim_block
  <2>1. End \in Blocks /\ End <= l2_claim_block
    BY <1>4 DEF IInv, PayloadInv
  <2> QED
    BY <1>1, <2>1
<1>6. IncludedIn[l2_claim_block] <= origin /\ origin <= l1_head /\ store_valid
  BY <1>4, <1>5 DEF IInv, OriginInv
<1>7. IncludedIn[l2_claim_block] \in Nat
  BY <1>5, Numbers
<1>8. IncludedIn[l2_claim_block] <= l1_head
  BY <1>1, <1>6, <1>7
<1>9. l2_claim_block <= executable
  BY <1>4 DEF ExecutableInv
<1> QED
  BY <1>3, <1>4, <1>6, <1>8, <1>9

LEMMA ProvePlain ==
  ASSUME IInv, ExecutableInv, Epilogue \/ EpilogueSingle
  PROVE  Plain!Prove
<1>1. /\ pc = "epilogue" /\ pc' = "proved" /\ executed = l2_claim
      /\ UNCHANGED <<inputs, executed>>
  BY DEF Epilogue, EpilogueSingle, OutputRootMatches
<1>2. executed = l2_claim_block
  <2>1. CASE Epilogue
    BY <2>1 DEF Epilogue, IInv, MultiInv
  <2>2. CASE EpilogueSingle
    BY <2>2 DEF EpilogueSingle, ClaimNumberMatches
  <2> QED
    BY <2>1, <2>2
<1>3. /\ store_valid /\ start < l2_claim_block
      /\ IncludedIn[l2_claim_block] <= l1_head
      /\ program = "single" => l2_claim_block = start + 1
      /\ l2_claim_block <= executable
  BY <1>1, <1>2, AtEpilogue
<1>4. Plain!Derivable
  BY <1>1, <1>2, <1>3 DEF Plain!Derivable
<1>5. Verdict = "running" /\ Verdict' = "proved"
  BY <1>1 DEF Verdict
<1>6. UNCHANGED <<Plain!inputs, executed>>
  BY <1>1 DEF inputs, Plain!inputs
<1> QED
  BY <1>2, <1>4, <1>5, <1>6 DEF Plain!Prove

(* No panic rejects a claim that can be derived: the block of the output   *)
(* root is always found, the assertion on the number never fails, and a    *)
(* missing state lies at or below the claim.                               *)
LEMMA RejectPlain == ASSUME IInv, Panic PROVE Plain!Reject
<1>1. /\ pc \in {"verify", "execute", "epilogue"} /\ pc' = "panicked"
      /\ UNCHANGED <<inputs, executed>>
  BY DEF Panic
<1>2. /\ start \in Nat /\ executed \in Nat /\ executable \in Nat
      /\ l2_claim_block \in Nat
  BY Naturals DEF IInv
<1>3. ASSUME Plain!Derivable PROVE FALSE
  <2>1. /\ store_valid /\ l2_claim = l2_claim_block /\ start < l2_claim_block
        /\ program = "single" => l2_claim_block = start + 1
        /\ l2_claim_block <= executable
    BY <1>3 DEF Plain!Derivable
  <2>2. CASE pc = "verify" /\ ~(store_valid /\ StartupInfoFound)
    BY <1>2, <2>1, <2>2 DEF StartupInfoFound, L2BlockInfoByNumber,
       PayloadByNumber, HeaderByNumber
  <2>3. CASE pc = "execute" /\ payloads # <<>> /\ ~StateAvailable
    <3>1. executed < l2_claim_block
      BY <2>1, <2>3, PayloadDerived
    <3> QED
      BY <1>2, <2>1, <2>3, <3>1 DEF StateAvailable
  <2>4. CASE pc = "execute" /\ payloads # <<>> /\ ~NumberMatches
    BY <2>4, PayloadDerived DEF NumberMatches
  <2>5. CASE pc = "epilogue" /\ executed # l2_claim_block
    <3>1. program = "single" => executed = start + 1
      BY <2>5 DEF IInv, SingleInv
    <3>2. program = "multi" => executed = l2_claim_block
      BY <2>5 DEF IInv, MultiInv
    <3> QED
      BY <2>1, <2>5, <3>1, <3>2 DEF IInv, TypeOK
  <2>6. CASE pc = "epilogue" /\ executed = l2_claim_block
    BY <2>1, <2>6 DEF Panic, OutputRootMatches, ClaimNumberMatches
  <2> QED
    BY <2>2, <2>3, <2>4, <2>5, <2>6 DEF Panic
<1>4. Verdict = "running" /\ Verdict' = "panicked"
  BY <1>1 DEF Verdict
<1>5. UNCHANGED <<Plain!inputs, executed>>
  BY <1>1 DEF inputs, Plain!inputs
<1> QED
  BY <1>3, <1>4, <1>5 DEF Plain!Reject

LEMMA StepPlain ==
  IInv /\ ExecutableInv /\ [Next]_vars
    => [Plain!Next]_<<Plain!inputs, executed, Verdict>>
<1> SUFFICES ASSUME IInv, ExecutableInv, [Next]_vars
             PROVE  [Plain!Next]_<<Plain!inputs, executed, Verdict>>
  OBVIOUS
<1>1. CASE Startup
  BY <1>1, HiddenStep DEF Startup, Verdict
<1>2. CASE \E k \in 1 .. MaxSpan : ProducePayloads(k) \/ ProduceDisputedPayload(k)
  <2>1. /\ pc = "derive" /\ pc' = "execute"
        /\ UNCHANGED <<inputs, executed>>
    BY <1>2 DEF ProducePayloads, ProduceDisputedPayload, Prepares, Take
  <2> QED
    BY <2>1, HiddenStep DEF Verdict
<1>3. CASE AdvanceOrigin
  BY <1>3, HiddenStep DEF AdvanceOrigin, Verdict
<1>4. CASE ExecutePayload \/ ExecuteDisputedPayload
  BY <1>4, ExecutePlain DEF Plain!Next
<1>5. CASE UpdateSafeHead
  BY <1>5, HiddenStep DEF UpdateSafeHead, Verdict
<1>6. CASE Epilogue \/ EpilogueSingle
  BY <1>6, ProvePlain DEF Plain!Next
<1>7. CASE Panic
  BY <1>7, RejectPlain DEF Plain!Next
<1>8. CASE UNCHANGED vars
  BY <1>8, HiddenStep DEF vars, Verdict
<1> QED
  BY <1>1, <1>2, <1>3, <1>4, <1>5, <1>6, <1>7, <1>8 DEF Next

(* Both programs execute plainly, one block after the other: the driver's  *)
(* queues, span batches, safe head and caches change nothing a verifier    *)
(* can tell.  A proof is of a derivable claim, and no assertion, unwrap or *)
(* mismatch gives a derivable claim up (main of both, driver.rs).          *)
THEOREM ExecutesPlainly == Spec => ImplementsRangeExecution
<1>1. IInv /\ ExecutableInv /\ [Next]_vars
        => [Plain!Next]_<<Plain!inputs, executed, Verdict>>
  BY StepPlain
<1> QED
  BY <1>1, InitPlain, Executability, PTL
     DEF Spec, ImplementsRangeExecution, Plain!Spec
==============================================================================
