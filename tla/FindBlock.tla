------------------------------ MODULE FindBlock ------------------------------
(***************************************************************************)
(* SP1KonaDataFetcher::find_block_by_timestamp of                          *)
(* crates/host-utils/src/fetcher.rs: the binary search over the L1 chain   *)
(* that chooses the L1 head of a range proof, the first block 600 s after  *)
(* the claimed L2 block.                                                   *)
(*                                                                         *)
(* Every block is read by an RPC of its own, so L1 grows, and may reorg,   *)
(* between any two reads.  The chain is the sequence of block timestamps:  *)
(* chain[n + 1] is the timestamp of block n.                               *)
(***************************************************************************)
EXTENDS Integers, Sequences

CONSTANTS
  Chains,      \* L1 chains when the search starts
  Targets,     \* target timestamps
  Slots,       \* seconds between two L1 blocks
  Mod64,       \* u64 arithmetic is modulo this (2^64)
  MaxLength,   \* bound on the length of the chain
  MaxReorgs    \* bound on the number of reorganisations

Increasing(s) == \A i, j \in 1 .. Len(s) : i < j => s[i] < s[j]

ASSUME FindBlockAssumption ==
  /\ MaxLength \in Nat /\ MaxReorgs \in Nat
  /\ Mod64 \in Nat /\ Mod64 > 2 * MaxLength + 2
  /\ Slots \subseteq Nat \ {0}
  /\ Targets \subseteq Nat
  /\ \A s \in Chains : /\ s \in Seq(Nat) /\ Increasing(s)
                       /\ s # <<>> /\ Len(s) <= MaxLength

VARIABLES
  chain, reorgs,
  target_timestamp,
  pc,            \* "latest", "search", "last", "found", "panicked", "failed"
  latest,        \* history: the number of the latest block read
  low, high,     \* the bounds of the search, u64
  found          \* the number of the block returned

searchVars == <<target_timestamp, pc, latest, low, high, found>>
vars == <<chain, reorgs, searchVars>>

Init ==
  /\ chain \in Chains /\ reorgs = 0
  /\ target_timestamp \in Targets
  /\ pc = "latest"
  /\ latest = 0 /\ low = 0 /\ high = 0 /\ found = 0

-----------------------------------------------------------------------------
(* A block the node does not have is None, and None is unwrapped.          *)
Exists(n) == n < Len(chain)
Timestamp(n) == chain[n + 1]

ReadLatest ==
  /\ pc = "latest"
  /\ latest' = Len(chain) - 1
  /\ high' = Len(chain) - 1
  /\ pc' = "search"
  /\ UNCHANGED <<chain, reorgs, target_timestamp, low, found>>

mid == ((low + high) % Mod64) \div 2

(* Mutants, here and below, which no action uses: low does not move past   *)
(* the midpoint; signed arithmetic; the bound moves one block too far.     *)
AboveStuck(n) == n
BelowSigned(n) == n - 1
BelowTooFar(n) == (n + Mod64 - 2) % Mod64

(* low = mid + 1. *)
Above(n) == n + 1

(* high = mid - 1 in u64: at mid = 0 it wraps (a build with overflow       *)
(* checks panics there; the wrapped search panics on its next read).       *)
Below(n) == IF n = 0 THEN Mod64 - 1 ELSE n - 1

ReadMid ==
  /\ pc = "search" /\ low <= high /\ Exists(mid)
  /\ \/ /\ Timestamp(mid) = target_timestamp
        /\ found' = mid /\ pc' = "found"
        /\ UNCHANGED <<low, high>>
     \/ /\ Timestamp(mid) < target_timestamp
        /\ low' = Above(mid)
        /\ UNCHANGED <<pc, high, found>>
     \/ /\ Timestamp(mid) > target_timestamp
        /\ high' = Below(mid)
        /\ UNCHANGED <<pc, low, found>>
  /\ UNCHANGED <<chain, reorgs, target_timestamp, latest>>

EndSearch ==
  /\ pc = "search" /\ low > high
  /\ pc' = "last"
  /\ UNCHANGED <<chain, reorgs, target_timestamp, latest, low, high, found>>

(* Mutant: the other bound is returned. *)
ReadHigh ==
  /\ pc = "last" /\ Exists(high)
  /\ found' = high /\ pc' = "found"
  /\ UNCHANGED <<chain, reorgs, target_timestamp, latest, low, high>>

ReadLow ==
  /\ pc = "last" /\ Exists(low)
  /\ found' = low /\ pc' = "found"
  /\ UNCHANGED <<chain, reorgs, target_timestamp, latest, low, high>>

Panic ==
  /\ \/ pc = "search" /\ low <= high /\ ~Exists(mid)
     \/ pc = "last" /\ ~Exists(low)
  /\ pc' = "panicked"
  /\ UNCHANGED <<chain, reorgs, target_timestamp, latest, low, high, found>>

(* An RPC fails and its error is returned. *)
RpcError ==
  /\ \/ pc \in {"latest", "last"}
     \/ pc = "search" /\ low <= high
  /\ pc' = "failed"
  /\ UNCHANGED <<chain, reorgs, target_timestamp, latest, low, high, found>>

Search == ReadLatest \/ ReadMid \/ EndSearch \/ ReadLow \/ Panic

(* L1 appends a block. *)
Grow ==
  /\ Len(chain) < MaxLength
  /\ \E d \in Slots : chain' = Append(chain, chain[Len(chain)] + d)
  /\ UNCHANGED <<reorgs, searchVars>>

(* L1 drops its last blocks, all but genesis at most, for another one. *)
Reorg ==
  /\ reorgs < MaxReorgs
  /\ \E n \in 1 .. Len(chain) - 1, d \in Slots :
       chain' = Append(SubSeq(chain, 1, n), chain[n] + d)
  /\ reorgs' = reorgs + 1
  /\ UNCHANGED searchVars

Next == Search \/ RpcError \/ Grow \/ Reorg

Spec == Init /\ [][Next]_vars

(* The fetcher keeps reading; L1 owes nothing. *)
FairSpec == Spec /\ WF_vars(Search)

-----------------------------------------------------------------------------
(* Every variable keeps its type: low stays a block number, only high may  *)
(* wrap.                                                                   *)
TypeOK ==
  /\ chain \in Seq(Nat) /\ chain # <<>> /\ Len(chain) <= MaxLength
  /\ reorgs \in 0 .. MaxReorgs
  /\ target_timestamp \in Nat
  /\ pc \in {"latest", "search", "last", "found", "panicked", "failed"}
  /\ latest \in 0 .. MaxLength - 1
  /\ low \in 0 .. MaxLength /\ high \in 0 .. Mod64 - 1
  /\ found \in 0 .. MaxLength

(* The block returned is the first one at or after the target, although L1 *)
(* grows during the search, provided the latest block read at the start    *)
(* had reached the target and L1 did not reorg.                            *)
TargetReached == latest < Len(chain) /\ Timestamp(latest) >= target_timestamp

FirstAtOrAfterTarget ==
  pc = "found" /\ reorgs = 0 /\ TargetReached =>
    /\ Exists(found) /\ Timestamp(found) >= target_timestamp
    /\ \A n \in 0 .. found - 1 : Timestamp(n) < target_timestamp

(* Under the same conditions the search panics only if genesis is already  *)
(* later than the target, by way of the wrapped bound.                     *)
PanicOnlyBeforeGenesis ==
  pc = "panicked" /\ reorgs = 0 /\ TargetReached => Timestamp(0) > target_timestamp

(* What the callers rely on: see HeadSearch.  The loop, its bounds and the *)
(* read after it are one phase there.                                      *)
Phase ==
  IF pc = "latest" THEN "start"
  ELSE IF pc \in {"search", "last"} THEN "looking"
  ELSE pc

Atomic == INSTANCE HeadSearch WITH
          reorged <- reorgs > 0,
          target  <- target_timestamp,
          phase   <- Phase,
          seen    <- latest,
          answer  <- found

(* Though its reads are spread over a growing L1, the search answers as if *)
(* it had read the whole chain at once: as long as L1 does not reorganise, *)
(* it returns nothing but the closest block, panics only if the target     *)
(* is before genesis or L1 does not have that block yet, and does neither  *)
(* before it has looked at the latest block.                               *)
ImplementsHeadSearch == Atomic!Spec

(* The search ends, whatever L1 does meanwhile. *)
SearchEnds == <>(pc \in {"found", "panicked", "failed"})

(* "Return the block hash of the closest block after the target timestamp" *)
NeverBeforeTarget ==
  pc = "found" /\ reorgs = 0 => Timestamp(found) >= target_timestamp
==============================================================================
