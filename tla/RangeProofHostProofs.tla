------------------------- MODULE RangeProofHostProofs -------------------------
(***************************************************************************)
(* Machine-checked theorems about the hosts of range proofs, for any       *)
(* number of concurrent runs, any ranges, any chains and any growth of L1. *)
(***************************************************************************)
EXTENDS RangeProofHost, WellFoundedInduction, TLAPS

Reading == {"output", "outputStorage", "claim", "claimStorage", "latest", "search"}
Before == Reading \cup {"directory"}
Submitted == {"requested", "fulfilled", "unfulfillable"}
AfterNative == {"list", "load", "stdin", "done"} \cup Submitted

(* The first L1 block at or after a time. *)
IsFirst(n, time) ==
  /\ n \in L1Numbers /\ L1Time[n] >= time
  /\ \A m \in 0 .. n - 1 : L1Time[m] < time

(* What a run knows of itself at each stage. *)
LocalInv(r) ==
  /\ pc[r] \in Before =>
       /\ damaged[r] = {} /\ earlier[r] = {}
       /\ writing[r] = NoKey
  /\ pc[r] \in Reading => ~reached[r]
  /\ pc[r] \in {"native", "list"} => damaged[r] = {}
  /\ pc[r] = "native" => ~job[r].use_cache
  /\ pc[r] \in AfterNative => writing[r] = NoKey
  /\ pc[r] \in Submitted => job[r].host = "server"
  /\ pc[r] \notin {"output", "panicked", "failed", "hostPanicked"} =>
       \E f \in Forks : args[r].output_block = L2Block[f][SafeHead(r)]
  /\ reached[r] => IsFirst(args[r].l1_head, Target(r))

(* The store of a run that does not use the cache: what is not pending is  *)
(* there, and once the native client has ended the claim is provable.      *)
StoreInv(r) ==
  ~job[r].use_cache =>
    /\ pc[r] = "native" => Needed(r) \subseteq pending[r] \cup Present(r)
    /\ pc[r] = "list" => Needed(r) \subseteq Present(r)
    /\ pc[r] = "load" => Needed(r) \subseteq listed[r]
    /\ Loaded(r) => Needed(r) \subseteq cache[r]
    /\ pc[r] \in AfterNative => Provable(BootInfo(r))

(* The arguments read so far, as long as L2 has not reorged. *)
Past(r, stages) == pc[r] \notin stages \cup {"panicked", "failed", "hostPanicked"}

RootsInv(r) ==
  reorgs = 0 =>
    /\ Past(r, {"output"}) => args[r].output_block = L2Block[l2][SafeHead(r)]
    /\ Past(r, {"output", "outputStorage"}) =>
         args[r].output_storage = Storage[L2Block[l2][SafeHead(r)]]
    /\ Past(r, {"output", "outputStorage", "claim"}) =>
         args[r].claim_block = L2Block[l2][job[r].end]
    /\ Past(r, {"output", "outputStorage", "claim", "claimStorage"}) =>
         args[r].claim_storage = Storage[L2Block[l2][job[r].end]]

(* What was listed or read is still there. *)
FilesInv(r) == listed[r] \subseteq Present(r) /\ cache[r] \subseteq listed[r]

RunInv(r) == LocalInv(r) /\ StoreInv(r) /\ RootsInv(r) /\ FilesInv(r)

(* A half-written file has a writer, alive or dead, and a run that is      *)
(* alone has none next to it.                                              *)
OwnerInv ==
  \A f \in partial : \E q \in Runs : writing[q] # NoKey /\ f = File(q, writing[q])

AloneInv(r) ==
  alone[r] =>
    /\ pc[r] \in {"native", "list", "load"} =>
         \A q \in Runs \ {r} : SameRange(q, r) => writing[q] = NoKey
    /\ pc[r] \in AfterNative => damaged[r] = {}

(* What an earlier complete run has left, whatever became of it since.     *)
Left(q) ==
  /\ pc[q] \notin Before \cup {"native"}
  /\ Needed(q) \subseteq Present(q) /\ Provable(BootInfo(q))
  /\ reorgs = 0 =>
       /\ BootInfo(q).l2_output_root = RootOf(l2, SafeHead(q))
       /\ BootInfo(q).l2_claim = RootOf(l2, job[q].end)

EarlierInv(q, r) ==
  q \in earlier[r] =>
    /\ SameRange(q, r) /\ Left(q)
    /\ pc[r] = "load" => Needed(q) \subseteq listed[r]
    /\ Loaded(r) => Needed(q) \subseteq cache[r]

ProofFilesInv ==
  /\ \A f \in DOMAIN proof_files :
       /\ Provable(proof_files[f])
       /\ proof_files[f].l2_claim_block = f[2]
       /\ proof_files[f].l2_output_root = RootOf(Derived, f[1])
  /\ \A info \in status_proofs : Provable(info)

IInv ==
  /\ TypeOK /\ OwnerInv /\ ProofFilesInv
  /\ \A r \in Runs : RunInv(r) /\ AloneInv(r)
  /\ \A q, r \in Runs : EarlierInv(q, r)
-----------------------------------------------------------------------------
(* Numbers: < is well founded on Nat, so the search's answer exists.       *)
Less == {p \in Nat \X Nat : p[1] < p[2]}

LEMMA LeastNumber ==
  ASSUME NEW T, T \subseteq Nat, T # {}
  PROVE  \E x \in T : \A y \in T : x <= y
<1>1. IsWellFoundedOn({p \in Nat \X Nat : p[1] < p[2]}, Nat)
  BY NatLessThanWellFounded DEF OpToRel
<1>2. IsWellFoundedOn(Less, Nat)
  BY <1>1 DEF Less
<1>3. PICK x \in T : \A y \in T : ~(<<y, x>> \in Less)
  BY <1>2, WFMin
<1>4. \A y, z \in Nat : <<y, z>> \in Less <=> y < z
  BY DEF Less
<1>5. \A y \in T : ~(y < x)
  BY <1>3, <1>4
<1>6. \A y \in T : x <= y
  BY <1>5
<1> QED
  BY <1>6

LEMMA ClosestFirst ==
  ASSUME NEW last \in L1Numbers, NEW time \in Nat
  PROVE  /\ Closest(last, time) \in Nat
         /\ L1Time[last] >= time => IsFirst(Closest(last, time), time)
<1>1. /\ last \in Nat /\ last <= MaxL1 /\ MaxL1 \in Nat
      /\ \A n \in L1Numbers : L1Time[n] \in Nat
  BY HostAssumption DEF L1Numbers
<1>2. CASE L1Time[last] >= time
  <2> DEFINE T == {n \in 0 .. last : L1Time[n] >= time}
             First(n) == /\ L1Time[n] >= time
                         /\ \A m \in 0 .. n - 1 : L1Time[m] < time
  <2>1. T \subseteq Nat /\ last \in T
    BY <1>1, <1>2
  <2>2. PICK n \in T : \A m \in T : n <= m
    BY <2>1, LeastNumber
  <2>3. n \in 0 .. last /\ L1Time[n] >= time
    OBVIOUS
  <2>4. ASSUME NEW m \in 0 .. n - 1 PROVE L1Time[m] < time
    <3>1. m \in 0 .. last /\ m \in L1Numbers /\ ~(n <= m)
      BY <1>1, <2>3 DEF L1Numbers
    <3>2. m \notin T
      BY <2>2, <3>1
    <3> QED
      BY <1>1, <3>1, <3>2
  <2>5. Closest(last, time) = CHOOSE k \in 0 .. last : First(k)
    BY <1>2 DEF Closest, ClosestBlock
  <2>6. \E k \in 0 .. last : First(k)
    BY <2>3, <2>4
  <2> HIDE DEF First
  <2>7. Closest(last, time) \in 0 .. last /\ First(Closest(last, time))
    BY <2>5, <2>6
  <2> QED
    BY <1>1, <2>7 DEF IsFirst, First, L1Numbers
<1>3. CASE ~(L1Time[last] >= time)
  BY <1>1, <1>3 DEF Closest, ClosestBlock
<1> QED
  BY <1>2, <1>3

LEMMA FirstUnique ==
  ASSUME NEW m, NEW n, NEW time \in Nat, IsFirst(m, time), IsFirst(n, time)
  PROVE  m = n
<1>1. /\ m \in Nat /\ n \in Nat
      /\ L1Time[m] \in Nat /\ L1Time[n] \in Nat
      /\ L1Time[m] >= time /\ L1Time[n] >= time
  BY HostAssumption DEF IsFirst, L1Numbers
<1>2. CASE m < n
  <2>1. m \in 0 .. n - 1
    BY <1>1, <1>2
  <2> QED
    BY <1>1, <2>1 DEF IsFirst
<1>3. CASE n < m
  <2>1. n \in 0 .. m - 1
    BY <1>1, <1>3
  <2> QED
    BY <1>1, <2>1 DEF IsFirst
<1> QED
  BY <1>1, <1>2, <1>3

LEMMA JobTypes ==
  ASSUME TypeOK, NEW r \in Runs
  PROVE  /\ job[r] \in Job /\ job[r].end \in Numbers /\ job[r].start \in Numbers
         /\ job[r].host \in {"server", "multi", "single"}
         /\ job[r].use_cache \in BOOLEAN /\ job[r].prove \in BOOLEAN
         /\ job[r].host = "server" => ~job[r].use_cache
         /\ Target(r) \in Nat
<1>1. job[r] \in Jobs /\ job[r] \in Job
  BY HostAssumption DEF TypeOK
<1>2. job[r].end \in Numbers /\ L2Time[job[r].end] \in Nat
  BY <1>1, HostAssumption DEF Job
<1> QED
  BY <1>1, <1>2, HostAssumption DEF Job, Target

LEMMA KeyTypes ==
  ASSUME TypeOK, NEW r \in Runs
  PROVE  /\ Needed(r) \subseteq Keys
         /\ DataDir(r) \in Dirs
         /\ \A k \in Keys : File(r, k) \in Dirs \X Keys
<1>1. Needed(r) \subseteq Keys
  <2>1. \A n \in Numbers : L2Block[Derived][n] \in L2Blocks
    BY HostAssumption DEF L2Blocks
  <2>2. /\ \A n \in Numbers : <<"L2", L2Block[Derived][n]>> \in Keys
        /\ \A n \in L1Numbers : <<"L1", n>> \in Keys
    BY <2>1 DEF Keys
  <2>3. \A k \in Needed(r) :
          \/ \E n \in L1Numbers : k = <<"L1", n>>
          \/ \E n \in Numbers : k = <<"L2", L2Block[Derived][n]>>
    BY DEF Needed
  <2> QED
    BY <2>2, <2>3
<1>2. DataDir(r) \in Dirs
  BY JobTypes DEF DataDir, Dirs
<1> QED
  BY <1>1, <1>2 DEF File

(* Runs of the same range share their directory, and only they.            *)
LEMMA SameDirectory ==
  ASSUME TypeOK, NEW q \in Runs, NEW r \in Runs
  PROVE  SameRange(q, r) <=> DataDir(q) = DataDir(r)
<1>1. CASE job[q].host = "single" /\ job[r].host = "single"
  BY <1>1 DEF SameRange, DataDir, SafeHead
<1>2. CASE job[q].host # "single" /\ job[r].host # "single"
  BY <1>2 DEF SameRange, DataDir, SafeHead
<1>3. CASE ~((job[q].host = "single") <=> (job[r].host = "single"))
  BY <1>3 DEF SameRange, DataDir, SafeHead
<1> QED
  BY <1>1, <1>2, <1>3

-----------------------------------------------------------------------------
(* One run at a time: what the step of a run leaves of the others.         *)
Private(q) == <<pc[q], args[q], pending[q], writing[q], listed[q], cache[q],
                damaged[q], reached[q], earlier[q]>>

Ended == {"panicked", "failed", "hostPanicked"} \cup AfterNative

StepOf(r) ==
  /\ UNCHANGED <<job, l2, reorgs>>
  /\ \A q \in Runs \ {r} : UNCHANGED Private(q)
  /\ \A q \in Runs : Present(q) \subseteq Present(q)'
  /\ pc[r] \in Ended => args'[r] = args[r] /\ pc'[r] \in Ended

(* What is derived from the job and the arguments of a run. *)
LEMMA ArgsOf ==
  ASSUME NEW q \in Runs, UNCHANGED job, args'[q] = args[q]
  PROVE  /\ SafeHead(q)' = SafeHead(q) /\ BootInfo(q)' = BootInfo(q)
         /\ Needed(q)' = Needed(q) /\ Target(q)' = Target(q)
         /\ DataDir(q)' = DataDir(q)
<1>1. SafeHead(q)' = SafeHead(q) /\ Target(q)' = Target(q)
      /\ DataDir(q)' = DataDir(q)
  BY DEF SafeHead, Target, DataDir
<1> QED
  BY <1>1 DEF BootInfo, Needed

LEMMA JobOf ==
  ASSUME UNCHANGED job
  PROVE  /\ \A q : SafeHead(q)' = SafeHead(q) /\ Target(q)' = Target(q)
         /\ \A q : DataDir(q)' = DataDir(q)
         /\ \A q, k : File(q, k)' = File(q, k)
         /\ \A q, r : SameRange(q, r)' <=> SameRange(q, r)
  BY DEF SafeHead, Target, DataDir, File, SameRange

LEMMA OthersRunInv ==
  ASSUME IInv, NEW r \in Runs, StepOf(r), NEW q \in Runs \ {r}
  PROVE  RunInv(q)'
<1>1. /\ UNCHANGED <<job, l2, reorgs>>
      /\ pc'[q] = pc[q] /\ args'[q] = args[q] /\ pending'[q] = pending[q]
      /\ writing'[q] = writing[q] /\ listed'[q] = listed[q]
      /\ cache'[q] = cache[q] /\ damaged'[q] = damaged[q]
      /\ reached'[q] = reached[q] /\ earlier'[q] = earlier[q]
      /\ Present(q) \subseteq Present(q)'
  BY DEF StepOf, Private
<1>2. /\ SafeHead(q)' = SafeHead(q) /\ BootInfo(q)' = BootInfo(q)
      /\ Needed(q)' = Needed(q) /\ Target(q)' = Target(q)
  BY <1>1, ArgsOf
<1>3. LocalInv(q) /\ StoreInv(q) /\ RootsInv(q) /\ FilesInv(q)
  BY DEF IInv, RunInv
<1>7. FilesInv(q)'
  BY <1>1, <1>3 DEF FilesInv
<1>4. LocalInv(q)'
  BY <1>1, <1>2, <1>3 DEF LocalInv, IsFirst
<1>5. StoreInv(q)'
  BY <1>1, <1>2, <1>3 DEF StoreInv, Provable, RootOf, Loaded
<1>6. RootsInv(q)'
  BY <1>1, <1>2, <1>3 DEF RootsInv, Past
<1> QED
  BY <1>4, <1>5, <1>6, <1>7 DEF RunInv

(* What a complete run left stays. *)
LEMMA LeftStays ==
  ASSUME IInv, NEW r \in Runs, StepOf(r), NEW q \in Runs, Left(q)
  PROVE  Left(q)'
<1>1. pc[q] \in Ended
  BY DEF Left, Ended, IInv, TypeOK, Stages, Before, Reading, AfterNative, Submitted
<1>2. /\ UNCHANGED <<job, l2, reorgs>>
      /\ args'[q] = args[q] /\ pc'[q] \in Ended
      /\ Present(q) \subseteq Present(q)'
  BY <1>1 DEF StepOf, Private
<1>3. /\ SafeHead(q)' = SafeHead(q) /\ BootInfo(q)' = BootInfo(q)
      /\ Needed(q)' = Needed(q)
  BY <1>2, ArgsOf
<1>4. pc'[q] \notin Before \cup {"native"}
  BY <1>2 DEF Ended, Before, Reading, AfterNative, Submitted
<1> QED
  BY <1>2, <1>3, <1>4 DEF Left, Provable, RootOf

LEMMA OthersEarlierInv ==
  ASSUME IInv, NEW r \in Runs, StepOf(r), NEW q \in Runs, NEW s \in Runs \ {r}
  PROVE  EarlierInv(q, s)'
<1> SUFFICES ASSUME q \in earlier'[s] PROVE EarlierInv(q, s)'
  BY DEF EarlierInv
<1>1. /\ pc'[s] = pc[s] /\ listed'[s] = listed[s] /\ cache'[s] = cache[s]
      /\ earlier'[s] = earlier[s] /\ UNCHANGED <<job, l2, reorgs>>
  BY DEF StepOf, Private
<1>2. SameRange(q, s) /\ Left(q)
  BY <1>1 DEF IInv, EarlierInv
<1>3. SameRange(q, s)' /\ Left(q)'
  BY <1>1, <1>2, JobOf, LeftStays
<1>4. pc[q] \in Ended
  BY <1>2 DEF Left, Ended, IInv, TypeOK, Stages, Before, Reading, AfterNative, Submitted
<1>5. args'[q] = args[q]
  BY <1>4 DEF StepOf, Private
<1>6. Needed(q)' = Needed(q)
  BY <1>1, <1>5, ArgsOf
<1> QED
  BY <1>1, <1>3, <1>6 DEF IInv, EarlierInv, Loaded

LEMMA FilesKept ==
  ASSUME IInv, NEW r \in Runs, StepOf(r),
         listed'[r] = listed[r], cache'[r] = cache[r]
  PROVE  FilesInv(r)'
<1>1. FilesInv(r) /\ Present(r) \subseteq Present(r)'
  BY DEF IInv, RunInv, StepOf
<1> QED
  BY <1>1 DEF FilesInv

(* So a step of r need only be shown right for r itself. *)
LEMMA OneRun ==
  ASSUME IInv, NEW r \in Runs, StepOf(r), TypeOK', OwnerInv', ProofFilesInv',
         RunInv(r)', \A q \in Runs : AloneInv(q)',
         \A q \in Runs : EarlierInv(q, r)'
  PROVE  IInv'
<1>1. \A q \in Runs : RunInv(q)'
  BY OthersRunInv
<1>2. \A q, s \in Runs : EarlierInv(q, s)'
  BY OthersEarlierInv
<1> QED
  BY <1>1, <1>2 DEF IInv

LEMMA AloneKept ==
  ASSUME IInv, NEW r \in Runs, StepOf(r), AloneInv(r)',
         \A q \in Runs \ {r} : alone'[q] => alone[q],
         \A q \in Runs : writing'[q] = writing[q] \/ writing'[q] = NoKey
  PROVE  \A q \in Runs : AloneInv(q)'
<1> SUFFICES ASSUME NEW q \in Runs \ {r}, alone'[q] PROVE AloneInv(q)'
  BY DEF AloneInv
<1>1. /\ pc'[q] = pc[q] /\ damaged'[q] = damaged[q] /\ UNCHANGED job
  BY DEF StepOf, Private
<1>2. AloneInv(q) /\ alone[q]
  BY DEF IInv
<1>3. \A s \in Runs : SameRange(s, q)' <=> SameRange(s, q)
  BY <1>1, JobOf
<1> QED
  BY <1>1, <1>2, <1>3 DEF AloneInv

LEMMA DiskFrame ==
  ASSUME UNCHANGED <<diskVars, job>>
  PROVE  /\ \A q : Present(q)' = Present(q)
         /\ OwnerInv /\ UNCHANGED writing => OwnerInv'
<1>1. /\ UNCHANGED <<directories, whole, partial>> /\ UNCHANGED job
      /\ \A q, k : File(q, k)' = File(q, k)
  BY JobOf DEF diskVars
<1>2. \A q : Present(q)' = Present(q)
  BY <1>1 DEF Present
<1> QED
  BY <1>1, <1>2 DEF OwnerInv

LEMMA ProofsFrame ==
  ASSUME IInv, UNCHANGED proofVars PROVE ProofFilesInv'
  BY DEF IInv, ProofFilesInv, proofVars, Provable, RootOf

(* The reads of get_host_cli_args: new is what the step makes of args[r].  *)
LEMMA ReadIInv ==
  ASSUME IInv, NEW r \in Runs, NEW to \in Reading \ {"output"}, NEW new \in HostArgs,
         pc[r] \in Reading, pc' = [pc EXCEPT ![r] = to],
         args' = [args EXCEPT ![r] = new],
         UNCHANGED <<nodeVars, job, diskVars, nativeVars, loadVars, proofVars,
                     historyVars>>,
         \E f \in Forks : new.output_block = L2Block[f][SafeHead(r)],
         RootsInv(r)'
  PROVE  IInv'
<1>1. /\ UNCHANGED <<l2, reorgs, l1, job>> /\ UNCHANGED <<diskVars, proofVars>>
      /\ UNCHANGED <<directories, whole, partial>> /\ UNCHANGED <<pending, writing>>
      /\ UNCHANGED <<listed, cache, damaged>> /\ UNCHANGED <<proof_files, status_proofs>>
      /\ UNCHANGED <<reached, alone, earlier>>
  BY DEF nodeVars, diskVars, nativeVars, loadVars, proofVars, historyVars
<1>2. /\ pc'[r] = to /\ args'[r] = new
      /\ \A q \in Runs \ {r} : pc'[q] = pc[q] /\ args'[q] = args[q]
      /\ pc' \in [Runs -> Stages] /\ args' \in [Runs -> HostArgs]
  BY DEF IInv, TypeOK, Stages, Reading
<1>3. TypeOK'
  BY <1>1, <1>2 DEF IInv, TypeOK
<1>4. StepOf(r)
  BY <1>1, <1>2, DiskFrame DEF StepOf, Private, Ended, Reading, AfterNative, Submitted
<1>5. LocalInv(r)'
  <2>1. LocalInv(r)
    BY DEF IInv, RunInv
  <2>2. to \in Before /\ to \notin {"native", "list"} /\ to \notin AfterNative
        /\ to \notin Submitted /\ pc[r] \in Before
    BY DEF Reading, Before, AfterNative, Submitted
  <2>3. SafeHead(r)' = SafeHead(r)
    BY <1>1, JobOf
  <2> QED
    BY <1>1, <1>2, <2>1, <2>2, <2>3 DEF LocalInv
<1>6. StoreInv(r)'
  BY <1>2 DEF StoreInv, Reading, AfterNative, Submitted, Loaded
<1>7. EarlierInv(r, r)' /\ \A q \in Runs : EarlierInv(q, r)'
  BY <1>1 DEF IInv, RunInv, LocalInv, EarlierInv, Before
<1>8. AloneInv(r)'
  BY <1>2 DEF AloneInv, Reading, AfterNative, Submitted
<1>9. \A q \in Runs : AloneInv(q)'
  BY <1>1, <1>4, <1>8, AloneKept
<1>10. OwnerInv' /\ ProofFilesInv'
  <2>1. OwnerInv
    BY DEF IInv
  <2> QED
    BY <1>1, <2>1, DiskFrame, ProofsFrame
<1>11. FilesInv(r)'
  BY <1>1, <1>4, FilesKept
<1> QED
  BY <1>3, <1>4, <1>5, <1>6, <1>7, <1>9, <1>10, <1>11, OneRun DEF RunInv

LEMMA KnownBlock ==
  ASSUME TypeOK, NEW n, Known(n)
  PROVE  /\ n \in Numbers /\ L2Block[l2][n] \in L2Blocks
         /\ Storage[L2Block[l2][n]] \in StorageHashes
<1>1. l2 \in Forks /\ n \in Numbers
  BY HostAssumption DEF TypeOK, Known
<1>2. L2Block[l2][n] \in L2Blocks
  BY <1>1 DEF L2Blocks
<1> QED
  BY <1>1, <1>2 DEF StorageHashes

LEMMA ReadOutputBlockIInv ==
  ASSUME IInv, NEW r \in Runs, ReadOutputBlock(r) PROVE IInv'
<1> DEFINE block == L2Block[l2][SafeHead(r)]
           new == [args[r] EXCEPT !.output_block = block]
<1>1. /\ pc[r] = "output" /\ pc' = [pc EXCEPT ![r] = "outputStorage"]
      /\ args' = [args EXCEPT ![r] = new]
      /\ UNCHANGED <<nodeVars, job, diskVars, nativeVars, loadVars, proofVars,
                     historyVars>>
      /\ Known(SafeHead(r))
  BY DEF ReadOutputBlock, Goto, Read
<1>2. block \in L2Blocks /\ l2 \in Forks
  BY <1>1, KnownBlock DEF IInv, TypeOK
<1> HIDE DEF block
<1>3. new \in HostArgs /\ new.output_block = block
  BY <1>2 DEF IInv, TypeOK, HostArgs
<1>4. RootsInv(r)'
  <2>1. /\ pc'[r] = "outputStorage" /\ args'[r] = new /\ UNCHANGED <<l2, reorgs, job>>
    BY <1>1 DEF nodeVars, IInv, TypeOK
  <2> QED
    BY <1>3, <2>1, JobOf DEF RootsInv, Past, block
<1> HIDE DEF new
<1> QED
  BY <1>1, <1>2, <1>3, <1>4, ReadIInv DEF Reading, block

LEMMA ReadOutputStorageIInv ==
  ASSUME IInv, NEW r \in Runs, ReadOutputStorage(r) PROVE IInv'
<1> DEFINE hash == Storage[L2Block[l2][SafeHead(r)]]
           new == [args[r] EXCEPT !.output_storage = hash]
<1>1. /\ pc[r] = "outputStorage" /\ pc' = [pc EXCEPT ![r] = "claim"]
      /\ args' = [args EXCEPT ![r] = new]
      /\ UNCHANGED <<nodeVars, job, diskVars, nativeVars, loadVars, proofVars,
                     historyVars>>
      /\ Known(SafeHead(r))
  BY DEF ReadOutputStorage, Goto, Read
<1>2. hash \in StorageHashes
  BY <1>1, KnownBlock DEF IInv
<1> HIDE DEF hash
<1>3. /\ new \in HostArgs /\ new.output_storage = hash
      /\ new.output_block = args[r].output_block
  BY <1>2 DEF IInv, TypeOK, HostArgs
<1>4. LocalInv(r) /\ RootsInv(r)
  BY DEF IInv, RunInv
<1>5. RootsInv(r)'
  <2>1. /\ pc'[r] = "claim" /\ args'[r] = new /\ UNCHANGED <<l2, reorgs, job>>
    BY <1>1 DEF nodeVars, IInv, TypeOK
  <2> QED
    BY <1>1, <1>3, <1>4, <2>1, JobOf DEF RootsInv, Past, hash
<1> HIDE DEF new
<1>6. \E f \in Forks : new.output_block = L2Block[f][SafeHead(r)]
  BY <1>1, <1>3, <1>4 DEF LocalInv
<1> QED
  BY <1>1, <1>3, <1>5, <1>6, ReadIInv DEF Reading

LEMMA ReadClaimBlockIInv ==
  ASSUME IInv, NEW r \in Runs, ReadClaimBlock(r) PROVE IInv'
<1> DEFINE block == L2Block[l2][job[r].end]
           new == [args[r] EXCEPT !.claim_block = block]
<1>1. /\ pc[r] = "claim" /\ pc' = [pc EXCEPT ![r] = "claimStorage"]
      /\ args' = [args EXCEPT ![r] = new]
      /\ UNCHANGED <<nodeVars, job, diskVars, nativeVars, loadVars, proofVars,
                     historyVars>>
      /\ Known(job[r].end)
  BY DEF ReadClaimBlock, Goto, Read
<1>2. block \in L2Blocks
  BY <1>1, KnownBlock DEF IInv
<1> HIDE DEF block
<1>3. /\ new \in HostArgs /\ new.claim_block = block
      /\ new.output_block = args[r].output_block
      /\ new.output_storage = args[r].output_storage
  BY <1>2 DEF IInv, TypeOK, HostArgs
<1>4. LocalInv(r) /\ RootsInv(r)
  BY DEF IInv, RunInv
<1>5. RootsInv(r)'
  <2>1. /\ pc'[r] = "claimStorage" /\ args'[r] = new /\ UNCHANGED <<l2, reorgs, job>>
    BY <1>1 DEF nodeVars, IInv, TypeOK
  <2> QED
    BY <1>1, <1>3, <1>4, <2>1, JobOf DEF RootsInv, Past, block
<1> HIDE DEF new
<1>6. \E f \in Forks : new.output_block = L2Block[f][SafeHead(r)]
  BY <1>1, <1>3, <1>4 DEF LocalInv
<1> QED
  BY <1>1, <1>3, <1>5, <1>6, ReadIInv DEF Reading

LEMMA ReadClaimStorageIInv ==
  ASSUME IInv, NEW r \in Runs, ReadClaimStorage(r) PROVE IInv'
<1> DEFINE hash == Storage[L2Block[l2][job[r].end]]
           new == [args[r] EXCEPT !.claim_storage = hash]
<1>1. /\ pc[r] = "claimStorage" /\ pc' = [pc EXCEPT ![r] = "latest"]
      /\ args' = [args EXCEPT ![r] = new]
      /\ UNCHANGED <<nodeVars, job, diskVars, nativeVars, loadVars, proofVars,
                     historyVars>>
      /\ Known(job[r].end)
  BY DEF ReadClaimStorage, Goto, Read
<1>2. hash \in StorageHashes
  BY <1>1, KnownBlock DEF IInv
<1> HIDE DEF hash
<1>3. /\ new \in HostArgs /\ new.claim_storage = hash
      /\ new.output_block = args[r].output_block
      /\ new.output_storage = args[r].output_storage
      /\ new.claim_block = args[r].claim_block
  BY <1>2 DEF IInv, TypeOK, HostArgs
<1>4. LocalInv(r) /\ RootsInv(r)
  BY DEF IInv, RunInv
<1>5. RootsInv(r)'
  <2>1. /\ pc'[r] = "latest" /\ args'[r] = new /\ UNCHANGED <<l2, reorgs, job>>
    BY <1>1 DEF nodeVars, IInv, TypeOK
  <2> QED
    BY <1>1, <1>3, <1>4, <2>1, JobOf DEF RootsInv, Past, hash
<1> HIDE DEF new
<1>6. \E f \in Forks : new.output_block = L2Block[f][SafeHead(r)]
  BY <1>1, <1>3, <1>4 DEF LocalInv
<1> QED
  BY <1>1, <1>3, <1>5, <1>6, ReadIInv DEF Reading

LEMMA ReadLatestIInv ==
  ASSUME IInv, NEW r \in Runs, ReadLatest(r) PROVE IInv'
<1> DEFINE new == [args[r] EXCEPT !.latest = l1]
<1>1. /\ pc[r] = "latest" /\ pc' = [pc EXCEPT ![r] = "search"]
      /\ args' = [args EXCEPT ![r] = new]
      /\ UNCHANGED <<nodeVars, job, diskVars, nativeVars, loadVars, proofVars,
                     historyVars>>
  BY DEF ReadLatest, Goto, Read
<1>2. /\ new \in HostArgs
      /\ new.output_block = args[r].output_block
      /\ new.output_storage = args[r].output_storage
      /\ new.claim_block = args[r].claim_block
      /\ new.claim_storage = args[r].claim_storage
  BY DEF IInv, TypeOK, HostArgs
<1>3. LocalInv(r) /\ RootsInv(r)
  BY DEF IInv, RunInv
<1>4. RootsInv(r)'
  <2>1. /\ pc'[r] = "search" /\ args'[r] = new /\ UNCHANGED <<l2, reorgs, job>>
    BY <1>1 DEF nodeVars, IInv, TypeOK
  <2> QED
    BY <1>1, <1>2, <1>3, <2>1, JobOf DEF RootsInv, Past
<1> HIDE DEF new
<1>5. \E f \in Forks : new.output_block = L2Block[f][SafeHead(r)]
  BY <1>1, <1>2, <1>3 DEF LocalInv
<1> QED
  BY <1>1, <1>2, <1>4, <1>5, ReadIInv DEF Reading

LEMMA FindL1HeadIInv ==
  ASSUME IInv, NEW r \in Runs, FindL1Head(r) PROVE IInv'
<1> DEFINE head == Closest(args[r].latest, Target(r))
           new == [args[r] EXCEPT !.l1_head = head, !.latest = 0]
<1>1. /\ pc[r] = "search" /\ pc' = [pc EXCEPT ![r] = "directory"]
      /\ args' = [args EXCEPT ![r] = new]
      /\ head <= l1
      /\ reached' = [reached EXCEPT ![r] = L1Time[args[r].latest] >= Target(r)]
      /\ UNCHANGED <<l2, reorgs, l1, job>> /\ UNCHANGED <<diskVars, proofVars>>
      /\ UNCHANGED <<directories, whole, partial>> /\ UNCHANGED <<pending, writing>>
      /\ UNCHANGED <<listed, cache, damaged>> /\ UNCHANGED <<proof_files, status_proofs>>
      /\ UNCHANGED <<alone, earlier>>
  BY DEF FindL1Head, Goto, nodeVars, diskVars, nativeVars, loadVars, proofVars
<1>2. Target(r) \in Nat /\ args[r].latest \in L1Numbers /\ l1 \in L1Numbers
  BY JobTypes DEF IInv, TypeOK, HostArgs
<1>3. /\ head \in Nat
      /\ L1Time[args[r].latest] >= Target(r) => IsFirst(head, Target(r))
  BY <1>2, ClosestFirst
<1>4. head \in L1Numbers /\ 0 \in L1Numbers
  BY <1>1, <1>2, <1>3, HostAssumption DEF L1Numbers
<1> HIDE DEF head
<1>5. /\ new \in HostArgs /\ new.l1_head = head
      /\ new.output_block = args[r].output_block
      /\ new.output_storage = args[r].output_storage
      /\ new.claim_block = args[r].claim_block
      /\ new.claim_storage = args[r].claim_storage
  BY <1>4 DEF IInv, TypeOK, HostArgs
<1> HIDE DEF new
<1>6. /\ pc'[r] = "directory" /\ args'[r] = new
      /\ reached'[r] = (L1Time[args[r].latest] >= Target(r))
      /\ \A q \in Runs \ {r} : /\ pc'[q] = pc[q] /\ args'[q] = args[q]
                               /\ reached'[q] = reached[q]
      /\ pc' \in [Runs -> Stages] /\ args' \in [Runs -> HostArgs]
      /\ reached' \in [Runs -> BOOLEAN]
  <2>1. (L1Time[args[r].latest] >= Target(r)) \in BOOLEAN
    OBVIOUS
  <2> QED
    BY <1>1, <1>5 DEF IInv, TypeOK, Stages
<1>7. TypeOK'
  BY <1>1, <1>6 DEF IInv, TypeOK
<1>8. StepOf(r)
  BY <1>1, <1>6, DiskFrame DEF StepOf, Private, Ended, AfterNative, Submitted
<1>9. LocalInv(r)'
  <2>1. LocalInv(r)
    BY DEF IInv, RunInv
  <2>2. SafeHead(r)' = SafeHead(r) /\ Target(r)' = Target(r)
    BY <1>1, JobOf
  <2>3. reached'[r] => IsFirst(args'[r].l1_head, Target(r)')
    BY <1>3, <1>5, <1>6, <2>2
  <2> QED
    BY <1>1, <1>5, <1>6, <2>1, <2>2, <2>3
    DEF LocalInv, Before, Reading, AfterNative, Submitted, IsFirst
<1>10. StoreInv(r)'
  BY <1>6 DEF StoreInv, AfterNative, Submitted, Loaded
<1>11. RootsInv(r)'
  <2>1. RootsInv(r)
    BY DEF IInv, RunInv
  <2> QED
    BY <1>1, <1>5, <1>6, <2>1, JobOf DEF RootsInv, Past
<1>12. \A q \in Runs : EarlierInv(q, r)'
  BY <1>1 DEF IInv, RunInv, LocalInv, EarlierInv, Before, Reading
<1>13. AloneInv(r)'
  BY <1>6 DEF AloneInv, AfterNative, Submitted
<1>14. \A q \in Runs : AloneInv(q)'
  BY <1>1, <1>8, <1>13, AloneKept
<1>15. OwnerInv' /\ ProofFilesInv'
  <2>1. OwnerInv
    BY DEF IInv
  <2> QED
    BY <1>1, <2>1, DiskFrame, ProofsFrame
<1>16. FilesInv(r)'
  BY <1>1, <1>8, FilesKept
<1> QED
  BY <1>7, <1>8, <1>9, <1>10, <1>11, <1>12, <1>14, <1>15, <1>16, OneRun DEF RunInv

(* A step that only moves r on, and may save or answer a proof.            *)
LEMMA MoveIInv ==
  ASSUME IInv, NEW r \in Runs, NEW to \in Ended \ {"load"},
         pc' = [pc EXCEPT ![r] = to], pc[r] \notin {"panicked"},
         UNCHANGED <<nodeVars, job, args, diskVars, nativeVars, loadVars,
                     historyVars>>,
         ProofFilesInv', DOMAIN proof_files' \subseteq Numbers \X Numbers,
         to \in AfterNative =>
           /\ pc[r] \in {"native"} \cup AfterNative
           /\ writing[r] = NoKey
           /\ to \in Submitted => job[r].host = "server"
           /\ ~job[r].use_cache => Provable(BootInfo(r))
           /\ to = "list" => pc[r] = "native" /\ pending[r] = {}
           /\ to # "list" =>
                /\ pc[r] \in AfterNative
                /\ ~job[r].use_cache => Needed(r) \subseteq cache[r]
                /\ \A q \in earlier[r] : Needed(q) \subseteq cache[r]
  PROVE  IInv'
<1>1. /\ UNCHANGED <<l2, reorgs, l1, job, args>> /\ UNCHANGED diskVars
      /\ UNCHANGED <<directories, whole, partial>> /\ UNCHANGED <<pending, writing>>
      /\ UNCHANGED <<listed, cache, damaged>>
      /\ UNCHANGED <<reached, alone, earlier>>
  BY DEF nodeVars, diskVars, nativeVars, loadVars, historyVars
<1>2. /\ pc'[r] = to /\ \A q \in Runs \ {r} : pc'[q] = pc[q]
      /\ pc' \in [Runs -> Stages]
  BY DEF IInv, TypeOK, Stages, Ended, AfterNative, Submitted
<1>3. TypeOK'
  BY <1>1, <1>2 DEF IInv, TypeOK
<1>4. StepOf(r)
  BY <1>1, <1>2, DiskFrame DEF StepOf, Private
<1>5. LocalInv(r) /\ StoreInv(r) /\ RootsInv(r) /\ AloneInv(r)
  BY DEF IInv, RunInv
<1>6. /\ SafeHead(r)' = SafeHead(r) /\ BootInfo(r)' = BootInfo(r)
      /\ Target(r)' = Target(r)
      /\ \A q \in Runs : Needed(q)' = Needed(q)
      /\ \A q : Present(q)' = Present(q)
      /\ Provable(BootInfo(r))' <=> Provable(BootInfo(r))
  <2>1. \A q \in Runs : Needed(q)' = Needed(q)
    BY <1>1, ArgsOf
  <2>2. BootInfo(r)' = BootInfo(r)
    BY <1>1, ArgsOf
  <2> QED
    BY <1>1, <2>1, <2>2, ArgsOf, DiskFrame DEF Provable, RootOf
<1>7. /\ to \notin Before /\ to \notin Reading /\ to # "native"
      /\ to \in {"panicked", "failed", "hostPanicked"} \/ to \in AfterNative
  BY DEF Ended, Before, Reading, AfterNative, Submitted
<1>8. LocalInv(r)'
  <2>1. to = "list" => damaged[r] = {}
    BY <1>5, <1>7 DEF LocalInv, AfterNative, Submitted
  <2>2. to \in AfterNative =>
          \E f \in Forks : args[r].output_block = L2Block[f][SafeHead(r)]
    BY <1>5, <1>7 DEF LocalInv, AfterNative, Submitted
  <2>3. to \in Submitted => to \in AfterNative
    BY DEF AfterNative
  <2> QED
    BY <1>1, <1>2, <1>5, <1>6, <1>7, <2>1, <2>2, <2>3 DEF LocalInv, IsFirst
<1>9. StoreInv(r)'
  <2>1. pc'[r] = "list" /\ ~job[r].use_cache => Needed(r) \subseteq Present(r)
    BY <1>2, <1>5, <1>7 DEF StoreInv, AfterNative, Submitted
  <2>2. Loaded(r)' => to \in AfterNative \ {"list"}
    BY <1>2 DEF Loaded, AfterNative, Submitted
  <2> QED
    BY <1>1, <1>2, <1>6, <1>7, <2>1, <2>2 DEF StoreInv
<1>10. RootsInv(r)'
  <2>1. to \in AfterNative =>
          pc[r] \notin Before \cup {"panicked", "failed", "hostPanicked"}
    BY DEF AfterNative, Before, Reading, Submitted
  <2> QED
    BY <1>1, <1>2, <1>5, <1>6, <1>7, <2>1 DEF RootsInv, Past, Before, Reading
<1>11. ASSUME NEW q \in Runs PROVE EarlierInv(q, r)'
  <2> SUFFICES ASSUME q \in earlier[r] PROVE EarlierInv(q, r)'
    BY <1>1 DEF EarlierInv
  <2>1. SameRange(q, r) /\ Left(q)
    BY DEF IInv, EarlierInv
  <2>2. SameRange(q, r)' /\ Left(q)'
    BY <1>1, <1>4, <2>1, JobOf, LeftStays
  <2>3. Loaded(r)' => to \in AfterNative \ {"list"}
    BY <1>2 DEF Loaded, AfterNative, Submitted
  <2> QED
    BY <1>1, <1>2, <1>6, <2>2, <2>3 DEF EarlierInv
<1>12. AloneInv(r)'
  <2>1. \A q \in Runs : SameRange(q, r)' <=> SameRange(q, r)
    BY <1>1, JobOf
  <2>2. pc'[r] \in {"native", "list", "load"} => pc[r] = "native"
    BY <1>2, <1>7 DEF AfterNative, Submitted
  <2>3. pc[r] = "native" => damaged[r] = {}
    BY <1>5 DEF LocalInv
  <2>4. pc'[r] \in AfterNative => pc[r] \in {"native"} \cup AfterNative
    BY <1>2
  <2> QED
    BY <1>1, <1>5, <2>1, <2>2, <2>3, <2>4 DEF AloneInv
<1>13. \A q \in Runs : AloneInv(q)'
  BY <1>1, <1>4, <1>12, AloneKept
<1>14. OwnerInv'
  BY <1>1, DiskFrame DEF IInv
<1>15. FilesInv(r)'
  BY <1>1, <1>4, FilesKept
<1> QED
  BY <1>3, <1>4, <1>8, <1>9, <1>10, <1>11, <1>13, <1>14, <1>15, OneRun DEF RunInv

LEMMA NativeEndIInv == ASSUME IInv, NEW r \in Runs, NativeEnd(r) PROVE IInv'
<1>1. /\ pc[r] = "native" /\ pc' = [pc EXCEPT ![r] = "list"]
      /\ UNCHANGED <<nodeVars, job, args, diskVars, nativeVars, loadVars,
                     historyVars>>
      /\ UNCHANGED proofVars /\ NativeComplete(r)
  BY DEF NativeEnd, Goto
<1>2. ProofFilesInv' /\ DOMAIN proof_files' \subseteq Numbers \X Numbers
  BY <1>1, ProofsFrame DEF proofVars, IInv, TypeOK
<1> QED
  BY <1>1, <1>2, MoveIInv DEF NativeComplete, Ended, AfterNative, Submitted

LEMMA LoadEndIInv == ASSUME IInv, NEW r \in Runs, LoadEnd(r) PROVE IInv'
<1>1. /\ pc[r] = "load" /\ pc' = [pc EXCEPT ![r] = "stdin"]
      /\ UNCHANGED <<nodeVars, job, args, diskVars, nativeVars, loadVars,
                     historyVars>>
      /\ UNCHANGED proofVars /\ listed[r] \subseteq cache[r]
  BY DEF LoadEnd, Goto
<1>2. ProofFilesInv' /\ DOMAIN proof_files' \subseteq Numbers \X Numbers
  BY <1>1, ProofsFrame DEF proofVars, IInv, TypeOK
<1>3. LocalInv(r) /\ StoreInv(r) /\ \A q \in Runs : EarlierInv(q, r)
  BY DEF IInv, RunInv
<1>4. earlier[r] \subseteq Runs
  BY DEF IInv, TypeOK
<1>5. /\ writing[r] = NoKey
      /\ ~job[r].use_cache => Provable(BootInfo(r))
      /\ ~job[r].use_cache => Needed(r) \subseteq cache[r]
      /\ \A q \in earlier[r] : Needed(q) \subseteq cache[r]
  BY <1>1, <1>3, <1>4 DEF LocalInv, StoreInv, EarlierInv, AfterNative
<1> QED
  BY <1>1, <1>2, <1>5, MoveIInv DEF Ended, AfterNative, Submitted

(* What a run with a loaded store brings along. *)
LEMMA LoadedRun ==
  ASSUME IInv, NEW r \in Runs, Loaded(r)
  PROVE  /\ pc[r] \in AfterNative /\ writing[r] = NoKey
         /\ pc[r] \in Submitted => job[r].host = "server"
         /\ ~job[r].use_cache => Provable(BootInfo(r))
         /\ ~job[r].use_cache => Needed(r) \subseteq cache[r]
         /\ \A q \in earlier[r] : Needed(q) \subseteq cache[r]
<1>1. LocalInv(r) /\ StoreInv(r) /\ \A q \in Runs : EarlierInv(q, r)
  BY DEF IInv, RunInv
<1>2. earlier[r] \subseteq Runs
  BY DEF IInv, TypeOK
<1>3. pc[r] \in AfterNative
  BY DEF Loaded, AfterNative, Submitted
<1> QED
  BY <1>1, <1>2, <1>3 DEF LocalInv, StoreInv, EarlierInv

(* The root a run starts from is that of its range, if it can be proved:   *)
(* its block is of the safe head's number, and a block has one number.     *)
LEMMA ProvableOfRange ==
  ASSUME IInv, NEW r \in Runs, pc[r] \in AfterNative, Provable(BootInfo(r)),
         job[r].host # "single"
  PROVE  /\ BootInfo(r).l2_claim_block = job[r].end
         /\ BootInfo(r).l2_output_root = RootOf(Derived, job[r].start)
<1>1. PICK f \in Forks : args[r].output_block = L2Block[f][SafeHead(r)]
  BY DEF IInv, RunInv, LocalInv, AfterNative, Submitted
<1>2. BootInfo(r).l2_output_root = <<args[r].output_block, args[r].output_storage>>
  BY DEF BootInfo
<1>3. PICK n \in Numbers : BootInfo(r).l2_output_root = RootOf(Derived, n)
  BY DEF Provable
<1>4. L2Block[f][SafeHead(r)] = L2Block[Derived][n]
  BY <1>1, <1>2, <1>3 DEF RootOf
<1>5. SafeHead(r) = job[r].start /\ job[r].start \in Numbers
  BY JobTypes DEF SafeHead, IInv
<1>6. job[r].start = n
  BY <1>4, <1>5, HostAssumption
<1> QED
  BY <1>3, <1>6 DEF BootInfo

LEMMA SaveProof ==
  ASSUME IInv, NEW r \in Runs, pc[r] \in AfterNative, Provable(BootInfo(r)),
         job[r].host # "single", Save(r), UNCHANGED status_proofs
  PROVE  ProofFilesInv' /\ DOMAIN proof_files' \subseteq Numbers \X Numbers
<1>1. /\ BootInfo(r).l2_claim_block = job[r].end
      /\ BootInfo(r).l2_output_root = RootOf(Derived, job[r].start)
  BY ProvableOfRange
<1>2. ProofFile(r) = <<job[r].start, job[r].end>>
      /\ ProofFile(r) \in Numbers \X Numbers
  BY JobTypes DEF ProofFile, IInv
<1>3. /\ DOMAIN proof_files' = DOMAIN proof_files \cup {ProofFile(r)}
      /\ \A f \in DOMAIN proof_files' :
           proof_files'[f] = IF f = ProofFile(r) THEN BootInfo(r) ELSE proof_files[f]
  BY DEF Save
<1>4. ProofFilesInv
  BY DEF IInv
<1>5. ASSUME NEW f \in DOMAIN proof_files'
      PROVE  /\ Provable(proof_files'[f])
             /\ proof_files'[f].l2_claim_block = f[2]
             /\ proof_files'[f].l2_output_root = RootOf(Derived, f[1])
  <2>1. CASE f = ProofFile(r)
    BY <1>1, <1>2, <1>3, <2>1
  <2>2. CASE f # ProofFile(r)
    BY <1>3, <1>4, <2>2 DEF ProofFilesInv
  <2> QED
    BY <2>1, <2>2
<1>6. ProofFilesInv'
  BY <1>4, <1>5 DEF ProofFilesInv, Provable, RootOf
<1> QED
  BY <1>2, <1>3, <1>6 DEF IInv, TypeOK

LEMMA RequestProofIInv == ASSUME IInv, NEW r \in Runs, RequestProof(r) PROVE IInv'
<1>1. /\ pc[r] = "stdin" /\ pc' = [pc EXCEPT ![r] = "requested"]
      /\ job[r].host = "server"
      /\ UNCHANGED <<nodeVars, job, args, diskVars, nativeVars, loadVars,
                     historyVars>>
      /\ UNCHANGED proofVars
  BY DEF RequestProof, Goto
<1>2. ProofFilesInv' /\ DOMAIN proof_files' \subseteq Numbers \X Numbers
  BY <1>1, ProofsFrame DEF proofVars, IInv, TypeOK
<1>3. Loaded(r)
  BY <1>1 DEF Loaded
<1> QED
  BY <1>1, <1>2, <1>3, LoadedRun, MoveIInv DEF Ended, AfterNative, Submitted

LEMMA RunLocallyIInv == ASSUME IInv, NEW r \in Runs, RunLocally(r) PROVE IInv'
<1>1. /\ pc[r] = "stdin" /\ pc' = [pc EXCEPT ![r] = "done"]
      /\ UNCHANGED <<nodeVars, job, args, diskVars, nativeVars, loadVars,
                     historyVars>>
      /\ UNCHANGED status_proofs /\ Accepted(r)
      /\ \/ job[r].host = "multi" /\ Save(r)
         \/ UNCHANGED proof_files
  BY DEF RunLocally, Goto
<1>2. Loaded(r)
  BY <1>1 DEF Loaded
<1>3. ProofFilesInv' /\ DOMAIN proof_files' \subseteq Numbers \X Numbers
  <2>1. CASE job[r].host = "multi" /\ Save(r)
    BY <1>1, <1>2, <2>1, LoadedRun, SaveProof DEF Accepted
  <2>2. CASE UNCHANGED proof_files
    BY <1>1, <2>2, ProofsFrame DEF proofVars, IInv, TypeOK
  <2> QED
    BY <1>1, <2>1, <2>2
<1> QED
  BY <1>1, <1>2, <1>3, LoadedRun, MoveIInv DEF Ended, AfterNative, Submitted

LEMMA NetworkIInv ==
  ASSUME IInv, NEW r \in Runs, NetworkProves(r) \/ NetworkGivesUp(r) PROVE IInv'
<1> PICK to \in {"fulfilled", "unfulfillable"} : pc' = [pc EXCEPT ![r] = to]
  BY DEF NetworkProves, NetworkGivesUp, Goto
<1>1. /\ pc[r] = "requested"
      /\ UNCHANGED <<nodeVars, job, args, diskVars, nativeVars, loadVars,
                     historyVars>>
      /\ UNCHANGED proofVars
  BY DEF NetworkProves, NetworkGivesUp, Goto
<1>2. ProofFilesInv' /\ DOMAIN proof_files' \subseteq Numbers \X Numbers
  BY <1>1, ProofsFrame DEF proofVars, IInv, TypeOK
<1>3. Loaded(r)
  BY <1>1 DEF Loaded
<1> QED
  BY <1>1, <1>2, <1>3, LoadedRun, MoveIInv DEF Ended, AfterNative, Submitted

(* A fulfilled proof is polled for, or fetched and saved. *)
LEMMA FulfilledIInv ==
  ASSUME IInv, NEW r \in Runs, GetProofStatus(r) \/ FetchAndSaveProof(r) PROVE IInv'
<1>1. /\ pc[r] = "fulfilled" /\ UNCHANGED pc
      /\ UNCHANGED <<nodeVars, job, args, diskVars, nativeVars, loadVars,
                     historyVars>>
  BY DEF GetProofStatus, FetchAndSaveProof
<1>2. pc' = [pc EXCEPT ![r] = "fulfilled"]
  BY <1>1 DEF IInv, TypeOK
<1>3. Loaded(r)
  BY <1>1 DEF Loaded
<1>4. job[r].host = "server" /\ ~job[r].use_cache
  BY <1>1, <1>3, LoadedRun, JobTypes DEF Submitted, IInv
<1>5. Provable(BootInfo(r)) /\ pc[r] \in AfterNative
  BY <1>3, <1>4, LoadedRun
<1>6. ProofFilesInv' /\ DOMAIN proof_files' \subseteq Numbers \X Numbers
  <2>1. CASE GetProofStatus(r)
    <3>1. UNCHANGED proof_files /\ status_proofs' = status_proofs \cup {BootInfo(r)}
      BY <2>1 DEF GetProofStatus
    <3>2. ProofFilesInv /\ DOMAIN proof_files \subseteq Numbers \X Numbers
      BY DEF IInv, TypeOK
    <3>3. \A info \in status_proofs' : Provable(info)
      BY <1>5, <3>1, <3>2 DEF ProofFilesInv
    <3> QED
      BY <3>1, <3>2, <3>3 DEF ProofFilesInv, Provable, RootOf
  <2>2. CASE FetchAndSaveProof(r)
    BY <1>4, <1>5, <2>2, SaveProof DEF FetchAndSaveProof
  <2> QED
    BY <2>1, <2>2
<1> QED
  BY <1>1, <1>2, <1>3, <1>6, LoadedRun, MoveIInv DEF Ended, AfterNative, Submitted

LEMMA StopIInv ==
  ASSUME IInv, NEW r \in Runs, Panic(r) \/ Fail(r) \/ FailUnwrapped(r) PROVE IInv'
<1> PICK to \in {"panicked", "failed", "hostPanicked"} : pc' = [pc EXCEPT ![r] = to]
  BY DEF Panic, Fail, FailUnwrapped
<1>1. /\ pc[r] # "panicked"
      /\ UNCHANGED <<nodeVars, job, args, diskVars, nativeVars, loadVars,
                     historyVars>>
      /\ UNCHANGED proofVars
  BY DEF Panic, Fail, FailUnwrapped
<1>2. ProofFilesInv' /\ DOMAIN proof_files' \subseteq Numbers \X Numbers
  BY <1>1, ProofsFrame DEF proofVars, IInv, TypeOK
<1>3. to \notin AfterNative /\ to \in Ended \ {"load"}
  BY DEF Ended, AfterNative, Submitted
<1> QED
  BY <1>1, <1>2, <1>3, MoveIInv

-----------------------------------------------------------------------------
(* The directory, the native run and the loading of the store. *)
LEMMA DoneLeft ==
  ASSUME IInv, NEW q \in Runs, NativeDone(q) PROVE Left(q)
<1>1. /\ LocalInv(q) /\ StoreInv(q) /\ RootsInv(q) /\ FilesInv(q)
      /\ pc[q] \in AfterNative /\ ~job[q].use_cache
  BY DEF IInv, RunInv, NativeDone, AfterNative, Submitted
<1>2. Needed(q) \subseteq Present(q) /\ Provable(BootInfo(q))
  BY <1>1 DEF StoreInv, FilesInv, Loaded, AfterNative, Submitted
<1>3. pc[q] \notin Before \cup {"native", "panicked", "failed", "hostPanicked"}
  BY <1>1 DEF Before, Reading, AfterNative, Submitted
<1>4. ASSUME reorgs = 0
      PROVE  /\ BootInfo(q).l2_output_root = RootOf(l2, SafeHead(q))
             /\ BootInfo(q).l2_claim = RootOf(l2, job[q].end)
  BY <1>1, <1>3, <1>4 DEF RootsInv, Past, BootInfo, RootOf, Before, Reading
<1> QED
  BY <1>2, <1>3, <1>4 DEF Left

LEMMA CreateDirectoryIInv ==
  ASSUME IInv, NEW r \in Runs, CreateDirectory(r) PROVE IInv'
<1> DEFINE to == IF job[r].use_cache THEN "list" ELSE "native"
           todo == IF job[r].use_cache THEN {} ELSE Needed(r)
           single == \A q \in Runs \ {r} : SameRange(q, r) => writing[q] = NoKey
           done == {q \in Runs \ {r} : SameRange(q, r) /\ NativeDone(q)}
<1>1. /\ pc[r] = "directory" /\ pc' = [pc EXCEPT ![r] = to]
      /\ directories' = directories \cup {DataDir(r)}
      /\ pending' = [pending EXCEPT ![r] = todo]
      /\ alone' = [alone EXCEPT ![r] = single]
      /\ earlier' = [earlier EXCEPT ![r] = done]
      /\ UNCHANGED <<l2, reorgs, l1, job, args>> /\ UNCHANGED <<whole, partial>>
      /\ UNCHANGED writing /\ UNCHANGED <<listed, cache, damaged>>
      /\ UNCHANGED proofVars /\ UNCHANGED <<proof_files, status_proofs>>
      /\ UNCHANGED reached
  BY DEF CreateDirectory, Goto, nodeVars, loadVars, proofVars
<1>2. todo \subseteq Keys /\ DataDir(r) \in Dirs /\ single \in BOOLEAN
  BY KeyTypes DEF IInv
<1>3. /\ to \in {"list", "native"} /\ done \subseteq Runs
      /\ to = "list" => job[r].use_cache
      /\ to = "native" => todo = Needed(r) /\ ~job[r].use_cache
  OBVIOUS
<1>4. \A q \in done : SameRange(q, r) /\ Left(q)
  BY DoneLeft
<1> HIDE DEF to, todo, done
<1>5. /\ pc'[r] = to /\ pending'[r] = todo /\ alone'[r] = single
      /\ earlier'[r] = done
      /\ \A q \in Runs \ {r} :
           /\ pc'[q] = pc[q] /\ pending'[q] = pending[q]
           /\ alone'[q] = alone[q] /\ earlier'[q] = earlier[q]
  BY <1>1 DEF IInv, TypeOK
<1>6. TypeOK'
  <2>1. pc' \in [Runs -> Stages]
    BY <1>1, <1>3 DEF IInv, TypeOK, Stages
  <2>2. pending' \in [Runs -> SUBSET Keys]
    BY <1>1, <1>2 DEF IInv, TypeOK
  <2>3. alone' \in [Runs -> BOOLEAN]
    BY <1>1, <1>2 DEF IInv, TypeOK
  <2>4. earlier' \in [Runs -> SUBSET Runs]
    BY <1>1, <1>3 DEF IInv, TypeOK
  <2>5. directories' \subseteq Dirs
    BY <1>1, <1>2 DEF IInv, TypeOK
  <2> QED
    BY <1>1, <2>1, <2>2, <2>3, <2>4, <2>5 DEF IInv, TypeOK
<1>7. /\ \A q : Present(q)' = Present(q)
      /\ OwnerInv'
  BY <1>1, JobOf DEF Present, OwnerInv, IInv
<1>8. StepOf(r)
  BY <1>1, <1>5, <1>7 DEF StepOf, Private, Ended, AfterNative, Submitted
<1>9. /\ SafeHead(r)' = SafeHead(r) /\ BootInfo(r)' = BootInfo(r)
      /\ Needed(r)' = Needed(r) /\ Target(r)' = Target(r)
  BY <1>1, ArgsOf
<1>10. LocalInv(r) /\ RootsInv(r)
  BY DEF IInv, RunInv
<1>11. LocalInv(r)'
  BY <1>1, <1>3, <1>5, <1>9, <1>10
  DEF LocalInv, IsFirst, Before, Reading, AfterNative, Submitted
<1>12. StoreInv(r)'
  BY <1>1, <1>3, <1>5, <1>9 DEF StoreInv, Loaded, AfterNative, Submitted
<1>13. RootsInv(r)'
  BY <1>1, <1>3, <1>5, <1>9, <1>10 DEF RootsInv, Past
<1>14. FilesInv(r)'
  BY <1>1, <1>8, FilesKept
<1>15. ASSUME NEW q \in Runs PROVE EarlierInv(q, r)'
  <2> SUFFICES ASSUME q \in done PROVE EarlierInv(q, r)'
    BY <1>5 DEF EarlierInv
  <2>1. SameRange(q, r)' /\ Left(q)'
    BY <1>1, <1>4, <1>8, JobOf, LeftStays
  <2> QED
    BY <1>3, <1>5, <2>1 DEF EarlierInv, Loaded
<1>16. AloneInv(r)'
  <2>1. \A q \in Runs : SameRange(q, r)' <=> SameRange(q, r)
    BY <1>1, JobOf
  <2>2. damaged[r] = {}
    BY <1>1, <1>10 DEF LocalInv, Before
  <2> QED
    BY <1>1, <1>5, <2>1, <2>2 DEF AloneInv
<1>17. \A q \in Runs : AloneInv(q)'
  BY <1>1, <1>5, <1>8, <1>16, AloneKept
<1>18. ProofFilesInv'
  BY <1>1, ProofsFrame
<1> QED
  BY <1>6, <1>7, <1>8, <1>11, <1>12, <1>13, <1>14, <1>15, <1>17, <1>18, OneRun
  DEF RunInv

(* A step of the native run, which stays in it, loses no file.             *)
LEMMA NativeStep ==
  ASSUME IInv, NEW r \in Runs, pc[r] = "native",
         UNCHANGED <<nodeVars, job, pc, args, directories, loadVars, proofVars,
                     reached, earlier>>,
         NEW k \in Keys \cup {NoKey}, writing' = [writing EXCEPT ![r] = k],
         NEW todo, todo \subseteq pending[r], pending' = [pending EXCEPT ![r] = todo],
         whole' \subseteq Dirs \X Keys, partial' \subseteq Dirs \X Keys,
         whole \cup partial \subseteq whole' \cup partial',
         pending[r] \subseteq todo \cup Present(r)',
         alone' \in [Runs -> BOOLEAN]
  PROVE  /\ StepOf(r)
         /\ OwnerInv' /\ (\A q \in Runs : AloneInv(q)') => IInv'
<1>1. /\ UNCHANGED <<l2, reorgs, l1, job, pc, args, directories>>
      /\ UNCHANGED <<listed, cache, damaged>> /\ UNCHANGED <<reached, earlier>>
      /\ UNCHANGED <<proof_files, status_proofs>> /\ UNCHANGED proofVars
  BY DEF nodeVars, loadVars, proofVars
<1>2. /\ writing'[r] = k /\ pending'[r] = todo
      /\ \A q \in Runs \ {r} : writing'[q] = writing[q] /\ pending'[q] = pending[q]
  BY DEF IInv, TypeOK
<1>3. \A q \in Runs : Present(q) \subseteq Present(q)'
  <2>1. \A q \in Runs : \A j : File(q, j)' = File(q, j)
    BY <1>1, JobOf
  <2> QED
    BY <2>1 DEF Present
<1>4. StepOf(r)
  BY <1>1, <1>2, <1>3 DEF StepOf, Private, Ended, AfterNative, Submitted
<1>5. TypeOK'
  <2>1. todo \subseteq Keys
    BY DEF IInv, TypeOK
  <2>2. pending' \in [Runs -> SUBSET Keys]
    BY <2>1 DEF IInv, TypeOK
  <2>3. writing' \in [Runs -> Keys \cup {NoKey}]
    BY DEF IInv, TypeOK
  <2> QED
    BY <1>1, <2>2, <2>3 DEF IInv, TypeOK
<1>6. /\ SafeHead(r)' = SafeHead(r) /\ BootInfo(r)' = BootInfo(r)
      /\ Needed(r)' = Needed(r) /\ Target(r)' = Target(r)
  BY <1>1, ArgsOf
<1>7. LocalInv(r) /\ StoreInv(r) /\ RootsInv(r)
  BY DEF IInv, RunInv
<1>8. LocalInv(r)'
  BY <1>1, <1>6, <1>7 DEF LocalInv, IsFirst, Before, Reading, AfterNative, Submitted
<1>9. StoreInv(r)'
  <2>1. ~job[r].use_cache => Needed(r) \subseteq pending[r] \cup Present(r)
    BY <1>7 DEF StoreInv
  <2>2. ~job[r].use_cache => Needed(r) \subseteq todo \cup Present(r)'
    BY <1>3, <2>1
  <2> QED
    BY <1>1, <1>2, <1>6, <2>2 DEF StoreInv, Loaded, AfterNative, Submitted
<1>10. RootsInv(r)'
  BY <1>1, <1>6, <1>7 DEF RootsInv, Past
<1>11. FilesInv(r)'
  BY <1>1, <1>4, FilesKept
<1>12. ASSUME NEW q \in Runs PROVE EarlierInv(q, r)'
  <2> SUFFICES ASSUME q \in earlier[r] PROVE EarlierInv(q, r)'
    BY <1>1 DEF EarlierInv
  <2>1. SameRange(q, r) /\ Left(q)
    BY DEF IInv, EarlierInv
  <2>2. SameRange(q, r)' /\ Left(q)'
    BY <1>1, <1>4, <2>1, JobOf, LeftStays
  <2> QED
    BY <1>1, <2>2 DEF EarlierInv, Loaded
<1>13. ProofFilesInv'
  BY <1>1, ProofsFrame
<1> QED
  BY <1>4, <1>5, <1>8, <1>9, <1>10, <1>11, <1>12, <1>13, OneRun DEF RunInv

LEMMA BeginWriteIInv ==
  ASSUME IInv, NEW r \in Runs, NEW k \in Keys, BeginWrite(r, k) PROVE IInv'
<1>1. /\ pc[r] = "native" /\ writing[r] = NoKey /\ k \in pending[r]
      /\ partial' = partial \cup {File(r, k)} /\ whole' = whole \ {File(r, k)}
      /\ writing' = [writing EXCEPT ![r] = k]
      /\ alone' = [q \in Runs |->
           alone[q] /\ ~(q # r /\ SameRange(q, r) /\ pc[q] \in {"native", "list", "load"})]
      /\ UNCHANGED <<nodeVars, job, pc, args, directories, loadVars, proofVars,
                     reached, earlier>>
      /\ UNCHANGED <<job, pc, damaged>> /\ UNCHANGED pending
  BY DEF BeginWrite, loadVars
<1>2. /\ pending' = [pending EXCEPT ![r] = pending[r]]
      /\ File(r, k) \in Dirs \X Keys
      /\ whole' \subseteq Dirs \X Keys /\ partial' \subseteq Dirs \X Keys
  BY <1>1, KeyTypes DEF IInv, TypeOK
<1>3. /\ alone' \in [Runs -> BOOLEAN]
      /\ whole \cup partial \subseteq whole' \cup partial'
      /\ k \in Keys \cup {NoKey}
  BY <1>1 DEF IInv, TypeOK
<1>4. /\ StepOf(r)
      /\ OwnerInv' /\ (\A q \in Runs : AloneInv(q)') => IInv'
  BY <1>1, <1>2, <1>3, NativeStep
<1>5. /\ writing'[r] = k /\ k # NoKey
      /\ \A q \in Runs \ {r} : writing'[q] = writing[q]
  BY <1>1, HostAssumption DEF IInv, TypeOK
<1>6. OwnerInv'
  <2> SUFFICES ASSUME NEW f \in partial'
               PROVE  \E q \in Runs : writing'[q] # NoKey /\ f = File(q, writing'[q])
    BY <1>1, JobOf DEF OwnerInv
  <2>1. CASE f = File(r, k)
    BY <1>5, <2>1
  <2>2. CASE f # File(r, k)
    <3>1. PICK q \in Runs : writing[q] # NoKey /\ f = File(q, writing[q])
      BY <1>1, <2>2 DEF IInv, OwnerInv
    <3> QED
      BY <1>1, <1>5, <3>1
  <2> QED
    BY <2>1, <2>2
<1>7. ASSUME NEW q \in Runs PROVE AloneInv(q)'
  <2> SUFFICES ASSUME alone'[q] PROVE AloneInv(q)'
    BY DEF AloneInv
  <2>1. /\ AloneInv(q) /\ alone[q]
        /\ ~(q # r /\ SameRange(q, r) /\ pc[q] \in {"native", "list", "load"})
    BY <1>1 DEF IInv
  <2>2. SameRange(q, r) <=> SameRange(r, q)
    BY DEF SameRange
  <2>3. \A s \in Runs : SameRange(s, q)' <=> SameRange(s, q)
    BY <1>1, JobOf
  <2>4. \A s \in Runs \ {q} :
          SameRange(s, q) /\ pc[q] \in {"native", "list", "load"} => writing'[s] = NoKey
    BY <1>5, <2>1, <2>2 DEF AloneInv
  <2> QED
    BY <1>1, <2>1, <2>3, <2>4 DEF AloneInv
<1> QED
  BY <1>4, <1>6, <1>7

LEMMA EndWriteIInv == ASSUME IInv, NEW r \in Runs, EndWrite(r) PROVE IInv'
<1> PICK w \in Keys : w = writing[r] /\ w # NoKey
  BY DEF EndWrite, IInv, TypeOK
<1>1. /\ pc[r] = "native"
      /\ whole' = whole \cup {File(r, w)} /\ partial' = partial \ {File(r, w)}
      /\ writing' = [writing EXCEPT ![r] = NoKey]
      /\ pending' = [pending EXCEPT ![r] = pending[r] \ {w}]
      /\ UNCHANGED <<nodeVars, job, pc, args, directories, loadVars, proofVars,
                     reached, earlier>>
      /\ UNCHANGED <<job, pc, damaged>> /\ UNCHANGED alone
  BY DEF EndWrite, loadVars, historyVars
<1>2. pending[r] \subseteq Keys
  BY DEF IInv, TypeOK
<1>3. /\ whole' \subseteq Dirs \X Keys /\ partial' \subseteq Dirs \X Keys
      /\ whole \cup partial \subseteq whole' \cup partial'
      /\ alone' \in [Runs -> BOOLEAN]
  BY <1>1, <1>2, KeyTypes DEF IInv, TypeOK
<1>4. pending[r] \subseteq (pending[r] \ {w}) \cup Present(r)'
  <2>1. \A k : File(r, k)' = File(r, k)
    BY <1>1, JobOf
  <2>2. {k \in Keys : File(r, k) \in whole'} \subseteq Present(r)'
    BY <2>1 DEF Present
  <2> QED
    BY <1>1, <1>2, <2>2
<1>5. NoKey \in Keys \cup {NoKey} /\ pending[r] \ {w} \subseteq pending[r]
  OBVIOUS
<1>6. /\ StepOf(r)
      /\ OwnerInv' /\ (\A q \in Runs : AloneInv(q)') => IInv'
  BY <1>1, <1>3, <1>4, <1>5, NativeStep
<1>7. /\ writing'[r] = NoKey
      /\ \A q \in Runs \ {r} : writing'[q] = writing[q]
  BY <1>1 DEF IInv, TypeOK
<1>8. OwnerInv'
  <2> SUFFICES ASSUME NEW f \in partial'
               PROVE  \E q \in Runs : writing'[q] # NoKey /\ f = File(q, writing'[q])
    BY <1>1, JobOf DEF OwnerInv
  <2>1. f # File(r, w)
    BY <1>1
  <2>2. PICK q \in Runs : writing[q] # NoKey /\ f = File(q, writing[q])
    BY <1>1 DEF IInv, OwnerInv
  <2>3. q # r
    BY <2>1, <2>2
  <2> QED
    BY <1>7, <2>2, <2>3
<1>9. AloneInv(r)'
  <2>1. \A q \in Runs : SameRange(q, r)' <=> SameRange(q, r)
    BY <1>1, JobOf
  <2> QED
    BY <1>1, <1>7, <2>1 DEF AloneInv, IInv
<1>10. \A q \in Runs : AloneInv(q)'
  BY <1>1, <1>6, <1>7, <1>9, AloneKept
<1> QED
  BY <1>6, <1>8, <1>10

LEMMA FindFileIInv ==
  ASSUME IInv, NEW r \in Runs, NEW k \in Keys, FindFile(r, k) PROVE IInv'
<1>1. /\ pc[r] = "native" /\ writing[r] = NoKey /\ File(r, k) \in whole
      /\ pending' = [pending EXCEPT ![r] = pending[r] \ {k}]
      /\ UNCHANGED <<nodeVars, job, pc, args, directories, loadVars, proofVars,
                     reached, earlier>>
      /\ UNCHANGED <<job, pc, damaged>> /\ UNCHANGED <<whole, partial>>
      /\ UNCHANGED diskVars /\ UNCHANGED <<writing, alone>>
  BY DEF FindFile, loadVars, diskVars, historyVars
<1>2. /\ writing' = [writing EXCEPT ![r] = NoKey] /\ NoKey \in Keys \cup {NoKey}
      /\ whole' \subseteq Dirs \X Keys /\ partial' \subseteq Dirs \X Keys
      /\ alone' \in [Runs -> BOOLEAN]
      /\ whole \cup partial \subseteq whole' \cup partial'
      /\ pending[r] \subseteq Keys /\ pending[r] \ {k} \subseteq pending[r]
  BY <1>1 DEF IInv, TypeOK
<1>3. pending[r] \subseteq (pending[r] \ {k}) \cup Present(r)'
  <2>1. File(r, k)' \in whole'
    BY <1>1, JobOf
  <2> QED
    BY <2>1 DEF Present
<1>4. /\ StepOf(r)
      /\ OwnerInv' /\ (\A q \in Runs : AloneInv(q)') => IInv'
  BY <1>1, <1>2, <1>3, NativeStep
<1>5. OwnerInv'
  BY <1>1, DiskFrame DEF IInv
<1>6. AloneInv(r)'
  <2>1. \A q \in Runs : SameRange(q, r)' <=> SameRange(q, r)
    BY <1>1, JobOf
  <2> QED
    BY <1>1, <2>1 DEF AloneInv, IInv
<1>7. \A q \in Runs : AloneInv(q)'
  BY <1>1, <1>4, <1>6, AloneKept
<1> QED
  BY <1>4, <1>5, <1>7

LEMMA ListFilesIInv == ASSUME IInv, NEW r \in Runs, ListFiles(r) PROVE IInv'
<1>1. /\ pc[r] = "list" /\ pc' = [pc EXCEPT ![r] = "load"]
      /\ listed' = [listed EXCEPT ![r] = Present(r)]
      /\ UNCHANGED <<l2, reorgs, l1, job, args>> /\ UNCHANGED diskVars
      /\ UNCHANGED <<directories, whole, partial>> /\ UNCHANGED <<pending, writing>>
      /\ UNCHANGED <<cache, damaged>> /\ UNCHANGED proofVars
      /\ UNCHANGED <<proof_files, status_proofs>>
      /\ UNCHANGED <<reached, alone, earlier>>
  BY DEF ListFiles, Goto, nodeVars, diskVars, nativeVars, proofVars, historyVars
<1>2. Present(r) \subseteq Keys
  BY DEF Present
<1>3. /\ pc'[r] = "load" /\ listed'[r] = Present(r)
      /\ \A q \in Runs \ {r} : pc'[q] = pc[q] /\ listed'[q] = listed[q]
  BY <1>1 DEF IInv, TypeOK
<1>4. TypeOK'
  <2>1. pc' \in [Runs -> Stages]
    BY <1>1 DEF IInv, TypeOK, Stages
  <2>2. listed' \in [Runs -> SUBSET Keys]
    BY <1>1, <1>2 DEF IInv, TypeOK
  <2> QED
    BY <1>1, <2>1, <2>2 DEF IInv, TypeOK
<1>5. /\ \A q : Present(q)' = Present(q)
      /\ OwnerInv'
  BY <1>1, DiskFrame DEF IInv
<1>6. StepOf(r)
  BY <1>1, <1>3, <1>5 DEF StepOf, Private, Ended, AfterNative, Submitted
<1>7. /\ SafeHead(r)' = SafeHead(r) /\ BootInfo(r)' = BootInfo(r)
      /\ Needed(r)' = Needed(r) /\ Target(r)' = Target(r)
  BY <1>1, ArgsOf
<1>8. LocalInv(r) /\ StoreInv(r) /\ RootsInv(r) /\ FilesInv(r)
  BY DEF IInv, RunInv
<1>9. LocalInv(r)'
  <2>1. writing[r] = NoKey
    BY <1>1, <1>8 DEF LocalInv, AfterNative
  <2> QED
    BY <1>1, <1>3, <1>7, <1>8, <2>1
    DEF LocalInv, IsFirst, Before, Reading, AfterNative, Submitted
<1>10. StoreInv(r)'
  <2>1. ~job[r].use_cache => Needed(r) \subseteq Present(r) /\ Provable(BootInfo(r))
    BY <1>1, <1>8 DEF StoreInv, AfterNative
  <2> QED
    BY <1>1, <1>3, <1>7, <2>1 DEF StoreInv, Provable, RootOf, Loaded
<1>11. RootsInv(r)'
  BY <1>1, <1>3, <1>7, <1>8 DEF RootsInv, Past
<1>12. FilesInv(r)'
  BY <1>1, <1>3, <1>5, <1>8 DEF FilesInv
<1>13. ASSUME NEW q \in Runs PROVE EarlierInv(q, r)'
  <2> SUFFICES ASSUME q \in earlier[r] PROVE EarlierInv(q, r)'
    BY <1>1 DEF EarlierInv
  <2>1. SameRange(q, r) /\ Left(q)
    BY DEF IInv, EarlierInv
  <2>2. SameRange(q, r)' /\ Left(q)'
    BY <1>1, <1>6, <2>1, JobOf, LeftStays
  <2>3. Present(q) = Present(r)
    BY <2>1, SameDirectory DEF IInv, Present, File
  <2>4. Needed(q)' \subseteq Present(r)
    BY <1>5, <2>2, <2>3 DEF Left
  <2> QED
    BY <1>3, <2>2, <2>4 DEF EarlierInv, Loaded
<1>14. AloneInv(r)'
  <2>1. \A q \in Runs : SameRange(q, r)' <=> SameRange(q, r)
    BY <1>1, JobOf
  <2>2. AloneInv(r)
    BY DEF IInv
  <2> QED
    BY <1>1, <1>3, <2>1, <2>2 DEF AloneInv, AfterNative
<1>15. \A q \in Runs : AloneInv(q)'
  BY <1>1, <1>6, <1>14, AloneKept
<1>16. ProofFilesInv'
  BY <1>1, ProofsFrame
<1> QED
  BY <1>4, <1>5, <1>6, <1>9, <1>10, <1>11, <1>12, <1>13, <1>15, <1>16, OneRun
  DEF RunInv

(* A file read half-written has a writer of the same range. *)
LEMMA AloneReadsWhole ==
  ASSUME IInv, NEW r \in Runs, pc[r] = "load", alone[r], NEW k
  PROVE  File(r, k) \notin partial
<1> SUFFICES ASSUME File(r, k) \in partial PROVE FALSE
  OBVIOUS
<1>1. PICK q \in Runs : writing[q] # NoKey /\ File(r, k) = File(q, writing[q])
  BY DEF IInv, OwnerInv
<1>2. DataDir(q) = DataDir(r)
  BY <1>1 DEF File
<1>3. SameRange(q, r)
  BY <1>2, SameDirectory DEF IInv
<1>4. LocalInv(r) /\ AloneInv(r)
  BY DEF IInv, RunInv
<1>5. writing[r] = NoKey
  BY <1>4 DEF LocalInv, AfterNative
<1> QED
  BY <1>1, <1>3, <1>4, <1>5 DEF AloneInv

LEMMA LoadFileIInv ==
  ASSUME IInv, NEW r \in Runs, NEW k \in Keys, LoadFile(r, k) PROVE IInv'
<1> DEFINE bad == IF File(r, k) \in partial THEN damaged[r] \cup {k} ELSE damaged[r]
<1>0. /\ damaged' = [damaged EXCEPT ![r] = bad]
      /\ bad \subseteq Keys
      /\ File(r, k) \notin partial => bad = damaged[r]
  BY DEF LoadFile, IInv, TypeOK
<1> HIDE DEF bad
<1>1. /\ pc[r] = "load" /\ k \in listed[r]
      /\ cache' = [cache EXCEPT ![r] = cache[r] \cup {k}]
      /\ UNCHANGED <<l2, reorgs, l1, job, pc, args>> /\ UNCHANGED diskVars
      /\ UNCHANGED <<directories, whole, partial>> /\ UNCHANGED <<pending, writing>>
      /\ UNCHANGED listed /\ UNCHANGED proofVars
      /\ UNCHANGED <<proof_files, status_proofs>>
      /\ UNCHANGED <<reached, alone, earlier>>
  BY DEF LoadFile, nodeVars, diskVars, nativeVars, proofVars, historyVars
<1>2. /\ cache'[r] = cache[r] \cup {k} /\ damaged'[r] = bad
      /\ \A q \in Runs \ {r} : cache'[q] = cache[q] /\ damaged'[q] = damaged[q]
  BY <1>0, <1>1 DEF IInv, TypeOK
<1>3. TypeOK'
  <2>1. cache' \in [Runs -> SUBSET Keys]
    BY <1>1 DEF IInv, TypeOK
  <2>2. damaged' \in [Runs -> SUBSET Keys]
    BY <1>0 DEF IInv, TypeOK
  <2> QED
    BY <1>1, <2>1, <2>2 DEF IInv, TypeOK
<1>4. /\ \A q : Present(q)' = Present(q)
      /\ OwnerInv'
  BY <1>1, DiskFrame DEF IInv
<1>5. StepOf(r)
  BY <1>1, <1>2, <1>4 DEF StepOf, Private
<1>6. /\ SafeHead(r)' = SafeHead(r) /\ BootInfo(r)' = BootInfo(r)
      /\ Needed(r)' = Needed(r) /\ Target(r)' = Target(r)
  BY <1>1, ArgsOf
<1>7. LocalInv(r) /\ StoreInv(r) /\ RootsInv(r) /\ FilesInv(r)
  BY DEF IInv, RunInv
<1>8. LocalInv(r)'
  BY <1>1, <1>2, <1>6, <1>7 DEF LocalInv, IsFirst, Before, Reading
<1>9. StoreInv(r)'
  BY <1>1, <1>6, <1>7 DEF StoreInv, Provable, RootOf, Loaded
<1>10. RootsInv(r)'
  BY <1>1, <1>6, <1>7 DEF RootsInv, Past
<1>11. FilesInv(r)'
  BY <1>1, <1>2, <1>4, <1>7 DEF FilesInv
<1>12. ASSUME NEW q \in Runs PROVE EarlierInv(q, r)'
  <2> SUFFICES ASSUME q \in earlier[r] PROVE EarlierInv(q, r)'
    BY <1>1 DEF EarlierInv
  <2>1. /\ SameRange(q, r) /\ Left(q)
        /\ Needed(q) \subseteq listed[r]
    BY <1>1 DEF IInv, EarlierInv
  <2>2. SameRange(q, r)' /\ Left(q)'
    BY <1>1, <1>5, <2>1, JobOf, LeftStays
  <2>3. Needed(q)' = Needed(q)
    BY <1>1, ArgsOf
  <2> QED
    BY <1>1, <2>1, <2>2, <2>3 DEF EarlierInv, Loaded
<1>13. AloneInv(r)'
  <2>1. \A q \in Runs : SameRange(q, r)' <=> SameRange(q, r)
    BY <1>1, JobOf
  <2>2. AloneInv(r)
    BY DEF IInv
  <2>3. alone[r] => bad = damaged[r]
    BY <1>0, <1>1, AloneReadsWhole
  <2> QED
    BY <1>1, <1>2, <2>1, <2>2, <2>3 DEF AloneInv, AfterNative
<1>14. \A q \in Runs : AloneInv(q)'
  BY <1>1, <1>5, <1>13, AloneKept
<1>15. ProofFilesInv'
  BY <1>1, ProofsFrame
<1> QED
  BY <1>3, <1>4, <1>5, <1>8, <1>9, <1>10, <1>11, <1>12, <1>14, <1>15, OneRun
  DEF RunInv

-----------------------------------------------------------------------------
(* The nodes; all steps; all behaviours. *)
LEMMA NodesIInv ==
  ASSUME IInv, UNCHANGED <<job, pc, args, diskVars, nativeVars, loadVars, proofVars,
                           historyVars>>,
         l2' \in Forks, reorgs' \in Nat, l1' \in L1Numbers,
         reorgs' = 0 => UNCHANGED <<l2, reorgs>>
  PROVE  IInv'
<1>1. /\ UNCHANGED <<job, pc, args>> /\ UNCHANGED diskVars /\ UNCHANGED proofVars
      /\ UNCHANGED <<directories, whole, partial>> /\ UNCHANGED <<pending, writing>>
      /\ UNCHANGED <<listed, cache, damaged>>
      /\ UNCHANGED <<proof_files, status_proofs>>
      /\ UNCHANGED <<reached, alone, earlier>>
  BY DEF diskVars, nativeVars, loadVars, proofVars, historyVars
<1>2. \A q \in Runs :
        /\ SafeHead(q)' = SafeHead(q) /\ BootInfo(q)' = BootInfo(q)
        /\ Needed(q)' = Needed(q) /\ Target(q)' = Target(q)
        /\ Present(q)' = Present(q)
  BY <1>1, ArgsOf, DiskFrame
<1>3. TypeOK' /\ ProofFilesInv' /\ OwnerInv'
  <2>1. TypeOK'
    BY <1>1 DEF IInv, TypeOK
  <2> QED
    BY <1>1, <2>1, ProofsFrame, DiskFrame DEF IInv
<1>4. ASSUME NEW r \in Runs PROVE RunInv(r)' /\ AloneInv(r)'
  <2>1. /\ LocalInv(r) /\ StoreInv(r) /\ RootsInv(r) /\ FilesInv(r)
        /\ AloneInv(r)
    BY DEF IInv, RunInv
  <2>2. LocalInv(r)'
    BY <1>1, <1>2, <2>1 DEF LocalInv, IsFirst
  <2>3. StoreInv(r)'
    BY <1>1, <1>2, <2>1 DEF StoreInv, Provable, RootOf, Loaded
  <2>4. RootsInv(r)'
    BY <1>1, <1>2, <2>1 DEF RootsInv, Past
  <2>5. FilesInv(r)'
    BY <1>1, <1>2, <2>1 DEF FilesInv
  <2>6. AloneInv(r)'
    <3>1. \A q \in Runs : SameRange(q, r)' <=> SameRange(q, r)
      BY <1>1, JobOf
    <3> QED
      BY <1>1, <2>1, <3>1 DEF AloneInv
  <2> QED
    BY <2>2, <2>3, <2>4, <2>5, <2>6 DEF RunInv
<1>5. ASSUME NEW q \in Runs, NEW r \in Runs PROVE EarlierInv(q, r)'
  <2> SUFFICES ASSUME q \in earlier[r] PROVE EarlierInv(q, r)'
    BY <1>1 DEF EarlierInv
  <2>1. EarlierInv(q, r)
    BY DEF IInv
  <2>2. SameRange(q, r)'
    BY <1>1, <2>1, JobOf DEF EarlierInv
  <2>3. Left(q)'
    BY <1>1, <1>2, <2>1 DEF EarlierInv, Left, Provable, RootOf
  <2> QED
    BY <1>1, <1>2, <2>1, <2>2, <2>3 DEF EarlierInv, Loaded
<1> QED
  BY <1>3, <1>4, <1>5 DEF IInv

LEMMA InitIInv == Init => IInv
<1> SUFFICES ASSUME Init PROVE IInv
  OBVIOUS
<1> DEFINE none == [output_block   |-> L2Block[Derived][0],
                    output_storage |-> Storage[L2Block[Derived][0]],
                    claim_block    |-> L2Block[Derived][0],
                    claim_storage  |-> Storage[L2Block[Derived][0]],
                    latest |-> 0, l1_head |-> 0]
<1>1. /\ 0 \in Numbers /\ 0 \in L1Numbers
      /\ \A n \in L1Numbers : n \in Nat
  <2>1. /\ Height[Derived] \in Nat /\ 0 .. Height[Derived] \subseteq Numbers
        /\ MaxL1 \in Nat
    BY HostAssumption
  <2> QED
    BY <2>1 DEF L1Numbers
<1>2. L2Block[Derived][0] \in L2Blocks
  BY <1>1, HostAssumption DEF L2Blocks
<1>3. Storage[L2Block[Derived][0]] \in StorageHashes
  BY <1>2 DEF StorageHashes
<1>4. none \in HostArgs
  BY <1>1, <1>2, <1>3 DEF HostArgs
<1>5. args = [r \in Runs |-> none]
  BY DEF Init
<1> HIDE DEF none
<1>6. TypeOK
  <2>1. l1 \in L1Numbers
    BY <1>1, HostAssumption DEF Init, L1Numbers
  <2>2. args \in [Runs -> HostArgs]
    BY <1>4, <1>5
  <2>3. DOMAIN proof_files \subseteq Numbers \X Numbers
    BY DEF Init
  <2> QED
    BY <2>1, <2>2, <2>3 DEF Init, TypeOK, Stages
<1>7. OwnerInv /\ ProofFilesInv
  BY DEF Init, OwnerInv, ProofFilesInv
<1>8. ASSUME NEW r \in Runs PROVE RunInv(r) /\ AloneInv(r)
  <2>1. /\ pc[r] = "output" /\ damaged[r] = {} /\ earlier[r] = {}
        /\ writing[r] = NoKey /\ ~reached[r] /\ listed[r] = {} /\ cache[r] = {}
    BY DEF Init
  <2>2. LocalInv(r)
    BY <2>1 DEF LocalInv, AfterNative, Submitted
  <2>3. StoreInv(r) /\ FilesInv(r)
    BY <2>1 DEF StoreInv, FilesInv, Loaded, AfterNative, Submitted
  <2>4. RootsInv(r) /\ AloneInv(r)
    BY <2>1 DEF RootsInv, Past, AloneInv
  <2> QED
    BY <2>2, <2>3, <2>4 DEF RunInv
<1>9. \A q, r \in Runs : EarlierInv(q, r)
  BY DEF Init, EarlierInv
<1> QED
  BY <1>6, <1>7, <1>8, <1>9 DEF IInv

LEMMA NextIInv == IInv /\ [Next]_vars => IInv'
<1> SUFFICES ASSUME IInv, [Next]_vars PROVE IInv'
  OBVIOUS
<1>1. ASSUME NEW r \in Runs, ReadArgs(r) PROVE IInv'
  BY <1>1, ReadOutputBlockIInv, ReadOutputStorageIInv, ReadClaimBlockIInv,
     ReadClaimStorageIInv, ReadLatestIInv, FindL1HeadIInv, CreateDirectoryIInv
  DEF ReadArgs
<1>2. ASSUME NEW r \in Runs, NativeRun(r) PROVE IInv'
  BY <1>2, BeginWriteIInv, FindFileIInv, EndWriteIInv, NativeEndIInv DEF NativeRun
<1>3. ASSUME NEW r \in Runs, LoadStore(r) PROVE IInv'
  BY <1>3, ListFilesIInv, LoadFileIInv, LoadEndIInv DEF LoadStore
<1>4. ASSUME NEW r \in Runs, Prove(r) PROVE IInv'
  BY <1>4, RequestProofIInv, RunLocallyIInv, NetworkIInv, FulfilledIInv DEF Prove
<1>5. ASSUME NEW r \in Runs, Panic(r) \/ Fail(r) \/ FailUnwrapped(r) PROVE IInv'
  BY <1>5, StopIInv
<1>6. CASE GrowL1
  <2>1. l2' \in Forks /\ reorgs' \in Nat /\ UNCHANGED <<l2, reorgs>>
    BY <1>6 DEF GrowL1, diskVars, nativeVars, loadVars, proofVars, historyVars,
                IInv, TypeOK
  <2>2. l1' \in L1Numbers
    BY <1>6, HostAssumption DEF GrowL1, IInv, TypeOK, L1Numbers
  <2> QED
    BY <1>6, <2>1, <2>2, NodesIInv DEF GrowL1
<1>7. CASE ReorgL2
  <2>1. l2' \in Forks /\ reorgs' \in Nat /\ reorgs' # 0 /\ l1' \in L1Numbers
    BY <1>7, HostAssumption DEF ReorgL2, IInv, TypeOK
  <2> QED
    BY <1>7, <2>1, NodesIInv DEF ReorgL2
<1>8. CASE UNCHANGED vars
  <2>1. l2' \in Forks /\ reorgs' \in Nat /\ l1' \in L1Numbers
        /\ UNCHANGED <<l2, reorgs>>
    BY <1>8 DEF vars, nodeVars, IInv, TypeOK
  <2> QED
    BY <1>8, <2>1, NodesIInv DEF vars
<1> QED
  BY <1>1, <1>2, <1>3, <1>4, <1>5, <1>6, <1>7, <1>8 DEF Next, Step

(* Reads across reorgs, runs that share a directory, runs that die in the  *)
(* middle of a file: the inductive invariant holds throughout.             *)
THEOREM Invariance == Spec => []IInv
<1> QED
  BY InitIInv, NextIInv, PTL DEF Spec

-----------------------------------------------------------------------------
(* Every variable keeps its type: the L1 head the search yields exists, a  *)
(* pending or loaded preimage is one of the run's chains.                  *)
THEOREM TypeCorrect == Spec => []TypeOK
<1>1. IInv => TypeOK
  BY DEF IInv
<1> QED
  BY <1>1, Invariance, PTL

(* A run with a native client loads every preimage that its program needs, *)
(* whatever other runs of the server or of the command lines write next to *)
(* it: files are replaced, never removed, and load_kv_store lists the      *)
(* directory after the client has ended.                                   *)
THEOREM StoreComplete == Spec => []NativeStoreComplete
<1>1. IInv => NativeStoreComplete
  BY DEF IInv, RunInv, StoreInv, NativeStoreComplete
<1> QED
  BY <1>1, Invariance, PTL

(* A run that has had no other run of its own range writing next to it     *)
(* loads no half-written file, and its program accepts the store.          *)
THEOREM StoreAccepted == Spec => []UndisturbedStoreAccepted
<1>1. ASSUME IInv, NEW r \in Runs, Loaded(r), alone[r]
      PROVE  /\ damaged[r] = {}
             /\ ~job[r].use_cache => Accepted(r)
  <2>1. pc[r] \in AfterNative /\ AloneInv(r)
    BY <1>1, LoadedRun DEF IInv
  <2>2. damaged[r] = {}
    BY <1>1, <2>1 DEF AloneInv
  <2> QED
    BY <1>1, <2>2, LoadedRun DEF Accepted
<1>2. IInv => UndisturbedStoreAccepted
  BY <1>1 DEF UndisturbedStoreAccepted
<1> QED
  BY <1>2, Invariance, PTL

(* --use-cache: a run and an earlier complete run of its range, whose      *)
(* searches both saw an L1 block late enough, compute the same boot info   *)
(* however far L1 has grown in between (the first block at or after a time *)
(* is unique), so the store the earlier one left serves the later one.     *)
THEOREM CacheSound == Spec => []CacheServes
<1>1. ASSUME IInv, reorgs = 0, NEW r \in Runs, Loaded(r), job[r].use_cache, alone[r],
             reached[r], NEW q \in earlier[r], reached[q]
      PROVE  BootInfo(q) = BootInfo(r) /\ Accepted(r)
  <2>1. q \in Runs
    BY <1>1 DEF IInv, TypeOK
  <2>2. SameRange(q, r) /\ Left(q) /\ Needed(q) \subseteq cache[r]
    BY <1>1, <2>1 DEF IInv, EarlierInv
  <2>3. /\ SafeHead(q) = SafeHead(r) /\ job[q].end = job[r].end
        /\ Target(q) = Target(r)
    BY <2>2 DEF SameRange, Target
  <2>4. args[q].l1_head = args[r].l1_head
    <3>1. IsFirst(args[q].l1_head, Target(q)) /\ IsFirst(args[r].l1_head, Target(r))
      BY <1>1, <2>1 DEF IInv, RunInv, LocalInv
    <3>2. Target(r) \in Nat
      BY <1>1, JobTypes DEF IInv
    <3> QED
      BY <2>3, <3>1, <3>2, FirstUnique
  <2>5. /\ BootInfo(q).l2_output_root = RootOf(l2, SafeHead(q))
        /\ BootInfo(q).l2_claim = RootOf(l2, job[q].end)
        /\ Provable(BootInfo(q))
    BY <1>1, <2>2 DEF Left
  <2>6. /\ BootInfo(r).l2_output_root = RootOf(l2, SafeHead(r))
        /\ BootInfo(r).l2_claim = RootOf(l2, job[r].end)
    <3>1. RootsInv(r)
      BY <1>1 DEF IInv, RunInv
    <3> QED
      BY <1>1, <3>1 DEF RootsInv, Past, Loaded, BootInfo, RootOf
  <2>7. BootInfo(q) = BootInfo(r)
    BY <2>3, <2>4, <2>5, <2>6 DEF BootInfo
  <2>8. Needed(q) = Needed(r)
    BY <2>3, <2>4 DEF Needed
  <2>9. damaged[r] = {}
    BY <1>1, LoadedRun DEF IInv, AloneInv
  <2> QED
    BY <2>2, <2>5, <2>7, <2>8, <2>9 DEF Accepted
<1>2. IInv => CacheServes
  BY <1>1 DEF CacheServes
<1> QED
  BY <1>2, Invariance, PTL

(* A proof file, and a proof the server answers with, are proofs of the    *)
(* range they are filed or asked under, on the chain that L1 yields.       *)
THEOREM ProofsFiledRight == Spec => []ProofsOfTheirRange
<1>1. IInv => ProofsOfTheirRange
  BY DEF IInv, ProofFilesInv, ProofsOfTheirRange
<1> QED
  BY <1>1, Invariance, PTL

(* Reads one RPC apart are of one chain as long as L2 does not reorg.      *)
THEOREM RootsAgree == Spec => []RootsOfOneChain
<1>1. ASSUME IInv, reorgs = 0, NEW r \in Runs, RootsRead(r)
      PROVE  /\ BootInfo(r).l2_output_root = RootOf(l2, SafeHead(r))
             /\ BootInfo(r).l2_claim = RootOf(l2, job[r].end)
  <2>1. RootsInv(r)
    BY <1>1 DEF IInv, RunInv
  <2> QED
    BY <1>1, <2>1 DEF RootsInv, Past, RootsRead, BootInfo, RootOf
<1>2. IInv => RootsOfOneChain
  BY <1>1 DEF RootsOfOneChain
<1> QED
  BY <1>2, Invariance, PTL
==============================================================================
