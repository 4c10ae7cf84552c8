---------------------------- MODULE CheckpointLog ----------------------------
(***************************************************************************)
(* What users of the settlement contract rely on: a log of checkpoints     *)
(* with increasing L2 block numbers, extended at the end with the current  *)
(* time, and cut only at checkpoints whose finalisation period still runs. *)
(* No proofs, no L1 hashes, no administration: ZKL2OutputOracle implements *)
(* this specification.                                                     *)
(***************************************************************************)
EXTENDS Integers, Sequences

CONSTANT Roots

VARIABLES log,     \* the checkpoints, oldest first
          clock,   \* time of the latest L1 block
          period,  \* finalisation period, fixed when the log opens
          open     \* the log takes checkpoints

logVars == <<log, clock, period, open>>

Entry == [root : Roots, time : Nat, block : Nat]

Init ==
  /\ log \in Seq(Entry)
  /\ \A i, j \in DOMAIN log : i < j =>
       log[i].block < log[j].block /\ log[i].time <= log[j].time
  /\ clock \in Nat /\ period \in Nat
  /\ \A i \in DOMAIN log : log[i].time <= clock
  /\ open = FALSE

(* The log opens with the checkpoints it already has, or with a first one. *)
Open ==
  /\ ~open /\ open' = TRUE
  /\ period' \in Nat
  /\ \/ log # <<>> /\ log' = log
     \/ log = <<>> /\ log' \in Seq(Entry) /\ Len(log') = 1 /\ log'[1].time <= clock
  /\ UNCHANGED clock

(* A later checkpoint, stamped with the current time; never the first. *)
Extend ==
  /\ open /\ log # <<>>
  /\ log' \in Seq(Entry) /\ Len(log') = Len(log) + 1
  /\ SubSeq(log', 1, Len(log)) = log
  /\ log'[Len(log')].time = clock
  /\ log'[Len(log')].block > log[Len(log)].block
  /\ UNCHANGED <<clock, period, open>>

(* The tail from a checkpoint that is not final is dropped. *)
Retract ==
  /\ open
  /\ \E i \in DOMAIN log :
       /\ \A j \in DOMAIN log : j >= i => clock - log[j].time < period
       /\ log' = SubSeq(log, 1, i - 1)
  /\ UNCHANGED <<clock, period, open>>

Tick == clock' \in Nat /\ clock' > clock /\ UNCHANGED <<log, period, open>>

Next == Open \/ Extend \/ Retract \/ Tick

Spec == Init /\ [][Next]_logVars
==============================================================================
