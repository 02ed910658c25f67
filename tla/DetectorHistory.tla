-------------------------- MODULE DetectorHistory ---------------------------
(***************************************************************************)
(* One detector fed an arbitrary sequence of samples, with the history of  *)
(* what it was fed and what it answered.  Timestamps are not assumed to    *)
(* grow: the detector is handed whatever block the RPC node answers with.  *)
(* The properties read the answers off the history alone.                  *)
(***************************************************************************)
EXTENDS Detector, Sequences

CONSTANTS
  Times,       \* block timestamps the node may answer with
  Ratios,      \* reserve ratios in basis points
  MaxSamples   \* bound on the length of the history

ASSUME HistoryBounds == Times \subseteq Int /\ Ratios \subseteq Int /\ MaxSamples \in Nat

VARIABLES
  det,      \* the detector
  fed,      \* the samples it was given, oldest first
  answers   \* what sample() returned for each of them

vars == <<det, fed, answers>>

TypeOK ==
  /\ det \in DetectorState
  /\ fed \in Seq([ts: Int, rBps: Int])
  /\ answers \in Seq(DetectorEvents \cup {None})
  /\ Len(answers) = Len(fed)

Init == det = Quiet /\ fed = <<>> /\ answers = <<>>

Sample(ts, rBps) ==
  /\ Len(fed) < MaxSamples
  /\ det' = AfterSample(det, ts, rBps)
  /\ fed' = Append(fed, [ts |-> ts, rBps |-> rBps])
  /\ answers' = Append(answers, EventOf(det, ts, rBps))

Next == \E ts \in Times, rBps \in Ratios : Sample(ts, rBps)

Spec == Init /\ [][Next]_vars

-----------------------------------------------------------------------------
(* The reference definition: what the history says, without the machine.   *)

BreachAt(i) == Breach(fed[i].rBps)

\* i..n is a run of breaches that begins at i.
RunFrom(i, n) ==
  /\ i \in 1..n
  /\ \A j \in i..n : BreachAt(j)
  /\ i = 1 \/ ~BreachAt(i - 1)

\* By sample n, the run that began at i had lasted the grace period.
Sustained(i, n) == \E k \in i..n : fed[k].ts - fed[i].ts >= GracePeriod

\* The detector is active exactly while a run of consecutive breaches that has
\* at some sample lasted the grace period is still unbroken (detector.ts 29-50).
ActiveIffSustained ==
  det.active <=> \E i \in 1..Len(fed) : RunFrom(i, Len(fed)) /\ Sustained(i, Len(fed))

\* sample() answers DEPEG_START exactly when the run first reaches the grace
\* period, dated at the run's first breach: one start per run and none for a
\* shorter one (detector.ts 33-40).
StartsAreRunStarts ==
  \A n \in 1..Len(fed), s \in Times :
    answers[n] = StartEvent(s) <=>
      \E i \in 1..n : /\ RunFrom(i, n)
                      /\ fed[i].ts = s
                      /\ fed[n].ts - s >= GracePeriod
                      /\ ~Sustained(i, n - 1)

\* sample() answers DEPEG_END exactly at the first sample that breaks a run that
\* had lasted the grace period, with the run's first breach as the start and
\* that sample's time as the end (detector.ts 44-48).
EndsCloseSustainedRuns ==
  \A n \in 1..Len(fed), s \in Times :
    answers[n] = EndEvent(s, fed[n].ts) <=>
      /\ ~BreachAt(n)
      /\ \E i \in 1..(n - 1) : RunFrom(i, n - 1) /\ Sustained(i, n - 1) /\ fed[i].ts = s

=============================================================================
