------------------------------ MODULE Detector ------------------------------
(***************************************************************************)
(* The depeg detector of services/indexer/detector.ts as a pure machine:   *)
(* a state record with the three private fields of the class, the state    *)
(* sample() leaves behind and the event it returns.  The Curve indexer     *)
(* (IndexerService) and the backtest script run the same class, so this    *)
(* module has no variables of its own.                                     *)
(***************************************************************************)
EXTENDS Integers

CONSTANTS
  RMinBps,      \* env.R_MIN_BPS: a sample below it is a breach
  GracePeriod,  \* env.GRACE_PERIOD_SECONDS
  None          \* the code's null

\* What config/env.ts guarantees of the two settings (both are int().min(0)).
ASSUME DetectorConfig == RMinBps \in Nat /\ GracePeriod \in Nat

ASSUME NoneIsNotATime == None \notin Int

\* DetectorEventStart and DetectorEventEnd.
DetectorEvents ==
  [type: {"DEPEG_START", "DEPEG_END"}, start: Int, end: Int \cup {None}]

ASSUME NoneIsNotAnEvent == None \notin DetectorEvents

\* The three fields; a window is recorded exactly while the detector is active.
DetectorState ==
  {d \in [active: BOOLEAN, lastBreachAt: Int \cup {None}, windowStart: Int \cup {None}] :
     /\ d.active <=> d.windowStart # None
     /\ d.active => d.windowStart = d.lastBreachAt}

\* The state of a new detector, which reset() re-establishes.
Quiet == [active |-> FALSE, lastBreachAt |-> None, windowStart |-> None]

Breach(rBps) == rBps < RMinBps

\* Mutant: every breach restarts the grace period.
LatestBreach(d, ts) == ts

\* lastBreachAt after a breach at ts: the first breach of the run, not the last.
FirstBreach(d, ts) == IF d.lastBreachAt = None THEN ts ELSE d.lastBreachAt

\* Mutant: the grace period must be exceeded, not reached.
OpensLate(d, ts, rBps) ==
  /\ Breach(rBps)
  /\ ~d.active
  /\ ts - FirstBreach(d, ts) > GracePeriod

Opens(d, ts, rBps) ==
  /\ Breach(rBps)
  /\ ~d.active
  /\ ts - FirstBreach(d, ts) >= GracePeriod

Closes(d, rBps) == ~Breach(rBps) /\ d.active

\* The fields after a breach: the branch of detector.ts 29-42.
AfterBreach(d, ts, rBps) ==
  [active       |-> d.active \/ Opens(d, ts, rBps),
   lastBreachAt |-> FirstBreach(d, ts),
   windowStart  |-> IF Opens(d, ts, rBps) THEN FirstBreach(d, ts) ELSE d.windowStart]

\* Mutant: reset() forgets to clear windowStart.
AfterSampleKeepingWindow(d, ts, rBps) ==
  IF Breach(rBps) THEN AfterBreach(d, ts, rBps) ELSE [Quiet EXCEPT !.windowStart = d.windowStart]

\* Mutant: reset() forgets to clear lastBreachAt.
AfterSampleKeepingBreach(d, ts, rBps) ==
  IF Breach(rBps) THEN AfterBreach(d, ts, rBps) ELSE [Quiet EXCEPT !.lastBreachAt = d.lastBreachAt]

\* The detector's fields after sample(ts, rBps).
AfterSample(d, ts, rBps) ==
  IF Breach(rBps) THEN AfterBreach(d, ts, rBps) ELSE Quiet

StartEvent(start) == [type |-> "DEPEG_START", start |-> start, end |-> None]
EndEvent(start, end) == [type |-> "DEPEG_END", start |-> start, end |-> end]

\* What sample(ts, rBps) returns.
EventOf(d, ts, rBps) ==
  IF Opens(d, ts, rBps) THEN StartEvent(FirstBreach(d, ts))
  ELSE IF Closes(d, rBps) THEN EndEvent(IF d.windowStart = None THEN ts ELSE d.windowStart, ts)
  ELSE None
=============================================================================
