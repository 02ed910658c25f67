------------------------------ MODULE Backtest ------------------------------
(***************************************************************************)
(* scripts/simulate.ts run over blocks the indexer also sees: it feeds a   *)
(* detector of its own and writes to the same tables, under the same risk  *)
(* ids, with version 1 for an opening and 2 for a resolution.  What goes   *)
(* wrong with one block is logged, and the next block is taken.            *)
(*                                                                         *)
(* risk_events keeps, of the rows of one key, the one with the largest     *)
(* updated_at: the wall clock for the indexer, the time of the block for   *)
(* the simulator.  Blocks are named by their times.                        *)
(***************************************************************************)
EXTENDS IndexerService

CONSTANTS
  FromBlock, ToBlock, Step,  \* the arguments of the script
  SimFailureModes            \* how its inserts may fail, any number of times

ASSUME BacktestConfig == FromBlock \in Nat /\ ToBlock \in Nat /\ Step \in Nat \ {0}

VARIABLES
  sim,      \* the script: pc, block, sample, detector, start of the event, risks
  updated   \* updated_at of each row of risk_events, in seconds

BacktestInit ==
  /\ Init
  /\ updated = <<>>
  /\ sim = [pc |-> "sample", block |-> FromBlock, sample |-> None, det |-> Quiet, start |-> None,
            risks |-> [risk \in {} |-> 0]]

-----------------------------------------------------------------------------

\* The end of an iteration, reached in turn or through its catch.
NextBlock(s) ==
  [s EXCEPT !.pc = IF s.block + Step > ToBlock THEN "done" ELSE "sample",
            !.block = @ + Step, !.sample = None, !.start = None]

SimOutcomes == {"stored"} \cup SimFailureModes

\* An awaited insert is answered: the script goes on, or gives up on the block.
SimAttempt(outcome, next) == sim' = IF outcome = "stored" THEN next ELSE NextBlock(sim)

SimUnfetched ==
  /\ sim.pc = "sample"
  /\ sim' = NextBlock(sim)
  /\ UNCHANGED <<pool_samples, risk_events, snapshots, updated>>

\* The loop's body after the sample's insert: a new window is put into risks
\* before anything about it is stored; an end counts if its start is there.
Detected(read) ==
  LET event == EventOf(sim.det, read.ts, read.rBps)
      fed == [sim EXCEPT !.det = AfterSample(sim.det, read.ts, read.rBps), !.sample = read]
  IN IF event = None \/ (event.type = "DEPEG_END" /\ event.start \notin DOMAIN sim.risks)
     THEN NextBlock(fed)
     ELSE IF event.type = "DEPEG_END" THEN [fed EXCEPT !.pc = "end_snapshot", !.start = event.start]
     ELSE [fed EXCEPT !.pc = "start_snapshot", !.start = event.start,
             !.risks = [risk \in DOMAIN @ \cup {event.start} |->
                          IF risk = event.start THEN read.loss ELSE @[risk]]]

\* Mutant: the insert of the sample is not awaited.
SimSampleUnawaited(outcome) ==
  /\ sim.pc = "sample"
  /\ \E rBps \in Ratios, loss \in Losses :
       LET read == [ts |-> sim.block, rBps |-> rBps, loss |-> loss] IN
       /\ pool_samples' = Insert(pool_samples, read, outcome)
       /\ sim' = Detected(read)
  /\ UNCHANGED <<risk_events, snapshots, updated>>

\* The block is read at its own height, so that it cannot change in between.
SimSample(outcome) ==
  /\ sim.pc = "sample"
  /\ \E rBps \in Ratios, loss \in Losses :
       LET read == [ts |-> sim.block, rBps |-> rBps, loss |-> loss] IN
       /\ pool_samples' = Insert(pool_samples, read, outcome)
       /\ SimAttempt(outcome, Detected(read))
  /\ UNCHANGED <<risk_events, snapshots, updated>>

SimSnapshot(label, outcome) ==
  /\ \E c \in Cids :
       snapshots' = Insert(snapshots, [risk |-> sim.start, label |-> label, cid |-> c], outcome)
  /\ UNCHANGED <<pool_samples, risk_events, updated>>

SimStartSnapshot(outcome) ==
  /\ sim.pc = "start_snapshot"
  /\ SimSnapshot("DEPEG_START", outcome)
  /\ SimAttempt(outcome, [sim EXCEPT !.pc = "open_row"])

SimEndSnapshot(outcome) ==
  /\ sim.pc = "end_snapshot"
  /\ SimSnapshot("DEPEG_END", outcome)
  /\ SimAttempt(outcome, [sim EXCEPT !.pc = "resolved_row"])

SimRow(version, state, end, severity, outcome) ==
  /\ IF Written(outcome)
     THEN /\ risk_events' = Append(risk_events, [risk |-> sim.start, version |-> version,
                                     state |-> state, end |-> end, severity |-> severity])
          /\ updated' = Append(updated, sim.block)
     ELSE UNCHANGED <<risk_events, updated>>
  /\ UNCHANGED <<pool_samples, snapshots>>

SimOpenRow(outcome) ==
  /\ sim.pc = "open_row"
  /\ SimRow(1, "OPEN", None, sim.sample.loss, outcome)
  /\ SimAttempt(outcome, NextBlock(sim))

\* Mutant: the script gives the resolution the version the indexer would.
SimResolvedRowNext(outcome) ==
  /\ sim.pc = "resolved_row"
  /\ SimRow(3, "RESOLVED", sim.sample.ts, MaxOf(sim.risks[sim.start], sim.sample.loss), outcome)
  /\ SimAttempt(outcome, NextBlock(sim))

SimResolvedRow(outcome) ==
  /\ sim.pc = "resolved_row"
  /\ SimRow(2, "RESOLVED", sim.sample.ts, MaxOf(sim.risks[sim.start], sim.sample.loss), outcome)
  /\ SimAttempt(outcome, NextBlock([sim EXCEPT !.risks =
       [risk \in DOMAIN sim.risks \ {sim.start} |-> sim.risks[risk]]]))

SimNext ==
  /\ \/ SimUnfetched
     \/ \E outcome \in SimOutcomes :
          \/ SimSample(outcome)
          \/ SimStartSnapshot(outcome)
          \/ SimOpenRow(outcome)
          \/ SimEndSnapshot(outcome)
          \/ SimResolvedRow(outcome)
  /\ UNCHANGED <<memory, webhooks, clock, polls, failures, crashes>>

\* The indexer's wall clock is not behind the newest block it has sampled.
LiveNext ==
  /\ Next
  /\ updated' \in IF risk_events' = risk_events THEN {updated}
                  ELSE {Append(updated, now) : now \in clock..(clock + 1)}
  /\ UNCHANGED sim

BacktestSpec == BacktestInit /\ [][LiveNext \/ SimNext]_<<vars, sim, updated>>

\* For TLC: no step reads the webhooks and no property here sees them.
ScriptView == <<memory, pool_samples, risk_events, snapshots, clock, polls, failures, crashes,
                sim, updated>>

-----------------------------------------------------------------------------

\* The row the API shows of a risk.
Shown(risk) == LatestAt(risk_events, updated, risk)

\* No step of a backtest changes what the API says of a resolved risk, its
\* severity included: the indexer resolves no window before its version 3.
BacktestLeavesResolved ==
  [][sim' # sim =>
       \A risk \in Risks(risk_events) :
         Shown(risk).state = "RESOLVED" => Shown(risk)' = Shown(risk)]_<<vars, sim, updated>>

\* Every row of either writer is borne out by samples on file: its severity by
\* one of its window's, its start by a breach, its end by a healthy sample.
RowsEvidenced == SeverityWitnessed /\ WindowEndpointsEvidenced
=============================================================================
