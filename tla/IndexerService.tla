--------------------------- MODULE IndexerService ---------------------------
(***************************************************************************)
(* services/indexer/indexerService.ts run by the loop of                   *)
(* workers/indexer.ts: one poll at a time, one action per await of poll(). *)
(* Each action is the code from one await to the next: it ends with the    *)
(* answer to the insert or call it makes.  ClickHouse and the webhook      *)
(* receiver are modelled by the rows and anchors they hold.                *)
(*                                                                         *)
(* A ClickHouse insert is stored, "rejected" (nothing written, the call    *)
(* throws) or "ack_lost" (the row is written and the call throws).  An     *)
(* exception leaves poll(); the worker logs it and polls again later.  A   *)
(* crash loses the detector and the current event, which live in memory.   *)
(***************************************************************************)
EXTENDS Detector, RiskEvents

CONSTANTS
  Ratios,        \* reserve ratios the pool may show
  Losses,        \* losses (lossQuoteBps) it may show
  Cids,          \* what createSnapshot() may return: "" when it failed
  FailureModes,  \* the ways an insert may fail, of {"rejected", "ack_lost"}
  \* Bounds of the instance:
  MaxTime, MaxPolls, MaxFailures, MaxCrashes

ASSUME IndexerConfig ==
  /\ Ratios \subseteq Int /\ Losses \subseteq Nat
  /\ FailureModes \subseteq {"rejected", "ack_lost"}
  /\ MaxTime \in Nat /\ MaxPolls \in Nat /\ MaxFailures \in Nat /\ MaxCrashes \in Nat

VARIABLES
  pc,            \* the await poll() is in, "sleep" between polls
  sample,        \* the sample of this poll
  cid,           \* the CID of this poll's snapshot
  det,           \* this.detector
  currentEvent,  \* this.currentEvent
  pool_samples, risk_events, snapshots,  \* the three tables
  webhooks,      \* the anchors that reached the backend, in order
  clock,         \* timestamp of the newest block sampled so far
  polls, failures, crashes

memory == <<pc, sample, cid, det, currentEvent>>
tables == <<pool_samples, risk_events, snapshots, webhooks>>
vars == <<memory, tables, clock, polls, failures, crashes>>

Samples == [ts: Int, rBps: Int, loss: Nat]
Events == [start: Int, version: Nat, maxLossBps: Nat]
Rows == [risk: Int, version: Nat, state: {"OPEN", "RESOLVED"}, end: Int \cup {None}, severity: Nat]
SnapshotRows == [risk: Int, label: {"DEPEG_START", "DEPEG_END"}, cid: Cids]
Anchors == [kind: {"DEPEG_START", "DEPEG_END"}, risk: Int, timestamp: Int, cid: Cids]

ASSUME NoneIsNoRecord == None \notin Samples /\ None \notin Events

TypeOK ==
  /\ pc \in {"sleep", "insert_sample", "persist_open", "start_snapshot", "persist_start",
             "emit_start", "end_snapshot", "persist_end", "emit_end"}
  /\ sample \in Samples \cup {None}
  /\ pc # "sleep" => sample # None
  /\ cid \in Cids \cup {None}
  /\ pc \in {"persist_start", "emit_start", "persist_end", "emit_end"} => cid \in Cids
  /\ det \in DetectorState
  /\ pc = "start_snapshot" => det.active
  /\ currentEvent \in Events \cup {None}
  /\ pc \notin {"sleep", "insert_sample", "start_snapshot"} => currentEvent # None
  /\ pool_samples \subseteq Samples
  /\ risk_events \in Seq(Rows)
  /\ snapshots \subseteq SnapshotRows
  /\ webhooks \in Seq(Anchors)
  /\ clock \in Int /\ polls \in Nat /\ failures \in Nat /\ crashes \in Nat

Init ==
  /\ pc = "sleep" /\ sample = None /\ cid = None
  /\ det = Quiet /\ currentEvent = None
  /\ pool_samples = {} /\ risk_events = <<>> /\ snapshots = {} /\ webhooks = <<>>
  /\ clock = 0 /\ polls = 0 /\ failures = 0 /\ crashes = 0

MaxOf(a, b) == IF a >= b THEN a ELSE b

-----------------------------------------------------------------------------
(* Steps poll() is made of.                                                *)

\* poll() goes on to its next await; at its end the locals are gone.
GoTo(p) ==
  /\ pc' = p
  /\ sample' = IF p = "sleep" THEN None ELSE sample
  /\ cid' = IF p = "sleep" THEN None ELSE cid

\* An insert is attempted; Written: the row is in the table afterwards.
Attempt(outcome) ==
  /\ outcome \in {"stored"} \cup (IF failures < MaxFailures THEN FailureModes ELSE {})
  /\ failures' = failures + (IF outcome = "stored" THEN 0 ELSE 1)
  /\ UNCHANGED <<clock, polls, crashes>>

Written(outcome) == outcome \in {"stored", "ack_lost"}
Insert(table, row, outcome) == IF Written(outcome) THEN table \cup {row} ELSE table

\* Lines 77-85 and 151: the detector sees the sample, its answer picks the branch.
FeedDetector ==
  LET event == EventOf(det, sample.ts, sample.rBps) IN
  /\ det' = AfterSample(det, sample.ts, sample.rBps)
  /\ GoTo(IF event = None THEN "sleep"
          ELSE IF event.type = "DEPEG_START" THEN "start_snapshot"
          ELSE IF currentEvent # None THEN "end_snapshot" ELSE "sleep")

\* Mutant: the version is taken only once the insert is acknowledged.
PersistEventLateBump(state, end, severity, outcome) ==
  /\ Attempt(outcome)
  /\ risk_events' =
       IF Written(outcome)
       THEN Append(risk_events, [risk |-> currentEvent.start, version |-> currentEvent.version,
                                 state |-> state, end |-> end, severity |-> severity])
       ELSE risk_events
  /\ currentEvent' = IF outcome = "stored" THEN [currentEvent EXCEPT !.version = @ + 1]
                     ELSE currentEvent
  /\ UNCHANGED <<pool_samples, snapshots, webhooks>>

\* persistEvent: the version is taken before the insert is awaited, and stays
\* taken when the insert throws.
PersistEvent(state, end, severity, outcome) ==
  /\ Attempt(outcome)
  /\ risk_events' =
       IF Written(outcome)
       THEN Append(risk_events, [risk |-> currentEvent.start, version |-> currentEvent.version,
                                 state |-> state, end |-> end, severity |-> severity])
       ELSE risk_events
  /\ currentEvent' = [currentEvent EXCEPT !.version = @ + 1]
  /\ UNCHANGED <<pool_samples, snapshots, webhooks>>

PersistSnapshot(risk, label, c, outcome) ==
  /\ Attempt(outcome)
  /\ snapshots' = Insert(snapshots, [risk |-> risk, label |-> label, cid |-> c], outcome)
  /\ UNCHANGED <<pool_samples, risk_events, webhooks>>

\* emitWebhook swallows its errors: the anchor arrives or it does not.
EmitWebhook(kind, timestamp, delivered) ==
  /\ webhooks' = IF delivered
                 THEN Append(webhooks, [kind |-> kind, risk |-> currentEvent.start,
                                        timestamp |-> timestamp, cid |-> cid])
                 ELSE webhooks
  /\ UNCHANGED <<pool_samples, risk_events, snapshots, clock, polls, failures, crashes>>

-----------------------------------------------------------------------------
(* The actions.                                                            *)

\* fetchSample() answers.  Block times do not go back; two polls may see the
\* same block, whose balances are read at "latest" and so may differ.  When
\* fetchSample() throws, poll() ends with nothing changed: a stuttering step.
StartPoll ==
  /\ pc = "sleep"
  /\ polls < MaxPolls
  /\ \E ts \in clock..MaxTime, rBps \in Ratios, loss \in Losses :
       /\ sample' = [ts |-> ts, rBps |-> rBps, loss |-> loss]
       /\ clock' = ts
  /\ pc' = "insert_sample"
  /\ polls' = polls + 1
  /\ UNCHANGED <<cid, det, currentEvent, tables, failures, crashes>>

\* Mutant: the insert of the sample is not awaited.
InsertSampleUnawaited(outcome) ==
  /\ pc = "insert_sample"
  /\ Attempt(outcome)
  /\ pool_samples' = Insert(pool_samples, sample, outcome)
  /\ \/ /\ currentEvent # None
        /\ currentEvent' = [currentEvent EXCEPT !.maxLossBps = MaxOf(@, sample.loss)]
        /\ GoTo("persist_open")
        /\ UNCHANGED det
     \/ currentEvent = None /\ FeedDetector /\ UNCHANGED currentEvent
  /\ UNCHANGED <<risk_events, snapshots, webhooks>>

InsertSample(outcome) ==
  /\ pc = "insert_sample"
  /\ Attempt(outcome)
  /\ pool_samples' = Insert(pool_samples, sample, outcome)
  /\ \/ outcome # "stored" /\ GoTo("sleep") /\ UNCHANGED <<det, currentEvent>>
     \/ /\ outcome = "stored" /\ currentEvent # None
        /\ currentEvent' = [currentEvent EXCEPT !.maxLossBps = MaxOf(@, sample.loss)]
        /\ GoTo("persist_open")
        /\ UNCHANGED det
     \/ /\ outcome = "stored" /\ currentEvent = None
        /\ FeedDetector
        /\ UNCHANGED currentEvent
  /\ UNCHANGED <<risk_events, snapshots, webhooks>>

\* Mutant: an open window's row carries the latest loss, not the largest.
PersistOpenLatestLoss(outcome) ==
  /\ pc = "persist_open"
  /\ PersistEvent("OPEN", None, sample.loss, outcome)
  /\ \/ outcome = "stored" /\ FeedDetector
     \/ outcome # "stored" /\ GoTo("sleep") /\ UNCHANGED det

PersistOpen(outcome) ==
  /\ pc = "persist_open"
  /\ PersistEvent("OPEN", None, currentEvent.maxLossBps, outcome)
  /\ \/ outcome = "stored" /\ FeedDetector
     \/ outcome # "stored" /\ GoTo("sleep") /\ UNCHANGED det

\* Mutant: the new window is never made the current event.
StartSnapshotUntracked(outcome, c) ==
  /\ pc = "start_snapshot"
  /\ PersistSnapshot(det.windowStart, "DEPEG_START", c, outcome)
  /\ \/ outcome = "stored" /\ pc' = "persist_start" /\ cid' = c /\ UNCHANGED sample
     \/ outcome # "stored" /\ GoTo("sleep")
  /\ UNCHANGED <<det, currentEvent>>

\* createSnapshot() never throws; this.currentEvent is set only once the
\* snapshot's row is acknowledged.
StartSnapshot(outcome, c) ==
  /\ pc = "start_snapshot"
  /\ PersistSnapshot(det.windowStart, "DEPEG_START", c, outcome)
  /\ \/ /\ outcome = "stored"
        /\ currentEvent' = [start |-> det.windowStart, version |-> 1, maxLossBps |-> sample.loss]
        /\ pc' = "persist_start" /\ cid' = c
        /\ UNCHANGED sample
     \/ outcome # "stored" /\ GoTo("sleep") /\ UNCHANGED currentEvent
  /\ UNCHANGED det

PersistStart(outcome) ==
  /\ pc = "persist_start"
  /\ PersistEvent("OPEN", None, sample.loss, outcome)
  /\ GoTo(IF outcome = "stored" THEN "emit_start" ELSE "sleep")
  /\ UNCHANGED det

\* Mutant: the anchor is sent again after a timeout, even if it had arrived.
EmitStartRetried(delivered) ==
  /\ pc = "emit_start"
  /\ EmitWebhook("DEPEG_START", currentEvent.start, delivered)
  /\ GoTo("sleep") \/ GoTo("emit_start")
  /\ UNCHANGED <<det, currentEvent>>

EmitStart(delivered) ==
  /\ pc = "emit_start"
  /\ EmitWebhook("DEPEG_START", currentEvent.start, delivered)
  /\ GoTo("sleep")
  /\ UNCHANGED <<det, currentEvent>>

\* Mutant: the insert of the closing snapshot is not awaited.
EndSnapshotUnawaited(outcome, c) ==
  /\ pc = "end_snapshot"
  /\ PersistSnapshot(currentEvent.start, "DEPEG_END", c, outcome)
  /\ pc' = "persist_end" /\ cid' = c
  /\ UNCHANGED <<sample, det, currentEvent>>

\* Mutant: a window whose closing snapshot has no CID is not resolved.
EndSnapshotRequired(outcome, c) ==
  /\ pc = "end_snapshot"
  /\ PersistSnapshot(currentEvent.start, "DEPEG_END", c, outcome)
  /\ \/ outcome = "stored" /\ c # "" /\ pc' = "persist_end" /\ cid' = c /\ UNCHANGED sample
     \/ (outcome # "stored" \/ c = "") /\ GoTo("sleep")
  /\ UNCHANGED <<det, currentEvent>>

EndSnapshot(outcome, c) ==
  /\ pc = "end_snapshot"
  /\ PersistSnapshot(currentEvent.start, "DEPEG_END", c, outcome)
  /\ \/ outcome = "stored" /\ pc' = "persist_end" /\ cid' = c /\ UNCHANGED sample
     \/ outcome # "stored" /\ GoTo("sleep")
  /\ UNCHANGED <<det, currentEvent>>

\* Mutant: the insert of the resolved row is not awaited.
PersistEndUnawaited(outcome) ==
  /\ pc = "persist_end"
  /\ PersistEvent("RESOLVED", sample.ts, MaxOf(currentEvent.maxLossBps, sample.loss), outcome)
  /\ GoTo("emit_end")
  /\ UNCHANGED det

\* When this insert throws, the detector has been reset but currentEvent stays.
PersistEnd(outcome) ==
  /\ pc = "persist_end"
  /\ PersistEvent("RESOLVED", sample.ts, MaxOf(currentEvent.maxLossBps, sample.loss), outcome)
  /\ GoTo(IF outcome = "stored" THEN "emit_end" ELSE "sleep")
  /\ UNCHANGED det

\* Mutant: this.currentEvent is not cleared.
EmitEndKeepingEvent(delivered) ==
  /\ pc = "emit_end"
  /\ EmitWebhook("DEPEG_END", sample.ts, delivered)
  /\ GoTo("sleep")
  /\ UNCHANGED <<det, currentEvent>>

EmitEnd(delivered) ==
  /\ pc = "emit_end"
  /\ EmitWebhook("DEPEG_END", sample.ts, delivered)
  /\ currentEvent' = None
  /\ GoTo("sleep")
  /\ UNCHANGED det

\* The process dies in any await and starts again with new objects.
Crash ==
  /\ crashes < MaxCrashes
  /\ crashes' = crashes + 1
  /\ pc' = "sleep" /\ sample' = None /\ cid' = None
  /\ det' = Quiet /\ currentEvent' = None
  /\ UNCHANGED <<tables, clock, polls, failures>>

Outcomes == {"stored"} \cup FailureModes

\* The await poll() is in is answered.
Answer ==
  \/ \E outcome \in Outcomes :
       \/ InsertSample(outcome)
       \/ PersistOpen(outcome)
       \/ PersistStart(outcome)
       \/ PersistEnd(outcome)
       \/ \E c \in Cids : StartSnapshot(outcome, c) \/ EndSnapshot(outcome, c)
  \/ \E delivered \in BOOLEAN : EmitStart(delivered) \/ EmitEnd(delivered)

Next == StartPoll \/ Answer \/ Crash

Spec == Init /\ [][Next]_vars

\* Inserts and webhooks are HTTP requests with a timeout: each one ends.
FairSpec == Spec /\ WF_vars(Answer)

-----------------------------------------------------------------------------
(* Safety, whatever fails.                                                 *)

\* No (risk_id, version) is ever written twice, so no row silently replaces
\* another under ReplacingMergeTree: not after a failed or unacknowledged
\* insert, and not after a restart (nextVersion, indexerService.ts 258-265).
VersionsNeverReused ==
  \A i, j \in DOMAIN risk_events : SameKey(risk_events[i], risk_events[j]) => i = j

\* The evidence is on file before the event: a risk has rows only if its
\* opening snapshot is stored, a resolved one only if its closing one is.
SnapshotBeforeEvent ==
  \A i \in DOMAIN risk_events : LET r == risk_events[i] IN
    /\ \E s \in snapshots : s.risk = r.risk /\ s.label = "DEPEG_START"
    /\ r.state = "RESOLVED" => \E s \in snapshots : s.risk = r.risk /\ s.label = "DEPEG_END"

\* The severity of every row is the loss of a sample that is in pool_samples,
\* taken once the grace period had passed and not after the window's end.
SeverityWitnessed ==
  \A i \in DOMAIN risk_events : LET r == risk_events[i] IN
    \E p \in pool_samples :
      /\ p.loss = r.severity
      /\ p.ts >= r.risk + GracePeriod
      /\ r.state = "RESOLVED" => p.ts <= r.end

\* Both ends of a window are stored samples: a breach at its start and, when it
\* is resolved, a healthy sample at its end, no sooner than the grace period.
WindowEndpointsEvidenced ==
  \A i \in DOMAIN risk_events : LET r == risk_events[i] IN
    /\ \E p \in pool_samples : p.ts = r.risk /\ Breach(p.rBps)
    /\ r.state = "RESOLVED" =>
         /\ r.end >= r.risk + GracePeriod
         /\ \E p \in pool_samples : p.ts = r.end /\ ~Breach(p.rBps)

\* An anchor that reached the backend is backed by a row of the same state,
\* window and end, and by the stored snapshot whose CID it cites.
AnchorsFollowRows ==
  \A k \in DOMAIN webhooks : LET w == webhooks[k] IN
    /\ [risk |-> w.risk, label |-> w.kind, cid |-> w.cid] \in snapshots
    /\ \E i \in DOMAIN risk_events : LET r == risk_events[i] IN
         /\ r.risk = w.risk
         /\ w.kind = "DEPEG_START" => r.state = "OPEN" /\ w.timestamp = r.risk
         /\ w.kind = "DEPEG_END" => r.state = "RESOLVED" /\ w.timestamp = r.end

\* The backend is told of each window's start and of its end at most once.
AtMostOneAnchor ==
  \A k, l \in DOMAIN webhooks :
    webhooks[k].kind = webhooks[l].kind /\ webhooks[k].risk = webhooks[l].risk => k = l

-----------------------------------------------------------------------------
(* What holds until an insert fails for the first time, crashes included.  *)

\* Between polls, the event the service tracks is the window its detector is in.
WindowTracksBreach ==
  failures = 0 /\ pc = "sleep" =>
    IF currentEvent = None THEN ~det.active
    ELSE det.active /\ currentEvent.start = det.windowStart

\* No healthy sample was ever stored strictly inside a resolved window.
NoRecoveryInsideWindow ==
  failures = 0 =>
    \A i \in DOMAIN risk_events : LET r == risk_events[i] IN
      r.state = "RESOLVED" =>
        \A p \in pool_samples : r.risk < p.ts /\ p.ts < r.end => Breach(p.rBps)

-----------------------------------------------------------------------------
(* What must happen.                                                       *)

RecoverySampled ==
  pc = "insert_sample" /\ ~Breach(sample.rBps) /\ det.active /\ currentEvent # None

Resolved(risk) ==
  \E i \in DOMAIN risk_events : risk_events[i].risk = risk /\ risk_events[i].state = "RESOLVED"

\* The tracked window of a pool that has recovered is resolved: the poll that
\* sampled the recovery writes the RESOLVED row, whatever becomes of the
\* snapshot's CID and of the webhooks, unless an insert fails or the process
\* dies.
RecoveryRecorded ==
  RecoverySampled ~> (currentEvent # None /\ Resolved(currentEvent.start)) \/ failures > 0 \/ crashes > 0

-----------------------------------------------------------------------------
(* The readers' view of risk_events implements DepegWindows.               *)

WindowView(r) == [state |-> r.state, end |-> r.end, severity |-> r.severity]

DepegWindow == INSTANCE DepegWindows WITH
  Starts <- 0..MaxTime, Ends <- 0..MaxTime, Severities <- Losses,
  windows <- [s \in Risks(risk_events) |-> WindowView(Latest(risk_events, s))]

\* Every change a reader can see in risk_events is a step of a depeg window's
\* life: opened in order, only the newest tracked, resolved once and for good.
ImplementsDepegWindows == DepegWindow!Spec

\* For TLC: two states that differ only in history no action reads, and the
\* property above does not see, count as one.
ReaderView == <<memory, risk_events, clock, polls, failures, crashes>>
=============================================================================
