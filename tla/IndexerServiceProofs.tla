------------------------ MODULE IndexerServiceProofs ------------------------
(***************************************************************************)
(* IndexerService for every number of polls, failures and crashes, every   *)
(* set of losses and every clock: its types; that no version of a risk is  *)
(* written twice; what is on file for every row and for every anchor,      *)
(* whatever inserts fail and wherever the process dies; and that it        *)
(* implements DepegWindows.                                                *)
(***************************************************************************)
EXTENDS IndexerService, SequenceTheorems, TLAPS

-----------------------------------------------------------------------------
(* What one call of sample() does to a well-formed detector.               *)

\* A new detector is well formed.
LEMMA QuietType == Quiet \in DetectorState
BY NoneIsNotATime DEF Quiet, DetectorState

\* sample() keeps the detector well formed: a window start is recorded exactly
\* while it is active, and is the first breach of the current run.
LEMMA AfterSampleType ==
  ASSUME NEW d \in DetectorState, NEW ts \in Int, NEW rBps \in Int
  PROVE  AfterSample(d, ts, rBps) \in DetectorState
<1>1. CASE Breach(rBps)
  <2>1. FirstBreach(d, ts) \in Int
    BY DEF FirstBreach, DetectorState
  <2>2. d.active => ~Opens(d, ts, rBps) /\ FirstBreach(d, ts) = d.windowStart
    BY NoneIsNotATime DEF Opens, FirstBreach, DetectorState
  <2>3. CASE Opens(d, ts, rBps)
    BY <1>1, <2>1, <2>3, NoneIsNotATime DEF AfterSample, AfterBreach, DetectorState
  <2>4. CASE ~Opens(d, ts, rBps)
    BY <1>1, <2>1, <2>2, <2>4, NoneIsNotATime DEF AfterSample, AfterBreach, DetectorState
  <2> QED BY <2>3, <2>4
<1>2. CASE ~Breach(rBps)
  BY <1>2, QuietType DEF AfterSample
<1> QED BY <1>1, <1>2

\* sample() answers an event or null.
LEMMA EventOfType ==
  ASSUME NEW d \in DetectorState, NEW ts \in Int, NEW rBps \in Int
  PROVE  EventOf(d, ts, rBps) \in DetectorEvents \cup {None}
<1>1. FirstBreach(d, ts) \in Int
  BY DEF FirstBreach, DetectorState
<1>2. d.windowStart # None => d.windowStart \in Int
  BY DEF DetectorState
<1> QED
  BY <1>1, <1>2 DEF EventOf, StartEvent, EndEvent, DetectorEvents

\* Which answer is which.
LEMMA EventKinds ==
  ASSUME NEW d \in DetectorState, NEW ts \in Int, NEW rBps \in Int
  PROVE  LET e == EventOf(d, ts, rBps) IN
         /\ e = None <=> ~Opens(d, ts, rBps) /\ ~Closes(d, rBps)
         /\ e # None => (e.type = "DEPEG_START" <=> Opens(d, ts, rBps))
<1>1. FirstBreach(d, ts) \in Int
  BY DEF FirstBreach, DetectorState
<1>2. d.windowStart # None => d.windowStart \in Int
  BY DEF DetectorState
<1>3. \A s \in Int : StartEvent(s) # None /\ \A t \in Int : EndEvent(s, t) # None
  BY NoneIsNotAnEvent DEF StartEvent, EndEvent, DetectorEvents
<1>4. \A s, t : StartEvent(s).type = "DEPEG_START" /\ EndEvent(s, t).type = "DEPEG_END"
  BY DEF StartEvent, EndEvent
<1> QED BY <1>1, <1>2, <1>3, <1>4 DEF EventOf

\* Two answers are the same only if they say the same.
LEMMA AnswersDiffer ==
  /\ \A s \in Int : StartEvent(s) # None
  /\ \A s, e \in Int : EndEvent(s, e) # None
  /\ \A s, t, e : StartEvent(s) # EndEvent(t, e)
  /\ \A s, t : StartEvent(s) = StartEvent(t) <=> s = t
  /\ \A s, t, e : EndEvent(s, e) = EndEvent(t, e) <=> s = t
<1>1. \A s \in Int : StartEvent(s) \in DetectorEvents
  BY DEF StartEvent, DetectorEvents
<1>2. \A s, e \in Int : EndEvent(s, e) \in DetectorEvents
  BY DEF EndEvent, DetectorEvents
<1>3. \A s, t, e : StartEvent(s).type # EndEvent(t, e).type
  BY DEF StartEvent, EndEvent
<1>4. \A s, e : StartEvent(s).start = s /\ EndEvent(s, e).start = s
  BY DEF StartEvent, EndEvent
<1> QED BY <1>1, <1>2, <1>3, <1>4, NoneIsNotAnEvent

\* The detector's times lie in the past, and an active one's run has lasted.
InThePast(d, now) ==
  /\ d.lastBreachAt # None => d.lastBreachAt <= now
  /\ d.active => d.windowStart + GracePeriod <= now

\* A run of breaches has begun and has not yet lasted the grace period.
Pending(d) == ~d.active /\ d.lastBreachAt # None

\* What sample() does to the three fields.
LEMMA AfterSampleFields ==
  ASSUME NEW d \in DetectorState, NEW ts \in Int, NEW rBps \in Int
  PROVE  LET e == AfterSample(d, ts, rBps) IN
         /\ ~Breach(rBps) => e = Quiet
         /\ Breach(rBps) =>
              /\ e.lastBreachAt = FirstBreach(d, ts) /\ FirstBreach(d, ts) \in Int
              /\ e.active <=> d.active \/ Opens(d, ts, rBps)
              /\ e.windowStart = IF Opens(d, ts, rBps) THEN FirstBreach(d, ts) ELSE d.windowStart
<1> DEFINE e == AfterSample(d, ts, rBps)
<1>1. CASE ~Breach(rBps)
  BY <1>1 DEF AfterSample
<1>2. CASE Breach(rBps)
  <2>1. e = AfterBreach(d, ts, rBps)
    BY <1>2 DEF AfterSample
  <2>2. FirstBreach(d, ts) \in Int
    BY DEF FirstBreach, DetectorState
  <2>3. e.active = (d.active \/ Opens(d, ts, rBps))
    BY <2>1 DEF AfterBreach
  <2>4. /\ e.lastBreachAt = FirstBreach(d, ts)
        /\ e.windowStart = IF Opens(d, ts, rBps) THEN FirstBreach(d, ts) ELSE d.windowStart
    BY <2>1 DEF AfterBreach
  <2> QED BY <1>2, <2>2, <2>3, <2>4
<1> QED BY <1>1, <1>2

\* sample() keeps the detector's times in the past.
LEMMA AfterSampleInThePast ==
  ASSUME NEW d \in DetectorState, NEW ts \in Int, NEW rBps \in Int, InThePast(d, ts)
  PROVE  InThePast(AfterSample(d, ts, rBps), ts)
<1> DEFINE e == AfterSample(d, ts, rBps)
<1>1. CASE ~Breach(rBps)
  BY <1>1 DEF AfterSample, Quiet, InThePast
<1>2. CASE Breach(rBps)
  <2>1. FirstBreach(d, ts) \in Int /\ FirstBreach(d, ts) <= ts
    BY DEF FirstBreach, DetectorState, InThePast
  <2>2. Opens(d, ts, rBps) => ts - FirstBreach(d, ts) >= GracePeriod /\ ~d.active
    BY DEF Opens
  <2>3. /\ e.lastBreachAt = FirstBreach(d, ts)
        /\ e.active <=> d.active \/ Opens(d, ts, rBps)
        /\ e.windowStart = IF Opens(d, ts, rBps) THEN FirstBreach(d, ts) ELSE d.windowStart
    BY <1>2, AfterSampleFields
  <2> HIDE DEF e
  <2> QED BY <2>1, <2>2, <2>3, DetectorConfig DEF InThePast, e
<1> QED BY <1>1, <1>2

\* If the grace period is not zero, a run that begins or is still pending after
\* a sample begins after every moment x from which the grace period has passed
\* and that lay before the run pending so far, if any.
LEMMA RunsBeginLate ==
  ASSUME NEW d \in DetectorState, NEW ts \in Int, NEW rBps \in Int,
         InThePast(d, ts), GracePeriod > 0
  PROVE  LET e == AfterSample(d, ts, rBps) IN
         \A x \in Int :
           /\ x + GracePeriod <= ts
           /\ Pending(d) => x < d.lastBreachAt
           /\ Pending(e) \/ Opens(d, ts, rBps)
           => x < e.lastBreachAt
<1> DEFINE e == AfterSample(d, ts, rBps)
<1>1. CASE ~Breach(rBps)
  BY <1>1 DEF AfterSample, Quiet, Opens, Pending
<1>2. CASE Breach(rBps)
  <2>1. FirstBreach(d, ts) \in Int /\ e.lastBreachAt = FirstBreach(d, ts)
    BY <1>2, AfterSampleFields
  <2>2. e.active <=> d.active \/ Opens(d, ts, rBps)
    BY <1>2, AfterSampleFields
  <2>3. Opens(d, ts, rBps) => ~d.active
    BY DEF Opens
  <2>4. ASSUME NEW x \in Int, x + GracePeriod <= ts, Pending(d) => x < d.lastBreachAt,
               Pending(e) \/ Opens(d, ts, rBps)
        PROVE  x < e.lastBreachAt
    <3>1. CASE d.lastBreachAt = None
      BY <2>1, <2>4, <3>1, DetectorConfig DEF FirstBreach
    <3>2. CASE d.lastBreachAt # None
      BY <2>1, <2>2, <2>3, <2>4, <3>2 DEF FirstBreach, Pending
    <3> QED BY <3>1, <3>2
  <2> QED BY <2>4
<1> QED BY <1>1, <1>2

-----------------------------------------------------------------------------
(* Types.                                                                  *)

LEMMA AttemptType ==
  ASSUME TypeOK, NEW outcome, Attempt(outcome)
  PROVE  /\ outcome \in Outcomes
         /\ failures' \in Nat
         /\ clock' = clock /\ polls' = polls /\ crashes' = crashes
BY DEF TypeOK, Attempt, Outcomes

\* What the detector's answer leads to.
LEMMA FeedType ==
  ASSUME TypeOK, sample # None, FeedDetector
  PROVE  /\ det' \in DetectorState
         /\ pc' \in {"sleep", "start_snapshot", "end_snapshot"}
         /\ pc' = "start_snapshot" => det'.active /\ Opens(det, sample.ts, sample.rBps)
         /\ pc' = "end_snapshot" => currentEvent # None
         /\ sample' \in Samples \cup {None}
         /\ pc' # "sleep" => sample' = sample
         /\ cid' \in Cids \cup {None}
<1>1. det \in DetectorState /\ sample.ts \in Int /\ sample.rBps \in Int
  BY DEF TypeOK, Samples
<1>2. det' = AfterSample(det, sample.ts, sample.rBps)
  BY DEF FeedDetector
<1>3. det' \in DetectorState
  BY <1>1, <1>2, AfterSampleType
<1>4. pc' \in {"sleep", "start_snapshot", "end_snapshot"}
  BY DEF FeedDetector, GoTo
<1>5. pc' = "start_snapshot" => Opens(det, sample.ts, sample.rBps)
  BY <1>1, EventKinds DEF FeedDetector, GoTo
<1>6. Opens(det, sample.ts, sample.rBps) => det'.active
  BY <1>1, <1>2 DEF AfterSample, AfterBreach, Opens
<1>7. pc' = "end_snapshot" => currentEvent # None
  BY DEF FeedDetector, GoTo
<1>8. /\ sample' = IF pc' = "sleep" THEN None ELSE sample
      /\ cid' = IF pc' = "sleep" THEN None ELSE cid
  BY DEF FeedDetector, GoTo
<1> QED BY <1>3, <1>4, <1>5, <1>6, <1>7, <1>8 DEF TypeOK

LEMMA PersistEventType ==
  ASSUME TypeOK, currentEvent # None, NEW state \in {"OPEN", "RESOLVED"},
         NEW end \in Int \cup {None}, NEW severity \in Nat, NEW outcome,
         PersistEvent(state, end, severity, outcome)
  PROVE  risk_events' \in Seq(Rows) /\ currentEvent' \in Events /\ currentEvent' # None
<1>1. currentEvent \in Events
  BY DEF TypeOK
<1>2. [risk |-> currentEvent.start, version |-> currentEvent.version,
       state |-> state, end |-> end, severity |-> severity] \in Rows
  BY <1>1 DEF Events, Rows
<1>3. currentEvent' \in Events
  BY <1>1 DEF PersistEvent, Events
<1> QED BY <1>2, <1>3, NoneIsNoRecord, AppendProperties DEF TypeOK, PersistEvent

\* Before the first poll nothing is tracked, pending or stored.
LEMMA InitType == Init => TypeOK
BY QuietType DEF Init, TypeOK, Quiet

LEMMA StartPollType == TypeOK /\ StartPoll => TypeOK'
<1> SUFFICES ASSUME TypeOK, StartPoll PROVE TypeOK'
  OBVIOUS
<1>1. PICK ts \in clock..MaxTime, rBps \in Ratios, loss \in Losses :
        sample' = [ts |-> ts, rBps |-> rBps, loss |-> loss] /\ clock' = ts
  BY DEF StartPoll
<1>2. clock' \in Int /\ sample' \in Samples
  BY <1>1, IndexerConfig DEF TypeOK, Samples
<1> QED BY <1>2, NoneIsNoRecord DEF TypeOK, StartPoll, tables

LEMMA InsertSampleType ==
  ASSUME TypeOK, NEW outcome, InsertSample(outcome)
  PROVE  TypeOK'
<1>1. /\ pc = "insert_sample" /\ sample \in Samples
      /\ failures' \in Nat /\ clock' = clock /\ polls' = polls /\ crashes' = crashes
  BY AttemptType DEF InsertSample, TypeOK
<1>2. pool_samples' \subseteq Samples
  BY <1>1 DEF InsertSample, Insert, TypeOK
<1>3. CASE outcome # "stored"
  BY <1>1, <1>2, <1>3 DEF InsertSample, GoTo, TypeOK
<1>4. CASE outcome = "stored" /\ currentEvent # None
  <2>1. currentEvent' \in Events
    BY <1>1, <1>4 DEF InsertSample, TypeOK, Events, Samples, MaxOf
  <2> QED BY <1>1, <1>2, <1>4, <2>1, NoneIsNoRecord DEF InsertSample, GoTo, TypeOK
<1>5. CASE outcome = "stored" /\ currentEvent = None
  <2>1. FeedDetector
    BY <1>5 DEF InsertSample
  <2> QED BY <1>1, <1>2, <1>5, <2>1, NoneIsNoRecord, FeedType DEF InsertSample, TypeOK
<1> QED BY <1>3, <1>4, <1>5

LEMMA PersistOpenType ==
  ASSUME TypeOK, NEW outcome, PersistOpen(outcome)
  PROVE  TypeOK'
<1>1. pc = "persist_open" /\ sample \in Samples /\ sample # None /\ currentEvent \in Events /\ currentEvent # None
  BY NoneIsNoRecord DEF PersistOpen, TypeOK
<1>2. /\ failures' \in Nat /\ clock' = clock /\ polls' = polls /\ crashes' = crashes
      /\ risk_events' \in Seq(Rows) /\ currentEvent' \in Events /\ currentEvent' # None
      /\ UNCHANGED <<pool_samples, snapshots, webhooks>>
  BY <1>1, AttemptType, PersistEventType DEF PersistOpen, PersistEvent, Events
<1>3. CASE outcome = "stored"
  BY <1>1, <1>2, <1>3, FeedType DEF PersistOpen, TypeOK
<1>4. CASE outcome # "stored"
  BY <1>1, <1>2, <1>4 DEF PersistOpen, GoTo, TypeOK
<1> QED BY <1>3, <1>4

LEMMA PersistSnapshotType ==
  ASSUME TypeOK, NEW risk \in Int, NEW label \in {"DEPEG_START", "DEPEG_END"}, NEW c \in Cids,
         NEW outcome, PersistSnapshot(risk, label, c, outcome)
  PROVE  /\ failures' \in Nat /\ clock' = clock /\ polls' = polls /\ crashes' = crashes
         /\ snapshots' \subseteq SnapshotRows
         /\ UNCHANGED <<pool_samples, risk_events, webhooks>>
BY AttemptType DEF PersistSnapshot, Insert, SnapshotRows, TypeOK

LEMMA StartSnapshotType ==
  ASSUME TypeOK, NEW outcome, NEW c \in Cids, StartSnapshot(outcome, c)
  PROVE  TypeOK'
<1>1. /\ pc = "start_snapshot" /\ sample \in Samples /\ sample # None
      /\ det \in DetectorState /\ det.windowStart \in Int
  BY NoneIsNoRecord DEF StartSnapshot, TypeOK, DetectorState
<1>2. /\ failures' \in Nat /\ clock' = clock /\ polls' = polls /\ crashes' = crashes
      /\ snapshots' \subseteq SnapshotRows
      /\ UNCHANGED <<pool_samples, risk_events, webhooks>>
  BY <1>1, PersistSnapshotType DEF StartSnapshot
<1>3. CASE outcome = "stored"
  <2>1. currentEvent' \in Events
    BY <1>1, <1>3 DEF StartSnapshot, Events, Samples
  <2> QED BY <1>1, <1>2, <1>3, <2>1, NoneIsNoRecord DEF StartSnapshot, TypeOK
<1>4. CASE outcome # "stored"
  BY <1>1, <1>2, <1>4 DEF StartSnapshot, GoTo, TypeOK
<1> QED BY <1>3, <1>4

LEMMA PersistStartType ==
  ASSUME TypeOK, NEW outcome, PersistStart(outcome)
  PROVE  TypeOK'
<1>1. /\ pc = "persist_start" /\ sample \in Samples /\ sample # None
      /\ currentEvent # None /\ cid \in Cids /\ sample.loss \in Nat
  BY NoneIsNoRecord DEF PersistStart, TypeOK, Samples
<1>2. /\ failures' \in Nat /\ clock' = clock /\ polls' = polls /\ crashes' = crashes
      /\ risk_events' \in Seq(Rows) /\ currentEvent' \in Events /\ currentEvent' # None
      /\ UNCHANGED <<pool_samples, snapshots, webhooks>>
  BY <1>1, AttemptType, PersistEventType DEF PersistStart, PersistEvent
<1> QED BY <1>1, <1>2 DEF PersistStart, GoTo, TypeOK

LEMMA PersistEndType ==
  ASSUME TypeOK, NEW outcome, PersistEnd(outcome)
  PROVE  TypeOK'
<1>1. /\ pc = "persist_end" /\ sample \in Samples /\ sample # None
      /\ currentEvent # None /\ cid \in Cids /\ sample.ts \in Int
      /\ MaxOf(currentEvent.maxLossBps, sample.loss) \in Nat
  BY NoneIsNoRecord DEF PersistEnd, TypeOK, Samples, Events, MaxOf
<1>2. /\ failures' \in Nat /\ clock' = clock /\ polls' = polls /\ crashes' = crashes
      /\ risk_events' \in Seq(Rows) /\ currentEvent' \in Events /\ currentEvent' # None
      /\ UNCHANGED <<pool_samples, snapshots, webhooks>>
  BY <1>1, AttemptType, PersistEventType DEF PersistEnd, PersistEvent
<1> QED BY <1>1, <1>2 DEF PersistEnd, GoTo, TypeOK

LEMMA EndSnapshotType ==
  ASSUME TypeOK, NEW outcome, NEW c \in Cids, EndSnapshot(outcome, c)
  PROVE  TypeOK'
<1>1. /\ pc = "end_snapshot" /\ sample \in Samples /\ sample # None
      /\ currentEvent # None /\ currentEvent.start \in Int
  BY NoneIsNoRecord DEF EndSnapshot, TypeOK, Events
<1>2. /\ failures' \in Nat /\ clock' = clock /\ polls' = polls /\ crashes' = crashes
      /\ snapshots' \subseteq SnapshotRows
      /\ UNCHANGED <<pool_samples, risk_events, webhooks>>
  BY <1>1, PersistSnapshotType DEF EndSnapshot
<1> QED BY <1>1, <1>2 DEF EndSnapshot, GoTo, TypeOK

\* Both emits: an anchor may be added, then poll() is over.
LEMMA EmitType ==
  ASSUME TypeOK, NEW delivered \in BOOLEAN, EmitStart(delivered) \/ EmitEnd(delivered)
  PROVE  TypeOK'
<1>1. /\ pc \in {"emit_start", "emit_end"} /\ sample.ts \in Int
      /\ currentEvent # None /\ currentEvent.start \in Int /\ cid \in Cids
  BY NoneIsNoRecord DEF EmitStart, EmitEnd, TypeOK, Samples, Events
<1>2. webhooks' \in Seq(Anchors)
  <2>1. CASE EmitStart(delivered)
    <3>1. [kind |-> "DEPEG_START", risk |-> currentEvent.start,
           timestamp |-> currentEvent.start, cid |-> cid] \in Anchors
      BY <1>1 DEF Anchors
    <3> QED BY <2>1, <3>1, AppendProperties DEF EmitStart, EmitWebhook, TypeOK
  <2>2. CASE EmitEnd(delivered)
    <3>1. [kind |-> "DEPEG_END", risk |-> currentEvent.start,
           timestamp |-> sample.ts, cid |-> cid] \in Anchors
      BY <1>1 DEF Anchors
    <3> QED BY <2>2, <3>1, AppendProperties DEF EmitEnd, EmitWebhook, TypeOK
  <2> QED BY <2>1, <2>2
<1> QED BY <1>2 DEF EmitStart, EmitEnd, EmitWebhook, GoTo, TypeOK

LEMMA CrashType == TypeOK /\ Crash => TypeOK'
BY QuietType DEF TypeOK, Crash, tables

LEMMA StepType == TypeOK /\ [Next]_vars => TypeOK'
<1> SUFFICES ASSUME TypeOK, [Next]_vars PROVE TypeOK'
  OBVIOUS
<1>1. CASE StartPoll
  BY <1>1, StartPollType
<1>2. CASE \E outcome \in Outcomes : InsertSample(outcome)
  BY <1>2, InsertSampleType
<1>3. CASE \E outcome \in Outcomes : PersistOpen(outcome)
  BY <1>3, PersistOpenType
<1>4. CASE \E outcome \in Outcomes, c \in Cids : StartSnapshot(outcome, c)
  BY <1>4, StartSnapshotType
<1>5. CASE \E outcome \in Outcomes : PersistStart(outcome)
  BY <1>5, PersistStartType
<1>6. CASE \E outcome \in Outcomes, c \in Cids : EndSnapshot(outcome, c)
  BY <1>6, EndSnapshotType
<1>7. CASE \E outcome \in Outcomes : PersistEnd(outcome)
  BY <1>7, PersistEndType
<1>8. CASE \E delivered \in BOOLEAN : EmitStart(delivered) \/ EmitEnd(delivered)
  BY <1>8, EmitType
<1>9. CASE Crash
  BY <1>9, CrashType
<1>10. CASE UNCHANGED vars
  BY <1>10 DEF vars, memory, tables, TypeOK
<1> QED
  BY <1>1, <1>2, <1>3, <1>4, <1>5, <1>6, <1>7, <1>8, <1>9, <1>10 DEF Next, Answer

\* Every variable keeps its type; in particular each step of poll() finds the
\* sample, the CID and the current event it uses.
THEOREM TypeCorrect == Spec => []TypeOK
BY InitType, StepType, PTL DEF Spec

\* The only rows ever written: persistEvent's, for the current event, at one of
\* the three awaits.
LEMMA RowsWritten ==
  ASSUME TypeOK, [Next]_vars, risk_events' # risk_events
  PROVE  \E row \in Rows :
           /\ risk_events' = Append(risk_events, row)
           /\ currentEvent # None /\ row.risk = currentEvent.start
           /\ row.version = currentEvent.version
           /\ \/ /\ pc = "persist_start" /\ row.state = "OPEN" /\ row.end = None
                 /\ row.severity = sample.loss
              \/ /\ pc = "persist_open" /\ row.state = "OPEN" /\ row.end = None
                 /\ row.severity = currentEvent.maxLossBps
              \/ /\ pc = "persist_end" /\ row.state = "RESOLVED" /\ row.end = sample.ts
                 /\ row.severity = MaxOf(currentEvent.maxLossBps, sample.loss)
<1>1. \E outcome \in Outcomes : PersistStart(outcome) \/ PersistOpen(outcome) \/ PersistEnd(outcome)
  BY DEF Next, Answer, StartPoll, InsertSample, StartSnapshot, EndSnapshot, PersistSnapshot,
     EmitStart, EmitEnd, EmitWebhook, Crash, tables, vars
<1>2. PICK outcome \in Outcomes :
        PersistStart(outcome) \/ PersistOpen(outcome) \/ PersistEnd(outcome)
  BY <1>1
<1>3. /\ pc \in {"persist_start", "persist_open", "persist_end"}
      /\ currentEvent # None /\ currentEvent \in Events /\ sample \in Samples
  BY <1>2, NoneIsNoRecord DEF TypeOK, PersistStart, PersistOpen, PersistEnd
<1>4. /\ currentEvent.start \in Int /\ currentEvent.version \in Nat /\ currentEvent.maxLossBps \in Nat
      /\ sample.ts \in Int /\ sample.loss \in Nat
      /\ MaxOf(currentEvent.maxLossBps, sample.loss) \in Nat
  BY <1>3 DEF Events, Samples, MaxOf
<1> DEFINE Row(state, end, severity) ==
      [risk |-> currentEvent.start, version |-> currentEvent.version,
       state |-> state, end |-> end, severity |-> severity]
<1>5. CASE PersistStart(outcome)
  <2>1. pc = "persist_start" /\ risk_events' = Append(risk_events, Row("OPEN", None, sample.loss))
    BY <1>5 DEF PersistStart, PersistEvent
  <2>2. Row("OPEN", None, sample.loss) \in Rows
    BY <1>4 DEF Rows
  <2> QED BY <1>3, <2>1, <2>2
<1>6. CASE PersistOpen(outcome)
  <2>1. /\ pc = "persist_open"
        /\ risk_events' = Append(risk_events, Row("OPEN", None, currentEvent.maxLossBps))
    BY <1>6 DEF PersistOpen, PersistEvent
  <2>2. Row("OPEN", None, currentEvent.maxLossBps) \in Rows
    BY <1>4 DEF Rows
  <2> QED BY <1>3, <2>1, <2>2
<1>7. CASE PersistEnd(outcome)
  <2> DEFINE severity == MaxOf(currentEvent.maxLossBps, sample.loss)
  <2>1. pc = "persist_end" /\ risk_events' = Append(risk_events, Row("RESOLVED", sample.ts, severity))
    BY <1>7 DEF PersistEnd, PersistEvent
  <2>2. Row("RESOLVED", sample.ts, severity) \in Rows
    BY <1>4 DEF Rows
  <2> QED BY <1>3, <2>1, <2>2
<1> QED BY <1>2, <1>5, <1>6, <1>7

-----------------------------------------------------------------------------
(* Versions.  A version is safe because a risk is written by one current   *)
(* event only: the starts of windows grow, across failures and restarts,   *)
(* and a run of breaches that could open a window began after every start  *)
(* that was ever used.                                                     *)

Now ==
  /\ pc # "sleep" => sample.ts = clock
  /\ InThePast(det, clock)

\* A start is used up once the grace period has passed since.
StartsInThePast ==
  /\ \A i \in DOMAIN risk_events : risk_events[i].risk + GracePeriod <= clock
  /\ currentEvent # None => currentEvent.start + GracePeriod <= clock

\* A window may still open at det.lastBreachAt.
Opening == Pending(det) \/ pc = "start_snapshot"

OpeningIsNew ==
  Opening =>
    /\ \A i \in DOMAIN risk_events : risk_events[i].risk < det.lastBreachAt
    /\ currentEvent # None => currentEvent.start < det.lastBreachAt

EventIsNewest ==
  currentEvent # None =>
    \A i \in DOMAIN risk_events :
      /\ risk_events[i].risk <= currentEvent.start
      /\ risk_events[i].risk = currentEvent.start => risk_events[i].version < currentEvent.version

IInv == TypeOK /\ Now /\ StartsInThePast /\ OpeningIsNew /\ EventIsNewest /\ VersionsNeverReused

LEMMA InitOrder == Init => IInv
<1> SUFFICES ASSUME Init PROVE IInv
  OBVIOUS
<1>1. DOMAIN risk_events = {}
  BY DEF Init
<1>2. ~Opening /\ InThePast(det, clock)
  BY DEF Init, Quiet, Opening, Pending, InThePast
<1> QED
  BY <1>1, <1>2, InitType DEF Init, IInv, Now, StartsInThePast, OpeningIsNew, EventIsNewest,
     VersionsNeverReused

\* What IInv says of the rows and of the current event, as numbers.
LEMMA Numbers ==
  ASSUME TypeOK
  PROVE  /\ \A i \in DOMAIN risk_events : risk_events[i] \in Rows
         /\ currentEvent # None => currentEvent \in Events
         /\ sample # None => sample \in Samples
         /\ clock \in Int
BY ElementOfSeq DEF TypeOK

\* The detector's times stay in the past when it sees the sample.
LEMMA FeedNow ==
  ASSUME TypeOK, Now, pc # "sleep", FeedDetector, clock' = clock
  PROVE  Now'
<1>1. sample # None /\ sample.ts = clock /\ InThePast(det, clock)
  BY DEF TypeOK, Now
<1>2. det \in DetectorState /\ sample.ts \in Int /\ sample.rBps \in Int
  BY <1>1, Numbers DEF TypeOK, Samples
<1>3. InThePast(det', clock)
  BY <1>1, <1>2, AfterSampleInThePast DEF FeedDetector
<1>4. pc' # "sleep" => sample' = sample
  BY <1>1, FeedType
<1> QED BY <1>1, <1>3, <1>4 DEF Now, InThePast

\* A start that is used up, and before any pending run, is before the run that
\* is pending or opening once the detector has seen the sample.
LEMMA FeedOrder ==
  ASSUME IInv, GracePeriod > 0, pc # "sleep", FeedDetector, clock' = clock
  PROVE  /\ Now'
         /\ Opening' => \A x \in Int : x + GracePeriod <= clock
                                        /\ (Pending(det) => x < det.lastBreachAt)
                                        => x < det'.lastBreachAt
<1>1. TypeOK /\ sample # None /\ sample.ts = clock /\ InThePast(det, clock)
  BY DEF IInv, TypeOK, Now
<1>2. det \in DetectorState /\ sample.ts \in Int /\ sample.rBps \in Int
  BY <1>1, Numbers DEF TypeOK, Samples
<1>3. det' = AfterSample(det, sample.ts, sample.rBps)
  BY DEF FeedDetector
<1>4. \A x \in Int : /\ x + GracePeriod <= clock
                     /\ Pending(det) => x < det.lastBreachAt
                     /\ Pending(det') \/ Opens(det, sample.ts, sample.rBps)
                     => x < det'.lastBreachAt
  BY <1>1, <1>2, <1>3, RunsBeginLate
<1>5. pc' = "start_snapshot" => Opens(det, sample.ts, sample.rBps)
  BY <1>1, FeedType
<1>6. Now'
  BY <1>1, FeedNow DEF IInv
<1>7. Opening' => Pending(det') \/ Opens(det, sample.ts, sample.rBps)
  BY <1>5 DEF Opening, Pending
<1> QED BY <1>4, <1>6, <1>7

\* persistEvent writes the current event's own start, under a version larger
\* than any written for it, and moves on to the next version.
LEMMA PersistOrder ==
  ASSUME IInv, currentEvent # None, NEW state \in {"OPEN", "RESOLVED"},
         NEW end \in Int \cup {None}, NEW severity \in Nat, NEW outcome,
         PersistEvent(state, end, severity, outcome)
  PROVE  /\ StartsInThePast' /\ EventIsNewest' /\ VersionsNeverReused'
         /\ clock' = clock /\ currentEvent'.start = currentEvent.start
         /\ \A y \in Int :
              /\ \A i \in DOMAIN risk_events : risk_events[i].risk < y
              /\ currentEvent.start < y
              => \A i \in DOMAIN risk_events' : risk_events'[i].risk < y
<1> DEFINE row == [risk |-> currentEvent.start, version |-> currentEvent.version,
                   state |-> state, end |-> end, severity |-> severity]
<1>1. /\ TypeOK /\ currentEvent \in Events /\ risk_events \in Seq(Rows) /\ clock \in Int
      /\ \A i \in DOMAIN risk_events : risk_events[i] \in Rows
  BY Numbers DEF IInv, TypeOK
<1>2. row \in Rows
  BY <1>1 DEF Events, Rows
<1>3. /\ clock' = clock /\ currentEvent' # None
      /\ currentEvent'.start = currentEvent.start
      /\ currentEvent'.version = currentEvent.version + 1
  BY <1>1, AttemptType, PersistEventType DEF PersistEvent, Events
<1>4. /\ \A i \in DOMAIN risk_events :
           /\ risk_events[i].risk + GracePeriod <= clock
           /\ risk_events[i].risk <= currentEvent.start
           /\ risk_events[i].risk = currentEvent.start
                => risk_events[i].version < currentEvent.version
      /\ currentEvent.start + GracePeriod <= clock
  BY DEF IInv, StartsInThePast, EventIsNewest
<1>5. CASE Written(outcome)
  <2>1. risk_events' = Append(risk_events, row)
    BY <1>5 DEF PersistEvent
  <2>2. PICK n \in Nat : n = Len(risk_events)
    BY <1>1
  <2>3. /\ DOMAIN risk_events = 1..n /\ DOMAIN risk_events' = 1..(n + 1)
        /\ \A i \in 1..n : risk_events'[i] = risk_events[i]
        /\ risk_events'[n + 1] = row
    BY <1>1, <1>2, <2>1, <2>2, AppendProperties
  <2>4. \A i \in DOMAIN risk_events' : i = n + 1 \/ i \in DOMAIN risk_events
    BY <2>2, <2>3
  <2>5. row.risk = currentEvent.start /\ row.version = currentEvent.version
    OBVIOUS
  <2>6. currentEvent.version \in Nat /\ currentEvent.start \in Int
    BY <1>1 DEF Events
  <2>7. \A i \in DOMAIN risk_events : risk_events[i].version \in Nat /\ risk_events[i].risk \in Int
    BY <1>1 DEF Rows
  <2> HIDE DEF row
  <2>8. StartsInThePast'
    BY <1>3, <1>4, <2>3, <2>4, <2>5 DEF StartsInThePast
  <2>9. EventIsNewest'
    BY <1>3, <1>4, <2>3, <2>4, <2>5, <2>6, <2>7 DEF EventIsNewest
  <2>10. VersionsNeverReused'
    <3>1. \A i \in DOMAIN risk_events : ~SameKey(risk_events[i], row)
      BY <1>4, <2>5, <2>6, <2>7 DEF SameKey
    <3>2. \A i \in DOMAIN risk_events : ~SameKey(row, risk_events[i])
      BY <1>4, <2>5, <2>6, <2>7 DEF SameKey
    <3> QED
      BY <2>3, <2>4, <3>1, <3>2 DEF VersionsNeverReused, IInv
  <2> QED BY <1>3, <2>3, <2>4, <2>5, <2>8, <2>9, <2>10
<1>6. CASE ~Written(outcome)
  <2>1. risk_events' = risk_events
    BY <1>6 DEF PersistEvent
  <2>2. currentEvent.version \in Nat
    BY <1>1 DEF Events
  <2>3. \A i \in DOMAIN risk_events : risk_events[i].version \in Nat
    BY <1>1 DEF Rows
  <2> QED
    BY <1>3, <1>4, <2>1, <2>2, <2>3
    DEF StartsInThePast, EventIsNewest, VersionsNeverReused, IInv
<1> QED BY <1>5, <1>6

\* A step that leaves the rows, the current event's identity, the detector and
\* the clock alone, and does not enter start_snapshot, keeps the order.
LEMMA QuietStepOrder ==
  ASSUME IInv, TypeOK', risk_events' = risk_events, det' = det, clock' = clock,
         pc' # "start_snapshot", pc' # "sleep" => pc # "sleep" /\ sample' = sample,
         \/ currentEvent' = None
         \/ /\ currentEvent # None
            /\ currentEvent'.start = currentEvent.start
            /\ currentEvent'.version = currentEvent.version
  PROVE  IInv'
<1>1. Now'
  BY DEF IInv, Now, InThePast
<1>2. StartsInThePast' /\ EventIsNewest' /\ VersionsNeverReused'
  BY DEF IInv, StartsInThePast, EventIsNewest, VersionsNeverReused
<1>3. OpeningIsNew'
  BY DEF IInv, OpeningIsNew, Opening, Pending
<1> QED BY <1>1, <1>2, <1>3 DEF IInv

LEMMA StartPollNow ==
  ASSUME TypeOK, Now, StartPoll
  PROVE  /\ clock \in Int /\ clock' \in Int /\ clock <= clock' /\ sample'.ts = clock'
         /\ pc' = "insert_sample" /\ UNCHANGED <<cid, det, currentEvent, tables>>
         /\ Now'
<1>1. TypeOK' /\ clock \in Int /\ clock' \in Int
  BY StartPollType DEF TypeOK
<1>2. /\ clock <= clock' /\ sample'.ts = clock' /\ pc' = "insert_sample"
      /\ UNCHANGED <<cid, det, currentEvent, tables>>
  <2>1. PICK ts \in clock..MaxTime, rBps \in Ratios, loss \in Losses :
          sample' = [ts |-> ts, rBps |-> rBps, loss |-> loss] /\ clock' = ts
    BY DEF StartPoll
  <2> QED BY <1>1, <2>1, IndexerConfig DEF StartPoll
<1>3. Now'
  <2>1. det.lastBreachAt # None => det.lastBreachAt \in Int
    BY DEF TypeOK, DetectorState
  <2>2. det.active => det.windowStart \in Int
    BY DEF TypeOK, DetectorState
  <2> QED BY <1>1, <1>2, <2>1, <2>2, DetectorConfig DEF Now, InThePast
<1> QED BY <1>1, <1>2, <1>3

LEMMA StartPollOrder ==
  ASSUME IInv, StartPoll
  PROVE  IInv'
<1>1. TypeOK /\ TypeOK'
  BY StartPollType DEF IInv
<1>2. /\ clock \in Int /\ clock' \in Int /\ clock <= clock'
      /\ pc' = "insert_sample" /\ Now'
      /\ UNCHANGED <<det, currentEvent, risk_events>>
  BY StartPollNow DEF IInv, tables
<1>3. StartsInThePast'
  <2>1. \A i \in DOMAIN risk_events : risk_events[i].risk \in Int
    BY <1>1, Numbers DEF Rows
  <2>2. currentEvent # None => currentEvent.start \in Int
    BY <1>1, Numbers DEF Events
  <2> QED BY <1>2, <2>1, <2>2, DetectorConfig DEF IInv, StartsInThePast
<1>4. OpeningIsNew' /\ EventIsNewest' /\ VersionsNeverReused'
  BY <1>2 DEF IInv, OpeningIsNew, Opening, Pending, EventIsNewest, VersionsNeverReused
<1> QED BY <1>1, <1>2, <1>3, <1>4 DEF IInv

LEMMA InsertSampleOrder ==
  ASSUME IInv, GracePeriod > 0, NEW outcome, InsertSample(outcome)
  PROVE  IInv'
<1>1. TypeOK /\ TypeOK' /\ clock' = clock /\ risk_events' = risk_events /\ pc = "insert_sample"
  BY InsertSampleType, AttemptType DEF IInv, InsertSample
<1>2. CASE outcome # "stored"
  BY <1>1, <1>2, QuietStepOrder DEF InsertSample, GoTo
<1>3. CASE outcome = "stored" /\ currentEvent # None
  <2>1. /\ currentEvent'.start = currentEvent.start
        /\ currentEvent'.version = currentEvent.version
    BY <1>1, <1>3 DEF InsertSample, TypeOK, Events
  <2> QED BY <1>1, <1>3, <2>1, QuietStepOrder DEF InsertSample, GoTo
<1>4. CASE outcome = "stored" /\ currentEvent = None
  <2>1. FeedDetector /\ currentEvent' = None
    BY <1>4 DEF InsertSample
  <2>2. /\ Now'
        /\ Opening' => \A x \in Int : x + GracePeriod <= clock
                                       /\ (Pending(det) => x < det.lastBreachAt)
                                       => x < det'.lastBreachAt
    BY <1>1, <2>1, FeedOrder
  <2>3. \A i \in DOMAIN risk_events :
          /\ risk_events[i].risk \in Int
          /\ risk_events[i].risk + GracePeriod <= clock
          /\ Pending(det) => risk_events[i].risk < det.lastBreachAt
    BY <1>1, Numbers DEF Rows, IInv, StartsInThePast, OpeningIsNew, Opening
  <2>4. OpeningIsNew'
    BY <1>1, <2>1, <2>2, <2>3 DEF OpeningIsNew
  <2> QED
    BY <1>1, <2>1, <2>2, <2>4 DEF IInv, StartsInThePast, EventIsNewest, VersionsNeverReused
<1> QED BY <1>2, <1>3, <1>4

LEMMA PersistOpenOrder ==
  ASSUME IInv, GracePeriod > 0, NEW outcome, PersistOpen(outcome)
  PROVE  IInv'
<1>1. /\ TypeOK /\ TypeOK' /\ pc = "persist_open" /\ currentEvent \in Events
      /\ currentEvent # None /\ currentEvent.maxLossBps \in Nat
  BY PersistOpenType, NoneIsNoRecord DEF IInv, PersistOpen, TypeOK, Events
<1>2. PersistEvent("OPEN", None, currentEvent.maxLossBps, outcome)
  BY DEF PersistOpen
<1>3. /\ StartsInThePast' /\ EventIsNewest' /\ VersionsNeverReused'
      /\ clock' = clock /\ currentEvent'.start = currentEvent.start
      /\ \A y \in Int :
           /\ \A i \in DOMAIN risk_events : risk_events[i].risk < y
           /\ currentEvent.start < y
           => \A i \in DOMAIN risk_events' : risk_events'[i].risk < y
  BY <1>1, <1>2, PersistOrder
<1>4. CASE outcome = "stored"
  <2>1. FeedDetector
    BY <1>4 DEF PersistOpen
  <2>2. /\ Now'
        /\ Opening' => \A x \in Int : x + GracePeriod <= clock
                                       /\ (Pending(det) => x < det.lastBreachAt)
                                       => x < det'.lastBreachAt
    BY <1>1, <1>3, <2>1, FeedOrder
  <2>3. \A i \in DOMAIN risk_events :
          /\ risk_events[i].risk \in Int
          /\ risk_events[i].risk + GracePeriod <= clock
          /\ Pending(det) => risk_events[i].risk < det.lastBreachAt
    BY <1>1, Numbers DEF Rows, IInv, StartsInThePast, OpeningIsNew, Opening
  <2>4. /\ currentEvent.start \in Int
        /\ currentEvent.start + GracePeriod <= clock
        /\ Pending(det) => currentEvent.start < det.lastBreachAt
    BY <1>1 DEF Events, IInv, StartsInThePast, OpeningIsNew, Opening
  <2>5. Opening' => det'.lastBreachAt \in Int
    BY <1>1 DEF Opening, Pending, TypeOK, DetectorState
  <2>6. OpeningIsNew'
    BY <1>3, <2>2, <2>3, <2>4, <2>5 DEF OpeningIsNew
  <2> QED BY <1>1, <1>3, <2>2, <2>6 DEF IInv
<1>5. CASE outcome # "stored"
  <2>1. pc' = "sleep" /\ det' = det
    BY <1>5 DEF PersistOpen, GoTo
  <2>2. Now' /\ OpeningIsNew'
    <3>1. Pending(det) => det.lastBreachAt \in Int
      BY <1>1 DEF Pending, TypeOK, DetectorState
    <3> QED
      BY <1>1, <1>3, <2>1, <3>1 DEF IInv, Now, InThePast, OpeningIsNew, Opening, Pending
  <2> QED BY <1>1, <1>3, <2>2 DEF IInv
<1> QED BY <1>4, <1>5

LEMMA StartSnapshotOrder ==
  ASSUME IInv, NEW outcome, NEW c \in Cids, StartSnapshot(outcome, c)
  PROVE  IInv'
<1>1. /\ TypeOK /\ TypeOK' /\ clock' = clock /\ risk_events' = risk_events /\ det' = det
      /\ pc = "start_snapshot" /\ det.active
  BY StartSnapshotType, AttemptType DEF IInv, TypeOK, StartSnapshot, PersistSnapshot
<1>2. CASE outcome # "stored"
  BY <1>1, <1>2, QuietStepOrder DEF StartSnapshot, GoTo
<1>3. CASE outcome = "stored"
  <2>1. /\ currentEvent'.start = det.windowStart
        /\ currentEvent' # None
        /\ pc' = "persist_start" /\ sample' = sample
    BY <1>1, <1>3 DEF StartSnapshot, TypeOK
  <2>2. /\ det.windowStart = det.lastBreachAt
        /\ det.windowStart + GracePeriod <= clock
        /\ \A i \in DOMAIN risk_events : risk_events[i].risk < det.windowStart
    BY <1>1 DEF IInv, TypeOK, DetectorState, Now, InThePast, OpeningIsNew, Opening
  <2>3. \A i \in DOMAIN risk_events : risk_events[i].risk \in Int
    BY <1>1, Numbers DEF Rows
  <2>4. det.windowStart \in Int
    BY <1>1 DEF TypeOK, DetectorState
  <2>5. Now' /\ OpeningIsNew'
    BY <1>1, <2>1 DEF IInv, Now, InThePast, OpeningIsNew, Opening, Pending
  <2>6. StartsInThePast' /\ EventIsNewest' /\ VersionsNeverReused'
    BY <1>1, <2>1, <2>2, <2>3, <2>4
    DEF IInv, StartsInThePast, EventIsNewest, VersionsNeverReused
  <2> QED BY <1>1, <2>5, <2>6 DEF IInv
<1> QED BY <1>2, <1>3

LEMMA PersistStartEndOrder ==
  ASSUME IInv, NEW outcome, PersistStart(outcome) \/ PersistEnd(outcome)
  PROVE  IInv'
<1>1. /\ TypeOK /\ TypeOK' /\ currentEvent # None /\ det' = det
      /\ pc \notin {"sleep", "start_snapshot"} /\ pc' # "start_snapshot"
      /\ pc' # "sleep" => sample' = sample
  BY PersistStartType, PersistEndType DEF IInv, PersistStart, PersistEnd, GoTo, TypeOK
<1>2. PICK state \in {"OPEN", "RESOLVED"}, end \in Int \cup {None}, severity \in Nat :
        PersistEvent(state, end, severity, outcome)
  <2>1. /\ sample.ts \in Int /\ sample.loss \in Nat
        /\ MaxOf(currentEvent.maxLossBps, sample.loss) \in Nat
    BY <1>1 DEF TypeOK, Samples, Events, MaxOf
  <2> QED BY <2>1 DEF PersistStart, PersistEnd
<1>3. /\ StartsInThePast' /\ EventIsNewest' /\ VersionsNeverReused'
      /\ clock' = clock /\ currentEvent'.start = currentEvent.start
      /\ \A y \in Int :
           /\ \A i \in DOMAIN risk_events : risk_events[i].risk < y
           /\ currentEvent.start < y
           => \A i \in DOMAIN risk_events' : risk_events'[i].risk < y
  BY <1>1, <1>2, PersistOrder
<1>4. Pending(det) => det.lastBreachAt \in Int
  BY <1>1 DEF Pending, TypeOK, DetectorState
<1>5. Now' /\ OpeningIsNew'
  BY <1>1, <1>3, <1>4 DEF IInv, Now, InThePast, OpeningIsNew, Opening, Pending
<1> QED BY <1>1, <1>3, <1>5 DEF IInv

LEMMA EndSnapshotOrder ==
  ASSUME IInv, NEW outcome, NEW c \in Cids, EndSnapshot(outcome, c)
  PROVE  IInv'
<1>1. /\ TypeOK' /\ clock' = clock /\ risk_events' = risk_events
      /\ det' = det /\ currentEvent' = currentEvent
      /\ pc = "end_snapshot" /\ pc' \in {"sleep", "persist_end"}
      /\ pc' # "sleep" => sample' = sample
  BY EndSnapshotType, AttemptType DEF IInv, EndSnapshot, PersistSnapshot, GoTo
<1> QED BY <1>1, QuietStepOrder

LEMMA EmitOrder ==
  ASSUME IInv, NEW delivered \in BOOLEAN, EmitStart(delivered) \/ EmitEnd(delivered)
  PROVE  IInv'
<1>1. /\ TypeOK' /\ clock' = clock /\ risk_events' = risk_events /\ det' = det
      /\ currentEvent' \in {None, currentEvent} /\ pc' = "sleep"
  BY EmitType DEF IInv, EmitStart, EmitEnd, EmitWebhook, GoTo
<1> QED BY <1>1, QuietStepOrder

LEMMA CrashOrder ==
  ASSUME IInv, Crash
  PROVE  IInv'
<1>1. /\ TypeOK' /\ clock' = clock /\ risk_events' = risk_events
      /\ det' = Quiet /\ currentEvent' = None /\ pc' = "sleep"
  BY CrashType DEF IInv, Crash, tables
<1>2. Now' /\ OpeningIsNew'
  BY <1>1 DEF Now, InThePast, OpeningIsNew, Opening, Pending, Quiet
<1>3. StartsInThePast' /\ EventIsNewest' /\ VersionsNeverReused'
  BY <1>1 DEF IInv, StartsInThePast, EventIsNewest, VersionsNeverReused
<1> QED BY <1>1, <1>2, <1>3 DEF IInv

LEMMA StepOrder ==
  ASSUME GracePeriod > 0, IInv, [Next]_vars
  PROVE  IInv'
<1>1. CASE StartPoll
  BY <1>1, StartPollOrder
<1>2. CASE \E outcome \in Outcomes : InsertSample(outcome)
  BY <1>2, InsertSampleOrder
<1>3. CASE \E outcome \in Outcomes : PersistOpen(outcome)
  BY <1>3, PersistOpenOrder
<1>4. CASE \E outcome \in Outcomes, c \in Cids : StartSnapshot(outcome, c)
  BY <1>4, StartSnapshotOrder
<1>5. CASE \E outcome \in Outcomes : PersistStart(outcome) \/ PersistEnd(outcome)
  BY <1>5, PersistStartEndOrder
<1>6. CASE \E outcome \in Outcomes, c \in Cids : EndSnapshot(outcome, c)
  BY <1>6, EndSnapshotOrder
<1>7. CASE \E delivered \in BOOLEAN : EmitStart(delivered) \/ EmitEnd(delivered)
  BY <1>7, EmitOrder
<1>8. CASE Crash
  BY <1>8, CrashOrder
<1>9. CASE UNCHANGED vars
  <2>1. TypeOK'
    BY <1>9, StepType DEF IInv
  <2> QED
    BY <1>9, <2>1 DEF vars, memory, tables, IInv, Now, InThePast, StartsInThePast, OpeningIsNew,
       Opening, Pending, EventIsNewest, VersionsNeverReused
<1> QED
  BY <1>1, <1>2, <1>3, <1>4, <1>5, <1>6, <1>7, <1>8, <1>9 DEF Next, Answer

\* If the grace period is not zero, no (risk_id, version) is written twice,
\* whatever inserts fail or go unacknowledged and wherever the process dies.
\* With a grace period of zero, which the configuration admits, a restart
\* inside one block can reuse a start, and the statement is false.
THEOREM VersionsSafe ==
  ASSUME GracePeriod > 0
  PROVE  Spec => []VersionsNeverReused
<1>1. IInv /\ [Next]_vars => IInv'
  BY StepOrder
<1>2. IInv => VersionsNeverReused
  BY DEF IInv
<1> QED BY InitOrder, <1>1, <1>2, PTL DEF Spec

-----------------------------------------------------------------------------
(* The invariant.  Every row is borne out by what is on file before it, so *)
(* memory must hold nothing that is not: the run of breaches the detector  *)
(* is in, the current event and the sample of the poll all stand on        *)
(* samples and snapshots that were acknowledged.                           *)

BreachOnFile(t) == \E p \in pool_samples : p.ts = t /\ Breach(p.rBps)
HealthyOnFile(t) == \E p \in pool_samples : p.ts = t /\ ~Breach(p.rBps)

LossOnFile(start, loss, upTo) ==
  \E p \in pool_samples : p.loss = loss /\ p.ts >= start + GracePeriod /\ p.ts <= upTo

SnapshotOnFile(start, label) == \E s \in snapshots : s.risk = start /\ s.label = label

RowOnFile(start, state, end) ==
  \E i \in DOMAIN risk_events :
    risk_events[i].risk = start /\ risk_events[i].state = state /\ risk_events[i].end = end

\* A row is an OPEN one, or one that is RESOLVED at a time that has been.
RowBacked(r) ==
  /\ BreachOnFile(r.risk) /\ SnapshotOnFile(r.risk, "DEPEG_START")
  /\ LossOnFile(r.risk, r.severity, clock)
  /\ r.state = "OPEN" => r.end = None
  /\ r.state = "RESOLVED" =>
       /\ r.end >= r.risk + GracePeriod /\ r.end <= clock
       /\ HealthyOnFile(r.end) /\ SnapshotOnFile(r.risk, "DEPEG_END")
       /\ LossOnFile(r.risk, r.severity, r.end)

AnchorBacked(w) ==
  /\ [risk |-> w.risk, label |-> w.kind, cid |-> w.cid] \in snapshots
  /\ w.kind = "DEPEG_START" => RowOnFile(w.risk, "OPEN", None) /\ w.timestamp = w.risk
  /\ w.kind = "DEPEG_END" => RowOnFile(w.risk, "RESOLVED", w.timestamp)

RowsBacked == \A i \in DOMAIN risk_events : RowBacked(risk_events[i])
AnchorsBacked == \A k \in DOMAIN webhooks : AnchorBacked(webhooks[k])

\* Nothing on file is dated ahead.
SamplesInThePast == \A p \in pool_samples : p.ts <= clock

RunBacked == det.lastBreachAt # None => BreachOnFile(det.lastBreachAt)

EventBacked ==
  currentEvent # None =>
    /\ currentEvent.start + GracePeriod <= clock
    /\ BreachOnFile(currentEvent.start)
    /\ SnapshotOnFile(currentEvent.start, "DEPEG_START")
    /\ LossOnFile(currentEvent.start, currentEvent.maxLossBps, clock)

\* What the steps of a poll have left behind for those that follow.
PollBacked ==
  /\ pc \notin {"sleep", "insert_sample"} => sample \in pool_samples
  /\ pc \in {"end_snapshot", "persist_end", "emit_end"} => ~Breach(sample.rBps)
  /\ pc \in {"persist_start", "emit_start"} =>
       [risk |-> currentEvent.start, label |-> "DEPEG_START", cid |-> cid] \in snapshots
  /\ pc \in {"persist_end", "emit_end"} =>
       [risk |-> currentEvent.start, label |-> "DEPEG_END", cid |-> cid] \in snapshots
  /\ pc = "emit_start" => RowOnFile(currentEvent.start, "OPEN", None)
  /\ pc = "emit_end" => RowOnFile(currentEvent.start, "RESOLVED", sample.ts)

Tables == SamplesInThePast /\ RowsBacked /\ AnchorsBacked
Memory == RunBacked /\ EventBacked /\ PollBacked

EInv == TypeOK /\ Now /\ Tables /\ Memory

\* The same of memory alone, for tables that others write to as well.
MInv == TypeOK /\ Now /\ Memory

\* What a step adds to the tables: a sample of the newest block, snapshots, and
\* at most one row or one anchor, which is borne out by what is then on file.
Grown ==
  /\ clock <= clock'
  /\ pool_samples \subseteq pool_samples' /\ snapshots \subseteq snapshots'
  /\ \A p \in pool_samples' \ pool_samples : p.ts = clock'
  /\ \/ risk_events' = risk_events
     \/ \E row \in Rows : risk_events' = Append(risk_events, row) /\ RowBacked(row)'
  /\ \/ webhooks' = webhooks
     \/ \E w \in Anchors : webhooks' = Append(webhooks, w) /\ AnchorBacked(w)'

-----------------------------------------------------------------------------
(* What is on file stays on file.                                          *)

LEMMA FilesGrow ==
  ASSUME TypeOK, TypeOK', clock <= clock',
         pool_samples \subseteq pool_samples', snapshots \subseteq snapshots'
  PROVE  /\ \A t : BreachOnFile(t) => BreachOnFile(t)'
         /\ \A t : HealthyOnFile(t) => HealthyOnFile(t)'
         /\ \A start, loss, upTo : LossOnFile(start, loss, upTo) => LossOnFile(start, loss, upTo)'
         /\ \A start, loss : LossOnFile(start, loss, clock) => LossOnFile(start, loss, clock)'
         /\ \A start, label : SnapshotOnFile(start, label) => SnapshotOnFile(start, label)'
<1>1. \A p \in pool_samples : p.ts \in Int
  BY DEF TypeOK, Samples
<1>2. clock \in Int /\ clock' \in Int
  BY DEF TypeOK
<1>3. ASSUME NEW start, NEW loss, LossOnFile(start, loss, clock)
      PROVE  LossOnFile(start, loss, clock)'
  BY <1>1, <1>2, <1>3 DEF LossOnFile
<1> QED BY <1>3 DEF BreachOnFile, HealthyOnFile, LossOnFile, SnapshotOnFile

LEMMA RowStaysBacked ==
  ASSUME TypeOK, TypeOK', clock <= clock',
         pool_samples \subseteq pool_samples', snapshots \subseteq snapshots',
         NEW r \in Rows, RowBacked(r)
  PROVE  RowBacked(r)'
<1>1. r.state = "RESOLVED" => r.end <= clock'
  <2>1. clock \in Int /\ clock' \in Int
    BY DEF TypeOK
  <2>2. r.state = "RESOLVED" => r.end \in Int
    <3>1. r.state = "RESOLVED" => \E p \in pool_samples : p.ts = r.end
      BY DEF RowBacked, HealthyOnFile
    <3> QED BY <3>1 DEF TypeOK, Samples
  <2> QED BY <2>1, <2>2 DEF RowBacked
<1> QED BY <1>1, FilesGrow DEF RowBacked

LEMMA RowsStayOnFile ==
  ASSUME risk_events \in Seq(Rows),
         \/ risk_events' = risk_events
         \/ \E row \in Rows : risk_events' = Append(risk_events, row)
  PROVE  \A start, state, end : RowOnFile(start, state, end) => RowOnFile(start, state, end)'
<1>1. \A i \in DOMAIN risk_events : i \in DOMAIN risk_events' /\ risk_events'[i] = risk_events[i]
  BY AppendProperties
<1> QED BY <1>1 DEF RowOnFile

\* A table of rows or of anchors, after one was added or none.
LEMMA AppendAll ==
  ASSUME NEW S, NEW old \in Seq(S), NEW new \in S
  PROVE  \A i \in DOMAIN Append(old, new) :
           \/ i \in DOMAIN old /\ Append(old, new)[i] = old[i]
           \/ i = Len(old) + 1 /\ Append(old, new)[i] = new
<1>1. /\ Append(old, new) \in Seq(S) /\ Len(Append(old, new)) = Len(old) + 1
      /\ \A i \in 1..Len(old) : Append(old, new)[i] = old[i]
      /\ Append(old, new)[Len(old) + 1] = new
  BY AppendProperties
<1>2. DOMAIN old = 1..Len(old) /\ DOMAIN Append(old, new) = 1..(Len(old) + 1) /\ Len(old) \in Nat
  BY <1>1, LenProperties
<1> QED BY <1>1, <1>2

LEMMA TablesKept ==
  ASSUME TypeOK, TypeOK', Tables, clock <= clock',
         pool_samples \subseteq pool_samples', snapshots \subseteq snapshots',
         \A p \in pool_samples' \ pool_samples : p.ts = clock',
         \/ risk_events' = risk_events
         \/ \E row \in Rows : risk_events' = Append(risk_events, row) /\ RowBacked(row)',
         \/ webhooks' = webhooks
         \/ \E w \in Anchors : webhooks' = Append(webhooks, w) /\ AnchorBacked(w)'
  PROVE  Tables'
<1>1. SamplesInThePast'
  <2>1. clock \in Int /\ clock' \in Int
    BY DEF TypeOK
  <2>2. \A p \in pool_samples : p.ts \in Int /\ p.ts <= clock
    BY DEF Tables, SamplesInThePast, TypeOK, Samples
  <2>3. \A p \in pool_samples' : p \in pool_samples \/ p.ts = clock'
    OBVIOUS
  <2> QED BY <2>1, <2>2, <2>3 DEF SamplesInThePast
<1>2. RowsBacked'
  <2>1. \A i \in DOMAIN risk_events : risk_events[i] \in Rows /\ RowBacked(risk_events[i])
    BY Numbers DEF Tables, RowsBacked
  <2>2. \A r \in Rows : RowBacked(r) => RowBacked(r)'
    BY RowStaysBacked
  <2>3. CASE risk_events' = risk_events
    BY <2>1, <2>2, <2>3 DEF RowsBacked
  <2>4. CASE \E row \in Rows : risk_events' = Append(risk_events, row) /\ RowBacked(row)'
    <3>1. PICK row \in Rows : risk_events' = Append(risk_events, row) /\ RowBacked(row)'
      BY <2>4
    <3>2. \A i \in DOMAIN risk_events' :
            \/ i \in DOMAIN risk_events /\ risk_events'[i] = risk_events[i]
            \/ risk_events'[i] = row
      BY <3>1, AppendAll DEF TypeOK
    <3> QED BY <2>1, <2>2, <3>1, <3>2 DEF RowsBacked
  <2> QED BY <2>3, <2>4
<1>3. AnchorsBacked'
  <2>1. \A w : AnchorBacked(w) => AnchorBacked(w)'
    BY RowsStayOnFile DEF AnchorBacked, TypeOK
  <2>2. CASE webhooks' = webhooks
    BY <2>1, <2>2 DEF Tables, AnchorsBacked
  <2>3. CASE \E w \in Anchors : webhooks' = Append(webhooks, w) /\ AnchorBacked(w)'
    <3>1. PICK w \in Anchors : webhooks' = Append(webhooks, w) /\ AnchorBacked(w)'
      BY <2>3
    <3>2. \A k \in DOMAIN webhooks' :
            \/ k \in DOMAIN webhooks /\ webhooks'[k] = webhooks[k]
            \/ webhooks'[k] = w
      BY <3>1, AppendAll DEF TypeOK
    <3> QED BY <2>1, <3>1, <3>2 DEF Tables, AnchorsBacked
  <2> QED BY <2>2, <2>3
<1> QED BY <1>1, <1>2, <1>3 DEF Tables

-----------------------------------------------------------------------------
(* The steps.                                                              *)

LEMMA InitBacked == Init => EInv
<1> SUFFICES ASSUME Init PROVE EInv
  OBVIOUS
<1>1. DOMAIN risk_events = {} /\ DOMAIN webhooks = {}
  BY DEF Init
<1>2. TypeOK /\ Now
  BY InitType, InitOrder DEF IInv
<1>3. Tables
  BY <1>1 DEF Init, Tables, SamplesInThePast, RowsBacked, AnchorsBacked
<1>4. Memory
  BY DEF Init, Quiet, Memory, RunBacked, EventBacked, PollBacked
<1> QED BY <1>2, <1>3, <1>4 DEF EInv

\* The run and the event stay backed if they stay what they are.
LEMMA MemoryKept ==
  ASSUME TypeOK, TypeOK', Memory, clock <= clock', det' = det,
         pool_samples \subseteq pool_samples', snapshots \subseteq snapshots',
         \/ currentEvent' = None
         \/ /\ currentEvent # None
            /\ currentEvent'.start = currentEvent.start
            /\ currentEvent'.maxLossBps = currentEvent.maxLossBps
  PROVE  RunBacked' /\ EventBacked'
<1>1. RunBacked'
  BY FilesGrow DEF Memory, RunBacked
<1>2. EventBacked'
  <2>1. CASE currentEvent' = None
    BY <2>1 DEF EventBacked
  <2>2. CASE currentEvent # None /\ currentEvent' # None
    <3>1. /\ currentEvent'.start = currentEvent.start
          /\ currentEvent'.maxLossBps = currentEvent.maxLossBps
          /\ currentEvent.start \in Int /\ clock \in Int /\ clock' \in Int
      BY <2>2 DEF TypeOK, Events
    <3>2. currentEvent.start + GracePeriod <= clock'
      BY <2>2, <3>1, DetectorConfig DEF Memory, EventBacked
    <3> QED BY <2>2, <3>1, <3>2, FilesGrow DEF Memory, EventBacked
  <2> QED BY <2>1, <2>2
<1> QED BY <1>1, <1>2

\* The detector sees a sample that is on file.
LEMMA FeedBacked ==
  ASSUME TypeOK, Now, RunBacked, pc # "sleep", FeedDetector, clock' = clock,
         pool_samples \subseteq pool_samples', sample \in pool_samples'
  PROVE  /\ RunBacked'
         /\ pc' # "sleep" => sample' \in pool_samples'
         /\ pc' = "end_snapshot" => ~Breach(sample'.rBps)
<1>1. /\ det \in DetectorState /\ sample # None /\ sample.ts \in Int /\ sample.rBps \in Int
      /\ det' = AfterSample(det, sample.ts, sample.rBps)
  BY Numbers DEF TypeOK, Samples, FeedDetector
<1>2. pc' # "sleep" => sample' = sample
  BY <1>1, FeedType
<1>3. RunBacked'
  <2>1. CASE ~Breach(sample.rBps)
    BY <1>1, <2>1, AfterSampleFields DEF Quiet, RunBacked
  <2>2. CASE Breach(sample.rBps)
    <3>1. det'.lastBreachAt = FirstBreach(det, sample.ts)
      BY <1>1, <2>2, AfterSampleFields
    <3> QED BY <2>2, <3>1 DEF FirstBreach, RunBacked, BreachOnFile
  <2> QED BY <2>1, <2>2
<1>4. pc' = "end_snapshot" => Closes(det, sample.rBps)
  BY <1>1, EventKinds DEF FeedDetector, GoTo
<1> QED BY <1>2, <1>3, <1>4 DEF Closes

LEMMA StartPollBacked ==
  ASSUME MInv, StartPoll
  PROVE  MInv' /\ Grown
<1>1. TypeOK /\ TypeOK' /\ clock <= clock' /\ pc' = "insert_sample" /\ Now'
      /\ UNCHANGED <<cid, det, currentEvent, tables>>
  BY StartPollType, StartPollNow DEF MInv
<1>2. Grown
  BY <1>1 DEF tables, Grown
<1>3. RunBacked' /\ EventBacked'
  BY <1>1, MemoryKept DEF MInv, tables, EventBacked
<1>4. PollBacked'
  BY <1>1 DEF PollBacked
<1> QED BY <1>1, <1>2, <1>3, <1>4 DEF MInv, Memory

LEMMA InsertSampleBacked ==
  ASSUME MInv, NEW outcome, InsertSample(outcome)
  PROVE  MInv' /\ Grown
<1>1. /\ TypeOK /\ TypeOK' /\ Now /\ pc = "insert_sample" /\ clock' = clock
      /\ sample \in Samples /\ sample # None /\ sample.ts = clock /\ clock \in Int
      /\ pool_samples' = Insert(pool_samples, sample, outcome)
      /\ UNCHANGED <<risk_events, snapshots, webhooks>>
  BY InsertSampleType, AttemptType, NoneIsNoRecord DEF MInv, InsertSample, TypeOK, Now
<1>2. /\ pool_samples \subseteq pool_samples'
      /\ \A p \in pool_samples' \ pool_samples : p.ts = clock'
      /\ outcome = "stored" => sample \in pool_samples'
  BY <1>1 DEF Insert, Written
<1>3. Grown
  BY <1>1, <1>2 DEF MInv, Grown
<1>4. CASE outcome # "stored"
  <2>1. pc' = "sleep" /\ det' = det /\ currentEvent' = currentEvent
    BY <1>4 DEF InsertSample, GoTo
  <2>2. RunBacked' /\ EventBacked'
    BY <1>1, <1>2, <2>1, MemoryKept DEF MInv, EventBacked
  <2>3. Now' /\ PollBacked'
    BY <1>1, <2>1 DEF Now, InThePast, PollBacked
  <2> QED BY <1>1, <1>3, <2>2, <2>3 DEF MInv, Memory
<1>5. CASE outcome = "stored" /\ currentEvent # None
  <2>1. /\ pc' = "persist_open" /\ det' = det /\ sample' = sample
        /\ currentEvent' = [currentEvent EXCEPT !.maxLossBps = MaxOf(@, sample.loss)]
    BY <1>5 DEF InsertSample, GoTo
  <2>2. /\ currentEvent \in Events /\ currentEvent.maxLossBps \in Nat /\ sample.loss \in Nat
        /\ currentEvent.start \in Int
    BY <1>1, <1>5 DEF TypeOK, Events, Samples
  <2>3. /\ currentEvent'.start = currentEvent.start
        /\ currentEvent'.maxLossBps = MaxOf(currentEvent.maxLossBps, sample.loss)
    BY <2>1, <2>2 DEF Events
  <2>4. EventBacked'
    <3>1. LossOnFile(currentEvent.start, currentEvent.maxLossBps, clock)'
      <4>1. CASE MaxOf(currentEvent.maxLossBps, sample.loss) = sample.loss
        BY <1>1, <1>2, <1>5, <2>2, <2>3, <4>1 DEF MInv, Memory, EventBacked, LossOnFile
      <4>2. CASE MaxOf(currentEvent.maxLossBps, sample.loss) = currentEvent.maxLossBps
        BY <1>1, <1>2, <1>5, <2>3, <4>2, FilesGrow DEF MInv, Memory, EventBacked
      <4> QED BY <4>1, <4>2 DEF MaxOf
    <3> QED BY <1>1, <1>2, <1>5, <2>3, <3>1, FilesGrow DEF MInv, Memory, EventBacked
  <2>5. RunBacked' /\ Now' /\ PollBacked'
    BY <1>1, <1>2, <1>5, <2>1, FilesGrow DEF MInv, Memory, RunBacked, Now, InThePast, PollBacked
  <2> QED BY <1>1, <1>3, <2>4, <2>5 DEF MInv, Memory
<1>6. CASE outcome = "stored" /\ currentEvent = None
  <2>1. FeedDetector /\ currentEvent' = None
    BY <1>6 DEF InsertSample
  <2>2. Now' /\ RunBacked' /\ (pc' # "sleep" => sample' \in pool_samples')
        /\ (pc' = "end_snapshot" => ~Breach(sample'.rBps))
        /\ pc' \in {"sleep", "start_snapshot", "end_snapshot"}
    BY <1>1, <1>2, <1>6, <2>1, FeedNow, FeedBacked, FeedType DEF MInv, Memory
  <2>3. EventBacked' /\ PollBacked'
    BY <2>1, <2>2 DEF EventBacked, PollBacked
  <2> QED BY <1>1, <1>3, <2>2, <2>3 DEF MInv, Memory
<1> QED BY <1>4, <1>5, <1>6

\* persistEvent adds a row that is borne out, or none, and keeps the event's
\* start and largest loss.
LEMMA PersistBacked ==
  ASSUME MInv, TypeOK', currentEvent # None, NEW state \in {"OPEN", "RESOLVED"},
         NEW end \in Int \cup {None}, NEW severity \in Nat, NEW outcome,
         PersistEvent(state, end, severity, outcome),
         RowBacked([risk |-> currentEvent.start, version |-> currentEvent.version,
                    state |-> state, end |-> end, severity |-> severity])
  PROVE  /\ Grown /\ EventBacked' /\ clock' = clock
         /\ currentEvent'.start = currentEvent.start
         /\ UNCHANGED <<pool_samples, snapshots, webhooks>>
         /\ Written(outcome) => RowOnFile(currentEvent.start, state, end)'
<1>1. /\ TypeOK /\ currentEvent \in Events /\ clock' = clock /\ clock \in Int
      /\ UNCHANGED <<pool_samples, snapshots, webhooks>>
      /\ currentEvent' = [currentEvent EXCEPT !.version = @ + 1]
  BY AttemptType DEF MInv, PersistEvent, TypeOK
<1>2. PICK row \in Rows : row = [risk |-> currentEvent.start, version |-> currentEvent.version,
                               state |-> state, end |-> end, severity |-> severity]
  BY <1>1 DEF Events, Rows
<1>3. /\ currentEvent'.start = currentEvent.start
      /\ currentEvent'.maxLossBps = currentEvent.maxLossBps
  BY <1>1 DEF Events
<1>4. /\ row.risk = currentEvent.start /\ row.state = state /\ row.end = end
      /\ risk_events' = IF Written(outcome) THEN Append(risk_events, row) ELSE risk_events
  BY <1>2 DEF PersistEvent
<1>5. Written(outcome) => RowOnFile(currentEvent.start, state, end)'
  <2>1. SUFFICES ASSUME Written(outcome) PROVE RowOnFile(currentEvent.start, state, end)'
    OBVIOUS
  <2>2. /\ risk_events' = Append(risk_events, row) /\ risk_events \in Seq(Rows)
    BY <1>1, <1>4, <2>1 DEF TypeOK
  <2>3. /\ Len(risk_events) + 1 \in DOMAIN risk_events'
        /\ risk_events'[Len(risk_events) + 1] = row
    BY <1>2, <2>2, AppendProperties, LenProperties
  <2>4. currentEvent.start = currentEvent'.start
    BY <1>3
  <2> QED BY <1>3, <1>4, <2>3 DEF RowOnFile
<1>6. RowBacked(row)'
  BY <1>1, <1>2, RowStaysBacked
<1>7. Grown
  BY <1>1, <1>2, <1>4, <1>6 DEF Grown
<1>8. EventBacked'
  BY <1>1, <1>3 DEF MInv, Memory, EventBacked, BreachOnFile, SnapshotOnFile, LossOnFile
<1> QED BY <1>1, <1>3, <1>5, <1>7, <1>8

LEMMA PersistOpenBacked ==
  ASSUME MInv, NEW outcome, PersistOpen(outcome)
  PROVE  MInv' /\ Grown
<1>1. /\ TypeOK /\ TypeOK' /\ Now /\ pc = "persist_open" /\ currentEvent \in Events
      /\ currentEvent # None /\ currentEvent.maxLossBps \in Nat /\ sample \in pool_samples
      /\ PersistEvent("OPEN", None, currentEvent.maxLossBps, outcome)
  BY PersistOpenType, NoneIsNoRecord DEF MInv, Memory, PollBacked, PersistOpen, TypeOK, Events
<1>2. RowBacked([risk |-> currentEvent.start, version |-> currentEvent.version,
                 state |-> "OPEN", end |-> None, severity |-> currentEvent.maxLossBps])
  BY <1>1 DEF MInv, Memory, EventBacked, RowBacked
<1>3. /\ Grown /\ EventBacked' /\ clock' = clock /\ pool_samples' = pool_samples
      /\ snapshots' = snapshots
  BY <1>1, <1>2, PersistBacked
<1>4. CASE outcome = "stored"
  <2>1. FeedDetector
    BY <1>4 DEF PersistOpen
  <2>2. Now' /\ RunBacked' /\ (pc' # "sleep" => sample' \in pool_samples')
        /\ (pc' = "end_snapshot" => ~Breach(sample'.rBps))
        /\ pc' \in {"sleep", "start_snapshot", "end_snapshot"}
    BY <1>1, <1>3, <2>1, FeedNow, FeedBacked, FeedType DEF MInv, Memory, TypeOK
  <2>3. PollBacked'
    BY <2>2 DEF PollBacked
  <2> QED BY <1>1, <1>3, <2>2, <2>3 DEF MInv, Memory
<1>5. CASE outcome # "stored"
  <2>1. pc' = "sleep" /\ det' = det
    BY <1>5 DEF PersistOpen, GoTo
  <2>2. Now' /\ RunBacked' /\ PollBacked'
    BY <1>1, <1>3, <2>1 DEF Now, InThePast, MInv, Memory, RunBacked, BreachOnFile, PollBacked
  <2> QED BY <1>1, <1>3, <2>2 DEF MInv, Memory
<1> QED BY <1>4, <1>5

\* persistSnapshot adds the snapshot, or none.
LEMMA SnapshotBacked ==
  ASSUME MInv, TypeOK', NEW risk, NEW label, NEW c, NEW outcome,
         PersistSnapshot(risk, label, c, outcome)
  PROVE  /\ Grown /\ clock' = clock /\ snapshots \subseteq snapshots'
         /\ UNCHANGED <<pool_samples, risk_events, webhooks>>
         /\ outcome = "stored" => [risk |-> risk, label |-> label, cid |-> c] \in snapshots'
<1>1. /\ TypeOK /\ clock' = clock /\ clock \in Int /\ snapshots \subseteq snapshots'
      /\ UNCHANGED <<pool_samples, risk_events, webhooks>>
      /\ outcome = "stored" => [risk |-> risk, label |-> label, cid |-> c] \in snapshots'
  BY AttemptType DEF MInv, TypeOK, PersistSnapshot, Insert, Written
<1> QED BY <1>1 DEF Grown

LEMMA StartSnapshotBacked ==
  ASSUME MInv, NEW outcome, NEW c \in Cids, StartSnapshot(outcome, c)
  PROVE  MInv' /\ Grown
<1>1. /\ TypeOK /\ TypeOK' /\ Now /\ pc = "start_snapshot" /\ det.active /\ det' = det
      /\ sample \in pool_samples /\ sample.ts = clock /\ clock \in Int
      /\ PersistSnapshot(det.windowStart, "DEPEG_START", c, outcome)
  BY StartSnapshotType DEF MInv, Memory, PollBacked, StartSnapshot, TypeOK, Now
<1>2. /\ Grown /\ clock' = clock /\ snapshots \subseteq snapshots'
      /\ UNCHANGED <<pool_samples, risk_events, webhooks>>
      /\ outcome = "stored" =>
           [risk |-> det.windowStart, label |-> "DEPEG_START", cid |-> c] \in snapshots'
  BY <1>1, SnapshotBacked
<1>3. RunBacked'
  BY <1>1, <1>2 DEF MInv, Memory, RunBacked, BreachOnFile
<1>4. CASE outcome = "stored"
  <2>1. /\ pc' = "persist_start" /\ cid' = c /\ sample' = sample
        /\ currentEvent' = [start |-> det.windowStart, version |-> 1, maxLossBps |-> sample.loss]
    BY <1>4 DEF StartSnapshot
  <2>2. /\ currentEvent'.start = det.windowStart /\ currentEvent'.maxLossBps = sample.loss
    BY <2>1
  <2>3. /\ det.windowStart = det.lastBreachAt /\ det.lastBreachAt # None
        /\ det.windowStart + GracePeriod <= clock
    BY <1>1 DEF TypeOK, DetectorState, Now, InThePast
  <2>4. BreachOnFile(det.windowStart)
    BY <2>3 DEF MInv, Memory, RunBacked
  <2>5. LossOnFile(det.windowStart, sample.loss, clock)
    BY <1>1, <2>3 DEF LossOnFile
  <2>6. /\ SnapshotOnFile(det.windowStart, "DEPEG_START")'
    BY <1>1, <1>2, <1>4 DEF SnapshotOnFile
  <2>7. EventBacked'
    BY <1>1, <1>2, <2>2, <2>3, <2>4, <2>5, <2>6 DEF EventBacked, BreachOnFile, LossOnFile
  <2>8. Now' /\ PollBacked'
    BY <1>1, <1>2, <1>4, <2>1, <2>2 DEF Now, InThePast, PollBacked
  <2> QED BY <1>1, <1>2, <1>3, <2>7, <2>8 DEF MInv, Memory
<1>5. CASE outcome # "stored"
  <2>1. pc' = "sleep" /\ currentEvent' = currentEvent
    BY <1>5 DEF StartSnapshot, GoTo
  <2>2. Now' /\ EventBacked' /\ PollBacked'
    BY <1>1, <1>2, <2>1, MemoryKept DEF MInv, Now, InThePast, EventBacked, PollBacked
  <2> QED BY <1>1, <1>2, <1>3, <2>2 DEF MInv, Memory
<1> QED BY <1>4, <1>5

LEMMA PersistStartBacked ==
  ASSUME MInv, NEW outcome, PersistStart(outcome)
  PROVE  MInv' /\ Grown
<1>1. /\ TypeOK /\ TypeOK' /\ Now /\ pc = "persist_start" /\ det' = det
      /\ currentEvent # None /\ sample \in pool_samples /\ sample.loss \in Nat
      /\ sample.ts = clock /\ clock \in Int
      /\ PersistEvent("OPEN", None, sample.loss, outcome)
  BY PersistStartType DEF MInv, Memory, PollBacked, PersistStart, TypeOK, Samples, Now
<1>2. RowBacked([risk |-> currentEvent.start, version |-> currentEvent.version,
                 state |-> "OPEN", end |-> None, severity |-> sample.loss])
  <2>1. LossOnFile(currentEvent.start, sample.loss, clock)
    BY <1>1 DEF MInv, Memory, EventBacked, LossOnFile
  <2> QED BY <1>1, <2>1 DEF MInv, Memory, EventBacked, RowBacked
<1>3. /\ Grown /\ EventBacked' /\ clock' = clock /\ currentEvent'.start = currentEvent.start
      /\ pool_samples' = pool_samples /\ snapshots' = snapshots
      /\ outcome = "stored" => RowOnFile(currentEvent.start, "OPEN", None)'
  BY <1>1, <1>2, PersistBacked DEF Written
<1>4. RunBacked'
  BY <1>1, <1>3 DEF MInv, Memory, RunBacked, BreachOnFile
<1>5. /\ pc' = IF outcome = "stored" THEN "emit_start" ELSE "sleep"
      /\ pc' # "sleep" => sample' = sample /\ cid' = cid
  BY DEF PersistStart, GoTo
<1>6. Now' /\ PollBacked'
  BY <1>1, <1>3, <1>5 DEF Now, InThePast, MInv, Memory, PollBacked, RowOnFile
<1> QED BY <1>1, <1>3, <1>4, <1>6 DEF MInv, Memory

LEMMA EndSnapshotBacked ==
  ASSUME MInv, NEW outcome, NEW c \in Cids, EndSnapshot(outcome, c)
  PROVE  MInv' /\ Grown
<1>1. /\ TypeOK /\ TypeOK' /\ Now /\ pc = "end_snapshot" /\ det' = det
      /\ currentEvent' = currentEvent /\ sample \in pool_samples /\ clock \in Int
      /\ PersistSnapshot(currentEvent.start, "DEPEG_END", c, outcome)
  BY EndSnapshotType DEF MInv, Memory, PollBacked, EndSnapshot, TypeOK
<1>2. /\ Grown /\ clock' = clock /\ snapshots \subseteq snapshots'
      /\ UNCHANGED <<pool_samples, risk_events, webhooks>>
      /\ outcome = "stored" =>
           [risk |-> currentEvent.start, label |-> "DEPEG_END", cid |-> c] \in snapshots'
  BY <1>1, SnapshotBacked
<1>3. RunBacked' /\ EventBacked'
  BY <1>1, <1>2, MemoryKept DEF MInv, EventBacked
<1>4. \/ outcome = "stored" /\ pc' = "persist_end" /\ cid' = c /\ sample' = sample
      \/ pc' = "sleep"
  BY DEF EndSnapshot, GoTo
<1>5. Now' /\ PollBacked'
  BY <1>1, <1>2, <1>4 DEF Now, InThePast, MInv, Memory, PollBacked
<1> QED BY <1>1, <1>2, <1>3, <1>5 DEF MInv, Memory

LEMMA PersistEndBacked ==
  ASSUME MInv, NEW outcome, PersistEnd(outcome)
  PROVE  MInv' /\ Grown
<1> DEFINE severity == MaxOf(currentEvent.maxLossBps, sample.loss)
<1>1. /\ TypeOK /\ TypeOK' /\ Now /\ pc = "persist_end" /\ det' = det
      /\ currentEvent # None /\ currentEvent \in Events /\ sample \in pool_samples
      /\ sample \in Samples /\ ~Breach(sample.rBps) /\ sample.ts = clock /\ clock \in Int
      /\ PersistEvent("RESOLVED", sample.ts, severity, outcome)
  BY PersistEndType, NoneIsNoRecord DEF MInv, Memory, PollBacked, PersistEnd, TypeOK, Now
<1>2. severity \in Nat /\ severity \in {currentEvent.maxLossBps, sample.loss}
  BY <1>1 DEF MaxOf, Events, Samples
<1> HIDE DEF severity
<1>3. RowBacked([risk |-> currentEvent.start, version |-> currentEvent.version,
                 state |-> "RESOLVED", end |-> sample.ts, severity |-> severity])
  <2>1. LossOnFile(currentEvent.start, severity, clock)
    BY <1>1, <1>2 DEF MInv, Memory, EventBacked, LossOnFile
  <2>2. HealthyOnFile(clock)
    BY <1>1 DEF HealthyOnFile
  <2>3. SnapshotOnFile(currentEvent.start, "DEPEG_END")
    BY <1>1 DEF MInv, Memory, PollBacked, SnapshotOnFile
  <2> QED BY <1>1, <2>1, <2>2, <2>3 DEF MInv, Memory, EventBacked, RowBacked
<1>4. /\ Grown /\ EventBacked' /\ clock' = clock /\ currentEvent'.start = currentEvent.start
      /\ pool_samples' = pool_samples /\ snapshots' = snapshots
      /\ outcome = "stored" => RowOnFile(currentEvent.start, "RESOLVED", sample.ts)'
  <2>1. PICK end \in Int, loss \in Nat : end = sample.ts /\ loss = severity
    BY <1>1, <1>2 DEF Samples
  <2>2. /\ Grown /\ EventBacked' /\ clock' = clock /\ currentEvent'.start = currentEvent.start
        /\ pool_samples' = pool_samples /\ snapshots' = snapshots
        /\ outcome = "stored" => RowOnFile(currentEvent.start, "RESOLVED", end)'
    BY <1>1, <1>3, <2>1, PersistBacked DEF Written
  <2>3. outcome = "stored" => sample' = sample
    BY DEF PersistEnd, GoTo
  <2> QED BY <2>1, <2>2, <2>3
<1>5. RunBacked'
  BY <1>1, <1>4 DEF MInv, Memory, RunBacked, BreachOnFile
<1>6. /\ pc' = IF outcome = "stored" THEN "emit_end" ELSE "sleep"
      /\ pc' # "sleep" => sample' = sample /\ cid' = cid
  BY DEF PersistEnd, GoTo
<1>7. Now' /\ PollBacked'
  BY <1>1, <1>4, <1>6 DEF Now, InThePast, MInv, Memory, PollBacked, RowOnFile
<1> QED BY <1>1, <1>4, <1>5, <1>7 DEF MInv, Memory

\* Both emits: what the poll has left on file backs the anchor.
LEMMA EmitBacked ==
  ASSUME MInv, NEW delivered \in BOOLEAN, EmitStart(delivered) \/ EmitEnd(delivered)
  PROVE  MInv' /\ Grown
<1>1. /\ TypeOK /\ TypeOK' /\ Now /\ pc' = "sleep" /\ det' = det /\ clock' = clock /\ clock \in Int
      /\ UNCHANGED <<pool_samples, risk_events, snapshots>>
      /\ currentEvent # None /\ currentEvent.start \in Int /\ cid \in Cids /\ sample.ts \in Int
      /\ currentEvent' \in {None, currentEvent}
  BY EmitType, NoneIsNoRecord
  DEF MInv, EmitStart, EmitEnd, EmitWebhook, GoTo, TypeOK, Events, Samples
<1>2. PICK kind \in {"DEPEG_START", "DEPEG_END"}, timestamp \in Int :
        /\ webhooks' = IF delivered
                       THEN Append(webhooks, [kind |-> kind, risk |-> currentEvent.start,
                                              timestamp |-> timestamp, cid |-> cid])
                       ELSE webhooks
        /\ [risk |-> currentEvent.start, label |-> kind, cid |-> cid] \in snapshots
        /\ kind = "DEPEG_START" => /\ timestamp = currentEvent.start
                                   /\ RowOnFile(currentEvent.start, "OPEN", None)
        /\ kind = "DEPEG_END" => RowOnFile(currentEvent.start, "RESOLVED", timestamp)
  BY <1>1 DEF EmitStart, EmitEnd, EmitWebhook, MInv, Memory, PollBacked
<1>3. PICK w \in Anchors : w = [kind |-> kind, risk |-> currentEvent.start,
                                timestamp |-> timestamp, cid |-> cid]
  BY <1>1 DEF Anchors
<1>4. webhooks' = webhooks \/ webhooks' = Append(webhooks, w)
  BY <1>2, <1>3
<1>5. AnchorBacked(w)'
  <2>1. AnchorBacked(w)
    BY <1>2, <1>3 DEF AnchorBacked
  <2> QED BY <1>1, <2>1 DEF AnchorBacked, RowOnFile
<1>6. Grown
  BY <1>1, <1>3, <1>4, <1>5 DEF Grown
<1>7. RunBacked' /\ EventBacked' /\ Now' /\ PollBacked'
  BY <1>1, MemoryKept DEF MInv, Now, InThePast, PollBacked
<1> QED BY <1>1, <1>6, <1>7 DEF MInv, Memory

LEMMA CrashBacked ==
  ASSUME MInv, Crash
  PROVE  MInv' /\ Grown
<1>1. /\ TypeOK /\ TypeOK' /\ clock' = clock /\ clock \in Int /\ UNCHANGED tables
      /\ det' = Quiet /\ currentEvent' = None /\ pc' = "sleep"
  BY CrashType DEF MInv, Crash, TypeOK
<1>2. Grown
  BY <1>1 DEF tables, Grown
<1>3. Memory' /\ Now'
  BY <1>1 DEF Memory, RunBacked, EventBacked, PollBacked, Now, InThePast, Quiet
<1> QED BY <1>1, <1>2, <1>3 DEF MInv

\* A step of the service leaves memory backed, and writes what is.
LEMMA StepWrites ==
  ASSUME MInv, [Next]_vars
  PROVE  MInv' /\ Grown
<1>1. CASE StartPoll
  BY <1>1, StartPollBacked
<1>2. CASE \E outcome \in Outcomes : InsertSample(outcome)
  BY <1>2, InsertSampleBacked
<1>3. CASE \E outcome \in Outcomes : PersistOpen(outcome)
  BY <1>3, PersistOpenBacked
<1>4. CASE \E outcome \in Outcomes, c \in Cids : StartSnapshot(outcome, c)
  BY <1>4, StartSnapshotBacked
<1>5. CASE \E outcome \in Outcomes : PersistStart(outcome)
  BY <1>5, PersistStartBacked
<1>6. CASE \E outcome \in Outcomes, c \in Cids : EndSnapshot(outcome, c)
  BY <1>6, EndSnapshotBacked
<1>7. CASE \E outcome \in Outcomes : PersistEnd(outcome)
  BY <1>7, PersistEndBacked
<1>8. CASE \E delivered \in BOOLEAN : EmitStart(delivered) \/ EmitEnd(delivered)
  BY <1>8, EmitBacked
<1>9. CASE Crash
  BY <1>9, CrashBacked
<1>10. CASE UNCHANGED vars
  <2>1. TypeOK'
    BY <1>10, StepType DEF MInv
  <2>2. MInv'
    BY <1>10, <2>1 DEF vars, memory, tables, MInv, Now, InThePast, Memory, RunBacked, EventBacked,
       PollBacked, BreachOnFile, LossOnFile, SnapshotOnFile, RowOnFile
  <2>3. Grown
    BY <1>10 DEF vars, tables, Grown, MInv, TypeOK
  <2> QED BY <2>2, <2>3
<1> QED
  BY <1>1, <1>2, <1>3, <1>4, <1>5, <1>6, <1>7, <1>8, <1>9, <1>10 DEF Next, Answer

LEMMA StepBacked ==
  ASSUME EInv, [Next]_vars
  PROVE  EInv'
<1>1. MInv' /\ Grown
  BY StepWrites DEF EInv, MInv
<1> QED BY <1>1, TablesKept DEF EInv, MInv, Grown

LEMMA BackedMeans ==
  ASSUME EInv
  PROVE  SnapshotBeforeEvent /\ SeverityWitnessed /\ WindowEndpointsEvidenced /\ AnchorsFollowRows
<1>1. SnapshotBeforeEvent /\ SeverityWitnessed /\ WindowEndpointsEvidenced
  BY DEF EInv, Tables, RowsBacked, RowBacked, BreachOnFile, HealthyOnFile, LossOnFile,
     SnapshotOnFile, SnapshotBeforeEvent, SeverityWitnessed, WindowEndpointsEvidenced
<1>2. AnchorsFollowRows
  <2>1. \A k \in DOMAIN webhooks : webhooks[k] \in Anchors
    BY ElementOfSeq DEF EInv, TypeOK
  <2> QED
    BY <2>1 DEF EInv, Tables, AnchorsBacked, AnchorBacked, RowOnFile, AnchorsFollowRows,
       Anchors
<1> QED BY <1>1, <1>2

\* What every row needs is on file before it: the opening snapshot, for a
\* resolved one the closing snapshot, whatever inserts fail, go unacknowledged
\* or are cut off by a crash.
THEOREM SnapshotsSafe == Spec => []SnapshotBeforeEvent
BY InitBacked, StepBacked, BackedMeans, PTL DEF Spec

\* No row carries a loss that is not that of a stored sample of its window.
THEOREM SeveritiesSafe == Spec => []SeverityWitnessed
BY InitBacked, StepBacked, BackedMeans, PTL DEF Spec

\* No window starts or ends but at a stored sample, a breach or a healthy one,
\* a grace period apart at least.
THEOREM EndpointsSafe == Spec => []WindowEndpointsEvidenced
BY InitBacked, StepBacked, BackedMeans, PTL DEF Spec

\* No anchor reaches the backend before its row and its snapshot are stored.
THEOREM AnchorsSafe == Spec => []AnchorsFollowRows
BY InitBacked, StepBacked, BackedMeans, PTL DEF Spec

-----------------------------------------------------------------------------
(* Until an insert fails.                                                  *)

\* The tracked event and the detector's window, at each await of a poll.
InStep ==
  /\ pc \in {"sleep", "insert_sample", "persist_open"} =>
       IF currentEvent = None THEN ~det.active
       ELSE det.active /\ currentEvent.start = det.windowStart
  /\ pc = "start_snapshot" => currentEvent = None
  /\ pc \in {"persist_start", "emit_start"} => det.active /\ currentEvent.start = det.windowStart
  /\ pc \in {"end_snapshot", "persist_end", "emit_end"} => ~det.active

TracksInv == TypeOK /\ (failures = 0 => InStep)

\* While no insert has failed, every step but a crash is an acknowledged one.
LEMMA NoFailureYet ==
  ASSUME TypeOK, NEW outcome, Attempt(outcome), failures' = 0
  PROVE  failures = 0 /\ outcome = "stored"
BY DEF TypeOK, Attempt

\* The detector answers START if nothing is tracked and its window opens, END if
\* the tracked window closes.
LEMMA FeedInStep ==
  ASSUME TypeOK, InStep, FeedDetector,
         \/ pc = "insert_sample" /\ currentEvent = None
         \/ pc = "persist_open" /\ currentEvent # None,
         currentEvent = None => currentEvent' = None,
         currentEvent # None => currentEvent' # None /\ currentEvent'.start = currentEvent.start
  PROVE  /\ InStep'
         /\ currentEvent # None => det.active /\ currentEvent.start = det.windowStart
         /\ currentEvent = None => pc' # "end_snapshot"
<1>1. /\ det \in DetectorState /\ sample # None /\ sample.ts \in Int /\ sample.rBps \in Int
      /\ det' = AfterSample(det, sample.ts, sample.rBps)
  BY Numbers DEF TypeOK, Samples, FeedDetector
<1> DEFINE event == EventOf(det, sample.ts, sample.rBps)
           opens == Opens(det, sample.ts, sample.rBps)
<1>2. /\ event = None <=> ~opens /\ ~Closes(det, sample.rBps)
      /\ event # None => (event.type = "DEPEG_START" <=> opens)
  BY <1>1, EventKinds
<1>3. pc' = IF event = None THEN "sleep"
            ELSE IF event.type = "DEPEG_START" THEN "start_snapshot"
            ELSE IF currentEvent # None THEN "end_snapshot" ELSE "sleep"
  BY DEF FeedDetector, GoTo
<1>4. opens => Breach(sample.rBps) /\ ~det.active
  BY DEF Opens
<1>5. Closes(det, sample.rBps) <=> ~Breach(sample.rBps) /\ det.active
  BY DEF Closes
<1>6. /\ ~Breach(sample.rBps) => ~det'.active
      /\ Breach(sample.rBps) => /\ det'.active <=> det.active \/ opens
                                /\ ~opens => det'.windowStart = det.windowStart
  BY <1>1, AfterSampleFields DEF Quiet
<1> HIDE DEF event, opens
<1>7. CASE currentEvent = None
  <2>1. ~det.active
    BY <1>7 DEF InStep
  <2>2. pc' = IF opens THEN "start_snapshot" ELSE "sleep"
    BY <1>2, <1>3, <1>4, <1>5, <2>1
  <2> QED BY <1>4, <1>6, <1>7, <2>1, <2>2 DEF InStep
<1>8. CASE currentEvent # None
  <2>1. det.active /\ currentEvent.start = det.windowStart
    BY <1>8 DEF InStep
  <2>2. ~opens /\ pc' = IF Breach(sample.rBps) THEN "sleep" ELSE "end_snapshot"
    BY <1>2, <1>3, <1>4, <1>5, <1>8, <2>1
  <2> QED BY <1>6, <1>8, <2>1, <2>2 DEF InStep
<1> QED BY <1>7, <1>8

LEMMA StepInStep ==
  ASSUME TypeOK, TypeOK', failures = 0 => InStep, [Next]_vars, failures' = 0
  PROVE  InStep'
<1>1. CASE StartPoll
  <2>1. pc = "sleep" /\ pc' = "insert_sample" /\ UNCHANGED <<det, currentEvent, failures>>
    BY <1>1 DEF StartPoll
  <2> QED BY <2>1 DEF InStep
<1>2. ASSUME NEW outcome \in Outcomes, InsertSample(outcome) PROVE InStep'
  <2>1. pc = "insert_sample" /\ outcome = "stored" /\ InStep
    BY <1>2, NoFailureYet DEF InsertSample
  <2>2. CASE currentEvent # None
    <3>1. pc' = "persist_open" /\ det' = det /\ currentEvent'.start = currentEvent.start
      BY <1>2, <2>1, <2>2 DEF InsertSample, GoTo, TypeOK, Events
    <3>2. currentEvent' # None
      BY <3>1 DEF TypeOK
    <3> QED BY <2>1, <2>2, <3>1, <3>2 DEF InStep
  <2>3. CASE currentEvent = None
    <3>1. FeedDetector /\ currentEvent' = currentEvent
      BY <1>2, <2>1, <2>3 DEF InsertSample
    <3> QED BY <2>1, <2>3, <3>1, FeedInStep
  <2> QED BY <2>2, <2>3
<1>3. ASSUME NEW outcome \in Outcomes, PersistOpen(outcome) PROVE InStep'
  <2>1. pc = "persist_open" /\ outcome = "stored" /\ InStep
    BY <1>3, NoFailureYet DEF PersistOpen, PersistEvent
  <2>2. currentEvent # None /\ currentEvent \in Events
    BY <2>1 DEF TypeOK
  <2>3. currentEvent' = [currentEvent EXCEPT !.version = @ + 1]
    BY <1>3 DEF PersistOpen, PersistEvent
  <2>4. currentEvent' \in Events /\ currentEvent'.start = currentEvent.start
    BY ONLY <2>2, <2>3 DEF Events
  <2>5. currentEvent' # None
    BY <2>4, NoneIsNoRecord
  <2> QED BY <1>3, <2>1, <2>2, <2>4, <2>5, FeedInStep DEF PersistOpen
<1>4. ASSUME NEW outcome \in Outcomes, NEW c \in Cids, StartSnapshot(outcome, c) PROVE InStep'
  <2>1. pc = "start_snapshot" /\ outcome = "stored" /\ det' = det /\ det.active
    BY <1>4, NoFailureYet DEF StartSnapshot, PersistSnapshot, TypeOK
  <2>2. pc' = "persist_start" /\ currentEvent'.start = det.windowStart
    BY <1>4, <2>1 DEF StartSnapshot
  <2> QED BY <2>1, <2>2 DEF InStep
<1>5. ASSUME NEW outcome \in Outcomes, PersistStart(outcome) PROVE InStep'
  <2>1. pc = "persist_start" /\ outcome = "stored" /\ InStep /\ det' = det
    BY <1>5, NoFailureYet DEF PersistStart, PersistEvent
  <2>2. currentEvent \in Events
    BY <2>1 DEF TypeOK
  <2>3. currentEvent' = [currentEvent EXCEPT !.version = @ + 1]
    BY <1>5 DEF PersistStart, PersistEvent
  <2>4. currentEvent'.start = currentEvent.start
    BY ONLY <2>2, <2>3 DEF Events
  <2>5. pc' = "emit_start"
    BY <1>5, <2>1 DEF PersistStart, GoTo
  <2> QED BY <2>1, <2>4, <2>5 DEF InStep
<1>6. ASSUME NEW outcome \in Outcomes, NEW c \in Cids, EndSnapshot(outcome, c) PROVE InStep'
  <2>1. pc = "end_snapshot" /\ outcome = "stored" /\ InStep /\ det' = det
    BY <1>6, NoFailureYet DEF EndSnapshot, PersistSnapshot
  <2> QED BY <1>6, <2>1 DEF EndSnapshot, InStep
<1>7. ASSUME NEW outcome \in Outcomes, PersistEnd(outcome) PROVE InStep'
  <2>1. pc = "persist_end" /\ outcome = "stored" /\ InStep /\ det' = det
    BY <1>7, NoFailureYet DEF PersistEnd, PersistEvent
  <2> QED BY <1>7, <2>1 DEF PersistEnd, GoTo, InStep
<1>8. ASSUME NEW delivered \in BOOLEAN, EmitStart(delivered) \/ EmitEnd(delivered) PROVE InStep'
  <2>1. InStep /\ det' = det /\ pc' = "sleep"
    BY <1>8 DEF EmitStart, EmitEnd, EmitWebhook, GoTo
  <2>2. CASE EmitStart(delivered)
    <3>1. pc = "emit_start" /\ currentEvent' = currentEvent /\ currentEvent # None
      BY <2>2 DEF EmitStart, TypeOK
    <3> QED BY <2>1, <3>1 DEF InStep
  <2>3. CASE EmitEnd(delivered)
    BY <2>1, <2>3 DEF EmitEnd, InStep
  <2> QED BY <1>8, <2>2, <2>3
<1>9. CASE Crash
  BY <1>9 DEF Crash, Quiet, InStep
<1>10. CASE UNCHANGED vars
  BY <1>10 DEF vars, memory, InStep
<1> QED
  BY <1>1, <1>2, <1>3, <1>4, <1>5, <1>6, <1>7, <1>8, <1>9, <1>10 DEF Next, Answer

\* As long as no insert has failed, crashes or not, between two polls the event
\* the service tracks is the window its detector is in.
THEOREM TracksBreach == Spec => []WindowTracksBreach
<1>1. Init => TracksInv
  BY InitType DEF Init, TracksInv, InStep, Quiet
<1>2. TracksInv /\ [Next]_vars => TracksInv'
  BY StepType, StepInStep DEF TracksInv
<1>3. TracksInv => WindowTracksBreach
  BY DEF TracksInv, InStep, WindowTracksBreach
<1> QED BY <1>1, <1>2, <1>3, PTL DEF Spec

\* Since t there is no healthy sample on file, except perhaps the one that the
\* detector has yet to see.
UnbrokenSince(t) ==
  \A p \in pool_samples : t < p.ts => Breach(p.rBps) \/ (pc = "persist_open" /\ p = sample)

UnbrokenIn(start, end) ==
  \A p \in pool_samples : start < p.ts /\ p.ts < end => Breach(p.rBps)

RunsUnbroken ==
  /\ det.lastBreachAt # None => UnbrokenSince(det.lastBreachAt)
  /\ pc \in {"end_snapshot", "persist_end", "emit_end"} => UnbrokenIn(currentEvent.start, clock)

RecoveryInv == EInv /\ TracksInv /\ (failures = 0 => RunsUnbroken) /\ NoRecoveryInsideWindow

\* Failures are only counted up.
LEMMA FailuresStay ==
  ASSUME TypeOK, [Next]_vars, failures' = 0
  PROVE  failures = 0
<1>1. ASSUME NEW outcome, Attempt(outcome) PROVE failures = 0
  BY <1>1, NoFailureYet
<1>2. CASE \E outcome : Attempt(outcome)
  BY <1>1, <1>2
<1>3. CASE ~\E outcome : Attempt(outcome)
  BY <1>3 DEF Next, Answer, StartPoll, InsertSample, PersistOpen, PersistStart, PersistEnd,
     PersistEvent, StartSnapshot, EndSnapshot, PersistSnapshot, EmitStart, EmitEnd, EmitWebhook,
     Crash, vars
<1> QED BY <1>2, <1>3

\* The detector's run of breaches is unbroken once it has seen the sample: a
\* healthy one ends the run, a breach begins a new one or continues it.
LEMMA FeedUnbroken ==
  ASSUME TypeOK, TypeOK', Now, pc # "sleep", FeedDetector, clock' = clock, SamplesInThePast',
         pool_samples' \subseteq pool_samples \cup {sample},
         det.lastBreachAt # None =>
           \A p \in pool_samples : det.lastBreachAt < p.ts => Breach(p.rBps) \/ p = sample
  PROVE  det'.lastBreachAt # None => UnbrokenSince(det.lastBreachAt)'
<1>1. /\ det \in DetectorState /\ sample # None /\ sample.ts = clock
      /\ sample.ts \in Int /\ sample.rBps \in Int
      /\ det' = AfterSample(det, sample.ts, sample.rBps)
  BY Numbers DEF TypeOK, Samples, FeedDetector, Now
<1>2. CASE ~Breach(sample.rBps)
  BY <1>1, <1>2, AfterSampleFields DEF Quiet
<1>3. CASE Breach(sample.rBps)
  <2>1. det'.lastBreachAt = FirstBreach(det, sample.ts)
    BY <1>1, <1>3, AfterSampleFields
  <2>2. CASE det.lastBreachAt = None
    <3>1. \A p \in pool_samples' : p.ts \in Int /\ p.ts <= clock /\ clock \in Int
      BY <1>1 DEF TypeOK, Samples, SamplesInThePast
    <3>2. det'.lastBreachAt = clock
      BY <1>1, <2>1, <2>2 DEF FirstBreach
    <3> QED BY <3>1, <3>2 DEF UnbrokenSince
  <2>3. CASE det.lastBreachAt # None
    <3>1. det'.lastBreachAt = det.lastBreachAt
      BY <2>1, <2>3 DEF FirstBreach
    <3> QED BY <1>3, <2>3, <3>1 DEF UnbrokenSince
  <2> QED BY <2>2, <2>3
<1> QED BY <1>2, <1>3

LEMMA StepRunsUnbroken ==
  ASSUME EInv, EInv', InStep, RunsUnbroken, failures = 0, [Next]_vars, failures' = 0
  PROVE  RunsUnbroken'
<1>1. TypeOK /\ TypeOK' /\ Now /\ SamplesInThePast'
  BY DEF EInv, Tables
<1>2. CASE StartPoll
  <2>1. /\ pc = "sleep" /\ pc' = "insert_sample" /\ UNCHANGED <<det, pool_samples>>
    BY <1>2 DEF StartPoll, tables
  <2> QED BY <2>1 DEF RunsUnbroken, UnbrokenSince
<1>3. ASSUME NEW outcome \in Outcomes, InsertSample(outcome) PROVE RunsUnbroken'
  <2>1. /\ pc = "insert_sample" /\ outcome = "stored" /\ clock' = clock
        /\ pool_samples' = pool_samples \cup {sample}
    BY <1>1, <1>3, NoFailureYet, AttemptType DEF InsertSample, Insert, Written
  <2>2. CASE currentEvent # None
    <3>1. pc' = "persist_open" /\ det' = det /\ sample' = sample
      BY <1>3, <2>1, <2>2 DEF InsertSample, GoTo
    <3> QED BY <2>1, <3>1 DEF RunsUnbroken, UnbrokenSince
  <2>3. CASE currentEvent = None
    <3>1. FeedDetector /\ currentEvent' = currentEvent
      BY <1>3, <2>1, <2>3 DEF InsertSample
    <3>2. pc' \in {"sleep", "start_snapshot"}
      BY <1>1, <2>1, <2>3, <3>1, FeedInStep, FeedType DEF TypeOK
    <3>3. det.lastBreachAt # None =>
            \A p \in pool_samples : det.lastBreachAt < p.ts => Breach(p.rBps) \/ p = sample
      BY DEF RunsUnbroken, UnbrokenSince
    <3>4. det'.lastBreachAt # None => UnbrokenSince(det.lastBreachAt)'
      BY <1>1, <2>1, <3>1, <3>3, FeedUnbroken
    <3> QED BY <3>2, <3>4 DEF RunsUnbroken
  <2> QED BY <2>2, <2>3
<1>4. ASSUME NEW outcome \in Outcomes, PersistOpen(outcome) PROVE RunsUnbroken'
  <2>1. /\ pc = "persist_open" /\ outcome = "stored" /\ clock' = clock
        /\ pool_samples' = pool_samples /\ FeedDetector
    BY <1>1, <1>4, NoFailureYet, AttemptType DEF PersistOpen, PersistEvent
  <2>2. currentEvent # None /\ currentEvent' # None /\ currentEvent'.start = currentEvent.start
    BY <1>1, <1>4, <2>1, NoneIsNoRecord DEF PersistOpen, PersistEvent, TypeOK, Events
  <2>3. det.active /\ currentEvent.start = det.windowStart
    BY <2>1, <2>2 DEF InStep
  <2>4. /\ det.windowStart = det.lastBreachAt /\ det.lastBreachAt # None
        /\ sample.ts = clock /\ clock \in Int
        /\ pc' \in {"sleep", "start_snapshot", "end_snapshot"}
    BY <1>1, <2>1, <2>3, FeedType DEF TypeOK, DetectorState, Now
  <2>5. \A p \in pool_samples : det.lastBreachAt < p.ts => Breach(p.rBps) \/ p = sample
    BY <2>4 DEF RunsUnbroken, UnbrokenSince
  <2>6. det'.lastBreachAt # None => UnbrokenSince(det.lastBreachAt)'
    BY <1>1, <2>1, <2>5, FeedUnbroken
  <2>7. UnbrokenIn(currentEvent.start, clock)'
    BY <2>1, <2>2, <2>3, <2>4, <2>5 DEF UnbrokenIn
  <2> QED BY <2>6, <2>7 DEF RunsUnbroken
<1>5. ASSUME NEW outcome \in Outcomes, NEW c \in Cids, StartSnapshot(outcome, c)
      PROVE  RunsUnbroken'
  <2>1. /\ pc = "start_snapshot" /\ pc' \in {"persist_start", "sleep"}
        /\ UNCHANGED <<det, pool_samples>>
    BY <1>5 DEF StartSnapshot, PersistSnapshot, GoTo
  <2> QED BY <2>1 DEF RunsUnbroken, UnbrokenSince
<1>6. ASSUME NEW outcome \in Outcomes, PersistStart(outcome) PROVE RunsUnbroken'
  <2>1. /\ pc = "persist_start" /\ pc' \in {"emit_start", "sleep"}
        /\ UNCHANGED <<det, pool_samples>>
    BY <1>6 DEF PersistStart, PersistEvent, GoTo
  <2> QED BY <2>1 DEF RunsUnbroken, UnbrokenSince
<1>7. ASSUME NEW outcome \in Outcomes, NEW c \in Cids, EndSnapshot(outcome, c)
      PROVE  RunsUnbroken'
  <2>1. /\ pc = "end_snapshot" /\ pc' \in {"persist_end", "sleep"} /\ clock' = clock
        /\ UNCHANGED <<det, pool_samples, currentEvent>>
    BY <1>1, <1>7, AttemptType DEF EndSnapshot, PersistSnapshot, GoTo
  <2> QED BY <2>1 DEF RunsUnbroken, UnbrokenSince, UnbrokenIn
<1>8. ASSUME NEW outcome \in Outcomes, PersistEnd(outcome) PROVE RunsUnbroken'
  <2>1. /\ pc = "persist_end" /\ pc' \in {"emit_end", "sleep"} /\ clock' = clock
        /\ UNCHANGED <<det, pool_samples>>
    BY <1>1, <1>8, AttemptType DEF PersistEnd, PersistEvent, GoTo
  <2>2. currentEvent'.start = currentEvent.start
    BY <1>1, <1>8, NoneIsNoRecord DEF PersistEnd, PersistEvent, TypeOK, Events
  <2> QED BY <2>1, <2>2 DEF RunsUnbroken, UnbrokenSince, UnbrokenIn
<1>9. ASSUME NEW delivered \in BOOLEAN, EmitStart(delivered) \/ EmitEnd(delivered)
      PROVE  RunsUnbroken'
  <2>1. /\ pc # "persist_open" /\ pc' = "sleep" /\ UNCHANGED <<det, pool_samples>>
    BY <1>9 DEF EmitStart, EmitEnd, EmitWebhook, GoTo
  <2> QED BY <2>1 DEF RunsUnbroken, UnbrokenSince
<1>10. CASE Crash
  BY <1>10 DEF Crash, Quiet, RunsUnbroken
<1>11. CASE UNCHANGED vars
  BY <1>11 DEF vars, memory, tables, RunsUnbroken, UnbrokenSince, UnbrokenIn
<1> QED
  BY <1>2, <1>3, <1>4, <1>5, <1>6, <1>7, <1>8, <1>9, <1>10, <1>11 DEF Next, Answer

\* Nothing that is stored later falls inside a window resolved before: it would
\* have to be older than the clock.
LEMMA ResolvedStayUnbroken ==
  ASSUME EInv, EInv', [Next]_vars, failures' = 0, failures = 0, RunsUnbroken, NoRecoveryInsideWindow
  PROVE  NoRecoveryInsideWindow'
<1>1. TypeOK /\ TypeOK' /\ Now
  BY DEF EInv
<1>2. /\ \A i \in DOMAIN risk_events :
           /\ risk_events[i] \in Rows
           /\ risk_events[i].state = "RESOLVED" =>
                /\ risk_events[i].end \in Int /\ risk_events[i].end <= clock
                /\ UnbrokenIn(risk_events[i].risk, risk_events[i].end)
      /\ clock \in Int
  <2>1. \A i \in DOMAIN risk_events : RowBacked(risk_events[i])
    BY DEF EInv, Tables, RowsBacked
  <2>2. \A t : HealthyOnFile(t) => t \in Int
    BY <1>1 DEF HealthyOnFile, TypeOK, Samples
  <2>3. \A i \in DOMAIN risk_events : risk_events[i].state = "RESOLVED" =>
          UnbrokenIn(risk_events[i].risk, risk_events[i].end)
    BY DEF NoRecoveryInsideWindow, UnbrokenIn
  <2> QED BY <1>1, <2>1, <2>2, <2>3, Numbers DEF RowBacked
<1>3. \A p \in pool_samples' \ pool_samples : p.ts = clock
  <2>1. CASE \E outcome \in Outcomes : InsertSample(outcome)
    BY <1>1, <2>1 DEF InsertSample, Insert, Now
  <2>2. CASE ~\E outcome \in Outcomes : InsertSample(outcome)
    BY <2>2 DEF Next, Answer, StartPoll, PersistOpen, PersistStart, PersistEnd, PersistEvent,
       StartSnapshot, EndSnapshot, PersistSnapshot, EmitStart, EmitEnd, EmitWebhook, Crash,
       tables, vars
  <2> QED BY <2>1, <2>2
<1>4. \A r \in Rows : r.state = "RESOLVED" /\ r.end \in Int /\ r.end <= clock /\ UnbrokenIn(r.risk, r.end)
                      => UnbrokenIn(r.risk, r.end)'
  BY <1>2, <1>3 DEF UnbrokenIn
<1>5. CASE risk_events' = risk_events
  BY <1>2, <1>4, <1>5 DEF NoRecoveryInsideWindow, UnbrokenIn
<1>6. CASE risk_events' # risk_events
  <2>1. PICK row \in Rows :
          /\ risk_events' = Append(risk_events, row) /\ row.risk = currentEvent.start
          /\ row.state = "OPEN" \/ (pc = "persist_end" /\ row.end = clock /\ currentEvent # None)
    BY <1>1, <1>6, RowsWritten DEF Now
  <2>2. row.state = "RESOLVED" => UnbrokenIn(row.risk, row.end)
    BY <2>1 DEF RunsUnbroken, UnbrokenIn
  <2>3. row.state = "RESOLVED" => UnbrokenIn(row.risk, row.end)'
    BY <1>2, <1>4, <2>1, <2>2 DEF Rows
  <2>4. \A i \in DOMAIN risk_events' :
          \/ i \in DOMAIN risk_events /\ risk_events'[i] = risk_events[i]
          \/ risk_events'[i] = row
    BY <1>1, <2>1, AppendAll DEF TypeOK
  <2> QED BY <1>2, <1>4, <2>3, <2>4 DEF NoRecoveryInsideWindow, UnbrokenIn
<1> QED BY <1>5, <1>6

\* As long as no insert has failed, crashes or not, no healthy sample on file
\* falls strictly inside a resolved window.
THEOREM RecoveriesClose == Spec => []NoRecoveryInsideWindow
<1>1. Init => RecoveryInv
  <2>1. Init => TracksInv
    BY InitType DEF Init, TracksInv, InStep, Quiet
  <2>2. Init => RunsUnbroken /\ NoRecoveryInsideWindow
    BY DEF Init, Quiet, RunsUnbroken, NoRecoveryInsideWindow
  <2> QED BY <2>1, <2>2, InitBacked DEF RecoveryInv
<1>2. RecoveryInv /\ [Next]_vars => RecoveryInv'
  <2> SUFFICES ASSUME RecoveryInv, [Next]_vars PROVE RecoveryInv'
    OBVIOUS
  <2>1. EInv /\ EInv' /\ TracksInv /\ TracksInv'
    BY StepBacked, StepType, StepInStep DEF RecoveryInv, TracksInv
  <2>2. failures' = 0 => failures = 0
    BY <2>1, FailuresStay DEF EInv
  <2>3. failures' = 0 => RunsUnbroken'
    BY <2>1, <2>2, StepRunsUnbroken DEF RecoveryInv, TracksInv
  <2>4. NoRecoveryInsideWindow'
    <3>1. CASE failures' = 0
      BY <2>1, <2>2, <3>1, ResolvedStayUnbroken DEF RecoveryInv
    <3>2. CASE failures' # 0
      BY <3>2 DEF NoRecoveryInsideWindow
    <3> QED BY <3>1, <3>2
  <2> QED BY <2>1, <2>3, <2>4 DEF RecoveryInv
<1>3. RecoveryInv => NoRecoveryInsideWindow
  BY DEF RecoveryInv
<1> QED BY <1>1, <1>2, <1>3, PTL DEF Spec

-----------------------------------------------------------------------------
(* Anchors.                                                                *)

\* No anchor has been sent that the current event has still to send.
AnchorsToCome ==
  /\ pc \in {"persist_start", "emit_start"} =>
       \A k \in DOMAIN webhooks : webhooks[k].risk # currentEvent.start
  /\ currentEvent # None =>
       \A k \in DOMAIN webhooks : webhooks[k].risk = currentEvent.start => webhooks[k].kind = "DEPEG_START"

AnchorInv == IInv /\ EInv /\ AnchorsToCome /\ AtMostOneAnchor

\* Whoever leaves the anchors alone and tracks no other window keeps the order.
LEMMA AnchorsKept ==
  ASSUME AnchorsToCome, AtMostOneAnchor, webhooks' = webhooks,
         currentEvent' = None \/ (currentEvent # None /\ currentEvent'.start = currentEvent.start),
         pc' \in {"persist_start", "emit_start"} => pc = "persist_start" /\ currentEvent' # None
  PROVE  AnchorsToCome' /\ AtMostOneAnchor'
BY DEF AnchorsToCome, AtMostOneAnchor

\* A window opens after every row, and every anchor has a row.
LEMMA StartSnapshotAnchors ==
  ASSUME AnchorInv, NEW outcome, NEW c \in Cids, StartSnapshot(outcome, c)
  PROVE  AnchorsToCome' /\ AtMostOneAnchor'
<1>1. /\ TypeOK /\ pc = "start_snapshot" /\ det.active /\ webhooks' = webhooks
  BY DEF AnchorInv, EInv, TypeOK, StartSnapshot, PersistSnapshot
<1>2. CASE outcome # "stored"
  <2>1. pc' = "sleep" /\ currentEvent' = currentEvent
    BY <1>2 DEF StartSnapshot, GoTo
  <2> QED BY <1>1, <2>1, AnchorsKept DEF AnchorInv
<1>3. CASE outcome = "stored"
  <2>1. currentEvent'.start = det.windowStart /\ det.windowStart = det.lastBreachAt
    BY <1>1, <1>3 DEF StartSnapshot, TypeOK, DetectorState
  <2>2. \A i \in DOMAIN risk_events : risk_events[i].risk < det.windowStart
    BY <1>1, <2>1 DEF AnchorInv, IInv, OpeningIsNew, Opening
  <2>3. \A k \in DOMAIN webhooks : \E i \in DOMAIN risk_events :
          risk_events[i].risk = webhooks[k].risk
    <3>1. \A k \in DOMAIN webhooks : webhooks[k] \in Anchors
      BY <1>1, ElementOfSeq DEF TypeOK
    <3>2. \A w \in Anchors : w.kind = "DEPEG_START" \/ w.kind = "DEPEG_END"
      BY DEF Anchors
    <3>3. \A k \in DOMAIN webhooks : AnchorBacked(webhooks[k])
      BY DEF AnchorInv, EInv, Tables, AnchorsBacked
    <3> QED BY <3>1, <3>2, <3>3 DEF AnchorBacked, RowOnFile
  <2>4. det.windowStart \in Int /\ \A i \in DOMAIN risk_events : risk_events[i].risk \in Int
    BY <1>1, Numbers DEF Rows, TypeOK, DetectorState
  <2>5. \A k \in DOMAIN webhooks : webhooks[k].risk # det.windowStart
    BY <2>2, <2>3, <2>4
  <2> QED BY <1>1, <2>1, <2>5 DEF AnchorInv, AnchorsToCome, AtMostOneAnchor
<1> QED BY <1>2, <1>3

LEMMA EmitAnchors ==
  ASSUME AnchorInv, NEW delivered \in BOOLEAN, EmitStart(delivered) \/ EmitEnd(delivered)
  PROVE  AnchorsToCome' /\ AtMostOneAnchor'
<1>1. /\ TypeOK /\ pc \in {"emit_start", "emit_end"} /\ pc' = "sleep"
      /\ currentEvent # None /\ currentEvent.start \in Int /\ cid \in Cids /\ sample.ts \in Int
      /\ currentEvent' = None \/ (pc = "emit_start" /\ currentEvent' = currentEvent)
  BY NoneIsNoRecord
  DEF AnchorInv, EInv, EmitStart, EmitEnd, EmitWebhook, GoTo, TypeOK, Events, Samples
<1>2. CASE webhooks' = webhooks
  BY <1>1, <1>2, AnchorsKept DEF AnchorInv
<1>3. CASE webhooks' # webhooks
  <2>1. PICK kind \in {"DEPEG_START", "DEPEG_END"}, timestamp \in Int :
          /\ webhooks' = Append(webhooks, [kind |-> kind, risk |-> currentEvent.start,
                                           timestamp |-> timestamp, cid |-> cid])
          /\ kind = "DEPEG_START" <=> pc = "emit_start"
    BY <1>1, <1>3 DEF EmitStart, EmitEnd, EmitWebhook
  <2>2. PICK w \in Anchors : w = [kind |-> kind, risk |-> currentEvent.start,
                                  timestamp |-> timestamp, cid |-> cid]
    BY <1>1 DEF Anchors
  <2>3. w.kind = kind /\ w.risk = currentEvent.start /\ webhooks' = Append(webhooks, w)
    BY <2>1, <2>2
  <2>4. \A k \in DOMAIN webhooks : webhooks[k].risk = w.risk => webhooks[k].kind # w.kind
    BY <1>1, <2>1, <2>3 DEF AnchorInv, AnchorsToCome
  <2>5. \A k \in DOMAIN webhooks' :
          \/ k \in DOMAIN webhooks /\ webhooks'[k] = webhooks[k]
          \/ k = Len(webhooks) + 1 /\ webhooks'[k] = w
    BY <1>1, <2>3, AppendAll DEF TypeOK
  <2>6. AtMostOneAnchor'
    BY <2>4, <2>5 DEF AnchorInv, AtMostOneAnchor
  <2>7. AnchorsToCome'
    BY <1>1, <2>1, <2>3, <2>5 DEF AnchorInv, AnchorsToCome
  <2> QED BY <2>6, <2>7
<1> QED BY <1>2, <1>3

LEMMA StepAnchors ==
  ASSUME AnchorInv, [Next]_vars
  PROVE  AnchorsToCome' /\ AtMostOneAnchor'
<1>1. TypeOK /\ TypeOK'
  BY StepType DEF AnchorInv, EInv
<1>2. CASE \E outcome \in Outcomes, c \in Cids : StartSnapshot(outcome, c)
  BY <1>2, StartSnapshotAnchors
<1>3. CASE \E delivered \in BOOLEAN : EmitStart(delivered) \/ EmitEnd(delivered)
  BY <1>3, EmitAnchors
<1>4. CASE StartPoll \/ Crash
  BY <1>4, AnchorsKept DEF AnchorInv, StartPoll, Crash, tables
<1>5. CASE UNCHANGED vars
  BY <1>5 DEF AnchorInv, AnchorsToCome, AtMostOneAnchor, vars, memory, tables
<1>6. ASSUME NEW outcome \in Outcomes, InsertSample(outcome)
      PROVE  AnchorsToCome' /\ AtMostOneAnchor'
  <2>1. webhooks' = webhooks /\ pc' \notin {"persist_start", "emit_start"}
    BY <1>6 DEF InsertSample, FeedDetector, GoTo
  <2>2. currentEvent' = None \/ (currentEvent # None /\ currentEvent'.start = currentEvent.start)
    BY <1>1, <1>6 DEF InsertSample, TypeOK, Events
  <2> QED BY <2>1, <2>2, AnchorsKept DEF AnchorInv
<1>7. ASSUME NEW outcome \in Outcomes,
             PersistOpen(outcome) \/ PersistStart(outcome) \/ PersistEnd(outcome)
      PROVE  AnchorsToCome' /\ AtMostOneAnchor'
  <2>1. /\ webhooks' = webhooks /\ currentEvent # None
        /\ pc' \in {"persist_start", "emit_start"} => pc = "persist_start"
    BY <1>1, <1>7
    DEF PersistOpen, PersistStart, PersistEnd, PersistEvent, FeedDetector, GoTo, TypeOK
  <2>2. currentEvent'.start = currentEvent.start
    BY <1>1, <1>7, <2>1 DEF PersistOpen, PersistStart, PersistEnd, PersistEvent, TypeOK, Events
  <2>3. pc' \in {"persist_start", "emit_start"} => currentEvent' # None
    BY <1>1 DEF TypeOK
  <2> QED BY <2>1, <2>2, <2>3, AnchorsKept DEF AnchorInv
<1>8. ASSUME NEW outcome \in Outcomes, NEW c \in Cids, EndSnapshot(outcome, c)
      PROVE  AnchorsToCome' /\ AtMostOneAnchor'
  <2>1. /\ webhooks' = webhooks /\ currentEvent' = currentEvent
        /\ pc' \notin {"persist_start", "emit_start"}
    BY <1>8 DEF EndSnapshot, PersistSnapshot, GoTo
  <2> QED BY <2>1, AnchorsKept DEF AnchorInv
<1> QED BY <1>2, <1>3, <1>4, <1>6, <1>7, <1>8, <1>5 DEF Next, Answer

\* If the grace period is not zero, the backend is told of a window's start and
\* of its end at most once, whatever fails and wherever the process dies: a
\* webhook is never retried, and no restart opens a window again.
THEOREM AnchorsOnce ==
  ASSUME GracePeriod > 0
  PROVE  Spec => []AtMostOneAnchor
<1>1. Init => AnchorInv
  <2>1. Init => AnchorsToCome /\ AtMostOneAnchor
    BY DEF Init, AnchorsToCome, AtMostOneAnchor
  <2> QED BY <2>1, InitOrder, InitBacked DEF AnchorInv
<1>2. AnchorInv /\ [Next]_vars => AnchorInv'
  BY StepOrder, StepBacked, StepAnchors DEF AnchorInv
<1>3. AnchorInv => AtMostOneAnchor
  BY DEF AnchorInv
<1> QED BY <1>1, <1>2, <1>3, PTL DEF Spec

-----------------------------------------------------------------------------
(* The windows the readers see.                                            *)

\* What the instance's bounds allow a sample to be.
BoundedSamples == [ts: 0..MaxTime, rBps: Ratios, loss: Losses]

Bounded ==
  /\ sample \in BoundedSamples \cup {None}
  /\ pool_samples \subseteq BoundedSamples
  /\ 0 <= clock

\* Of the rows of each risk there is one whose version is the largest.
HasLatest ==
  \A i \in DOMAIN risk_events : \E j \in DOMAIN risk_events :
    /\ risk_events[j].risk = risk_events[i].risk
    /\ \A k \in DOMAIN risk_events :
         risk_events[k].risk = risk_events[i].risk => risk_events[k].version <= risk_events[j].version

\* The tracked window is not resolved before the poll's last await, no row of it
\* carries a loss beyond the largest one seen, and it has rows when it ends.
EventOpen ==
  currentEvent # None =>
    /\ pc # "emit_end" =>
         \A i \in DOMAIN risk_events : risk_events[i].risk = currentEvent.start =>
           risk_events[i].state = "OPEN" /\ risk_events[i].severity <= currentEvent.maxLossBps
    /\ pc = "persist_start" =>
         /\ sample.loss = currentEvent.maxLossBps
         /\ \A i \in DOMAIN risk_events : risk_events[i].risk # currentEvent.start
    /\ pc \in {"end_snapshot", "persist_end"} =>
         \E i \in DOMAIN risk_events : risk_events[i].risk = currentEvent.start

WInv == IInv /\ EInv /\ Bounded /\ HasLatest /\ EventOpen

\* What the query for a risk's latest row returns, if no version is written
\* twice: the row whose version is the largest.
LEMMA LatestIs ==
  ASSUME NEW rows \in Seq(Rows), NEW risk, NEW j \in DOMAIN rows, rows[j].risk = risk,
         \A i, k \in DOMAIN rows : SameKey(rows[i], rows[k]) => i = k,
         \A k \in DOMAIN rows : rows[k].risk = risk => rows[k].version <= rows[j].version
  PROVE  Latest(rows, risk) = rows[j]
<1>1. \A i \in DOMAIN rows : rows[i] \in Rows /\ rows[i].version \in Nat /\ i \in Nat
  <2>1. DOMAIN rows = 1..Len(rows) /\ Len(rows) \in Nat
    BY LenProperties
  <2>2. \A i \in DOMAIN rows : rows[i] \in Rows
    BY ElementOfSeq
  <2> QED BY <2>1, <2>2 DEF Rows
<1>2. Final(rows) = {rows[i] : i \in DOMAIN rows}
  <2>1. \A i, k \in DOMAIN rows : SameKey(rows[i], rows[k]) => k <= i
    <3>1. \A i \in DOMAIN rows : i <= i
      BY <1>1
    <3> QED BY <3>1
  <2>2. Kept(rows) = DOMAIN rows
    BY <2>1 DEF Kept
  <2> QED BY <2>2 DEF Final
<1>3. \A r \in Final(rows) :
        r.risk = risk /\ (\A q \in Final(rows) : q.risk = risk => q.version <= r.version)
        <=> r = rows[j]
  <2> SUFFICES ASSUME NEW i \in DOMAIN rows
               PROVE  /\ rows[i].risk = risk
                      /\ \A q \in Final(rows) : q.risk = risk => q.version <= rows[i].version
                      <=> rows[i] = rows[j]
    BY <1>2
  <2>1. CASE i = j
    BY <1>2, <2>1
  <2>2. CASE i # j
    <3>1. rows[i] # rows[j]
      BY <2>2 DEF SameKey
    <3>2. rows[i].risk = risk => rows[i].version # rows[j].version
      BY <2>2 DEF SameKey
    <3> QED BY <1>1, <1>2, <3>1, <3>2
  <2> QED BY <2>1, <2>2
<1>4. rows[j] \in Final(rows)
  BY <1>2
<1> QED BY <1>3, <1>4 DEF Latest, LatestOf

\* A row of the tracked window becomes its latest one, and no other changes.
LEMMA RowBecomesLatest ==
  ASSUME IInv, HasLatest, VersionsNeverReused', TypeOK', currentEvent # None, NEW row \in Rows,
         risk_events' = Append(risk_events, row), row.risk = currentEvent.start,
         row.version = currentEvent.version
  PROVE  /\ HasLatest'
         /\ Risks(risk_events') = Risks(risk_events) \cup {row.risk}
         /\ Latest(risk_events', row.risk) = row
         /\ \A s \in Risks(risk_events) :
              s # row.risk => Latest(risk_events', s) = Latest(risk_events, s)
<1> DEFINE new == Len(risk_events) + 1
<1>1. /\ risk_events \in Seq(Rows) /\ risk_events' \in Seq(Rows)
      /\ \A i \in DOMAIN risk_events : risk_events[i] \in Rows
  BY Numbers DEF IInv, TypeOK
<1>2. /\ DOMAIN risk_events' = DOMAIN risk_events \cup {new}
      /\ new \notin DOMAIN risk_events
      /\ \A i \in DOMAIN risk_events : risk_events'[i] = risk_events[i]
      /\ risk_events'[new] = row
  BY <1>1, AppendProperties, LenProperties
<1> HIDE DEF new
<1>3. \A i \in DOMAIN risk_events :
        risk_events[i].risk = row.risk => risk_events[i].version <= row.version
  <2>1. \A i \in DOMAIN risk_events : risk_events[i].version \in Nat
    BY <1>1 DEF Rows
  <2>2. row.version \in Nat
    BY DEF Rows
  <2>3. \A i \in DOMAIN risk_events :
          risk_events[i].risk = row.risk => risk_events[i].version < row.version
    BY DEF IInv, EventIsNewest
  <2> QED BY <2>1, <2>2, <2>3
<1>4. \A k \in DOMAIN risk_events' :
        risk_events'[k].risk = row.risk => risk_events'[k].version <= row.version
  <2>1. row.version \in Nat
    BY DEF Rows
  <2> QED BY <1>2, <1>3, <2>1
<1>5. \A i, k \in DOMAIN risk_events' : SameKey(risk_events'[i], risk_events'[k]) => i = k
  BY DEF VersionsNeverReused, SameKey
<1>6. Latest(risk_events', row.risk) = row
  <2>1. new \in DOMAIN risk_events' /\ risk_events'[new].risk = row.risk
    BY <1>2
  <2>2. \A k \in DOMAIN risk_events' :
          risk_events'[k].risk = row.risk => risk_events'[k].version <= risk_events'[new].version
    BY <1>2, <1>4
  <2>3. Latest(risk_events', row.risk) = risk_events'[new]
    BY ONLY <1>1, <1>5, <2>1, <2>2, LatestIs
  <2> QED BY <1>2, <2>3
<1>7. ASSUME NEW s \in Risks(risk_events), s # row.risk
      PROVE  \E j \in DOMAIN risk_events :
               /\ risk_events[j].risk = s
               /\ \A k \in DOMAIN risk_events' :
                    risk_events'[k].risk = s => risk_events'[k].version <= risk_events[j].version
               /\ Latest(risk_events, s) = risk_events[j]
               /\ Latest(risk_events', s) = risk_events[j]
  <2>1. PICK j \in DOMAIN risk_events :
          /\ risk_events[j].risk = s
          /\ \A k \in DOMAIN risk_events :
               risk_events[k].risk = s => risk_events[k].version <= risk_events[j].version
    <3>1. PICK i \in DOMAIN risk_events : risk_events[i].risk = s
      BY <1>7 DEF Risks
    <3> QED BY <3>1 DEF HasLatest
  <2>2. Latest(risk_events, s) = risk_events[j]
    <3>1. \A i, k \in DOMAIN risk_events : SameKey(risk_events[i], risk_events[k]) => i = k
      BY DEF IInv, VersionsNeverReused
    <3> QED BY ONLY <1>1, <2>1, <3>1, LatestIs
  <2>3. \A k \in DOMAIN risk_events' :
          risk_events'[k].risk = s => risk_events'[k].version <= risk_events[j].version
    BY <1>2, <1>7, <2>1
  <2>4. Latest(risk_events', s) = risk_events'[j]
    <3>1. j \in DOMAIN risk_events' /\ risk_events'[j].risk = s
      BY <1>2, <2>1
    <3>2. \A k \in DOMAIN risk_events' :
            risk_events'[k].risk = s => risk_events'[k].version <= risk_events'[j].version
      BY <1>2, <2>1, <2>3
    <3> QED BY ONLY <1>1, <1>5, <3>1, <3>2, LatestIs
  <2> QED BY <1>2, <2>1, <2>2, <2>3, <2>4
<1>8. HasLatest'
  <2>1. \A i \in DOMAIN risk_events' : i = new \/ risk_events'[i].risk \in Risks(risk_events)
    BY <1>2 DEF Risks
  <2>2. ASSUME NEW i \in DOMAIN risk_events'
        PROVE  \E j \in DOMAIN risk_events' :
                 /\ risk_events'[j].risk = risk_events'[i].risk
                 /\ \A k \in DOMAIN risk_events' : risk_events'[k].risk = risk_events'[i].risk
                      => risk_events'[k].version <= risk_events'[j].version
    <3>1. CASE risk_events'[i].risk = row.risk
      BY <1>2, <1>4, <3>1
    <3>2. CASE risk_events'[i].risk # row.risk
      BY <1>2, <1>7, <2>1, <3>2
    <3> QED BY <3>1, <3>2
  <2> QED BY <2>2 DEF HasLatest
<1>9. Risks(risk_events') = Risks(risk_events) \cup {row.risk}
  BY <1>2 DEF Risks
<1> QED BY <1>6, <1>7, <1>8, <1>9

LEMMA StepBounded ==
  ASSUME TypeOK, TypeOK', Bounded, [Next]_vars
  PROVE  Bounded'
<1>1. CASE StartPoll
  <2>1. PICK ts \in clock..MaxTime, rBps \in Ratios, loss \in Losses :
          sample' = [ts |-> ts, rBps |-> rBps, loss |-> loss] /\ clock' = ts
    BY <1>1 DEF StartPoll
  <2>2. clock \in Int /\ 0 <= clock /\ MaxTime \in Int
    BY IndexerConfig DEF TypeOK, Bounded
  <2>3. ts \in 0..MaxTime
    BY <2>1, <2>2
  <2>4. pool_samples' = pool_samples
    BY <1>1 DEF StartPoll, tables
  <2> QED BY <2>1, <2>3, <2>4 DEF Bounded, BoundedSamples
<1>2. CASE ~StartPoll
  <2>1. clock' = clock /\ sample' \in {sample, None}
    BY <1>2 DEF Next, Answer, Attempt, InsertSample, PersistOpen, PersistStart, PersistEnd,
       PersistEvent, StartSnapshot, EndSnapshot, PersistSnapshot, EmitStart, EmitEnd, EmitWebhook,
       FeedDetector, GoTo, Crash, vars, memory
  <2>2. pool_samples' \subseteq pool_samples \cup (IF pc = "insert_sample" THEN {sample} ELSE {})
    BY <1>2 DEF Next, Answer, InsertSample, Insert, PersistOpen, PersistStart, PersistEnd,
       PersistEvent, StartSnapshot, EndSnapshot, PersistSnapshot, EmitStart, EmitEnd, EmitWebhook,
       Crash, tables, vars
  <2>3. pc = "insert_sample" => sample # None
    BY DEF TypeOK
  <2> QED BY <2>1, <2>2, <2>3 DEF Bounded
<1> QED BY <1>1, <1>2

\* The rows stay what they are, and so does the tracked window.
LEMMA EventOpenKept ==
  ASSUME TypeOK, EventOpen, risk_events' = risk_events, pc' # "persist_start",
         pc' \in {"end_snapshot", "persist_end"} => pc = "end_snapshot",
         \/ currentEvent' = None
         \/ /\ currentEvent # None /\ currentEvent' # None /\ pc # "emit_end"
            /\ currentEvent'.start = currentEvent.start /\ currentEvent'.maxLossBps \in Int
            /\ currentEvent.maxLossBps <= currentEvent'.maxLossBps
  PROVE  EventOpen'
<1>1. CASE currentEvent' = None
  BY <1>1 DEF EventOpen
<1>2. CASE currentEvent' # None
  <2>1. /\ currentEvent # None /\ pc # "emit_end"
        /\ currentEvent'.start = currentEvent.start /\ currentEvent'.maxLossBps \in Int
        /\ currentEvent.maxLossBps <= currentEvent'.maxLossBps /\ currentEvent.maxLossBps \in Int
    BY <1>2 DEF TypeOK, Events
  <2>2. \A i \in DOMAIN risk_events : risk_events[i].severity \in Int
    BY Numbers DEF Rows
  <2> QED BY <1>2, <2>1, <2>2 DEF EventOpen
<1> QED BY <1>1, <1>2

\* An OPEN row of the tracked window was written, or refused.
LEMMA EventOpenWritten ==
  ASSUME TypeOK, EventOpen, pc \in {"persist_start", "persist_open"}, NEW outcome,
         PersistEvent("OPEN", None, IF pc = "persist_start" THEN sample.loss
                                    ELSE currentEvent.maxLossBps, outcome),
         pc' # "persist_start", pc' # "persist_end", pc' = "end_snapshot" => outcome = "stored"
  PROVE  EventOpen'
<1> DEFINE severity == IF pc = "persist_start" THEN sample.loss ELSE currentEvent.maxLossBps
<1>1. /\ currentEvent # None /\ currentEvent \in Events
      /\ currentEvent.start \in Int /\ currentEvent.version \in Nat
      /\ severity = currentEvent.maxLossBps /\ severity \in Nat
  BY DEF TypeOK, EventOpen, Events
<1> HIDE DEF severity
<1>2. /\ currentEvent'.start = currentEvent.start
      /\ currentEvent'.maxLossBps = currentEvent.maxLossBps
  BY <1>1 DEF PersistEvent, Events
<1>3. CASE ~Written(outcome)
  <2>1. risk_events' = risk_events
    BY <1>3 DEF PersistEvent
  <2> QED BY <1>1, <1>2, <1>3, <2>1 DEF EventOpen, Written
<1>4. CASE Written(outcome)
  <2>1. PICK row \in Rows :
          row = [risk |-> currentEvent.start, version |-> currentEvent.version,
                 state |-> "OPEN", end |-> None, severity |-> severity]
    BY <1>1 DEF Rows
  <2>2. /\ row.risk = currentEvent.start /\ row.state = "OPEN"
        /\ row.severity = currentEvent.maxLossBps /\ row.severity <= currentEvent.maxLossBps
        /\ risk_events' = Append(risk_events, row) /\ risk_events \in Seq(Rows)
    BY <1>1, <1>4, <2>1 DEF PersistEvent, severity, TypeOK
  <2>3. /\ \A i \in DOMAIN risk_events' :
             (i \in DOMAIN risk_events /\ risk_events'[i] = risk_events[i]) \/ risk_events'[i] = row
        /\ \E i \in DOMAIN risk_events' : risk_events'[i] = row
    <3>1. Len(risk_events) + 1 \in DOMAIN risk_events' /\ risk_events'[Len(risk_events) + 1] = row
      BY <2>2, AppendProperties, LenProperties
    <3> QED BY <2>2, <3>1, AppendAll
  <2> QED BY <1>1, <1>2, <2>2, <2>3 DEF EventOpen
<1> QED BY <1>3, <1>4

LEMMA StepEventOpen ==
  ASSUME WInv, TypeOK', [Next]_vars, FailureModes \subseteq {"rejected"}
  PROVE  EventOpen'
<1>1. TypeOK /\ EventOpen
  BY DEF WInv, EInv
<1>2. currentEvent # None =>
        /\ currentEvent \in Events /\ currentEvent.maxLossBps \in Int
        /\ currentEvent.maxLossBps <= currentEvent.maxLossBps
  BY <1>1 DEF TypeOK, Events
<1>3. CASE StartPoll
  BY <1>1, <1>2, <1>3, EventOpenKept DEF StartPoll, tables
<1>4. ASSUME NEW outcome \in Outcomes, InsertSample(outcome) PROVE EventOpen'
  <2>1. risk_events' = risk_events /\ pc = "insert_sample"
    BY <1>4 DEF InsertSample
  <2>2. CASE currentEvent = None
    <3>1. currentEvent' = None
      BY <1>4, <2>2 DEF InsertSample
    <3> QED BY <3>1 DEF EventOpen
  <2>3. CASE currentEvent # None
    <3>1. pc' \in {"sleep", "persist_open"} /\ currentEvent' # None
      BY <1>4, <2>3, NoneIsNoRecord, InsertSampleType DEF InsertSample, GoTo, TypeOK
    <3>2. /\ currentEvent'.start = currentEvent.start
          /\ currentEvent'.maxLossBps \in {currentEvent.maxLossBps,
                                           MaxOf(currentEvent.maxLossBps, sample.loss)}
      BY <1>2, <1>4, <2>3 DEF InsertSample, Events
    <3>3. sample.loss \in Int
      BY <1>1, <2>1, NoneIsNoRecord DEF TypeOK, Samples
    <3>4. currentEvent'.maxLossBps \in Int /\ currentEvent.maxLossBps <= currentEvent'.maxLossBps
      BY <1>2, <2>3, <3>2, <3>3 DEF MaxOf
    <3> QED BY <1>1, <2>1, <2>3, <3>1, <3>2, <3>4, EventOpenKept
  <2> QED BY <2>2, <2>3
<1>5. ASSUME NEW outcome \in Outcomes, PersistOpen(outcome) PROVE EventOpen'
  <2>1. /\ pc = "persist_open" /\ pc' \in {"sleep", "start_snapshot", "end_snapshot"}
        /\ pc' = "end_snapshot" => outcome = "stored"
        /\ PersistEvent("OPEN", None, currentEvent.maxLossBps, outcome)
    BY <1>5 DEF PersistOpen, FeedDetector, GoTo
  <2> QED BY <1>1, <2>1, EventOpenWritten
<1>6. ASSUME NEW outcome \in Outcomes, PersistStart(outcome) PROVE EventOpen'
  <2>1. /\ pc = "persist_start" /\ pc' \in {"sleep", "emit_start"}
        /\ PersistEvent("OPEN", None, sample.loss, outcome)
    BY <1>6 DEF PersistStart, GoTo
  <2> QED BY <1>1, <2>1, EventOpenWritten
<1>7. ASSUME NEW outcome \in Outcomes, PersistEnd(outcome) PROVE EventOpen'
  <2>1. CASE outcome = "stored"
    <3>1. pc' = "emit_end"
      BY <1>7, <2>1 DEF PersistEnd, GoTo
    <3> QED BY <3>1 DEF EventOpen
  <2>2. CASE outcome = "rejected"
    <3>1. risk_events' = risk_events /\ pc' = "sleep" /\ pc = "persist_end"
      BY <1>7, <2>2 DEF PersistEnd, PersistEvent, Written, GoTo
    <3>2. currentEvent # None /\ currentEvent'.start = currentEvent.start
          /\ currentEvent'.maxLossBps = currentEvent.maxLossBps
      BY <1>1, <1>2, <1>7, <3>1 DEF PersistEnd, PersistEvent, TypeOK, Events
    <3> QED BY <1>1, <1>2, <3>1, <3>2, EventOpenKept
  <2> QED BY <2>1, <2>2 DEF Outcomes
<1>8. ASSUME NEW outcome \in Outcomes, NEW c \in Cids, StartSnapshot(outcome, c) PROVE EventOpen'
  <2>1. pc = "start_snapshot" /\ det.active /\ risk_events' = risk_events
    BY <1>1, <1>8 DEF StartSnapshot, PersistSnapshot, TypeOK
  <2>2. CASE outcome # "stored"
    <3>1. pc' = "sleep" /\ currentEvent' = currentEvent
      BY <1>8, <2>2 DEF StartSnapshot, GoTo
    <3> QED BY <1>1, <1>2, <2>1, <3>1, EventOpenKept
  <2>3. CASE outcome = "stored"
    <3>1. /\ pc' = "persist_start" /\ sample' = sample /\ currentEvent'.start = det.windowStart
          /\ currentEvent'.maxLossBps = sample.loss
      BY <1>8, <2>3 DEF StartSnapshot
    <3>2. det.windowStart = det.lastBreachAt /\ det.windowStart \in Int
      BY <1>1, <2>1 DEF TypeOK, DetectorState
    <3>3. \A i \in DOMAIN risk_events :
            risk_events[i].risk \in Int /\ risk_events[i].risk < det.windowStart
      BY <1>1, <2>1, <3>2, Numbers DEF WInv, IInv, OpeningIsNew, Opening, Rows
    <3> QED BY <2>1, <3>1, <3>2, <3>3 DEF EventOpen
  <2> QED BY <2>2, <2>3
<1>9. ASSUME NEW outcome \in Outcomes, NEW c \in Cids, EndSnapshot(outcome, c) PROVE EventOpen'
  <2>1. /\ pc = "end_snapshot" /\ pc' \in {"persist_end", "sleep"} /\ risk_events' = risk_events
        /\ currentEvent' = currentEvent
    BY <1>9 DEF EndSnapshot, PersistSnapshot, GoTo
  <2> QED BY <1>1, <1>2, <2>1, EventOpenKept
<1>10. ASSUME NEW delivered \in BOOLEAN, EmitStart(delivered) \/ EmitEnd(delivered)
       PROVE  EventOpen'
  <2>1. /\ risk_events' = risk_events /\ pc' = "sleep"
        /\ currentEvent' = None \/ (pc = "emit_start" /\ currentEvent' = currentEvent)
    BY <1>10 DEF EmitStart, EmitEnd, EmitWebhook, GoTo
  <2> QED BY <1>1, <1>2, <2>1, EventOpenKept
<1>11. CASE Crash
  BY <1>11 DEF Crash, EventOpen
<1>12. CASE UNCHANGED vars
  BY <1>1, <1>12 DEF vars, memory, tables, EventOpen
<1> QED
  BY <1>3, <1>4, <1>5, <1>6, <1>7, <1>8, <1>9, <1>10, <1>11, <1>12 DEF Next, Answer

\* What DepegWindows' variable is here.
Windows == [s \in Risks(risk_events) |-> WindowView(Latest(risk_events, s))]

\* A row that is written opens a window, tracks the newest one or resolves it.
LEMMA RowIsWindowStep ==
  ASSUME WInv, WInv', [Next]_vars, risk_events' # risk_events
  PROVE  DepegWindow!Next
<1>1. /\ TypeOK /\ TypeOK' /\ IInv /\ HasLatest /\ EventOpen /\ VersionsNeverReused'
      /\ \A i \in DOMAIN risk_events : risk_events[i] \in Rows
  BY Numbers DEF WInv, EInv, IInv
<1>2. PICK row \in Rows :
        /\ risk_events' = Append(risk_events, row)
        /\ currentEvent # None /\ row.risk = currentEvent.start
        /\ row.version = currentEvent.version
        /\ \/ /\ pc = "persist_start" /\ row.state = "OPEN" /\ row.end = None
              /\ row.severity = sample.loss
           \/ /\ pc = "persist_open" /\ row.state = "OPEN" /\ row.end = None
              /\ row.severity = currentEvent.maxLossBps
           \/ /\ pc = "persist_end" /\ row.state = "RESOLVED" /\ row.end = sample.ts
              /\ row.severity = MaxOf(currentEvent.maxLossBps, sample.loss)
  BY <1>1, RowsWritten
<1>3. /\ Risks(risk_events') = Risks(risk_events) \cup {row.risk}
      /\ Latest(risk_events', row.risk) = row
      /\ \A s \in Risks(risk_events) :
           s # row.risk => Latest(risk_events', s) = Latest(risk_events, s)
  BY <1>1, <1>2, RowBecomesLatest
\* The row is borne out by samples, which are within the bounds of the instance.
<1>4. /\ row.risk \in 0..MaxTime /\ row.severity \in Losses
      /\ row.state = "RESOLVED" => row.end \in 0..MaxTime /\ row.end >= row.risk + GracePeriod
  <2>1. RowBacked(row)'
    <3>1. Len(risk_events) + 1 \in DOMAIN risk_events' /\ risk_events'[Len(risk_events) + 1] = row
      BY <1>1, <1>2, AppendProperties, LenProperties DEF TypeOK
    <3> QED BY <3>1 DEF WInv, EInv, Tables, RowsBacked
  <2>2. \A p \in pool_samples' : p.ts \in 0..MaxTime /\ p.loss \in Losses
    BY DEF WInv, Bounded, BoundedSamples
  <2> QED BY <2>1, <2>2 DEF RowBacked, BreachOnFile, LossOnFile, HealthyOnFile
<1>5. \A s \in Risks(risk_events) : s <= row.risk /\ s \in Int /\ row.risk \in Int
  BY <1>1, <1>2 DEF IInv, EventIsNewest, Risks, Rows
\* Of a window that has rows, the latest is OPEN and its loss no larger.
<1>6. row.risk \in Risks(risk_events) =>
        /\ Latest(risk_events, row.risk).state = "OPEN"
        /\ Latest(risk_events, row.risk).severity <= row.severity
  <2> SUFFICES ASSUME row.risk \in Risks(risk_events)
               PROVE  /\ Latest(risk_events, row.risk).state = "OPEN"
                      /\ Latest(risk_events, row.risk).severity <= row.severity
    OBVIOUS
  <2>1. PICK j \in DOMAIN risk_events :
          risk_events[j].risk = row.risk /\ Latest(risk_events, row.risk) = risk_events[j]
    <3>1. PICK j \in DOMAIN risk_events :
            /\ risk_events[j].risk = row.risk
            /\ \A k \in DOMAIN risk_events :
                 risk_events[k].risk = row.risk => risk_events[k].version <= risk_events[j].version
      <4>1. PICK i \in DOMAIN risk_events : risk_events[i].risk = row.risk
        BY DEF Risks
      <4> QED BY <1>1, <4>1 DEF HasLatest
    <3>2. \A i, k \in DOMAIN risk_events : SameKey(risk_events[i], risk_events[k]) => i = k
      BY <1>1 DEF IInv, VersionsNeverReused
    <3>3. risk_events \in Seq(Rows)
      BY <1>1 DEF TypeOK
    <3> QED BY ONLY <3>1, <3>2, <3>3, LatestIs
  <2>2. pc \in {"persist_open", "persist_end"}
    BY <1>1, <1>2, <2>1 DEF EventOpen
  <2>3. risk_events[j].state = "OPEN" /\ risk_events[j].severity <= currentEvent.maxLossBps
    BY <1>1, <1>2, <2>1, <2>2 DEF EventOpen
  <2>4. currentEvent.maxLossBps <= row.severity /\ currentEvent.maxLossBps \in Int
        /\ row.severity \in Int /\ risk_events[j].severity \in Int
    <3>1. /\ currentEvent.maxLossBps \in Int /\ sample.loss \in Int
          /\ row.severity \in Int /\ risk_events[j].severity \in Int
      <4>1. currentEvent \in Events /\ sample \in Samples
        BY <1>1, <1>2, <2>2 DEF TypeOK
      <4> QED BY <1>1, <4>1 DEF Events, Samples, Rows
    <3> QED BY <1>2, <2>2, <3>1 DEF MaxOf
  <2> QED BY <2>1, <2>3, <2>4
\* A window is resolved only once it has rows.
<1>7. row.state = "RESOLVED" => row.risk \in Risks(risk_events)
  BY <1>1, <1>2 DEF EventOpen, Risks
<1>8. Windows' = [s \in DOMAIN Windows \cup {row.risk} |->
                    IF s = row.risk THEN WindowView(row) ELSE Windows[s]]
  BY <1>3 DEF Windows
<1>9. /\ DOMAIN Windows = Risks(risk_events)
      /\ \A s \in Risks(risk_events) : Windows[s] = WindowView(Latest(risk_events, s))
  BY DEF Windows
<1>10. CASE row.risk \notin Risks(risk_events)
  <2>1. \A s \in DOMAIN Windows : s < row.risk
    BY <1>5, <1>9, <1>10
  <2>2. WindowView(row) = DepegWindow!OpenWindow(row.severity)
    BY <1>2, <1>7, <1>10 DEF WindowView, DepegWindow!OpenWindow
  <2>3. DepegWindow!Open(row.risk, row.severity)
    BY <1>8, <2>1, <2>2 DEF DepegWindow!Open, DepegWindow!With, Windows
  <2> QED BY <1>4, <2>3 DEF DepegWindow!Next
<1>11. CASE row.risk \in Risks(risk_events)
  <2>1. /\ row.risk \in DOMAIN Windows /\ Windows[row.risk].state = "OPEN"
        /\ row.severity >= Windows[row.risk].severity
        /\ \A s \in DOMAIN Windows : s <= row.risk
    <3>1. Latest(risk_events, row.risk).severity <= row.severity
      BY <1>6, <1>11
    <3> QED BY <1>5, <1>6, <1>9, <1>11, <3>1 DEF WindowView
  <2>2. DepegWindow!OpenNewest(row.risk)
    BY <2>1 DEF DepegWindow!OpenNewest, Windows
  <2>3. CASE row.state = "OPEN"
    <3>1. WindowView(row) = DepegWindow!OpenWindow(row.severity)
      BY <1>2, <2>3 DEF WindowView, DepegWindow!OpenWindow
    <3>2. DepegWindow!Track(row.risk, row.severity)
      BY <1>8, <2>1, <2>2, <3>1 DEF DepegWindow!Track, DepegWindow!With, Windows
    <3> QED BY <1>4, <3>2 DEF DepegWindow!Next
  <2>4. CASE row.state = "RESOLVED"
    <3>1. WindowView(row) = DepegWindow!ResolvedWindow(row.end, row.severity)
      BY <2>4 DEF WindowView, DepegWindow!ResolvedWindow
    <3>2. DepegWindow!Resolve(row.risk, row.end, row.severity)
      BY <1>4, <1>8, <2>1, <2>2, <2>4, <3>1 DEF DepegWindow!Resolve, DepegWindow!With, Windows
    <3> QED BY <1>4, <2>4, <3>2 DEF DepegWindow!Next
  <2> QED BY <1>2, <2>3, <2>4
<1> QED BY <1>10, <1>11

\* If the grace period is not zero and an insert that fails writes nothing, what
\* the readers of risk_events see is a run of DepegWindows, whatever fails and
\* wherever the process dies.  An insert that is stored but not acknowledged
\* breaks it: the window it resolved is tracked, and written OPEN, once more.
THEOREM ImplementsWindows ==
  ASSUME GracePeriod > 0, FailureModes \subseteq {"rejected"}
  PROVE  Spec => ImplementsDepegWindows
<1>1. Init => WInv /\ DepegWindow!Init
  <2> SUFFICES ASSUME Init PROVE WInv /\ DepegWindow!Init
    OBVIOUS
  <2>1. DOMAIN risk_events = {}
    BY DEF Init
  <2>2. Bounded /\ HasLatest /\ EventOpen
    BY <2>1 DEF Init, Bounded, HasLatest, EventOpen
  <2>3. DepegWindow!Init
    BY <2>1 DEF DepegWindow!Init, Risks
  <2> QED BY <2>2, <2>3, InitOrder, InitBacked DEF WInv
<1>2. WInv /\ [Next]_vars => WInv'
  <2> SUFFICES ASSUME WInv, [Next]_vars PROVE WInv'
    OBVIOUS
  <2>1. IInv' /\ EInv' /\ TypeOK /\ TypeOK'
    BY StepOrder, StepBacked DEF WInv, EInv
  <2>2. Bounded' /\ EventOpen'
    BY <2>1, StepBounded, StepEventOpen DEF WInv
  <2>3. HasLatest'
    <3>1. CASE risk_events' = risk_events
      BY <3>1 DEF WInv, HasLatest
    <3>2. CASE risk_events' # risk_events
      BY <2>1, <3>2, RowsWritten, RowBecomesLatest DEF WInv, IInv
    <3> QED BY <3>1, <3>2
  <2> QED BY <2>1, <2>2, <2>3 DEF WInv
<1>3. WInv /\ WInv' /\ [Next]_vars => [DepegWindow!Next]_Windows
  BY RowIsWindowStep DEF Windows
<1> QED BY <1>1, <1>2, <1>3, PTL DEF Spec, ImplementsDepegWindows, DepegWindow!Spec, Windows
=============================================================================
