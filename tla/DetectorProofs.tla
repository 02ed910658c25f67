--------------------------- MODULE DetectorProofs ---------------------------
(***************************************************************************)
(* For every sequence of samples, whatever their timestamps, the detector  *)
(* answers what the history says: proofs of the invariants that the run of *)
(* DetectorHistory checks on short histories.                              *)
(***************************************************************************)
EXTENDS DetectorHistory, SequenceTheorems, TLAPS

-----------------------------------------------------------------------------
(* What one call of sample() answers, and leaves behind.                   *)

\* A new detector is well formed.
LEMMA QuietType == Quiet \in DetectorState
BY NoneIsNotATime DEF Quiet, DetectorState

\* sample() keeps the detector well formed: a window start is recorded exactly
\* while it is active, and is the first breach of the current run.
LEMMA AfterSampleType ==
  ASSUME NEW d \in DetectorState, NEW ts \in Int, NEW rBps \in Int
  PROVE  AfterSample(d, ts, rBps) \in DetectorState
<1>1. CASE Breach(rBps)
  <2>1. FirstBreach(d, ts) \in Int
    BY DEF FirstBreach, DetectorState
  <2>2. d.active => ~Opens(d, ts, rBps) /\ FirstBreach(d, ts) = d.windowStart
    BY NoneIsNotATime DEF Opens, FirstBreach, DetectorState
  <2>3. CASE Opens(d, ts, rBps)
    BY <1>1, <2>1, <2>3, NoneIsNotATime DEF AfterSample, AfterBreach, DetectorState
  <2>4. CASE ~Opens(d, ts, rBps)
    BY <1>1, <2>1, <2>2, <2>4, NoneIsNotATime DEF AfterSample, AfterBreach, DetectorState
  <2> QED BY <2>3, <2>4
<1>2. CASE ~Breach(rBps)
  BY <1>2, QuietType DEF AfterSample
<1> QED BY <1>1, <1>2

\* sample() answers an event or null.
LEMMA EventOfType ==
  ASSUME NEW d \in DetectorState, NEW ts \in Int, NEW rBps \in Int
  PROVE  EventOf(d, ts, rBps) \in DetectorEvents \cup {None}
<1>1. FirstBreach(d, ts) \in Int
  BY DEF FirstBreach, DetectorState
<1>2. d.windowStart # None => d.windowStart \in Int
  BY DEF DetectorState
<1> QED
  BY <1>1, <1>2 DEF EventOf, StartEvent, EndEvent, DetectorEvents

\* Two answers are the same only if they say the same.
LEMMA AnswersDiffer ==
  /\ \A s \in Int : StartEvent(s) # None
  /\ \A s, e \in Int : EndEvent(s, e) # None
  /\ \A s, t, e : StartEvent(s) # EndEvent(t, e)
  /\ \A s, t : StartEvent(s) = StartEvent(t) <=> s = t
  /\ \A s, t, e : EndEvent(s, e) = EndEvent(t, e) <=> s = t
<1>1. \A s \in Int : StartEvent(s) \in DetectorEvents
  BY DEF StartEvent, DetectorEvents
<1>2. \A s, e \in Int : EndEvent(s, e) \in DetectorEvents
  BY DEF EndEvent, DetectorEvents
<1>3. \A s, t, e : StartEvent(s).type # EndEvent(t, e).type
  BY DEF StartEvent, EndEvent
<1>4. \A s, e : StartEvent(s).start = s /\ EndEvent(s, e).start = s
  BY DEF StartEvent, EndEvent
<1> QED BY <1>1, <1>2, <1>3, <1>4, NoneIsNotAnEvent

-----------------------------------------------------------------------------
(* The history.                                                            *)

\* lastBreachAt is the time of the first breach of the current run.
RunKnown ==
  IF fed = <<>> \/ ~BreachAt(Len(fed))
  THEN det.lastBreachAt = None
  ELSE \E i \in 1..Len(fed) : RunFrom(i, Len(fed)) /\ det.lastBreachAt = fed[i].ts

IInv ==
  /\ TypeOK
  /\ RunKnown
  /\ ActiveIffSustained
  /\ StartsAreRunStarts
  /\ EndsCloseSustainedRuns

\* Of the runs of breaches that end at n there is at most one.
LEMMA RunUnique ==
  ASSUME NEW n \in Nat, NEW i, NEW j, RunFrom(i, n), RunFrom(j, n)
  PROVE  i = j
BY DEF RunFrom

\* An empty history satisfies the invariant: no run, no window, no event.
LEMMA InitHolds == Init => IInv
<1> SUFFICES ASSUME Init PROVE IInv
  OBVIOUS
<1>1. TypeOK
  BY QuietType DEF Init, TypeOK
<1>2. Len(fed) = 0 /\ ~det.active
  BY DEF Init, Quiet
<1> QED
  BY <1>1, <1>2 DEF Init, Quiet, IInv, RunKnown, ActiveIffSustained, StartsAreRunStarts,
     EndsCloseSustainedRuns

\* The one step: the detector is given one more sample.
LEMMA SampleStep ==
  ASSUME IInv, NEW ts \in Times, NEW rBps \in Ratios, Sample(ts, rBps)
  PROVE  IInv'
<1>1. /\ TypeOK /\ RunKnown /\ ActiveIffSustained /\ StartsAreRunStarts
      /\ EndsCloseSustainedRuns
  BY DEF IInv
<1>0. PICK n \in Nat : n = Len(fed) + 1
  BY <1>1 DEF TypeOK
<1>2. ts \in Int /\ rBps \in Int /\ n \in Nat /\ n > 0 /\ Len(fed) = n - 1
  BY <1>0, <1>1, HistoryBounds DEF TypeOK
<1>3. TypeOK'
  <2>1. det' \in DetectorState
    BY <1>1, <1>2, AfterSampleType DEF TypeOK, Sample
  <2>2. EventOf(det, ts, rBps) \in DetectorEvents \cup {None}
    BY <1>1, <1>2, EventOfType DEF TypeOK
  <2> QED
    BY <1>1, <1>2, <2>1, <2>2 DEF TypeOK, Sample
<1>4. /\ Len(fed') = n /\ Len(answers') = n /\ Len(answers) = n - 1
      /\ fed'[n] = [ts |-> ts, rBps |-> rBps]
      /\ answers'[n] = EventOf(det, ts, rBps)
      /\ \A j \in 1..(n - 1) : fed'[j] = fed[j] /\ answers'[j] = answers[j]
  BY <1>1, <1>2 DEF TypeOK, Sample
\* The past is what it was.
<1>5. \A m \in 1..(n - 1), i \in Int : RunFrom(i, m)' <=> RunFrom(i, m)
  BY <1>2, <1>4 DEF RunFrom, BreachAt
<1>6. \A m \in 1..(n - 1), i \in Int : i >= 1 => (Sustained(i, m)' <=> Sustained(i, m))
  BY <1>2, <1>4 DEF Sustained
<1>7. \A m \in 1..(n - 1) : BreachAt(m)' <=> BreachAt(m)
  BY <1>2, <1>4 DEF BreachAt
<1>8. BreachAt(n)' <=> Breach(rBps)
  BY <1>2, <1>4 DEF BreachAt, Breach
<1>9. fed = <<>> <=> n = 1
  BY <1>1, <1>2 DEF TypeOK
<1>10. \A m \in 1..(n - 1), s \in Times : answers'[m] = StartEvent(s) <=>
         (\E i \in 1..m : RunFrom(i, m) /\ fed[i].ts = s
                            /\ fed[m].ts - s >= GracePeriod /\ ~Sustained(i, m - 1))'
  <2> SUFFICES ASSUME NEW m \in 1..(n - 1), NEW s \in Times
               PROVE  answers'[m] = StartEvent(s) <=>
                        (\E i \in 1..m : RunFrom(i, m) /\ fed[i].ts = s
                            /\ fed[m].ts - s >= GracePeriod /\ ~Sustained(i, m - 1))'
    OBVIOUS
  <2>1. \A i \in 1..m : /\ RunFrom(i, m)' <=> RunFrom(i, m)
                        /\ fed'[i] = fed[i]
                        /\ Sustained(i, m - 1)' <=> Sustained(i, m - 1)
    <3>1. CASE m = 1
      BY <1>2, <1>4, <1>5, <3>1 DEF Sustained
    <3>2. CASE m # 1
      BY <1>2, <1>4, <1>5, <1>6, <3>2
    <3> QED BY <3>1, <3>2
  <2>2. answers[m] = StartEvent(s) <=>
          \E i \in 1..m : RunFrom(i, m) /\ fed[i].ts = s
                           /\ fed[m].ts - s >= GracePeriod /\ ~Sustained(i, m - 1)
    BY <1>1, <1>2 DEF StartsAreRunStarts
  <2>3. answers'[m] = answers[m] /\ fed'[m] = fed[m]
    BY <1>4
  <2>4. (\E i \in 1..m : RunFrom(i, m) /\ fed[i].ts = s
                           /\ fed[m].ts - s >= GracePeriod /\ ~Sustained(i, m - 1))'
          <=> \E i \in 1..m : RunFrom(i, m) /\ fed[i].ts = s
                           /\ fed[m].ts - s >= GracePeriod /\ ~Sustained(i, m - 1)
    BY <2>1, <2>3
  <2> QED
    BY <2>2, <2>3, <2>4
<1>11. \A m \in 1..(n - 1), s \in Times : answers'[m] = EndEvent(s, fed'[m].ts) <=>
         (/\ ~BreachAt(m)
          /\ \E i \in 1..(m - 1) : RunFrom(i, m - 1) /\ Sustained(i, m - 1) /\ fed[i].ts = s)'
  <2> SUFFICES ASSUME NEW m \in 1..(n - 1), NEW s \in Times
               PROVE  answers'[m] = EndEvent(s, fed'[m].ts) <=>
                 (/\ ~BreachAt(m)
                  /\ \E i \in 1..(m - 1) : RunFrom(i, m - 1) /\ Sustained(i, m - 1)
                                             /\ fed[i].ts = s)'
    OBVIOUS
  <2>1. \A i \in 1..(m - 1) : /\ RunFrom(i, m - 1)' <=> RunFrom(i, m - 1)
                              /\ fed'[i] = fed[i]
                              /\ Sustained(i, m - 1)' <=> Sustained(i, m - 1)
    BY <1>2, <1>4, <1>5, <1>6
  <2>2. answers[m] = EndEvent(s, fed[m].ts) <=>
          /\ ~BreachAt(m)
          /\ \E i \in 1..(m - 1) : RunFrom(i, m - 1) /\ Sustained(i, m - 1) /\ fed[i].ts = s
    BY <1>1, <1>2 DEF EndsCloseSustainedRuns
  <2>3. answers'[m] = answers[m] /\ fed'[m] = fed[m]
    BY <1>4
  <2>4. (\E i \in 1..(m - 1) : RunFrom(i, m - 1) /\ Sustained(i, m - 1) /\ fed[i].ts = s)'
          <=> \E i \in 1..(m - 1) : RunFrom(i, m - 1) /\ Sustained(i, m - 1) /\ fed[i].ts = s
    BY <2>1
  <2> QED
    BY <1>7, <2>2, <2>3, <2>4
\* What remains is the new sample's own answer and the new end of the history.
<1>12. SUFFICES /\ RunKnown' /\ ActiveIffSustained'
                /\ \A s \in Times : answers'[n] = StartEvent(s) <=>
                     (\E i \in 1..n : RunFrom(i, n) /\ fed[i].ts = s
                            /\ fed[n].ts - s >= GracePeriod /\ ~Sustained(i, n - 1))'
                /\ \A s \in Times : answers'[n] = EndEvent(s, fed'[n].ts) <=>
                     (/\ ~BreachAt(n)
                      /\ \E i \in 1..(n - 1) : RunFrom(i, n - 1) /\ Sustained(i, n - 1)
                                                 /\ fed[i].ts = s)'
  <2>1. \A m \in 1..n : m = n \/ m \in 1..(n - 1)
    BY <1>2
  <2>2. StartsAreRunStarts'
    BY <1>4, <1>10, <1>12, <2>1 DEF StartsAreRunStarts
  <2>3. EndsCloseSustainedRuns'
    BY <1>4, <1>11, <1>12, <2>1 DEF EndsCloseSustainedRuns
  <2> QED
    BY <1>3, <1>12, <2>2, <2>3 DEF IInv
<1>13. CASE ~Breach(rBps)
  <2>1. det' = Quiet
    BY <1>13 DEF Sample, AfterSample
  <2>2. \A i \in 1..n : ~RunFrom(i, n)'
    BY <1>2, <1>8, <1>13 DEF RunFrom
  <2>3. RunKnown'
    BY <1>4, <1>8, <1>13, <2>1 DEF RunKnown, Quiet
  <2>4. ActiveIffSustained'
    BY <1>4, <2>1, <2>2 DEF ActiveIffSustained, Quiet
  <2>5. \A s \in Times : answers'[n] # StartEvent(s)
    BY <1>4, <1>13, HistoryBounds, AnswersDiffer DEF EventOf, Opens
  <2>6. \A s \in Times : answers'[n] = EndEvent(s, ts) <=> det.active /\ det.windowStart = s
    <3>1. det.active => det.windowStart # None
      BY <1>1 DEF TypeOK, DetectorState
    <3> QED
      BY <1>2, <1>4, <1>13, <3>1, HistoryBounds, AnswersDiffer DEF EventOf, Opens, Closes
  <2>7. \A s \in Times : det.active /\ det.windowStart = s <=>
          \E i \in 1..(n - 1) : RunFrom(i, n - 1) /\ Sustained(i, n - 1) /\ fed[i].ts = s
    <3>1. det.active <=> \E i \in 1..(n - 1) : RunFrom(i, n - 1) /\ Sustained(i, n - 1)
      BY <1>1, <1>2 DEF ActiveIffSustained
    <3>2. det.active => det.windowStart = det.lastBreachAt /\ det.lastBreachAt # None
      BY <1>1 DEF TypeOK, DetectorState
    <3>3. \A i \in 1..(n - 1) : det.active /\ RunFrom(i, n - 1) => det.windowStart = fed[i].ts
      BY <1>1, <1>2, <1>9, <3>2, RunUnique DEF RunKnown
    <3> QED
      BY <3>1, <3>3
  <2>8. \A s \in Times : ~(\E i \in 1..n : RunFrom(i, n) /\ fed[i].ts = s
                            /\ fed[n].ts - s >= GracePeriod /\ ~Sustained(i, n - 1))'
    BY <2>2
  <2>9. ~BreachAt(n)' /\ fed'[n].ts = ts
    BY <1>4, <1>8, <1>13
  <2>10. \A i \in 1..(n - 1) : /\ RunFrom(i, n - 1)' <=> RunFrom(i, n - 1)
                               /\ Sustained(i, n - 1)' <=> Sustained(i, n - 1)
                               /\ fed'[i] = fed[i]
    BY <1>2, <1>4, <1>5, <1>6
  <2>11. \A s \in Times : answers'[n] = EndEvent(s, fed'[n].ts) <=>
            (/\ ~BreachAt(n)
             /\ \E i \in 1..(n - 1) : RunFrom(i, n - 1) /\ Sustained(i, n - 1)
                                        /\ fed[i].ts = s)'
    <3> SUFFICES ASSUME NEW s \in Times
                 PROVE  answers'[n] = EndEvent(s, ts) <=>
                          \E i \in 1..(n - 1) : RunFrom(i, n - 1)' /\ Sustained(i, n - 1)'
                                                  /\ fed'[i].ts = s
      BY <2>9
    <3> QED
      BY <2>6, <2>7, <2>10
  <2> QED
    BY <2>3, <2>4, <2>5, <2>8, <2>11
<1>14. CASE Breach(rBps) /\ (n = 1 \/ ~BreachAt(n - 1))
  <2>1. det.lastBreachAt = None /\ ~det.active
    BY <1>1, <1>2, <1>9, <1>14 DEF RunKnown, TypeOK, DetectorState
  <2>2. det' = AfterBreach(det, ts, rBps) /\ FirstBreach(det, ts) = ts
    BY <1>14, <2>1 DEF Sample, AfterSample, FirstBreach
  <2>3. \A i \in 1..n : RunFrom(i, n)' <=> i = n
    BY <1>2, <1>4, <1>7, <1>8, <1>14 DEF RunFrom
  <2>4. /\ Sustained(n, n)' <=> 0 >= GracePeriod
        /\ ~Sustained(n, n - 1)'
    BY <1>2, <1>4 DEF Sustained
  <2>5. Opens(det, ts, rBps) <=> 0 >= GracePeriod
    BY <1>2, <1>14, <2>1, <2>2 DEF Opens
  <2>6. RunKnown'
    BY <1>2, <1>4, <1>8, <1>14, <2>2, <2>3 DEF RunKnown, AfterBreach
  <2>7. ActiveIffSustained'
    <3>1. det'.active <=> 0 >= GracePeriod
      BY <2>1, <2>2, <2>5 DEF AfterBreach
    <3>2. (\E i \in 1..n : RunFrom(i, n) /\ Sustained(i, n))' <=> 0 >= GracePeriod
      BY <1>2, <2>3, <2>4
    <3> QED
      BY <1>4, <3>1, <3>2 DEF ActiveIffSustained
  <2>8. \A s \in Times : answers'[n] = StartEvent(s) <=> 0 >= GracePeriod /\ s = ts
    BY <1>2, <1>4, <1>14, <2>2, <2>5, HistoryBounds, AnswersDiffer DEF EventOf, Closes
  <2>9. \A s \in Times : answers'[n] # EndEvent(s, ts)
    BY <1>2, <1>4, <1>14, HistoryBounds, AnswersDiffer DEF EventOf, Closes
  <2>10. \A s \in Times : (\E i \in 1..n : RunFrom(i, n) /\ fed[i].ts = s
                /\ fed[n].ts - s >= GracePeriod /\ ~Sustained(i, n - 1))'
              <=> 0 >= GracePeriod /\ s = ts
    BY <1>2, <1>4, <2>3, <2>4, HistoryBounds
  <2> QED
    BY <1>4, <1>8, <1>14, <2>6, <2>7, <2>8, <2>9, <2>10
<1>15. CASE Breach(rBps) /\ n # 1 /\ BreachAt(n - 1)
  <2>1. PICK i \in 1..(n - 1) : RunFrom(i, n - 1) /\ det.lastBreachAt = fed[i].ts
    BY <1>1, <1>2, <1>9, <1>15 DEF RunKnown
  <2>2. fed[i].ts \in Int /\ n - 1 \in Nat
    <3>1. i \in 1..Len(fed) /\ fed \in Seq([ts: Int, rBps: Int])
      BY <1>1, <1>2 DEF TypeOK
    <3>2. fed[i] \in [ts: Int, rBps: Int]
      BY <3>1, ElementOfSeq
    <3> QED BY <1>2, <3>2
  <2>3. det' = AfterBreach(det, ts, rBps) /\ FirstBreach(det, ts) = fed[i].ts
    BY <1>15, <2>1, <2>2, NoneIsNotATime DEF Sample, AfterSample, FirstBreach
  <2>4. \A j \in 1..n : RunFrom(j, n)' <=> j = i
    <3>1. \A j \in 1..(n - 1) : RunFrom(j, n)' <=> RunFrom(j, n - 1)
      BY <1>2, <1>4, <1>7, <1>8, <1>15 DEF RunFrom
    <3>2. ~RunFrom(n, n)'
      BY <1>2, <1>7, <1>15 DEF RunFrom
    <3>3. \A j \in 1..(n - 1) : RunFrom(j, n - 1) <=> j = i
      BY <2>1, <2>2, RunUnique
    <3> QED BY <1>2, <3>1, <3>2, <3>3
  <2>5. /\ Sustained(i, n)' <=> Sustained(i, n - 1) \/ ts - fed[i].ts >= GracePeriod
        /\ Sustained(i, n - 1)' <=> Sustained(i, n - 1)
    <3>1. \A k \in i..n : k = n \/ k \in i..(n - 1)
      BY <2>2
    <3>2. n \in i..n /\ i..(n - 1) \subseteq i..n
      BY <2>2
    <3>3. \A k \in i..(n - 1) : fed'[k] = fed[k]
      BY <1>4, <2>2
    <3>4. fed'[i] = fed[i] /\ fed'[n].ts = ts
      BY <1>4
    <3> QED
      BY <3>1, <3>2, <3>3, <3>4 DEF Sustained
  <2>6. det.active <=> Sustained(i, n - 1)
    BY <1>1, <1>2, <2>1, <2>2, RunUnique DEF ActiveIffSustained
  <2>7. Opens(det, ts, rBps) <=> ~Sustained(i, n - 1) /\ ts - fed[i].ts >= GracePeriod
    BY <1>15, <2>3, <2>6 DEF Opens
  <2>8. RunKnown'
    BY <1>2, <1>4, <1>8, <1>15, <2>3, <2>4 DEF RunKnown, AfterBreach
  <2>9. ActiveIffSustained'
    <3>1. det'.active <=> Sustained(i, n - 1) \/ ts - fed[i].ts >= GracePeriod
      BY <2>3, <2>6, <2>7 DEF AfterBreach
    <3>2. (\E j \in 1..n : RunFrom(j, n) /\ Sustained(j, n))' <=> Sustained(i, n)'
      BY <1>2, <2>4
    <3> QED
      BY <1>4, <2>5, <3>1, <3>2 DEF ActiveIffSustained
  <2>10. \A s \in Times : answers'[n] = StartEvent(s) <=> Opens(det, ts, rBps) /\ s = fed[i].ts
    BY <1>2, <1>4, <1>15, <2>3, HistoryBounds, AnswersDiffer DEF EventOf, Closes
  <2>11. \A s \in Times : answers'[n] # EndEvent(s, ts)
    BY <1>2, <1>4, <1>15, <2>2, <2>3, HistoryBounds, AnswersDiffer DEF EventOf, Closes
  <2>12. \A s \in Times : (\E j \in 1..n : RunFrom(j, n) /\ fed[j].ts = s
                /\ fed[n].ts - s >= GracePeriod /\ ~Sustained(j, n - 1))'
              <=> Opens(det, ts, rBps) /\ s = fed[i].ts
    BY <1>2, <1>4, <2>2, <2>4, <2>5, <2>7
  <2> QED
    BY <1>4, <1>8, <1>15, <2>8, <2>9, <2>10, <2>11, <2>12
<1> QED BY <1>13, <1>14, <1>15

LEMMA StutterStep == IInv /\ UNCHANGED vars => IInv'
BY DEF IInv, vars, TypeOK, RunKnown, ActiveIffSustained, StartsAreRunStarts,
   EndsCloseSustainedRuns, RunFrom, Sustained, BreachAt

\* After any history fed to DepegDetector.update(), the anchor lastBreachAt is
\* the start of the run of breaches that ends at the last sample, and the
\* window is open exactly when that run has outlasted the grace period.
THEOREM Invariance == Spec => []IInv
<1>1. IInv /\ [Next]_vars => IInv'
  BY SampleStep, StutterStep DEF Next
<1> QED BY InitHolds, <1>1, PTL DEF Spec

\* The detector is active exactly while an unbroken run of breaches that has
\* lasted the grace period goes on: for every history, bound or no bound.
THEOREM ActiveCorrect == Spec => []ActiveIffSustained
BY Invariance, PTL DEF IInv

\* DEPEG_START is answered once per sustained run, dated at its first breach.
THEOREM StartsCorrect == Spec => []StartsAreRunStarts
BY Invariance, PTL DEF IInv

\* DEPEG_END is answered exactly when a sustained run is broken.
THEOREM EndsCorrect == Spec => []EndsCloseSustainedRuns
BY Invariance, PTL DEF IInv

\* The detector's fields keep their types and agree with each other.
THEOREM DetectorTypeCorrect == Spec => []TypeOK
BY Invariance, PTL DEF IInv
=============================================================================
