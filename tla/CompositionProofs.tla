-------------------------- MODULE CompositionProofs --------------------------
(***************************************************************************)
(* What shares its tables with the indexer, for every value of the         *)
(* constants.  Validator: the readers beside the indexer, which is a       *)
(* writer as RiskApiProofs and ClaimServiceProofs take one.  Backtest, at  *)
(* the end: the script beside it, for every range of blocks, every number  *)
(* of polls, failures and crashes of the indexer and every way the         *)
(* script's inserts may fail.                                              *)
(***************************************************************************)
EXTENDS Validator, Backtest, IndexerServiceProofs, FiniteSetTheorems

-----------------------------------------------------------------------------
(* Validator.                                                              *)

Attested == [i \in DOMAIN risk_events |-> i - Cardinality(Ties \cap 1..i)]

Pages == INSTANCE RiskApiProofs WITH
  Kinds <- ApiKinds, AskedRisks <- 0..MaxTime, Times <- 0..MaxTime, attested <- Attested

-----------------------------------------------------------------------------

\* Of two rows the later one is not attested earlier.
LEMMA AttestedInOrder ==
  ASSUME NEW i \in Nat, NEW j \in Nat, i <= j
  PROVE  /\ i - Cardinality(Ties \cap 1..i) \in Int
         /\ i - Cardinality(Ties \cap 1..i) <= j - Cardinality(Ties \cap 1..j)
<1> DEFINE early == Ties \cap 1..i
           upto == Ties \cap 1..j
           late == (i + 1)..j
<1>1. IsFiniteSet(1..i) /\ IsFiniteSet(1..j) /\ IsFiniteSet(late) /\ Cardinality(late) = j - i
  <2>1. IsFiniteSet(1..i) /\ IsFiniteSet(1..j)
    BY FS_Interval
  <2>2. i + 1 \in Int /\ j \in Int
    OBVIOUS
  <2>3. /\ IsFiniteSet(late)
        /\ Cardinality(late) = IF i + 1 > j THEN 0 ELSE j - (i + 1) + 1
    BY ONLY <2>2, FS_Interval
  <2> HIDE DEF late
  <2>4. Cardinality(late) = j - i
    BY <2>3
  <2> QED BY <2>1, <2>3, <2>4
<1>2. IsFiniteSet(early) /\ IsFiniteSet(upto)
  BY <1>1, FS_Intersection
<1>3. /\ Cardinality(early) \in Nat /\ Cardinality(upto) \in Nat
      /\ Cardinality(early \cap late) \in Nat
  BY <1>1, <1>2, FS_CardinalityType, FS_Intersection
<1>4. /\ IsFiniteSet(early \cup late)
      /\ Cardinality(early \cup late) = Cardinality(early) + Cardinality(late) - Cardinality(early \cap late)
  BY <1>1, <1>2, FS_Union
<1>5. upto \in SUBSET (early \cup late)
  OBVIOUS
<1>6. Cardinality(upto) <= Cardinality(early \cup late)
  BY <1>4, <1>5, FS_Subset
<1> HIDE DEF early, upto, late
<1>7. /\ i - Cardinality(early) \in Int
      /\ i - Cardinality(early) <= j - Cardinality(upto)
  BY <1>1, <1>3, <1>4, <1>6
<1> QED BY <1>7 DEF early, upto

\* A step of the indexer inserts at most one row.
LEMMA RowsGrowByOne ==
  ASSUME [Next]_vars
  PROVE  \/ UNCHANGED risk_events
         \/ \E row : risk_events' = Append(risk_events, row)
<1>1. CASE StartPoll \/ Crash \/ UNCHANGED vars
  BY <1>1 DEF StartPoll, Crash, vars, tables
<1>2. CASE \E outcome \in Outcomes : InsertSample(outcome)
  BY <1>2 DEF InsertSample
<1>3. ASSUME NEW outcome \in Outcomes,
             PersistOpen(outcome) \/ PersistStart(outcome) \/ PersistEnd(outcome)
      PROVE  UNCHANGED risk_events \/ \E row : risk_events' = Append(risk_events, row)
  BY <1>3 DEF PersistOpen, PersistStart, PersistEnd, PersistEvent
<1>4. CASE \E outcome \in Outcomes, c \in Cids : StartSnapshot(outcome, c) \/ EndSnapshot(outcome, c)
  BY <1>4 DEF StartSnapshot, EndSnapshot, PersistSnapshot
<1>5. CASE \E delivered \in BOOLEAN : EmitStart(delivered) \/ EmitEnd(delivered)
  BY <1>5 DEF EmitStart, EmitEnd, EmitWebhook
<1> QED BY <1>1, <1>2, <1>3, <1>4, <1>5 DEF Next, Answer

LEMMA IndexerWrites ==
  ASSUME TypeOK, TypeOK', [Next]_vars, UNCHANGED client
  PROVE  Pages!Writer \/ UNCHANGED <<risk_events, Attested, client>>
<1>1. CASE UNCHANGED risk_events
  BY <1>1 DEF Attested
<1>2. CASE \E row : risk_events' = Append(risk_events, row)
  <2>1. PICK row : risk_events' = Append(risk_events, row)
    BY <1>2
  <2> DEFINE n == Len(risk_events)
             at == (n + 1) - Cardinality(Ties \cap 1..(n + 1))
  <2>2. /\ risk_events \in Seq(Rows) /\ risk_events' \in Seq(Rows)
        /\ n \in Nat /\ DOMAIN risk_events = 1..n
    BY LenProperties DEF TypeOK
  <2>3. /\ Len(risk_events') = n + 1 /\ DOMAIN risk_events' = 1..(n + 1)
        /\ risk_events'[n + 1] = row
    <3>1. row \in Rows \cup {row} /\ risk_events \in Seq(Rows \cup {row})
      BY <2>2, SeqMonotonic
    <3>2. /\ Len(risk_events') = n + 1 /\ risk_events'[n + 1] = row
      BY <2>1, <3>1, AppendProperties
    <3>3. DOMAIN risk_events' = 1..(n + 1)
      BY <2>2, <3>2, LenProperties
    <3> QED BY <3>2, <3>3
  <2>4. row \in Rows
    BY <2>2, <2>3, ElementOfSeq
  <2> HIDE DEF n
  <2>5. at \in Int /\ \A i \in DOMAIN risk_events : Attested[i] \in Int /\ Attested[i] <= at
    <3>1. n + 1 \in Nat /\ n + 1 <= n + 1
      BY <2>2
    <3>2. at \in Int
      BY <3>1, AttestedInOrder
    <3>3. ASSUME NEW i \in DOMAIN risk_events
          PROVE  Attested[i] \in Int /\ Attested[i] <= at
      <4>1. i \in Nat /\ i <= n + 1 /\ Attested[i] = i - Cardinality(Ties \cap 1..i)
        BY <2>2 DEF Attested
      <4> QED BY <3>1, <4>1, AttestedInOrder
    <3> QED BY <3>2, <3>3
  <2>6. Attested \in Seq(Int) /\ Len(Attested) = n
    BY <2>2, <2>5 DEF Attested
  <2>7. Attested' = Append(Attested, at)
    <3>1. /\ Append(Attested, at) \in Seq(Int) /\ Len(Append(Attested, at)) = n + 1
          /\ \A i \in 1..n : Append(Attested, at)[i] = Attested[i]
          /\ Append(Attested, at)[n + 1] = at
      BY <2>5, <2>6, AppendProperties
    <3>2. /\ Attested' = [i \in 1..(n + 1) |-> i - Cardinality(Ties \cap 1..i)]
          /\ \A i \in 1..n : Attested[i] = i - Cardinality(Ties \cap 1..i)
      BY <2>2, <2>3 DEF Attested
    <3>3. DOMAIN Append(Attested, at) = 1..(n + 1) /\ DOMAIN Attested' = 1..(n + 1)
      BY <3>1, <3>2, LenProperties
    <3>4. \A i \in 1..(n + 1) : i \in 1..n \/ i = n + 1
      BY <2>2
    <3>5. \A i \in 1..(n + 1) : Append(Attested, at)[i] = i - Cardinality(Ties \cap 1..i)
      BY <3>1, <3>2, <3>4
    <3>6. Append(Attested, at) = [i \in 1..(n + 1) |-> Append(Attested, at)[i]]
      BY <3>1, <3>3, LenProperties
    <3> QED BY <3>2, <3>5, <3>6
  <2> QED BY <2>1, <2>4, <2>5, <2>7 DEF Pages!Writer
<1> QED BY <1>1, <1>2, RowsGrowByOne

\* Api and the instance of RiskApi in Pages are one.
LEMMA ApiStep == Api!ApiNext => Pages!ApiNext
<1>1. Api!Arrive => Pages!Arrive
  BY DEF Api!Arrive, Pages!Arrive, Api!Blank, Pages!Blank, Api!OpenRisks, Pages!OpenRisks,
         Api!Risks, Pages!Risks, Api!Latest, Pages!Latest, Api!LatestOf, Pages!LatestOf,
         Api!Final, Pages!Final, Api!Kept, Pages!Kept, Api!SameKey, Pages!SameKey
<1>2. Api!ReadPage => Pages!ReadPage
  BY DEF Api!ReadPage, Pages!ReadPage, Api!FirstOf, Pages!FirstOf, Api!After, Pages!After,
         Api!CursorAt, Pages!CursorAt, Api!ListedBefore, Pages!ListedBefore, Api!Kept,
         Pages!Kept, Api!SameKey, Pages!SameKey, Attested
<1>3. Api!ReadMetrics => Pages!ReadMetrics
  BY DEF Api!ReadMetrics, Pages!ReadMetrics, Api!Since, Pages!Since, Api!Between,
         Pages!Between, Api!Cardinality, Pages!Cardinality
<1>4. Api!ReadRow => Pages!ReadRow
  BY DEF Api!ReadRow, Pages!ReadRow, Api!Risks, Pages!Risks, Api!Latest, Pages!Latest,
         Api!LatestOf, Pages!LatestOf, Api!Final, Pages!Final, Api!Kept, Pages!Kept,
         Api!SameKey, Pages!SameKey
<1>5. Api!ReadWindow => Pages!ReadWindow
  BY DEF Api!ReadWindow, Pages!ReadWindow, Api!Between, Pages!Between, Api!LargestLoss,
         Pages!LargestLoss, Api!Cardinality, Pages!Cardinality
<1>6. Api!ReadTelemetry => Pages!ReadTelemetry
  BY DEF Api!ReadTelemetry, Pages!ReadTelemetry, Api!Between, Pages!Between, Api!Cardinality,
         Pages!Cardinality
<1>7. Api!ReadSnapshots => Pages!ReadSnapshots
  BY DEF Api!ReadSnapshots, Pages!ReadSnapshots
<1>8. Api!ReadLatest => Pages!ReadLatest
  BY DEF Api!ReadLatest, Pages!ReadLatest, Api!NewestSample, Pages!NewestSample
<1>9. Api!ReadOpen => Pages!ReadOpen
  BY DEF Api!ReadOpen, Pages!ReadOpen, Api!Final, Pages!Final, Api!Kept, Pages!Kept,
         Api!SameKey, Pages!SameKey
<1>10. Api!ReadStats => Pages!ReadStats
  BY DEF Api!ReadStats, Pages!ReadStats, Api!NewestSample, Pages!NewestSample
<1>11. UNCHANGED <<risk_events, pool_samples, snapshots>> => UNCHANGED Attested
  BY DEF Attested
<1> QED BY <1>1, <1>2, <1>3, <1>4, <1>5, <1>6, <1>7, <1>8, <1>9, <1>10, <1>11 DEF Api!ApiNext,
         Pages!ApiNext, Attested

\* A step of Validator is one of the indexer, or leaves its variables alone.
LEMMA IndexerStep ==
  ASSUME [ValidatorNext]_<<vars, claims, client>>
  PROVE  [Next]_vars
<1>1. CASE Claims!ClaimNext /\ UNCHANGED <<memory, snapshots, webhooks, clock, polls, failures, crashes>>
  BY <1>1 DEF Claims!ClaimNext, Claims!read, vars, memory, tables
<1>2. CASE Api!ApiNext /\ UNCHANGED <<memory, webhooks, clock, polls, failures, crashes>>
  BY <1>2 DEF Api!ApiNext, vars, memory, tables
<1>3. CASE UNCHANGED <<vars, claims, client>>
  BY <1>3
<1> QED BY <1>1, <1>2, <1>3 DEF ValidatorNext

LEMMA PagesInit == ValidatorInit => Pages!Init
<1> SUFFICES ASSUME ValidatorInit PROVE Pages!Init
  OBVIOUS
<1>1. risk_events = <<>> /\ client = Api!Blank
  BY DEF ValidatorInit, Init, Api!ApiInit
<1>2. Attested = <<>>
  BY <1>1 DEF Attested
<1> QED BY <1>1, <1>2 DEF Pages!Init, Pages!ApiInit, Pages!Blank, Api!Blank

LEMMA PagesStep ==
  ASSUME TypeOK, TypeOK', [ValidatorNext]_<<vars, claims, client>>
  PROVE  [Pages!Next]_<<risk_events, Attested, client>>
<1>1. CASE Next /\ UNCHANGED <<claims, client>>
  BY <1>1, IndexerWrites DEF Pages!Next
<1>2. CASE Claims!ClaimNext /\ UNCHANGED client
  BY <1>2 DEF Claims!ClaimNext, Claims!read, Attested
<1>3. CASE Api!ApiNext
  BY <1>3, ApiStep DEF Pages!Next
<1>4. CASE UNCHANGED <<vars, claims, client>>
  BY <1>4 DEF vars, tables, Attested
<1> QED BY <1>1, <1>2, <1>3, <1>4 DEF ValidatorNext

\* Beside the indexer and the claims, whatever fails there and however long they
\* run: no version of a risk is on two pages of GET /risk, or twice on one.
THEOREM ListedOnceBesideIndexer == ValidatorSpec => []ListedOnce
<1>1. ValidatorInit => TypeOK
  BY InitType DEF ValidatorInit
<1>2. TypeOK /\ [ValidatorNext]_<<vars, claims, client>> => TypeOK'
  BY IndexerStep, StepType
<1>3. TypeOK /\ TypeOK' /\ [ValidatorNext]_<<vars, claims, client>>
        => [Pages!Next]_<<risk_events, Attested, client>>
  BY PagesStep
<1>4. Pages!PageConfig /\ Pages!Risked
  BY ValidatorConfig DEF Pages!PageConfig, Pages!Risked, Rows
<1>5. Pages!Spec => []Pages!ListedOnce
  BY <1>4, Pages!PagesShowOnce
<1>6. Pages!ListedOnce => ListedOnce
  BY DEF ListedOnce, Api!ListedOnce, Pages!ListedOnce, Api!ListedRow, Pages!ListedRow,
         Api!SameKey, Pages!SameKey
<1> QED BY <1>1, <1>2, <1>3, <1>5, <1>6, PagesInit, PTL DEF ValidatorSpec, Pages!Spec

\* Nor does the indexer keep a row from the client that follows the pages to
\* the last.
THEOREM ListedAllBesideIndexer == ValidatorSpec => []ListedAll
<1>1. ValidatorInit => TypeOK
  BY InitType DEF ValidatorInit
<1>2. TypeOK /\ [ValidatorNext]_<<vars, claims, client>> => TypeOK'
  BY IndexerStep, StepType
<1>3. TypeOK /\ TypeOK' /\ [ValidatorNext]_<<vars, claims, client>>
        => [Pages!Next]_<<risk_events, Attested, client>>
  BY PagesStep
<1>4. Pages!PageConfig /\ Pages!Risked
  BY ValidatorConfig DEF Pages!PageConfig, Pages!Risked, Rows
<1>5. Pages!Spec => []Pages!ListedAll
  BY <1>4, Pages!PagesShowAll
<1>6. Pages!ListedAll => ListedAll
  BY DEF ListedAll, Api!ListedAll, Pages!ListedAll, Api!ListedRow, Pages!ListedRow,
         Api!SameKey, Pages!SameKey, Api!Answered, Pages!Answered, Api!Kept, Pages!Kept,
         Api!Unique, Pages!Unique, Api!ListedBefore, Pages!ListedBefore, Attested
<1> QED BY <1>1, <1>2, <1>3, <1>5, <1>6, PagesInit, PTL DEF ValidatorSpec, Pages!Spec

-----------------------------------------------------------------------------
(* The claims beside the indexer.  What a preview pays for is settled when *)
(* it reads the samples: rows and samples that are added later are of      *)
(* later versions, and not before the end of a resolved window.            *)

Claiming == INSTANCE ClaimServiceProofs WITH
  Policies <- {"policy"}, AskedRisks <- 0..MaxTime, Kinds <- {"preview"},
  MaxInFlight <- 1, InsertModes <- {}, MaxSecond <- 0,
  InsuredAmount <- 9, CoverageCap <- 10, KBps <- 20000, DeductibleBps <- 500

\* Samples at both ends of a window count.
InWindow(row, s) == row.risk <= s.ts /\ (row.end = None \/ s.ts <= row.end)

\* What a row says had been seen by the end of every row of its window that has
\* its version or a later one.
RowsCovered ==
  \A i, j \in DOMAIN risk_events :
    risk_events[i].risk = risk_events[j].risk /\ risk_events[i].version <= risk_events[j].version =>
      \E s \in pool_samples : s.loss = risk_events[i].severity /\ InWindow(risk_events[j], s)

FInv == IInv /\ EInv /\ HasLatest /\ IsFiniteSet(pool_samples) /\ RowsCovered

LEMMA InitFiles == Init => FInv
<1> SUFFICES ASSUME Init PROVE FInv
  OBVIOUS
<1>1. DOMAIN risk_events = {} /\ pool_samples = {}
  BY DEF Init
<1>2. HasLatest /\ RowsCovered /\ IsFiniteSet(pool_samples)
  BY <1>1, FS_EmptySet DEF HasLatest, RowsCovered
<1> QED BY <1>2, InitOrder, InitBacked DEF FInv

\* Every sample on file is from then on, and the new one is the newest.
LEMMA SamplesGrow ==
  ASSUME TypeOK, Now, [Next]_vars
  PROVE  /\ pool_samples \subseteq pool_samples' /\ clock <= clock'
         /\ \A s \in pool_samples' : s \in pool_samples \/ (s.ts = clock /\ s = sample)
         /\ IsFiniteSet(pool_samples) => IsFiniteSet(pool_samples')
<1>1. \/ pool_samples' = pool_samples
      \/ pool_samples' = pool_samples \cup {sample} /\ pc = "insert_sample"
  BY DEF Next, Answer, StartPoll, InsertSample, Insert, PersistOpen, PersistStart, PersistEnd,
     PersistEvent, StartSnapshot, EndSnapshot, PersistSnapshot, EmitStart, EmitEnd, EmitWebhook,
     Crash, tables, vars
<1>2. clock \in Int
  BY DEF TypeOK
<1>3. clock <= clock'
  <2>1. StartPoll \/ clock' = clock
    BY DEF Next, Answer, InsertSample, Attempt, PersistOpen, PersistStart, PersistEnd,
       PersistEvent, StartSnapshot, EndSnapshot, PersistSnapshot, EmitStart, EmitEnd, EmitWebhook,
       Crash, vars
  <2>2. StartPoll => clock <= clock'
    BY <1>2, IndexerConfig DEF StartPoll
  <2> QED BY <1>2, <2>1, <2>2
<1>4. \A s \in pool_samples' : s \in pool_samples \/ (s.ts = clock /\ s = sample)
  BY <1>1 DEF Now
<1>5. IsFiniteSet(pool_samples) => IsFiniteSet(pool_samples')
  BY <1>1, FS_AddElement
<1> QED BY <1>1, <1>3, <1>4, <1>5

\* A row that is added is of a later version than those of its risk, and when
\* it resolves its window, the window ends now.
LEMMA RowIsNewest ==
  ASSUME FInv, [Next]_vars, risk_events' # risk_events
  PROVE  \E row \in Rows :
           /\ risk_events' = Append(risk_events, row)
           /\ currentEvent # None /\ row.risk = currentEvent.start /\ row.version = currentEvent.version
           /\ \A i \in DOMAIN risk_events :
                risk_events[i].risk = row.risk => risk_events[i].version < row.version
           /\ row.end = None \/ row.end = clock
<1>1. PICK row \in Rows :
        /\ risk_events' = Append(risk_events, row)
        /\ currentEvent # None /\ row.risk = currentEvent.start /\ row.version = currentEvent.version
        /\ row.end = None \/ (pc = "persist_end" /\ row.end = sample.ts)
  BY RowsWritten DEF FInv, IInv
<1>2. row.end = None \/ row.end = clock
  BY <1>1 DEF FInv, IInv, Now
<1>3. \A i \in DOMAIN risk_events :
        risk_events[i].risk = row.risk => risk_events[i].version < row.version
  BY <1>1 DEF FInv, IInv, EventIsNewest
<1> QED BY <1>1, <1>2, <1>3

LEMMA RowsStayCovered ==
  ASSUME FInv, TypeOK', EInv', [Next]_vars, GracePeriod > 0
  PROVE  RowsCovered'
<1>1. pool_samples \subseteq pool_samples'
  BY SamplesGrow DEF FInv, IInv
<1>2. CASE risk_events' = risk_events
  BY <1>1, <1>2 DEF FInv, RowsCovered, InWindow
<1>3. CASE risk_events' # risk_events
  <2>1. PICK row \in Rows :
          /\ risk_events' = Append(risk_events, row)
          /\ \A i \in DOMAIN risk_events :
               risk_events[i].risk = row.risk => risk_events[i].version < row.version
          /\ row.end = None \/ row.end = clock
    BY <1>3, RowIsNewest
  <2>2. \A i \in DOMAIN risk_events' :
          \/ i \in DOMAIN risk_events /\ risk_events'[i] = risk_events[i]
          \/ risk_events'[i] = row
    BY <2>1, AppendAll DEF FInv, IInv, TypeOK
  <2>3. /\ \A i \in DOMAIN risk_events : risk_events[i] \in Rows
        /\ \A i \in DOMAIN risk_events : risk_events[i].version \in Nat
        /\ row.version \in Nat /\ row.risk \in Int /\ clock \in Int /\ GracePeriod \in Nat
    <3>1. risk_events \in Seq(Rows) /\ clock \in Int
      BY DEF FInv, IInv, TypeOK
    <3>2. \A i \in DOMAIN risk_events : risk_events[i] \in Rows
      BY <3>1, ElementOfSeq, LenProperties
    <3> QED BY <2>1, <3>1, <3>2, DetectorConfig DEF Rows
  <2>4. ASSUME NEW r \in Rows, r.risk = row.risk, LossOnFile(r.risk, r.severity, clock)
        PROVE  \E s \in pool_samples : s.loss = r.severity /\ InWindow(row, s)
    <3>1. PICK s \in pool_samples : s.loss = r.severity /\ s.ts >= r.risk + GracePeriod /\ s.ts <= clock
      BY <2>4 DEF LossOnFile
    <3>2. s.ts \in Int
      BY DEF FInv, IInv, TypeOK, Samples
    <3>3. row.risk <= s.ts
      BY <2>3, <2>4, <3>1, <3>2
    <3> QED BY <2>1, <3>1, <3>3 DEF InWindow
  <2>5. \A i \in DOMAIN risk_events : LossOnFile(risk_events[i].risk, risk_events[i].severity, clock)
    BY DEF FInv, EInv, Tables, RowsBacked, RowBacked
  <2>6. LossOnFile(row.risk, row.severity, clock)
    <3>1. PICK i \in DOMAIN risk_events' : risk_events'[i] = row
      <4>1. risk_events \in Seq(Rows)
        BY DEF FInv, IInv, TypeOK
      <4> QED BY <2>1, <4>1, AppendProperties, LenProperties
    <3>2. RowBacked(row)'
      BY <3>1 DEF EInv, Tables, RowsBacked
    <3>3. pool_samples' = pool_samples /\ clock' = clock
      BY <1>3 DEF Next, Answer, StartPoll, InsertSample, PersistOpen, PersistStart, PersistEnd,
         PersistEvent, Attempt, StartSnapshot, EndSnapshot, PersistSnapshot, EmitStart, EmitEnd,
         EmitWebhook, Crash, tables, vars
    <3> QED BY <3>2, <3>3 DEF RowBacked, LossOnFile
  <2>7. ASSUME NEW i \in DOMAIN risk_events', NEW j \in DOMAIN risk_events',
               risk_events'[i].risk = risk_events'[j].risk,
               risk_events'[i].version <= risk_events'[j].version
        PROVE  \E s \in pool_samples' :
                 s.loss = risk_events'[i].severity /\ InWindow(risk_events'[j], s)
    <3>1. CASE risk_events'[j] = row
      BY <1>1, <2>1, <2>2, <2>3, <2>4, <2>5, <2>6, <2>7, <3>1
    <3>2. CASE /\ j \in DOMAIN risk_events /\ risk_events'[j] = risk_events[j]
               /\ risk_events'[i] = row
      BY <2>1, <2>3, <2>7, <3>2
    <3>3. CASE /\ j \in DOMAIN risk_events /\ risk_events'[j] = risk_events[j]
               /\ i \in DOMAIN risk_events /\ risk_events'[i] = risk_events[i]
      BY <1>1, <2>7, <3>3 DEF FInv, RowsCovered
    <3> QED BY <2>2, <3>1, <3>2, <3>3
  <2> QED BY <2>7 DEF RowsCovered, InWindow
<1> QED BY <1>2, <1>3

LEMMA StepFiles ==
  ASSUME GracePeriod > 0, FInv, [Next]_vars
  PROVE  FInv'
<1>1. IInv' /\ EInv' /\ TypeOK'
  BY StepOrder, StepBacked DEF FInv, IInv, EInv
<1>2. HasLatest'
  <2>1. CASE risk_events' = risk_events
    BY <2>1 DEF FInv, HasLatest
  <2>2. CASE risk_events' # risk_events
    BY <1>1, <2>2, RowsWritten, RowBecomesLatest DEF FInv, IInv
  <2> QED BY <2>1, <2>2
<1>3. IsFiniteSet(pool_samples')
  BY SamplesGrow DEF FInv, IInv
<1> QED BY <1>1, <1>2, <1>3, RowsStayCovered DEF FInv

-----------------------------------------------------------------------------
LEMMA RequestsFinite == Claiming!IsFiniteSet(Requests)
BY ValidatorConfig DEF Claiming!IsFiniteSet, IsFiniteSet

RowStored(row) == \E j \in DOMAIN risk_events : risk_events[j] = row

\* The row a request is reading the samples for is on file.
FetchedStored == \A r \in Requests : requests[r].pc = "fetch_metrics" => RowStored(requests[r].row)

\* What a preview says is settled: the rows and samples it has not seen are
\* none of its window, or of a later version.
Settled(p) ==
  /\ RowStored(p.row) /\ p.Lstar \in Nat /\ p = Claims!PreviewOf(p.row, p.Lstar)
  /\ \A i \in DOMAIN risk_events :
       risk_events[i].risk = p.row.risk /\ risk_events[i].version <= p.row.version
         => risk_events[i].severity <= p.Lstar
  /\ p.row.state = "RESOLVED" =>
       \A s \in pool_samples : p.row.risk <= s.ts /\ s.ts < p.row.end => s.loss <= p.Lstar

PInv == FInv /\ Claiming!CInv /\ FetchedStored /\ \A p \in previews : Settled(p)

\* Claims and the instance of ClaimService in Claiming are one.
LEMMA ClaimStep == [Claims!ClaimNext]_claims => [Claiming!ClaimNext]_(Claiming!own)
<1>1. ASSUME NEW r \in Requests, Claims!Arrive(r)
      PROVE  Claiming!Arrive(r)
  BY <1>1 DEF Claims!Arrive, Claiming!Arrive, Claims!InFlight, Claiming!InFlight,
     Claims!Active, Claiming!Active, Claims!Idle, Claiming!Idle, Claims!Cardinality,
     Claiming!Cardinality
<1>2. ASSUME NEW r \in Requests, Claims!FetchRisk(r)
      PROVE  Claiming!FetchRisk(r)
  BY <1>2 DEF Claims!FetchRisk, Claiming!FetchRisk, Claims!Risks, Claiming!Risks,
     Claims!Latest, Claiming!Latest, Claims!LatestOf, Claiming!LatestOf, Claims!Final,
     Claiming!Final, Claims!Kept, Claiming!Kept, Claims!SameKey, Claiming!SameKey
<1>3. ASSUME NEW r \in Requests, Claims!FetchMetrics(r)
      PROVE  Claiming!FetchMetrics(r)
  <2>1. ASSUME NEW row PROVE Claims!LossSince(row) = Claiming!LossSince(row)
    BY DEF Claims!LossSince, Claiming!LossSince
  <2>2. ASSUME NEW row, NEW loss PROVE Claims!PreviewOf(row, loss) = Claiming!PreviewOf(row, loss)
    BY DEF Claims!PreviewOf, Claiming!PreviewOf, Claims!PayoutOf, Claiming!PayoutOf
  <2> QED BY <1>3, <2>1, <2>2 DEF Claims!FetchMetrics, Claiming!FetchMetrics
<1>4. ASSUME NEW r \in Requests, Claims!ReadNonce(r)
      PROVE  Claiming!ReadNonce(r)
  BY <1>4 DEF Claims!ReadNonce, Claiming!ReadNonce, Claims!CurrentNonce, Claiming!CurrentNonce,
     Claims!NonceRows, Claiming!NonceRows, Claims!NextNonce, Claiming!NextNonce
<1>5. ASSUME NEW r \in Requests, NEW outcome, Claims!InsertNonce(r, outcome)
      PROVE  Claiming!InsertNonce(r, outcome)
  BY <1>5 DEF Claims!InsertNonce, Claiming!InsertNonce, Claims!NonceRow, Claiming!NonceRow,
     Claims!Message, Claiming!Message
<1>6. Claims!Restart => Claiming!Restart
  BY DEF Claims!Restart, Claiming!Restart, Claims!Active, Claiming!Active
<1>7. Claims!Tick => Claiming!Tick
  BY DEF Claims!Tick, Claiming!Tick
<1>8. Claims!ClaimNext => Claiming!ClaimNext
  BY <1>1, <1>2, <1>3, <1>4, <1>5, <1>6, <1>7
     DEF Claims!ClaimNext, Claiming!ClaimNext, Claims!read, Claiming!read
<1> QED BY <1>8 DEF claims, Claiming!own

\* What has been seen of a window grows with the loss it is paid for.
LEMMA PayoutsGrow ==
  ASSUME NEW low \in Nat, NEW high \in Nat, low <= high, NEW row, NEW other
  PROVE  /\ Claims!PreviewOf(row, low).payout <= Claims!PreviewOf(other, high).payout
         /\ Claims!PreviewOf(other, high).curValue <= Claims!PreviewOf(row, low).curValue
<1> DEFINE Above(loss) == IF loss > 500 THEN loss - 500 ELSE 0
<1>1. /\ Above(low) \in Nat /\ Above(high) \in Nat /\ Above(low) <= Above(high)
      /\ Claims!PayoutOf(low) = (10 * 20000 * Above(low)) \div (10000 * 10000)
      /\ Claims!PayoutOf(high) = (10 * 20000 * Above(high)) \div (10000 * 10000)
  BY DEF Claims!PayoutOf
<1> HIDE DEF Above
<1>2. /\ Claims!PayoutOf(low) \in Nat /\ Claims!PayoutOf(high) \in Nat
      /\ Claims!PayoutOf(low) <= Claims!PayoutOf(high)
  BY <1>1
<1> QED BY <1>2 DEF Claims!PreviewOf

\* The largest loss of a set of samples is a number, and at least that of each.
LEMMA LargestLossIs ==
  ASSUME TypeOK, IsFiniteSet(pool_samples), NEW window \in SUBSET pool_samples
  PROVE  /\ Api!LargestLoss(window) \in Nat
         /\ \A s \in window : s.loss <= Api!LargestLoss(window)
<1> DEFINE losses == {0} \cup {s.loss : s \in window}
<1>1. IsFiniteSet(window)
  BY FS_Subset
<1>2. IsFiniteSet({s.loss : s \in window})
  <2> DEFINE f == [s \in window |-> s.loss]
  <2>1. f \in Surjection(window, {s.loss : s \in window})
    BY DEF Surjection
  <2> QED BY <1>1, <2>1, FS_Surjection
<1>3. IsFiniteSet(losses) /\ losses # {} /\ losses \subseteq Nat
  <2>1. IsFiniteSet({0})
    BY FS_Singleton
  <2>2. IsFiniteSet(losses)
    BY <1>2, <2>1, FS_Union
  <2> QED BY <2>2 DEF TypeOK, Samples
<1>4. \E l \in losses : \A m \in losses : m <= l
  <2> DEFINE same == [l \in losses |-> l]
  <2>1. \A l \in losses : same[l] = l /\ l \in Int
    BY <1>3
  <2> HIDE DEF losses, same
  <2>2. \E l \in losses : \A m \in losses : same[m] <= same[l]
    <3>1. Claiming!IsFiniteSet(Requests) /\ Claiming!IsFiniteSet(losses)
      BY <1>3, RequestsFinite DEF Claiming!IsFiniteSet, IsFiniteSet
    <3>2. \A l \in losses : same[l] \in Int
      BY ONLY <2>1
    <3> QED BY ONLY <1>3, <3>1, <3>2, Claiming!HasLargest
  <2> QED BY <2>1, <2>2
<1>5. Api!LargestLoss(window) = CHOOSE l \in losses : \A m \in losses : m <= l
  BY DEF Api!LargestLoss
<1>6. Api!LargestLoss(window) \in losses /\ \A m \in losses : m <= Api!LargestLoss(window)
  BY <1>4, <1>5
<1>7. \A s \in window : s.loss \in losses
  OBVIOUS
<1> QED BY <1>3, <1>6, <1>7

\* What a preview pays for is the largest loss of the window of its row.
LEMMA LossSinceIs ==
  ASSUME TypeOK, IsFiniteSet(pool_samples), NEW row
  PROVE  /\ Claims!LossSince(row) \in Nat
         /\ \A s \in pool_samples : InWindow(row, s) => s.loss <= Claims!LossSince(row)
<1> DEFINE window == {s \in pool_samples : InWindow(row, s)}
<1>1. Claims!LossSince(row) = Api!LargestLoss(window)
  BY DEF Claims!LossSince, Api!LargestLoss, InWindow
<1> HIDE DEF window
<1>2. window \in SUBSET pool_samples
  BY DEF window
<1>3. /\ Api!LargestLoss(window) \in Nat
      /\ \A s \in window : s.loss <= Api!LargestLoss(window)
  BY <1>2, LargestLossIs
<1> QED BY <1>1, <1>3 DEF window

\* A latest row is one that is on file.
LEMMA LatestStored ==
  ASSUME FInv, NEW risk \in Risks(risk_events)
  PROVE  \E j \in DOMAIN risk_events :
           risk_events[j] = Latest(risk_events, risk) /\ risk_events[j].risk = risk
<1>1. PICK i \in DOMAIN risk_events : risk_events[i].risk = risk
  BY DEF Risks
<1>2. PICK j \in DOMAIN risk_events :
        /\ risk_events[j].risk = risk
        /\ \A k \in DOMAIN risk_events :
             risk_events[k].risk = risk => risk_events[k].version <= risk_events[j].version
  BY <1>1 DEF FInv, HasLatest
<1>3. /\ risk_events \in Seq(Rows)
      /\ \A k, l \in DOMAIN risk_events : SameKey(risk_events[k], risk_events[l]) => k = l
  BY DEF FInv, IInv, TypeOK, VersionsNeverReused, SameKey
<1>4. Latest(risk_events, risk) = risk_events[j]
  BY <1>2, <1>3, LatestIs
<1> QED BY <1>2, <1>4

\* A request comes to read the samples with a row that is on file.
LEMMA RequestsMove ==
  ASSUME FInv, Claiming!CInv, FetchedStored, Claims!ClaimNext
  PROVE  FetchedStored'
<1>1. PICK rows : requests \in [Requests -> Claiming!Records(rows)]
  BY DEF Claiming!CInv, Claiming!Shape
<1>2. risk_events' = risk_events
  BY DEF Claims!ClaimNext, Claims!read
<1>3. ASSUME NEW r \in Requests, requests'[r].pc = "fetch_metrics"
      PROVE  RowStored(requests'[r].row)
  <2>1. ASSUME requests'[r] = requests[r]
        PROVE  RowStored(requests'[r].row)
    BY <1>3, <2>1 DEF FetchedStored
  <2>2. ASSUME NEW s \in Requests, s # r,
               \/ Claims!Arrive(s) \/ Claims!FetchRisk(s) \/ Claims!FetchMetrics(s)
               \/ Claims!ReadNonce(s) \/ \E outcome : Claims!InsertNonce(s, outcome)
        PROVE  requests'[r] = requests[r]
    BY <1>1, <2>2 DEF Claims!Arrive, Claims!FetchRisk, Claims!FetchMetrics, Claims!ReadNonce,
       Claims!InsertNonce
  <2>3. CASE Claims!FetchRisk(r)
    <3> DEFINE risk == requests[r].risk
    <3>1. risk \in Claims!Risks(risk_events)
      BY <1>1, <1>3, <2>3 DEF Claims!FetchRisk, Claiming!Records
    <3>2. requests'[r].row = Claims!Latest(risk_events, risk)
      BY <1>1, <2>3, <3>1 DEF Claims!FetchRisk, Claiming!Records
    <3>3. risk \in Risks(risk_events)
      BY <3>1 DEF Claims!Risks, Risks
    <3>4. Claims!Latest(risk_events, risk) = Latest(risk_events, risk)
      BY DEF Claims!Latest, Latest, Claims!LatestOf, LatestOf, Claims!Final, Final, Claims!Kept,
         Kept, Claims!SameKey, SameKey
    <3> HIDE DEF risk
    <3> QED BY <3>2, <3>3, <3>4, LatestStored DEF RowStored
  <2>4. CASE \/ Claims!Arrive(r) \/ Claims!FetchMetrics(r) \/ Claims!ReadNonce(r)
             \/ \E outcome : Claims!InsertNonce(r, outcome)
    <3>1. Claims!Arrive(r) => requests'[r].pc = "fetch_risk"
      BY <1>1 DEF Claims!Arrive, Claims!Idle
    <3>2. Claims!FetchMetrics(r) => requests'[r].pc \in {"read_nonce", "answered"}
      BY <1>1 DEF Claims!FetchMetrics, Claiming!Records
    <3>3. Claims!ReadNonce(r) => requests'[r].pc = "insert_nonce"
      BY <1>1 DEF Claims!ReadNonce, Claiming!Records
    <3>4. (\E outcome : Claims!InsertNonce(r, outcome)) => requests'[r].pc = "failed"
      BY <1>1 DEF Claims!InsertNonce, Claiming!Records
    <3> QED BY <1>3, <2>4, <3>1, <3>2, <3>3, <3>4
  <2>5. CASE Claims!Restart
    <3>1. requests'[r] = requests[r] \/ requests'[r].pc = "failed"
      BY <1>1, <2>5 DEF Claims!Restart, Claiming!Records
    <3> QED BY <1>3, <2>1, <3>1
  <2>6. CASE Claims!Tick
    BY <2>1, <2>6 DEF Claims!Tick
  <2> QED BY <2>1, <2>2, <2>3, <2>4, <2>5, <2>6 DEF Claims!ClaimNext
<1> QED BY <1>2, <1>3 DEF FetchedStored, RowStored

\* A preview is computed from a row that is on file and all samples of its window.
LEMMA PreviewAdded ==
  ASSUME FInv, FetchedStored, Claims!ClaimNext,
         NEW p \in previews', p \notin previews
  PROVE  Settled(p)
<1>1. PICK r \in Requests : Claims!FetchMetrics(r)
  BY DEF Claims!ClaimNext, Claims!Arrive, Claims!FetchRisk, Claims!ReadNonce, Claims!InsertNonce,
     Claims!Restart, Claims!Tick
<1> DEFINE row == requests[r].row
           loss == Claims!LossSince(row)
<1>2. p = Claims!PreviewOf(row, loss) /\ RowStored(row)
  BY <1>1 DEF Claims!FetchMetrics, FetchedStored
<1>3. p.row = row /\ p.Lstar = loss
  BY <1>2 DEF Claims!PreviewOf
<1> HIDE DEF row
<1>4. loss \in Nat /\ \A s \in pool_samples : InWindow(row, s) => s.loss <= loss
  BY LossSinceIs DEF FInv, IInv
<1> HIDE DEF loss
<1>5. PICK j \in DOMAIN risk_events : risk_events[j] = row
  BY <1>2 DEF RowStored
<1>6. ASSUME NEW i \in DOMAIN risk_events, risk_events[i].risk = row.risk,
             risk_events[i].version <= row.version
      PROVE  risk_events[i].severity <= loss
  BY <1>4, <1>5, <1>6 DEF FInv, RowsCovered
<1>7. ASSUME row.state = "RESOLVED", NEW s \in pool_samples, row.risk <= s.ts, s.ts < row.end
      PROVE  s.loss <= loss
  <2>1. RowBacked(row)
    BY <1>5 DEF FInv, EInv, Tables, RowsBacked
  <2>2. row \in Rows /\ s.ts \in Int /\ clock \in Int /\ GracePeriod \in Nat
    BY <1>5, ElementOfSeq, LenProperties, DetectorConfig DEF FInv, IInv, TypeOK, Samples
  <2>3. row.end \in Int
    BY <1>7, <2>1, <2>2 DEF RowBacked, HealthyOnFile, FInv, IInv, TypeOK, Samples
  <2>4. s.ts <= row.end
    BY <1>7, <2>2, <2>3
  <2> QED BY <1>4, <1>7, <2>4 DEF InWindow
<1> QED BY <1>2, <1>3, <1>4, <1>6, <1>7 DEF Settled

\* What the indexer adds to the tables leaves a preview as right as it was.
LEMMA SettledStays ==
  ASSUME FInv, [Next]_vars, NEW p, Settled(p)
  PROVE  Settled(p)'
<1>1. PICK j \in DOMAIN risk_events : risk_events[j] = p.row
  BY DEF Settled, RowStored
<1>2. /\ risk_events \in Seq(Rows) /\ p.row \in Rows /\ p.row.version \in Nat
      /\ clock \in Int /\ \A i \in DOMAIN risk_events : risk_events[i] \in Rows
  <2>1. risk_events \in Seq(Rows) /\ clock \in Int
    BY DEF FInv, IInv, TypeOK
  <2>2. \A i \in DOMAIN risk_events : risk_events[i] \in Rows
    BY <2>1, ElementOfSeq, LenProperties
  <2> QED BY <1>1, <2>1, <2>2 DEF Rows
<1>3. /\ RowStored(p.row)'
      /\ \A i \in DOMAIN risk_events' :
           risk_events'[i].risk = p.row.risk /\ risk_events'[i].version <= p.row.version
             => risk_events'[i].severity <= p.Lstar
  <2>1. CASE risk_events' = risk_events
    BY <2>1 DEF Settled, RowStored
  <2>2. CASE risk_events' # risk_events
    <3>1. PICK row \in Rows :
            /\ risk_events' = Append(risk_events, row)
            /\ \A i \in DOMAIN risk_events :
                 risk_events[i].risk = row.risk => risk_events[i].version < row.version
      BY <2>2, RowIsNewest
    <3>2. /\ \A i \in DOMAIN risk_events' :
               \/ i \in DOMAIN risk_events /\ risk_events'[i] = risk_events[i]
               \/ risk_events'[i] = row
          /\ \A i \in DOMAIN risk_events : i \in DOMAIN risk_events' /\ risk_events'[i] = risk_events[i]
      BY <1>2, <3>1, AppendAll, AppendProperties, LenProperties
    <3>3. row.version \in Nat
      BY <3>1 DEF Rows
    <3>4. ASSUME row.risk = p.row.risk
          PROVE  p.row.version < row.version
      BY <1>1, <3>1, <3>4
    <3>5. ASSUME NEW i \in DOMAIN risk_events', risk_events'[i].risk = p.row.risk,
                 risk_events'[i].version <= p.row.version
          PROVE  risk_events'[i].severity <= p.Lstar
      <4>1. CASE i \in DOMAIN risk_events /\ risk_events'[i] = risk_events[i]
        BY <3>5, <4>1 DEF Settled
      <4>2. CASE risk_events'[i] = row
        BY <1>2, <3>3, <3>4, <3>5, <4>2
      <4> QED BY <3>2, <3>5, <4>1, <4>2
    <3> QED BY <1>1, <3>2, <3>5 DEF RowStored
  <2> QED BY <2>1, <2>2
<1>4. ASSUME p.row.state = "RESOLVED", NEW s \in pool_samples', p.row.risk <= s.ts, s.ts < p.row.end
      PROVE  s.loss <= p.Lstar
  <2>1. RowBacked(p.row)
    BY <1>1 DEF FInv, EInv, Tables, RowsBacked
  <2>2. p.row.end \in Int /\ p.row.end <= clock
    BY <1>4, <2>1 DEF RowBacked, HealthyOnFile, FInv, IInv, TypeOK, Samples
  <2>3. s \in pool_samples \/ s.ts = clock
    BY SamplesGrow DEF FInv, IInv
  <2>4. s \in pool_samples
    BY <1>2, <1>4, <2>2, <2>3
  <2> QED BY <1>4, <2>4 DEF Settled
<1> QED BY <1>3, <1>4 DEF Settled

\* A row that is on file stays there.
LEMMA RowsStay ==
  ASSUME TypeOK, [Next]_vars, NEW row, RowStored(row)
  PROVE  RowStored(row)'
<1>1. risk_events \in Seq(Rows)
  BY DEF TypeOK
<1>2. CASE risk_events' = risk_events
  BY <1>2 DEF RowStored
<1>3. CASE risk_events' # risk_events
  <2>1. PICK added \in Rows : risk_events' = Append(risk_events, added)
    BY <1>3, RowsWritten
  <2>2. \A i \in DOMAIN risk_events : i \in DOMAIN risk_events' /\ risk_events'[i] = risk_events[i]
    BY <1>1, <2>1, AppendProperties, LenProperties
  <2> QED BY <2>2 DEF RowStored
<1> QED BY <1>2, <1>3

LEMMA InitPreviews ==
  ASSUME ValidatorInit
  PROVE  PInv
<1>1. FInv
  BY InitFiles DEF ValidatorInit
<1>2. Claiming!CInv
  <2>1. Claims!ClaimInit => Claiming!ClaimInit
    BY DEF Claims!ClaimInit, Claiming!ClaimInit, Claims!Idle, Claiming!Idle
  <2>2. Claiming!ClaimInit => Claiming!CInv
    BY RequestsFinite, Claiming!InitC
  <2> QED BY <2>1, <2>2 DEF ValidatorInit
<1>3. previews = {} /\ \A r \in Requests : requests[r].pc = "idle"
  BY DEF ValidatorInit, Claims!ClaimInit, Claims!Idle
<1> QED BY <1>1, <1>2, <1>3 DEF PInv, FetchedStored

LEMMA StepPreviews ==
  ASSUME GracePeriod > 0, PInv, [ValidatorNext]_<<vars, claims, client>>
  PROVE  PInv'
<1>1. [Next]_vars /\ FInv /\ FInv'
  BY IndexerStep, StepFiles DEF PInv
<1>2. Claiming!CInv'
  <2>1. [Claims!ClaimNext]_claims
    BY DEF ValidatorNext, claims
  <2> QED BY <2>1, ClaimStep, RequestsFinite, Claiming!NextKeepsC DEF PInv
<1>3. ASSUME NEW p \in previews PROVE Settled(p)'
  BY <1>1, <1>3, SettledStays DEF PInv
<1>4. CASE UNCHANGED claims
  <2>1. previews' = previews /\ requests' = requests
    BY <1>4 DEF claims
  <2>2. FetchedStored'
    <3>1. \A row : RowStored(row) => RowStored(row)'
      BY <1>1, RowsStay DEF FInv, IInv
    <3> QED BY <2>1, <3>1 DEF FetchedStored, PInv
  <2> QED BY <1>1, <1>2, <1>3, <2>1, <2>2 DEF PInv
<1>5. CASE Claims!ClaimNext
  <2>1. FetchedStored'
    BY <1>5, RequestsMove DEF PInv
  <2>2. ASSUME NEW p \in previews' PROVE Settled(p)'
    <3>1. Settled(p)
      BY <1>5, PreviewAdded DEF PInv
    <3> QED BY <1>1, <3>1, SettledStays
  <2> QED BY <1>1, <1>2, <2>1, <2>2 DEF PInv
<1> QED BY <1>4, <1>5 DEF ValidatorNext, claims

LEMMA AlwaysPreviews ==
  ASSUME GracePeriod > 0
  PROVE  ValidatorSpec => []PInv
<1>1. PInv /\ [ValidatorNext]_<<vars, claims, client>> => PInv'
  BY StepPreviews
<1>2. ValidatorInit => PInv
  BY InitPreviews
<1> QED BY <1>1, <1>2, PTL DEF ValidatorSpec

\* Whenever the rows and the samples were read, between whatever awaits of the
\* indexer, failed inserts and restarts: a preview pays for all that its row and
\* the rows before it told.
THEOREM PreviewsCover ==
  ASSUME GracePeriod > 0
  PROVE  ValidatorSpec => []PreviewCoversHistory
<1>1. ASSUME PInv PROVE PreviewCoversHistory
  <2> SUFFICES ASSUME NEW p \in previews, NEW i \in DOMAIN risk_events,
                      risk_events[i].risk = p.row.risk, risk_events[i].version <= p.row.version
               PROVE  LET shown == Claims!PreviewOf(risk_events[i], risk_events[i].severity)
                      IN  /\ risk_events[i].severity <= p.Lstar /\ shown.payout <= p.payout
                          /\ p.curValue <= shown.curValue
    BY DEF PreviewCoversHistory
  <2> DEFINE severity == risk_events[i].severity
  <2>1. p = Claims!PreviewOf(p.row, p.Lstar) /\ p.Lstar \in Nat /\ severity <= p.Lstar
    BY <1>1 DEF PInv, Settled
  <2>2. severity \in Nat
    <3>1. risk_events \in Seq(Rows)
      BY <1>1 DEF PInv, FInv, IInv, TypeOK
    <3>2. risk_events[i] \in Rows
      BY <3>1, ElementOfSeq, LenProperties
    <3> QED BY <3>2 DEF Rows
  <2> HIDE DEF severity
  <2>3. /\ Claims!PreviewOf(risk_events[i], severity).payout <= Claims!PreviewOf(p.row, p.Lstar).payout
        /\ Claims!PreviewOf(p.row, p.Lstar).curValue <= Claims!PreviewOf(risk_events[i], severity).curValue
    BY <2>1, <2>2, PayoutsGrow
  <2> QED BY <2>1, <2>3 DEF severity
<1> QED BY <1>1, AlwaysPreviews, PTL

\* No sample that is stored after a preview of a resolved window belongs in it,
\* and the preview has seen all that were stored before.
THEOREM PreviewsSettled ==
  ASSUME GracePeriod > 0
  PROVE  ValidatorSpec => []SettledPreviewsComplete
<1>1. PInv => SettledPreviewsComplete
  BY DEF PInv, Settled, SettledPreviewsComplete
<1> QED BY <1>1, AlwaysPreviews, PTL

-----------------------------------------------------------------------------
(* GET /health beside the indexer.                                         *)

\* The newest of the samples there are.
LEMMA NewestIs ==
  ASSUME TypeOK, IsFiniteSet(pool_samples), pool_samples # {}
  PROVE  /\ \E s \in pool_samples : s.ts = Api!NewestSample
         /\ \A s \in pool_samples : s.ts \in Int /\ s.ts <= Api!NewestSample
<1> DEFINE at == [s \in pool_samples |-> s.ts]
           times == {s.ts : s \in pool_samples}
<1>1. \A s \in pool_samples : s.ts \in Int /\ at[s] = s.ts /\ at[s] \in Int
  BY DEF TypeOK, Samples
<1>2. Claiming!IsFiniteSet(Requests) /\ Claiming!IsFiniteSet(pool_samples)
  BY RequestsFinite DEF Claiming!IsFiniteSet, IsFiniteSet
<1> HIDE DEF at
<1>3. \A s \in pool_samples : at[s] \in Int
  BY <1>1
<1>4. \E s \in pool_samples : \A p \in pool_samples : at[p] <= at[s]
  BY <1>2, <1>3, Claiming!HasLargest
<1>5. \E t \in times : \A s \in pool_samples : s.ts <= t
  BY <1>1, <1>4
<1>6. Api!NewestSample = CHOOSE t \in times : \A s \in pool_samples : s.ts <= t
  BY DEF Api!NewestSample
<1>7. Api!NewestSample \in times /\ \A s \in pool_samples : s.ts <= Api!NewestSample
  BY <1>5, <1>6
<1> QED BY <1>1, <1>7

OpenRowOf(risk) ==
  \E i \in DOMAIN risk_events : risk_events[i].risk = risk /\ risk_events[i].state = "OPEN"

\* What the handler of /health has read holds in the tables as they are now.
HealthRead ==
  client.kind = "health" =>
    /\ client.pc \in {"idle", "read_latest", "read_open", "read_stats", "answered"}
    /\ \A risk \in client.wereOpen : OpenRowOf(risk)
    /\ client.pc \in {"read_open", "read_stats"} /\ client.latest # None =>
         \E s \in pool_samples : s.ts = client.latest
    /\ client.pc \in {"read_stats", "answered"} =>
         /\ \A r \in client.open : RowStored(r)
         /\ \A risk \in client.wereOpen : \E r \in client.open : r.risk = risk
    /\ client.pc = "answered" =>
         /\ client.latest # None => client.latest <= client.lastSample
         /\ \A r \in client.open : r.risk + GracePeriod <= client.lastSample

HInv == FInv /\ DOMAIN client = DOMAIN Api!Blank /\ HealthRead

\* A risk that is open has a row that says so.
LEMMA OpenHasRow ==
  ASSUME FInv, NEW risk \in Api!OpenRisks
  PROVE  OpenRowOf(risk)
<1>1. risk \in Risks(risk_events) /\ Latest(risk_events, risk).state = "OPEN"
  BY DEF Api!OpenRisks, Api!Risks, Risks, Api!Latest, Latest, Api!LatestOf, LatestOf, Api!Final,
     Final, Api!Kept, Kept, Api!SameKey, SameKey
<1>2. PICK j \in DOMAIN risk_events :
        risk_events[j] = Latest(risk_events, risk) /\ risk_events[j].risk = risk
  BY <1>1, LatestStored
<1> QED BY <1>1, <1>2 DEF OpenRowOf

\* No key is written twice: FINAL leaves nothing out.
LEMMA FinalIsAll ==
  ASSUME FInv
  PROVE  Api!Final(risk_events) = {risk_events[i] : i \in DOMAIN risk_events}
<1>1. \A i, j \in DOMAIN risk_events : Api!SameKey(risk_events[i], risk_events[j]) => i = j
  BY DEF FInv, IInv, VersionsNeverReused, SameKey, Api!SameKey
<1>2. DOMAIN risk_events \subseteq Nat
  BY LenProperties DEF FInv, IInv, TypeOK
<1>3. Api!Kept(risk_events) = DOMAIN risk_events
  BY <1>1, <1>2 DEF Api!Kept
<1> QED BY <1>3 DEF Api!Final

\* The window of a row that is on file has a sample after the grace period.
LEMMA RowSampled ==
  ASSUME FInv, NEW r, RowStored(r)
  PROVE  r.risk \in Int /\ \E s \in pool_samples : r.risk + GracePeriod <= s.ts
<1>1. RowBacked(r) /\ r \in Rows
  BY ElementOfSeq, LenProperties DEF FInv, IInv, TypeOK, EInv, Tables, RowsBacked, RowStored
<1>2. \E s \in pool_samples : s.ts >= r.risk + GracePeriod
  BY <1>1 DEF RowBacked, LossOnFile
<1> QED BY <1>1, <1>2, DetectorConfig DEF Rows, FInv, IInv, TypeOK, Samples

LEMMA HealthSteps ==
  ASSUME HInv, UNCHANGED <<risk_events, pool_samples>>,
         Api!Arrive \/ Api!ReadLatest \/ Api!ReadOpen \/ Api!ReadStats
  PROVE  DOMAIN client' = DOMAIN Api!Blank /\ HealthRead'
<1>1. ASSUME NEW risk, OpenRowOf(risk) PROVE OpenRowOf(risk)'
  BY <1>1 DEF OpenRowOf
<1>2. ASSUME NEW r, RowStored(r) PROVE RowStored(r)'
  BY <1>2 DEF RowStored
<1>3. CASE Api!Arrive
  <2>1. /\ DOMAIN client' = DOMAIN Api!Blank
        /\ client'.kind = "health" => client'.pc = "read_latest" /\ client'.wereOpen = Api!OpenRisks
    BY <1>3 DEF Api!Arrive, Api!Blank
  <2> QED BY <1>1, <2>1, OpenHasRow DEF HInv, HealthRead
<1>4. CASE Api!ReadLatest
  <2>1. /\ DOMAIN client' = DOMAIN Api!Blank /\ client'.kind = client.kind
        /\ client'.pc = "read_open" /\ client'.wereOpen = client.wereOpen
        /\ client'.latest = Api!NewestSample
    BY <1>4 DEF Api!ReadLatest, Api!Blank, HInv
  <2>2. Api!NewestSample # None => \E s \in pool_samples : s.ts = Api!NewestSample
    BY NewestIs DEF Api!NewestSample, HInv, FInv, IInv
  <2> QED BY <1>1, <2>1, <2>2 DEF HInv, HealthRead
<1>5. CASE Api!ReadOpen
  <2>1. /\ DOMAIN client' = DOMAIN Api!Blank /\ client'.kind = client.kind
        /\ client'.pc = "read_stats" /\ client'.wereOpen = client.wereOpen
        /\ client'.latest = client.latest /\ client.pc = "read_open"
        /\ client'.open = {r \in Api!Final(risk_events) : r.state = "OPEN"}
    BY <1>5 DEF Api!ReadOpen, Api!Blank, HInv
  <2>2. \A r \in client'.open : RowStored(r)
    BY <2>1, FinalIsAll DEF HInv, RowStored
  <2>3. ASSUME client.kind = "health", NEW risk \in client.wereOpen
        PROVE  \E r \in client'.open : r.risk = risk
    BY <2>1, <2>3, FinalIsAll DEF HInv, HealthRead, OpenRowOf
  <2> QED BY <1>1, <1>2, <2>1, <2>2, <2>3 DEF HInv, HealthRead
<1>6. CASE Api!ReadStats
  <2>1. /\ DOMAIN client' = DOMAIN Api!Blank /\ client'.kind = client.kind
        /\ client'.pc = "answered" /\ client'.wereOpen = client.wereOpen
        /\ client'.latest = client.latest /\ client.pc = "read_stats"
        /\ client'.open = client.open /\ client'.lastSample = Api!NewestSample
    BY <1>6 DEF Api!ReadStats, Api!Blank, HInv
  <2>2. ASSUME NEW t \in Int, \E s \in pool_samples : t <= s.ts
        PROVE  t <= client'.lastSample
    <3>1. PICK s \in pool_samples : t <= s.ts
      BY <2>2
    <3>2. s.ts \in Int /\ s.ts <= Api!NewestSample /\ Api!NewestSample \in Int
      BY NewestIs DEF HInv, FInv, IInv
    <3> QED BY <2>1, <3>1, <3>2
  <2>3. ASSUME client.kind = "health", client.latest # None
        PROVE  client.latest <= client'.lastSample
    <3>1. client.latest \in Int /\ \E s \in pool_samples : client.latest <= s.ts
      BY <2>1, <2>3 DEF HInv, HealthRead, FInv, IInv, TypeOK, Samples
    <3> QED BY <2>2, <3>1
  <2>4. ASSUME client.kind = "health", NEW r \in client.open
        PROVE  r.risk + GracePeriod <= client'.lastSample
    <3>1. RowStored(r)
      BY <2>1, <2>4 DEF HInv, HealthRead
    <3>2. r.risk + GracePeriod \in Int /\ \E s \in pool_samples : r.risk + GracePeriod <= s.ts
      BY <3>1, RowSampled, DetectorConfig DEF HInv
    <3> QED BY <2>2, <3>2
  <2> QED BY <1>1, <1>2, <2>1, <2>3, <2>4 DEF HInv, HealthRead
<1> QED BY <1>3, <1>4, <1>5, <1>6

\* What was read of the tables stays true of them as they grow.
LEMMA HealthStays ==
  ASSUME HInv, [Next]_vars, UNCHANGED client
  PROVE  HealthRead'
<1>1. ASSUME NEW risk, OpenRowOf(risk) PROVE OpenRowOf(risk)'
  <2>1. PICK i \in DOMAIN risk_events :
          risk_events[i].risk = risk /\ risk_events[i].state = "OPEN"
    BY <1>1 DEF OpenRowOf
  <2>2. PICK row : row = risk_events[i]
    OBVIOUS
  <2>3. RowStored(row)'
    BY <2>2, RowsStay DEF RowStored, HInv, FInv, IInv
  <2> QED BY <2>1, <2>2, <2>3 DEF OpenRowOf, RowStored
<1>2. ASSUME NEW r, RowStored(r) PROVE RowStored(r)'
  BY <1>2, RowsStay DEF HInv, FInv, IInv
<1>3. pool_samples \subseteq pool_samples'
  BY SamplesGrow DEF HInv, FInv, IInv
<1> QED BY <1>1, <1>2, <1>3 DEF HInv, HealthRead

LEMMA StepHealth ==
  ASSUME GracePeriod > 0, HInv, [ValidatorNext]_<<vars, claims, client>>
  PROVE  HInv'
<1>1. [Next]_vars /\ FInv'
  BY IndexerStep, StepFiles DEF HInv
<1>2. CASE UNCHANGED client
  BY <1>1, <1>2, HealthStays DEF HInv
<1>3. CASE Api!ApiNext
  <2>1. UNCHANGED <<risk_events, pool_samples>>
    BY <1>3 DEF Api!ApiNext
  <2>2. CASE Api!Arrive \/ Api!ReadLatest \/ Api!ReadOpen \/ Api!ReadStats
    BY <1>1, <2>1, <2>2, HealthSteps DEF HInv
  <2>3. CASE \/ Api!ReadPage \/ Api!ReadMetrics \/ Api!ReadRow \/ Api!ReadWindow
             \/ Api!ReadTelemetry \/ Api!ReadSnapshots
    <3>1. /\ DOMAIN client' = DOMAIN Api!Blank /\ client'.kind = client.kind
          /\ client.pc \in {"read_page", "read_metrics", "read_row", "read_window",
                            "read_telemetry", "read_snapshots"}
      BY <2>3 DEF Api!ReadPage, Api!ReadMetrics, Api!ReadRow, Api!ReadWindow, Api!ReadTelemetry,
         Api!ReadSnapshots, Api!Blank, HInv
    <3> QED BY <1>1, <3>1 DEF HInv, HealthRead
  <2> QED BY <1>3, <2>2, <2>3 DEF Api!ApiNext
<1> QED BY <1>2, <1>3 DEF ValidatorNext

\* The three queries of /health are made one after the other, and what the
\* indexer does between them cannot make the answer contradict itself.
THEOREM HealthSafe ==
  ASSUME GracePeriod > 0
  PROVE  ValidatorSpec => []HealthCoherent
<1>1. ValidatorInit => HInv
  <2> SUFFICES ASSUME ValidatorInit PROVE HInv
    OBVIOUS
  <2>1. client = Api!Blank /\ client.pc = "idle" /\ client.wereOpen = {}
    BY DEF ValidatorInit, Api!ApiInit, Api!Blank
  <2>2. FInv
    BY InitFiles DEF ValidatorInit
  <2> QED BY <2>1, <2>2 DEF HInv, HealthRead
<1>2. HInv /\ [ValidatorNext]_<<vars, claims, client>> => HInv'
  BY StepHealth
<1>3. HInv => HealthCoherent
  BY DEF HInv, HealthRead, HealthCoherent, Api!HealthCoherent, Api!Answered
<1> QED BY <1>1, <1>2, <1>3, PTL DEF ValidatorSpec

-----------------------------------------------------------------------------
(* GET /risk/:riskId beside the indexer, and the windows of the list.      *)

LEMMA SameCardinality == \A S : Api!Cardinality(S) = Cardinality(S)
BY DEF Api!Cardinality, Cardinality

\* The breach that opened a window and the sample of its loss are on file, at
\* both ends included.
Witnessed(row, until) == BreachOnFile(row.risk) /\ LossOnFile(row.risk, row.severity, until)

LEMMA RowWitnessed ==
  ASSUME FInv, NEW r, RowStored(r), NEW until,
         r.end = None => \A s \in pool_samples : s.ts <= until,
         r.end # None => until = r.end
  PROVE  Witnessed(r, until)
<1>1. RowBacked(r) /\ r \in Rows
  BY ElementOfSeq, LenProperties DEF FInv, IInv, TypeOK, EInv, Tables, RowsBacked, RowStored
<1>2. CASE r.end = None
  BY <1>1, <1>2 DEF RowBacked, LossOnFile, Witnessed
<1>3. CASE r.end # None
  BY <1>1, <1>3 DEF Rows, RowBacked, Witnessed
<1> QED BY <1>2, <1>3

\* They are two samples, since the grace period lies between them.
LEMMA WindowRead ==
  ASSUME FInv, GracePeriod > 0, NEW r \in Rows, NEW until \in Int, Witnessed(r, until),
         NEW window \in SUBSET pool_samples,
         \A s \in pool_samples : r.risk <= s.ts /\ s.ts <= until => s \in window
  PROVE  /\ Api!Cardinality(window) \in Nat /\ 2 <= Api!Cardinality(window)
         /\ r.severity <= Api!LargestLoss(window)
<1>1. PICK p \in pool_samples : p.ts = r.risk
  BY DEF Witnessed, BreachOnFile
<1>2. PICK q \in pool_samples :
        q.loss = r.severity /\ q.ts >= r.risk + GracePeriod /\ q.ts <= until
  BY DEF Witnessed, LossOnFile
<1>3. r.risk \in Int /\ GracePeriod \in Nat /\ p.ts \in Int /\ q.ts \in Int
  BY DetectorConfig DEF Rows, FInv, IInv, TypeOK, Samples
<1>4. q \in window /\ p \in window /\ p # q
  BY <1>1, <1>2, <1>3
<1>5. Cardinality(window) \in Nat /\ 2 <= Cardinality(window)
  <2>1. IsFiniteSet({p}) /\ Cardinality({p}) = 1
    BY FS_Singleton
  <2>2. {p, q} = {p} \cup {q} /\ q \notin {p}
    BY <1>4
  <2>3. Cardinality({p} \cup {q}) = Cardinality({p}) + 1
    BY ONLY <2>1, <2>2, FS_AddElement
  <2>4. Cardinality({p, q}) = 2
    BY ONLY <2>1, <2>2, <2>3
  <2>5. IsFiniteSet(window) /\ Cardinality(window) \in Nat
    BY FS_Subset, FS_CardinalityType DEF FInv
  <2>6. {p, q} \in SUBSET window
    BY <1>4
  <2> QED BY <2>4, <2>5, <2>6, FS_Subset
<1>6. r.severity <= Api!LargestLoss(window)
  BY <1>2, <1>4, LargestLossIs DEF FInv, IInv
<1> QED BY <1>5, <1>6, SameCardinality

\* What the handler of /risk/:riskId has read fits what is in the tables now.
DetailRead ==
  client.kind = "detail" =>
    /\ client.pc \in {"idle", "read_row", "not_found", "read_window", "read_telemetry",
                      "read_snapshots", "answered"}
    /\ client.pc \in {"read_window", "read_telemetry", "read_snapshots", "answered"} =>
         RowStored(client.row) /\ client.until \in Int /\ Witnessed(client.row, client.until)
    /\ client.pc \in {"read_telemetry", "read_snapshots", "answered"} =>
         client.row.severity <= client.maxLoss /\ client.samples \in Nat /\ 2 <= client.samples
    /\ client.pc = "read_telemetry" =>
         client.samples <= Api!Cardinality(Api!Between(client.row.risk, client.until))
    /\ client.pc \in {"read_snapshots", "answered"} => client.samples <= client.telemetry
    /\ client.pc = "answered" =>
         /\ "DEPEG_START" \in client.labels
         /\ client.row.state = "RESOLVED" => "DEPEG_END" \in client.labels

ListedSampled == \A k \in DOMAIN client.listed : 2 <= client.listed[k].samples

DInv == FInv /\ Pages!IInv /\ DetailRead /\ ListedSampled

LEMMA DetailStays ==
  ASSUME DInv, FInv', [Next]_vars, UNCHANGED client
  PROVE  DetailRead' /\ ListedSampled'
<1>1. pool_samples \subseteq pool_samples'
  BY SamplesGrow DEF DInv, FInv, IInv
<1>2. ASSUME NEW r, RowStored(r) PROVE RowStored(r)'
  BY <1>2, RowsStay DEF DInv, FInv, IInv
<1>3. ASSUME NEW r, NEW until, Witnessed(r, until) PROVE Witnessed(r, until)'
  BY <1>1, <1>3 DEF Witnessed, BreachOnFile, LossOnFile
<1>4. ASSUME NEW start, NEW end
      PROVE  /\ Cardinality(Api!Between(start, end)) \in Nat
             /\ Cardinality(Api!Between(start, end)') \in Nat
             /\ Cardinality(Api!Between(start, end)) <= Cardinality(Api!Between(start, end)')
  <2> DEFINE before == Api!Between(start, end)
             after == Api!Between(start, end)'
  <2>1. before \subseteq pool_samples /\ after \subseteq pool_samples' /\ before \subseteq after
    BY <1>1 DEF Api!Between
  <2>2. IsFiniteSet(pool_samples) /\ IsFiniteSet(pool_samples')
    BY DEF DInv, FInv
  <2> HIDE DEF before, after
  <2>3. IsFiniteSet(before) /\ IsFiniteSet(after)
    BY <2>1, <2>2, FS_Subset
  <2>4. /\ Cardinality(before) \in Nat /\ Cardinality(after) \in Nat
        /\ Cardinality(before) <= Cardinality(after)
    BY <2>1, <2>3, FS_Subset, FS_CardinalityType
  <2> QED BY <2>4 DEF before, after
<1>5. ASSUME client.kind = "detail", client.pc = "read_telemetry"
      PROVE  client.samples <= Api!Cardinality(Api!Between(client.row.risk, client.until)')
  BY <1>4, <1>5, SameCardinality DEF DInv, DetailRead
<1>6. UNCHANGED client
  OBVIOUS
<1> QED BY <1>2, <1>3, <1>5, <1>6 DEF DInv, DetailRead, ListedSampled, Api!Between

LEMMA DetailSteps ==
  ASSUME GracePeriod > 0, DInv, UNCHANGED <<risk_events, pool_samples, snapshots>>,
         Api!Arrive \/ Api!ReadRow \/ Api!ReadWindow \/ Api!ReadTelemetry \/ Api!ReadSnapshots
  PROVE  DetailRead'
<1>1. DOMAIN client = DOMAIN Api!Blank
  BY DEF DInv, Pages!IInv, Pages!Client, Pages!Blank, Api!Blank
<1>2. ASSUME NEW r, RowStored(r) PROVE RowStored(r)'
  BY <1>2 DEF RowStored
<1>3. ASSUME NEW r, NEW until, Witnessed(r, until) PROVE Witnessed(r, until)'
  BY <1>3 DEF Witnessed, BreachOnFile, LossOnFile
<1>4. ASSUME NEW r, RowStored(r) PROVE r \in Rows /\ RowBacked(r)
  BY <1>4, ElementOfSeq, LenProperties DEF RowStored, DInv, FInv, IInv, TypeOK, EInv, Tables,
     RowsBacked
<1>5. CASE Api!Arrive
  <2>1. client'.kind = "detail" => client'.pc = "read_row"
    BY <1>5 DEF Api!Arrive, Api!Blank
  <2> QED BY <2>1 DEF DetailRead
<1>6. CASE Api!ReadRow
  <2>1. CASE client.risk \notin Api!Risks(risk_events)
    <3>1. client'.kind = client.kind /\ client'.pc = "not_found"
      BY <1>1, <1>6, <2>1 DEF Api!ReadRow, Api!Blank
    <3> QED BY <3>1 DEF DetailRead
  <2>2. CASE client.risk \in Api!Risks(risk_events)
    <3> DEFINE row == Api!Latest(risk_events, client.risk)
    <3>1. PICK now \in 0..MaxTime :
            /\ \A s \in pool_samples : s.ts <= now
            /\ client' = [client EXCEPT !.pc = "read_window", !.row = row,
                            !.until = IF row.end = None THEN now ELSE row.end]
      BY <1>6, <2>2 DEF Api!ReadRow
    <3>2. /\ row = Latest(risk_events, client.risk) /\ client.risk \in Risks(risk_events)
      BY <2>2 DEF Api!Risks, Risks, Api!Latest, Latest, Api!LatestOf, LatestOf, Api!Final,
         Final, Api!Kept, Kept, Api!SameKey, SameKey
    <3> HIDE DEF row
    <3>3. RowStored(row)
      BY <3>2, LatestStored DEF RowStored, DInv
    <3> DEFINE until == IF row.end = None THEN now ELSE row.end
    <3>4. Witnessed(row, until)
      BY <3>1, <3>3, RowWitnessed DEF DInv
    <3>5. until \in Int
      BY <1>4, <3>3 DEF Rows
    <3> HIDE DEF until
    <3>6. /\ client'.kind = client.kind /\ client'.pc = "read_window" /\ client'.row = row
          /\ client'.until = until
      BY <1>1, <3>1 DEF Api!Blank, until
    <3> QED BY <1>2, <1>3, <3>3, <3>4, <3>5, <3>6 DEF DetailRead
  <2> QED BY <2>1, <2>2
<1>7. CASE Api!ReadWindow
  <2> DEFINE row == client.row
             window == Api!Between(row.risk, client.until)
  <2>1. /\ client'.kind = client.kind /\ client'.pc = "read_telemetry" /\ client'.row = row
        /\ client'.until = client.until /\ client.pc = "read_window"
        /\ client'.maxLoss = Api!LargestLoss(window) /\ client'.samples = Api!Cardinality(window)
    BY <1>1, <1>7 DEF Api!ReadWindow, Api!Blank
  <2>2. ASSUME client.kind = "detail"
        PROVE  /\ RowStored(row) /\ client.until \in Int /\ Witnessed(row, client.until)
               /\ Api!Cardinality(window) \in Nat /\ 2 <= Api!Cardinality(window)
               /\ row.severity <= Api!LargestLoss(window)
    <3>1. RowStored(row) /\ client.until \in Int /\ Witnessed(row, client.until)
      BY <2>1, <2>2 DEF DInv, DetailRead
    <3>2. row \in Rows
      BY <1>4, <3>1
    <3>3. /\ window \in SUBSET pool_samples
          /\ \A s \in pool_samples : row.risk <= s.ts /\ s.ts <= client.until => s \in window
      BY DEF Api!Between
    <3> HIDE DEF window, row
    <3> QED BY <3>1, <3>2, <3>3, WindowRead DEF DInv
  <2>3. Api!Between(client.row.risk, client.until)' = window
    BY <2>1 DEF Api!Between
  <2> HIDE DEF window, row
  <2>4. ASSUME client.kind = "detail"
        PROVE  client'.samples <= Api!Cardinality(Api!Between(client.row.risk, client.until)')
    BY <2>1, <2>2, <2>3, <2>4
  <2> QED BY <1>2, <1>3, <2>1, <2>2, <2>4 DEF DetailRead
<1>8. CASE Api!ReadTelemetry
  <2>1. /\ client'.kind = client.kind /\ client'.pc = "read_snapshots" /\ client'.row = client.row
        /\ client'.until = client.until /\ client.pc = "read_telemetry"
        /\ client'.maxLoss = client.maxLoss /\ client'.samples = client.samples
        /\ client'.telemetry = Api!Cardinality(Api!Between(client.row.risk, client.until))
    BY <1>1, <1>8 DEF Api!ReadTelemetry, Api!Blank
  <2> QED BY <1>2, <1>3, <2>1 DEF DInv, DetailRead
<1>9. CASE Api!ReadSnapshots
  <2>1. /\ client'.kind = client.kind /\ client'.pc = "answered" /\ client'.row = client.row
        /\ client'.until = client.until /\ client.pc = "read_snapshots"
        /\ client'.maxLoss = client.maxLoss /\ client'.samples = client.samples
        /\ client'.telemetry = client.telemetry
        /\ client'.labels = {s.label : s \in {s \in snapshots : s.risk = client.row.risk}}
    BY <1>1, <1>9 DEF Api!ReadSnapshots, Api!Blank
  <2>2. ASSUME client.kind = "detail"
        PROVE  /\ "DEPEG_START" \in client'.labels
               /\ client.row.state = "RESOLVED" => "DEPEG_END" \in client'.labels
    BY <1>4, <2>1, <2>2 DEF DInv, DetailRead, RowBacked, SnapshotOnFile
  <2> QED BY <1>2, <1>3, <2>1, <2>2 DEF DInv, DetailRead
<1> QED BY <1>5, <1>6, <1>7, <1>8, <1>9

\* A row of the page has the samples that opened its window.
LEMMA MetricsSampled ==
  ASSUME GracePeriod > 0, DInv, Api!ReadMetrics
  PROVE  ListedSampled'
<1> DEFINE i == Head(client.page)
           row == risk_events[i]
           window == IF row.end = None THEN Api!Since(row.risk)
                     ELSE Api!Between(row.risk, row.end)
           until == IF row.end = None THEN clock ELSE row.end
           item == [row |-> i, samples |-> Api!Cardinality(window)]
<1>1. i \in DOMAIN risk_events
  <2>1. client.page \in Seq(DOMAIN risk_events) /\ client.page # <<>>
    BY DEF DInv, Pages!IInv, Pages!Client, Pages!Progress, Api!ReadMetrics
  <2> QED BY <2>1, HeadTailProperties
<1>2. client'.listed = Append(client.listed, item)
  BY DEF DInv, Pages!IInv, Pages!Client, Pages!Blank, Api!ReadMetrics
<1> HIDE DEF i
<1>3. RowStored(row)
  BY <1>1 DEF RowStored
<1>4. row \in Rows
  BY <1>1, ElementOfSeq, LenProperties DEF DInv, FInv, IInv, TypeOK
<1>5. /\ clock \in Int /\ until \in Int
      /\ \A s \in pool_samples : s.ts <= clock
  BY <1>4 DEF DInv, FInv, IInv, TypeOK, EInv, Tables, SamplesInThePast, Rows
<1>6. /\ window \in SUBSET pool_samples
      /\ \A s \in pool_samples : row.risk <= s.ts /\ s.ts <= until => s \in window
  BY DEF Api!Since, Api!Between
<1>7. Witnessed(row, until)
  BY <1>3, <1>5, RowWitnessed DEF DInv
<1> HIDE DEF window, until, row
<1>8. 2 <= Api!Cardinality(window)
  BY <1>4, <1>5, <1>6, <1>7, WindowRead DEF DInv
<1>9. 2 <= item.samples
  BY <1>8
<1> HIDE DEF item
<1>10. PICK Items : client.listed \in Seq(Items)
  BY DEF DInv, Pages!IInv, Pages!Client
<1>11. client.listed \in Seq(Items \cup {item})
  BY <1>10, SeqMonotonic
<1>12. \A k \in DOMAIN client'.listed :
         \/ k \in DOMAIN client.listed /\ client'.listed[k] = client.listed[k]
         \/ client'.listed[k] = item
  BY <1>2, <1>11, AppendAll
<1> QED BY <1>9, <1>12 DEF DInv, ListedSampled

LEMMA StepDetail ==
  ASSUME GracePeriod > 0, DInv, [ValidatorNext]_<<vars, claims, client>>
  PROVE  DInv'
<1>1. [Next]_vars /\ FInv'
  BY IndexerStep, StepFiles DEF DInv
<1>2. Pages!IInv'
  <2>1. Pages!PageConfig /\ Pages!Risked
    BY ValidatorConfig DEF Pages!PageConfig, Pages!Risked, Rows
  <2>2. TypeOK /\ TypeOK'
    BY <1>1 DEF DInv, FInv, IInv
  <2> QED BY <2>1, <2>2, PagesStep, Pages!StepPages DEF DInv
<1>3. CASE UNCHANGED client
  BY <1>1, <1>2, <1>3, DetailStays DEF DInv
<1>4. CASE Api!ApiNext
  <2>1. /\ UNCHANGED <<risk_events, pool_samples, snapshots>>
        /\ DOMAIN client = DOMAIN Api!Blank
    BY <1>4 DEF Api!ApiNext, DInv, Pages!IInv, Pages!Client, Pages!Blank, Api!Blank
  <2>2. CASE Api!Arrive
    <3>1. client'.listed = <<>>
      BY <2>2 DEF Api!Arrive, Api!Blank
    <3> QED BY <1>1, <1>2, <2>1, <2>2, <3>1, DetailSteps DEF DInv, ListedSampled
  <2>3. CASE Api!ReadRow \/ Api!ReadWindow \/ Api!ReadTelemetry \/ Api!ReadSnapshots
    <3>1. client'.listed = client.listed
      BY <2>1, <2>3 DEF Api!ReadRow, Api!ReadWindow, Api!ReadTelemetry, Api!ReadSnapshots, Api!Blank
    <3> QED BY <1>1, <1>2, <2>1, <2>3, <3>1, DetailSteps DEF DInv, ListedSampled
  <2>4. CASE Api!ReadPage \/ Api!ReadMetrics \/ Api!ReadLatest \/ Api!ReadOpen \/ Api!ReadStats
    <3>1. client'.kind = client.kind /\ client.kind # "detail"
      BY <2>1, <2>4 DEF Api!ReadPage, Api!ReadMetrics, Api!ReadLatest, Api!ReadOpen, Api!ReadStats,
         Api!Blank, DInv, DetailRead
    <3>2. DetailRead'
      BY <3>1 DEF DetailRead
    <3>3. ~Api!ReadMetrics => client'.listed = client.listed
      BY <2>1, <2>4 DEF Api!ReadPage, Api!ReadLatest, Api!ReadOpen, Api!ReadStats, Api!Blank
    <3>4. ListedSampled'
      BY <3>3, MetricsSampled DEF DInv, ListedSampled
    <3> QED BY <1>1, <1>2, <3>2, <3>4 DEF DInv
  <2> QED BY <1>4, <2>2, <2>3, <2>4 DEF Api!ApiNext
<1> QED BY <1>3, <1>4 DEF ValidatorNext

\* The queries of /risk/:riskId are made one after the other: the loss, the
\* telemetry and the snapshots an answer gives are never less than its row tells,
\* and a listed window has samples, whatever the indexer does in between.
THEOREM DetailSafe ==
  ASSUME GracePeriod > 0
  PROVE  ValidatorSpec => []DetailBacked
<1>1. ValidatorInit => DInv
  <2> SUFFICES ASSUME ValidatorInit PROVE DInv
    OBVIOUS
  <2>1. client = Api!Blank /\ client.pc = "idle" /\ client.listed = <<>>
    BY DEF ValidatorInit, Api!ApiInit, Api!Blank
  <2>2. FInv /\ Pages!IInv
    BY InitFiles, PagesInit, Pages!InitPages DEF ValidatorInit
  <2> QED BY <2>1, <2>2 DEF DInv, DetailRead, ListedSampled
<1>2. DInv /\ [ValidatorNext]_<<vars, claims, client>> => DInv'
  BY StepDetail
<1>3. DInv => DetailBacked
  BY DEF DInv, DetailRead, ListedSampled, DetailBacked, Api!DetailBacked, Api!Answered
<1> QED BY <1>1, <1>2, <1>3, PTL DEF ValidatorSpec

-----------------------------------------------------------------------------
(* Backtest.  The script's memory holds what the indexer's does: a         *)
(* run of breaches, the largest loss of each window, the block's sample.   *)

SimPcs == {"sample", "start_snapshot", "open_row", "end_snapshot", "resolved_row", "done"}

\* A largest loss for each of some risks.
LossMaps == UNION {[D -> Nat] : D \in SUBSET Int}

SimStates ==
  [pc: SimPcs, block: Int, sample: Samples \cup {None}, det: DetectorState,
   start: Int \cup {None}, risks: LossMaps]

\* The script has an event in hand.
Writing == sim.pc \notin {"sample", "done"}

\* Its detector has seen no block but those before the next one it samples.
SimNow ==
  /\ InThePast(sim.det, sim.block)
  /\ sim.pc = "sample" /\ sim.det.lastBreachAt # None => sim.det.lastBreachAt < sim.block

\* What it remembers is on file, as it is for the indexer.
SimBacked ==
  /\ sim.det.lastBreachAt # None => BreachOnFile(sim.det.lastBreachAt)
  /\ \A risk \in DOMAIN sim.risks :
       BreachOnFile(risk) /\ LossOnFile(risk, sim.risks[risk], sim.block)
  /\ Writing => /\ sim.start \in DOMAIN sim.risks
                /\ sim.sample \in pool_samples /\ sim.sample.ts = sim.block
  /\ sim.pc \in {"end_snapshot", "resolved_row"} => ~Breach(sim.sample.rBps)

BInv == MInv /\ sim \in SimStates /\ SimNow /\ SimBacked /\ RowsEvidenced

-----------------------------------------------------------------------------
(* What is on file stays on file, for either writer.                       *)

\* What the script asks of a row, and of one written by the indexer.
Evidenced(r) ==
  /\ BreachOnFile(r.risk)
  /\ \E p \in pool_samples : /\ p.loss = r.severity /\ p.ts >= r.risk + GracePeriod
                             /\ r.state = "RESOLVED" => p.ts <= r.end
  /\ r.state = "RESOLVED" => r.end >= r.risk + GracePeriod /\ HealthyOnFile(r.end)

AllEvidenced == \A i \in DOMAIN risk_events : Evidenced(risk_events[i])

LEMMA RowsAreEvidenced == RowsEvidenced <=> AllEvidenced
BY DEF AllEvidenced, RowsEvidenced, SeverityWitnessed, WindowEndpointsEvidenced, Evidenced, BreachOnFile,
   HealthyOnFile

\* The rows stay evidenced when samples and evidenced rows are added.
LEMMA EvidenceKept ==
  ASSUME TypeOK, RowsEvidenced, pool_samples \subseteq pool_samples',
         \/ risk_events' = risk_events
         \/ \E row \in Rows : risk_events' = Append(risk_events, row) /\ Evidenced(row)'
  PROVE  RowsEvidenced'
<1>1. \A r : Evidenced(r) => Evidenced(r)'
  BY DEF Evidenced, BreachOnFile, HealthyOnFile
<1>2. AllEvidenced
  BY RowsAreEvidenced
<1>3. AllEvidenced'
  <2>1. CASE risk_events' = risk_events
    BY <1>1, <1>2, <2>1 DEF AllEvidenced
  <2>2. CASE \E row \in Rows : risk_events' = Append(risk_events, row) /\ Evidenced(row)'
    <3>1. PICK row \in Rows : risk_events' = Append(risk_events, row) /\ Evidenced(row)'
      BY <2>2
    <3>2. \A i \in DOMAIN risk_events' :
            \/ i \in DOMAIN risk_events /\ risk_events'[i] = risk_events[i]
            \/ risk_events'[i] = row
      BY <3>1, AppendAll DEF TypeOK
    <3> QED BY <1>1, <1>2, <3>1, <3>2 DEF AllEvidenced
  <2> QED BY <2>1, <2>2
<1> QED
  BY <1>3 DEF AllEvidenced, RowsEvidenced, SeverityWitnessed, WindowEndpointsEvidenced, Evidenced, BreachOnFile,
     HealthyOnFile

\* The indexer's memory is as good as before when others have written.
LEMMA MemoryBesideWrites ==
  ASSUME MInv, TypeOK', UNCHANGED <<memory, clock>>,
         pool_samples \subseteq pool_samples', snapshots \subseteq snapshots',
         \/ risk_events' = risk_events
         \/ \E row \in Rows : risk_events' = Append(risk_events, row)
  PROVE  MInv'
<1>1. /\ TypeOK /\ clock' = clock /\ clock \in Int
      /\ pc' = pc /\ sample' = sample /\ cid' = cid /\ det' = det /\ currentEvent' = currentEvent
  BY DEF MInv, TypeOK, memory
<1>2. RunBacked' /\ EventBacked'
  BY <1>1, MemoryKept DEF MInv, EventBacked
<1>3. \A start, state, end : RowOnFile(start, state, end) => RowOnFile(start, state, end)'
  BY <1>1, RowsStayOnFile DEF TypeOK
<1>4. PollBacked'
  <2>1. pc = "emit_start" => RowOnFile(currentEvent.start, "OPEN", None)'
    BY <1>1, <1>3 DEF MInv, Memory, PollBacked, RowOnFile
  <2>2. pc = "emit_end" => RowOnFile(currentEvent.start, "RESOLVED", sample.ts)'
    BY <1>1, <1>3 DEF MInv, Memory, PollBacked, RowOnFile
  <2> QED BY <1>1, <2>1, <2>2 DEF MInv, Memory, PollBacked, RowOnFile
<1>5. Now'
  BY <1>1 DEF MInv, Now, InThePast
<1> QED BY <1>2, <1>4, <1>5 DEF MInv, Memory

-----------------------------------------------------------------------------
(* The script's own state.                                                 *)

LEMMA NextBlockIs ==
  ASSUME NEW s \in SimStates
  PROVE  /\ NextBlock(s) \in SimStates
         /\ NextBlock(s).pc \in {"sample", "done"}
         /\ NextBlock(s).block = s.block + Step
         /\ NextBlock(s).det = s.det /\ NextBlock(s).risks = s.risks
<1>1. s.block + Step \in Int
  BY BacktestConfig DEF SimStates
<1>2. NextBlock(s) = [s EXCEPT !.pc = NextBlock(s).pc, !.block = s.block + Step, !.sample = None,
                               !.start = None]
  BY DEF NextBlock, SimStates
<1>3. NextBlock(s).pc \in {"sample", "done"}
  BY DEF NextBlock, SimStates
<1> QED BY <1>1, <1>2, <1>3 DEF SimStates, SimPcs

\* What the script makes of a sample: nothing more than its detector does, the
\* end of a window that it remembers, or the start of one.
LEMMA DetectedIs ==
  ASSUME sim \in SimStates, NEW read \in Samples
  PROVE  LET s == Detected(read) IN
         /\ s \in SimStates
         /\ s.det = AfterSample(sim.det, read.ts, read.rBps)
         /\ \/ /\ s.pc \in {"sample", "done"} /\ s.block = sim.block + Step
               /\ s.risks = sim.risks
            \/ /\ s.pc = "end_snapshot" /\ s.block = sim.block /\ s.sample = read
               /\ s.risks = sim.risks /\ s.start = sim.det.windowStart
               /\ s.start \in DOMAIN sim.risks /\ Closes(sim.det, read.rBps)
            \/ /\ s.pc = "start_snapshot" /\ s.block = sim.block /\ s.sample = read
               /\ Opens(sim.det, read.ts, read.rBps)
               /\ s.start = FirstBreach(sim.det, read.ts)
               /\ s.risks = [risk \in DOMAIN sim.risks \cup {s.start} |->
                               IF risk = s.start THEN read.loss ELSE sim.risks[risk]]
<1> DEFINE event == EventOf(sim.det, read.ts, read.rBps)
           fed == [sim EXCEPT !.det = AfterSample(sim.det, read.ts, read.rBps), !.sample = read]
<1>1. /\ sim.det \in DetectorState /\ read.ts \in Int /\ read.rBps \in Int /\ read.loss \in Nat
      /\ sim.block \in Int
  BY DEF SimStates, Samples
<1>2. AfterSample(sim.det, read.ts, read.rBps) \in DetectorState
  BY <1>1, AfterSampleType
<1>3. /\ fed \in SimStates /\ fed.det = AfterSample(sim.det, read.ts, read.rBps)
      /\ fed.block = sim.block /\ fed.risks = sim.risks /\ fed.sample = read
  BY <1>2 DEF SimStates
<1>4. FirstBreach(sim.det, read.ts) \in Int
  BY <1>1 DEF FirstBreach, DetectorState
<1>5. /\ event = None <=> ~Opens(sim.det, read.ts, read.rBps) /\ ~Closes(sim.det, read.rBps)
      /\ event # None => (event.type = "DEPEG_START" <=> Opens(sim.det, read.ts, read.rBps))
  BY <1>1, EventKinds
<1>6. /\ Opens(sim.det, read.ts, read.rBps)
           => /\ event.type = "DEPEG_START" /\ event.start = FirstBreach(sim.det, read.ts)
      /\ ~Opens(sim.det, read.ts, read.rBps) /\ Closes(sim.det, read.rBps)
           => /\ event.type = "DEPEG_END" /\ event.start = sim.det.windowStart
              /\ event.start \in Int
  <2>1. Closes(sim.det, read.rBps) => sim.det.windowStart # None /\ sim.det.windowStart \in Int
    BY <1>1 DEF Closes, DetectorState
  <2> QED BY <2>1 DEF EventOf, StartEvent, EndEvent
<1>7. \/ Detected(read) = NextBlock(fed)
      \/ /\ Closes(sim.det, read.rBps) /\ event.start = sim.det.windowStart
         /\ event.start \in DOMAIN sim.risks /\ event.start \in Int
         /\ Detected(read) = [fed EXCEPT !.pc = "end_snapshot", !.start = event.start]
      \/ /\ Opens(sim.det, read.ts, read.rBps) /\ event.start = FirstBreach(sim.det, read.ts)
         /\ Detected(read) = [fed EXCEPT !.pc = "start_snapshot", !.start = event.start,
              !.risks = [risk \in DOMAIN @ \cup {event.start} |->
                           IF risk = event.start THEN read.loss ELSE @[risk]]]
  <2> HIDE DEF fed, event
  <2>1. Detected(read) =
          IF event = None \/ (event.type = "DEPEG_END" /\ event.start \notin DOMAIN sim.risks)
          THEN NextBlock(fed)
          ELSE IF event.type = "DEPEG_END"
          THEN [fed EXCEPT !.pc = "end_snapshot", !.start = event.start]
          ELSE [fed EXCEPT !.pc = "start_snapshot", !.start = event.start,
                  !.risks = [risk \in DOMAIN @ \cup {event.start} |->
                               IF risk = event.start THEN read.loss ELSE @[risk]]]
    BY DEF Detected, fed, event
  <2> QED BY <1>5, <1>6, <2>1
<1> HIDE DEF fed, event
<1>8. CASE Detected(read) = NextBlock(fed)
  BY <1>3, <1>8, NextBlockIs
<1>9. ASSUME Closes(sim.det, read.rBps), event.start = sim.det.windowStart,
             event.start \in DOMAIN sim.risks, event.start \in Int,
             Detected(read) = [fed EXCEPT !.pc = "end_snapshot", !.start = event.start]
      PROVE  /\ Detected(read) \in SimStates
             /\ Detected(read).det = fed.det /\ Detected(read).pc = "end_snapshot"
             /\ Detected(read).block = fed.block /\ Detected(read).sample = fed.sample
             /\ Detected(read).risks = fed.risks /\ Detected(read).start = event.start
  BY <1>3, <1>9 DEF SimStates, SimPcs
<1>10. ASSUME NEW risks \in LossMaps, event.start \in Int,
              Detected(read) = [fed EXCEPT !.pc = "start_snapshot", !.start = event.start,
                                           !.risks = risks]
       PROVE  /\ Detected(read) \in SimStates
              /\ Detected(read).det = fed.det /\ Detected(read).pc = "start_snapshot"
              /\ Detected(read).block = fed.block /\ Detected(read).sample = fed.sample
              /\ Detected(read).risks = risks /\ Detected(read).start = event.start
  BY <1>3, <1>10 DEF SimStates, SimPcs
<1>11. ASSUME Opens(sim.det, read.ts, read.rBps), event.start = FirstBreach(sim.det, read.ts)
       PROVE  [risk \in DOMAIN sim.risks \cup {event.start} |->
                 IF risk = event.start THEN read.loss ELSE sim.risks[risk]]
                \in LossMaps
  <2>1. PICK D \in SUBSET Int : sim.risks \in [D -> Nat]
    BY DEF SimStates, LossMaps
  <2>2. D \cup {event.start} \in SUBSET Int
    BY <1>4, <1>11
  <2>3. [risk \in DOMAIN sim.risks \cup {event.start} |->
           IF risk = event.start THEN read.loss ELSE sim.risks[risk]] \in [D \cup {event.start} -> Nat]
    BY <1>1, <2>1
  <2> QED BY <2>2, <2>3 DEF LossMaps
<1>12. CASE /\ Closes(sim.det, read.rBps) /\ event.start = sim.det.windowStart
            /\ event.start \in DOMAIN sim.risks /\ event.start \in Int
            /\ Detected(read) = [fed EXCEPT !.pc = "end_snapshot", !.start = event.start]
  BY <1>3, <1>9, <1>12
<1>13. CASE /\ Opens(sim.det, read.ts, read.rBps) /\ event.start = FirstBreach(sim.det, read.ts)
            /\ Detected(read) = [fed EXCEPT !.pc = "start_snapshot", !.start = event.start,
                 !.risks = [risk \in DOMAIN @ \cup {event.start} |->
                              IF risk = event.start THEN read.loss ELSE @[risk]]]
  <2>1. PICK risks \in LossMaps :
          risks = [risk \in DOMAIN sim.risks \cup {event.start} |->
                     IF risk = event.start THEN read.loss ELSE sim.risks[risk]]
    BY <1>11, <1>13
  <2>2. Detected(read) = [fed EXCEPT !.pc = "start_snapshot", !.start = event.start,
                                     !.risks = risks]
    BY <1>3, <1>13, <2>1
  <2>3. /\ Detected(read) \in SimStates
        /\ Detected(read).det = fed.det /\ Detected(read).pc = "start_snapshot"
        /\ Detected(read).block = fed.block /\ Detected(read).sample = fed.sample
        /\ Detected(read).risks = risks /\ Detected(read).start = event.start
    BY <1>4, <1>10, <1>13, <2>2
  <2>4. risks = [risk \in DOMAIN sim.risks \cup {Detected(read).start} |->
                   IF risk = Detected(read).start THEN read.loss ELSE sim.risks[risk]]
    BY <2>1, <2>3
  <2> HIDE DEF Detected
  <2>5. PICK s : s = Detected(read)
    OBVIOUS
  <2> QED BY ONLY <1>3, <1>13, <2>3, <2>4, <2>5
<1> QED BY <1>7, <1>8, <1>12, <1>13

LEMMA RisksAre ==
  ASSUME sim \in SimStates, NEW risk \in DOMAIN sim.risks
  PROVE  risk \in Int /\ sim.risks[risk] \in Nat
<1>1. PICK D \in SUBSET Int : sim.risks \in [D -> Nat]
  BY DEF SimStates, LossMaps
<1> QED BY <1>1

LEMMA RiskForgotten ==
  ASSUME sim \in SimStates
  PROVE  [risk \in DOMAIN sim.risks \ {sim.start} |-> sim.risks[risk]] \in LossMaps
<1>1. PICK D \in SUBSET Int : sim.risks \in [D -> Nat]
  BY DEF SimStates, LossMaps
<1>2. /\ [risk \in DOMAIN sim.risks \ {sim.start} |-> sim.risks[risk]] \in [D \ {sim.start} -> Nat]
      /\ D \ {sim.start} \in SUBSET Int
  BY <1>1
<1> QED BY <1>2 DEF LossMaps

\* The end of the iteration that attempts a row.
LEMMA RowEndsBlock ==
  ASSUME sim \in SimStates, NEW outcome, SimOpenRow(outcome) \/ SimResolvedRow(outcome)
  PROVE  /\ sim' \in SimStates /\ sim'.pc \in {"sample", "done"} /\ sim'.block = sim.block + Step
         /\ sim'.det = sim.det /\ DOMAIN sim'.risks \subseteq DOMAIN sim.risks
         /\ \A risk \in DOMAIN sim'.risks : sim'.risks[risk] = sim.risks[risk]
<1>1. CASE sim' = NextBlock(sim)
  BY <1>1, NextBlockIs
<1>2. CASE sim' = NextBlock([sim EXCEPT !.risks =
                    [risk \in DOMAIN sim.risks \ {sim.start} |-> sim.risks[risk]]])
  <2>1. PICK risks : risks = [risk \in DOMAIN sim.risks \ {sim.start} |-> sim.risks[risk]]
    OBVIOUS
  <2>2. risks \in LossMaps
    BY <2>1, RiskForgotten
  <2>3. PICK s : s = [sim EXCEPT !.risks = risks]
    OBVIOUS
  <2>4. s \in SimStates /\ s.block = sim.block /\ s.det = sim.det /\ s.risks = risks
    BY <2>2, <2>3 DEF SimStates
  <2>5. sim' = NextBlock(s)
    BY <1>2, <2>1, <2>3
  <2>6. /\ sim' \in SimStates /\ sim'.pc \in {"sample", "done"} /\ sim'.block = sim.block + Step
        /\ sim'.det = sim.det /\ sim'.risks = risks
    BY <2>4, <2>5, NextBlockIs
  <2> QED BY <2>1, <2>6
<1> QED BY <1>1, <1>2 DEF SimOpenRow, SimResolvedRow, SimAttempt

\* At the end of an iteration nothing is in hand, and the next block is later
\* than everything remembered.
LEMMA BlockEnds ==
  ASSUME TypeOK, TypeOK', clock' = clock, sim \in SimStates, sim' \in SimStates, SimBacked,
         pool_samples \subseteq pool_samples', snapshots \subseteq snapshots',
         sim'.pc \in {"sample", "done"}, sim'.block = sim.block + Step,
         InThePast(sim'.det, sim.block),
         sim'.det.lastBreachAt # None => BreachOnFile(sim.det.lastBreachAt)',
         DOMAIN sim'.risks \subseteq DOMAIN sim.risks,
         \A risk \in DOMAIN sim'.risks : sim'.risks[risk] = sim.risks[risk]
  PROVE  SimNow' /\ SimBacked'
<1>1. /\ sim.block \in Int /\ sim'.block \in Int /\ sim.block < sim'.block
      /\ sim'.det.lastBreachAt # None => sim'.det.lastBreachAt \in Int
      /\ sim'.det.active => sim'.det.windowStart \in Int
  BY BacktestConfig DEF SimStates, DetectorState
<1>2. SimNow'
  BY <1>1, DetectorConfig DEF SimNow, InThePast
<1>3. clock \in Int /\ clock <= clock'
  BY DEF TypeOK
<1>4. ASSUME NEW risk \in DOMAIN sim'.risks
      PROVE  BreachOnFile(risk)' /\ LossOnFile(risk, sim.risks[risk], sim.block)'
  <2>1. BreachOnFile(risk) /\ LossOnFile(risk, sim.risks[risk], sim.block)
    BY <1>4 DEF SimBacked
  <2>2. BreachOnFile(risk)'
    BY <2>1, <1>3, FilesGrow
  <2>3. PICK loss : loss = sim.risks[risk] /\ loss = sim'.risks[risk]
    BY <1>4
  <2>4. PICK p \in pool_samples : p.loss = loss /\ p.ts >= risk + GracePeriod /\ p.ts <= sim.block
    BY <2>1, <2>3 DEF LossOnFile
  <2>5. p \in pool_samples' /\ p.ts <= sim'.block
    BY <1>1, <2>4 DEF TypeOK, Samples
  <2> QED BY <2>2, <2>3, <2>4, <2>5 DEF LossOnFile
<1> QED BY <1>2, <1>4 DEF SimBacked, Writing

-----------------------------------------------------------------------------
(* The script's steps.                                                     *)

Beside == UNCHANGED <<memory, webhooks, clock, polls, failures, crashes>>

LEMMA SimUnfetchedStep ==
  ASSUME BInv, SimUnfetched, Beside
  PROVE  BInv'
<1>1. /\ TypeOK /\ sim \in SimStates /\ SimNow /\ SimBacked /\ clock' = clock
      /\ sim' = NextBlock(sim) /\ UNCHANGED <<pool_samples, risk_events, snapshots>>
  BY DEF BInv, MInv, SimUnfetched, Beside
<1>2. TypeOK'
  BY <1>1 DEF TypeOK, Beside, memory
<1>3. MInv' /\ RowsEvidenced'
  BY <1>1, <1>2, MemoryBesideWrites, EvidenceKept DEF BInv, Beside
<1>4. /\ sim' \in SimStates /\ sim'.pc \in {"sample", "done"} /\ sim'.block = sim.block + Step
      /\ sim'.det = sim.det /\ sim'.risks = sim.risks
  BY <1>1, NextBlockIs
<1>5. SimNow' /\ SimBacked'
  BY <1>1, <1>2, <1>4, BlockEnds DEF SimNow, SimBacked, BreachOnFile
<1> QED BY <1>3, <1>4, <1>5 DEF BInv

LEMMA SimSampleStep ==
  ASSUME BInv, NEW outcome, SimSample(outcome), Beside
  PROVE  BInv'
<1>1. /\ TypeOK /\ sim \in SimStates /\ SimNow /\ SimBacked /\ clock' = clock
      /\ sim.pc = "sample" /\ UNCHANGED <<risk_events, snapshots>>
  BY DEF BInv, MInv, SimSample, Beside
<1>2. PICK read \in Samples :
        /\ read.ts = sim.block
        /\ pool_samples' = Insert(pool_samples, read, outcome)
        /\ SimAttempt(outcome, Detected(read))
  <2>1. PICK rBps \in Ratios, loss \in Losses :
          /\ pool_samples' = Insert(pool_samples, [ts |-> sim.block, rBps |-> rBps, loss |-> loss], outcome)
          /\ SimAttempt(outcome, Detected([ts |-> sim.block, rBps |-> rBps, loss |-> loss]))
    BY DEF SimSample
  <2>2. [ts |-> sim.block, rBps |-> rBps, loss |-> loss] \in Samples
    BY <1>1, <2>1, IndexerConfig DEF Samples, SimStates
  <2> QED BY <2>1, <2>2
<1>3. /\ read.ts \in Int /\ read.rBps \in Int /\ read.loss \in Nat
      /\ sim.det \in DetectorState /\ sim.block \in Int
  BY <1>1 DEF Samples, SimStates
<1>4. /\ pool_samples \subseteq pool_samples' /\ pool_samples' \subseteq Samples
      /\ outcome = "stored" => read \in pool_samples'
  BY <1>1, <1>2 DEF Insert, Written, TypeOK
<1>5. TypeOK'
  BY <1>1, <1>4 DEF TypeOK, Beside, memory
<1>6. MInv' /\ RowsEvidenced'
  BY <1>1, <1>4, <1>5, MemoryBesideWrites, EvidenceKept DEF BInv, Beside
<1>7. CASE outcome # "stored"
  <2>1. /\ sim' \in SimStates /\ sim'.pc \in {"sample", "done"} /\ sim'.block = sim.block + Step
        /\ sim'.det = sim.det /\ sim'.risks = sim.risks
    BY <1>1, <1>2, <1>7, NextBlockIs DEF SimAttempt
  <2>2. SimNow' /\ SimBacked'
    BY <1>1, <1>4, <1>5, <2>1, BlockEnds DEF SimNow, SimBacked, BreachOnFile
  <2> QED BY <1>6, <2>1, <2>2 DEF BInv
<1>8. CASE outcome = "stored"
  <2>1. sim' = Detected(read)
    BY <1>2, <1>8 DEF SimAttempt
  <2>2. sim' \in SimStates /\ sim'.det = AfterSample(sim.det, read.ts, read.rBps)
    BY <1>1, <2>1, DetectedIs
  <2>3. InThePast(sim.det, read.ts) /\ InThePast(sim'.det, read.ts)
    BY <1>1, <1>2, <1>3, <2>2, AfterSampleInThePast DEF SimNow
  <2>4. sim'.det.lastBreachAt # None => BreachOnFile(sim.det.lastBreachAt)'
    <3>1. CASE ~Breach(read.rBps)
      BY <1>3, <2>2, <3>1, AfterSampleFields DEF Quiet
    <3>2. CASE Breach(read.rBps)
      <4>1. sim'.det.lastBreachAt = FirstBreach(sim.det, read.ts)
        BY <1>3, <2>2, <3>2, AfterSampleFields
      <4>2. CASE sim.det.lastBreachAt = None
        <5>1. sim'.det.lastBreachAt = read.ts
          BY <4>1, <4>2 DEF FirstBreach
        <5> QED BY <1>4, <1>8, <3>2, <5>1 DEF BreachOnFile
      <4>3. CASE sim.det.lastBreachAt # None
        <5>1. sim'.det.lastBreachAt = sim.det.lastBreachAt
          BY <4>1, <4>3 DEF FirstBreach
        <5> QED BY <1>1, <1>4, <4>3, <5>1 DEF SimBacked, BreachOnFile
      <4> QED BY <4>2, <4>3
    <3> QED BY <3>1, <3>2
  <2>5. ASSUME NEW risk \in DOMAIN sim.risks
        PROVE  BreachOnFile(risk)' /\ LossOnFile(risk, sim.risks[risk], read.ts)
    BY <1>1, <1>2, <1>4, <2>5 DEF SimBacked, BreachOnFile
  <2>6. CASE sim'.pc \in {"sample", "done"} /\ sim'.block = sim.block + Step /\ sim'.risks = sim.risks
    <3>1. SimNow' /\ SimBacked'
      BY <1>1, <1>2, <1>4, <1>5, <2>2, <2>3, <2>4, <2>6, BlockEnds
    <3> QED BY <1>6, <2>2, <3>1 DEF BInv
  <2>7. CASE /\ sim'.pc = "end_snapshot" /\ sim'.block = sim.block /\ sim'.sample = read
             /\ sim'.risks = sim.risks /\ sim'.start \in DOMAIN sim.risks
             /\ Closes(sim.det, read.rBps)
    <3>1. SimNow'
      BY <1>2, <2>3, <2>7 DEF SimNow
    <3>2. ASSUME NEW risk \in DOMAIN sim'.risks
          PROVE  (BreachOnFile(risk) /\ LossOnFile(risk, sim.risks[risk], sim.block))'
      BY <1>2, <1>4, <2>5, <2>7, <3>2 DEF LossOnFile
    <3>3. SimBacked'
      BY <1>2, <1>4, <1>8, <2>4, <2>7, <3>2 DEF SimBacked, Closes, Writing
    <3> QED BY <1>6, <2>2, <3>1, <3>3 DEF BInv
  <2>8. CASE /\ sim'.pc = "start_snapshot" /\ sim'.block = sim.block /\ sim'.sample = read
             /\ Opens(sim.det, read.ts, read.rBps)
             /\ sim'.start = FirstBreach(sim.det, read.ts)
             /\ sim'.risks = [risk \in DOMAIN sim.risks \cup {sim'.start} |->
                                IF risk = sim'.start THEN read.loss ELSE sim.risks[risk]]
    <3>1. SimNow'
      BY <1>2, <2>3, <2>8 DEF SimNow
    <3>2. /\ sim'.det.lastBreachAt = sim'.start /\ sim'.det.lastBreachAt # None
          /\ sim'.start \in Int /\ read.ts - sim'.start >= GracePeriod
      BY <1>3, <2>2, <2>8, AfterSampleFields, NoneIsNotATime DEF Opens
    <3>3. PICK start \in Int : start = sim'.start /\ start = sim'.det.lastBreachAt /\ start # None
      BY <3>2
    <3>4. BreachOnFile(start)' /\ LossOnFile(start, read.loss, read.ts)'
      <4>1. read.ts >= start + GracePeriod
        BY <1>3, <3>2, <3>3, DetectorConfig
      <4>2. LossOnFile(start, read.loss, read.ts)'
        BY <1>4, <1>8, <4>1, <1>3 DEF LossOnFile
      <4>3. BreachOnFile(sim.det.lastBreachAt)' => BreachOnFile(start)'
        BY <3>3 DEF BreachOnFile
      <4> QED BY <2>4, <3>3, <4>2, <4>3
    <3>5. ASSUME NEW risk \in DOMAIN sim'.risks
          PROVE  BreachOnFile(risk)' /\ LossOnFile(risk, sim.risks[risk], sim.block)'
      <4>1. CASE risk = start
        <5>1. sim'.risks[risk] = read.loss /\ sim'.block = read.ts
          BY <1>2, <2>8, <3>3, <3>5, <4>1
        <5> QED BY <3>4, <4>1, <5>1 DEF BreachOnFile, LossOnFile
      <4>2. CASE risk # start
        <5>1. risk \in DOMAIN sim.risks /\ sim'.risks[risk] = sim.risks[risk]
          BY <2>8, <3>3, <3>5, <4>2
        <5> QED BY <1>2, <1>4, <2>5, <2>8, <5>1 DEF LossOnFile
      <4> QED BY <4>1, <4>2
    <3>6. sim'.start \in DOMAIN sim'.risks
      BY <2>8
    <3>7. sim'.det.lastBreachAt # None => BreachOnFile(sim.det.lastBreachAt)'
      BY <2>4
    <3>8. SimBacked'
      BY <1>2, <1>4, <1>8, <2>8, <3>5, <3>6, <3>7 DEF SimBacked, Writing
    <3> QED BY <1>6, <2>2, <3>1, <3>8 DEF BInv
  <2> QED BY <1>1, <2>1, <2>6, <2>7, <2>8, DetectedIs
<1> QED BY <1>7, <1>8

\* The two snapshots.  The script goes on as it was, or gives up on the block.
LEMMA SimSnapshotStep ==
  ASSUME BInv, NEW outcome, SimStartSnapshot(outcome) \/ SimEndSnapshot(outcome), Beside
  PROVE  BInv'
<1>1. /\ TypeOK /\ sim \in SimStates /\ SimNow /\ SimBacked /\ clock' = clock
      /\ sim.pc \in {"start_snapshot", "end_snapshot"}
      /\ UNCHANGED <<pool_samples, risk_events>>
  BY DEF BInv, MInv, SimStartSnapshot, SimEndSnapshot, SimSnapshot, Beside
<1>2. sim.start \in Int
  BY <1>1, RisksAre DEF SimBacked, Writing
<1>3. snapshots \subseteq snapshots' /\ snapshots' \subseteq SnapshotRows
  <2>1. PICK label \in {"DEPEG_START", "DEPEG_END"}, c \in Cids :
          snapshots' = Insert(snapshots, [risk |-> sim.start, label |-> label, cid |-> c], outcome)
    BY DEF SimStartSnapshot, SimEndSnapshot, SimSnapshot
  <2>2. [risk |-> sim.start, label |-> label, cid |-> c] \in SnapshotRows
    BY <1>2 DEF SnapshotRows
  <2> QED BY <1>1, <2>1, <2>2 DEF Insert, TypeOK
<1>4. TypeOK'
  BY <1>1, <1>3 DEF TypeOK, Beside, memory
<1>5. MInv' /\ RowsEvidenced'
  BY <1>1, <1>3, <1>4, MemoryBesideWrites, EvidenceKept DEF BInv, Beside
<1>6. CASE outcome # "stored"
  <2>1. /\ sim' \in SimStates /\ sim'.pc \in {"sample", "done"} /\ sim'.block = sim.block + Step
        /\ sim'.det = sim.det /\ sim'.risks = sim.risks
    BY <1>1, <1>6, NextBlockIs DEF SimStartSnapshot, SimEndSnapshot, SimAttempt
  <2>2. SimNow' /\ SimBacked'
    BY <1>1, <1>3, <1>4, <2>1, BlockEnds DEF SimNow, SimBacked, BreachOnFile
  <2> QED BY <1>5, <2>1, <2>2 DEF BInv
<1>7. CASE outcome = "stored"
  <2>1. PICK pc2 \in {"open_row", "resolved_row"} :
          sim' = [sim EXCEPT !.pc = pc2] /\ (pc2 = "resolved_row" => sim.pc = "end_snapshot")
    BY <1>7 DEF SimStartSnapshot, SimEndSnapshot, SimAttempt
  <2>2. /\ sim' \in SimStates /\ sim'.pc = pc2 /\ sim'.block = sim.block /\ sim'.det = sim.det
        /\ sim'.risks = sim.risks /\ sim'.start = sim.start /\ sim'.sample = sim.sample
    BY <1>1, <2>1 DEF SimStates, SimPcs
  <2>3. SimNow'
    BY <1>1, <2>2 DEF SimNow, InThePast
  <2>4. SimBacked'
    BY <1>1, <2>1, <2>2 DEF SimBacked, Writing, BreachOnFile, LossOnFile
  <2> QED BY <1>5, <2>2, <2>3, <2>4 DEF BInv
<1> QED BY <1>6, <1>7

\* Both rows are evidenced by what the script has stored itself.
LEMMA SimRowStep ==
  ASSUME BInv, NEW outcome, SimOpenRow(outcome) \/ SimResolvedRow(outcome), Beside
  PROVE  BInv'
<1>1. /\ TypeOK /\ sim \in SimStates /\ SimNow /\ SimBacked /\ clock' = clock
      /\ sim.pc \in {"open_row", "resolved_row"} /\ UNCHANGED <<pool_samples, snapshots>>
  BY DEF BInv, MInv, SimOpenRow, SimResolvedRow, SimRow, Beside
<1>2. /\ sim.start \in DOMAIN sim.risks /\ sim.sample \in pool_samples
      /\ sim.sample.ts = sim.block
      /\ BreachOnFile(sim.start) /\ LossOnFile(sim.start, sim.risks[sim.start], sim.block)
  BY <1>1 DEF SimBacked, Writing
<1>3. /\ sim.start \in Int /\ sim.risks[sim.start] \in Nat /\ sim.block \in Int
      /\ sim.sample \in Samples /\ sim.sample.loss \in Nat
  BY <1>1, <1>2, RisksAre DEF SimStates, TypeOK, Samples
<1>4. PICK p \in pool_samples :
        /\ p.loss = sim.risks[sim.start]
        /\ p.ts >= sim.start + GracePeriod /\ p.ts <= sim.block
  BY <1>2 DEF LossOnFile
<1>5. sim.block >= sim.start + GracePeriod
  BY <1>1, <1>3, <1>4, DetectorConfig DEF TypeOK, Samples
<1>6. \/ risk_events' = risk_events
      \/ \E row \in Rows : risk_events' = Append(risk_events, row) /\ Evidenced(row)'
  <2>1. CASE SimOpenRow(outcome)
    <3>1. PICK row : row = [risk |-> sim.start, version |-> 1, state |-> "OPEN", end |-> None,
                            severity |-> sim.sample.loss]
      OBVIOUS
    <3>2. row \in Rows
      BY <1>3, <3>1 DEF Rows
    <3>3. Evidenced(row)'
      BY <1>1, <1>2, <1>5, <3>1 DEF Evidenced, BreachOnFile
    <3> QED BY <2>1, <3>1, <3>2, <3>3 DEF SimOpenRow, SimRow
  <2>2. CASE SimResolvedRow(outcome)
    <3>1. PICK severity \in Nat : severity = MaxOf(sim.risks[sim.start], sim.sample.loss)
      BY <1>3 DEF MaxOf
    <3>2. PICK row : row = [risk |-> sim.start, version |-> 2, state |-> "RESOLVED",
                            end |-> sim.sample.ts, severity |-> severity]
      OBVIOUS
    <3>3. row \in Rows
      BY <1>2, <1>3, <3>1, <3>2 DEF Rows
    <3>4. \E s \in pool_samples : /\ s.loss = severity /\ s.ts >= sim.start + GracePeriod
                                  /\ s.ts <= sim.block
      BY <1>2, <1>3, <1>4, <1>5, <3>1 DEF MaxOf
    <3>5. HealthyOnFile(sim.block)
      BY <1>1, <1>2, <2>2 DEF SimBacked, HealthyOnFile, SimResolvedRow
    <3>6. Evidenced(row)'
      BY <1>1, <1>2, <1>5, <3>2, <3>4, <3>5 DEF Evidenced, BreachOnFile, HealthyOnFile
    <3> QED BY <2>2, <3>1, <3>2, <3>3, <3>6 DEF SimResolvedRow, SimRow
  <2> QED BY <2>1, <2>2
<1>7. TypeOK'
  <2>1. risk_events' \in Seq(Rows)
    BY <1>1, <1>6, AppendProperties DEF TypeOK
  <2> QED BY <1>1, <2>1 DEF TypeOK, Beside, memory
<1>8. MInv' /\ RowsEvidenced'
  BY <1>1, <1>6, <1>7, MemoryBesideWrites, EvidenceKept DEF BInv, Beside
<1>9. /\ sim' \in SimStates /\ sim'.pc \in {"sample", "done"} /\ sim'.block = sim.block + Step
      /\ sim'.det = sim.det /\ DOMAIN sim'.risks \subseteq DOMAIN sim.risks
      /\ \A risk \in DOMAIN sim'.risks : sim'.risks[risk] = sim.risks[risk]
  BY <1>1, RowEndsBlock
<1>10. SimNow' /\ SimBacked'
  BY <1>1, <1>7, <1>9, BlockEnds DEF SimNow, SimBacked, BreachOnFile
<1> QED BY <1>8, <1>9, <1>10 DEF BInv

-----------------------------------------------------------------------------
(* The indexer's steps, beside which the script does nothing.              *)

LEMMA LiveStep ==
  ASSUME BInv, [Next]_vars, UNCHANGED sim
  PROVE  BInv' /\ Grown
<1>1. MInv /\ sim \in SimStates /\ SimNow /\ SimBacked /\ RowsEvidenced /\ TypeOK
  BY DEF BInv, MInv
<1>2. MInv' /\ Grown /\ TypeOK'
  BY <1>1, StepWrites DEF MInv
<1>3. RowsEvidenced'
  <2>1. ASSUME NEW row, RowBacked(row)'
        PROVE  Evidenced(row)'
    BY <2>1 DEF RowBacked, Evidenced, LossOnFile
  <2> QED BY <1>1, <1>2, <2>1, EvidenceKept DEF Grown
<1>4. SimNow'
  BY <1>1 DEF SimNow, InThePast
<1>5. SimBacked'
  BY <1>1, <1>2 DEF SimBacked, Writing, BreachOnFile, LossOnFile, Grown
<1> QED BY <1>1, <1>2, <1>3, <1>4, <1>5 DEF BInv

LEMMA InitBInv == BacktestInit => BInv
<1> SUFFICES ASSUME BacktestInit PROVE BInv
  OBVIOUS
<1>1. EInv /\ Init
  BY InitBacked DEF BacktestInit
<1>2. MInv /\ RowsEvidenced
  BY <1>1, BackedMeans DEF EInv, MInv, RowsEvidenced
<1>3. [risk \in {} |-> 0] \in LossMaps
  <2>1. [risk \in {} |-> 0] \in [{} -> Nat]
    OBVIOUS
  <2> QED BY <2>1 DEF LossMaps
<1>4. sim \in SimStates
  <2>1. PICK risks \in LossMaps : risks = [risk \in {} |-> 0]
    BY <1>3
  <2>2. sim = [pc |-> "sample", block |-> FromBlock, sample |-> None, det |-> Quiet, start |-> None,
               risks |-> risks]
    BY <2>1 DEF BacktestInit
  <2> QED BY <2>2, QuietType, BacktestConfig DEF SimStates, SimPcs
<1>5. SimNow /\ SimBacked
  BY DEF BacktestInit, SimNow, SimBacked, InThePast, Quiet, Writing
<1> QED BY <1>2, <1>4, <1>5 DEF BInv

LEMMA StepBInv ==
  ASSUME BInv, [LiveNext \/ SimNext]_<<vars, sim, updated>>
  PROVE  BInv'
<1>1. CASE LiveNext
  BY <1>1, LiveStep DEF LiveNext
<1>2. CASE UNCHANGED <<vars, sim, updated>>
  BY <1>2, LiveStep
<1>3. CASE SimNext
  <2>1. Beside
    BY <1>3 DEF SimNext, Beside
  <2> QED BY <1>3, <2>1, SimUnfetchedStep, SimSampleStep, SimSnapshotStep, SimRowStep DEF SimNext
<1> QED BY <1>1, <1>2, <1>3

\* Two writers that share nothing but the tables leave no row, of either, that
\* samples on file do not bear out: in its severity, its start or its end.
THEOREM RowsBorneOut == BacktestSpec => []RowsEvidenced
<1>1. BInv => RowsEvidenced
  BY DEF BInv
<1> QED BY <1>1, InitBInv, StepBInv, PTL DEF BacktestSpec

-----------------------------------------------------------------------------
(* What a reader is shown of a risk is the row that comes last by version, *)
(* updated_at and place.  Of two tables, the rows and their updated_at.    *)

\* Row k does not come after row j.
NotNewer(rows, at, k, j) ==
  \/ rows[k].version < rows[j].version
  \/ /\ rows[k].version = rows[j].version
     /\ at[k] < at[j] \/ (at[k] = at[j] /\ k <= j)

IsShown(rows, at, j) ==
  \A k \in DOMAIN rows : rows[k].risk = rows[j].risk => NotNewer(rows, at, k, j)

ShowsEach(rows, at) ==
  \A i \in DOMAIN rows : \E j \in DOMAIN rows :
    rows[j].risk = rows[i].risk /\ IsShown(rows, at, j)

LEMMA TablesAre ==
  ASSUME NEW rows \in Seq(Rows), NEW at \in Seq(Int), Len(at) = Len(rows)
  PROVE  /\ DOMAIN at = DOMAIN rows
         /\ \A i \in DOMAIN rows : i \in Int /\ rows[i] \in Rows /\ rows[i].version \in Nat
                                   /\ at[i] \in Int
<1>1. DOMAIN rows = 1..Len(rows) /\ DOMAIN at = 1..Len(at) /\ Len(rows) \in Nat
  BY LenProperties
<1>2. \A i \in DOMAIN rows : rows[i] \in Rows
  BY ElementOfSeq
<1>3. \A i \in DOMAIN at : at[i] \in Int
  BY ElementOfSeq
<1> QED BY <1>1, <1>2, <1>3 DEF Rows

\* The query answers with that row.
LEMMA ShownIs ==
  ASSUME NEW rows \in Seq(Rows), NEW at \in Seq(Int), Len(at) = Len(rows),
         NEW j \in DOMAIN rows, IsShown(rows, at, j)
  PROVE  LatestAt(rows, at, rows[j].risk) = rows[j]
<1>1. \A i \in DOMAIN rows : i \in Int /\ rows[i].version \in Nat /\ at[i] \in Int
  BY TablesAre
<1>2. rows[j] \in FinalAt(rows, at)
  BY <1>1 DEF FinalAt, KeptAt, SameKey, IsShown, NotNewer
<1>3. \A q \in FinalAt(rows, at) : q.risk = rows[j].risk => q.version <= rows[j].version
  BY <1>1 DEF FinalAt, KeptAt, IsShown, NotNewer
<1>4. ASSUME NEW r \in FinalAt(rows, at), r.risk = rows[j].risk,
             \A q \in FinalAt(rows, at) : q.risk = rows[j].risk => q.version <= r.version
      PROVE  r = rows[j]
  <2>1. PICK i \in KeptAt(rows, at) : r = rows[i]
    BY DEF FinalAt
  <2>2. i \in DOMAIN rows
    BY <2>1 DEF KeptAt
  <2>3. rows[i].version = rows[j].version
    BY <1>1, <1>2, <1>3, <1>4, <2>1, <2>2
  <2>4. at[j] < at[i] \/ (at[j] = at[i] /\ j <= i)
    BY <1>4, <2>1, <2>2, <2>3 DEF KeptAt, SameKey
  <2>5. at[i] < at[j] \/ (at[i] = at[j] /\ i <= j)
    BY <1>1, <1>4, <2>1, <2>2, <2>3 DEF IsShown, NotNewer
  <2> QED BY <1>1, <2>1, <2>2, <2>4, <2>5
<1> QED BY <1>2, <1>3, <1>4 DEF LatestAt, LatestOf

LEMMA AppendBoth ==
  ASSUME NEW rows \in Seq(Rows), NEW at \in Seq(Int), Len(at) = Len(rows),
         NEW row \in Rows, NEW time \in Int,
         NEW new, new = Append(rows, row), NEW newAt, newAt = Append(at, time)
  PROVE  /\ new \in Seq(Rows) /\ newAt \in Seq(Int) /\ Len(newAt) = Len(new)
         /\ \A i \in DOMAIN rows : i \in DOMAIN new /\ new[i] = rows[i] /\ newAt[i] = at[i]
         /\ \E n \in DOMAIN new : /\ n \notin DOMAIN rows /\ new[n] = row /\ newAt[n] = time
                                  /\ \A i \in DOMAIN new : i \in DOMAIN rows \/ i = n
                                  /\ \A i \in DOMAIN rows : i < n
<1>1. /\ new \in Seq(Rows) /\ Len(new) = Len(rows) + 1 /\ new[Len(rows) + 1] = row
      /\ \A i \in 1..Len(rows) : new[i] = rows[i]
  BY AppendProperties
<1>2. /\ newAt \in Seq(Int) /\ Len(newAt) = Len(at) + 1 /\ newAt[Len(at) + 1] = time
      /\ \A i \in 1..Len(at) : newAt[i] = at[i]
  BY AppendProperties
<1>3. DOMAIN rows = 1..Len(rows) /\ DOMAIN new = 1..(Len(rows) + 1) /\ Len(rows) \in Nat
  BY <1>1, LenProperties
<1>4. PICK n : n = Len(rows) + 1
  OBVIOUS
<1>5. /\ n \in DOMAIN new /\ n \notin DOMAIN rows /\ new[n] = row /\ newAt[n] = time
      /\ \A i \in DOMAIN new : i \in DOMAIN rows \/ i = n
      /\ \A i \in DOMAIN rows : i < n
  BY <1>1, <1>2, <1>3, <1>4
<1>6. \A i \in DOMAIN rows : i \in DOMAIN new /\ new[i] = rows[i] /\ newAt[i] = at[i]
  BY <1>1, <1>2, <1>3
<1>7. Len(newAt) = Len(new)
  BY <1>1, <1>2
<1> QED BY <1>1, <1>2, <1>5, <1>6, <1>7

\* A row goes on being shown when what is added is not newer.
LEMMA ShownStays ==
  ASSUME NEW rows \in Seq(Rows), NEW at \in Seq(Int), Len(at) = Len(rows),
         NEW row \in Rows, NEW time \in Int,
         NEW new, new = Append(rows, row), NEW newAt, newAt = Append(at, time),
         NEW j \in DOMAIN rows, IsShown(rows, at, j),
         row.risk = rows[j].risk =>
           \/ row.version < rows[j].version
           \/ row.version = rows[j].version /\ time < at[j]
  PROVE  j \in DOMAIN new /\ new[j] = rows[j] /\ IsShown(new, newAt, j)
<1>1. \A i \in DOMAIN rows : i \in DOMAIN new /\ new[i] = rows[i] /\ newAt[i] = at[i]
  BY AppendBoth
<1>2. PICK n \in DOMAIN new : /\ new[n] = row /\ newAt[n] = time
                              /\ \A i \in DOMAIN new : i \in DOMAIN rows \/ i = n
  BY AppendBoth
<1>3. ASSUME NEW k \in DOMAIN new, new[k].risk = new[j].risk
      PROVE  NotNewer(new, newAt, k, j)
  BY <1>1, <1>2, <1>3 DEF IsShown, NotNewer
<1> QED BY <1>1, <1>3 DEF IsShown

\* Of the rows of each risk there is always one that is shown.
LEMMA ShowsEachStays ==
  ASSUME NEW rows \in Seq(Rows), NEW at \in Seq(Int), Len(at) = Len(rows),
         NEW row \in Rows, NEW time \in Int,
         NEW new, new = Append(rows, row), NEW newAt, newAt = Append(at, time),
         ShowsEach(rows, at)
  PROVE  ShowsEach(new, newAt)
<1>1. \A i \in DOMAIN rows : i \in DOMAIN new /\ new[i] = rows[i] /\ newAt[i] = at[i]
  BY AppendBoth
<1>2. PICK n \in DOMAIN new : /\ new[n] = row /\ newAt[n] = time
                              /\ \A i \in DOMAIN new : i \in DOMAIN rows \/ i = n
                              /\ \A i \in DOMAIN rows : i < n
  BY AppendBoth
<1>3. /\ \A i \in DOMAIN rows : i \in Int /\ rows[i].version \in Nat /\ at[i] \in Int
      /\ row.version \in Nat
  BY TablesAre DEF Rows
<1>4. \E j \in DOMAIN new : new[j].risk = row.risk /\ IsShown(new, newAt, j)
  <2>1. CASE \A k \in DOMAIN rows : rows[k].risk # row.risk
    <3>1. IsShown(new, newAt, n)
      <4> SUFFICES ASSUME NEW k \in DOMAIN new, new[k].risk = new[n].risk
                   PROVE  NotNewer(new, newAt, k, n)
        BY DEF IsShown
      <4>1. k = n
        BY <1>1, <1>2, <2>1
      <4>2. n \in Int
        <5>1. new \in Seq(Rows)
          BY AppendBoth
        <5> QED BY <5>1, LenProperties
      <4> QED BY <4>1, <4>2 DEF NotNewer
    <3> QED BY <1>2, <3>1
  <2>2. CASE \E k \in DOMAIN rows : rows[k].risk = row.risk
    <3>1. PICK j \in DOMAIN rows : rows[j].risk = row.risk /\ IsShown(rows, at, j)
      BY <2>2 DEF ShowsEach
    <3>2. CASE row.version < rows[j].version \/ (row.version = rows[j].version /\ time < at[j])
      <4>1. row.risk = rows[j].risk => \/ row.version < rows[j].version
                                       \/ row.version = rows[j].version /\ time < at[j]
        BY <3>2
      <4>2. j \in DOMAIN new /\ new[j] = rows[j] /\ IsShown(new, newAt, j)
        BY <3>1, <4>1, ShownStays, Zenon
      <4> QED BY <3>1, <4>2
    <3>3. CASE row.version > rows[j].version \/ (row.version = rows[j].version /\ at[j] <= time)
      <4>1. n \in Int /\ n <= n
        <5>1. new \in Seq(Rows)
          BY AppendBoth
        <5>2. n \in Int
          BY <5>1, LenProperties
        <5> QED BY <5>2
      <4>2. ASSUME NEW k \in DOMAIN rows, rows[k].risk = row.risk
            PROVE  NotNewer(new, newAt, k, n)
        <5>1. NotNewer(rows, at, k, j)
          BY <3>1, <4>2 DEF IsShown
        <5>2. /\ new[k] = rows[k] /\ newAt[k] = at[k] /\ k < n /\ k \in Int
              /\ rows[k].version \in Nat /\ at[k] \in Int
          BY <1>1, <1>2, <1>3
        <5>3. /\ new[n] = row /\ newAt[n] = time /\ row.version \in Nat
              /\ rows[j].version \in Nat /\ at[j] \in Int
          BY <1>2, <1>3
        <5>4. \/ rows[k].version < row.version
              \/ rows[k].version = row.version /\ at[k] <= time
          <6>1. \/ rows[k].version < rows[j].version
                \/ rows[k].version = rows[j].version /\ at[k] <= at[j]
            BY <5>1, <5>2, <5>3 DEF NotNewer
          <6>2. CASE row.version > rows[j].version
            BY <5>2, <5>3, <6>1, <6>2
          <6>3. CASE row.version = rows[j].version /\ at[j] <= time
            BY <5>2, <5>3, <6>1, <6>3
          <6> QED BY <3>3, <6>2, <6>3
        <5>5. at[k] <= time => at[k] < time \/ (at[k] = time /\ k <= n)
          BY <4>1, <5>2
        <5> QED BY <5>2, <5>3, <5>4, <5>5 DEF NotNewer
      <4>3. NotNewer(new, newAt, n, n)
        BY <4>1 DEF NotNewer
      <4>4. IsShown(new, newAt, n)
        BY <1>1, <1>2, <4>2, <4>3 DEF IsShown
      <4> QED BY <1>2, <4>4
    <3>4. time \in Int /\ at[j] \in Int /\ row.version \in Nat /\ rows[j].version \in Nat
      BY <1>3
    <3> QED BY <3>2, <3>3, <3>4
  <2> QED BY <2>1, <2>2
<1>5. ASSUME NEW i \in DOMAIN rows, rows[i].risk # row.risk
      PROVE  \E j \in DOMAIN new : new[j].risk = rows[i].risk /\ IsShown(new, newAt, j)
  <2>1. PICK j \in DOMAIN rows : rows[j].risk = rows[i].risk /\ IsShown(rows, at, j)
    BY DEF ShowsEach
  <2>2. row.risk = rows[j].risk => \/ row.version < rows[j].version
                                   \/ row.version = rows[j].version /\ time < at[j]
    BY <1>5, <2>1
  <2>3. j \in DOMAIN new /\ new[j] = rows[j] /\ IsShown(new, newAt, j)
    BY <2>1, <2>2, ShownStays, Zenon
  <2> QED BY <2>1, <2>3
<1>6. ASSUME NEW i \in DOMAIN new
      PROVE  \E j \in DOMAIN new : new[j].risk = new[i].risk /\ IsShown(new, newAt, j)
  <2>1. CASE new[i].risk = row.risk
    BY <1>4, <2>1
  <2>2. CASE new[i].risk # row.risk
    BY <1>1, <1>2, <1>5, <2>2
  <2> QED BY <2>1, <2>2
<1> QED BY <1>6 DEF ShowsEach

-----------------------------------------------------------------------------
(* Versions.  The indexer resolves with a version of 3 or more, the script *)
(* with 2, and only runs of breaches later than all that it has resolved.  *)

\* The indexer has taken two versions of an event before it resolves it.
EventVersions ==
  currentEvent # None =>
    /\ currentEvent.version >= 1
    /\ pc # "persist_start" => currentEvent.version >= 2
    /\ pc \in {"end_snapshot", "persist_end"} => currentEvent.version >= 3

\* The rows that only the script can have written, and what it may still close.
ClosedEarlier ==
  \A i \in DOMAIN risk_events : LET r == risk_events[i] IN
    r.state = "RESOLVED" =>
      /\ r.version >= 2
      /\ r.version = 2 =>
           /\ r.risk < sim.block
           /\ sim.det.lastBreachAt # None => r.risk < sim.det.lastBreachAt
           /\ sim.pc \in {"end_snapshot", "resolved_row"} => r.risk < sim.start

ClosesLater ==
  sim.pc \in {"end_snapshot", "resolved_row"} => sim.start < sim.block /\ sim.det = Quiet

Dated ==
  /\ updated \in Seq(Int) /\ Len(updated) = Len(risk_events)
  /\ ShowsEach(risk_events, updated)

CInv == BInv /\ EventVersions /\ ClosedEarlier /\ ClosesLater /\ Dated

LEMMA PersistVersions ==
  ASSUME TypeOK, NEW state, NEW end, NEW severity, NEW outcome, currentEvent # None,
         PersistEvent(state, end, severity, outcome)
  PROVE  /\ currentEvent'.version = currentEvent.version + 1
         /\ currentEvent.version \in Nat
BY DEF PersistEvent, TypeOK, Events

LEMMA StepEventVersions ==
  ASSUME TypeOK, EventVersions, [Next]_vars
  PROVE  EventVersions'
<1>1. currentEvent # None => currentEvent \in Events /\ currentEvent.version \in Nat
  BY DEF TypeOK, Events
<1>2. CASE StartPoll \/ Crash
  BY <1>2 DEF StartPoll, Crash, EventVersions
<1>3. ASSUME NEW outcome, InsertSample(outcome)
      PROVE  EventVersions'
  <2>1. CASE currentEvent = None
    <3>1. currentEvent' = None
      BY <1>3, <2>1 DEF InsertSample
    <3> QED BY <3>1 DEF EventVersions
  <2>2. CASE currentEvent # None
    <3>1. currentEvent' # None => currentEvent'.version = currentEvent.version
      BY <1>1, <1>3, <2>2 DEF InsertSample, Events
    <3>2. pc = "insert_sample" /\ pc' \in {"sleep", "persist_open"}
      BY <1>3, <2>2 DEF InsertSample, GoTo
    <3> QED BY <2>2, <3>1, <3>2 DEF EventVersions
  <2> QED BY <2>1, <2>2
<1>4. ASSUME NEW outcome, PersistOpen(outcome)
      PROVE  EventVersions'
  <2>1. pc = "persist_open" /\ currentEvent # None /\ pc' # "persist_start"
    BY <1>4 DEF PersistOpen, FeedDetector, GoTo, TypeOK
  <2>2. currentEvent'.version = currentEvent.version + 1
    BY <1>4, <2>1, PersistVersions DEF PersistOpen
  <2>3. currentEvent'.version >= 3
    BY <1>1, <2>1, <2>2 DEF EventVersions
  <2>4. currentEvent'.version >= 1 /\ currentEvent'.version >= 2
    BY <1>1, <2>1, <2>2 DEF EventVersions
  <2> QED BY <2>3, <2>4 DEF EventVersions
<1>5. ASSUME NEW outcome, NEW c, StartSnapshot(outcome, c)
      PROVE  EventVersions'
  BY <1>5 DEF StartSnapshot, GoTo, EventVersions
<1>6. ASSUME NEW outcome, PersistStart(outcome)
      PROVE  EventVersions'
  <2>1. pc = "persist_start" /\ currentEvent # None /\ pc' \in {"emit_start", "sleep"}
    BY <1>6 DEF PersistStart, GoTo, TypeOK
  <2>2. currentEvent'.version = currentEvent.version + 1
    BY <1>6, <2>1, PersistVersions DEF PersistStart
  <2> QED BY <1>1, <2>1, <2>2 DEF EventVersions
<1>7. ASSUME NEW outcome, NEW c, EndSnapshot(outcome, c)
      PROVE  EventVersions'
  BY <1>7 DEF EndSnapshot, GoTo, EventVersions
<1>8. ASSUME NEW outcome, PersistEnd(outcome)
      PROVE  EventVersions'
  <2>1. pc = "persist_end" /\ currentEvent # None /\ pc' \in {"emit_end", "sleep"}
    BY <1>8 DEF PersistEnd, GoTo, TypeOK
  <2>2. currentEvent'.version = currentEvent.version + 1
    BY <1>8, <2>1, PersistVersions DEF PersistEnd
  <2> QED BY <1>1, <2>1, <2>2 DEF EventVersions
<1>9. ASSUME NEW delivered, EmitStart(delivered) \/ EmitEnd(delivered)
      PROVE  EventVersions'
  BY <1>9 DEF EmitStart, EmitEnd, GoTo, EventVersions
<1>10. CASE UNCHANGED vars
  BY <1>10 DEF vars, memory, EventVersions
<1> QED
  BY <1>2, <1>3, <1>4, <1>5, <1>6, <1>7, <1>8, <1>9, <1>10 DEF Next, Answer

\* What is closed stays so, whatever row is added that is not a resolution of
\* the script's.
LEMMA ClosedStay ==
  ASSUME TypeOK, ClosedEarlier, sim \in SimStates, sim' \in SimStates,
         sim.block <= sim'.block,
         \A r \in Rows : /\ r.risk < sim.block
                         /\ sim.det.lastBreachAt # None => r.risk < sim.det.lastBreachAt
                         /\ sim.pc \in {"end_snapshot", "resolved_row"} => r.risk < sim.start
           => /\ sim'.det.lastBreachAt # None => r.risk < sim'.det.lastBreachAt
              /\ sim'.pc \in {"end_snapshot", "resolved_row"} => r.risk < sim'.start,
         \/ risk_events' = risk_events
         \/ \E row \in Rows : /\ risk_events' = Append(risk_events, row)
                              /\ row.state = "RESOLVED" => row.version >= 3
  PROVE  ClosedEarlier'
<1>1. /\ \A i \in DOMAIN risk_events : risk_events[i] \in Rows /\ risk_events[i].risk \in Int
      /\ sim.block \in Int /\ sim'.block \in Int
  <2>1. \A i \in DOMAIN risk_events : risk_events[i] \in Rows
    BY ElementOfSeq DEF TypeOK
  <2> QED BY <2>1 DEF Rows, SimStates
<1>2. ASSUME NEW i \in DOMAIN risk_events, risk_events[i].state = "RESOLVED"
      PROVE  /\ risk_events[i].version >= 2
             /\ risk_events[i].version = 2 =>
                  /\ risk_events[i].risk < sim'.block
                  /\ sim'.det.lastBreachAt # None => risk_events[i].risk < sim'.det.lastBreachAt
                  /\ sim'.pc \in {"end_snapshot", "resolved_row"} => risk_events[i].risk < sim'.start
  <2>1. PICK r \in Rows : r = risk_events[i] /\ r.risk \in Int
    BY <1>1
  <2>2. r.risk < sim.block /\ sim.block <= sim'.block => r.risk < sim'.block
    BY <1>1, <2>1
  <2> QED BY <1>2, <2>1, <2>2 DEF ClosedEarlier
<1>3. CASE risk_events' = risk_events
  BY <1>2, <1>3 DEF ClosedEarlier
<1>4. CASE risk_events' # risk_events
  <2>1. PICK row \in Rows : /\ risk_events' = Append(risk_events, row)
                            /\ row.state = "RESOLVED" => row.version >= 3
    BY <1>4
  <2>2. \A i \in DOMAIN risk_events' :
          \/ i \in DOMAIN risk_events /\ risk_events'[i] = risk_events[i]
          \/ risk_events'[i] = row
    BY <2>1, AppendAll DEF TypeOK
  <2>3. row.version \in Nat
    BY DEF Rows
  <2> QED BY <1>2, <2>1, <2>2, <2>3 DEF ClosedEarlier
<1> QED BY <1>3, <1>4

\* A row is added together with its date, or neither.
LEMMA DatedStays ==
  ASSUME TypeOK, Dated,
         \/ UNCHANGED <<risk_events, updated>>
         \/ \E row \in Rows, time \in Int : /\ risk_events' = Append(risk_events, row)
                                            /\ updated' = Append(updated, time)
  PROVE  Dated'
<1>1. CASE UNCHANGED <<risk_events, updated>>
  BY <1>1 DEF Dated
<1>2. CASE ~UNCHANGED <<risk_events, updated>>
  <2>1. PICK row \in Rows, time \in Int : /\ risk_events' = Append(risk_events, row)
                                          /\ updated' = Append(updated, time)
    BY <1>2
  <2>2. PICK new, newAt : new = risk_events' /\ newAt = updated'
    OBVIOUS
  <2>3. risk_events \in Seq(Rows) /\ updated \in Seq(Int) /\ Len(updated) = Len(risk_events)
    BY DEF TypeOK, Dated
  <2>4. newAt \in Seq(Int) /\ Len(newAt) = Len(new)
    BY <2>1, <2>2, <2>3, AppendBoth
  <2>5. ShowsEach(new, newAt)
    BY <2>1, <2>2, <2>3, ShowsEachStays DEF Dated
  <2> QED BY <2>2, <2>4, <2>5 DEF Dated
<1> QED BY <1>1, <1>2

\* Neither the indexer's rows nor the script's disturb that order.
LEMMA LiveVersions ==
  ASSUME CInv, LiveNext \/ UNCHANGED <<vars, sim, updated>>
  PROVE  EventVersions' /\ ClosedEarlier' /\ ClosesLater' /\ Dated'
<1>1. /\ TypeOK /\ EventVersions /\ ClosedEarlier /\ ClosesLater /\ Dated /\ sim \in SimStates
      /\ sim' = sim /\ [Next]_vars
  BY DEF CInv, BInv, MInv, LiveNext
<1>2. EventVersions'
  BY <1>1, StepEventVersions
<1>3. ClosesLater'
  BY <1>1 DEF ClosesLater
<1>4. \/ risk_events' = risk_events
      \/ \E row \in Rows : /\ risk_events' = Append(risk_events, row)
                           /\ row.state = "RESOLVED" => row.version >= 3
  BY <1>1, RowsWritten DEF EventVersions
<1>5. ClosedEarlier'
  <2>1. sim.block <= sim.block
    BY <1>1 DEF SimStates
  <2> QED BY <1>1, <1>4, <2>1, ClosedStay
<1>6. \/ UNCHANGED <<risk_events, updated>>
      \/ \E row \in Rows, time \in Int : /\ risk_events' = Append(risk_events, row)
                                         /\ updated' = Append(updated, time)
  <2>1. CASE risk_events' = risk_events
    BY <2>1 DEF LiveNext
  <2>2. CASE risk_events' # risk_events
    <3>1. PICK time \in Int : updated' = Append(updated, time)
      <4>1. PICK time \in clock..(clock + 1) : updated' = Append(updated, time)
        BY <2>2 DEF LiveNext, vars, tables
      <4> QED BY <1>1, <4>1 DEF TypeOK
    <3> QED BY <1>4, <2>2, <3>1
  <2> QED BY <2>1, <2>2
<1>7. Dated'
  BY <1>1, <1>6, DatedStays
<1> QED BY <1>2, <1>3, <1>5, <1>7

\* A step of the script that writes no row.
LEMMA SimReadVersions ==
  ASSUME CInv, BInv', Beside, UNCHANGED <<risk_events, updated>>,
         \/ SimUnfetched
         \/ \E outcome \in SimOutcomes :
              SimSample(outcome) \/ SimStartSnapshot(outcome) \/ SimEndSnapshot(outcome)
  PROVE  EventVersions' /\ ClosedEarlier' /\ ClosesLater' /\ Dated'
<1>1. /\ TypeOK /\ EventVersions /\ ClosedEarlier /\ ClosesLater /\ Dated /\ SimNow
      /\ sim \in SimStates /\ sim' \in SimStates
      /\ sim.block \in Int /\ sim.det \in DetectorState
  BY DEF CInv, BInv, MInv, SimStates
<1>2. EventVersions'
  BY <1>1 DEF EventVersions, Beside, memory
<1>3. Dated'
  BY <1>1, DatedStays
<1>4. sim.block + Step \in Int /\ sim.block < sim.block + Step
  BY <1>1, BacktestConfig
<1>5. \/ /\ sim'.pc \in {"sample", "done"} /\ sim'.block = sim.block + Step /\ sim'.det = sim.det
      \/ /\ sim.pc = "end_snapshot" /\ sim'.pc = "resolved_row" /\ sim'.block = sim.block
         /\ sim'.det = sim.det /\ sim'.start = sim.start
      \/ /\ sim'.pc = "open_row" /\ sim'.block = sim.block /\ sim'.det = sim.det
      \/ /\ sim.pc = "sample"
         /\ \E rBps \in Int :
              /\ sim'.det = AfterSample(sim.det, sim.block, rBps)
              /\ \/ sim'.pc \in {"sample", "done"} /\ sim'.block = sim.block + Step
                 \/ sim'.pc = "start_snapshot" /\ sim'.block = sim.block
                 \/ /\ sim'.pc = "end_snapshot" /\ sim'.block = sim.block
                    /\ sim'.start = sim.det.windowStart /\ Closes(sim.det, rBps)
  <2>1. CASE sim' = NextBlock(sim)
    BY <1>1, <2>1, NextBlockIs
  <2>2. ASSUME NEW outcome, SimSample(outcome), sim' # NextBlock(sim)
        PROVE  /\ sim.pc = "sample"
               /\ \E rBps \in Int :
                    /\ sim'.det = AfterSample(sim.det, sim.block, rBps)
                    /\ \/ sim'.pc \in {"sample", "done"} /\ sim'.block = sim.block + Step
                       \/ sim'.pc = "start_snapshot" /\ sim'.block = sim.block
                       \/ /\ sim'.pc = "end_snapshot" /\ sim'.block = sim.block
                          /\ sim'.start = sim.det.windowStart /\ Closes(sim.det, rBps)
    <3>1. PICK rBps \in Ratios, loss \in Losses :
            sim' = Detected([ts |-> sim.block, rBps |-> rBps, loss |-> loss])
      BY <2>2 DEF SimSample, SimAttempt
    <3>2. PICK read : read = [ts |-> sim.block, rBps |-> rBps, loss |-> loss]
      OBVIOUS
    <3>3. read \in Samples /\ read.ts = sim.block /\ read.rBps = rBps /\ rBps \in Int
      BY <1>1, <3>2, IndexerConfig DEF Samples
    <3>4. sim' = Detected(read)
      BY <3>1, <3>2
    <3>5. sim.pc = "sample"
      BY <2>2 DEF SimSample
    <3> QED BY <1>1, <3>3, <3>4, <3>5, DetectedIs
  <2>3. ASSUME NEW outcome, SimStartSnapshot(outcome), sim' # NextBlock(sim)
        PROVE  sim'.pc = "open_row" /\ sim'.block = sim.block /\ sim'.det = sim.det
    BY <1>1, <2>3 DEF SimStartSnapshot, SimAttempt, SimStates
  <2>4. ASSUME NEW outcome, SimEndSnapshot(outcome), sim' # NextBlock(sim)
        PROVE  /\ sim.pc = "end_snapshot" /\ sim'.pc = "resolved_row" /\ sim'.block = sim.block
               /\ sim'.det = sim.det /\ sim'.start = sim.start
    BY <1>1, <2>4 DEF SimEndSnapshot, SimAttempt, SimStates
  <2> QED BY <2>1, <2>2, <2>3, <2>4 DEF SimUnfetched
<1>6. sim.block <= sim'.block
  BY <1>1, <1>4, <1>5
<1>7. sim.pc = "sample" /\ sim.det.active
        => /\ sim.det.windowStart = sim.det.lastBreachAt /\ sim.det.lastBreachAt # None
           /\ sim.det.lastBreachAt < sim.block
  BY <1>1, NoneIsNotATime DEF SimNow, DetectorState
<1>8. ClosesLater'
  <2>1. CASE sim'.pc \notin {"end_snapshot", "resolved_row"}
    BY <2>1 DEF ClosesLater
  <2>2. CASE sim'.pc = "resolved_row"
    BY <1>1, <1>5, <2>2 DEF ClosesLater
  <2>3. CASE sim'.pc = "end_snapshot"
    <3>1. PICK rBps \in Int : /\ sim'.det = AfterSample(sim.det, sim.block, rBps)
                              /\ sim'.block = sim.block /\ sim'.start = sim.det.windowStart
                              /\ Closes(sim.det, rBps) /\ sim.pc = "sample"
      BY <1>5, <2>3
    <3> QED BY <1>1, <1>7, <3>1 DEF ClosesLater, Closes, AfterSample
  <2> QED BY <2>1, <2>2, <2>3
<1>9. ASSUME NEW r \in Rows, r.risk < sim.block,
             sim.det.lastBreachAt # None => r.risk < sim.det.lastBreachAt,
             sim.pc \in {"end_snapshot", "resolved_row"} => r.risk < sim.start
      PROVE  /\ sim'.det.lastBreachAt # None => r.risk < sim'.det.lastBreachAt
             /\ sim'.pc \in {"end_snapshot", "resolved_row"} => r.risk < sim'.start
  <2>1. CASE sim'.det = sim.det /\ (sim'.pc \in {"end_snapshot", "resolved_row"} =>
                                      sim.pc = "end_snapshot" /\ sim'.start = sim.start)
    BY <1>9, <2>1
  <2>2. ASSUME NEW rBps \in Int, sim'.det = AfterSample(sim.det, sim.block, rBps)
        PROVE  sim'.det.lastBreachAt # None => r.risk < sim'.det.lastBreachAt
    <3>1. CASE ~Breach(rBps)
      BY <1>1, <2>2, <3>1, AfterSampleFields DEF Quiet
    <3>2. CASE Breach(rBps)
      <4>1. sim'.det.lastBreachAt = FirstBreach(sim.det, sim.block)
        BY <1>1, <2>2, <3>2, AfterSampleFields
      <4> QED BY <1>9, <4>1 DEF FirstBreach
    <3> QED BY <3>1, <3>2
  <2>3. ASSUME NEW rBps \in Int, sim.pc = "sample", sim'.start = sim.det.windowStart,
               Closes(sim.det, rBps)
        PROVE  r.risk < sim'.start
    BY <1>7, <1>9, <2>3 DEF Closes
  <2> QED BY <1>5, <2>1, <2>2, <2>3
<1>10. ClosedEarlier'
  BY <1>1, <1>6, <1>9, ClosedStay
<1> QED BY <1>2, <1>3, <1>8, <1>10

\* The rows of the script, and their dates.
LEMMA ScriptRows ==
  ASSUME BInv, NEW outcome, SimOpenRow(outcome) \/ SimResolvedRow(outcome)
  PROVE  \/ UNCHANGED <<risk_events, updated>>
         \/ \E row \in Rows : /\ risk_events' = Append(risk_events, row)
                              /\ updated' = Append(updated, sim.block)
                              /\ \/ row.state = "OPEN" /\ row.version = 1
                                 \/ /\ sim.pc = "resolved_row" /\ row.version = 2
                                    /\ row.risk = sim.start
<1>1. sim.pc \in {"open_row", "resolved_row"}
  BY DEF SimOpenRow, SimResolvedRow
<1>2. /\ sim \in SimStates /\ sim.start \in DOMAIN sim.risks /\ sim.sample \in Samples
  BY <1>1 DEF BInv, MInv, TypeOK, SimBacked, Writing
<1>3. /\ sim.start \in Int /\ sim.risks[sim.start] \in Nat
      /\ sim.sample.loss \in Nat /\ sim.sample.ts \in Int
  BY <1>2, RisksAre DEF Samples
<1>4. CASE SimOpenRow(outcome)
  <2>1. PICK row : row = [risk |-> sim.start, version |-> 1, state |-> "OPEN", end |-> None,
                          severity |-> sim.sample.loss]
    OBVIOUS
  <2>2. row \in Rows /\ row.state = "OPEN" /\ row.version = 1
    BY <1>3, <2>1 DEF Rows
  <2> QED BY <1>4, <2>1, <2>2 DEF SimOpenRow, SimRow
<1>5. CASE SimResolvedRow(outcome)
  <2>1. PICK severity \in Nat : severity = MaxOf(sim.risks[sim.start], sim.sample.loss)
    BY <1>3 DEF MaxOf
  <2>2. PICK row : row = [risk |-> sim.start, version |-> 2, state |-> "RESOLVED",
                          end |-> sim.sample.ts, severity |-> severity]
    OBVIOUS
  <2>3. row \in Rows /\ row.version = 2 /\ row.risk = sim.start
    BY <1>3, <2>1, <2>2 DEF Rows
  <2> QED BY <1>5, <2>1, <2>2, <2>3 DEF SimResolvedRow, SimRow
<1> QED BY <1>4, <1>5

\* A step of the script that may write a row: a version 1 or, for a run that is
\* later than all it has resolved, a 2.
LEMMA SimWriteVersions ==
  ASSUME CInv, BInv', Beside, NEW outcome, SimOpenRow(outcome) \/ SimResolvedRow(outcome)
  PROVE  EventVersions' /\ ClosedEarlier' /\ ClosesLater' /\ Dated'
<1>1. /\ TypeOK /\ EventVersions /\ ClosedEarlier /\ ClosesLater /\ Dated
      /\ sim \in SimStates /\ sim' \in SimStates
      /\ sim.block \in Int /\ sim.start \in Int
  <2>1. sim.pc \in {"open_row", "resolved_row"}
    BY DEF SimOpenRow, SimResolvedRow
  <2>2. sim \in SimStates /\ sim.start \in DOMAIN sim.risks
    BY <2>1 DEF CInv, BInv, SimBacked, Writing
  <2> QED BY <2>2, RisksAre DEF CInv, BInv, MInv, SimStates
<1>2. EventVersions'
  BY <1>1 DEF EventVersions, Beside, memory
<1>3. /\ sim'.pc \in {"sample", "done"} /\ sim.block <= sim'.block /\ sim.block < sim'.block
      /\ sim'.det = sim.det
  <2>1. sim'.pc \in {"sample", "done"} /\ sim'.block = sim.block + Step /\ sim'.det = sim.det
    BY <1>1, RowEndsBlock
  <2> QED BY <1>1, <2>1, BacktestConfig
<1>4. ClosesLater'
  BY <1>3 DEF ClosesLater
<1>5. \/ UNCHANGED <<risk_events, updated>>
      \/ \E row \in Rows : /\ risk_events' = Append(risk_events, row)
                           /\ updated' = Append(updated, sim.block)
                           /\ \/ row.state = "OPEN"
                              \/ /\ sim.pc = "resolved_row" /\ row.version = 2
                                 /\ row.risk = sim.start
  BY ScriptRows DEF CInv
<1>6. Dated'
  BY <1>1, <1>5, DatedStays
<1>7. ClosedEarlier'
  <2>1. CASE UNCHANGED <<risk_events, updated>>
    BY <1>1, <1>3, <2>1, ClosedStay
  <2>2. ASSUME NEW row \in Rows, risk_events' = Append(risk_events, row), row.state = "OPEN"
        PROVE  ClosedEarlier'
    BY <1>1, <1>3, <2>2, ClosedStay
  <2>3. ASSUME NEW row \in Rows, risk_events' = Append(risk_events, row),
               sim.pc = "resolved_row", row.version = 2, row.risk = sim.start
        PROVE  ClosedEarlier'
    <3>1. sim.start < sim.block /\ sim.det = Quiet
      BY <1>1, <2>3 DEF ClosesLater
    <3>2. \A i \in DOMAIN risk_events :
            risk_events[i] \in Rows /\ risk_events[i].risk \in Int
      <4>1. \A i \in DOMAIN risk_events : risk_events[i] \in Rows
        BY <1>1, ElementOfSeq DEF TypeOK
      <4> QED BY <4>1 DEF Rows
    <3>3. \A i \in DOMAIN risk_events' :
            \/ i \in DOMAIN risk_events /\ risk_events'[i] = risk_events[i]
            \/ risk_events'[i] = row
      BY <1>1, <2>3, AppendAll DEF TypeOK
    <3>4. sim'.block \in Int /\ sim.start < sim'.block
      BY <1>1, <1>3, <3>1 DEF SimStates
    <3>5. sim'.det.lastBreachAt = None
      BY <1>3, <3>1 DEF Quiet
    <3>6. ASSUME NEW i \in DOMAIN risk_events, risk_events[i].state = "RESOLVED"
          PROVE  /\ risk_events[i].version >= 2
                 /\ risk_events[i].version = 2 => risk_events[i].risk < sim'.block
      BY <1>1, <1>3, <3>2, <3>4, <3>6 DEF ClosedEarlier
    <3> QED BY <1>3, <2>3, <3>3, <3>4, <3>5, <3>6 DEF ClosedEarlier
  <2> QED BY <1>5, <2>1, <2>2, <2>3
<1> QED BY <1>2, <1>4, <1>6, <1>7

LEMMA InitCInv == BacktestInit => CInv
<1> SUFFICES ASSUME BacktestInit PROVE CInv
  OBVIOUS
<1>1. BInv
  BY InitBInv
<1>2. EventVersions /\ ClosesLater
  BY DEF BacktestInit, Init, EventVersions, ClosesLater
<1>3. risk_events = <<>> /\ updated = <<>>
  BY DEF BacktestInit, Init
<1>4. ClosedEarlier
  BY <1>3 DEF ClosedEarlier
<1>5. Dated
  BY <1>3 DEF Dated, ShowsEach
<1> QED BY <1>1, <1>2, <1>4, <1>5 DEF CInv

LEMMA StepCInv ==
  ASSUME CInv, [LiveNext \/ SimNext]_<<vars, sim, updated>>
  PROVE  CInv'
<1>1. BInv'
  BY StepBInv DEF CInv
<1>2. CASE LiveNext \/ UNCHANGED <<vars, sim, updated>>
  BY <1>1, <1>2, LiveVersions DEF CInv
<1>3. CASE SimNext
  <2>1. Beside
    BY <1>3 DEF SimNext, Beside
  <2>2. CASE \/ SimUnfetched
             \/ \E outcome \in SimOutcomes :
                  SimSample(outcome) \/ SimStartSnapshot(outcome) \/ SimEndSnapshot(outcome)
    <3>1. UNCHANGED <<risk_events, updated>>
      BY <2>2 DEF SimUnfetched, SimSample, SimStartSnapshot, SimEndSnapshot, SimSnapshot
    <3> QED BY <1>1, <2>1, <2>2, <3>1, SimReadVersions DEF CInv
  <2>3. CASE \E outcome \in SimOutcomes : SimOpenRow(outcome) \/ SimResolvedRow(outcome)
    BY <1>1, <2>1, <2>3, SimWriteVersions DEF CInv
  <2> QED BY <1>3, <2>2, <2>3 DEF SimNext
<1> QED BY <1>2, <1>3

\* What the script writes does not come after a resolution on file.
LEMMA StepLeavesResolved ==
  ASSUME CInv, [LiveNext \/ SimNext]_<<vars, sim, updated>>, sim' # sim,
         NEW risk \in Risks(risk_events), Shown(risk).state = "RESOLVED"
  PROVE  Shown(risk)' = Shown(risk)
<1>1. /\ TypeOK /\ ClosedEarlier /\ Dated /\ sim \in SimStates
      /\ risk_events \in Seq(Rows) /\ updated \in Seq(Int) /\ Len(updated) = Len(risk_events)
      /\ ShowsEach(risk_events, updated)
  BY DEF CInv, BInv, MInv, TypeOK, Dated
<1>2. SimNext
  BY DEF LiveNext
<1>3. CASE UNCHANGED <<risk_events, updated>>
  BY <1>3 DEF Shown
<1>4. CASE ~UNCHANGED <<risk_events, updated>>
  <2>1. PICK outcome : SimOpenRow(outcome) \/ SimResolvedRow(outcome)
    BY <1>2, <1>4 DEF SimNext, SimUnfetched, SimSample, SimStartSnapshot, SimEndSnapshot, SimSnapshot
  <2>2. PICK row \in Rows : /\ risk_events' = Append(risk_events, row)
                            /\ updated' = Append(updated, sim.block)
                            /\ \/ row.state = "OPEN" /\ row.version = 1
                               \/ /\ sim.pc = "resolved_row" /\ row.version = 2
                                  /\ row.risk = sim.start
    BY <1>4, <2>1, ScriptRows DEF CInv
  <2>3. PICK j \in DOMAIN risk_events :
          risk_events[j].risk = risk /\ IsShown(risk_events, updated, j)
    BY <1>1 DEF Risks, ShowsEach
  <2>4. Shown(risk) = risk_events[j]
    BY <1>1, <2>3, ShownIs DEF Shown
  <2>5. row.risk = risk_events[j].risk => row.version < risk_events[j].version
    <3>1. /\ risk_events[j] \in Rows /\ risk_events[j].state = "RESOLVED"
          /\ risk_events[j].risk \in Int /\ risk_events[j].version \in Nat
      <4>1. risk_events[j] \in Rows
        BY <1>1, ElementOfSeq
      <4> QED BY <2>4, <4>1 DEF Rows
    <3>2. risk_events[j].version >= 2
      BY <1>1, <3>1 DEF ClosedEarlier
    <3>3. risk_events[j].version = 2 /\ sim.pc = "resolved_row" => risk_events[j].risk < sim.start
      BY <1>1, <3>1 DEF ClosedEarlier
    <3>4. CASE row.version = 1
      BY <3>1, <3>2, <3>4
    <3>5. CASE sim.pc = "resolved_row" /\ row.version = 2 /\ row.risk = sim.start
      BY <3>1, <3>2, <3>3, <3>5
    <3> QED BY <2>2, <3>4, <3>5
  <2>6. PICK new, newAt : new = risk_events' /\ newAt = updated'
    OBVIOUS
  <2>7. sim.block \in Int
    BY <1>1 DEF SimStates
  <2>8. new \in Seq(Rows) /\ newAt \in Seq(Int) /\ Len(newAt) = Len(new)
    BY <1>1, <2>2, <2>6, <2>7, AppendBoth
  <2>9. j \in DOMAIN new /\ new[j] = risk_events[j] /\ IsShown(new, newAt, j)
    <3>1. PICK rows, at, time : rows = risk_events /\ at = updated /\ time = sim.block
      OBVIOUS
    <3>2. /\ rows \in Seq(Rows) /\ at \in Seq(Int) /\ Len(at) = Len(rows) /\ time \in Int
          /\ new = Append(rows, row) /\ newAt = Append(at, time)
          /\ j \in DOMAIN rows /\ IsShown(rows, at, j)
      BY <1>1, <2>2, <2>3, <2>6, <2>7, <3>1
    <3>3. row.risk = rows[j].risk => \/ row.version < rows[j].version
                                     \/ row.version = rows[j].version /\ time < at[j]
      BY <2>5, <3>1
    <3>4. j \in DOMAIN new /\ new[j] = rows[j] /\ IsShown(new, newAt, j)
      BY <3>2, <3>3, ShownStays, Zenon
    <3> QED BY <3>1, <3>4
  <2>10. LatestAt(new, newAt, risk) = risk_events[j]
    BY <2>3, <2>8, <2>9, ShownIs
  <2> QED BY <2>4, <2>6, <2>10 DEF Shown
<1> QED BY <1>3, <1>4

\* Beside the live indexer, whatever inserts fail and whenever it restarts, the
\* script never takes back or changes what readers see of a resolved risk.
THEOREM ResolvedLeft == BacktestSpec => BacktestLeavesResolved
<1>1. CInv /\ [LiveNext \/ SimNext]_<<vars, sim, updated>>
        => [sim' # sim =>
              \A risk \in Risks(risk_events) :
                Shown(risk).state = "RESOLVED" => Shown(risk)' = Shown(risk)]_<<vars, sim, updated>>
  BY StepLeavesResolved
<1> QED BY <1>1, InitCInv, StepCInv, PTL DEF BacktestSpec, BacktestLeavesResolved
=============================================================================
