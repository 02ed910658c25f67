------------------------- MODULE AaveMonitorProofs --------------------------
(***************************************************************************)
(* AaveMonitor for every chain, price, lookback and number of failures and *)
(* restarts.                                                               *)
(***************************************************************************)
EXTENDS AaveMonitor, FiniteSetTheorems, SequenceTheorems, TLAPS

-----------------------------------------------------------------------------
(* The invariant, in parts.                                                *)

Rows == [risk: Times, version: {1, 2}, state: {"OPEN", "RESOLVED"}, end: Times \cup {None},
         severity: Deviations, liquidationCount: Nat]

\* The types of the variables that TypeOK says nothing of.
Types ==
  /\ price \in Prices \cup {None}
  /\ head \in 0..MaxHead /\ now \in 0..head
  /\ fetched \in Nat /\ (batch = {} => fetched = 0)
  /\ onChain \in Seq(Nat) /\ \A e \in DOMAIN onChain : onChain[e] \in 1..head
  /\ risk_events \in Seq(Rows)
  /\ liquidations \in Seq(Times \X Nat)

TInv == TypeOK /\ Types

\* No window and no row is of a later risk than the present, and until a poll
\* opens a window there is none of the risk it would open.
Dated ==
  /\ window # None => window.risk <= now
  /\ \A i \in DOMAIN risk_events : risk_events[i].risk <= now
  /\ \A k \in DOMAIN liquidations : liquidations[k][1] <= now
  /\ window = None /\ pc \in {"insert_price", "insert_open", "emit_start"} =>
       \A k \in DOMAIN liquidations : liquidations[k][1] < now
  /\ window = None /\ pc \in {"insert_price", "insert_open"} =>
       \A i \in DOMAIN risk_events : risk_events[i].risk < now

\* What a webhook will tell of is on file when poll() comes to it.
Backed ==
  /\ window # None => \E i \in DOMAIN risk_events : risk_events[i].risk = window.risk
  /\ pc = "emit_start" => \E i \in DOMAIN risk_events : risk_events[i].risk = now
  /\ pc = "emit_end" => \E i \in DOMAIN risk_events :
       risk_events[i].risk = window.risk /\ risk_events[i].state = "RESOLVED"
  /\ pc \in {"insert_snapshot", "emit_liquidation"} =>
       \E k \in DOMAIN liquidations : liquidations[k] = Key
  /\ pc = "emit_liquidation" => Key \in snapshots
  /\ WebhooksBacked

\* The liquidations still to be recorded, of those being processed.
Pending == IF pc \in {"insert_snapshot", "emit_liquidation"} THEN batch \ {Current} ELSE batch

\* What is on file of the window was processed in a block that is behind, and
\* what is still to be recorded is not on file.
Once ==
  /\ window # None => \A k \in DOMAIN liquidations : liquidations[k][1] = window.risk =>
       /\ liquidations[k][2] \in DOMAIN onChain
       /\ onChain[liquidations[k][2]] <= lastProcessedBlock
       /\ liquidations[k][2] \notin Pending
  /\ \A e \in batch : onChain[e] <= lastProcessedBlock
  /\ RecordedOncePerRisk

Recorded(risk) == {k \in DOMAIN liquidations : liquidations[k][1] = risk}

\* What the window counts, and what is processed of the batch, is on file.
Counted ==
  /\ window # None =>
       window.liquidationCount + (fetched - Cardinality(Pending)) <= Cardinality(Recorded(window.risk))
  /\ CountNeverExceedsRows

\* The sample of this poll is on file once it was stored, and so is one with
\* the largest deviation of the window.
Witnessed ==
  /\ \A p \in price_samples : p.ts \in Nat
  /\ pc \notin {"sleep", "insert_price"} => [ts |-> now, loss |-> price.deviation] \in price_samples
  /\ window # None => \E p \in price_samples :
       p.loss = window.maxDeviation /\ window.risk <= p.ts /\ p.ts <= now
  /\ SeverityWitnessed

\* The row its readers get for its risk: the last of those of the last version.
IsLatest(rows, j) ==
  \A k \in DOMAIN rows : rows[k].risk = rows[j].risk =>
    rows[k].version < rows[j].version \/ (rows[k].version = rows[j].version /\ k <= j)

\* Every risk has a latest row, no end lies ahead, and the tracked window exceeds
\* what is on file.
Forward ==
  /\ \A i \in DOMAIN risk_events : \E j \in DOMAIN risk_events :
       risk_events[j].risk = risk_events[i].risk /\ IsLatest(risk_events, j)
  /\ \A i \in DOMAIN risk_events :
       risk_events[i].state = "RESOLVED" => risk_events[i].end \in 0..now
  /\ window # None => \A i \in DOMAIN risk_events :
       risk_events[i].risk = window.risk => risk_events[i].severity <= window.maxDeviation
  /\ pc = "emit_start" => \A i \in DOMAIN risk_events :
       risk_events[i].risk = now => risk_events[i].severity <= price.deviation

AInv == TInv /\ Dated /\ Backed /\ Once /\ Counted /\ Witnessed /\ Forward

-----------------------------------------------------------------------------
(* Sequences and sets.                                                     *)

LEMMA AppendAll ==
  ASSUME NEW S, NEW seq \in Seq(S), NEW elt \in S
  PROVE  /\ Append(seq, elt) \in Seq(S)
         /\ Len(seq) \in Nat /\ DOMAIN seq = 1..Len(seq)
         /\ DOMAIN Append(seq, elt) = 1..(Len(seq) + 1)
         /\ \A i \in DOMAIN seq : seq[i] \in S /\ Append(seq, elt)[i] = seq[i]
         /\ Append(seq, elt)[Len(seq) + 1] = elt
<1>1. /\ Append(seq, elt) \in Seq(S) /\ Len(Append(seq, elt)) = Len(seq) + 1
      /\ \A i \in 1..Len(seq) : Append(seq, elt)[i] = seq[i]
      /\ Append(seq, elt)[Len(seq) + 1] = elt
  BY AppendProperties
<1>2. /\ Len(seq) \in Nat /\ DOMAIN seq = 1..Len(seq)
      /\ DOMAIN Append(seq, elt) = 1..Len(Append(seq, elt))
  BY <1>1, LenProperties
<1>3. \A i \in 1..Len(seq) : seq[i] \in S
  BY ElementOfSeq
<1> QED BY <1>1, <1>2, <1>3

\* A finite set of numbers that is not empty has a smallest one: one below
\* which there are the fewest.
LEMMA HasSmallest ==
  ASSUME NEW S, IsFiniteSet(S), S # {}, S \subseteq Int
  PROVE  \E x \in S : \A y \in S : x <= y
<1> DEFINE Below(x) == {y \in S : y < x}
           belows == {Below(x) : x \in S}
<1>1. IsWellFoundedOn(StrictSubsetOrdering(S), FiniteSubsetsOf(S))
  BY FS_StrictSubsetOrderingWellFounded
<1>2. belows \subseteq FiniteSubsetsOf(S) /\ belows # {}
  <2>1. FiniteSubsetsOf(S) = SUBSET S
    BY FS_FiniteSubsetsOfFinite
  <2>2. \A x \in S : Below(x) \in SUBSET S
    OBVIOUS
  <2>3. belows # {}
    OBVIOUS
  <2> HIDE DEF Below
  <2> QED BY <2>1, <2>2, <2>3
<1> HIDE DEF belows
<1>3. PICK least \in belows : \A other \in belows : ~(<<other, least>> \in StrictSubsetOrdering(S))
  BY <1>1, <1>2, WFMin
<1>4. PICK x \in S : least = Below(x)
  BY DEF belows
<1>5. ASSUME NEW y \in S, ~(x <= y)
      PROVE  FALSE
  <2>1. Below(y) \subseteq Below(x) /\ y \in Below(x) /\ y \notin Below(y)
    <3>1. \A z \in S : z \in Int
      OBVIOUS
    <3>2. x \in Int /\ y \in Int /\ y < x
      BY <1>4, <1>5, <3>1
    <3>3. y \in Below(x) /\ y \notin Below(y)
      BY <3>2
    <3>4. ASSUME NEW z \in Below(y)
          PROVE  z \in Below(x)
      BY <3>1, <3>2, <3>4
    <3> QED BY <3>3, <3>4
  <2>2. Below(y) \in belows /\ Below(x) \in SUBSET S /\ Below(y) \in SUBSET S
    BY DEF belows
  <2> HIDE DEF Below
  <2>3. <<Below(y), Below(x)>> \in StrictSubsetOrdering(S)
    BY <2>1, <2>2 DEF StrictSubsetOrdering
  <2> QED BY <1>3, <1>4, <2>2, <2>3
<1> QED BY <1>5

-----------------------------------------------------------------------------
(* Types.                                                                  *)

\* The events of the chain are numbered from 1, and their blocks are there.
LEMMA ChainIs ==
  ASSUME TInv
  PROVE  /\ Len(onChain) \in Nat /\ DOMAIN onChain = 1..Len(onChain)
         /\ head \in Nat /\ now \in Nat /\ head <= MaxHead /\ now <= head
         /\ \A e \in DOMAIN onChain : onChain[e] \in 1..head
         /\ lastProcessedBlock \in 0..head
         /\ \A finds \in SUBSET DOMAIN onChain :
              IsFiniteSet(finds) /\ Cardinality(finds) \in Nat /\ finds \subseteq Nat
<1>1. onChain \in Seq(Nat) /\ Len(onChain) \in Nat /\ DOMAIN onChain = 1..Len(onChain)
  BY LenProperties DEF TInv, Types
<1>2. IsFiniteSet(1..Len(onChain))
  BY <1>1, FS_Interval
<1>3. \A finds \in SUBSET DOMAIN onChain :
        IsFiniteSet(finds) /\ Cardinality(finds) \in Nat /\ finds \subseteq Nat
  BY <1>1, <1>2, FS_Subset, FS_CardinalityType
<1>4. MaxHead \in Nat
  BY AaveConfig
<1> QED BY <1>1, <1>3, <1>4 DEF TInv, TypeOK, Types

\* The liquidation being processed is one of the batch.
LEMMA CurrentIs ==
  ASSUME TInv, batch # {}
  PROVE  /\ Current \in batch /\ Current \in Nat
         /\ IsFiniteSet(batch) /\ IsFiniteSet(batch \ {Current})
         /\ Cardinality(batch) \in Nat /\ Cardinality(batch \ {Current}) \in Nat
         /\ Cardinality(batch \ {Current}) = Cardinality(batch) - 1
<1>1. IsFiniteSet(batch) /\ Cardinality(batch) \in Nat /\ batch \subseteq Nat
  BY ChainIs DEF TInv, TypeOK
<1>2. \E e \in batch : \A f \in batch : e <= f
  <2>1. batch \subseteq Int
    BY <1>1
  <2> QED BY <1>1, <2>1, HasSmallest
<1>3. Current \in batch
  BY <1>2 DEF Current
<1>4. /\ IsFiniteSet(batch \ {Current})
      /\ Cardinality(batch \ {Current}) = Cardinality(batch) - 1
  BY <1>1, <1>3, FS_RemoveElement
<1>5. Cardinality(batch \ {Current}) \in Nat
  BY <1>4, FS_CardinalityType
<1> QED BY <1>1, <1>3, <1>4, <1>5

\* Between the processing of batches poll() has none.
LEMMA GoToType ==
  ASSUME TInv, NEW p, GoTo(p),
         p \notin {"insert_liquidation", "insert_snapshot", "emit_liquidation"}
  PROVE  /\ pc' = p /\ batch' = {} /\ fetched' = 0
         /\ price' \in Prices \cup {None} /\ (p # "sleep" => price' = price)
         /\ Cardinality(batch') <= fetched' /\ Cardinality(batch') = 0
<1>1. pc' = p /\ batch' = {} /\ fetched' = 0
  BY DEF GoTo
<1>2. Cardinality(batch') = 0
  BY <1>1, FS_EmptySet
<1>3. price' = IF p = "sleep" THEN None ELSE price
  BY DEF GoTo
<1> QED BY <1>1, <1>2, <1>3 DEF TInv, Types

\* What is left of the poll after its liquidations.
LEMMA AfterLiquidationsType ==
  ASSUME TInv, window # None, price \in Prices, NEW count \in Nat, AfterLiquidations(count)
  PROVE  /\ window' \in Windows /\ window' # None
         /\ window'.risk = window.risk /\ window'.liquidationCount = count
         /\ window.maxDeviation <= window'.maxDeviation
         /\ window'.maxDeviation \in {window.maxDeviation, price.deviation}
         /\ pc' \in {"sleep", "insert_close"} /\ (pc' = "insert_close" => price' = price /\ ~Depegged)
         /\ batch' = {} /\ fetched' = 0
         /\ price' \in Prices \cup {None} /\ Cardinality(batch') = 0
<1>1. window \in Windows /\ window.maxDeviation \in Nat /\ price.deviation \in Nat
  BY AaveConfig DEF TInv, TypeOK, Windows, Prices
<1> DEFINE largest == MaxOf(window.maxDeviation, price.deviation)
<1>2. largest \in {window.maxDeviation, price.deviation} /\ window.maxDeviation <= largest
  BY <1>1 DEF MaxOf
<1>3. window' = [window EXCEPT !.maxDeviation = largest, !.liquidationCount = count]
  BY DEF AfterLiquidations
<1> HIDE DEF largest
<1>4. largest \in Deviations
  BY <1>1, <1>2 DEF Windows, Prices
<1>5. /\ window' \in Windows /\ window'.risk = window.risk
      /\ window'.liquidationCount = count /\ window'.maxDeviation = largest
  BY <1>1, <1>3, <1>4 DEF Windows
<1>6. window' # None
  BY <1>5, AaveConfig
<1>7. CASE Depegged
  <2>1. GoTo("sleep")
    BY <1>7 DEF AfterLiquidations
  <2> QED BY <1>2, <1>5, <1>6, <2>1, GoToType
<1>8. CASE ~Depegged
  <2>1. GoTo("insert_close")
    BY <1>8 DEF AfterLiquidations
  <2> QED BY <1>2, <1>5, <1>6, <1>8, <2>1, GoToType
<1> QED BY <1>7, <1>8

\* A poll past its start has a price, and is dated within the chain.
LEMMA PollIs ==
  ASSUME TInv, pc # "sleep"
  PROVE  /\ price \in Prices /\ price.deviation \in Deviations /\ price.deviation \in Nat
         /\ now \in 1..head /\ now \in Times /\ now \in Nat
<1>1. price \in Prices /\ now \in 1..head /\ head \in 0..MaxHead
  BY DEF TInv, TypeOK, Types
<1>2. head \in Nat /\ MaxHead \in Nat
  BY <1>1, AaveConfig
<1>3. now \in Nat /\ now \in Times
  BY <1>1, <1>2 DEF Times
<1>4. price.deviation \in Deviations /\ price.deviation \in Nat
  BY <1>1, AaveConfig DEF Prices
<1> QED BY <1>1, <1>3, <1>4

LEMMA WindowIs ==
  ASSUME TInv, window # None
  PROVE  /\ window \in Windows /\ window.risk \in Times /\ window.risk \in Nat
         /\ window.maxDeviation \in Deviations /\ window.maxDeviation \in Nat
         /\ window.liquidationCount \in Nat
<1>1. window \in Windows
  BY DEF TInv, TypeOK
<1>2. /\ window.risk \in Times /\ window.maxDeviation \in Deviations
      /\ window.liquidationCount \in Nat
  BY <1>1 DEF Windows
<1>3. Times \subseteq Nat /\ Deviations \subseteq Nat
  BY AaveConfig DEF Times
<1> QED BY <1>1, <1>2, <1>3

\* A step between awaits that fetch nothing, of a poll in which the window is
\* what the await needs.
LEMMA MemoryTyped ==
  ASSUME TInv, UNCHANGED <<chain, now>>, batch' = {}, fetched' = 0, Cardinality(batch') = 0,
         price' \in Prices \cup {None}, window' \in Windows \cup {None},
         lastProcessedBlock' \in 0..head,
         pc' \in {"sleep", "insert_price", "insert_open", "emit_start", "poll_liquidations",
                  "insert_close", "emit_end"},
         pc' # "sleep" => price' = price /\ pc # "sleep",
         pc' \in {"insert_open", "emit_start"} => window' = None /\ Depegged,
         pc' \in {"poll_liquidations", "insert_close", "emit_end"} => window' # None,
         pc' \in {"insert_close", "emit_end"} => ~Depegged
  PROVE  TypeOK'
<1>1. head' = head /\ onChain' = onChain /\ now' = now
  BY DEF chain
<1>2. pc' # "sleep" => price' \in Prices /\ now' \in 1..head'
  BY <1>1, PollIs
<1>3. pc' \in {"insert_open", "emit_start"} => Depegged'
  BY DEF Depegged
<1>4. pc' \in {"insert_close", "emit_end"} => ~(Depegged')
  BY DEF Depegged
<1>5. (batch # {} <=> pc \in {"insert_liquidation", "insert_snapshot", "emit_liquidation"})'
  BY Zenon
<1>6. Cardinality(batch') <= fetched'
  OBVIOUS
<1> QED BY <1>1, <1>2, <1>3, <1>4, <1>5, <1>6 DEF TypeOK

\* The same with a batch to process.
LEMMA BatchTyped ==
  ASSUME TInv, pc # "sleep", UNCHANGED <<chain, now, price>>, batch' \subseteq DOMAIN onChain,
         batch' # {}, fetched' \in Nat, Cardinality(batch') <= fetched',
         window' = window, window # None, lastProcessedBlock' \in 0..head,
         pc' \in {"insert_liquidation", "insert_snapshot", "emit_liquidation"}
  PROVE  TypeOK'
<1>1. head' = head /\ onChain' = onChain /\ now' = now /\ price' = price
  BY DEF chain
<1>2. price' \in Prices /\ now' \in 1..head'
  BY <1>1, PollIs
<1> QED BY <1>1, <1>2 DEF TypeOK, TInv

\* Rows that are appended are rows.
LEMMA RowsTyped ==
  ASSUME TInv
  PROVE  /\ pc = "insert_open" => OpenRow \in Rows
         /\ pc = "insert_close" => ResolvedRow \in Rows
<1>1. CASE pc = "insert_open"
  BY <1>1, PollIs DEF OpenRow, Rows
<1>2. CASE pc = "insert_close"
  <2>1. window # None /\ pc # "sleep"
    BY <1>2 DEF TInv, TypeOK
  <2> QED BY <1>2, <2>1, PollIs, WindowIs DEF ResolvedRow, Rows
<1> QED BY <1>1, <1>2

\* Where poll() goes once the price is on file.
LEMMA BranchIs ==
  ASSUME TInv
  PROVE  /\ Branch \in {"poll_liquidations", "insert_open", "sleep"}
         /\ Branch = "poll_liquidations" => window # None
         /\ Branch = "insert_open" => window = None /\ Depegged
  BY DEF Branch

LEMMA StartPollType ==
  ASSUME TInv, StartPoll
  PROVE  TInv'
<1>1. /\ pc = "sleep" /\ pc' = "insert_price" /\ now < head /\ now' = head /\ price' \in Prices
      /\ UNCHANGED <<batch, fetched, window, lastProcessedBlock, risk_events, liquidations, head, onChain>>
  BY DEF StartPoll, tables, chain
<1>2. now' \in 1..head /\ now' \in 0..head
  BY <1>1, ChainIs
<1>3. TypeOK'
  BY <1>1, <1>2 DEF TInv, TypeOK
<1>4. Types'
  BY <1>1, <1>2 DEF TInv, Types
<1> QED BY <1>3, <1>4 DEF TInv

\* A step from one await to another outside of a batch.
LEMMA GoToKeepsT ==
  ASSUME TInv, pc # "sleep", NEW p, GoTo(p), UNCHANGED <<chain, now, window, lastProcessedBlock>>,
         p \in {"sleep", "insert_open", "emit_start", "poll_liquidations", "insert_close", "emit_end"},
         p \in {"insert_open", "emit_start"} => window = None /\ Depegged,
         p = "poll_liquidations" => window # None,
         p \in {"insert_close", "emit_end"} => window # None /\ ~Depegged,
         risk_events' \in Seq(Rows), liquidations' \in Seq(Times \X Nat)
  PROVE  TInv'
<1>1. /\ pc' = p /\ batch' = {} /\ fetched' = 0
      /\ price' \in Prices \cup {None} /\ (p # "sleep" => price' = price)
      /\ Cardinality(batch') <= fetched' /\ Cardinality(batch') = 0
  BY GoToType
<1>2. window' \in Windows \cup {None} /\ lastProcessedBlock' \in 0..head
  BY DEF TInv, TypeOK
<1>3. TypeOK'
  BY <1>1, <1>2, MemoryTyped
<1>4. Types'
  BY <1>1 DEF TInv, Types, chain
<1> QED BY <1>3, <1>4 DEF TInv

LEMMA InsertPriceType ==
  ASSUME TInv, NEW outcome, InsertPrice(outcome)
  PROVE  TInv'
<1>1. /\ pc # "sleep" /\ UNCHANGED <<chain, now, window, lastProcessedBlock>>
      /\ GoTo(Branch) \/ GoTo("sleep")
      /\ risk_events' = risk_events /\ liquidations' = liquidations
  BY DEF InsertPrice
<1>2. risk_events' \in Seq(Rows) /\ liquidations' \in Seq(Times \X Nat)
  BY <1>1 DEF TInv, Types
<1>3. CASE GoTo("sleep")
  BY <1>1, <1>2, <1>3, GoToKeepsT
<1>4. CASE GoTo(Branch)
  <2>1. PICK p : p = Branch
    OBVIOUS
  <2>2. /\ p \in {"poll_liquidations", "insert_open", "sleep"}
        /\ p = "poll_liquidations" => window # None
        /\ p = "insert_open" => window = None /\ Depegged
        /\ GoTo(p)
    BY <1>4, <2>1, BranchIs
  <2> QED BY <1>1, <1>2, <2>2, GoToKeepsT
<1> QED BY <1>1, <1>3, <1>4

LEMMA InsertOpenType ==
  ASSUME TInv, NEW outcome, InsertOpen(outcome)
  PROVE  TInv'
<1>1. /\ pc = "insert_open" /\ UNCHANGED <<chain, now, window, lastProcessedBlock>>
      /\ GoTo("emit_start") \/ GoTo("sleep")
      /\ risk_events' = risk_events \/ risk_events' = Append(risk_events, OpenRow)
      /\ liquidations' = liquidations
  BY DEF InsertOpen
<1>2. OpenRow \in Rows
  BY <1>1, RowsTyped
<1>3. risk_events' \in Seq(Rows) /\ liquidations' \in Seq(Times \X Nat)
  <2>1. risk_events \in Seq(Rows) /\ liquidations \in Seq(Times \X Nat)
    BY DEF TInv, Types
  <2>2. Append(risk_events, OpenRow) \in Seq(Rows)
    BY <1>2, <2>1, AppendProperties
  <2> QED BY <1>1, <2>1, <2>2
<1>4. window = None /\ Depegged
  BY <1>1 DEF TInv, TypeOK
<1> QED BY <1>1, <1>3, <1>4, GoToKeepsT

\* The window a poll starts to track.
LEMMA EmitStartType ==
  ASSUME TInv, NEW delivered, EmitStart(delivered)
  PROVE  /\ TInv'
         /\ window' \in Windows /\ window'.risk = now /\ window'.maxDeviation = price.deviation
         /\ window'.liquidationCount = 0
<1>1. /\ pc = "emit_start" /\ UNCHANGED <<chain, now, lastProcessedBlock>>
      /\ GoTo("poll_liquidations")
      /\ window' = [risk |-> now, maxDeviation |-> price.deviation, liquidationCount |-> 0]
      /\ risk_events' = risk_events /\ liquidations' = liquidations
  BY DEF EmitStart
<1>2. window' \in Windows
  BY <1>1, PollIs DEF Windows
<1>3. window' # None
  BY <1>2, AaveConfig
<1>4. /\ pc' = "poll_liquidations" /\ batch' = {} /\ fetched' = 0
      /\ price' \in Prices \cup {None} /\ price' = price /\ Cardinality(batch') = 0
  BY <1>1, GoToType
<1>5. TypeOK'
  BY <1>1, <1>2, <1>3, <1>4, MemoryTyped DEF TInv, TypeOK
<1>6. Types'
  BY <1>1, <1>4 DEF TInv, Types, chain
<1> QED BY <1>1, <1>2, <1>5, <1>6 DEF TInv

LEMMA NoBlockNumberType ==
  ASSUME TInv, NoBlockNumber
  PROVE  TInv'
<1>1. /\ pc # "sleep" /\ GoTo("sleep") /\ UNCHANGED <<chain, now, window, lastProcessedBlock>>
      /\ risk_events' = risk_events /\ liquidations' = liquidations
  BY DEF NoBlockNumber, tables
<1>2. risk_events' \in Seq(Rows) /\ liquidations' \in Seq(Times \X Nat)
  BY <1>1 DEF TInv, Types
<1> QED BY <1>1, <1>2, GoToKeepsT

\* The blocks a poll looks at lie between those it has looked at and the head.
LEMMA PolledBlocks ==
  ASSUME TInv, NEW current \in MaxOf(head - MaxLag, 1)..head
  PROVE  /\ current \in 1..head /\ FromBlock(current) \in Nat /\ lastProcessedBlock < FromBlock(current)
         /\ MaxOf(FromBlock(current) - 1, current) \in 0..head
         /\ lastProcessedBlock <= MaxOf(FromBlock(current) - 1, current)
         /\ current <= MaxOf(FromBlock(current) - 1, current)
<1>1. head \in Nat /\ lastProcessedBlock \in Nat /\ lastProcessedBlock <= head
  BY ChainIs
<1>2. Lookback \in Nat /\ MaxLag \in Nat
  BY AaveConfig
<1>3. current \in Int /\ 1 <= current /\ current <= head
  BY <1>1, <1>2 DEF MaxOf
<1> QED BY <1>1, <1>2, <1>3 DEF FromBlock, MaxOf

LEMMA PollLiquidationsType ==
  ASSUME TInv, NEW current \in MaxOf(head - MaxLag, 1)..head, NEW found \in SUBSET InRange(current),
         PollLiquidations(current, found)
  PROVE  TInv'
<1>1. /\ pc = "poll_liquidations" /\ UNCHANGED <<chain, now>> /\ window # None
      /\ lastProcessedBlock' = MaxOf(FromBlock(current) - 1, current)
      /\ risk_events' = risk_events /\ liquidations' = liquidations
  BY DEF PollLiquidations, tables, TInv, TypeOK
<1>2. lastProcessedBlock' \in 0..head
  BY <1>1, PolledBlocks
<1>3. price \in Prices
  BY <1>1, PollIs
<1>4. CASE found = {}
  <2>1. AfterLiquidations(window.liquidationCount)
    BY <1>4 DEF PollLiquidations
  <2>2. window.liquidationCount \in Nat
    BY <1>1, WindowIs
  <2>3. PICK count \in Nat : count = window.liquidationCount
    BY <2>2
  <2>4. /\ window' \in Windows /\ window' # None
        /\ pc' \in {"sleep", "insert_close"} /\ (pc' = "insert_close" => price' = price /\ ~Depegged)
        /\ batch' = {} /\ fetched' = 0
        /\ price' \in Prices \cup {None} /\ Cardinality(batch') = 0
    BY <1>1, <1>3, <2>1, <2>3, AfterLiquidationsType
  <2>5. TypeOK'
    BY <1>1, <1>2, <2>4, MemoryTyped
  <2>6. Types'
    BY <1>1, <2>4 DEF TInv, Types, chain
  <2> QED BY <2>5, <2>6 DEF TInv
<1>5. CASE found # {}
  <2>1. /\ pc' = "insert_liquidation" /\ price' = price /\ window' = window
        /\ batch' = found /\ fetched' = Cardinality(found)
    BY <1>5 DEF PollLiquidations
  <2>2. found \subseteq DOMAIN onChain
    BY DEF InRange
  <2>3. Cardinality(found) \in Nat
    BY <2>2, ChainIs
  <2>4. /\ batch' \subseteq DOMAIN onChain /\ batch' # {} /\ fetched' \in Nat
        /\ Cardinality(batch') <= fetched'
    BY <1>5, <2>1, <2>2, <2>3
  <2>5. TypeOK'
    BY <1>1, <1>2, <2>1, <2>4, BatchTyped
  <2>6. Types'
    BY <1>1, <2>1, <2>4 DEF TInv, Types, chain
  <2> QED BY <2>5, <2>6 DEF TInv
<1> QED BY <1>4, <1>5

LEMMA KeyIs ==
  ASSUME TInv, window # None, batch # {}
  PROVE  Key \in Times \X Nat /\ Key[1] = window.risk /\ Key[2] = Current
  BY WindowIs, CurrentIs DEF Key

\* A step inside a batch, or out of it.
LEMMA BatchKeepsT ==
  ASSUME TInv, batch # {}, NEW p \in {"sleep", "insert_snapshot", "emit_liquidation"}, GoTo(p),
         UNCHANGED <<chain, now, window, lastProcessedBlock>>,
         risk_events' \in Seq(Rows), liquidations' \in Seq(Times \X Nat)
  PROVE  TInv'
<1>1. pc # "sleep" /\ window # None
  BY DEF TInv, TypeOK
<1>2. CASE p = "sleep"
  BY <1>1, <1>2, GoToKeepsT
<1>3. CASE p # "sleep"
  <2>1. pc' = p /\ price' = price /\ batch' = batch /\ fetched' = fetched
    BY <1>3 DEF GoTo
  <2>2. TypeOK'
    BY <1>1, <1>3, <2>1, BatchTyped DEF TInv, TypeOK, Types
  <2>3. Types'
    BY <2>1 DEF TInv, Types, chain
  <2> QED BY <2>2, <2>3 DEF TInv
<1> QED BY <1>2, <1>3

LEMMA InsertLiquidationType ==
  ASSUME TInv, NEW outcome, InsertLiquidation(outcome)
  PROVE  TInv'
<1>1. /\ pc = "insert_liquidation" /\ UNCHANGED <<chain, now, window, lastProcessedBlock>>
      /\ GoTo("insert_snapshot") \/ GoTo("sleep")
      /\ liquidations' = liquidations \/ liquidations' = Append(liquidations, Key)
      /\ risk_events' = risk_events
  BY DEF InsertLiquidation
<1>2. batch # {} /\ window # None
  BY <1>1 DEF TInv, TypeOK
<1>3. risk_events' \in Seq(Rows) /\ liquidations' \in Seq(Times \X Nat)
  <2>1. risk_events \in Seq(Rows) /\ liquidations \in Seq(Times \X Nat)
    BY DEF TInv, Types
  <2>2. Append(liquidations, Key) \in Seq(Times \X Nat)
    BY <1>2, <2>1, KeyIs, AppendProperties
  <2> QED BY <1>1, <2>1, <2>2
<1> QED BY <1>1, <1>2, <1>3, BatchKeepsT

LEMMA InsertSnapshotType ==
  ASSUME TInv, NEW outcome, InsertSnapshot(outcome)
  PROVE  TInv'
<1>1. /\ pc = "insert_snapshot" /\ UNCHANGED <<chain, now, window, lastProcessedBlock>>
      /\ GoTo("emit_liquidation") \/ GoTo("sleep")
      /\ liquidations' = liquidations /\ risk_events' = risk_events
  BY DEF InsertSnapshot
<1>2. batch # {}
  BY <1>1 DEF TInv, TypeOK
<1>3. risk_events' \in Seq(Rows) /\ liquidations' \in Seq(Times \X Nat)
  BY <1>1 DEF TInv, Types
<1> QED BY <1>1, <1>2, <1>3, BatchKeepsT

LEMMA EmitLiquidationType ==
  ASSUME TInv, NEW delivered, EmitLiquidation(delivered)
  PROVE  TInv'
<1>1. /\ pc = "emit_liquidation" /\ UNCHANGED <<chain, now, lastProcessedBlock>>
      /\ liquidations' = liquidations /\ risk_events' = risk_events
      /\ batch # {} /\ window # None /\ price \in Prices
      /\ lastProcessedBlock' \in 0..head
  BY PollIs DEF EmitLiquidation, TInv, TypeOK
<1>2. CASE batch = {Current}
  <2>1. AfterLiquidations(window.liquidationCount + fetched)
    BY <1>2 DEF EmitLiquidation
  <2>2. PICK count \in Nat : count = window.liquidationCount + fetched
    <3>1. window.liquidationCount \in Nat /\ fetched \in Nat
      BY <1>1, WindowIs DEF TInv, Types
    <3> QED BY <3>1
  <2>3. /\ window' \in Windows /\ window' # None
        /\ pc' \in {"sleep", "insert_close"} /\ (pc' = "insert_close" => price' = price /\ ~Depegged)
        /\ batch' = {} /\ fetched' = 0
        /\ price' \in Prices \cup {None} /\ Cardinality(batch') = 0
    BY <1>1, <2>1, <2>2, AfterLiquidationsType
  <2>4. TypeOK'
    BY <1>1, <2>3, MemoryTyped
  <2>5. Types'
    BY <1>1, <2>3 DEF TInv, Types, chain
  <2> QED BY <2>4, <2>5 DEF TInv
<1>3. CASE batch # {Current}
  <2>1. /\ pc' = "insert_liquidation" /\ batch' = batch \ {Current}
        /\ UNCHANGED <<price, fetched, window>>
    BY <1>3 DEF EmitLiquidation
  <2>2. batch' \subseteq DOMAIN onChain /\ batch' # {}
    BY <1>1, <1>3, <2>1, CurrentIs DEF TInv, TypeOK
  <2>3. fetched' \in Nat /\ Cardinality(batch') <= fetched'
    <3>1. /\ Cardinality(batch) <= fetched /\ fetched \in Nat /\ Cardinality(batch) \in Nat
          /\ Cardinality(batch \ {Current}) = Cardinality(batch) - 1
      BY <1>1, CurrentIs DEF TInv, TypeOK, Types
    <3> QED BY <2>1, <3>1
  <2>4. TypeOK'
    BY <1>1, <2>1, <2>2, <2>3, BatchTyped
  <2>5. Types'
    BY <1>1, <2>1, <2>2, <2>3 DEF TInv, Types, chain
  <2> QED BY <2>4, <2>5 DEF TInv
<1> QED BY <1>2, <1>3

LEMMA InsertCloseType ==
  ASSUME TInv, NEW outcome, InsertClose(outcome)
  PROVE  TInv'
<1>1. /\ pc = "insert_close" /\ UNCHANGED <<chain, now, window, lastProcessedBlock>>
      /\ GoTo("emit_end") \/ GoTo("sleep")
      /\ risk_events' = risk_events \/ risk_events' = Append(risk_events, ResolvedRow)
      /\ liquidations' = liquidations
  BY DEF InsertClose
<1>2. window # None /\ ~Depegged /\ ResolvedRow \in Rows
  BY <1>1, RowsTyped DEF TInv, TypeOK
<1>3. risk_events' \in Seq(Rows) /\ liquidations' \in Seq(Times \X Nat)
  <2>1. risk_events \in Seq(Rows) /\ liquidations \in Seq(Times \X Nat)
    BY DEF TInv, Types
  <2>2. Append(risk_events, ResolvedRow) \in Seq(Rows)
    BY <1>2, <2>1, AppendProperties
  <2> QED BY <1>1, <2>1, <2>2
<1> QED BY <1>1, <1>2, <1>3, GoToKeepsT

\* poll() ends and forgets its window, or the process dies.
LEMMA WindowEndsType ==
  ASSUME TInv, (\E delivered : EmitEnd(delivered)) \/ Crash
  PROVE  TInv'
<1>1. /\ GoTo("sleep") /\ UNCHANGED <<chain, now>> /\ window' = None
      /\ lastProcessedBlock' \in {0, lastProcessedBlock}
      /\ risk_events' = risk_events /\ liquidations' = liquidations
  BY DEF EmitEnd, Crash, tables
<1>2. /\ pc' = "sleep" /\ batch' = {} /\ fetched' = 0
      /\ price' \in Prices \cup {None} /\ Cardinality(batch') = 0
  BY <1>1, GoToType
<1>3. lastProcessedBlock' \in 0..head
  BY <1>1, ChainIs
<1>4. TypeOK'
  BY <1>1, <1>2, <1>3, MemoryTyped
<1>5. Types'
  BY <1>1, <1>2 DEF TInv, Types, chain
<1> QED BY <1>4, <1>5 DEF TInv

LEMMA NewBlockType ==
  ASSUME TInv, NewBlock
  PROVE  /\ TInv'
         /\ \A e \in DOMAIN onChain : e \in DOMAIN onChain' /\ onChain'[e] = onChain[e]
<1>1. /\ head' = head + 1 /\ head < MaxHead /\ UNCHANGED <<memory, risk_events, liquidations>>
      /\ onChain' = onChain \/ onChain' = Append(onChain, head')
  BY DEF NewBlock, tables
<1>2. head \in Nat /\ MaxHead \in Nat /\ now \in 0..head /\ lastProcessedBlock \in 0..head
  BY ChainIs, AaveConfig
<1>3. /\ head' \in 0..MaxHead /\ head' \in Nat /\ 0..head \subseteq 0..head' /\ 1..head \subseteq 1..head'
      /\ head' \in 1..head'
  BY <1>1, <1>2
<1>4. /\ onChain' \in Seq(Nat)
      /\ \A e \in DOMAIN onChain : e \in DOMAIN onChain' /\ onChain'[e] = onChain[e]
      /\ \A e \in DOMAIN onChain' : onChain'[e] \in 1..head'
  <2>1. onChain \in Seq(Nat) /\ \A e \in DOMAIN onChain : onChain[e] \in 1..head'
    BY <1>3 DEF TInv, Types
  <2>2. CASE onChain' = onChain
    BY <2>1, <2>2
  <2>3. CASE onChain' = Append(onChain, head')
    <3>1. PICK block \in Nat : block = head'
      BY <1>3
    <3>2. /\ Append(onChain, block) \in Seq(Nat)
          /\ Len(onChain) \in Nat /\ DOMAIN onChain = 1..Len(onChain)
          /\ DOMAIN Append(onChain, block) = 1..(Len(onChain) + 1)
          /\ \A e \in DOMAIN onChain : Append(onChain, block)[e] = onChain[e]
          /\ Append(onChain, block)[Len(onChain) + 1] = block
      BY <2>1, AppendAll
    <3>3. onChain' = Append(onChain, block)
      BY <2>3, <3>1
    <3>4. /\ onChain' \in Seq(Nat) /\ DOMAIN onChain' = 1..(Len(onChain) + 1)
          /\ \A e \in DOMAIN onChain : onChain'[e] = onChain[e]
          /\ onChain'[Len(onChain) + 1] = head'
      BY <3>1, <3>2, <3>3
    <3>5. \A e \in DOMAIN onChain' : e \in DOMAIN onChain \/ e = Len(onChain) + 1
      BY <3>2, <3>4
    <3>6. \A e \in DOMAIN onChain : e \in DOMAIN onChain'
      BY <3>2, <3>4
    <3>7. ASSUME NEW e \in DOMAIN onChain'
          PROVE  onChain'[e] \in 1..head'
      <4>1. CASE e \in DOMAIN onChain
        BY ONLY <2>1, <3>4, <4>1
      <4>2. CASE e = Len(onChain) + 1
        BY ONLY <1>3, <3>4, <4>2
      <4> QED BY <3>5, <4>1, <4>2
    <3> QED BY ONLY <3>4, <3>6, <3>7
  <2> QED BY <1>1, <2>2, <2>3
<1>5. UNCHANGED <<pc, price, now, batch, fetched, window, lastProcessedBlock>>
  BY <1>1 DEF memory
<1>6. TypeOK'
  <2>1. now' \in 0..head' /\ lastProcessedBlock' \in 0..head' /\ batch' \subseteq DOMAIN onChain'
    BY <1>2, <1>3, <1>4, <1>5 DEF TInv, TypeOK
  <2>2. pc # "sleep" => price' \in Prices /\ now' \in 1..head'
    BY <1>3, <1>5, PollIs
  <2> QED BY <1>5, <2>1, <2>2 DEF TInv, TypeOK, Depegged
<1>7. Types'
  BY <1>1, <1>2, <1>3, <1>4, <1>5 DEF TInv, Types
<1> QED BY <1>4, <1>6, <1>7 DEF TInv

LEMMA InitType ==
  ASSUME Init
  PROVE  TInv
<1>1. /\ pc = "sleep" /\ price = None /\ now = 0 /\ batch = {} /\ fetched = 0 /\ window = None
      /\ lastProcessedBlock = 0 /\ risk_events = <<>> /\ liquidations = <<>> /\ head = 0
      /\ onChain = <<>>
  BY DEF Init
<1>2. MaxHead \in Nat /\ Cardinality({}) = 0
  BY AaveConfig, FS_EmptySet
<1>3. /\ <<>> \in Seq(Nat) /\ <<>> \in Seq(Rows) /\ <<>> \in Seq(Times \X Nat)
      /\ DOMAIN onChain = {}
  BY <1>1, EmptySeq
<1>4. TypeOK
  BY <1>1, <1>2 DEF TypeOK
<1>5. Types
  BY <1>1, <1>2, <1>3 DEF Types
<1> QED BY <1>4, <1>5 DEF TInv

LEMMA NextType ==
  ASSUME TInv, [Next]_vars
  PROVE  TInv'
<1>1. CASE UNCHANGED vars
  BY <1>1 DEF vars, memory, tables, chain, TInv, TypeOK, Types, Depegged
<1>2. ASSUME NEW current \in MaxOf(head - MaxLag, 1)..head, NEW found \in SUBSET InRange(current),
             PollLiquidations(current, found)
      PROVE  TInv'
  BY <1>2, PollLiquidationsType
<1>3. ASSUME NEW outcome,
             InsertPrice(outcome) \/ InsertOpen(outcome) \/ InsertLiquidation(outcome)
               \/ InsertSnapshot(outcome) \/ InsertClose(outcome)
      PROVE  TInv'
  BY <1>3, InsertPriceType, InsertOpenType, InsertLiquidationType, InsertSnapshotType,
     InsertCloseType
<1>4. ASSUME NEW delivered,
             EmitStart(delivered) \/ EmitLiquidation(delivered) \/ EmitEnd(delivered)
      PROVE  TInv'
  BY <1>4, EmitStartType, EmitLiquidationType, WindowEndsType
<1>5. ASSUME StartPoll \/ NoBlockNumber \/ Crash \/ NewBlock
      PROVE  TInv'
  BY <1>5, StartPollType, NoBlockNumberType, WindowEndsType, NewBlockType
<1> HIDE DEF TInv
<1> QED BY <1>1, <1>2, <1>3, <1>4, <1>5 DEF Next

\* Past the opening of a window poll() has one, what it processes was fetched
\* and is on the chain, and nothing is dated ahead of the chain.
THEOREM TypesHold == Spec => []TypeOK
<1>1. Init => TInv
  BY InitType
<1>2. TInv /\ [Next]_vars => TInv'
  BY NextType
<1>3. TInv => TypeOK
  BY DEF TInv
<1> QED BY <1>1, <1>2, <1>3, PTL DEF Spec

-----------------------------------------------------------------------------
(* Dates.                                                                  *)

LEMMA TablesAre ==
  ASSUME TInv
  PROVE  /\ \A i \in DOMAIN risk_events :
              /\ i \in Nat /\ risk_events[i] \in Rows /\ risk_events[i].risk \in Nat
              /\ risk_events[i].severity \in Nat /\ risk_events[i].liquidationCount \in Nat
              /\ risk_events[i].version \in {1, 2}
         /\ \A k \in DOMAIN liquidations :
              /\ k \in Nat /\ liquidations[k] = <<liquidations[k][1], liquidations[k][2]>>
              /\ liquidations[k][1] \in Nat /\ liquidations[k][2] \in Nat
<1>1. risk_events \in Seq(Rows) /\ liquidations \in Seq(Times \X Nat)
  BY DEF TInv, Types
<1>2. Times \subseteq Nat /\ Deviations \subseteq Nat
  BY AaveConfig DEF Times
<1>3. /\ Len(risk_events) \in Nat /\ DOMAIN risk_events = 1..Len(risk_events)
      /\ Len(liquidations) \in Nat /\ DOMAIN liquidations = 1..Len(liquidations)
  BY <1>1, LenProperties
<1>4. \A i \in DOMAIN risk_events : risk_events[i] \in Rows
  BY <1>1, <1>3, ElementOfSeq
<1>5. \A k \in DOMAIN liquidations : liquidations[k] \in Times \X Nat
  BY <1>1, <1>3, ElementOfSeq
<1>6. ASSUME NEW i \in DOMAIN risk_events
      PROVE  /\ risk_events[i].risk \in Nat /\ risk_events[i].severity \in Nat
             /\ risk_events[i].liquidationCount \in Nat /\ risk_events[i].version \in {1, 2}
  <2>1. PICK row \in Rows : row = risk_events[i]
    BY <1>4
  <2>2. /\ row.risk \in Times /\ row.severity \in Deviations /\ row.version \in {1, 2}
        /\ row.liquidationCount \in Nat
    BY DEF Rows
  <2> QED BY <1>2, <2>1, <2>2
<1>7. ASSUME NEW k \in DOMAIN liquidations
      PROVE  /\ liquidations[k] = <<liquidations[k][1], liquidations[k][2]>>
             /\ liquidations[k][1] \in Nat /\ liquidations[k][2] \in Nat
  <2>1. PICK risk \in Times, event \in Nat : liquidations[k] = <<risk, event>>
    BY <1>5
  <2> QED BY <1>2, <2>1
<1>8. DOMAIN risk_events \subseteq Nat /\ DOMAIN liquidations \subseteq Nat
  BY <1>3
<1> QED BY <1>4, <1>6, <1>7, <1>8

LEMMA RowAppended ==
  ASSUME TInv, NEW row \in Rows, risk_events' = Append(risk_events, row)
  PROVE  /\ \A i \in DOMAIN risk_events :
              /\ i \in DOMAIN risk_events' /\ risk_events'[i] = risk_events[i]
              /\ i \in Nat /\ i < Len(risk_events) + 1
         /\ \A i \in DOMAIN risk_events' :
              \/ i \in DOMAIN risk_events /\ risk_events'[i] = risk_events[i]
              \/ i = Len(risk_events) + 1 /\ risk_events'[i] = row
         /\ Len(risk_events) + 1 \in DOMAIN risk_events' /\ Len(risk_events) + 1 \in Nat
<1>1. risk_events \in Seq(Rows)
  BY DEF TInv, Types
<1>2. /\ Len(risk_events) \in Nat /\ DOMAIN risk_events = 1..Len(risk_events)
      /\ DOMAIN risk_events' = 1..(Len(risk_events) + 1)
      /\ \A i \in DOMAIN risk_events : risk_events'[i] = risk_events[i]
      /\ risk_events'[Len(risk_events) + 1] = row
  BY <1>1, AppendAll
<1> QED BY <1>2

LEMMA LiquidationAppended ==
  ASSUME TInv, NEW key \in Times \X Nat, liquidations' = Append(liquidations, key)
  PROVE  /\ \A k \in DOMAIN liquidations :
              /\ k \in DOMAIN liquidations' /\ liquidations'[k] = liquidations[k]
              /\ k \in Nat /\ k < Len(liquidations) + 1
         /\ \A k \in DOMAIN liquidations' :
              \/ k \in DOMAIN liquidations /\ liquidations'[k] = liquidations[k]
              \/ k = Len(liquidations) + 1 /\ liquidations'[k] = key
         /\ Len(liquidations) + 1 \in DOMAIN liquidations' /\ Len(liquidations) + 1 \in Nat
<1>1. liquidations \in Seq(Times \X Nat)
  BY DEF TInv, Types
<1>2. /\ Len(liquidations) \in Nat /\ DOMAIN liquidations = 1..Len(liquidations)
      /\ DOMAIN liquidations' = 1..(Len(liquidations) + 1)
      /\ \A k \in DOMAIN liquidations : liquidations'[k] = liquidations[k]
      /\ liquidations'[Len(liquidations) + 1] = key
  BY <1>1, AppendAll
<1> QED BY <1>2

\* The rows are there after a step as before it, but for one that may be new.
RowsNow(row) ==
  \A i \in DOMAIN risk_events' :
    \/ i \in DOMAIN risk_events /\ risk_events'[i] = risk_events[i]
    \/ risk_events'[i] = row
LiquidationsNow(key) ==
  \A k \in DOMAIN liquidations' :
    \/ k \in DOMAIN liquidations /\ liquidations'[k] = liquidations[k]
    \/ liquidations'[k] = key

\* What an insert leaves in its table.
LEMMA InsertsLeave ==
  ASSUME TInv, NEW outcome
  PROVE  /\ InsertOpen(outcome) => RowsNow(OpenRow)
         /\ InsertClose(outcome) => RowsNow(ResolvedRow)
         /\ InsertLiquidation(outcome) => LiquidationsNow(Key)
<1>1. ASSUME InsertOpen(outcome) PROVE RowsNow(OpenRow)
  <2>1. risk_events' = risk_events \/ risk_events' = Append(risk_events, OpenRow)
    BY <1>1 DEF InsertOpen
  <2>2. PICK row \in Rows : row = OpenRow
    BY <1>1, RowsTyped DEF InsertOpen
  <2> QED BY <2>1, <2>2, RowAppended DEF RowsNow
<1>2. ASSUME InsertClose(outcome) PROVE RowsNow(ResolvedRow)
  <2>1. risk_events' = risk_events \/ risk_events' = Append(risk_events, ResolvedRow)
    BY <1>2 DEF InsertClose
  <2>2. PICK row \in Rows : row = ResolvedRow
    BY <1>2, RowsTyped DEF InsertClose
  <2> QED BY <2>1, <2>2, RowAppended DEF RowsNow
<1>3. ASSUME InsertLiquidation(outcome) PROVE LiquidationsNow(Key)
  <2>1. liquidations' = liquidations \/ liquidations' = Append(liquidations, Key)
    BY <1>3 DEF InsertLiquidation
  <2>2. window # None /\ batch # {}
    BY <1>3 DEF InsertLiquidation, TInv, TypeOK
  <2>3. PICK key \in Times \X Nat : key = Key
    BY <2>2, KeyIs
  <2> QED BY <2>1, <2>3, LiquidationAppended DEF LiquidationsNow
<1> QED BY <1>1, <1>2, <1>3

\* What a poll finds leads to: a batch to process, or none and the end of the
\* poll; the window goes on.
LEMMA PollLeads ==
  ASSUME TInv, NEW current \in MaxOf(head - MaxLag, 1)..head, NEW found \in SUBSET InRange(current),
         PollLiquidations(current, found)
  PROVE  /\ pc = "poll_liquidations" /\ window # None /\ price \in Prices
         /\ UNCHANGED <<now, tables, chain>>
         /\ window' # None /\ window'.risk = window.risk
         /\ window.maxDeviation <= window'.maxDeviation
         /\ window'.maxDeviation \in {window.maxDeviation, price.deviation}
         /\ window'.liquidationCount = window.liquidationCount
         /\ \/ found = {} /\ pc' \in {"sleep", "insert_close"} /\ batch' = {} /\ fetched' = 0
            \/ pc' = "insert_liquidation" /\ batch' = found /\ fetched' = Cardinality(found)
         /\ pc' # "sleep" => price' = price
<1>1. /\ pc = "poll_liquidations" /\ window # None /\ price \in Prices
      /\ UNCHANGED <<now, tables, chain>>
  BY PollIs DEF PollLiquidations, TInv, TypeOK
<1>2. CASE found = {}
  <2>1. PICK count \in Nat : count = window.liquidationCount
    BY <1>1, WindowIs
  <2>2. AfterLiquidations(count)
    BY <1>2, <2>1 DEF PollLiquidations
  <2> QED BY <1>1, <1>2, <2>1, <2>2, AfterLiquidationsType
<1>3. CASE found # {}
  <2>1. window.maxDeviation \in Nat
    BY <1>1, WindowIs
  <2>2. /\ pc' = "insert_liquidation" /\ batch' = found /\ fetched' = Cardinality(found)
        /\ window' = window /\ price' = price
    BY <1>3 DEF PollLiquidations
  <2> QED BY <1>1, <2>1, <2>2
<1> QED BY <1>2, <1>3

\* What the webhook of a liquidation leads to: the next one of its batch, or the
\* end of the poll, with the whole batch counted.
LEMMA EmitLeads ==
  ASSUME TInv, NEW delivered, EmitLiquidation(delivered)
  PROVE  /\ pc = "emit_liquidation" /\ window # None /\ price \in Prices /\ batch # {}
         /\ UNCHANGED <<now, lastProcessedBlock, price_samples, risk_events, liquidations, snapshots, chain>>
         /\ window' # None /\ window'.risk = window.risk
         /\ window.maxDeviation <= window'.maxDeviation
         /\ window'.maxDeviation \in {window.maxDeviation, price.deviation}
         /\ \/ /\ batch = {Current} /\ pc' \in {"sleep", "insert_close"} /\ batch' = {} /\ fetched' = 0
               /\ window'.liquidationCount = window.liquidationCount + fetched
            \/ /\ pc' = "insert_liquidation" /\ batch' = batch \ {Current} /\ fetched' = fetched
               /\ window' = window
         /\ pc' # "sleep" => price' = price
<1>1. /\ pc = "emit_liquidation" /\ window # None /\ price \in Prices /\ batch # {}
      /\ UNCHANGED <<now, lastProcessedBlock, price_samples, risk_events, liquidations, snapshots, chain>>
  BY PollIs DEF EmitLiquidation, TInv, TypeOK
<1>2. CASE batch = {Current}
  <2>1. window.liquidationCount \in Nat /\ fetched \in Nat
    BY <1>1, WindowIs DEF TInv, Types
  <2>2. PICK count \in Nat : count = window.liquidationCount + fetched
    BY <2>1
  <2>3. AfterLiquidations(count)
    BY <1>2, <2>2 DEF EmitLiquidation
  <2> QED BY <1>1, <1>2, <2>2, <2>3, AfterLiquidationsType
<1>3. CASE batch # {Current}
  <2>1. window.maxDeviation \in Nat
    BY <1>1, WindowIs
  <2>2. /\ pc' = "insert_liquidation" /\ batch' = batch \ {Current} /\ fetched' = fetched
        /\ window' = window /\ price' = price
    BY <1>3 DEF EmitLiquidation
  <2> QED BY <1>1, <2>1, <2>2
<1> QED BY <1>2, <1>3

\* Steps that leave the dates and both tables, and do not begin a poll.
LEMMA DatesStay ==
  ASSUME Dated, now' = now, risk_events' = risk_events, liquidations' = liquidations,
         window' = None \/ (window' # None /\ window'.risk <= now),
         window' = None /\ pc' \in {"insert_price", "insert_open", "emit_start"} =>
           window = None /\ pc \in {"insert_price", "insert_open", "emit_start"},
         window' = None /\ pc' \in {"insert_price", "insert_open"} =>
           window = None /\ pc \in {"insert_price", "insert_open"}
  PROVE  Dated'
  BY DEF Dated

LEMMA NextDated ==
  ASSUME TInv, Dated, [Next]_vars
  PROVE  Dated'
<1>1. ASSUME StartPoll PROVE Dated'
  <2>1. /\ pc' = "insert_price" /\ now < now' /\ UNCHANGED <<window, risk_events, liquidations>>
    BY <1>1 DEF StartPoll, tables
  <2>2. now \in Nat /\ now' \in Nat /\ (window # None => window.risk \in Nat)
    BY <1>1, ChainIs, WindowIs DEF StartPoll
  <2>3. /\ \A i \in DOMAIN risk_events : risk_events[i].risk \in Nat
        /\ \A k \in DOMAIN liquidations : liquidations[k][1] \in Nat
    BY TablesAre
  <2> QED BY <2>1, <2>2, <2>3 DEF Dated
<1>2. ASSUME NEW outcome, InsertPrice(outcome) PROVE Dated'
  <2>1. /\ pc = "insert_price" /\ pc' \in {Branch, "sleep"}
        /\ UNCHANGED <<now, window, risk_events, liquidations>>
    BY <1>2 DEF InsertPrice, GoTo
  <2>2. Branch \in {"poll_liquidations", "insert_open", "sleep"}
    BY BranchIs
  <2> QED BY <2>1, <2>2, DatesStay DEF Dated
<1>3. ASSUME NEW outcome, InsertOpen(outcome) PROVE Dated'
  <2>1. /\ pc = "insert_open" /\ pc' \in {"emit_start", "sleep"} /\ window = None
        /\ UNCHANGED <<now, window, liquidations>> /\ now \in Nat
    BY <1>3, PollIs DEF InsertOpen, GoTo, TInv, TypeOK
  <2>2. RowsNow(OpenRow) /\ OpenRow.risk = now
    BY <1>3, InsertsLeave DEF OpenRow
  <2> QED BY <2>1, <2>2 DEF Dated, RowsNow
<1>4. ASSUME NEW delivered, EmitStart(delivered) PROVE Dated'
  <2>1. /\ pc' = "poll_liquidations" /\ UNCHANGED <<now, risk_events, liquidations>>
        /\ pc = "emit_start"
    BY <1>4 DEF EmitStart, GoTo
  <2>2. window' # None /\ window'.risk = now /\ now \in Nat
    BY <1>4, <2>1, EmitStartType, AaveConfig, PollIs
  <2> QED BY <2>1, <2>2, DatesStay
<1>5. ASSUME NEW current \in MaxOf(head - MaxLag, 1)..head, NEW found \in SUBSET InRange(current),
             PollLiquidations(current, found)
      PROVE  Dated'
  BY <1>5, PollLeads, DatesStay DEF Dated, tables
<1>6. ASSUME NEW outcome, InsertLiquidation(outcome) PROVE Dated'
  <2>1. window # None /\ batch # {} /\ UNCHANGED <<now, window, risk_events>>
    BY <1>6 DEF InsertLiquidation, TInv, TypeOK
  <2>2. LiquidationsNow(Key) /\ Key[1] = window.risk
    BY <1>6, <2>1, InsertsLeave, KeyIs
  <2> QED BY <2>1, <2>2 DEF Dated, LiquidationsNow
<1>7. ASSUME NEW outcome, InsertSnapshot(outcome) PROVE Dated'
  <2>1. window # None /\ UNCHANGED <<now, window, risk_events, liquidations>>
    BY <1>7 DEF InsertSnapshot, TInv, TypeOK
  <2> QED BY <2>1, DatesStay DEF Dated
<1>8. ASSUME NEW delivered, EmitLiquidation(delivered) PROVE Dated'
  BY <1>8, EmitLeads, DatesStay DEF Dated
<1>9. ASSUME NEW outcome, InsertClose(outcome) PROVE Dated'
  <2>1. window # None /\ UNCHANGED <<now, window, liquidations>>
    BY <1>9 DEF InsertClose, TInv, TypeOK
  <2>2. RowsNow(ResolvedRow) /\ ResolvedRow.risk = window.risk
    BY <1>9, InsertsLeave DEF ResolvedRow
  <2> QED BY <2>1, <2>2 DEF Dated, RowsNow
<1>10. ASSUME (\E delivered : EmitEnd(delivered)) \/ Crash PROVE Dated'
  <2>1. pc' = "sleep" /\ window' = None /\ UNCHANGED <<now, risk_events, liquidations>>
    BY <1>10 DEF EmitEnd, Crash, GoTo, tables
  <2> QED BY <2>1, DatesStay
<1>11. ASSUME NoBlockNumber PROVE Dated'
  <2>1. pc' = "sleep" /\ UNCHANGED <<now, window, risk_events, liquidations>>
    BY <1>11 DEF NoBlockNumber, GoTo, tables
  <2> QED BY <2>1 DEF Dated
<1>12. ASSUME NewBlock \/ UNCHANGED vars PROVE Dated'
  <2>1. UNCHANGED <<pc, now, window, risk_events, liquidations>>
    BY <1>12 DEF NewBlock, vars, memory, tables
  <2> QED BY <2>1 DEF Dated
<1> QED BY <1>1, <1>2, <1>3, <1>4, <1>5, <1>6, <1>7, <1>8, <1>9, <1>10, <1>11, <1>12 DEF Next

-----------------------------------------------------------------------------
(* Severities.                                                             *)

\* Steps that leave the samples, the date and the rows.
LEMMA WitnessesStay ==
  ASSUME Witnessed, UNCHANGED <<now, price_samples, risk_events>>,
         pc' \notin {"sleep", "insert_price"} => price' = price /\ pc \notin {"sleep", "insert_price"},
         window' = None \/ \E p \in price_samples :
           p.loss = window'.maxDeviation /\ window'.risk <= p.ts /\ p.ts <= now
  PROVE  Witnessed'
<1>1. SeverityWitnessed'
  BY DEF Witnessed, SeverityWitnessed
<1>2. pc' \notin {"sleep", "insert_price"} => [ts |-> now', loss |-> price'.deviation] \in price_samples'
  BY DEF Witnessed
<1> QED BY <1>1, <1>2 DEF Witnessed

\* The window goes on with the largest deviation so far.
LEMMA WindowWitnessed ==
  ASSUME TInv, Dated, Witnessed, pc \notin {"sleep", "insert_price"}, window # None,
         window'.risk = window.risk,
         window'.maxDeviation \in {window.maxDeviation, price.deviation}
  PROVE  \E p \in price_samples :
           p.loss = window'.maxDeviation /\ window'.risk <= p.ts /\ p.ts <= now
<1>1. CASE window'.maxDeviation = window.maxDeviation
  BY <1>1 DEF Witnessed
<1>2. CASE window'.maxDeviation = price.deviation
  <2> DEFINE p == [ts |-> now, loss |-> price.deviation]
  <2>1. p \in price_samples /\ p.ts = now /\ p.loss = price.deviation
    BY DEF Witnessed
  <2>2. window.risk <= now /\ now <= now
    BY PollIs DEF Dated
  <2> QED BY <1>2, <2>1, <2>2
<1> QED BY <1>1, <1>2

LEMMA RowWitnessed ==
  ASSUME Witnessed, NEW row, RowsNow(row), UNCHANGED price_samples,
         \E p \in price_samples :
           /\ p.loss = row.severity /\ row.risk <= p.ts
           /\ row.state = "RESOLVED" => p.ts <= row.end
  PROVE  SeverityWitnessed'
<1>1. ASSUME NEW i \in DOMAIN risk_events'
      PROVE  \E p \in price_samples' :
               /\ p.loss = risk_events'[i].severity /\ risk_events'[i].risk <= p.ts
               /\ risk_events'[i].state = "RESOLVED" => p.ts <= risk_events'[i].end
  <2>1. CASE i \in DOMAIN risk_events /\ risk_events'[i] = risk_events[i]
    BY <2>1 DEF Witnessed, SeverityWitnessed
  <2>2. CASE risk_events'[i] = row
    BY <2>2
  <2> QED BY <2>1, <2>2 DEF RowsNow
<1> QED BY <1>1 DEF SeverityWitnessed

LEMMA NextWitnessed ==
  ASSUME TInv, Dated, Witnessed, [Next]_vars
  PROVE  Witnessed'
<1> DEFINE sample == [ts |-> now, loss |-> price.deviation]
<1>1. ASSUME StartPoll PROVE Witnessed'
  <2>1. /\ pc' = "insert_price" /\ now < now' /\ UNCHANGED <<window, price_samples, risk_events>>
        /\ now \in Nat /\ now' \in Nat
    BY <1>1, ChainIs DEF StartPoll, tables
  <2>2. SeverityWitnessed'
    BY <2>1 DEF Witnessed, SeverityWitnessed
  <2> QED BY <2>1, <2>2 DEF Witnessed
<1>2. ASSUME NEW outcome, InsertPrice(outcome) PROVE Witnessed'
  <2>1. /\ pc = "insert_price" /\ UNCHANGED <<now, window, risk_events>>
        /\ price_samples' = price_samples \/ price_samples' = price_samples \cup {sample}
    BY <1>2 DEF InsertPrice
  <2>2. now \in Nat
    BY <2>1, PollIs
  <2>3. \A p \in price_samples' : p.ts \in Nat
    BY <2>1, <2>2 DEF Witnessed
  <2>4. pc' # "sleep" => price' = price /\ sample \in price_samples'
    BY <1>2 DEF InsertPrice, GoTo, Written
  <2>5. SeverityWitnessed'
    BY <2>1 DEF Witnessed, SeverityWitnessed
  <2>6. window' # None => \E p \in price_samples' :
          p.loss = window'.maxDeviation /\ window'.risk <= p.ts /\ p.ts <= now'
    BY <2>1 DEF Witnessed
  <2> QED BY <2>1, <2>3, <2>4, <2>5, <2>6 DEF Witnessed
<1>3. ASSUME NEW outcome, InsertOpen(outcome) PROVE Witnessed'
  <2>1. /\ pc = "insert_open" /\ UNCHANGED <<now, window, price_samples>>
        /\ (pc' # "sleep" => price' = price)
    BY <1>3 DEF InsertOpen, GoTo
  <2>2. sample \in price_samples /\ now \in Nat
    BY <2>1, PollIs DEF Witnessed
  <2>3. OpenRow.severity = sample.loss /\ OpenRow.risk <= sample.ts /\ OpenRow.state = "OPEN"
    BY <2>2 DEF OpenRow
  <2>4. PICK row : row = OpenRow
    OBVIOUS
  <2>5. SeverityWitnessed'
    BY <1>3, <2>1, <2>2, <2>3, <2>4, InsertsLeave, RowWitnessed
  <2> QED BY <2>1, <2>5 DEF Witnessed
<1>4. ASSUME NEW delivered, EmitStart(delivered) PROVE Witnessed'
  <2>1. /\ pc = "emit_start" /\ UNCHANGED <<now, price_samples, risk_events>> /\ price' = price
    BY <1>4 DEF EmitStart, GoTo
  <2>2. sample \in price_samples /\ sample.ts <= now /\ now <= sample.ts
    BY <2>1, PollIs DEF Witnessed
  <2>3. window'.risk = now /\ window'.maxDeviation = sample.loss
    BY <1>4, EmitStartType
  <2> HIDE DEF sample
  <2>4. \E p \in price_samples :
          p.loss = window'.maxDeviation /\ window'.risk <= p.ts /\ p.ts <= now
    BY <2>2, <2>3
  <2> QED BY <2>1, <2>4, WitnessesStay
<1>5. ASSUME NEW current \in MaxOf(head - MaxLag, 1)..head, NEW found \in SUBSET InRange(current),
             PollLiquidations(current, found)
      PROVE  Witnessed'
  BY <1>5, PollLeads, WindowWitnessed, WitnessesStay DEF tables
<1>6. ASSUME NEW outcome, InsertLiquidation(outcome) \/ InsertSnapshot(outcome) PROVE Witnessed'
  <2>1. /\ pc \in {"insert_liquidation", "insert_snapshot"}
        /\ UNCHANGED <<now, window, price_samples, risk_events>>
        /\ (pc' # "sleep" => price' = price)
    BY <1>6 DEF InsertLiquidation, InsertSnapshot, GoTo
  <2> QED BY <2>1, WitnessesStay DEF Witnessed
<1>7. ASSUME NEW delivered, EmitLiquidation(delivered) PROVE Witnessed'
  BY <1>7, EmitLeads, WindowWitnessed, WitnessesStay
<1>8. ASSUME NEW outcome, InsertClose(outcome) PROVE Witnessed'
  <2>1. /\ pc = "insert_close" /\ UNCHANGED <<now, window, price_samples>> /\ window # None
        /\ (pc' # "sleep" => price' = price)
    BY <1>8 DEF InsertClose, GoTo, TInv, TypeOK
  <2>2. /\ ResolvedRow.severity = window.maxDeviation /\ ResolvedRow.risk = window.risk
        /\ ResolvedRow.end = now
    BY DEF ResolvedRow
  <2>3. PICK row : row = ResolvedRow
    OBVIOUS
  <2>4. \E p \in price_samples :
          /\ p.loss = row.severity /\ row.risk <= p.ts
          /\ row.state = "RESOLVED" => p.ts <= row.end
    BY <2>1, <2>2, <2>3 DEF Witnessed
  <2>5. SeverityWitnessed'
    BY <1>8, <2>1, <2>3, <2>4, InsertsLeave, RowWitnessed
  <2> QED BY <2>1, <2>5 DEF Witnessed
<1>9. ASSUME (\E delivered : EmitEnd(delivered)) \/ Crash PROVE Witnessed'
  <2>1. pc' = "sleep" /\ window' = None /\ UNCHANGED <<now, price_samples, risk_events>>
    BY <1>9 DEF EmitEnd, Crash, GoTo, tables
  <2> QED BY <2>1, WitnessesStay
<1>10. ASSUME NoBlockNumber PROVE Witnessed'
  <2>1. pc' = "sleep" /\ UNCHANGED <<now, window, price_samples, risk_events>>
    BY <1>10 DEF NoBlockNumber, GoTo, tables
  <2> QED BY <2>1, WitnessesStay DEF Witnessed
<1>11. ASSUME NewBlock \/ UNCHANGED vars PROVE Witnessed'
  <2>1. UNCHANGED <<pc, price, now, window, price_samples, risk_events>>
    BY <1>11 DEF NewBlock, vars, memory, tables
  <2> QED BY <2>1 DEF Witnessed, SeverityWitnessed
<1> HIDE DEF sample
<1> QED BY <1>1, <1>2, <1>3, <1>4, <1>5, <1>6, <1>7, <1>8, <1>9, <1>10, <1>11 DEF Next

-----------------------------------------------------------------------------
(* Webhooks.                                                               *)

\* Nothing that is on file is removed.
TablesGrow ==
  /\ \A i \in DOMAIN risk_events : i \in DOMAIN risk_events' /\ risk_events'[i] = risk_events[i]
  /\ \A k \in DOMAIN liquidations : k \in DOMAIN liquidations' /\ liquidations'[k] = liquidations[k]
  /\ snapshots \subseteq snapshots'

LEMMA NextTablesGrow ==
  ASSUME TInv, [Next]_vars
  PROVE  TablesGrow
<1>1. snapshots \subseteq snapshots'
  BY DEF Next, vars, tables, StartPoll, InsertPrice, InsertOpen, EmitStart, NoBlockNumber,
         PollLiquidations, InsertLiquidation, InsertSnapshot, EmitLiquidation, InsertClose,
         EmitEnd, Crash, NewBlock
<1>2. CASE risk_events' = risk_events /\ liquidations' = liquidations
  BY <1>1, <1>2 DEF TablesGrow
<1>3. ASSUME NEW outcome, InsertOpen(outcome), ~(risk_events' = risk_events) PROVE TablesGrow
  <2>1. risk_events' = Append(risk_events, OpenRow) /\ liquidations' = liquidations
    BY <1>3 DEF InsertOpen
  <2>2. PICK row \in Rows : row = OpenRow
    BY <1>3, RowsTyped DEF InsertOpen
  <2> QED BY <1>1, <2>1, <2>2, RowAppended DEF TablesGrow
<1>4. ASSUME NEW outcome, InsertClose(outcome), ~(risk_events' = risk_events) PROVE TablesGrow
  <2>1. risk_events' = Append(risk_events, ResolvedRow) /\ liquidations' = liquidations
    BY <1>4 DEF InsertClose
  <2>2. PICK row \in Rows : row = ResolvedRow
    BY <1>4, RowsTyped DEF InsertClose
  <2> QED BY <1>1, <2>1, <2>2, RowAppended DEF TablesGrow
<1>5. ASSUME NEW outcome, InsertLiquidation(outcome), ~(liquidations' = liquidations)
      PROVE  TablesGrow
  <2>1. liquidations' = Append(liquidations, Key) /\ risk_events' = risk_events
    BY <1>5 DEF InsertLiquidation
  <2>2. window # None /\ batch # {}
    BY <1>5 DEF InsertLiquidation, TInv, TypeOK
  <2>3. PICK key \in Times \X Nat : key = Key
    BY <2>2, KeyIs
  <2> QED BY <1>1, <2>1, <2>3, LiquidationAppended DEF TablesGrow
<1>6. \/ risk_events' = risk_events /\ liquidations' = liquidations
      \/ \E outcome : \/ InsertOpen(outcome) \/ InsertClose(outcome)
                      \/ InsertLiquidation(outcome)
  BY DEF Next, vars, tables, StartPoll, InsertPrice, EmitStart, NoBlockNumber,
         PollLiquidations, InsertSnapshot, EmitLiquidation, EmitEnd, Crash, NewBlock
<1>7. ASSUME NEW outcome, InsertOpen(outcome) \/ InsertClose(outcome)
      PROVE  liquidations' = liquidations
  BY <1>7 DEF InsertOpen, InsertClose
<1>8. ASSUME NEW outcome, InsertLiquidation(outcome)
      PROVE  risk_events' = risk_events
  BY <1>8 DEF InsertLiquidation
<1> HIDE DEF TablesGrow
<1> QED BY <1>2, <1>3, <1>4, <1>5, <1>6, <1>7, <1>8

\* A webhook that is backed stays so.
WebhookBacked(w) ==
  /\ \E i \in DOMAIN risk_events :
       /\ risk_events[i].risk = w.risk
       /\ w.kind = "DEPEG_END" => risk_events[i].state = "RESOLVED"
  /\ w.kind = "DEPEG_LIQ" =>
       /\ \E k \in DOMAIN liquidations : liquidations[k] = <<w.risk, w.event>>
       /\ <<w.risk, w.event>> \in snapshots

LEMMA WebhooksStay ==
  ASSUME WebhooksBacked, TablesGrow, \A w \in webhooks' : w \in webhooks \/ WebhookBacked(w)
  PROVE  WebhooksBacked'
<1>1. ASSUME NEW w \in webhooks', WebhookBacked(w)
      PROVE  /\ \E i \in DOMAIN risk_events' :
                  /\ risk_events'[i].risk = w.risk
                  /\ w.kind = "DEPEG_END" => risk_events'[i].state = "RESOLVED"
             /\ w.kind = "DEPEG_LIQ" =>
                  /\ \E i \in DOMAIN liquidations' : liquidations'[i] = <<w.risk, w.event>>
                  /\ <<w.risk, w.event>> \in snapshots'
  <2>1. \E i \in DOMAIN risk_events' :
          /\ risk_events'[i].risk = w.risk
          /\ w.kind = "DEPEG_END" => risk_events'[i].state = "RESOLVED"
    BY <1>1 DEF WebhookBacked, TablesGrow
  <2>2. ASSUME w.kind = "DEPEG_LIQ"
        PROVE  /\ \E i \in DOMAIN liquidations' : liquidations'[i] = <<w.risk, w.event>>
               /\ <<w.risk, w.event>> \in snapshots'
    BY <1>1, <2>2 DEF WebhookBacked, TablesGrow
  <2> QED BY <2>1, <2>2
<1>2. \A w \in webhooks : WebhookBacked(w)
  BY DEF WebhooksBacked, WebhookBacked
<1>3. \A w \in webhooks' : WebhookBacked(w)
  BY <1>2
<1> HIDE DEF WebhookBacked
<1> QED BY <1>1, <1>3 DEF WebhooksBacked

\* Steps that lead where nothing has to be on file but the window's risk.
LEMMA BackedStays ==
  ASSUME Backed, TablesGrow, webhooks' = webhooks,
         window' = None \/ (window # None /\ window'.risk = window.risk),
         pc' \notin {"emit_start", "emit_end", "insert_snapshot", "emit_liquidation"}
  PROVE  Backed'
<1>1. WebhooksBacked'
  BY WebhooksStay DEF Backed
<1>2. window' # None =>
        \E i \in DOMAIN risk_events' : risk_events'[i].risk = window'.risk
  BY DEF Backed, TablesGrow
<1> QED BY <1>1, <1>2 DEF Backed

LEMMA NotifyAdds ==
  ASSUME NEW kind, NEW key, NEW delivered, Notify(kind, key, delivered)
  PROVE  \A w \in webhooks' :
           w \in webhooks \/ (w.kind = kind /\ w.risk = key[1] /\ w.event = key[2])
  BY DEF Notify

LEMMA NextBacked ==
  ASSUME TInv, Dated, Backed, [Next]_vars
  PROVE  Backed'
<1> USE NextTablesGrow
<1>1. ASSUME StartPoll PROVE Backed'
  <2>1. pc' = "insert_price" /\ UNCHANGED <<window, webhooks>>
    BY <1>1 DEF StartPoll, tables
  <2> QED BY <2>1, BackedStays
<1>2. ASSUME NEW outcome, InsertPrice(outcome) PROVE Backed'
  <2>1. pc' \in {Branch, "sleep"} /\ UNCHANGED <<window, webhooks>>
    BY <1>2 DEF InsertPrice, GoTo
  <2> QED BY <2>1, BranchIs, BackedStays
<1>3. ASSUME NEW outcome, InsertOpen(outcome) PROVE Backed'
  <2>1. /\ pc = "insert_open" /\ UNCHANGED <<now, window, webhooks>> /\ pc' \in {"emit_start", "sleep"}
        /\ pc' = "emit_start" => risk_events' = Append(risk_events, OpenRow)
    BY <1>3 DEF InsertOpen, GoTo, Written
  <2>2. ASSUME pc' = "emit_start"
        PROVE  \E i \in DOMAIN risk_events' : risk_events'[i].risk = now
    <3>1. PICK row \in Rows : row = OpenRow
      BY <2>1, RowsTyped
    <3>2. row.risk = now
      BY <3>1 DEF OpenRow
    <3>3. risk_events' = Append(risk_events, row)
      BY <2>1, <2>2, <3>1
    <3>4. /\ Len(risk_events) + 1 \in DOMAIN risk_events'
          /\ risk_events'[Len(risk_events) + 1] = row
      BY <3>3, RowAppended
    <3> QED BY <3>2, <3>4
  <2>3. WebhooksBacked'
    BY <2>1, WebhooksStay DEF Backed
  <2>4. window' # None =>
          \E i \in DOMAIN risk_events' : risk_events'[i].risk = window'.risk
    BY <2>1 DEF Backed, TablesGrow
  <2> QED BY <2>1, <2>2, <2>3, <2>4 DEF Backed
<1>4. ASSUME NEW delivered, EmitStart(delivered) PROVE Backed'
  <2>1. /\ pc = "emit_start" /\ pc' = "poll_liquidations" /\ UNCHANGED <<now, risk_events>>
        /\ Notify("DEPEG_START", <<now, None>>, delivered)
    BY <1>4 DEF EmitStart, GoTo
  <2>2. window'.risk = now
    BY <1>4, EmitStartType
  <2>3. \A w \in webhooks' : w \in webhooks \/ WebhookBacked(w)
    <3>1. \A w \in webhooks' : w \in webhooks \/ (w.kind = "DEPEG_START" /\ w.risk = now)
      BY <2>1, NotifyAdds
    <3> QED BY <2>1, <3>1 DEF WebhookBacked, Backed
  <2>4. WebhooksBacked'
    BY <2>3, WebhooksStay DEF Backed
  <2> QED BY <2>1, <2>2, <2>4 DEF Backed
<1>5. ASSUME NEW current \in MaxOf(head - MaxLag, 1)..head, NEW found \in SUBSET InRange(current),
             PollLiquidations(current, found)
      PROVE  Backed'
  <2>1. /\ window # None /\ window'.risk = window.risk /\ webhooks' = webhooks
        /\ pc' \in {"sleep", "insert_close", "insert_liquidation"}
    BY <1>5, PollLeads DEF tables
  <2> QED BY <2>1, BackedStays
<1>6. ASSUME NEW outcome, InsertLiquidation(outcome) PROVE Backed'
  <2>1. /\ pc = "insert_liquidation" /\ UNCHANGED <<window, webhooks, risk_events>>
        /\ pc' \in {"sleep", "insert_snapshot"}
        /\ pc' = "insert_snapshot" => liquidations' = Append(liquidations, Key) /\ batch' = batch
    BY <1>6 DEF InsertLiquidation, GoTo, Written
  <2>2. CASE pc' = "sleep"
    BY <2>1, <2>2, BackedStays DEF Backed
  <2>3. CASE pc' = "insert_snapshot"
    <3>1. window # None /\ batch # {}
      BY <2>1 DEF TInv, TypeOK
    <3>2. Key' = Key
      BY <2>1, <2>3 DEF Key, Current
    <3>3. PICK key \in Times \X Nat : key = Key
      BY <3>1, KeyIs
    <3>4. liquidations' = Append(liquidations, key)
      BY <2>1, <2>3, <3>3
    <3>5. /\ Len(liquidations) + 1 \in DOMAIN liquidations'
          /\ liquidations'[Len(liquidations) + 1] = key
      BY <3>4, LiquidationAppended
    <3>6. \E k \in DOMAIN liquidations' : liquidations'[k] = Key'
      BY <3>2, <3>3, <3>5
    <3>7. WebhooksBacked'
      BY <2>1, WebhooksStay DEF Backed
    <3>8. \E i \in DOMAIN risk_events' : risk_events'[i].risk = window'.risk
      BY <2>1, <3>1 DEF Backed
    <3> QED BY <2>3, <3>6, <3>7, <3>8 DEF Backed
  <2> QED BY <2>1, <2>2, <2>3
<1>7. ASSUME NEW outcome, InsertSnapshot(outcome) PROVE Backed'
  <2>1. /\ pc = "insert_snapshot" /\ UNCHANGED <<window, webhooks, risk_events, liquidations>>
        /\ pc' \in {"sleep", "emit_liquidation"}
        /\ pc' = "emit_liquidation" => Key \in snapshots' /\ batch' = batch
    BY <1>7 DEF InsertSnapshot, GoTo, Written
  <2>2. CASE pc' = "sleep"
    BY <2>1, <2>2, BackedStays DEF Backed
  <2>3. CASE pc' = "emit_liquidation"
    <3>1. Key' = Key
      BY <2>1, <2>3 DEF Key, Current
    <3>2. WebhooksBacked'
      BY <2>1, WebhooksStay DEF Backed
    <3>3. Key' \in snapshots' /\ \E k \in DOMAIN liquidations' : liquidations'[k] = Key'
      BY <2>1, <2>3, <3>1 DEF Backed
    <3>4. window' # None => \E i \in DOMAIN risk_events' : risk_events'[i].risk = window'.risk
      BY <2>1 DEF Backed
    <3> QED BY <2>3, <3>2, <3>3, <3>4 DEF Backed
  <2> QED BY <2>1, <2>2, <2>3
<1>8. ASSUME NEW delivered, EmitLiquidation(delivered) PROVE Backed'
  <2>1. /\ pc = "emit_liquidation" /\ window # None /\ batch # {} /\ window'.risk = window.risk
        /\ window' # None
        /\ UNCHANGED <<risk_events, liquidations, snapshots>>
        /\ pc' \in {"sleep", "insert_close", "insert_liquidation"}
    BY <1>8, EmitLeads
  <2>2. Notify("DEPEG_LIQ", Key, delivered)
    BY <1>8 DEF EmitLiquidation
  <2>3. \A w \in webhooks' : w \in webhooks \/ WebhookBacked(w)
    <3>1. \A w \in webhooks' :
            w \in webhooks \/ (w.kind = "DEPEG_LIQ" /\ w.risk = Key[1] /\ w.event = Key[2])
      BY <2>2, NotifyAdds
    <3>2. Key = <<Key[1], Key[2]>> /\ Key[1] = window.risk
      BY DEF Key
    <3>3. /\ \E i \in DOMAIN risk_events : risk_events[i].risk = window.risk
          /\ Key \in snapshots /\ \E k \in DOMAIN liquidations : liquidations[k] = Key
      BY <2>1 DEF Backed
    <3>4. ASSUME NEW w, w.kind = "DEPEG_LIQ", w.risk = Key[1], w.event = Key[2]
          PROVE  WebhookBacked(w)
      <4>1. <<w.risk, w.event>> = Key
        BY <3>2, <3>4
      <4>2. w.kind # "DEPEG_END" /\ w.risk = window.risk
        BY <3>2, <3>4
      <4> HIDE DEF Key
      <4> QED BY <3>3, <4>1, <4>2 DEF WebhookBacked
    <3> HIDE DEF WebhookBacked
    <3> QED BY <3>1, <3>4
  <2>4. WebhooksBacked'
    BY <2>3, WebhooksStay DEF Backed
  <2> QED BY <2>1, <2>4 DEF Backed
<1>9. ASSUME NEW outcome, InsertClose(outcome) PROVE Backed'
  <2>1. /\ pc = "insert_close" /\ UNCHANGED <<window, webhooks>> /\ pc' \in {"emit_end", "sleep"}
        /\ pc' = "emit_end" => risk_events' = Append(risk_events, ResolvedRow)
    BY <1>9 DEF InsertClose, GoTo, Written
  <2>2. ASSUME pc' = "emit_end"
        PROVE  \E i \in DOMAIN risk_events' :
                 risk_events'[i].risk = window.risk /\ risk_events'[i].state = "RESOLVED"
    <3>1. PICK row \in Rows : row = ResolvedRow
      BY <2>1, RowsTyped
    <3>2. row.risk = window.risk /\ row.state = "RESOLVED"
      BY <3>1 DEF ResolvedRow
    <3>3. risk_events' = Append(risk_events, row)
      BY <2>1, <2>2, <3>1
    <3>4. /\ Len(risk_events) + 1 \in DOMAIN risk_events'
          /\ risk_events'[Len(risk_events) + 1] = row
      BY <3>3, RowAppended
    <3> QED BY <3>2, <3>4
  <2>3. WebhooksBacked'
    BY <2>1, WebhooksStay DEF Backed
  <2>4. window' # None =>
          \E i \in DOMAIN risk_events' : risk_events'[i].risk = window'.risk
    BY <2>1 DEF Backed, TablesGrow
  <2> QED BY <2>1, <2>2, <2>3, <2>4 DEF Backed
<1>10. ASSUME NEW delivered, EmitEnd(delivered) PROVE Backed'
  <2>1. /\ pc = "emit_end" /\ pc' = "sleep" /\ window' = None
        /\ Notify("DEPEG_END", <<window.risk, None>>, delivered)
    BY <1>10 DEF EmitEnd, GoTo
  <2>2. \A w \in webhooks' : w \in webhooks \/ WebhookBacked(w)
    <3>1. \A w \in webhooks' : w \in webhooks \/ (w.kind = "DEPEG_END" /\ w.risk = window.risk)
      BY <2>1, NotifyAdds
    <3> QED BY <2>1, <3>1 DEF WebhookBacked, Backed
  <2>3. WebhooksBacked'
    BY <2>2, WebhooksStay DEF Backed
  <2> QED BY <2>1, <2>3 DEF Backed
<1>11. ASSUME Crash \/ NoBlockNumber PROVE Backed'
  <2>1. pc' = "sleep" /\ webhooks' = webhooks /\ window' \in {None, window}
    BY <1>11 DEF Crash, NoBlockNumber, GoTo, tables
  <2> QED BY <2>1, BackedStays
<1>12. ASSUME NewBlock \/ UNCHANGED vars PROVE Backed'
  <2>1. UNCHANGED <<pc, now, window, batch, risk_events, liquidations, snapshots, webhooks>>
    BY <1>12 DEF NewBlock, vars, memory, tables
  <2>2. Key' = Key
    BY <2>1 DEF Key, Current
  <2> QED BY <2>1, <2>2 DEF Backed, WebhooksBacked
<1> QED BY <1>1, <1>2, <1>3, <1>4, <1>5, <1>6, <1>7, <1>8, <1>9, <1>10, <1>11, <1>12 DEF Next

-----------------------------------------------------------------------------
(* No liquidation is recorded twice.                                       *)

LEMMA OnceStays ==
  ASSUME Once, UNCHANGED <<liquidations, onChain, lastProcessedBlock>>,
         window' = None \/ (window # None /\ window'.risk = window.risk),
         batch' \subseteq batch, Pending' \subseteq Pending
  PROVE  Once'
<1>1. RecordedOncePerRisk'
  BY DEF Once, RecordedOncePerRisk
<1>2. \A e \in batch' : onChain'[e] <= lastProcessedBlock'
  BY DEF Once
<1>3. window' # None => \A k \in DOMAIN liquidations' : liquidations'[k][1] = window'.risk =>
        /\ liquidations'[k][2] \in DOMAIN onChain'
        /\ onChain'[liquidations'[k][2]] <= lastProcessedBlock'
        /\ liquidations'[k][2] \notin Pending'
  BY DEF Once
<1> QED BY <1>1, <1>2, <1>3 DEF Once

\* A batch that is dropped leaves nothing to record.
LEMMA NothingPending ==
  ASSUME batch' = {}
  PROVE  Pending' = {}
  BY DEF Pending

LEMMA SameCurrent ==
  ASSUME batch' = batch
  PROVE  Current' = Current
  BY DEF Current

\* A row of the window that is found again would lie behind the block the last
\* poll got to.
LEMMA PollOnce ==
  ASSUME TInv, Once, NEW current \in MaxOf(head - MaxLag, 1)..head,
         NEW found \in SUBSET InRange(current), PollLiquidations(current, found)
  PROVE  Once'
<1>1. /\ window # None /\ window'.risk = window.risk /\ UNCHANGED <<liquidations, onChain>>
      /\ batch' = {} \/ (pc' = "insert_liquidation" /\ batch' = found)
  BY PollLeads DEF tables, chain
<1>2. lastProcessedBlock' = MaxOf(FromBlock(current) - 1, current)
  BY DEF PollLiquidations
<1>3. /\ current \in Nat /\ FromBlock(current) \in Nat /\ lastProcessedBlock < FromBlock(current)
      /\ lastProcessedBlock <= lastProcessedBlock' /\ current <= lastProcessedBlock'
      /\ lastProcessedBlock \in Nat /\ lastProcessedBlock' \in Nat
  <2>1. /\ current \in 1..head /\ FromBlock(current) \in Nat /\ lastProcessedBlock < FromBlock(current)
        /\ lastProcessedBlock' \in 0..head
        /\ lastProcessedBlock <= lastProcessedBlock' /\ current <= lastProcessedBlock'
    BY <1>2, PolledBlocks
  <2>2. head \in Nat /\ lastProcessedBlock \in 0..head
    BY ChainIs
  <2> QED BY <2>1, <2>2
<1>4. \A e \in DOMAIN onChain : onChain[e] \in Nat
  BY ChainIs
<1>5. \A e \in found : e \in DOMAIN onChain /\ FromBlock(current) <= onChain[e] /\ onChain[e] <= current
  <2>1. found \subseteq InRange(current)
    OBVIOUS
  <2> QED BY <1>3, <1>4, <2>1 DEF InRange
<1>6. \A e \in batch' : onChain'[e] <= lastProcessedBlock'
  BY <1>1, <1>3, <1>4, <1>5
<1>7. ASSUME NEW k \in DOMAIN liquidations, liquidations[k][1] = window.risk
      PROVE  /\ liquidations[k][2] \in DOMAIN onChain
             /\ onChain[liquidations[k][2]] <= lastProcessedBlock'
             /\ liquidations[k][2] \notin Pending'
  <2>1. liquidations[k][2] \in DOMAIN onChain /\ onChain[liquidations[k][2]] <= lastProcessedBlock
    BY <1>1, <1>7 DEF Once
  <2>2. liquidations[k][2] \notin found
    BY <1>3, <1>4, <1>5, <2>1
  <2>3. Pending' \subseteq found
    BY <1>1, NothingPending DEF Pending
  <2> QED BY <1>3, <1>4, <2>1, <2>2, <2>3
<1>8. RecordedOncePerRisk'
  BY <1>1 DEF Once, RecordedOncePerRisk
<1> QED BY <1>1, <1>6, <1>7, <1>8 DEF Once

LEMMA InsertLiquidationOnce ==
  ASSUME TInv, Once, NEW outcome, InsertLiquidation(outcome)
  PROVE  Once'
<1>1. /\ pc = "insert_liquidation"
      /\ UNCHANGED <<window, onChain, lastProcessedBlock>>
      /\ \/ pc' = "sleep" /\ batch' = {}
         \/ pc' = "insert_snapshot" /\ batch' = batch
      /\ liquidations' = liquidations \/ liquidations' = Append(liquidations, Key)
  BY DEF InsertLiquidation, GoTo, chain
<1>2. window # None /\ batch # {} /\ batch \subseteq DOMAIN onChain
  BY <1>1 DEF TInv, TypeOK
<1>3. Current \in batch /\ Pending = batch
  BY <1>1, <1>2, CurrentIs DEF Pending
<1>4. PICK key \in Times \X Nat : key = Key
  BY <1>2, KeyIs
<1>5. key[1] = window.risk /\ key[2] = Current
  BY <1>2, <1>4, KeyIs
<1>6. Pending' \subseteq batch \ {Current}
  BY <1>1, NothingPending, SameCurrent DEF Pending
<1>7. \A e \in batch' : onChain'[e] <= lastProcessedBlock'
  BY <1>1 DEF Once
<1>8. \A k \in DOMAIN liquidations : liquidations[k] # key
  BY <1>2, <1>3, <1>5 DEF Once
<1>9. RecordedOncePerRisk'
  <2>1. CASE liquidations' = liquidations
    BY <2>1 DEF Once, RecordedOncePerRisk
  <2>2. CASE liquidations' = Append(liquidations, key)
    <3>1. \A k \in DOMAIN liquidations' :
            \/ k \in DOMAIN liquidations /\ liquidations'[k] = liquidations[k]
            \/ k = Len(liquidations) + 1 /\ liquidations'[k] = key
      BY <2>2, LiquidationAppended
    <3> QED BY <1>8, <3>1 DEF Once, RecordedOncePerRisk
  <2> QED BY <1>1, <1>4, <2>1, <2>2
<1>10. ASSUME NEW k \in DOMAIN liquidations', liquidations'[k][1] = window'.risk
       PROVE  /\ liquidations'[k][2] \in DOMAIN onChain'
              /\ onChain'[liquidations'[k][2]] <= lastProcessedBlock'
              /\ liquidations'[k][2] \notin Pending'
  <2>1. \/ k \in DOMAIN liquidations /\ liquidations'[k] = liquidations[k]
        \/ liquidations'[k] = key
    BY <1>4, InsertsLeave DEF LiquidationsNow
  <2>2. CASE k \in DOMAIN liquidations /\ liquidations'[k] = liquidations[k]
    BY <1>1, <1>2, <1>3, <1>6, <1>10, <2>2 DEF Once
  <2>3. CASE liquidations'[k] = key
    BY <1>1, <1>2, <1>3, <1>5, <1>6, <2>3 DEF Once
  <2> QED BY <2>1, <2>2, <2>3
<1> QED BY <1>7, <1>9, <1>10 DEF Once

LEMMA NextOnce ==
  ASSUME TInv, Dated, Once, [Next]_vars
  PROVE  Once'
<1>1. ASSUME NEW current \in MaxOf(head - MaxLag, 1)..head, NEW found \in SUBSET InRange(current),
             PollLiquidations(current, found)
      PROVE  Once'
  BY <1>1, PollOnce
<1>2. ASSUME NEW outcome, InsertLiquidation(outcome) PROVE Once'
  BY <1>2, InsertLiquidationOnce
<1>3. ASSUME StartPoll PROVE Once'
  <2>1. /\ UNCHANGED <<liquidations, onChain, lastProcessedBlock, window, batch>>
        /\ pc = "sleep" /\ pc' = "insert_price"
    BY <1>3 DEF StartPoll, tables, chain
  <2>2. Pending' = Pending
    BY <2>1 DEF Pending
  <2> QED BY <2>1, <2>2, OnceStays
<1>4. ASSUME NEW outcome, InsertPrice(outcome) \/ InsertOpen(outcome) \/ InsertClose(outcome)
      PROVE  Once'
  <2>1. UNCHANGED <<liquidations, onChain, lastProcessedBlock, window>>
    BY <1>4 DEF InsertPrice, InsertOpen, InsertClose, chain
  <2>2. batch' = {}
    BY <1>4, BranchIs DEF InsertPrice, InsertOpen, InsertClose, GoTo
  <2> QED BY <2>1, <2>2, NothingPending, OnceStays
<1>5. ASSUME NEW delivered, EmitStart(delivered) PROVE Once'
  <2>1. /\ pc = "emit_start" /\ UNCHANGED <<liquidations, onChain>> /\ batch' = {}
    BY <1>5 DEF EmitStart, GoTo, chain
  <2>2. window'.risk = now /\ now \in Nat
    BY <1>5, <2>1, EmitStartType, PollIs
  <2>3. \A k \in DOMAIN liquidations : liquidations[k][1] \in Nat /\ liquidations[k][1] < now
    BY <2>1, TablesAre DEF Dated, TInv, TypeOK
  <2>4. \A k \in DOMAIN liquidations' : liquidations'[k][1] # window'.risk
    BY <2>1, <2>2, <2>3
  <2>5. RecordedOncePerRisk'
    BY <2>1 DEF Once, RecordedOncePerRisk
  <2> QED BY <2>1, <2>4, <2>5 DEF Once
<1>6. ASSUME NEW outcome, InsertSnapshot(outcome) PROVE Once'
  <2>1. /\ pc = "insert_snapshot" /\ UNCHANGED <<liquidations, onChain, lastProcessedBlock, window>>
        /\ \/ batch' = {}
           \/ pc' = "emit_liquidation" /\ batch' = batch
    BY <1>6 DEF InsertSnapshot, GoTo, chain
  <2>2. Pending' \subseteq Pending /\ batch' \subseteq batch
    BY <2>1, NothingPending, SameCurrent DEF Pending
  <2>3. window' = None \/ (window # None /\ window'.risk = window.risk)
    BY <2>1 DEF TInv, TypeOK
  <2> QED BY <2>1, <2>2, <2>3, OnceStays
<1>7. ASSUME NEW delivered, EmitLiquidation(delivered) PROVE Once'
  <2>1. /\ pc = "emit_liquidation" /\ UNCHANGED <<liquidations, onChain, lastProcessedBlock>>
        /\ window # None /\ window'.risk = window.risk
        /\ \/ batch' = {}
           \/ pc' = "insert_liquidation" /\ batch' = batch \ {Current}
    BY <1>7, EmitLeads DEF chain
  <2>2. Pending' \subseteq Pending /\ batch' \subseteq batch
    BY <2>1, NothingPending DEF Pending
  <2> QED BY <2>1, <2>2, OnceStays
<1>8. ASSUME (\E delivered : EmitEnd(delivered)) \/ Crash PROVE Once'
  <2>1. /\ UNCHANGED <<liquidations, onChain>> /\ window' = None /\ batch' = {}
    BY <1>8 DEF EmitEnd, Crash, GoTo, tables, chain
  <2>2. RecordedOncePerRisk'
    BY <2>1 DEF Once, RecordedOncePerRisk
  <2> QED BY <2>1, <2>2 DEF Once
<1>9. ASSUME NoBlockNumber PROVE Once'
  <2>1. UNCHANGED <<liquidations, onChain, lastProcessedBlock, window>> /\ batch' = {}
    BY <1>9 DEF NoBlockNumber, GoTo, tables, chain
  <2> QED BY <2>1, NothingPending, OnceStays
<1>10. ASSUME NewBlock PROVE Once'
  <2>1. UNCHANGED <<pc, window, batch, lastProcessedBlock, liquidations>>
    BY <1>10 DEF NewBlock, memory, tables
  <2>2. \A e \in DOMAIN onChain : e \in DOMAIN onChain' /\ onChain'[e] = onChain[e]
    BY <1>10, NewBlockType
  <2>3. Pending' = Pending /\ batch \subseteq DOMAIN onChain
    BY <2>1, SameCurrent DEF Pending, TInv, TypeOK
  <2>4. RecordedOncePerRisk'
    BY <2>1 DEF Once, RecordedOncePerRisk
  <2> QED BY <2>1, <2>2, <2>3, <2>4 DEF Once
<1>11. ASSUME UNCHANGED vars PROVE Once'
  <2>1. UNCHANGED <<pc, window, batch, lastProcessedBlock, liquidations, onChain>>
    BY <1>11 DEF vars, memory, tables, chain
  <2>2. Pending' = Pending
    BY <2>1, SameCurrent DEF Pending
  <2> QED BY <2>1, <2>2, OnceStays
<1> QED BY <1>1, <1>2, <1>3, <1>4, <1>5, <1>6, <1>7, <1>8, <1>9, <1>10, <1>11 DEF Next

-----------------------------------------------------------------------------
(* Counts.                                                                 *)

LEMMA PendingCounts ==
  ASSUME TInv
  PROVE  /\ Cardinality(Pending) \in Nat /\ fetched \in Nat /\ Cardinality(Pending) <= fetched
         /\ batch = {} => Pending = {} /\ Cardinality(Pending) = 0 /\ fetched = 0
<1>1. IsFiniteSet(batch) /\ Cardinality(batch) \in Nat /\ Cardinality(batch) <= fetched /\ fetched \in Nat
  BY ChainIs DEF TInv, TypeOK, Types
<1>2. Pending \subseteq batch
  BY DEF Pending
<1>3. IsFiniteSet(Pending) /\ Cardinality(Pending) <= Cardinality(batch)
  BY <1>1, <1>2, FS_Subset
<1>4. Cardinality(Pending) \in Nat
  BY <1>3, FS_CardinalityType
<1>5. batch = {} => Pending = {} /\ Cardinality(Pending) = 0 /\ fetched = 0
  BY <1>2, FS_EmptySet DEF TInv, Types
<1> QED BY <1>1, <1>3, <1>4, <1>5

LEMMA PendingCountsNext ==
  ASSUME TInv'
  PROVE  /\ Cardinality(Pending') \in Nat /\ fetched' \in Nat
         /\ batch' = {} => Cardinality(Pending') = 0 /\ fetched' = 0
<1>1. onChain' \in Seq(Nat) /\ batch' \subseteq DOMAIN onChain'
  BY DEF TInv, TypeOK, Types
<1>2. Len(onChain') \in Nat /\ DOMAIN onChain' = 1..Len(onChain')
  BY <1>1, LenProperties
<1>3. IsFiniteSet(1..Len(onChain'))
  BY <1>2, FS_Interval
<1>4. Pending' \subseteq batch'
  BY DEF Pending
<1>5. Pending' \subseteq 1..Len(onChain')
  BY <1>1, <1>2, <1>4
<1>6. Cardinality(Pending') \in Nat
  BY <1>3, <1>5, FS_Subset, FS_CardinalityType
<1>7. fetched' \in Nat /\ (batch' = {} => fetched' = 0)
  BY DEF TInv, Types
<1>8. batch' = {} => Cardinality(Pending') = 0
  BY <1>4, FS_EmptySet
<1> QED BY <1>6, <1>7, <1>8

LEMMA RecordedCounts ==
  ASSUME TInv, NEW risk
  PROVE  IsFiniteSet(Recorded(risk)) /\ Cardinality(Recorded(risk)) \in Nat
<1>1. liquidations \in Seq(Times \X Nat)
  BY DEF TInv, Types
<1>2. DOMAIN liquidations = 1..Len(liquidations) /\ Len(liquidations) \in Nat
  BY <1>1, LenProperties
<1>3. IsFiniteSet(1..Len(liquidations))
  BY <1>2, FS_Interval
<1>4. Recorded(risk) \subseteq 1..Len(liquidations)
  BY <1>2 DEF Recorded
<1> QED BY <1>3, <1>4, FS_Subset, FS_CardinalityType

\* What is on file of a risk grows.
LEMMA RecordedGrows ==
  ASSUME TInv, TInv', TablesGrow, NEW risk
  PROVE  /\ Cardinality(Recorded(risk)) \in Nat /\ Cardinality(Recorded(risk)') \in Nat
         /\ Cardinality(Recorded(risk)) <= Cardinality(Recorded(risk)')
<1>1. Recorded(risk) \subseteq Recorded(risk)'
  BY DEF TablesGrow, Recorded
<1>2. IsFiniteSet(Recorded(risk)') /\ Cardinality(Recorded(risk)') \in Nat
  <2>1. liquidations' \in Seq(Times \X Nat)
    BY DEF TInv, Types
  <2>2. DOMAIN liquidations' = 1..Len(liquidations') /\ Len(liquidations') \in Nat
    BY <2>1, LenProperties
  <2>3. IsFiniteSet(1..Len(liquidations'))
    BY <2>2, FS_Interval
  <2>4. Recorded(risk)' \subseteq 1..Len(liquidations')
    BY <2>2 DEF Recorded
  <2> QED BY <2>3, <2>4, FS_Subset, FS_CardinalityType
<1>3. Cardinality(Recorded(risk)) <= Cardinality(Recorded(risk)')
  BY <1>1, <1>2, FS_Subset
<1> QED BY <1>2, <1>3, RecordedCounts

LEMMA CountsStay ==
  ASSUME TInv, TInv', TablesGrow, CountNeverExceedsRows,
         \A i \in DOMAIN risk_events' :
           \/ i \in DOMAIN risk_events /\ risk_events'[i] = risk_events[i]
           \/ risk_events'[i].liquidationCount = 0
           \/ risk_events'[i].liquidationCount <= Cardinality(Recorded(risk_events'[i].risk))
  PROVE  CountNeverExceedsRows'
<1>1. ASSUME NEW i \in DOMAIN risk_events'
      PROVE  risk_events'[i].liquidationCount <=
               Cardinality({k \in DOMAIN liquidations' : liquidations'[k][1] = risk_events'[i].risk})
  <2>1. PICK risk : risk = risk_events'[i].risk
    OBVIOUS
  <2>2. /\ Cardinality(Recorded(risk)) \in Nat /\ Cardinality(Recorded(risk)') \in Nat
        /\ Cardinality(Recorded(risk)) <= Cardinality(Recorded(risk)')
    BY RecordedGrows
  <2>3. Recorded(risk)' = {k \in DOMAIN liquidations' : liquidations'[k][1] = risk_events'[i].risk}
    BY <2>1 DEF Recorded
  <2>4. risk_events'[i].liquidationCount \in Nat
    <3>1. risk_events' \in Seq(Rows)
      BY DEF TInv, Types
    <3>2. risk_events'[i] \in Rows
      BY <3>1, LenProperties, ElementOfSeq
    <3> QED BY <3>2 DEF Rows
  <2>5. CASE i \in DOMAIN risk_events /\ risk_events'[i] = risk_events[i]
    <3>1. risk_events[i].liquidationCount <= Cardinality(Recorded(risk))
      BY <2>1, <2>5 DEF CountNeverExceedsRows, Recorded
    <3> QED BY <2>2, <2>3, <2>4, <2>5, <3>1
  <2>6. CASE risk_events'[i].liquidationCount = 0
    BY <2>2, <2>3, <2>6
  <2>7. CASE risk_events'[i].liquidationCount <= Cardinality(Recorded(risk_events'[i].risk))
    BY <2>1, <2>2, <2>3, <2>4, <2>7
  <2> QED BY <2>5, <2>6, <2>7
<1> QED BY <1>1 DEF CountNeverExceedsRows

\* What the window counts, with what is processed, does not grow unless a row is
\* added.
LEMMA WindowCountStays ==
  ASSUME TInv, TInv', TablesGrow, Counted, window # None, window' # None,
         window'.risk = window.risk,
         window'.liquidationCount + (fetched' - Cardinality(Pending')) <=
           window.liquidationCount + (fetched - Cardinality(Pending))
  PROVE  window'.liquidationCount + (fetched' - Cardinality(Pending')) <=
           Cardinality(Recorded(window.risk)')
<1>1. PICK risk : risk = window.risk
  OBVIOUS
<1>2. /\ Cardinality(Recorded(risk)) \in Nat /\ Cardinality(Recorded(risk)') \in Nat
      /\ Cardinality(Recorded(risk)) <= Cardinality(Recorded(risk)')
  BY RecordedGrows
<1>3. window.liquidationCount \in Nat /\ fetched \in Nat /\ Cardinality(Pending) \in Nat
  BY WindowIs, PendingCounts
<1>4. window'.liquidationCount \in Nat /\ fetched' \in Nat /\ Cardinality(Pending') \in Nat
  <2>1. window' \in Windows /\ fetched' \in Nat
    BY DEF TInv, TypeOK, Types
  <2>2. Cardinality(Pending') \in Nat
    BY PendingCountsNext
  <2> QED BY <2>1, <2>2 DEF Windows
<1>5. window.liquidationCount + (fetched - Cardinality(Pending)) <= Cardinality(Recorded(risk))
  BY <1>1 DEF Counted
<1>6. Recorded(window.risk)' = Recorded(risk)'
  BY <1>1 DEF Recorded
<1> QED BY <1>2, <1>3, <1>4, <1>5, <1>6

\* What is being processed is dropped, or counted.
LEMMA BatchEnds ==
  ASSUME TInv, TInv', TablesGrow, Counted, window # None, batch' = {},
         \/ window' = None
         \/ /\ window'.risk = window.risk
            /\ window'.liquidationCount <= window.liquidationCount + (fetched - Cardinality(Pending))
  PROVE  window' # None =>
           window'.liquidationCount + (fetched' - Cardinality(Pending')) <=
             Cardinality(Recorded(window.risk)')
<1> SUFFICES ASSUME window' # None
             PROVE  window'.liquidationCount + (fetched' - Cardinality(Pending')) <=
                      Cardinality(Recorded(window.risk)')
  OBVIOUS
<1>1. Cardinality(Pending') = 0 /\ fetched' = 0
  BY PendingCountsNext
<1>2. window' \in Windows
  BY DEF TInv, TypeOK
<1>3. window'.liquidationCount \in Nat
  BY <1>2 DEF Windows
<1>4. window'.liquidationCount + (fetched' - Cardinality(Pending')) <=
        window.liquidationCount + (fetched - Cardinality(Pending))
  BY <1>1, <1>3
<1>5. window'.risk = window.risk
  OBVIOUS
<1> QED BY <1>4, <1>5, WindowCountStays

\* The row of a liquidation is on file: one more is counted than was recorded.
LEMMA InsertLiquidationCounted ==
  ASSUME TInv, TInv', TablesGrow, Counted, NEW outcome, InsertLiquidation(outcome)
  PROVE  Counted'
<1>1. /\ pc = "insert_liquidation" /\ UNCHANGED <<window, risk_events>>
      /\ \/ pc' = "sleep" /\ batch' = {}
         \/ pc' = "insert_snapshot" /\ batch' = batch /\ fetched' = fetched /\ liquidations' = Append(liquidations, Key)
  BY DEF InsertLiquidation, GoTo, Written
<1>2. window # None /\ batch # {} /\ Pending = batch
  BY <1>1 DEF TInv, TypeOK, Pending
<1>3. CountNeverExceedsRows'
  BY <1>1, CountsStay DEF Counted
<1>4. window.liquidationCount \in Nat /\ fetched \in Nat /\ Cardinality(Pending) \in Nat
      /\ Cardinality(Pending) <= fetched
  BY <1>2, WindowIs, PendingCounts
<1>5. CASE batch' = {}
  <2>1. window'.liquidationCount <= window.liquidationCount + (fetched - Cardinality(Pending))
    BY <1>1, <1>4
  <2> QED BY <1>1, <1>2, <1>3, <1>5, <2>1, BatchEnds DEF Counted
<1>6. CASE batch' # {}
  <2>1. /\ pc' = "insert_snapshot" /\ batch' = batch /\ fetched' = fetched
        /\ liquidations' = Append(liquidations, Key)
    BY <1>1, <1>6
  <2>2. Pending' = batch \ {Current}
    BY <2>1, SameCurrent DEF Pending
  <2>3. Cardinality(Pending') = Cardinality(Pending) - 1
    BY <1>2, <2>2, CurrentIs
  <2>4. PICK key \in Times \X Nat : key = Key
    BY <1>2, KeyIs
  <2>5. key[1] = window.risk /\ liquidations' = Append(liquidations, key)
    BY <1>2, <2>1, <2>4, KeyIs
  <2>6. PICK risk : risk = window.risk
    OBVIOUS
  <2>7. Recorded(risk)' = Recorded(risk) \cup {Len(liquidations) + 1}
        /\ ~(Len(liquidations) + 1 \in Recorded(risk))
    <3>1. \A k \in DOMAIN liquidations : liquidations'[k] = liquidations[k] /\ k # Len(liquidations) + 1
      BY <2>5, LiquidationAppended
    <3>2. \A k \in DOMAIN liquidations' :
            \/ k \in DOMAIN liquidations
            \/ k = Len(liquidations) + 1 /\ liquidations'[k] = key
      BY <2>5, LiquidationAppended
    <3>3. Len(liquidations) + 1 \in DOMAIN liquidations'
          /\ \A k \in DOMAIN liquidations : k \in DOMAIN liquidations'
      BY <2>5, LiquidationAppended
    <3>4. liquidations'[Len(liquidations) + 1] = key
      BY <3>1, <3>2, <3>3
    <3> QED BY <2>5, <2>6, <3>1, <3>2, <3>3, <3>4 DEF Recorded
  <2>8. Cardinality(Recorded(risk)') = Cardinality(Recorded(risk)) + 1
        /\ Cardinality(Recorded(risk)) \in Nat
    <3>1. IsFiniteSet(Recorded(risk)) /\ Cardinality(Recorded(risk)) \in Nat
      BY RecordedCounts
    <3> QED BY <2>7, <3>1, FS_AddElement
  <2>9. window.liquidationCount + (fetched - Cardinality(Pending)) <= Cardinality(Recorded(risk))
    BY <1>2, <2>6 DEF Counted
  <2>10. window'.liquidationCount + (fetched' - Cardinality(Pending')) <= Cardinality(Recorded(risk)')
    BY <1>1, <1>4, <2>1, <2>3, <2>8, <2>9
  <2>11. Recorded(window.risk)' = Recorded(risk)'
    BY <1>1, <2>6 DEF Recorded
  <2> QED BY <1>3, <2>10, <2>11 DEF Counted
<1> QED BY <1>5, <1>6

\* A batch counts once the last of it is processed.
LEMMA EmitLiquidationCounted ==
  ASSUME TInv, TInv', TablesGrow, Counted, NEW delivered, EmitLiquidation(delivered)
  PROVE  Counted'
<1>1. /\ pc = "emit_liquidation" /\ window # None /\ window' # None /\ batch # {}
      /\ window'.risk = window.risk /\ risk_events' = risk_events
      /\ \/ /\ batch = {Current} /\ batch' = {} /\ fetched' = 0
            /\ window'.liquidationCount = window.liquidationCount + fetched
         \/ /\ pc' = "insert_liquidation" /\ batch' = batch \ {Current} /\ fetched' = fetched
            /\ window' = window
  BY EmitLeads
<1>2. CountNeverExceedsRows'
  BY <1>1, CountsStay DEF Counted
<1>3. Pending = batch \ {Current}
  BY <1>1 DEF Pending
<1>4. window.liquidationCount \in Nat /\ fetched \in Nat /\ Cardinality(Pending) \in Nat
  BY <1>1, WindowIs, PendingCounts
<1>5. CASE batch = {Current} /\ batch' = {} /\ window'.liquidationCount = window.liquidationCount + fetched
  <2>1. Pending = {}
    BY <1>3, <1>5
  <2>2. Cardinality(Pending) = 0
    BY <2>1, FS_EmptySet
  <2>3. window'.liquidationCount <= window.liquidationCount + (fetched - Cardinality(Pending))
    BY <1>4, <1>5, <2>2
  <2> QED BY <1>1, <1>2, <1>5, <2>3, BatchEnds DEF Counted
<1>6. CASE /\ pc' = "insert_liquidation" /\ batch' = batch \ {Current} /\ fetched' = fetched
           /\ window' = window
  <2>1. Pending' = Pending
    BY <1>3, <1>6 DEF Pending
  <2>2. window'.liquidationCount + (fetched' - Cardinality(Pending')) <=
          window.liquidationCount + (fetched - Cardinality(Pending))
    BY <1>4, <1>6, <2>1
  <2>3. window'.liquidationCount + (fetched' - Cardinality(Pending')) <= Cardinality(Recorded(window.risk)')
    BY <1>1, <2>2, WindowCountStays
  <2> QED BY <1>2, <2>3 DEF Counted
<1> QED BY <1>1, <1>5, <1>6

\* What a poll fetches is all still to be recorded.
LEMMA PollLiquidationsCounted ==
  ASSUME TInv, TInv', TablesGrow, Counted,
         NEW current \in MaxOf(head - MaxLag, 1)..head, NEW found \in SUBSET InRange(current),
         PollLiquidations(current, found)
  PROVE  Counted'
<1>1. /\ window # None /\ window' # None /\ window'.risk = window.risk /\ risk_events' = risk_events
      /\ window'.liquidationCount = window.liquidationCount /\ pc = "poll_liquidations"
      /\ \/ batch' = {} /\ fetched' = 0
         \/ pc' = "insert_liquidation" /\ batch' = found /\ fetched' = Cardinality(found)
  BY PollLeads DEF tables
<1>2. CountNeverExceedsRows'
  BY <1>1, CountsStay DEF Counted
<1>3. batch = {}
  BY <1>1 DEF TInv, TypeOK
<1>4. Cardinality(Pending) = 0 /\ fetched = 0 /\ window.liquidationCount \in Nat
  BY <1>1, <1>3, PendingCounts, WindowIs
<1>5. Cardinality(Pending') \in Nat /\ fetched' = Cardinality(Pending')
  <2>1. CASE batch' = {} /\ fetched' = 0
    BY <2>1, PendingCountsNext
  <2>2. CASE pc' = "insert_liquidation" /\ batch' = found /\ fetched' = Cardinality(found)
    <3>1. Pending' = found
      BY <2>2 DEF Pending
    <3> QED BY <2>2, <3>1, PendingCountsNext
  <2> QED BY <1>1, <2>1, <2>2
<1>6. window'.liquidationCount + (fetched' - Cardinality(Pending')) <=
        window.liquidationCount + (fetched - Cardinality(Pending))
  BY <1>1, <1>4, <1>5
<1>7. window'.liquidationCount + (fetched' - Cardinality(Pending')) <= Cardinality(Recorded(window.risk)')
  BY <1>1, <1>6, WindowCountStays
<1> QED BY <1>2, <1>7 DEF Counted

LEMMA NextCounted ==
  ASSUME TInv, TInv', Counted, [Next]_vars
  PROVE  Counted'
<1>1. TablesGrow
  BY NextTablesGrow
<1>2. ASSUME NEW current \in MaxOf(head - MaxLag, 1)..head, NEW found \in SUBSET InRange(current),
             PollLiquidations(current, found)
      PROVE  Counted'
  BY <1>1, <1>2, PollLiquidationsCounted
<1>3. ASSUME NEW outcome, InsertLiquidation(outcome) PROVE Counted'
  BY <1>1, <1>3, InsertLiquidationCounted
<1>4. ASSUME NEW delivered, EmitLiquidation(delivered) PROVE Counted'
  BY <1>1, <1>4, EmitLiquidationCounted
<1>5. ASSUME NEW delivered, EmitStart(delivered) PROVE Counted'
  <2>1. risk_events' = risk_events /\ batch' = {}
    BY <1>5 DEF EmitStart, GoTo
  <2>2. window'.liquidationCount = 0
    BY <1>5, EmitStartType
  <2>3. Cardinality(Pending') = 0 /\ fetched' = 0
    BY <2>1, PendingCountsNext
  <2>4. PICK risk : risk = window'.risk
    OBVIOUS
  <2>5. Cardinality(Recorded(risk)') \in Nat /\ Recorded(window.risk)' = Recorded(risk)'
    BY <1>1, <2>4, RecordedGrows DEF Recorded
  <2>6. window'.liquidationCount + (fetched' - Cardinality(Pending')) <= Cardinality(Recorded(window.risk)')
    BY <2>2, <2>3, <2>5
  <2>7. CountNeverExceedsRows'
    BY <1>1, <2>1, CountsStay DEF Counted
  <2> QED BY <2>6, <2>7 DEF Counted
<1>6. ASSUME StartPoll \/ NewBlock \/ UNCHANGED vars PROVE Counted'
  <2>1. UNCHANGED <<window, risk_events, batch, fetched>>
    BY <1>6 DEF StartPoll, NewBlock, vars, memory, tables
  <2>2. pc' = pc \/ (pc = "sleep" /\ pc' = "insert_price")
    BY <1>6 DEF StartPoll, NewBlock, vars, memory
  <2>3. Pending' = Pending
    BY <2>1, <2>2, SameCurrent DEF Pending
  <2>4. CountNeverExceedsRows'
    BY <1>1, <2>1, CountsStay DEF Counted
  <2>5. ASSUME window' # None
        PROVE  window'.liquidationCount + (fetched' - Cardinality(Pending')) <= Cardinality(Recorded(window.risk)')
    <3>1. window.liquidationCount \in Nat /\ fetched \in Nat /\ Cardinality(Pending) \in Nat
      BY <2>1, <2>5, WindowIs, PendingCounts
    <3>2. window'.liquidationCount + (fetched' - Cardinality(Pending')) <=
            window.liquidationCount + (fetched - Cardinality(Pending))
      BY <2>1, <2>3, <3>1
    <3> QED BY <1>1, <2>1, <2>5, <3>2, WindowCountStays
  <2> QED BY <2>4, <2>5 DEF Counted
<1>7. ASSUME NEW outcome, InsertPrice(outcome) PROVE Counted'
  <2>1. UNCHANGED <<window, risk_events>> /\ batch' = {} /\ batch = {}
    BY <1>7, BranchIs DEF InsertPrice, GoTo, TInv, TypeOK
  <2>2. CountNeverExceedsRows'
    BY <1>1, <2>1, CountsStay DEF Counted
  <2>3. ASSUME window' # None
        PROVE  window'.liquidationCount <= window.liquidationCount + (fetched - Cardinality(Pending))
    BY <2>1, <2>3, WindowIs, PendingCounts
  <2> QED BY <1>1, <2>1, <2>2, <2>3, BatchEnds DEF Counted
<1>8. ASSUME NEW outcome, InsertSnapshot(outcome) PROVE Counted'
  <2>1. /\ pc = "insert_snapshot" /\ UNCHANGED <<window, risk_events>>
        /\ \/ batch' = {}
           \/ pc' = "emit_liquidation" /\ batch' = batch /\ fetched' = fetched
    BY <1>8 DEF InsertSnapshot, GoTo
  <2>2. CountNeverExceedsRows'
    BY <1>1, <2>1, CountsStay DEF Counted
  <2>3. /\ window # None /\ window.liquidationCount \in Nat /\ fetched \in Nat
        /\ Cardinality(Pending) \in Nat /\ Cardinality(Pending) <= fetched
    BY <2>1, WindowIs, PendingCounts DEF TInv, TypeOK
  <2>4. CASE batch' = {}
    <3>1. window'.liquidationCount <= window.liquidationCount + (fetched - Cardinality(Pending))
      BY <2>1, <2>3
    <3> QED BY <1>1, <2>1, <2>2, <2>3, <2>4, <3>1, BatchEnds DEF Counted
  <2>5. CASE pc' = "emit_liquidation" /\ batch' = batch /\ fetched' = fetched
    <3>1. Pending' = Pending
      BY <2>1, <2>5, SameCurrent DEF Pending
    <3>2. window'.liquidationCount + (fetched' - Cardinality(Pending')) <=
            window.liquidationCount + (fetched - Cardinality(Pending))
      BY <2>1, <2>3, <2>5, <3>1
    <3>3. window'.liquidationCount + (fetched' - Cardinality(Pending')) <= Cardinality(Recorded(window.risk)')
      BY <1>1, <2>1, <2>3, <3>2, WindowCountStays
    <3> QED BY <2>2, <3>3 DEF Counted
  <2> QED BY <2>1, <2>4, <2>5
<1>9. ASSUME NEW outcome, InsertOpen(outcome) PROVE Counted'
  <2>1. /\ pc = "insert_open" /\ window' = window /\ window = None
    BY <1>9 DEF InsertOpen, TInv, TypeOK
  <2>2. \A i \in DOMAIN risk_events' :
          \/ i \in DOMAIN risk_events /\ risk_events'[i] = risk_events[i]
          \/ risk_events'[i].liquidationCount = 0
    <3>1. OpenRow.liquidationCount = 0
      BY DEF OpenRow
    <3>2. RowsNow(OpenRow)
      BY <1>9, InsertsLeave
    <3> QED BY <3>1, <3>2 DEF RowsNow
  <2>3. CountNeverExceedsRows'
    BY <1>1, <2>2, CountsStay DEF Counted
  <2> QED BY <2>1, <2>3 DEF Counted
<1>10. ASSUME NEW outcome, InsertClose(outcome) PROVE Counted'
  <2>1. /\ pc = "insert_close" /\ window' = window /\ window # None /\ batch = {} /\ batch' = {}
        /\ liquidations' = liquidations
    BY <1>10 DEF InsertClose, GoTo, TInv, TypeOK
  <2>2. Cardinality(Pending) = 0 /\ fetched = 0 /\ window.liquidationCount \in Nat
    BY <2>1, WindowIs, PendingCounts
  <2>3. ResolvedRow.liquidationCount = window.liquidationCount /\ ResolvedRow.risk = window.risk
    BY DEF ResolvedRow
  <2>4. window.liquidationCount <= Cardinality(Recorded(window.risk))
    BY <2>1, <2>2 DEF Counted
  <2>5. \A i \in DOMAIN risk_events' :
          \/ i \in DOMAIN risk_events /\ risk_events'[i] = risk_events[i]
          \/ risk_events'[i].liquidationCount <= Cardinality(Recorded(risk_events'[i].risk))
    <3>1. RowsNow(ResolvedRow)
      BY <1>10, InsertsLeave
    <3>2. \A i \in DOMAIN risk_events' :
            \/ i \in DOMAIN risk_events /\ risk_events'[i] = risk_events[i]
            \/ /\ risk_events'[i].liquidationCount = window.liquidationCount
               /\ risk_events'[i].risk = window.risk
      BY <2>3, <3>1 DEF RowsNow
    <3>3. ASSUME NEW i \in DOMAIN risk_events', risk_events'[i].risk = window.risk,
                 risk_events'[i].liquidationCount = window.liquidationCount
          PROVE  risk_events'[i].liquidationCount <= Cardinality(Recorded(risk_events'[i].risk))
      BY <2>4, <3>3 DEF Recorded
    <3> QED BY <3>2, <3>3
  <2>6. CountNeverExceedsRows'
    BY <1>1, <2>5, CountsStay DEF Counted
  <2>7. window'.liquidationCount <= window.liquidationCount + (fetched - Cardinality(Pending))
    BY <2>1, <2>2
  <2> QED BY <1>1, <2>1, <2>6, <2>7, BatchEnds DEF Counted
<1>11. ASSUME (\E delivered : EmitEnd(delivered)) \/ Crash PROVE Counted'
  <2>1. window' = None /\ risk_events' = risk_events
    BY <1>11 DEF EmitEnd, Crash, tables
  <2>2. CountNeverExceedsRows'
    BY <1>1, <2>1, CountsStay DEF Counted
  <2> QED BY <2>1, <2>2 DEF Counted
<1>12. ASSUME NoBlockNumber PROVE Counted'
  <2>1. UNCHANGED <<window, risk_events>> /\ batch' = {} /\ batch = {}
    BY <1>12 DEF NoBlockNumber, GoTo, tables, TInv, TypeOK
  <2>2. CountNeverExceedsRows'
    BY <1>1, <2>1, CountsStay DEF Counted
  <2>3. ASSUME window' # None
        PROVE  window'.liquidationCount <= window.liquidationCount + (fetched - Cardinality(Pending))
    BY <2>1, <2>3, WindowIs, PendingCounts
  <2> QED BY <1>1, <2>1, <2>2, <2>3, BatchEnds DEF Counted
<1> QED BY <1>2, <1>3, <1>4, <1>5, <1>6, <1>7, <1>8, <1>9, <1>10, <1>11, <1>12 DEF Next

-----------------------------------------------------------------------------
(* What the readers of a window see.                                       *)

LEMMA LatestIs ==
  ASSUME NEW rows \in Seq(Rows), NEW j \in DOMAIN rows, IsLatest(rows, j)
  PROVE  Latest(rows, rows[j].risk) = rows[j]
<1> DEFINE top == rows[j]
<1>1. \A i \in DOMAIN rows : rows[i] \in Rows /\ rows[i].version \in Nat /\ i \in Nat
  <2>1. DOMAIN rows = 1..Len(rows) /\ Len(rows) \in Nat
    BY LenProperties
  <2>2. \A i \in DOMAIN rows : rows[i] \in Rows
    BY ElementOfSeq
  <2> QED BY <2>1, <2>2 DEF Rows
<1>2. j \in Kept(rows)
  BY <1>1 DEF IsLatest, Kept, SameKey
<1>3. ASSUME NEW i \in Kept(rows), rows[i].risk = top.risk
      PROVE  rows[i].version <= top.version /\ (rows[i] # top => rows[i].version < top.version)
  <2>1. i \in DOMAIN rows /\ (SameKey(rows[i], rows[j]) => j <= i)
    BY <1>3 DEF Kept
  <2>2. rows[i].version < rows[j].version \/ (rows[i].version = rows[j].version /\ i <= j)
    BY <1>3, <2>1 DEF IsLatest
  <2>3. CASE rows[i].version < rows[j].version
    BY <1>1, <2>1, <2>3
  <2>4. CASE rows[i].version = rows[j].version /\ i <= j
    <3>1. j <= i
      BY <1>3, <2>1, <2>4 DEF SameKey
    <3>2. i = j
      BY <1>1, <2>1, <2>4, <3>1
    <3> QED BY <1>1, <2>1, <3>2
  <2> QED BY <2>2, <2>3, <2>4
<1>4. top \in Final(rows) /\ top.version \in Nat
  BY <1>1, <1>2 DEF Final
<1>5. \A q \in Final(rows) : q.risk = top.risk =>
        q.version \in Nat /\ q.version <= top.version /\ (q # top => q.version < top.version)
  <2>1. \A i \in Kept(rows) : i \in DOMAIN rows
    BY DEF Kept
  <2> HIDE DEF top
  <2> QED BY <1>1, <1>3, <2>1 DEF Final
<1> HIDE DEF top
<1>6. \A r \in Final(rows) :
        (r.risk = top.risk /\ (\A q \in Final(rows) : q.risk = top.risk => q.version <= r.version))
        <=> r = top
  BY <1>4, <1>5
<1>7. LatestOf(Final(rows), top.risk) = top
  BY <1>4, <1>6 DEF LatestOf
<1> QED BY <1>7 DEF Latest, top

\* A row of at least the versions on file of its risk becomes the one its
\* readers get, and the others stay.
LEMMA RowBecomesLatest ==
  ASSUME TInv, TInv', Forward, NEW row \in Rows, risk_events' = Append(risk_events, row),
         \A k \in DOMAIN risk_events : risk_events[k].risk = row.risk =>
           risk_events[k].version <= row.version
  PROVE  /\ \A i \in DOMAIN risk_events' : \E j \in DOMAIN risk_events' :
              risk_events'[j].risk = risk_events'[i].risk /\ IsLatest(risk_events', j)
         /\ \A risk \in Risks(risk_events) : risk # row.risk =>
              Latest(risk_events', risk) = Latest(risk_events, risk)
         /\ Latest(risk_events', row.risk) = row
<1> DEFINE last == Len(risk_events) + 1
<1>1. /\ \A i \in DOMAIN risk_events :
           i \in DOMAIN risk_events' /\ risk_events'[i] = risk_events[i] /\ i \in Nat /\ i < last
      /\ \A i \in DOMAIN risk_events' :
           \/ i \in DOMAIN risk_events /\ risk_events'[i] = risk_events[i]
           \/ i = last /\ risk_events'[i] = row
      /\ last \in DOMAIN risk_events' /\ last \in Nat
  BY RowAppended
<1>2. risk_events \in Seq(Rows) /\ risk_events' \in Seq(Rows)
  BY DEF TInv, Types
<1>3. \A i \in DOMAIN risk_events : risk_events[i].version \in {1, 2}
  BY TablesAre
<1>4. row.version \in Nat
  BY DEF Rows
<1> HIDE DEF last
<1>5. risk_events'[last] = row
  BY <1>1
<1>6. IsLatest(risk_events', last)
  BY <1>1, <1>3, <1>4, <1>5 DEF IsLatest
<1>7. ASSUME NEW j \in DOMAIN risk_events, IsLatest(risk_events, j), risk_events[j].risk # row.risk
      PROVE  IsLatest(risk_events', j)
  BY <1>1, <1>7 DEF IsLatest
<1>8. Latest(risk_events', row.risk) = row
  <2> DEFINE rows == risk_events'
  <2>1. rows \in Seq(Rows) /\ last \in DOMAIN rows /\ IsLatest(rows, last) /\ rows[last] = row
    BY <1>1, <1>2, <1>5, <1>6
  <2> HIDE DEF rows
  <2>2. Latest(rows, row.risk) = row
    BY <2>1, LatestIs
  <2> QED BY <2>2 DEF rows
<1>9. ASSUME NEW risk \in Risks(risk_events), risk # row.risk
      PROVE  Latest(risk_events', risk) = Latest(risk_events, risk)
  <2>1. PICK i \in DOMAIN risk_events : risk_events[i].risk = risk
    BY DEF Risks
  <2>2. PICK j \in DOMAIN risk_events : risk_events[j].risk = risk /\ IsLatest(risk_events, j)
    BY <2>1 DEF Forward
  <2>3. Latest(risk_events, risk) = risk_events[j]
    BY <1>2, <2>2, LatestIs
  <2> DEFINE rows == risk_events'
  <2>4. /\ rows \in Seq(Rows) /\ j \in DOMAIN rows /\ IsLatest(rows, j) /\ rows[j] = risk_events[j]
    BY <1>1, <1>2, <1>7, <1>9, <2>2
  <2> HIDE DEF rows
  <2>5. Latest(rows, risk) = rows[j]
    BY <2>2, <2>4, LatestIs
  <2> QED BY <2>3, <2>4, <2>5 DEF rows
<1>10. ASSUME NEW i \in DOMAIN risk_events'
       PROVE  \E j \in DOMAIN risk_events' :
                risk_events'[j].risk = risk_events'[i].risk /\ IsLatest(risk_events', j)
  <2>1. CASE risk_events'[i].risk = row.risk
    BY <1>1, <1>5, <1>6, <2>1
  <2>2. CASE risk_events'[i].risk # row.risk
    <3>1. i \in DOMAIN risk_events /\ risk_events'[i] = risk_events[i]
      BY <1>1, <2>2
    <3>2. PICK j \in DOMAIN risk_events :
            risk_events[j].risk = risk_events[i].risk /\ IsLatest(risk_events, j)
      BY <3>1 DEF Forward
    <3>3. j \in DOMAIN risk_events' /\ risk_events'[j] = risk_events[j] /\ IsLatest(risk_events', j)
      BY <1>1, <1>7, <2>2, <3>1, <3>2
    <3> QED BY <3>1, <3>2, <3>3
  <2> QED BY <2>1, <2>2
<1> QED BY <1>8, <1>9, <1>10

\* A new window's row is the first of its risk.
LEMMA OpenIsFirst ==
  ASSUME TInv, Dated, pc = "insert_open"
  PROVE  \A k \in DOMAIN risk_events : risk_events[k].risk < now /\ risk_events[k].risk # now
<1>1. window = None
  BY DEF TInv, TypeOK
<1>2. now \in Nat /\ \A k \in DOMAIN risk_events : risk_events[k].risk \in Nat
  BY PollIs, TablesAre
<1>3. \A k \in DOMAIN risk_events : risk_events[k].risk < now
  BY <1>1 DEF Dated
<1> QED BY <1>2, <1>3

\* Either no row is added, or the first of a window, or one that closes the
\* tracked window.
LEMMA RowsAdded ==
  ASSUME TInv, [Next]_vars
  PROVE  \/ risk_events' = risk_events
         \/ /\ pc = "insert_open" /\ UNCHANGED <<now, window>> /\ pc' \in {"emit_start", "sleep"}
            /\ risk_events' = Append(risk_events, OpenRow) /\ (pc' = "emit_start" => price' = price)
         \/ /\ pc = "insert_close" /\ UNCHANGED <<now, window>> /\ pc' \in {"emit_end", "sleep"}
            /\ risk_events' = Append(risk_events, ResolvedRow)
<1>1. ASSUME NEW outcome, InsertOpen(outcome), ~(risk_events' = risk_events)
      PROVE  /\ pc = "insert_open" /\ UNCHANGED <<now, window>> /\ pc' \in {"emit_start", "sleep"}
             /\ risk_events' = Append(risk_events, OpenRow) /\ (pc' = "emit_start" => price' = price)
  BY <1>1 DEF InsertOpen, GoTo
<1>2. ASSUME NEW outcome, InsertClose(outcome), ~(risk_events' = risk_events)
      PROVE  /\ pc = "insert_close" /\ UNCHANGED <<now, window>> /\ pc' \in {"emit_end", "sleep"}
             /\ risk_events' = Append(risk_events, ResolvedRow)
  BY <1>2 DEF InsertClose, GoTo
<1>3. \/ risk_events' = risk_events
      \/ \E outcome : InsertOpen(outcome) \/ InsertClose(outcome)
  BY DEF Next, vars, tables, StartPoll, InsertPrice, EmitStart, NoBlockNumber,
         PollLiquidations, InsertLiquidation, InsertSnapshot, EmitLiquidation, EmitEnd, Crash,
         NewBlock
<1> QED BY <1>1, <1>2, <1>3

\* Steps that add no row, and whose window holds at least what it held.
LEMMA ForwardStays ==
  ASSUME TInv, Forward, risk_events' = risk_events, now \in Nat, now' \in Nat, now <= now',
         pc' = "emit_start" => pc = "emit_start" /\ now' = now /\ price' = price,
         window' = None \/ (/\ window # None /\ window'.risk = window.risk
                            /\ window'.maxDeviation \in Nat
                            /\ window.maxDeviation <= window'.maxDeviation)
  PROVE  Forward'
<1>1. \A i \in DOMAIN risk_events : risk_events[i].state = "RESOLVED" => risk_events[i].end \in 0..now'
  BY DEF Forward
<1>2. pc' = "emit_start" => \A i \in DOMAIN risk_events :
        risk_events[i].risk = now' => risk_events[i].severity <= price'.deviation
  BY DEF Forward
<1>3. ASSUME window' # None, NEW i \in DOMAIN risk_events, risk_events[i].risk = window'.risk
      PROVE  risk_events[i].severity <= window'.maxDeviation
  <2>1. /\ window # None /\ window.maxDeviation <= window'.maxDeviation
        /\ window'.maxDeviation \in Nat
        /\ risk_events[i].severity <= window.maxDeviation
    BY <1>3 DEF Forward
  <2>2. window.maxDeviation \in Nat /\ risk_events[i].severity \in Nat
    BY <2>1, WindowIs, TablesAre
  <2> QED BY <1>3, <2>1, <2>2
<1>4. \A i \in DOMAIN risk_events' : \E j \in DOMAIN risk_events' :
        risk_events'[j].risk = risk_events'[i].risk /\ IsLatest(risk_events', j)
  BY DEF Forward
<1> QED BY <1>1, <1>2, <1>3, <1>4 DEF Forward

LEMMA NextForward ==
  ASSUME TInv, TInv', Dated, Forward, [Next]_vars
  PROVE  Forward'
<1>0. now \in Nat /\ MaxHead \in Nat
  BY ChainIs, AaveConfig
<1>1. CASE /\ pc = "insert_open" /\ UNCHANGED <<now, window>> /\ pc' \in {"emit_start", "sleep"}
           /\ risk_events' = Append(risk_events, OpenRow) /\ (pc' = "emit_start" => price' = price)
  <2>1. PICK row \in Rows : row = OpenRow
    BY <1>1, RowsTyped
  <2>2. /\ row.risk = now /\ row.version = 1 /\ row.state = "OPEN" /\ row.severity = price.deviation
        /\ risk_events' = Append(risk_events, row)
    BY <1>1, <2>1 DEF OpenRow
  <2>3. \A k \in DOMAIN risk_events : risk_events[k].risk # row.risk
    BY <1>1, <2>2, OpenIsFirst
  <2>4. \A i \in DOMAIN risk_events' : \E j \in DOMAIN risk_events' :
          risk_events'[j].risk = risk_events'[i].risk /\ IsLatest(risk_events', j)
    BY <2>2, <2>3, RowBecomesLatest
  <2>5. \A i \in DOMAIN risk_events' :
          \/ i \in DOMAIN risk_events /\ risk_events'[i] = risk_events[i]
          \/ risk_events'[i] = row
    BY <2>2, RowAppended
  <2>6. window' = None
    BY <1>1 DEF TInv, TypeOK
  <2>7. \A i \in DOMAIN risk_events' :
          risk_events'[i].state = "RESOLVED" => risk_events'[i].end \in 0..now'
    BY <1>1, <2>2, <2>5 DEF Forward
  <2>8. pc' = "emit_start" => \A i \in DOMAIN risk_events' :
          risk_events'[i].risk = now' => risk_events'[i].severity <= price'.deviation
    <3>1. price.deviation \in Nat
      BY <1>1, PollIs
    <3>2. price.deviation <= price.deviation
      BY <3>1
    <3> QED BY <1>1, <2>2, <2>3, <2>5, <3>2
  <2> QED BY <2>4, <2>6, <2>7, <2>8 DEF Forward
<1>2. CASE /\ pc = "insert_close" /\ UNCHANGED <<now, window>> /\ pc' \in {"emit_end", "sleep"}
           /\ risk_events' = Append(risk_events, ResolvedRow)
  <2>1. PICK row \in Rows : row = ResolvedRow
    BY <1>2, RowsTyped
  <2>2. /\ row.risk = window.risk /\ row.version = 2 /\ row.end = now
        /\ row.severity = window.maxDeviation /\ risk_events' = Append(risk_events, row)
    BY <1>2, <2>1 DEF ResolvedRow
  <2>3. \A k \in DOMAIN risk_events : risk_events[k].version <= row.version
    BY <2>2, TablesAre
  <2>4. \A i \in DOMAIN risk_events' : \E j \in DOMAIN risk_events' :
          risk_events'[j].risk = risk_events'[i].risk /\ IsLatest(risk_events', j)
    BY <2>2, <2>3, RowBecomesLatest
  <2>5. \A i \in DOMAIN risk_events' :
          \/ i \in DOMAIN risk_events /\ risk_events'[i] = risk_events[i]
          \/ risk_events'[i] = row
    BY <2>2, RowAppended
  <2>6. \A i \in DOMAIN risk_events' :
          risk_events'[i].state = "RESOLVED" => risk_events'[i].end \in 0..now'
    <3>1. now \in 0..now
      BY <1>0
    <3> QED BY <1>2, <2>2, <2>5, <3>1 DEF Forward
  <2>7. window # None => \A i \in DOMAIN risk_events' :
          risk_events'[i].risk = window.risk => risk_events'[i].severity <= window.maxDeviation
    <3>1. window # None => window.maxDeviation <= window.maxDeviation
      BY WindowIs
    <3> QED BY <2>2, <2>5, <3>1 DEF Forward
  <2>8. pc' # "emit_start" /\ window' = window
    BY <1>2
  <2> QED BY <2>4, <2>6, <2>7, <2>8 DEF Forward
<1>3. CASE risk_events' = risk_events
  <2>1. ASSUME NEW delivered, EmitStart(delivered) PROVE Forward'
    <3>1. /\ pc = "emit_start" /\ pc' = "poll_liquidations" /\ now' = now
      BY <2>1 DEF EmitStart, GoTo
    <3>2. window'.risk = now /\ window'.maxDeviation = price.deviation
      BY <2>1, EmitStartType
    <3>3. window' # None => \A i \in DOMAIN risk_events' :
            risk_events'[i].risk = window'.risk => risk_events'[i].severity <= window'.maxDeviation
      BY <1>3, <3>1, <3>2 DEF Forward
    <3>4. /\ \A i \in DOMAIN risk_events' :
               risk_events'[i].state = "RESOLVED" => risk_events'[i].end \in 0..now'
          /\ \A i \in DOMAIN risk_events' : \E j \in DOMAIN risk_events' :
               risk_events'[j].risk = risk_events'[i].risk /\ IsLatest(risk_events', j)
      BY <1>3, <3>1 DEF Forward
    <3> QED BY <3>1, <3>3, <3>4 DEF Forward
  <2>2. ASSUME \/ \E current \in MaxOf(head - MaxLag, 1)..head : \E found \in SUBSET InRange(current) :
                    PollLiquidations(current, found)
               \/ \E delivered : EmitLiquidation(delivered)
        PROVE  Forward'
    <3>1. /\ window # None /\ window' # None /\ window'.risk = window.risk
          /\ window.maxDeviation <= window'.maxDeviation
          /\ window'.maxDeviation \in {window.maxDeviation, price.deviation}
          /\ now' = now /\ price \in Prices
          /\ pc' \in {"sleep", "insert_close", "insert_liquidation"}
      BY <2>2, PollLeads, EmitLeads
    <3>2. window.maxDeviation \in Nat /\ price.deviation \in Nat
      BY <3>1, WindowIs, AaveConfig DEF Prices
    <3> QED BY <1>0, <1>3, <3>1, <3>2, ForwardStays
  <2>3. ASSUME NEW outcome, InsertPrice(outcome) \/ InsertOpen(outcome) \/ InsertLiquidation(outcome)
                 \/ InsertSnapshot(outcome) \/ InsertClose(outcome)
        PROVE  Forward'
    <3>1. UNCHANGED <<now, window>>
      BY <2>3 DEF InsertPrice, InsertOpen, InsertLiquidation, InsertSnapshot, InsertClose
    <3>2. pc' = "emit_start" => InsertOpen(outcome)
      BY <2>3, BranchIs DEF InsertPrice, InsertLiquidation, InsertSnapshot, InsertClose, GoTo
    <3>3. CASE pc' # "emit_start"
      <4>1. window # None => window.maxDeviation \in Nat /\ window.maxDeviation <= window.maxDeviation
        BY WindowIs
      <4> QED BY <1>0, <1>3, <3>1, <3>3, <4>1, ForwardStays
    <3>4. CASE pc' = "emit_start"
      <4>1. risk_events' = Append(risk_events, OpenRow)
        BY <3>2, <3>4 DEF InsertOpen, GoTo, Written
      <4>2. PICK row \in Rows : row = OpenRow
        BY <3>2, <3>4, RowsTyped DEF InsertOpen
      <4>3. risk_events' = Append(risk_events, row) /\ risk_events \in Seq(Rows)
        BY <4>1, <4>2 DEF TInv, Types
      <4>4. Len(risk_events') = Len(risk_events) + 1 /\ Len(risk_events) \in Nat
        BY <4>3, AppendProperties, LenProperties
      <4> QED BY <1>3, <4>4
    <3> QED BY <3>3, <3>4
  <2>4. ASSUME StartPoll \/ NoBlockNumber \/ NewBlock \/ UNCHANGED vars PROVE Forward'
    <3>1. /\ window' = window /\ now \in Nat /\ now' \in Nat /\ now <= now'
          /\ pc' = "emit_start" => pc = "emit_start" /\ now' = now /\ price' = price
      BY <2>4, ChainIs DEF StartPoll, NoBlockNumber, NewBlock, GoTo, vars, memory
    <3>2. window # None => window.maxDeviation \in Nat /\ window.maxDeviation <= window.maxDeviation
      BY WindowIs
    <3> QED BY <1>3, <3>1, <3>2, ForwardStays
  <2>5. ASSUME (\E delivered : EmitEnd(delivered)) \/ Crash PROVE Forward'
    <3>1. window' = None /\ now' = now /\ pc' = "sleep"
      BY <2>5 DEF EmitEnd, Crash, GoTo
    <3> QED BY <1>0, <1>3, <3>1, ForwardStays
  <2> QED BY <2>1, <2>2, <2>3, <2>4, <2>5 DEF Next
<1> HIDE DEF Forward, TInv, Dated
<1> QED BY ONLY <1>1, <1>2, <1>3, RowsAdded, TInv, [Next]_vars

\* What the readers of a risk get before and after a step.
MovesForward(before, after) ==
  /\ before.severity <= after.severity
  /\ before.state = "RESOLVED" => after.state = "RESOLVED" /\ before.end <= after.end

LEMMA NextMovesForward ==
  ASSUME TInv, TInv', Dated, Forward, [Next]_vars, NEW risk \in Risks(risk_events)
  PROVE  MovesForward(Latest(risk_events, risk), Latest(risk_events', risk))
<1>1. PICK i \in DOMAIN risk_events : risk_events[i].risk = risk
  BY DEF Risks
<1>2. PICK j \in DOMAIN risk_events : risk_events[j].risk = risk /\ IsLatest(risk_events, j)
  BY <1>1 DEF Forward
<1>3. Latest(risk_events, risk) = risk_events[j]
  BY <1>2, LatestIs DEF TInv, Types
<1>4. /\ risk_events[j].severity \in Nat /\ now \in Nat
      /\ risk_events[j].state = "RESOLVED" => risk_events[j].end \in 0..now
  BY TablesAre, ChainIs DEF Forward
<1>5. MovesForward(risk_events[j], risk_events[j])
  BY <1>4 DEF MovesForward
<1>6. CASE risk_events' = risk_events
  BY <1>3, <1>5, <1>6
<1>7. CASE pc = "insert_open" /\ risk_events' = Append(risk_events, OpenRow)
  <2>1. PICK row \in Rows : row = OpenRow
    BY <1>7, RowsTyped
  <2>2. row.risk = now /\ risk_events' = Append(risk_events, row)
    BY <1>7, <2>1 DEF OpenRow
  <2>3. \A k \in DOMAIN risk_events : risk_events[k].risk # row.risk
    BY <1>7, <2>2, OpenIsFirst
  <2>4. Latest(risk_events', risk) = Latest(risk_events, risk)
    BY <1>1, <2>2, <2>3, RowBecomesLatest
  <2> QED BY <1>3, <1>5, <2>4
<1>8. CASE pc = "insert_close" /\ risk_events' = Append(risk_events, ResolvedRow)
  <2>1. PICK row \in Rows : row = ResolvedRow
    BY <1>8, RowsTyped
  <2>2. /\ row.risk = window.risk /\ row.version = 2 /\ row.end = now /\ row.state = "RESOLVED"
        /\ row.severity = window.maxDeviation /\ risk_events' = Append(risk_events, row)
    BY <1>8, <2>1 DEF ResolvedRow
  <2>3. \A k \in DOMAIN risk_events : risk_events[k].version <= row.version
    BY <2>2, TablesAre
  <2>4. CASE risk # row.risk
    <3>1. Latest(risk_events', risk) = Latest(risk_events, risk)
      BY <2>2, <2>3, <2>4, RowBecomesLatest
    <3> QED BY <1>3, <1>5, <3>1
  <2>5. CASE risk = row.risk
    <3>1. Latest(risk_events', risk) = row
      BY <2>2, <2>3, <2>5, RowBecomesLatest
    <3>2. window # None
      BY <1>8 DEF TInv, TypeOK
    <3>3. risk_events[j].severity <= window.maxDeviation
      BY <1>2, <2>2, <2>5, <3>2 DEF Forward
    <3>4. MovesForward(risk_events[j], row)
      BY <1>4, <2>2, <3>3 DEF MovesForward
    <3> QED BY <1>3, <3>1, <3>4
  <2> QED BY <2>4, <2>5
<1> QED BY <1>6, <1>7, <1>8, RowsAdded

-----------------------------------------------------------------------------
(* The invariant, and what follows of it.                                  *)

LEMMA InitA ==
  ASSUME Init
  PROVE  AInv
<1>1. /\ pc = "sleep" /\ window = None /\ batch = {} /\ fetched = 0 /\ now = 0
      /\ risk_events = <<>> /\ liquidations = <<>> /\ price_samples = {} /\ webhooks = {}
  BY DEF Init
<1>2. TInv
  BY InitType
<1>3. DOMAIN risk_events = {} /\ DOMAIN liquidations = {}
  BY <1>1
<1>4. Dated /\ Forward
  BY <1>1, <1>3 DEF Dated, Forward
<1>5. Backed /\ Witnessed
  BY <1>1, <1>3 DEF Backed, WebhooksBacked, Witnessed, SeverityWitnessed
<1>6. Once /\ Counted
  BY <1>1, <1>3 DEF Once, RecordedOncePerRisk, Counted, CountNeverExceedsRows
<1> QED BY <1>2, <1>4, <1>5, <1>6 DEF AInv

LEMMA NextA ==
  ASSUME AInv, [Next]_vars
  PROVE  AInv'
<1>1. TInv /\ Dated /\ Backed /\ Once /\ Counted /\ Witnessed /\ Forward
  BY DEF AInv
<1>2. TInv'
  BY <1>1, NextType
<1> HIDE DEF TInv, Dated, Backed, Once, Counted, Witnessed, Forward
<1>3. Dated' /\ Backed' /\ Once'
  BY <1>1, <1>2, NextDated, NextBacked, NextOnce
<1>4. Counted' /\ Witnessed' /\ Forward'
  BY <1>1, <1>2, NextCounted, NextWitnessed, NextForward
<1> QED BY <1>2, <1>3, <1>4 DEF AInv

LEMMA Invariant == Spec => []AInv
<1>1. Init => AInv
  BY InitA
<1>2. AInv /\ [Next]_vars => AInv'
  BY NextA
<1> QED BY <1>1, <1>2, PTL DEF Spec

\* No webhook tells the backend of a window, or of a liquidation, that is not on
\* file, whichever inserts fail and however often the worker restarts.
THEOREM WebhooksSafe == Spec => []WebhooksBacked
<1>1. AInv => WebhooksBacked
  BY DEF AInv, Backed
<1> QED BY <1>1, Invariant, PTL

\* No liquidation is recorded twice for a window: neither after a batch is cut
\* short by a failed insert nor by the look back of a restarted worker.
THEOREM RecordedOnceSafe == Spec => []RecordedOncePerRisk
<1>1. AInv => RecordedOncePerRisk
  BY DEF AInv, Once
<1> QED BY <1>1, Invariant, PTL

\* A closed window never counts more liquidations than are on file for it.
THEOREM CountsSafe == Spec => []CountNeverExceedsRows
<1>1. AInv => CountNeverExceedsRows
  BY DEF AInv, Counted
<1> QED BY <1>1, Invariant, PTL

\* Every severity on file is the loss of a price sample on file, taken within
\* the window.
THEOREM SeveritiesSafe == Spec => []SeverityWitnessed
<1>1. AInv => SeverityWitnessed
  BY DEF AInv, Witnessed
<1> QED BY <1>1, Invariant, PTL

\* What readers get of a window never goes back: a larger severity stays, a
\* resolved window stays resolved and a second closing only moves its end later.
THEOREM ForwardOnly == Spec => WindowsMoveForward
<1> DEFINE Moves ==
      \A s \in Risks(risk_events) :
        LET before == Latest(risk_events, s) after == Latest(risk_events', s) IN
          /\ before.severity <= after.severity
          /\ before.state = "RESOLVED" => after.state = "RESOLVED" /\ before.end <= after.end
<1>1. ASSUME AInv, [Next]_vars PROVE Moves
  <2>1. TInv /\ TInv' /\ Dated /\ Forward
    BY <1>1, NextA DEF AInv
  <2>2. \A s \in Risks(risk_events) : MovesForward(Latest(risk_events, s), Latest(risk_events', s))
    BY <1>1, <2>1, NextMovesForward
  <2> QED BY <2>2 DEF MovesForward
<1>2. AInv /\ [Next]_vars => [Moves]_vars
  BY <1>1
<1> QED BY <1>2, Invariant, PTL DEF Spec, WindowsMoveForward
=============================================================================
