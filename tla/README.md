# A TLA+ model of the LiquidityGuard validator

The validator watches a Curve pool and an Aave market for stablecoin depegs,
records the depeg windows it finds in ClickHouse, tells a backend about them,
and previews and signs insurance claims against them. This directory holds TLA+
modules for that core, TLC configurations that check them on small instances,
and proofs, checked by TLAPS, of the facts that should hold for every instance.
Paths below are relative to the repository.

## 1. The system

| Part | Source | State | Operations |
|---|---|---|---|
| Depeg detector | `src/services/indexer/detector.ts` | `active`, `lastBreachAt`, `windowStart` | `sample()`, which answers DEPEG_START, DEPEG_END or nothing |
| Curve indexer | `src/services/indexer/indexerService.ts`, `src/workers/indexer.ts` | the detector, `currentEvent`; in memory only | `poll()`: sample, store, track or open or close a window |
| Pool sampling | `src/services/indexer/curveIndexer.ts`, `src/lib/retry.ts` | a buffer of prices for the TWAP | `fetchSample()` |
| Aave monitor | `src/services/indexer/aaveDlpMonitor.ts`, `aaveIndexer.ts` | `activeDepegWindow`, `lastProcessedBlock`; in memory only | `poll()`: price, window, liquidations |
| Claim service | `src/services/claimService.ts`, `src/routes/claims.ts`, `src/lib/{payout,signing}.ts` | none of its own | `previewClaim`, `signClaim` |
| Risk, metrics and health API | `src/services/riskService.ts`, `src/routes/*.ts` | none | read-only queries, one of them paginated |
| ClickHouse | `clickhouse/migrations/*.sql`, `src/db/clickhouse.ts` | the tables | insert, `SELECT ... FINAL` |
| Webhooks | `src/services/webhookService.ts` | none | one POST, errors swallowed |
| Snapshots | `src/lib/ipfs.ts` | files | `createSnapshot`, which answers `""` on failure |
| Backtest | `scripts/simulate.ts` | a detector of its own | writes the live tables |
| Envio handlers | `envio-indexer/src/handlers/*.ts` | policies, holders, pools, statistics | one handler per contract event |

How they interact. Two processes run: the worker (two independent loops, Curve
and Aave, whose polls never overlap themselves) and the API (any number of
requests, interleaved at their awaits). They share nothing but ClickHouse. The
worker writes `pool_samples`, `risk_events`, `snapshots`, `liquidations`; the API
reads them and reads and writes `claim_nonces`. Webhooks leave the system. The
Envio indexer is a third process with its own database.

`risk_events` carries the protocol between them: each change of a window is a new
row with the next version under the same `risk_id`; the table is a
ReplacingMergeTree over (`risk_id`, `version`), and readers take the row with the
highest version. The risk id is made of the pool and the window's start.

### What is hard

- `poll()` changes the detector before it awaits the inserts that record the
  change. An insert that throws leaves the detector and `currentEvent` apart.
- An insert that throws may have been written. Nothing is retried in place; the
  next poll continues with what memory says.
- A restart loses the detector, `currentEvent`, `activeDepegWindow` and
  `lastProcessedBlock`; the tables keep the half of the story already told.
- A claim reads a window and then its samples, while the indexer goes on.
- A nonce is read and its successor inserted in two steps.
- Everything the API answers is put together from several queries, and GET /risk from
  several requests, while the tables go on changing.
- A sample is read from the node in ten calls or more, each at the block that is then
  the latest.
- A backtest over recent blocks writes the live tables under the live risk ids.

PROJECT.json lists these hazards at their lines with the properties on guard.

### What makes each part correct

- Detector: it answers exactly what the history of samples calls for.
- Curve indexer: rows are never silently replaced, are backed by stored samples
  and snapshots, are announced at most once and never before they are stored,
  and its windows are those of the pool.
- Aave monitor: what it announces is on file, a liquidation is recorded once per
  risk, and a window only moves forward.
- Claims: no preview falls below what was published, and a nonce is used once.
- Pool sampling: a sample describes the pool at blocks of its own span, its TWAP is
  the average it is called, and a fetch ends whatever the node does.
- API: pages neither repeat nor skip, and the parts of an answer fit together.
- Backtest: what it writes is backed by samples and changes no window that the
  indexer has resolved.
- Policies: the counters of holders, pools, days and the whole agree with the rows
  they count.

## 2. The modules

| Module | Models |
|---|---|
| `Detector` | the class, as a pure machine: state, next state, answer |
| `DetectorHistory` | one detector, the samples it was fed, what it answered |
| `DetectorProofs` | the proofs about its history |
| `RiskEvents` | `risk_events` as the sequence of its rows, and the query for the latest one |
| `DepegWindows` | abstract: the life of depeg windows as a reader sees it |
| `IndexerService` | the Curve indexer, its tables and the backend |
| `IndexerServiceProofs` | the proofs about it, and that it implements `DepegWindows` |
| `AaveMonitor`, `AaveMonitorProofs` | the Aave monitor, its tables, the backend and the chain it reads; the proofs about it |
| `ClaimService`, `MCClaimService`, `ClaimServiceProofs` | claim requests; the instance TLC checks them on; the proofs about nonces |
| `RiskApi` | GET /risk, GET /risk/:riskId and GET /health, query by query |
| `RiskApiProofs` | the proofs about the pages of GET /risk, beside any writer of `risk_events` |
| `Validator` | `IndexerService`, `ClaimService` and `RiskApi` on the same tables |
| `Backtest` | the simulator beside `IndexerService`, on the same tables |
| `CompositionProofs` | the proofs about both: pages, previews, details and /health beside the indexer; what the simulator leaves |
| `CurveSampling`, `MCCurveSampling`, `CurveSamplingProofs` | `fetchSample()` call by call over a growing chain; the pools TLC checks it on; the proofs about samples, TWAP and retries |
| `PolicyIndex`, `PolicyIndexProofs` | the Envio handlers and their tables; the proofs about their counters |

### Correspondence with the code

`Detector` has no variables, since two programs hold a detector. `AfterSample` and
`EventOf` are the two results of `sample()`; the early returns of the code are the
conditions `Opens`, `Closes` and `Breach`.

`IndexerService` has one action per await of `poll()`, named for the insert or the
call whose answer ends it: `StartPoll` (`fetchSample`), `InsertSample`,
`PersistOpen` (the row of a tracked window), `StartSnapshot`, `PersistStart`,
`EmitStart`, `EndSnapshot`, `PersistEnd`, `EmitEnd`. Each is the code up to the next
await, so that a `Crash` or a request can come between any two. `FeedDetector`, the
synchronous middle of `poll()`, is part of the two actions that can precede it. An
insert is `stored`, `rejected` (it throws, nothing is written) or `ack_lost` (it
throws, the row is written). Reserves, prices, `r_bps` and `twap_bps` of the rows,
the attestor and the wall-clock columns are left out: no property reads them.
The pool is one pool, so a risk id is the start of its window.

`AaveMonitor` does the same for `AaveDlpMonitor.poll()` and
`AaveIndexer.pollLiquidations()`. A price is its deviation and the side of the peg
it is on. Above the peg `storePriceSample` computes negative losses for columns of
type UInt32; ClickHouse refuses them, and the model lets that insert throw always.
`fetchLiquidationEvents` swallows its errors, so `PollLiquidations` may find any part
of the range, and `lastProcessedBlock` moves on regardless. Time is counted in
blocks. The chain only grows (no reorganisations).

`ClaimService` has one action per await of `previewClaim` and `signClaim` that reads
or writes a table some step changes. `LossSince` is the query of `fetchRiskMetrics`.
`NextNonce` is what `BigInt(current + 1)` computes: ClickHouse quotes UInt64 in JSON,
so a nonce that was read is a string and the sum appends a digit: 1, 11, 111.
`InsertNonce` includes the end of `signClaim`: `persistClaim` throws on the BigInts
of the message, so the request ends in an error after its message was signed.

`PolicyIndex` has one action per contract event and its handler: Envio runs one
handler at a time and stores its writes together. `Update` is the code's `if (row)
set`, `Upsert` its create-or-update, `Put` the `set` in both, `Changed` the spread of a row with a few fields
increased (or `activePolicies` decreased, no further than 0). `onchain` stands for
the contracts: a policy is minted once per chain, then activated or expired; an
active one expires or is claimed, and an expired one may still be claimed. Insured
amounts (kept exactly as `totalPolicies` is), premiums (always 0), product names and
timestamps are left out; `today` is the day of the block.

`previews` hold what `previewClaim` answers: `PayoutOf` is `computePayout` with its
integer division, `PreviewOf` the cap and what is left of the insured amount. The four
numbers of a policy (insured amount, cap, factor, deductible) are constants; with
those of `Validator` a loss of 1000 pays a part of the cap and one of 8000 all of it.

`RiskApi` has one client and one request, since requests write nothing and share
nothing. `Arrive` chooses the route. The list client follows the cursor to the last page:
`ReadPage` is `listRisks` up to its rows, `After` its WHERE with the cursor, `FirstOf`
ORDER BY and LIMIT (in any order of rows that the ORDER BY leaves open), `CursorAt` the
cursor of the page's last row, and `ReadMetrics` the `fetchListMetrics` of the next row.
`ReadRow`, `ReadWindow`, `ReadTelemetry`, `ReadSnapshots` are the queries of
`getRiskDetail`, `ReadLatest`, `ReadOpen`, `ReadStats` those of /health. Formatting, the
averages and the age of a sample are left out. `attested` gives each row its
`attested_at`; the instance lets two rows share one (`Ties`).

`Backtest` reads the simulator as one loop over blocks with an await per insert: `SimSample`,
`SimStartSnapshot`, `SimOpenRow`, `SimEndSnapshot`, `SimResolvedRow`. An insert that
throws ends the iteration (`NextBlock`, the catch), with the detector and `risks` as they
were. It sees the pool at the block it names, with losses of its own formula, so its samples
may differ from the indexer's at the same time. Its rows are dated by their block and
the indexer's by the wall clock, so `updated` remembers `updated_at` of each row, and `LatestAt`
lets FINAL choose by it.

`CurveSampling` has one action per call to the node, with `ReadBalance` for each of the
three calls of a Promise.all. `Retry` is `withRetry` (its delays are only time);
`ReadRate` and `ReadLoss` go through the signatures of `get_dy` and fall back to 1.0 and
to no loss, `GetDecimals` falls back to the configured number. With decimals the coin did
not give, `get_dy` is asked about the wrong amount and may answer any figure. `Pushed`
and `Twap` are the price buffer and `computeTwap`. `history` is every price pushed since the
process started; no step of the code reads it. `WithinHorizon` is the code's `filter`,
written as a recursive function since the prover cannot unfold `SelectSeq`. In the other
modules a sample is one nondeterministic answer.

The tables keep every row ever inserted; `Final` and `Latest` do what FINAL and
ORDER BY version DESC LIMIT 1 do. Outside `Backtest` the last inserted of the rows of one
key wins, which is right as long as `updated_at` does not go back.

## 3. What TLC checks

Constants in the instances: a ratio of 1 is a breach and 2 is not, losses take two
values, the grace period is 1 unit of time. One unit of grace is enough for the three
cases that differ (below, at and above it); a larger one only needs longer runs.

| Run | Bounds | Shows |
|---|---|---|
| `detector_history` | 5 samples, times in any order | `ActiveIffSustained`, `StartsAreRunStarts`, `EndsCloseSustainedRuns` against a definition that reads the history alone |
| `indexer_faults` | 5 polls, times 0..2, one failed insert of either kind, one crash | seven invariants of the tables and anchors, at every await; until the first failed insert, `WindowTracksBreach` and `NoRecoveryInsideWindow`; `RecoveryRecorded`: a recovery that was sampled is in the end resolved |
| `indexer_windows` | 6 polls, times 0..3, one rejected insert, one crash | the latest rows implement `DepegWindows` |
| `aave_faults` | blocks 1..4, two liquidations, one failure, one crash, a node one block behind | six properties of what is recorded and announced, at most once |
| `claims_serial` | 3 requests, 2 policies, 2 risks (one unknown), 2 seconds, failed inserts, restarts | signed nonces are on file and grow |
| `policy_index` | 6 events, two chains, two policy ids, owners and pools each, two days | five properties of the handlers' counters |
| `validator` | 4 polls, times 0..2, one unacknowledged insert, one crash, one request: a preview, a list of pages of one row, a detail or /health; rows 2 and 3 attested at once | `PreviewCoversHistory` (loss, payout and current value), `SettledPreviewsComplete`, `ListedOnce`, `ListedAll`, `DetailBacked`, `HealthCoherent` |
| `backtest` | 3 polls, times 0..2, no failures of the indexer; the script over blocks 0..2, its inserts rejected or unacknowledged any number of times | `RowsEvidenced`; `BacktestLeavesResolved`, a property of the script's steps |
| `curve_sampling` | 3 fetches, 3 blocks, 2 attempts, 2 signatures, a buffer of 2, any call failing, restarts at any time | `TwapIsWindowAverage`, `SampleOfItsSpan`, and `FetchEnds`, that no fetch runs for ever |

Why these bounds are enough to be interesting. Opening a window takes two polls,
tracking it one and closing it one; five or six polls leave room for a second
window or for a window after a crash, which is where identifiers, versions and the
in-memory event can be confused. One failure and one crash can be combined at any
two awaits; a second failure adds the confusion of a window left over by one failed
closing with one failed opening, which the invariants of `indexer_faults` do not
depend on (they are proved for any number). Two liquidations are
enough for a batch that is cut in the middle. Six events reach a holder with two
policies in different states, a claim after an expiry, an id minted on both chains
and reserve movements before the first policy; ids, owners and pools are
interchangeable in `PolicyIndex`, hence its SYMMETRY. Every property is also shown able to
fail: PROJECT.json names, for each, a mutated definition under which TLC finds it
violated in the same run.

In `validator` the request may come at any time, and each of its queries at any later one,
so three or four rows of one risk are enough to turn the pages over while rows appear;
a second request would read the same tables and change nothing. Its constraint
`UntilAnswered` ends a behaviour at the answer of a read-only request, since the
properties are about the answer, and its VIEW leaves out the webhooks, as that of
`backtest` does: no step reads them and no property of these runs sees them. Three polls of
`backtest` open and resolve a window; with the script over all three times both writers write the
same risk id, whichever comes first. In `curve_sampling` a buffer of two prices is both
large enough for the window and too small for it, two balances can be read from
different blocks, and the coins have different decimals so that a wrong one shows.

The properties of a request's answer say how its parts fit, not that they are of one moment.
`ListedAll` excepts a row that shares its `attested_at` with another of its risk, which the
cursor cannot tell apart; `HealthCoherent` does not exclude resolved windows from the
active events, since FINAL keeps their superseded OPEN versions and the query returns them.
`SampleOfItsSpan` says nothing of a ratio whose balances are of different blocks: such a
ratio need not be one the pool ever had, and the detector is fed it all the same.
`BacktestLeavesResolved` holds because the indexer's RESOLVED row has version 3 at least and
the script's version 2. While a live window is open the script's RESOLVED row can be
the one readers see, until the indexer's next row; and its samples, whose loss is computed
by another formula, count in `previewClaim`'s maximum.

`indexer_windows` uses a VIEW that leaves out the tables the refinement does not
read. It allows rejected inserts only: after an unacknowledged RESOLVED row the
service goes on writing OPEN rows, so a resolved window can be open again for its
readers, and `DepegWindows` is not implemented. No property covers
that reopening; PROJECT.json lists it with its line.

Deadlock is not checked: each instance stops at its bounds.

### Fairness

`FairSpec` of `IndexerService` and `Spec` of `CurveSampling` state weak fairness of
`Answer`: what `poll()` or `fetchSample()` awaits ends, with an answer or an error. Every await of
`poll()` is an HTTP request with a timeout or a file write, and every await of
`fetchSample()` a call by ethers with a timeout (except that ethers, at the start of
the process, waits for the node for as long as it takes; the fairness assumes that the node
is reachable once). Nothing else is fair: no poll need ever start, no block
need come, no insert need succeed. `RecoveryRecorded` therefore begins where a recovery has been
sampled in a poll under way, and excepts a failed insert and a crash: there is no
retry that would make up for them. `FetchEnds` holds for every mixture of answers and errors.

### Disagreements with the documentation

Each is the one property of a run that TLC finds violated.

- `claims_sign_answered` (`SignedRequestAnswered`): no POST /claims/sign succeeds;
  `JSON.stringify` in `persistClaim` throws on the message's BigInts, after the nonce
  is stored and the message signed.
- `claims_nonce_race` (`NonceUnique`): two concurrent requests sign one nonce.
- `validator_orphan` (`LossesDuringWindow`): a window that was open at a restart is
  never resolved, and previews of it count later losses. The same happens for the
  length of one request when a preview reads an OPEN row just before it is resolved.

The following is modelled, and no property contradicts it because no document says
otherwise in so many words. After a failed insert while a window closes, the service
goes on writing OPEN rows for it while the pool is healthy, until some later depeg ends
(`detector.ts:46` has reset the detector). The second and later windows of the Aave monitor
collect the liquidations since the first one closed, however long before the depeg;
`correlationWindowSeconds` is read by nothing. /health lists every OPEN version of a
window, also of a resolved one.

`policy_index` has no disagreement of its own, but its properties stop where the code
does: `ActiveCountsAgree` holds while no policy id is minted on two chains (the key
has no chain, and config.yaml lists two networks); `PayoutsAgree` lets the holders'
and pools' payouts fall short of the total, for claims paid after the policy expired;
`ReserveDaysAgree` lets the global reserve totals fall short, since nothing before the
first policy is counted in them. A day's activations and expiries are in no property:
they are lost on a day without an earlier mint, claim or reserve movement.

`NoncesIncrease` is checked with one request in flight per policy and risk, an
assumption on the clients (`MaxInFlight`) and not something the service enforces.

## 4. What is proved

TLAPS checks, for every value of the constants that meets their assumptions, what
follows. Every theorem about a specification has the same plan: an invariant in named
parts, one lemma per action (or per kind of row that an action inserts) that keeps it, and
what is claimed as one of its parts or a consequence of them.

**Detector** (`DetectorProofs`). `ActiveCorrect`, `StartsCorrect`, `EndsCorrect`,
`DetectorTypeCorrect`: the answers of `sample()` characterise the history. A start comes
exactly when a run of breaches first reaches the grace period, an end exactly at
the sample that breaks a sustained run. The invariant adds to the properties
that `lastBreachAt` is the time of the first sample of the current run
(`RunKnown`); without it the next answer cannot be tied to the history. The
timestamps are arbitrary integers.

**Curve indexer** (`IndexerServiceProofs`), for any number of polls, failed or
unacknowledged inserts and crashes:

- `TypeCorrect`: the types, and that an await which uses `currentEvent` has one.
- `VersionsSafe`, if `GracePeriod > 0`: no (risk id, version) is written twice. The
  invariant has to explain why a restarted service cannot take up an old
  risk id: a window starts at least a grace period before the newest block when it
  opens (`StartsInThePast`, `OpeningIsNew`), every row's window started before the
  detector's run did, and the current event is newer than every row of another risk
  and its version larger than every row's of its own (`EventIsNewest`). With a grace
  period of 0, which `config/env.ts` allows, a restart within one block opens the
  same risk id again and overwrites version 1, so the assumption is needed.
- `SnapshotsSafe`, `SeveritiesSafe`, `EndpointsSafe`, `AnchorsSafe`: no row and no anchor is
  without the snapshots and samples it is made from. The tables alone do not carry these
  through a poll: the invariant `EInv` says the same of memory, that the run of
  breaches the detector is in, the current event and the sample of the poll stand on
  what was stored (`RunBacked`, `EventBacked`, `PollBacked`).
- `AnchorsOnce`, if `GracePeriod > 0`: a window's start and its end are announced at most
  once. `AnchorsToCome` excludes that the current event's were sent before.
- `TracksBreach` and `RecoveriesClose`: until an insert fails, crashes or not, the tracked
  event is the detector's window, and no healthy sample lies inside a resolved one. The
  invariants compare event and detector at every await (`InStep`), and say that no healthy
  sample has come since the run began (`RunsUnbroken`).
- `ImplementsWindows`, if `GracePeriod > 0` and an insert that fails writes nothing: the latest rows
  implement `DepegWindows`. `WInv` adds that every risk has a latest row (`HasLatest`), and
  that the tracked window is not resolved before the last await of its poll and exceeds what
  its rows say (`EventOpen`). Without the second assumption the theorem is false (section 3).

**Aave monitor** (`AaveMonitorProofs`). `TypesHold`, `WebhooksSafe`, `RecordedOnceSafe`,
`CountsSafe`, `SeveritiesSafe` and the action property `ForwardOnly`, from one invariant. Its
parts: nothing is dated ahead, and until a poll opens its window there is none of that risk
(`Dated`); what the next webhook tells of is on file (`Backed`); what is on file of the
tracked window lies behind `lastProcessedBlock`, and what is still to be recorded is not on
file (`Once`), hence neither a cut batch nor a restart records a liquidation twice; a
window counts no more than what is on file and still pending (`Counted`); the sample of
this poll and that of the largest deviation are on file (`Witnessed`); and the tracked window
exceeds its rows (`Forward`).

**Claims** (`ClaimServiceProofs`).

- `SignedNoncesRecorded`: a signed nonce is on file. `HasNewest` says that FINAL finds a
  row for every pair that has one, so the nonce that is read exists.
- `NoncesGrow`, if `MaxInFlight = 1` (an assumption on the clients, see section 3): then
  the order of insertion is that of the nonces (`RowsInOrder`), and a nonce about to be inserted is
  above all there are (`PendingAbove`).
- `TypesHold`, for a `risk_events` that is a sequence of rows throughout (`IsTable`): the
  module leaves that table to its environment.

**API** (`RiskApiProofs`), with a positive limit (`routes/risk.ts:7`), risk ids that are integers and a
`None` that is no cursor:

- `PagesShowOnce`: a client that follows the cursor of GET /risk is shown no
  version of a risk twice, whatever the limit and the number of rows. The writers are not
  `IndexerService` but any that insert the rows of one key in the order of their
  `attested_at` (`Writer`), as `persistEvent` does. Every row that was shown, or is on the page,
  lies at or before the cursor (`ShownBeforeCursor`).
- `PagesShowAll`: it is shown every row that was on file when it began and shares its place with no
  other: until the last page such a row was shown, or comes after the cursor (`LInv`).

**Composition** (`CompositionProofs`).

- `ListedOnceBesideIndexer`, `ListedAllBesideIndexer`: the two theorems about pages, with the
  indexer as the writer: its rows have their types (`TypeCorrect`) and are attested in
  order whichever of them tie (`AttestedInOrder`).
- `PreviewsCover`, `PreviewsSettled`, if `GracePeriod > 0`: a preview has seen what its row and every
  earlier one told, and of a resolved window all there will be. The invariant is about the files
  first: what a row says was sampled within the window of every later row (`RowsCovered`). A preview
  can then be read at any later time (`Settled`), since `PayoutOf` grows with the loss (`PayoutsGrow`).
- `HealthSafe`, `DetailSafe`, if `GracePeriod > 0`: the answers of /health and /risk/:riskId, whose queries see
  different tables, do not contradict themselves. What was read remains true of the tables
  as they grow (`HealthRead`, `DetailRead`).

**Backtest** (`CompositionProofs`), for every range of blocks and step, with crashes and failed
inserts of the indexer too, which the run leaves out:

- `RowsBorneOut`: what either writer puts on file is borne out by samples. The indexer's
  invariants about evidence hold beside any step that only adds to its tables (`Grown`,
  `StepWrites`, in `IndexerServiceProofs`). What the script holds in memory is as well founded as
  what the indexer holds (`SimBacked`): its detector's run, its largest losses and the sample of the
  block, which is stored before any row of it.
- `ResolvedLeft`: the script does not change what is shown of a resolved risk. The invariant `CInv` is
  about versions and the order of risks. The indexer takes two versions of an event before it resolves
  it (`EventVersions`), so its RESOLVED rows have version 3 at least and the script's rows, of versions
  1 and 2, come before them. A RESOLVED row of version 2 is the script's, of a risk earlier than the run
  its detector is in and the window it has in hand (`ClosedEarlier`, `ClosesLater`), and it writes of no
  other risk.

**Curve pool sampling** (`CurveSamplingProofs`), for any buffer size, horizon, number of fetches and
blocks, and any pools:

- `SampleFaithful`: `SampleOfItsSpan`. `SInv` says the same of the fetch before it returns: a balance
  that has been answered is that of a block between the one that dates the sample and the latest
  (`BalancesRead`), and so is the price (`PriceRead`).
- `TwapFaithful`: `TwapIsWindowAverage`. The buffer is the end of `history` (`IsTail`), or all of it, and
  `history` is in the order of blocks (`PushedInOrder`). So if the buffer has room for every recent
  price, what it has dropped is not recent (`SameWindow`). That is argued about the filter's
  partial results, by least counterexample (`FilterMany`, `FilterTail`).
- `AnswersEnd`: `AnswersRunOut` (in no run), what `FetchEnds` rests on besides fairness. A fetch waits for at most
  `2 * MaxRetries + 5 + 2 * Signatures` answers, 17 with the 3 attempts of `retry.ts:11` and the 3
  signatures of `curveIndexer.ts:20-24`.

**Envio handlers** (`PolicyIndexProofs`), for any finite set of chains:

- `TypesHold`. Its invariant is `Linked` (policies have holders and pools, and nothing else
  creates them) and `Known` (what a contract has told of has a row).
- `MintsCounted`, `PayoutsCounted`, `ReserveCounted`: the totals agree. These
  are sums over tables with any number of rows. What a handler does to a sum is proved once
  (`TotalOfChange`: one row changes, and the sum with it), from lemmas about the library's
  `SumFunction`: it is defined by a recursion that picks elements in some order, and
  `SumExists`, `AnyOrder` show by least counterexample that it has a value and that the order does not
  matter.
- `ActiveCounted`: `ActiveCountsAgree`. As long as no id is shared, a row says what its contracts
  said last (`Mirrored`), so a policy that is activated was not active, and one that is minted had no
  row (`Emitted`); the decrement never stops at 0.

Assumptions: those named above, and in the modules: `DetectorConfig`, `IndexerConfig`, `AaveConfig`,
`ClaimConfig`, `ValidatorConfig`, `CurveConfig`, `PolicyIndexConstants`. They say that bounds, ratios, losses, deviations,
amounts and grace period are numbers (`config/env.ts:35-36`), attempts and signatures at least one, that requests and chains are finitely
many, and that `None` is none of the values it stands beside. The model's own assumption that block
times do not go back enters through `StartPoll`.

Only model-checked: liveness (`RecoveryRecorded`, `FetchEnds`), which is out of the prover's
reach, as is any statement with ENABLED. That a window is eventually resolved is claimed only for a sampled
recovery: across failures and restarts the code does not see to it.

## 5. Not modelled

The two routes of `metrics.ts` (one query each, returned as it is; `from=0` counts as no
`from`, and the chart's LIMIT keeps the oldest samples), the Pyth oracle and the age of Chainlink's
answer (a price is some deviation, or none), HMAC checks of routes and webhooks, the
snapshots and attestations in the API's answers beyond their labels, the delays between
retries, block-time regressions in `IndexerService` (the detector alone is checked with
them), chain reorganisations, time zones (the API reads ClickHouse timestamps in the
process's zone), configuration, logging, seeding and migration.

## 6. Plan

1. Done: detector, Curve indexer with its sampling, Aave monitor, claims with their
   payouts, the read-only API, their composition, the backtest, the Envio handlers;
   proofs of every invariant and action property of the runs, and of the refinement.
2. Left: `AaveMonitor` in the composition with claims; the choice between the price oracles;
   a rule for what may be signed (`signClaim`), once the repository states one.
