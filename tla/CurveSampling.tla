--------------------------- MODULE CurveSampling ----------------------------
(***************************************************************************)
(* CurveIndexer.fetchSample() (services/indexer/curveIndexer.ts) with its  *)
(* retries (lib/retry.ts): one call to the node per action, over a chain   *)
(* that may grow between any two of them.  The block that dates a sample   *)
(* is fixed by the first call; every figure of the pool is then read at    *)
(* the latest block.  Any call may fail.                                   *)
(*                                                                         *)
(* Block n is chain[n], its time is n.  Prices and losses are in basis     *)
(* points, balances in the smallest unit of their tokens.                  *)
(***************************************************************************)
EXTENDS Integers, Sequences, FiniteSets, SequencesExt

CONSTANTS
  PoolStates,        \* what the pool may look like: [base, quote, price, loss]
  Decimals0, Decimals1, BaseTokenDecimals,  \* of the two coins; the configured fallback
  MaxRetries, Signatures,    \* attempts of withRetry; GET_DY_SIGNATURES.length
  MaxSamples, Horizon,       \* the price buffer and the time the TWAP looks back
  None,
  MaxBlocks, MaxFetches      \* bounds of the instance

ASSUME CurveConfig ==
  /\ MaxRetries \in Nat \ {0} /\ Signatures \in Nat \ {0}
  /\ MaxSamples \in Nat /\ Horizon \in Nat

VARIABLES
  chain,    \* the pool's state at each block
  fetch,    \* the fetch under way
  buffer,   \* this.sampleBuffer
  history,  \* every price that was pushed since the process started
  sample,   \* the sample returned, until the next fetch
  fetches

vars == <<chain, fetch, buffer, history, sample, fetches>>

Idle == [pc |-> "idle", attempt |-> 0, number |-> 0, scales |-> <<TRUE, TRUE>>, pending |-> {},
         base |-> None, quote |-> None, baseAt |-> 0, quoteAt |-> 0, signature |-> 0,
         price |-> None, unpriced |-> FALSE, twap |-> None]

Init ==
  /\ chain \in {<<s>> : s \in PoolStates}
  /\ fetch = Idle /\ buffer = <<>> /\ history = <<>> /\ sample = None /\ fetches = 0

Latest == chain[Len(chain)]

-----------------------------------------------------------------------------
(* Arithmetic.                                                             *)

\* 1.0 in basis points.
One == 10000

\* Math.round(n / d)
Round(n, d) == (2 * n + d) \div (2 * d)

\* The share of the base coin, each balance scaled by the decimals assumed.
ReserveRatio(base, quote, dec0, dec1) ==
  IF base + quote = 0 THEN 0
  ELSE Round(One * base * 10^dec1, base * 10^dec1 + quote * 10^dec0)

AverageOf(entries) ==
  IF entries = <<>> THEN One
  ELSE Round(FoldSeq(LAMBDA e, sum : sum + e.price, 0, entries), Len(entries))

\* Mutant: the buffer is cut before the new price is pushed.
PushedShort(entry) ==
  LET all == Append(buffer, entry)
  IN IF Len(all) >= MaxSamples THEN SubSeq(all, Len(all) - MaxSamples + 2, Len(all)) ELSE all

\* push, then shift while there are more than maxSamples.
Pushed(entry) ==
  LET all == Append(buffer, entry)
  IN IF Len(all) > MaxSamples THEN SubSeq(all, Len(all) - MaxSamples + 1, Len(all)) ELSE all

\* entries.filter(e => e.ts >= now - Horizon)
WithinHorizon(entries, now) ==
  LET kept[i \in 0..Len(entries)] ==
        IF i = 0 THEN <<>>
        ELSE IF entries[i].ts >= now - Horizon THEN Append(kept[i - 1], entries[i]) ELSE kept[i - 1]
  IN kept[Len(entries)]

\* computeTwap
Twap(entries, now) == AverageOf(WithinHorizon(entries, now))

-----------------------------------------------------------------------------
(* The calls.                                                              *)

GoOn(pc) == [fetch EXCEPT !.pc = pc, !.attempt = 1, !.signature = 1]

\* fetchSample() throws, and the worker polls again later.
Throw == fetch' = Idle /\ UNCHANGED <<buffer, history, sample>>

\* Mutant: after the last attempt another round begins.
RetryInRounds ==
  /\ fetch' = [fetch EXCEPT !.attempt = IF @ < MaxRetries THEN @ + 1 ELSE 1]
  /\ UNCHANGED <<buffer, history, sample>>

\* withRetry after a failure: once more, with a delay, or the error is thrown.
Retry ==
  \/ /\ fetch.attempt < MaxRetries
     /\ fetch' = [fetch EXCEPT !.attempt = @ + 1]
     /\ UNCHANGED <<buffer, history, sample>>
  \/ fetch.attempt = MaxRetries /\ Throw

StartFetch ==
  /\ fetch.pc = "idle" /\ fetches < MaxFetches
  /\ fetches' = fetches + 1
  /\ fetch' = GoOn("number")
  /\ sample' = None
  /\ UNCHANGED <<chain, buffer, history>>

GetBlockNumber(ok) ==
  /\ fetch.pc = "number"
  /\ IF ok THEN /\ fetch' = [GoOn("block") EXCEPT !.number = Len(chain)]
                /\ UNCHANGED <<buffer, history, sample>>
     ELSE Retry

\* A node that does not know the block answers null, which is not retried.
GetBlock(ok) ==
  /\ fetch.pc = "block"
  /\ IF ok THEN fetch' = GoOn("coins") /\ UNCHANGED <<buffer, history, sample>>
     ELSE Retry \/ Throw

GetCoins(ok) ==
  /\ fetch.pc = "coins"
  /\ IF ok THEN fetch' = GoOn("decimals") /\ UNCHANGED <<buffer, history, sample>> ELSE Throw

\* A call for decimals that fails is answered with the configured number.
GetDecimals ==
  /\ fetch.pc = "decimals"
  /\ \E ok0, ok1 \in BOOLEAN :
       fetch' = [GoOn("balances") EXCEPT !.scales = <<ok0, ok1>>,
                                         !.pending = {"base", "quote", "supply"}]
  /\ UNCHANGED <<buffer, history, sample>>

\* Promise.all: the three calls are answered in any order, each from the block
\* that is then the latest.
ReadBalance(which, ok) ==
  /\ fetch.pc = "balances" /\ which \in fetch.pending
  /\ IF ok
     THEN LET left == fetch.pending \ {which}
              next == IF left = {} THEN GoOn("rate") ELSE fetch
          IN /\ fetch' = CASE which = "base" -> [next EXCEPT !.pending = left,
                                !.base = Latest.base, !.baseAt = Len(chain)]
                           [] which = "quote" -> [next EXCEPT !.pending = left,
                                !.quote = Latest.quote, !.quoteAt = Len(chain)]
                           [] which = "supply" -> [next EXCEPT !.pending = left]
             /\ UNCHANGED <<buffer, history, sample>>
     ELSE Throw

\* get_dy answers for the amounts it is asked about: with the wrong decimals
\* it gives some other figure.
Answers(figure, figures) == IF fetch.scales = <<TRUE, TRUE>> THEN {figure} ELSE figures

Entry(price) == [ts |-> fetch.number, price |-> price]

\* The price is known: it enters the buffer, and the TWAP is taken.
Priced(price, unpriced) ==
  /\ buffer' = Pushed(Entry(price))
  /\ history' = Append(history, Entry(price))
  /\ fetch' = [GoOn("loss") EXCEPT !.price = price, !.unpriced = unpriced,
                                   !.twap = Twap(Pushed(Entry(price)), fetch.number)]
  /\ UNCHANGED sample

NextSignature == fetch' = [fetch EXCEPT !.signature = @ + 1] /\ UNCHANGED <<buffer, history, sample>>

\* Mutant: the first signature that fails ends the search.
ReadRateOnce(ok) ==
  /\ fetch.pc = "rate"
  /\ IF ok THEN \E price \in Answers(Latest.price, {s.price : s \in PoolStates}) : Priced(price, FALSE)
     ELSE Priced(One, fetch.signature = Signatures)

\* getExchangeRate: one signature of get_dy after the other, then 1.0.
ReadRate(ok) ==
  /\ fetch.pc = "rate"
  /\ IF ok THEN \E price \in Answers(Latest.price, {s.price : s \in PoolStates}) : Priced(price, FALSE)
     ELSE IF fetch.signature < Signatures THEN NextSignature
     ELSE Priced(One, TRUE)

\* getTokenDecimals
DecimalsRead(actual, answered) == IF answered THEN actual ELSE BaseTokenDecimals

\* fetchSample() returns.
Return(loss, unquoted) ==
  /\ sample' = [number |-> fetch.number, until |-> Len(chain), scales |-> fetch.scales,
                baseAt |-> fetch.baseAt, quoteAt |-> fetch.quoteAt,
                rBps |-> ReserveRatio(fetch.base, fetch.quote, DecimalsRead(Decimals0, fetch.scales[1]),
                                      DecimalsRead(Decimals1, fetch.scales[2])),
                price |-> fetch.price, unpriced |-> fetch.unpriced,
                loss |-> loss, unquoted |-> unquoted, twap |-> fetch.twap]
  /\ fetch' = Idle
  /\ UNCHANGED <<buffer, history>>

\* estimateLoss: the same signatures, then no loss at all.
ReadLoss(ok) ==
  /\ fetch.pc = "loss"
  /\ IF ok THEN \E loss \in Answers(Latest.loss, {s.loss : s \in PoolStates}) : Return(loss, FALSE)
     ELSE IF fetch.signature < Signatures THEN NextSignature
     ELSE Return(0, TRUE)

Answer ==
  /\ \/ \E ok \in BOOLEAN :
          \/ GetBlockNumber(ok) \/ GetBlock(ok) \/ GetCoins(ok) \/ ReadRate(ok) \/ ReadLoss(ok)
          \/ \E which \in {"base", "quote", "supply"} : ReadBalance(which, ok)
     \/ GetDecimals
  /\ UNCHANGED <<chain, fetches>>

\* The process starts again, with an empty buffer.
Restart ==
  /\ history # <<>>
  /\ fetch' = Idle /\ buffer' = <<>> /\ history' = <<>> /\ sample' = None
  /\ UNCHANGED <<chain, fetches>>

NewBlock ==
  /\ Len(chain) < MaxBlocks
  /\ \E s \in PoolStates : chain' = Append(chain, s)
  /\ UNCHANGED <<fetch, buffer, history, sample, fetches>>

Next == StartFetch \/ Answer \/ Restart \/ NewBlock

\* Every call to the node ends, with an answer or an error.
Spec == Init /\ [][Next]_vars /\ WF_vars(Answer)

-----------------------------------------------------------------------------
(* Properties.                                                             *)

\* The TWAP of a sample is the average of every price fetched since the horizon,
\* as long as the buffer has room for that many.
TwapIsWindowAverage ==
  fetch.pc = "loss" =>
    LET window == WithinHorizon(history, fetch.number)
    IN Len(window) <= MaxSamples => fetch.twap = AverageOf(window)

RatioAt(n) == ReserveRatio(chain[n].base, chain[n].quote, Decimals0, Decimals1)

\* A sample describes blocks of its own span, from the one that dates it to the
\* latest at its end: its ratio is that of one of them unless a block came in
\* between the two balances, and its price and loss are defaults only if every
\* signature has failed.
SampleOfItsSpan ==
  sample # None /\ sample.scales = <<TRUE, TRUE>> =>
    LET span == sample.number..sample.until IN
    /\ sample.baseAt = sample.quoteAt => \E n \in span : sample.rBps = RatioAt(n)
    /\ sample.unpriced \/ \E n \in span : sample.price = chain[n].price
    /\ sample.unquoted \/ \E n \in span : sample.loss = chain[n].loss

\* No fetch runs for ever, whatever the node answers: the worker's loop, which
\* awaits it, polls again.
FetchEnds == fetch.pc # "idle" ~> fetch.pc = "idle"

\* How many answers the fetch still waits for, at most.
AnswersLeft ==
  LET attempts == MaxRetries - fetch.attempt + 1
      signatures == Signatures - fetch.signature + 1
  IN CASE fetch.pc = "idle" -> 0
       [] fetch.pc = "number" -> attempts + MaxRetries + 5 + 2 * Signatures
       [] fetch.pc = "block" -> attempts + 5 + 2 * Signatures
       [] fetch.pc = "coins" -> 5 + 2 * Signatures
       [] fetch.pc = "decimals" -> 4 + 2 * Signatures
       [] fetch.pc = "balances" -> Cardinality(fetch.pending) + 2 * Signatures
       [] fetch.pc = "rate" -> signatures + Signatures
       [] fetch.pc = "loss" -> signatures

\* Why it does not: every answer, an error or a figure, whichever call it is for,
\* brings the end nearer, so that no fetch waits for more than
\* 2 * MaxRetries + 5 + 2 * Signatures of them.
AnswersRunOut == [][Answer => AnswersLeft' \in 0..AnswersLeft - 1]_vars
=============================================================================
