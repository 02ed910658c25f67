----------------------------- MODULE AaveMonitor -----------------------------
(***************************************************************************)
(* services/indexer/aaveDlpMonitor.ts with the parts of aaveIndexer.ts it  *)
(* calls, run by aaveLoop of workers/indexer.ts: one poll at a time, one   *)
(* action per await that can fail or whose result is kept.                 *)
(*                                                                         *)
(* Time is counted in blocks: a block's timestamp is its number, and a     *)
(* poll that starts while head is the newest block is dated head.  Two     *)
(* polls never have the same date (POLL_INTERVAL_MS is at least a second). *)
(***************************************************************************)
EXTENDS RiskEvents, FiniteSets

CONSTANTS
  Deviations,    \* deviations from the peg the price may show, in bps
  Threshold,     \* config.depegThreshold
  Lookback,      \* blocks pollLiquidations() looks back when it first runs
  FailureModes,  \* the ways an insert may fail, of {"rejected", "ack_lost"}
  None,
  \* Bounds of the instance:
  MaxLag,        \* how far behind its newest block the node may answer
  MaxHead, MaxLiquidations, MaxFailures, MaxCrashes

VARIABLES
  pc,          \* the await poll() is in, "sleep" between polls
  price,       \* priceData of this poll
  now,         \* the date of this poll
  batch,       \* what is left of the liquidations this poll has fetched
  fetched,     \* how many it has fetched
  window,      \* this.activeDepegWindow
  lastProcessedBlock,  \* of the AaveIndexer
  price_samples, risk_events, liquidations, snapshots,  \* the tables
  webhooks,    \* what reached the backend
  head,        \* the newest block of the chain
  onChain,     \* the blocks of the LiquidationCall events, by event
  failures, crashes

memory == <<pc, price, now, batch, fetched, window, lastProcessedBlock>>
tables == <<price_samples, risk_events, liquidations, snapshots, webhooks>>
chain == <<head, onChain>>
vars == <<memory, tables, chain, failures, crashes>>

Prices == [deviation: Deviations, aboveDollar: BOOLEAN]
Depegged == price.deviation >= Threshold

Times == 0..MaxHead
Windows == [risk: Times, maxDeviation: Deviations, liquidationCount: Nat]

ASSUME AaveConfig ==
  /\ Deviations \subseteq Nat /\ Lookback \in Nat /\ MaxLag \in Nat /\ MaxHead \in Nat
  /\ None \notin Windows

\* Poll state and window fit together: past the opening of a window there is
\* one, what is being processed was fetched, and nothing is dated ahead.
TypeOK ==
  /\ pc \in {"sleep", "insert_price", "insert_open", "emit_start", "poll_liquidations",
             "insert_liquidation", "insert_snapshot", "emit_liquidation", "insert_close",
             "emit_end"}
  /\ pc # "sleep" => price \in Prices /\ now \in 1..head
  /\ pc \in {"insert_open", "emit_start"} => window = None /\ Depegged
  /\ window \in Windows \cup {None}
  /\ pc \in {"poll_liquidations", "insert_liquidation", "insert_snapshot",
             "emit_liquidation", "insert_close", "emit_end"} => window # None
  /\ pc \in {"insert_close", "emit_end"} => ~Depegged
  /\ batch \subseteq DOMAIN onChain
  /\ batch # {} <=> pc \in {"insert_liquidation", "insert_snapshot", "emit_liquidation"}
  /\ Cardinality(batch) <= fetched
  /\ lastProcessedBlock \in 0..head

Init ==
  /\ pc = "sleep" /\ price = None /\ now = 0 /\ batch = {} /\ fetched = 0
  /\ window = None /\ lastProcessedBlock = 0
  /\ price_samples = {} /\ risk_events = <<>> /\ liquidations = <<>>
  /\ snapshots = {} /\ webhooks = {}
  /\ head = 0 /\ onChain = <<>> /\ failures = 0 /\ crashes = 0

-----------------------------------------------------------------------------
(* Steps poll() is made of.                                                *)

MaxOf(a, b) == IF a >= b THEN a ELSE b

Attempt(outcome) ==
  /\ outcome \in {"stored"} \cup (IF failures < MaxFailures THEN FailureModes ELSE {})
  /\ failures' = failures + (IF outcome = "stored" THEN 0 ELSE 1)

Written(outcome) == outcome \in {"stored", "ack_lost"}

\* poll() goes on to its next await; between polls its locals are gone.
GoTo(p) ==
  /\ pc' = p
  /\ price' = IF p = "sleep" THEN None ELSE price
  /\ IF p \in {"insert_liquidation", "insert_snapshot", "emit_liquidation"}
     THEN UNCHANGED <<batch, fetched>> ELSE batch' = {} /\ fetched' = 0

\* emitWebhook swallows its errors: the event arrives or it does not.
Notify(kind, key, delivered) ==
  /\ delivered \/ failures < MaxFailures
  /\ failures' = failures + (IF delivered THEN 0 ELSE 1)
  /\ webhooks' = IF delivered
                 THEN webhooks \cup {[kind |-> kind, risk |-> key[1], event |-> key[2]]}
                 ELSE webhooks

\* Mutant: the window's deviation is the latest one, not the largest.
AfterLiquidationsLatest(count) ==
  /\ window' = [window EXCEPT !.maxDeviation = price.deviation, !.liquidationCount = count]
  /\ GoTo(IF Depegged THEN "sleep" ELSE "insert_close")

\* poll() after checkLiquidations(): lines 88-97.
AfterLiquidations(count) ==
  /\ window' = [window EXCEPT !.maxDeviation = MaxOf(@, price.deviation),
                              !.liquidationCount = count]
  /\ GoTo(IF Depegged THEN "sleep" ELSE "insert_close")

\* Risk rows; the versions are the literals of the two inserts.
OpenRow == [risk |-> now, version |-> 1, state |-> "OPEN", end |-> None,
            severity |-> price.deviation, liquidationCount |-> 0]
ResolvedRow == [risk |-> window.risk, version |-> 2, state |-> "RESOLVED", end |-> now,
                severity |-> window.maxDeviation, liquidationCount |-> window.liquidationCount]

-----------------------------------------------------------------------------
(* The actions.                                                            *)

\* getCollateralPrice() answers; when it has no price poll() ends with nothing
\* changed, a stuttering step.
StartPoll ==
  /\ pc = "sleep"
  /\ now < head
  /\ price' \in Prices
  /\ now' = head
  /\ pc' = "insert_price"
  /\ UNCHANGED <<batch, fetched, window, lastProcessedBlock, tables, chain, failures, crashes>>

\* Where poll() goes once the price sample is stored.
Branch == IF window # None THEN "poll_liquidations"
          ELSE IF Depegged THEN "insert_open" ELSE "sleep"

\* Mutant: the insert of the price sample is not awaited.
InsertPriceUnawaited(outcome) ==
  /\ pc = "insert_price"
  /\ price.aboveDollar => outcome = "rejected"
  /\ IF price.aboveDollar THEN UNCHANGED failures ELSE Attempt(outcome)
  /\ price_samples' = IF Written(outcome)
                      THEN price_samples \cup {[ts |-> now, loss |-> price.deviation]}
                      ELSE price_samples
  /\ GoTo(Branch)
  /\ UNCHANGED <<now, window, lastProcessedBlock, risk_events, liquidations, snapshots,
                 webhooks, chain, crashes>>

\* storePriceSample: above one dollar the losses are negative, which their
\* UInt32 columns refuse, so the insert throws whatever else happens.
InsertPrice(outcome) ==
  /\ pc = "insert_price"
  /\ price.aboveDollar => outcome = "rejected"
  /\ IF price.aboveDollar THEN UNCHANGED failures ELSE Attempt(outcome)
  /\ price_samples' = IF Written(outcome)
                      THEN price_samples \cup {[ts |-> now, loss |-> price.deviation]}
                      ELSE price_samples
  /\ IF outcome = "stored" THEN GoTo(Branch) ELSE GoTo("sleep")
  /\ UNCHANGED <<now, window, lastProcessedBlock, risk_events, liquidations, snapshots,
                 webhooks, chain, crashes>>

InsertOpen(outcome) ==
  /\ pc = "insert_open"
  /\ Attempt(outcome)
  /\ risk_events' = IF Written(outcome) THEN Append(risk_events, OpenRow) ELSE risk_events
  /\ GoTo(IF outcome = "stored" THEN "emit_start" ELSE "sleep")
  /\ UNCHANGED <<now, window, lastProcessedBlock, price_samples, liquidations, snapshots,
                 webhooks, chain, crashes>>

\* The window is set only after the webhook was tried.
EmitStart(delivered) ==
  /\ pc = "emit_start"
  /\ Notify("DEPEG_START", <<now, None>>, delivered)
  /\ window' = [risk |-> now, maxDeviation |-> price.deviation, liquidationCount |-> 0]
  /\ GoTo("poll_liquidations")
  /\ UNCHANGED <<now, lastProcessedBlock, price_samples, risk_events, liquidations,
                 snapshots, chain, crashes>>

\* getBlockNumber() throws.
NoBlockNumber ==
  /\ pc = "poll_liquidations"
  /\ failures < MaxFailures
  /\ failures' = failures + 1
  /\ GoTo("sleep")
  /\ UNCHANGED <<now, window, lastProcessedBlock, tables, chain, crashes>>

FromBlock(current) ==
  1 + IF lastProcessedBlock = 0 THEN MaxOf(current - Lookback, 0) ELSE lastProcessedBlock

InRange(current) == {e \in DOMAIN onChain : onChain[e] \in FromBlock(current)..current}

\* Mutant: lastProcessedBlock is not moved on.
PollLiquidationsKeepingBlock(current, found) ==
  /\ pc = "poll_liquidations"
  /\ found = InRange(current)
  /\ lastProcessedBlock' = FromBlock(current) - 1
  /\ IF found = {} THEN AfterLiquidations(window.liquidationCount)
     ELSE /\ pc' = "insert_liquidation" /\ UNCHANGED price
          /\ batch' = found /\ fetched' = Cardinality(found)
          /\ UNCHANGED window
  /\ UNCHANGED <<now, tables, chain, failures, crashes>>

\* Mutant: the fetched liquidations are counted before they are processed.
PollLiquidationsCountingEarly(current, found) ==
  /\ pc = "poll_liquidations"
  /\ found = InRange(current)
  /\ lastProcessedBlock' = MaxOf(FromBlock(current) - 1, current)
  /\ IF found = {} THEN AfterLiquidations(window.liquidationCount)
     ELSE /\ pc' = "insert_liquidation" /\ UNCHANGED price
          /\ batch' = found /\ fetched' = Cardinality(found)
          /\ window' = [window EXCEPT !.liquidationCount = @ + Cardinality(found)]
  /\ UNCHANGED <<now, tables, chain, failures, crashes>>

\* pollLiquidations() with getBlockNumber() answering current, perhaps a block
\* that is no longer the newest.  fetchLiquidationEvents() swallows its errors:
\* it answers no events, or skips those whose block it cannot read, and
\* lastProcessedBlock moves on all the same.
PollLiquidations(current, found) ==
  /\ pc = "poll_liquidations"
  /\ found # InRange(current) => failures < MaxFailures
  /\ failures' = failures + (IF found = InRange(current) THEN 0 ELSE 1)
  /\ lastProcessedBlock' = MaxOf(FromBlock(current) - 1, current)
  /\ IF found = {} THEN AfterLiquidations(window.liquidationCount)
     ELSE /\ pc' = "insert_liquidation" /\ UNCHANGED price
          /\ batch' = found /\ fetched' = Cardinality(found)
          /\ UNCHANGED window
  /\ UNCHANGED <<now, tables, chain, crashes>>

\* The liquidation being processed, in the order of the events.
Current == CHOOSE e \in batch : \A f \in batch : e <= f

Key == <<window.risk, Current>>

InsertLiquidation(outcome) ==
  /\ pc = "insert_liquidation"
  /\ Attempt(outcome)
  /\ liquidations' = IF Written(outcome) THEN Append(liquidations, Key) ELSE liquidations
  /\ IF outcome = "stored" THEN GoTo("insert_snapshot") ELSE GoTo("sleep")
  /\ UNCHANGED <<now, window, lastProcessedBlock, price_samples, risk_events, snapshots,
                 webhooks, chain, crashes>>

\* Mutant: the insert of the snapshot is not awaited.
InsertSnapshotUnawaited(outcome) ==
  /\ pc = "insert_snapshot"
  /\ Attempt(outcome)
  /\ snapshots' = IF Written(outcome) THEN snapshots \cup {Key} ELSE snapshots
  /\ GoTo("emit_liquidation")
  /\ UNCHANGED <<now, window, lastProcessedBlock, price_samples, risk_events,
                 liquidations, webhooks, chain, crashes>>

InsertSnapshot(outcome) ==
  /\ pc = "insert_snapshot"
  /\ Attempt(outcome)
  /\ snapshots' = IF Written(outcome) THEN snapshots \cup {Key} ELSE snapshots
  /\ IF outcome = "stored" THEN GoTo("emit_liquidation") ELSE GoTo("sleep")
  /\ UNCHANGED <<now, window, lastProcessedBlock, price_samples, risk_events,
                 liquidations, webhooks, chain, crashes>>

\* The window counts a batch when all of it is processed.
EmitLiquidation(delivered) ==
  /\ pc = "emit_liquidation"
  /\ Notify("DEPEG_LIQ", Key, delivered)
  /\ IF batch = {Current} THEN AfterLiquidations(window.liquidationCount + fetched)
     ELSE /\ pc' = "insert_liquidation" /\ batch' = batch \ {Current}
          /\ UNCHANGED <<price, fetched, window>>
  /\ UNCHANGED <<now, lastProcessedBlock, price_samples, risk_events, liquidations,
                 snapshots, chain, crashes>>

\* Mutant: the window is cleared before its end is announced.
InsertCloseReopening(outcome) ==
  /\ pc = "insert_close"
  /\ Attempt(outcome)
  /\ risk_events' = IF Written(outcome) THEN Append(risk_events, ResolvedRow) ELSE risk_events
  /\ window' = None
  /\ GoTo("emit_end")
  /\ UNCHANGED <<now, lastProcessedBlock, price_samples, liquidations, snapshots, webhooks,
                 chain, crashes>>

InsertClose(outcome) ==
  /\ pc = "insert_close"
  /\ Attempt(outcome)
  /\ risk_events' = IF Written(outcome) THEN Append(risk_events, ResolvedRow) ELSE risk_events
  /\ GoTo(IF outcome = "stored" THEN "emit_end" ELSE "sleep")
  /\ UNCHANGED <<now, window, lastProcessedBlock, price_samples, liquidations, snapshots,
                 webhooks, chain, crashes>>

EmitEnd(delivered) ==
  /\ pc = "emit_end"
  /\ Notify("DEPEG_END", <<window.risk, None>>, delivered)
  /\ window' = None
  /\ GoTo("sleep")
  /\ UNCHANGED <<now, lastProcessedBlock, price_samples, risk_events, liquidations,
                 snapshots, chain, crashes>>

\* The process dies in any await and starts again with new objects.
Crash ==
  /\ crashes < MaxCrashes
  /\ crashes' = crashes + 1
  /\ GoTo("sleep")
  /\ window' = None /\ lastProcessedBlock' = 0
  /\ UNCHANGED <<now, tables, chain, failures>>

\* The chain grows by a block, with or without a liquidation of the asset.  Only
\* the two awaits named read the chain: a block found during another one is the
\* same to the monitor as one found before the next of them.
NewBlock ==
  /\ pc \in {"sleep", "poll_liquidations"}
  /\ head < MaxHead
  /\ head' = head + 1
  /\ \/ onChain' = onChain
     \/ Len(onChain) < MaxLiquidations /\ onChain' = Append(onChain, head')
  /\ UNCHANGED <<memory, tables, failures, crashes>>

Next ==
  \/ StartPoll
  \/ \E outcome \in {"stored", "rejected"} \cup FailureModes :
       \/ InsertPrice(outcome)
       \/ InsertOpen(outcome)
       \/ InsertLiquidation(outcome)
       \/ InsertSnapshot(outcome)
       \/ InsertClose(outcome)
  \/ \E delivered \in BOOLEAN : EmitStart(delivered) \/ EmitLiquidation(delivered) \/ EmitEnd(delivered)
  \/ NoBlockNumber
  \/ \E current \in MaxOf(head - MaxLag, 1)..head : \E found \in SUBSET InRange(current) : PollLiquidations(current, found)
  \/ Crash
  \/ NewBlock

Spec == Init /\ [][Next]_vars

-----------------------------------------------------------------------------
(* Safety, whatever fails.                                                 *)

\* What reached the backend is on file: the risk it names, in the state it
\* tells of and, for a DEPEG_LIQ, the liquidation and its snapshot.
WebhooksBacked ==
  \A w \in webhooks :
    /\ \E i \in DOMAIN risk_events :
         /\ risk_events[i].risk = w.risk
         /\ w.kind = "DEPEG_END" => risk_events[i].state = "RESOLVED"
    /\ w.kind = "DEPEG_LIQ" =>
         /\ \E i \in DOMAIN liquidations : liquidations[i] = <<w.risk, w.event>>
         /\ <<w.risk, w.event>> \in snapshots

\* No liquidation is recorded twice for one risk (the table keeps duplicates):
\* not after a failed insert in the middle of a batch, nor by the look back of
\* a restarted process, whose window is another risk.
RecordedOncePerRisk ==
  \A i, j \in DOMAIN liquidations : liquidations[i] = liquidations[j] => i = j

\* The number of liquidations a resolved window is published with never exceeds
\* those on file for it, however its batches were cut short.
CountNeverExceedsRows ==
  \A i \in DOMAIN risk_events : LET r == risk_events[i] IN
    r.liquidationCount <= Cardinality({k \in DOMAIN liquidations : liquidations[k][1] = r.risk})

\* The severity of every row is the loss of a sample on file that was taken
\* within the window.
SeverityWitnessed ==
  \A i \in DOMAIN risk_events : LET r == risk_events[i] IN
    \E p \in price_samples :
      /\ p.loss = r.severity /\ r.risk <= p.ts
      /\ r.state = "RESOLVED" => p.ts <= r.end

\* For its readers a window only moves forward: its severity never shrinks, and
\* once resolved it stays so; a closing that is written again because it was
\* not acknowledged can only move its end later.
WindowsMoveForward ==
  [][\A s \in Risks(risk_events) :
       LET before == Latest(risk_events, s) after == Latest(risk_events', s) IN
         /\ before.severity <= after.severity
         /\ before.state = "RESOLVED" => after.state = "RESOLVED" /\ before.end <= after.end]_vars
=============================================================================
