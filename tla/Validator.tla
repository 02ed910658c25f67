------------------------------ MODULE Validator ------------------------------
(***************************************************************************)
(* The indexer and the API at work on the same tables: each await of a     *)
(* poll may be followed by any await of a request, and the other way       *)
(* round.  The two processes share nothing but ClickHouse.                 *)
(*                                                                         *)
(* Previews and the read-only requests write nothing, so that they cannot  *)
(* disturb each other: every behaviour has one of them.                    *)
(***************************************************************************)
EXTENDS IndexerService, FiniteSets

CONSTANTS
  Requests,   \* the preview requests of the instance
  ApiKinds,   \* the read-only requests
  PageLimit,
  Ties        \* the rows attested in the millisecond of the row before them

ASSUME ValidatorConfig ==
  /\ IsFiniteSet(Requests) /\ PageLimit \in Nat \ {0}
  /\ None \notin [attested: Int, risk: Int]

VARIABLES requests, claim_nonces, previews, signed, second, client

claims == <<requests, claim_nonces, previews, signed, second>>

Claims == INSTANCE ClaimService WITH
  Policies <- {"policy"}, AskedRisks <- 0..MaxTime, Kinds <- {"preview"},
  MaxInFlight <- 1, InsertModes <- {}, MaxSecond <- 0,
  InsuredAmount <- 9, CoverageCap <- 10, KBps <- 20000, DeductibleBps <- 500

Api == INSTANCE RiskApi WITH
  Kinds <- ApiKinds, AskedRisks <- 0..MaxTime, Times <- 0..MaxTime,
  attested <- [i \in DOMAIN risk_events |-> i - Cardinality(Ties \cap 1..i)]

ValidatorInit == Init /\ Claims!ClaimInit /\ Api!ApiInit

ValidatorNext ==
  \/ Next /\ UNCHANGED <<claims, client>>
  \/ /\ Claims!ClaimNext /\ client = Api!Blank
     /\ UNCHANGED <<memory, snapshots, webhooks, clock, polls, failures, crashes, client>>
  \/ /\ Api!ApiNext /\ \A r \in Requests : requests[r] = Claims!Idle
     /\ UNCHANGED <<memory, webhooks, clock, polls, failures, crashes, claims>>

ValidatorSpec == ValidatorInit /\ [][ValidatorNext]_<<vars, claims, client>>

\* For TLC: the webhooks are read by no step and seen by no property here, and
\* nothing that happens after a read-only request is answered changes what its
\* properties say of it.
TablesView == <<memory, pool_samples, risk_events, snapshots, clock, polls, failures, crashes,
                claims, client>>
UntilAnswered == client.pc # "answered"

ListedOnce == Api!ListedOnce
ListedAll == Api!ListedAll
DetailBacked == Api!DetailBacked
HealthCoherent == Api!HealthCoherent

-----------------------------------------------------------------------------

\* A preview pays at least for every severity the event's readers had been
\* shown in the row it was computed from or before it, whenever the rows and
\* the samples behind it were read, up to the cap; what is left of the insured
\* amount is at most what such a payment leaves.
PreviewCoversHistory ==
  \A p \in previews, i \in DOMAIN risk_events : LET r == risk_events[i] IN
    r.risk = p.row.risk /\ r.version <= p.row.version =>
      LET shown == Claims!PreviewOf(r, r.severity) IN
      r.severity <= p.Lstar /\ shown.payout <= p.payout /\ p.curValue <= shown.curValue

\* The preview of a resolved window has seen all of it: no sample that is now
\* in the table, up to the block that closed the window, has a larger loss.
\* (That block may be sampled again, so samples at its time are left out.)
SettledPreviewsComplete ==
  \A p \in previews : p.row.state = "RESOLVED" =>
    \A s \in pool_samples : p.row.risk <= s.ts /\ s.ts < p.row.end => s.loss <= p.Lstar

-----------------------------------------------------------------------------

\* A sample is of the window's time if the breach that opened it was still
\* going on: no healthy sample is on file between the start and it.
DuringWindow(start, s) ==
  /\ start <= s.ts
  /\ \A h \in pool_samples : start < h.ts /\ h.ts < s.ts => Breach(h.rBps)

\* README.md:200: payouts use "the maximum loss observed during the depeg
\* window": the loss a preview pays for was observed during its window.
LossesDuringWindow ==
  \A p \in previews : \E s \in pool_samples :
    s.loss = p.Lstar /\ DuringWindow(p.row.risk, s)
=============================================================================
