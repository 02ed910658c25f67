---------------------------- MODULE ClaimService ----------------------------
(***************************************************************************)
(* services/claimService.ts behind routes/claims.ts: previewClaim and      *)
(* signClaim, any number of requests interleaved at their awaits.  The     *)
(* service reads risk_events and pool_samples, which the indexer writes,   *)
(* and reads and writes claim_nonces.                                      *)
(*                                                                         *)
(* A sign request never gets an answer: persistClaim builds its row with   *)
(* JSON.stringify(signedPayload), whose fields are BigInts, and            *)
(* JSON.stringify throws on a BigInt.  By then the nonce is stored and the *)
(* message is signed; signed records the messages that got that far.       *)
(***************************************************************************)
EXTENDS RiskEvents, FiniteSets

CONSTANTS
  Requests,      \* the requests the clients make, one use each
  Policies,      \* policy ids
  AskedRisks,    \* the risk ids the clients ask about
  Kinds,         \* the endpoints they call, of {"preview", "sign"}
  MaxInFlight,   \* sign requests of one policy and risk in flight at once
  InsertModes,   \* the ways an insert may fail, of {"rejected", "ack_lost"}
  MaxSecond,     \* bound on the wall clock
  InsuredAmount, CoverageCap, KBps, DeductibleBps,  \* the terms of the policies
  None

ASSUME ClaimConfig == IsFiniteSet(Requests) /\ MaxInFlight \in Nat

VARIABLES
  risk_events, pool_samples,  \* the tables the indexer writes
  requests,      \* request -> where it is in its handler, with its locals
  claim_nonces,  \* the rows of the table in the order they were inserted
  previews,      \* the previews computed
  signed,        \* the messages signed, in order
  second         \* wall clock, at the precision of claim_nonces.updated_at

read == <<risk_events, pool_samples>>
own == <<requests, claim_nonces, previews, signed, second>>

Idle == [pc |-> "idle", kind |-> None, policy |-> None, risk |-> None, row |-> None,
         nonce |-> None, updatedAt |-> None]

Active(r) == requests[r].pc \notin {"idle", "answered", "failed"}

\* The request is in its handler and consistent with how far it has come; a
\* nonce being inserted was computed at a second that has been.
TypeOK ==
  /\ \A r \in Requests : LET q == requests[r] IN
       /\ q.pc \in {"idle", "fetch_risk", "fetch_metrics", "read_nonce", "insert_nonce",
                    "answered", "failed"}
       /\ q.pc # "idle" => q.kind \in Kinds /\ q.policy \in Policies /\ q.risk \in AskedRisks
       /\ q.pc \in {"fetch_metrics", "read_nonce", "insert_nonce"} => q.row.risk = q.risk
       /\ q.pc = "insert_nonce" => q.nonce \in Nat \ {0} /\ q.updatedAt \in 0..second
  /\ \A i \in DOMAIN claim_nonces :
       claim_nonces[i].nonce \in Nat \ {0} /\ claim_nonces[i].updatedAt \in 0..second

ClaimInit ==
  /\ requests = [r \in Requests |-> Idle]
  /\ claim_nonces = <<>> /\ previews = {} /\ signed = <<>> /\ second = 0

-----------------------------------------------------------------------------
(* Queries.                                                                *)

\* Mutant: the sample that opened the window is left out.
LossAfterStart(row) ==
  LET losses == {0} \cup {p.loss : p \in {p \in pool_samples :
                             row.risk < p.ts /\ (row.end = None \/ p.ts <= row.end)}}
  IN CHOOSE l \in losses : \A m \in losses : m <= l

\* Mutant: the sample that closed the window is left out.
LossBeforeEnd(row) ==
  LET losses == {0} \cup {p.loss : p \in {p \in pool_samples :
                             row.risk <= p.ts /\ (row.end = None \/ p.ts < row.end)}}
  IN CHOOSE l \in losses : \A m \in losses : m <= l

\* SELECT max(loss_quote_bps) ... WHERE ts BETWEEN start AND end: both ends
\* included, up to the present while the window is open; 0 if nothing matches.
LossSince(row) ==
  LET losses == {0} \cup {p.loss : p \in {p \in pool_samples :
                             row.risk <= p.ts /\ (row.end = None \/ p.ts <= row.end)}}
  IN CHOOSE l \in losses : \A m \in losses : m <= l

\* computePayout (lib/payout.ts), in whole units as BigInt division leaves it:
\* the part of the loss above the deductible, weighted by kBps.
PayoutOf(lossBps) ==
  (CoverageCap * KBps * (IF lossBps > DeductibleBps THEN lossBps - DeductibleBps ELSE 0))
    \div (10000 * 10000)

\* What previewClaim answers for a row and the loss of its window: the payout
\* is capped, and the remaining value is not negative.
PreviewOf(row, lossBps) ==
  LET payout == IF PayoutOf(lossBps) > CoverageCap THEN CoverageCap ELSE PayoutOf(lossBps) IN
  [row |-> row, Lstar |-> lossBps, payout |-> payout,
   curValue |-> IF InsuredAmount > payout THEN InsuredAmount - payout ELSE 0]

NonceRows(policy, risk) ==
  {i \in DOMAIN claim_nonces : claim_nonces[i].policy = policy /\ claim_nonces[i].risk = risk}

\* SELECT nonce FROM claim_nonces FINAL: the row with the latest updated_at,
\* the last one inserted among those of one second; 0 if there is none.
CurrentNonce(policy, risk) ==
  LET rows == NonceRows(policy, risk)
      newest == CHOOSE i \in rows : \A j \in rows :
                  \/ claim_nonces[j].updatedAt < claim_nonces[i].updatedAt
                  \/ claim_nonces[j].updatedAt = claim_nonces[i].updatedAt /\ j <= i
  IN IF rows = {} THEN 0 ELSE claim_nonces[newest].nonce

\* Mutants: the nonce that was read is signed again; the first nonce is the
\* initial 0.
SameNonce(current) == IF current = 0 THEN 1 ELSE current
NonceAsRead(current) == current

\* BigInt(current + 1).  JSONEachRow quotes a UInt64, so a nonce that was read
\* is a string and "+ 1" appends the digit; the initial 0 is a number.
NextNonce(current) == IF current = 0 THEN 1 ELSE 10 * current + 1

-----------------------------------------------------------------------------
(* One action per await of the two handlers.                               *)

InFlight(policy, risk) ==
  {r \in Requests : Active(r) /\ requests[r].kind = "sign"
                      /\ requests[r].policy = policy /\ requests[r].risk = risk}

Arrive(r) ==
  /\ requests[r].pc = "idle"
  /\ \E kind \in Kinds, policy \in Policies, risk \in AskedRisks :
       /\ kind = "sign" => Cardinality(InFlight(policy, risk)) < MaxInFlight
       /\ requests' = [requests EXCEPT ![r] =
            [Idle EXCEPT !.pc = "fetch_risk", !.kind = kind, !.policy = policy, !.risk = risk]]
  /\ UNCHANGED <<claim_nonces, previews, signed, second>>

\* previewClaim: the risk's latest row, or risk_not_found.
FetchRisk(r) ==
  /\ requests[r].pc = "fetch_risk"
  /\ LET risk == requests[r].risk IN
     requests' = [requests EXCEPT ![r] =
       IF risk \in Risks(risk_events)
       THEN [@ EXCEPT !.pc = "fetch_metrics", !.row = Latest(risk_events, risk)]
       ELSE [@ EXCEPT !.pc = "failed"]]
  /\ UNCHANGED <<claim_nonces, previews, signed, second>>

\* previewClaim: the metrics of the window read before, and the result.  The
\* reads after it (snapshots, the risk's chain id) change nothing.
FetchMetrics(r) ==
  /\ requests[r].pc = "fetch_metrics"
  /\ previews' = previews \cup {PreviewOf(requests[r].row, LossSince(requests[r].row))}
  /\ requests' = [requests EXCEPT ![r].pc =
       IF requests[r].kind = "sign" THEN "read_nonce" ELSE "answered"]
  /\ UNCHANGED <<claim_nonces, signed, second>>

\* nextNonce, up to its insert.
ReadNonce(r) ==
  /\ requests[r].pc = "read_nonce"
  /\ LET current == CurrentNonce(requests[r].policy, requests[r].risk) IN
     requests' = [requests EXCEPT ![r] =
       [@ EXCEPT !.pc = "insert_nonce", !.nonce = NextNonce(current), !.updatedAt = second]]
  /\ UNCHANGED <<claim_nonces, previews, signed, second>>

NonceRow(r) == [policy |-> requests[r].policy, risk |-> requests[r].risk,
                nonce |-> requests[r].nonce, updatedAt |-> requests[r].updatedAt]

Message(r) == [request |-> r, policy |-> requests[r].policy, risk |-> requests[r].risk,
               nonce |-> requests[r].nonce]

\* Mutant: the insert of the nonce is not awaited.
InsertNonceUnawaited(r, outcome) ==
  /\ requests[r].pc = "insert_nonce"
  /\ claim_nonces' = IF outcome \in {"stored", "ack_lost"}
                     THEN Append(claim_nonces, NonceRow(r)) ELSE claim_nonces
  /\ signed' = Append(signed, Message(r))
  /\ requests' = [requests EXCEPT ![r].pc = "failed"]
  /\ UNCHANGED <<previews, second>>

\* nextNonce's insert and, if it is acknowledged, the signature; then
\* persistClaim throws.  Either way the client gets an error.
InsertNonce(r, outcome) ==
  /\ requests[r].pc = "insert_nonce"
  /\ claim_nonces' = IF outcome \in {"stored", "ack_lost"}
                     THEN Append(claim_nonces, NonceRow(r)) ELSE claim_nonces
  /\ signed' = IF outcome = "stored" THEN Append(signed, Message(r)) ELSE signed
  /\ requests' = [requests EXCEPT ![r].pc = "failed"]
  /\ UNCHANGED <<previews, second>>

\* The API process is restarted: the requests in flight are lost.
Restart ==
  /\ \E r \in Requests : Active(r)
  /\ requests' = [r \in Requests |-> IF Active(r) THEN [requests[r] EXCEPT !.pc = "failed"]
                                     ELSE requests[r]]
  /\ UNCHANGED <<claim_nonces, previews, signed, second>>

Tick ==
  /\ second < MaxSecond
  /\ second' = second + 1
  /\ UNCHANGED <<requests, claim_nonces, previews, signed>>

ClaimNext ==
  /\ \/ \E r \in Requests :
          \/ Arrive(r)
          \/ FetchRisk(r)
          \/ FetchMetrics(r)
          \/ ReadNonce(r)
          \/ \E outcome \in {"stored"} \cup InsertModes : InsertNonce(r, outcome)
     \/ Restart
     \/ Tick
  /\ UNCHANGED read

-----------------------------------------------------------------------------
(* Properties.                                                             *)

\* The replay protection of a signed message is on file: its nonce is in
\* claim_nonces, whatever inserts failed and whoever restarted.
SignedNonceRecorded ==
  \A k \in DOMAIN signed : \E i \in NonceRows(signed[k].policy, signed[k].risk) :
    claim_nonces[i].nonce = signed[k].nonce

\* The messages signed for one policy and risk carry growing nonces, also when
\* they are signed within one second, which updated_at cannot order, and after
\* a nonce whose insert failed.  Holds while MaxInFlight = 1.
NoncesIncrease ==
  \A i, j \in DOMAIN signed :
    i < j /\ signed[i].policy = signed[j].policy /\ signed[i].risk = signed[j].risk
      => signed[i].nonce < signed[j].nonce

\* README.md:144: the nonce of a claim is its "replay protection": no two
\* messages of one policy and risk carry the same one.
NonceUnique ==
  \A i, j \in DOMAIN signed :
    signed[i].policy = signed[j].policy /\ signed[i].risk = signed[j].risk
      /\ signed[i].nonce = signed[j].nonce => i = j

\* README.md:144: POST /claims/sign "returns EIP-712 typed data and signature":
\* a request whose message was signed does not end in an error.
SignedRequestAnswered ==
  \A k \in DOMAIN signed : requests[signed[k].request].pc # "failed"
=============================================================================
