----------------------------- MODULE RiskEvents -----------------------------
(***************************************************************************)
(* The table liquidityguard.risk_events and the queries made on it.  The   *)
(* table is a ReplacingMergeTree(updated_at) ordered by (risk_id,          *)
(* version): a query with FINAL sees, for each key, the row with the       *)
(* largest updated_at, and of several the one inserted last.  A table is   *)
(* the sequence of its rows in the order they were inserted; a risk id     *)
(* "<pool>|<start>" of the one Curve pool is its window's start.           *)
(***************************************************************************)
EXTENDS Integers, Sequences

SameKey(r, q) == r.risk = q.risk /\ r.version = q.version

\* The rows, by their places, that FINAL keeps; row i was updated at at[i].
KeptAt(rows, at) ==
  {i \in DOMAIN rows : \A j \in DOMAIN rows :
     SameKey(rows[i], rows[j]) => at[j] < at[i] \/ (at[j] = at[i] /\ j <= i)}

\* The same when the rows of each key were inserted in the order of updated_at.
Kept(rows) ==
  {i \in DOMAIN rows : \A j \in DOMAIN rows : SameKey(rows[i], rows[j]) => j <= i}

Risks(rows) == {rows[i].risk : i \in DOMAIN rows}

\* ... WHERE risk_id = {risk} ORDER BY version DESC LIMIT 1
LatestOf(final, risk) ==
  CHOOSE r \in final :
    /\ r.risk = risk
    /\ \A q \in final : q.risk = risk => q.version <= r.version

\* SELECT ... FROM risk_events FINAL
Final(rows) == {rows[i] : i \in Kept(rows)}
FinalAt(rows, at) == {rows[i] : i \in KeptAt(rows, at)}

Latest(rows, risk) == LatestOf(Final(rows), risk)
LatestAt(rows, at, risk) == LatestOf(FinalAt(rows, at), risk)
=============================================================================
