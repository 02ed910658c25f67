--------------------------- MODULE MCClaimService ---------------------------
(***************************************************************************)
(* ClaimService over tables the indexer has left at rest: one resolved     *)
(* window, and a second risk id the clients ask about that is unknown.     *)
(***************************************************************************)
EXTENDS ClaimService

Row(version, state, end, severity) ==
  [risk |-> 1, version |-> version, state |-> state, end |-> end, severity |-> severity]

ResolvedWindow == <<Row(1, "OPEN", None, 1), Row(2, "RESOLVED", 3, 2)>>

WindowSamples == {[ts |-> 1, rBps |-> 1, loss |-> 1], [ts |-> 2, rBps |-> 1, loss |-> 2],
                  [ts |-> 3, rBps |-> 2, loss |-> 1]}

Init == ClaimInit /\ risk_events = ResolvedWindow /\ pool_samples = WindowSamples

Spec == Init /\ [][ClaimNext]_<<read, own>>
=============================================================================
