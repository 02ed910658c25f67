-------------------------- MODULE MCCurveSampling ---------------------------
(***************************************************************************)
(* CurveSampling over a pool that is balanced, or has lost its peg.        *)
(***************************************************************************)
EXTENDS CurveSampling

Pools == {[base |-> 20, quote |-> 2, price |-> 9998, loss |-> 2],
          [base |-> 10, quote |-> 9, price |-> 9000, loss |-> 1000]}
=============================================================================
