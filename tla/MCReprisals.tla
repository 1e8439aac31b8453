----------------------------- MODULE MCReprisals -----------------------------
(* One report, two members at a time enough for a pair and its reversal,   *)
(* two decisions on the report and two calls under way.                    *)
EXTENDS Reprisals, TLC

Symmetry == Permutations(Members) \cup Permutations(Calls) \cup Permutations(Ops)
=============================================================================
