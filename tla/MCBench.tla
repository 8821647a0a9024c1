------------------------------ MODULE MCBench ------------------------------
(* Two workloads of a direct and a std case, or of the parker case alone   *)
(* (a case filter), with two repetitions each.  The mode only matters when *)
(* a case is unsupported, so each other plan is run in one of the modes.   *)
(* Two events fill the sample buffer.                                      *)
EXTENDS Bench

Plan(official, preflight_only, cases, supported) ==
  [official |-> official, preflight_only |-> preflight_only, cases |-> cases,
   supported |-> supported]

MCPlans ==
  {Plan(FALSE, FALSE, <<"direct", "std">>, {1, 2}), Plan(TRUE, FALSE, <<"parker">>, {1}),
   Plan(FALSE, FALSE, <<"direct", "std">>, {2}), Plan(TRUE, FALSE, <<"direct", "std">>, {2}),
   Plan(FALSE, FALSE, <<"parker">>, {}), Plan(TRUE, TRUE, <<"parker">>, {1})}
=============================================================================
