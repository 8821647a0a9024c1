---------------------------- MODULE MCAcceptance ----------------------------
(* Two builds that share Cargo's output path, and one operation ID.        *)
EXTENDS Acceptance, TLC

MCSymmetry == Permutations(Builders)

=============================================================================
