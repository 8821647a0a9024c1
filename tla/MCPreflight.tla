----------------------------- MODULE MCPreflight ----------------------------
(* One caller explores the probe: three store trials of which two must     *)
(* succeed leave room for a failed trial and for a late helper, and the    *)
(* baseline may be shorter than, equal to or longer than the safety        *)
(* timeout.  Two callers on every machine explore the OnceLock.            *)
EXTENDS Preflight

CONSTANTS c1, c2

MCOneCaller == {c1}

MCTwoCallers == {c1, c2}

MCIntel ==
  {[supported_target |-> TRUE, amd_vendor |-> FALSE, intel_vendor |-> TRUE,
    monitorx_mwaitx |-> FALSE, waitpkg |-> TRUE, invariant_tsc |-> TRUE, rdtscp |-> TRUE]}

MCMachines == Capabilities
=============================================================================
