---------------------------- MODULE MCCalibration ---------------------------
(* Two CPUs whose TSCs differ, one of them near the end of its range, a    *)
(* slow and a fast processor, samples of up to two and a half times their  *)
(* nominal interval, one attempt more than samples are needed, and an      *)
(* integer range in which some products of conservative_timer_hz saturate. *)
EXTENDS Calibration, TLC

CONSTANTS cpu1, cpu2

MCOffsets == (cpu1 :> 0) @@ (cpu2 :> 1985)

MCRates == {1, 3}

MCTimeouts == {1, 2, 5}
=============================================================================
