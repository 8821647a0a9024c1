--------------------------- MODULE VictimControl ---------------------------
(***************************************************************************)
(* run_victim_control of benches/wake_latency.rs: the victim alone, which  *)
(* gives a repetition its baseline.  One worker thread, the driving        *)
(* thread, and the flags ready, go and stop between them.                  *)
(***************************************************************************)
VARIABLE
  control                     \* Control's flags, the pcs of both threads, and what was decided

Controls ==
  [ready: BOOLEAN, go: BOOLEAN, stop: BOOLEAN,
   worker: {"idle", "pin", "ready", "await_go", "loop", "ok", "error"},
   driver: {"idle", "startup", "timeout", "go", "delay", "stop", "join", "ended"},
   startup_failed: BOOLEAN]

NoControl ==
  [ready |-> FALSE, go |-> FALSE, stop |-> FALSE, worker |-> "idle", driver |-> "idle",
   startup_failed |-> FALSE]

SpawnControl == [NoControl EXCEPT !.worker = "pin", !.driver = "startup"]

WorkerFinished == control.worker \in {"ok", "error"}

ControlPinned ==
  /\ control.worker = "pin"
  /\ \E next \in {"ready", "error"} : control' = [control EXCEPT !.worker = next]

ControlReady ==
  /\ control.worker = "ready"
  /\ control' = [control EXCEPT !.ready = TRUE, !.worker = "await_go"]

ControlAwaitGo ==
  /\ control.worker = "await_go"
  /\ control.go
  /\ control' = [control EXCEPT !.worker = "loop"]

\* victim_loop: an empty or a migrated measurement is an error.
ControlVictimStops ==
  /\ control.worker = "loop"
  /\ control.stop
  /\ control' = [control EXCEPT !.worker = "ok"]

ControlVictimFails ==
  /\ control.worker = "loop"
  /\ control' = [control EXCEPT !.worker = "error"]

-----------------------------------------------------------------------------
ControlStarts ==
  /\ control.driver = "startup"
  /\ control.ready
  /\ control' = [control EXCEPT !.driver = "go"]

ControlDies ==
  /\ control.driver = "startup"
  /\ ~control.ready
  /\ WorkerFinished
  /\ control' = [control EXCEPT !.driver = "go", !.startup_failed = TRUE]

\* STARTUP_TIMEOUT: go and stop are stored here, and again below
ControlTimeout ==
  /\ control.driver = "startup"
  /\ ~control.ready
  /\ control' = [control EXCEPT !.driver = "timeout", !.startup_failed = TRUE, !.go = TRUE]

ControlTimeoutStops ==
  /\ control.driver = "timeout"
  /\ control' = [control EXCEPT !.driver = "go", !.stop = TRUE]

ControlGo ==
  /\ control.driver = "go"
  /\ control' = [control EXCEPT !.driver = IF control.startup_failed THEN "stop" ELSE "delay",
                                !.go = TRUE]

\* precise_delay(duration)
ControlDelay ==
  /\ control.driver = "delay"
  /\ control' = [control EXCEPT !.driver = "stop"]

ControlStop ==
  /\ control.driver = "stop"
  /\ control' = [control EXCEPT !.driver = "join", !.stop = TRUE]

ControlJoin ==
  /\ control.driver = "join"
  /\ WorkerFinished
  /\ control' = [control EXCEPT !.driver = "ended"]

ControlOk == control.worker = "ok" /\ ~control.startup_failed

ControlWorker == ControlPinned \/ ControlReady \/ ControlAwaitGo \/ ControlVictimStops

ControlDriver ==
  \/ ControlStarts \/ ControlDies \/ ControlTimeoutStops \/ ControlGo \/ ControlDelay
  \/ ControlStop \/ ControlJoin

ControlNext == ControlWorker \/ ControlDriver \/ ControlVictimFails \/ ControlTimeout
=============================================================================
