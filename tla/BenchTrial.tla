----------------------------- MODULE BenchTrial -----------------------------
(***************************************************************************)
(* One contender trial of benches/wake_latency.rs: a waiter, a producer    *)
(* and a victim thread that meet at a start barrier, exchange events one   *)
(* at a time and are stopped and joined by the driving thread.  Every      *)
(* access publishes with Release and reads with Acquire, and the relaxed   *)
(* sent_cycles is ordered by the generation and acknowledged handshake.    *)
(***************************************************************************)
EXTENDS Naturals

CONSTANTS
  MaxEvents,                  \* bound on the events of a trial
  MaxSamples                  \* Arguments::max_samples

ASSUME BenchTrialAssumption == {MaxEvents, MaxSamples} \subseteq Nat \ {0}

VARIABLES
  generation, sent, acknowledged, ready, go, stop,   \* TrialShared
  surface,                    \* Case::surface: which of run_direct, run_parker, run_std_park
  token,                      \* of the parker or of thread::park; unused by run_direct
  handle,                     \* the waiter's Thread was sent to the driver of run_std_park
  pc,                         \* of the driver and the three threads
  observed, sequence,         \* the waiter's and the producer's last event
  samples,                    \* the waiter's recorded latencies
  failed, broken,             \* the startup failed; a thread returned an error after it
  mismatched                  \* history: a sample was taken of another event

shared == <<generation, sent, acknowledged, ready, go, stop, surface, token, handle>>

vars == <<shared, pc, observed, sequence, samples, failed, broken, mismatched>>

Threads == {"waiter", "producer", "victim"}

PCs ==
  {"unspawned", "pin", "send", "capture", "ready", "await_go", "check_stop", "wait", "park", "reload", "changed",
   "record", "acknowledge", "loop", "wait_for_ack", "gap", "stamp", "publish", "wake",
   "exit_stop", "exit_generation", "exit_wake", "abort_stop", "abort_go",
   "abort_generation", "abort_wake", "recv", "startup", "fail_go", "go", "delay", "join", "ended"}

Surfaces == {"direct", "parker", "std"}

TypeOK ==
  /\ {generation, sent, acknowledged, observed, sequence} \subseteq Nat
  /\ ready \in 0..3
  /\ go \in BOOLEAN /\ stop \in BOOLEAN
  /\ surface \in Surfaces /\ token \in {"empty", "notified"} /\ handle \in BOOLEAN
  /\ pc \in [Threads \cup {"driver"} -> PCs]
  /\ samples \in 0..MaxSamples
  /\ {failed, broken, mismatched} \subseteq BOOLEAN

\* run_std_park spawns the others once it holds the waiter's handle.
Spawned(s) ==
  [t \in Threads \cup {"driver"} |->
     CASE t = "waiter" -> "pin"
       [] t = "driver" -> (IF s = "std" THEN "recv" ELSE "startup")
       [] OTHER -> (IF s = "std" THEN "unspawned" ELSE "pin")]

Init ==
  /\ generation = 0 /\ sent = 0 /\ acknowledged = 0 /\ ready = 0
  /\ go = FALSE /\ stop = FALSE /\ surface \in Surfaces /\ token = "empty" /\ handle = FALSE
  /\ pc = Spawned(surface)
  /\ observed = 0 /\ sequence = 0 /\ samples = 0
  /\ failed = FALSE /\ broken = FALSE /\ mismatched = FALSE

-----------------------------------------------------------------------------
At(t, at) == pc[t] = at

Goto(t, next) == pc' = [pc EXCEPT ![t] = next]

local == <<observed, sequence, samples, failed, broken, mismatched>>

\* A step that changes none of the shared cells.
Private(t, from, next) ==
  /\ At(t, from)
  /\ Goto(t, next)
  /\ UNCHANGED <<shared, local>>

PinSucceeds(t) ==
  Private(t, "pin", CASE t # "waiter" -> "ready"
                      [] surface = "std" -> "send"
                      [] OTHER -> "capture")

PinFails(t) ==
  /\ At(t, "pin")
  /\ Goto(t, "abort_stop")
  /\ failed' = TRUE
  /\ UNCHANGED <<shared, observed, sequence, samples, broken, mismatched>>

\* thread_ready and capture_generation_before_start, up to the barrier
Ready(t) ==
  /\ At(t, "ready")
  /\ ready' = ready + 1
  /\ Goto(t, "await_go")
  /\ UNCHANGED <<generation, sent, acknowledged, go, stop, surface, token, handle, local>>

AwaitGo(t) ==
  /\ go
  /\ Private(t, "await_go", IF t = "waiter" THEN "check_stop" ELSE "loop")

-----------------------------------------------------------------------------
(* abort_startup                                                           *)

AbortStop(t) ==
  /\ At(t, "abort_stop")
  /\ stop' = TRUE
  /\ Goto(t, "abort_go")
  /\ UNCHANGED <<generation, sent, acknowledged, ready, go, surface, token, handle, local>>

AbortGo(t) ==
  /\ At(t, "abort_go")
  /\ go' = TRUE
  /\ Goto(t, "abort_generation")
  /\ UNCHANGED <<generation, sent, acknowledged, ready, stop, surface, token, handle, local>>

AbortGeneration(t) ==
  /\ At(t, "abort_generation")
  /\ generation' = generation + 1
  /\ Goto(t, CASE t = "producer" -> "abort_wake"
               [] t = "driver" -> "join"
               [] OTHER -> "ended")
  /\ UNCHANGED <<sent, acknowledged, ready, go, stop, surface, token, handle, local>>

\* wake(): nothing for run_direct, unpark for the parkers
Wake(from, next) ==
  /\ At("producer", from)
  /\ token' = IF surface = "direct" THEN token ELSE "notified"
  /\ Goto("producer", next)
  /\ UNCHANGED <<generation, sent, acknowledged, ready, go, stop, surface, handle, local>>

AbortWake == Wake("abort_wake", "ended")

abort_startup(t) == AbortStop(t) \/ AbortGo(t) \/ AbortGeneration(t)

-----------------------------------------------------------------------------
(* The waiter.                                                             *)

\* handle_sender.send fails once the driver dropped the receiver.
SendHandle ==
  /\ At("waiter", "send")
  /\ handle' = (handle \/ At("driver", "recv"))
  /\ Goto("waiter", IF At("driver", "recv") THEN "capture" ELSE "ended")
  /\ UNCHANGED <<generation, sent, acknowledged, ready, go, stop, surface, token, local>>

Capture ==
  /\ At("waiter", "capture")
  /\ observed' = generation
  /\ Goto("waiter", "ready")
  /\ UNCHANGED <<shared, sequence, samples, failed, broken, mismatched>>

\* WaiterStartup::Aborted or Observed
CheckStop ==
  /\ At("waiter", "check_stop")
  /\ Goto("waiter", IF stop THEN "ended" ELSE "wait")
  /\ broken' = (broken \/ stop)
  /\ UNCHANGED <<shared, observed, sequence, samples, failed, mismatched>>

\* The wait of run_direct returns once the generation differs.
WaitDirect ==
  /\ surface = "direct"
  /\ At("waiter", "wait")
  /\ generation # observed
  /\ observed' = generation
  /\ Goto("waiter", "changed")
  /\ UNCHANGED <<shared, sequence, samples, failed, broken, mismatched>>

CheckGeneration ==
  /\ surface # "direct"
  /\ Private("waiter", "wait", IF generation = observed THEN "park" ELSE "reload")

Parked ==
  /\ At("waiter", "park")
  /\ token = "notified"
  /\ token' = "empty"
  /\ Goto("waiter", "wait")
  /\ UNCHANGED <<generation, sent, acknowledged, ready, go, stop, surface, handle, local>>

\* A raw park, and thread::park, may return without a notification.
ParkUnclassified == Private("waiter", "park", "wait")

Reload ==
  /\ At("waiter", "reload")
  /\ observed' = generation
  /\ Goto("waiter", "changed")
  /\ UNCHANGED <<shared, sequence, samples, failed, broken, mismatched>>

Changed == Private("waiter", "changed", IF stop THEN "ended" ELSE "record")

\* record_sample; a migrated or invalid sample is not kept.
RecordSample(kept) ==
  /\ At("waiter", "record")
  /\ mismatched' = (mismatched \/ sent # observed)
  /\ IF kept /\ samples < MaxSamples
     THEN samples' = samples + 1 /\ stop' = (stop \/ samples' = MaxSamples)
     ELSE UNCHANGED <<samples, stop>>
  /\ Goto("waiter", "acknowledge")
  /\ UNCHANGED <<generation, sent, acknowledged, ready, go, surface, token, handle, observed,
                 sequence, failed, broken>>

Acknowledge ==
  /\ At("waiter", "acknowledge")
  /\ acknowledged' = observed
  /\ Goto("waiter", "wait")
  /\ UNCHANGED <<generation, sent, ready, go, stop, surface, token, handle, local>>

-----------------------------------------------------------------------------
(* The producer.                                                           *)

Loop == Private("producer", "loop", IF stop THEN "exit_stop" ELSE "wait_for_ack")

\* Mutant of wait_for_ack_or_stop: events are sent without waiting.
wait_for_ack_skipped == Private("producer", "wait_for_ack", "gap")

wait_for_ack_or_stop ==
  /\ acknowledged = sequence \/ stop
  /\ Private("producer", "wait_for_ack", "gap")

\* The stop flag is read before and after cancellable_gap.
Gap ==
  /\ stop \/ sequence < MaxEvents
  /\ Private("producer", "gap", IF stop THEN "exit_stop" ELSE "stamp")

Stamp ==
  /\ At("producer", "stamp")
  /\ sequence' = sequence + 1
  /\ sent' = sequence'
  /\ Goto("producer", "publish")
  /\ UNCHANGED <<generation, acknowledged, ready, go, stop, surface, token, handle, observed,
                 samples, failed, broken, mismatched>>

\* "producer migrated despite fixed affinity"
ProducerMigrated ==
  /\ At("producer", "stamp")
  /\ sequence' = sequence + 1
  /\ Goto("producer", "abort_stop")
  /\ broken' = TRUE
  /\ UNCHANGED <<shared, observed, samples, failed, mismatched>>

Publish ==
  /\ At("producer", "publish")
  /\ generation' = sequence
  /\ Goto("producer", "wake")
  /\ UNCHANGED <<sent, acknowledged, ready, go, stop, surface, token, handle, local>>

WakeWaiter == Wake("wake", "loop")

ExitStop ==
  /\ At("producer", "exit_stop")
  /\ stop' = TRUE
  /\ Goto("producer", "exit_generation")
  /\ UNCHANGED <<generation, sent, acknowledged, ready, go, surface, token, handle, local>>

ExitGeneration ==
  /\ At("producer", "exit_generation")
  /\ generation' = generation + 1
  /\ Goto("producer", "exit_wake")
  /\ UNCHANGED <<sent, acknowledged, ready, go, stop, surface, token, handle, local>>

\* Mutant of ExitWake: the last wake is forgotten.
ExitSilently == Private("producer", "exit_wake", "ended")

ExitWake == Wake("exit_wake", "ended")

-----------------------------------------------------------------------------
(* The victim and the driver.                                              *)

VictimStops == stop /\ Private("victim", "loop", "ended")

\* victim_loop returns an error: it migrated, or it was stopped before its first chunk.
VictimFails ==
  /\ At("victim", "loop")
  /\ Goto("victim", "ended")
  /\ broken' = TRUE
  /\ UNCHANGED <<shared, observed, sequence, samples, failed, mismatched>>

\* handle_receiver.recv_timeout, and the spawns behind it
RecvHandle ==
  /\ At("driver", "recv")
  /\ handle
  /\ pc' = [pc EXCEPT !["driver"] = "startup", !["producer"] = "pin", !["victim"] = "pin"]
  /\ UNCHANGED <<shared, local>>

RecvFailed ==
  /\ At("driver", "recv")
  /\ Goto("driver", "ended")
  /\ failed' = TRUE
  /\ UNCHANGED <<shared, observed, sequence, samples, broken, mismatched>>

\* The waiter dropped its sender.
RecvDisconnected == ~handle /\ At("waiter", "ended") /\ RecvFailed

\* The early return of run_std_park: the waiter is not joined, and a handle sent after the
\* timeout is dropped with the receiver.
RecvTimeout == RecvFailed

StartupComplete == ready = 3 /\ Private("driver", "startup", "go")

StartupStopped == ready # 3 /\ stop /\ Private("driver", "startup", "fail_go")

StartupTimeout ==
  /\ ready # 3 /\ ~stop
  /\ At("driver", "startup")
  /\ Goto("driver", "abort_stop")
  /\ failed' = TRUE
  /\ UNCHANGED <<shared, observed, sequence, samples, broken, mismatched>>

StoreGo(from, next) ==
  /\ At("driver", from)
  /\ go' = TRUE
  /\ Goto("driver", next)
  /\ UNCHANGED <<generation, sent, acknowledged, ready, stop, surface, token, handle, local>>

FailGo == StoreGo("fail_go", "join")

Go == StoreGo("go", "delay")

\* precise_delay(duration), then stop
EndTrial ==
  /\ At("driver", "delay")
  /\ stop' = TRUE
  /\ Goto("driver", "join")
  /\ UNCHANGED <<generation, sent, acknowledged, ready, go, surface, token, handle, local>>

\* Mutant of Join: the victim is not joined.
JoinForgetsVictim ==
  (\A t \in {"waiter", "producer"} : At(t, "ended")) /\ Private("driver", "join", "ended")

Join == (\A t \in Threads : At(t, "ended")) /\ Private("driver", "join", "ended")

Finished == At("driver", "ended") /\ UNCHANGED vars

Waiter ==
  \/ SendHandle \/ Capture \/ CheckStop \/ WaitDirect \/ CheckGeneration \/ Parked \/ Reload \/ Changed
  \/ (\E kept \in BOOLEAN : RecordSample(kept)) \/ Acknowledge

Producer ==
  \/ Loop \/ wait_for_ack_or_stop \/ Gap \/ Stamp \/ Publish \/ WakeWaiter
  \/ ExitStop \/ ExitGeneration \/ ExitWake \/ AbortWake

Driver ==
  \/ RecvHandle \/ RecvDisconnected
  \/ StartupComplete \/ StartupStopped \/ FailGo \/ Go \/ EndTrial \/ Join

Step(t) == PinSucceeds(t) \/ Ready(t) \/ AwaitGo(t) \/ abort_startup(t)

Run(t) ==
  \/ Step(t)
  \/ t = "waiter" /\ Waiter
  \/ t = "producer" /\ Producer
  \/ t = "victim" /\ VictimStops
  \/ t = "driver" /\ Driver

Next ==
  \/ \E t \in Threads \cup {"driver"} : Run(t)
  \/ \E t \in Threads : PinFails(t)
  \/ ParkUnclassified \/ ProducerMigrated \/ VictimFails \/ StartupTimeout \/ RecvTimeout
  \/ Finished

\* Every thread keeps running, and the trial's duration passes.
Spec ==
  /\ Init /\ [][Next]_vars
  /\ \A t \in Threads \cup {"driver"} : WF_vars(Run(t))

-----------------------------------------------------------------------------
(* Properties.                                                             *)

(***************************************************************************)
(* Every latency is taken between the two ends of one event: sent_cycles   *)
(* still belongs to the generation that the waiter observed, although it   *)
(* is one relaxed cell; neither a stop nor an abort looks like an event.   *)
(***************************************************************************)
SampleMatchesEvent == ~mismatched

(***************************************************************************)
(* A trial whose start barrier failed records nothing: whoever passes the  *)
(* barrier that abort_startup opened finds stop already set.               *)
(***************************************************************************)
FailedStartupMeasuresNothing == failed => samples = 0
=============================================================================
