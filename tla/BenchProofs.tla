---------------------------- MODULE BenchProofs ----------------------------
(***************************************************************************)
(* Theorems about the benchmark: one contender trial, for every number of  *)
(* events and samples, and the run of main that is made of trials, for any *)
(* number of cases and repetitions.                                        *)
(*                                                                         *)
(* As long as nobody has stopped the trial, the driver opens the barrier   *)
(* only behind all three threads, and from then on sent, generation and    *)
(* acknowledged follow a handshake: at most one event is unacknowledged,   *)
(* and the waiter is the one who works on it.  Aborts and exits bump the   *)
(* generation only behind the stop flag, which the waiter reads before it  *)
(* takes a change of the generation for an event.                          *)
(*                                                                         *)
(* main is at a workload, a case and a repetition, and its report holds    *)
(* exactly the records due before that place, each once and in order.  At  *)
(* the end of the second workload that is a complete report, and only      *)
(* there finish moves it to the output path.                               *)
(***************************************************************************)
EXTENDS Bench, TLAPS

\* Before a thread counts as ready.
BeforeReady == {"unspawned", "pin", "send", "capture", "ready"}

Aborting == {"abort_stop", "abort_go", "abort_generation"}

\* The waiter behind its check of the stop flag.
Waiting == {"wait", "park", "reload", "changed", "record", "acknowledge"}

\* The program counters of each thread.
ShapeInv ==
  /\ pc["waiter"] \in BeforeReady \cup {"await_go", "check_stop", "ended"} \cup Waiting \cup Aborting
  /\ pc["producer"] \in BeforeReady \cup Aborting \cup
       {"await_go", "loop", "wait_for_ack", "gap", "stamp", "publish", "wake",
        "exit_stop", "exit_generation", "exit_wake", "abort_wake", "ended"}
  /\ pc["victim"] \in BeforeReady \cup Aborting \cup {"await_go", "loop", "ended"}
  /\ pc["driver"] \in Aborting \cup {"recv", "startup", "fail_go", "go", "delay", "join", "ended"}
  /\ pc["driver"] = "recv" => pc["producer"] = "unspawned" /\ pc["victim"] = "unspawned"

\* Who is on the way to bump the generation has set stop.
StopInv ==
  \A t \in Threads \cup {"driver"} :
    pc[t] \in {"abort_go", "abort_generation", "abort_wake", "exit_stop", "exit_generation",
               "exit_wake", "fail_go"} => stop

\* The threads that are counted in ready; one that failed before is not.
CountInv ==
  \E c \in [Threads -> {0, 1}] :
    /\ ready = c["waiter"] + c["producer"] + c["victim"]
    /\ \A t \in Threads : c[t] = 1 => pc[t] \notin BeforeReady
    /\ failed => \/ pc["driver"] \in Aborting \cup {"join", "ended"}
                 \/ \E t \in Threads : c[t] = 0 /\ pc[t] \notin BeforeReady

AllReady == ~failed /\ \A t \in Threads : pc[t] \notin BeforeReady

\* The barrier is passed when it is open, and open only for all or for none.
BarrierInv ==
  /\ pc["driver"] \in {"go", "delay"} => AllReady
  /\ go /\ ~stop => pc["driver"] = "delay"
  /\ pc["waiter"] \in Waiting \cup {"check_stop"} => go
  /\ pc["producer"] \in {"loop", "wait_for_ack", "gap", "stamp", "publish", "wake"} => go
  /\ pc["waiter"] \in Waiting \/ samples > 0 =>
       AllReady /\ pc["driver"] \in {"delay", "join", "ended"}

\* The handshake of events.
HandshakeInv ==
  /\ pc["producer"] = "publish" => sent = generation + 1 /\ sent = acknowledged + 1
  /\ pc["producer"] # "publish" => sent = generation
  /\ pc["producer"] # "abort_stop" => sequence = sent
  /\ pc["producer"] \in {"gap", "stamp", "abort_stop"} => acknowledged = sent
  /\ sent \in {acknowledged, acknowledged + 1}
  /\ pc["waiter"] \notin {"changed", "record", "acknowledge", "ended"} => observed = acknowledged
  /\ pc["waiter"] = "reload" => generation # observed
  /\ pc["waiter"] \in {"changed", "record", "acknowledge"} =>
       observed = generation /\ sent = observed /\ sent = acknowledged + 1
  /\ ~go => sent = 0 /\ acknowledged = 0

\* A sample is taken while its event is the last one.
RecordInv ==
  /\ ~mismatched
  /\ pc["waiter"] = "record" =>
       sent = observed /\ pc["producer"] # "stamp" /\ (pc["producer"] = "gap" => stop)

NumbersInv ==
  /\ {generation, sent, acknowledged, observed, sequence} \subseteq Nat
  /\ samples \in 0..MaxSamples
  /\ pc \in [Threads \cup {"driver"} -> PCs]

\* The types of the rest.
FlagsInv ==
  /\ go \in BOOLEAN /\ stop \in BOOLEAN /\ handle \in BOOLEAN
  /\ failed \in BOOLEAN /\ broken \in BOOLEAN /\ mismatched \in BOOLEAN
  /\ surface \in Surfaces /\ token \in {"empty", "notified"}

IInv ==
  /\ NumbersInv /\ FlagsInv /\ ShapeInv /\ StopInv /\ CountInv /\ BarrierInv
  /\ ~stop => HandshakeInv
  /\ RecordInv

\* A step of the driver or of one of the threads.
TrialAction ==
  \/ \E t \in Threads \cup {"driver"} : Run(t)
  \/ \E t \in Threads : PinFails(t)
  \/ ParkUnclassified \/ ProducerMigrated \/ VictimFails \/ StartupTimeout \/ RecvTimeout

-----------------------------------------------------------------------------
(* Every step keeps the invariant.                                         *)

(***************************************************************************)
(* A thread of either kind goes through the start barrier or aborts it.    *)
(***************************************************************************)
LEMMA StepStep ==
  ASSUME IInv, NEW t \in Threads \cup {"driver"}, Step(t)
  PROVE  IInv'
<1>1. NumbersInv'
  BY DEF Step, PinSucceeds, Ready, AwaitGo, abort_startup, AbortStop, AbortGo, AbortGeneration,
     Private, At, Goto, shared, local, IInv, NumbersInv, ShapeInv, PCs, BeforeReady, Aborting,
     Waiting, Threads
<1>2. FlagsInv'
  BY DEF Step, PinSucceeds, Ready, AwaitGo, abort_startup, AbortStop, AbortGo, AbortGeneration,
     Private, At, Goto, shared, local, IInv, NumbersInv, FlagsInv, BeforeReady, Aborting,
     Waiting, Threads
<1>3. ShapeInv'
  BY DEF Step, PinSucceeds, Ready, AwaitGo, abort_startup, AbortStop, AbortGo, AbortGeneration,
     Private, At, Goto, shared, local, IInv, NumbersInv, ShapeInv, BeforeReady, Aborting,
     Waiting, Threads
<1>4. StopInv'
  BY DEF Step, PinSucceeds, Ready, AwaitGo, abort_startup, AbortStop, AbortGo, AbortGeneration,
     Private, At, Goto, shared, local, IInv, NumbersInv, ShapeInv, StopInv, BeforeReady,
     Aborting, Waiting, Threads
<1>5. CountInv'
  <2> PICK c \in [Threads -> {0, 1}] :
        /\ ready = c["waiter"] + c["producer"] + c["victim"]
        /\ \A u \in Threads : c[u] = 1 => pc[u] \notin BeforeReady
        /\ failed => \/ pc["driver"] \in Aborting \cup {"join", "ended"}
                     \/ \E u \in Threads : c[u] = 0 /\ pc[u] \notin BeforeReady
    BY DEF IInv, CountInv
  <2>1. CASE Ready(t)
    <3> DEFINE d == [c EXCEPT ![t] = 1]
    <3>1. t \in Threads /\ c[t] = 0
      BY <2>1 DEF Ready, At, IInv, ShapeInv, Aborting, BeforeReady
    <3>2. d \in [Threads -> {0, 1}] /\ d[t] = 1 /\ \A u \in Threads : u # t => d[u] = c[u]
      BY <3>1
    <3> HIDE DEF d
    <3>3. pc'[t] = "await_go" /\ \A u \in Threads \cup {"driver"} : u # t => pc'[u] = pc[u]
      BY <2>1 DEF Ready, Goto, IInv, NumbersInv
    <3>4. ready' = d["waiter"] + d["producer"] + d["victim"] /\ failed' = failed
      BY <2>1, <3>1, <3>2 DEF Ready, local, Threads
    <3>5. \A u \in Threads : d[u] = 1 => pc'[u] \notin BeforeReady
      BY <3>1, <3>2, <3>3 DEF BeforeReady
    <3>6. failed => \/ pc'["driver"] \in Aborting \cup {"join", "ended"}
                    \/ \E u \in Threads : d[u] = 0 /\ pc'[u] \notin BeforeReady
      <4>1. pc[t] \in BeforeReady /\ pc'["driver"] = pc["driver"]
        BY <2>1, <3>1, <3>3 DEF Ready, At, BeforeReady, Threads
      <4> QED BY <3>1, <3>2, <3>3, <4>1
    <3> QED BY <3>2, <3>4, <3>5, <3>6 DEF CountInv
  <2>2. CASE PinSucceeds(t) \/ AwaitGo(t) \/ abort_startup(t)
    BY <2>2 DEF PinSucceeds, AwaitGo, AbortStop, AbortGo, AbortGeneration, Private,
       abort_startup, At, Goto, shared, local, IInv, NumbersInv, ShapeInv, CountInv, BarrierInv,
       AllReady, BeforeReady, Aborting, Waiting, Threads
  <2> QED BY <2>1, <2>2 DEF Step
<1>6. BarrierInv'
  BY DEF Step, PinSucceeds, Ready, AwaitGo, abort_startup, AbortStop, AbortGo, AbortGeneration,
     Private, At, Goto, shared, local, IInv, NumbersInv, ShapeInv, StopInv, BarrierInv,
     AllReady, CountInv, BeforeReady, Aborting, Waiting, Threads
<1>7. (~stop => HandshakeInv)'
  BY DEF Step, PinSucceeds, Ready, AwaitGo, abort_startup, AbortStop, AbortGo, AbortGeneration,
     Private, At, Goto, shared, local, IInv, NumbersInv, ShapeInv, StopInv, BarrierInv,
     AllReady, HandshakeInv, BeforeReady, Aborting, Waiting, Threads
<1>8. RecordInv'
  BY DEF Step, PinSucceeds, Ready, AwaitGo, abort_startup, AbortStop, AbortGo, AbortGeneration,
     Private, At, Goto, shared, local, IInv, NumbersInv, ShapeInv, HandshakeInv, RecordInv,
     BeforeReady, Aborting, Waiting, Threads
<1> QED BY <1>1, <1>2, <1>3, <1>4, <1>5, <1>6, <1>7, <1>8 DEF IInv

(***************************************************************************)
(* A thread that cannot be pinned fails the startup; it was not counted.   *)
(***************************************************************************)
LEMMA PinFailsStep ==
  ASSUME IInv, NEW t \in Threads, PinFails(t)
  PROVE  IInv'
<1>1. NumbersInv'
  BY DEF PinFails, At, Goto, shared, local, IInv, NumbersInv, ShapeInv, PCs, BeforeReady,
     Aborting, Waiting, Threads
<1>2. FlagsInv'
  BY DEF PinFails, At, Goto, shared, local, IInv, NumbersInv, FlagsInv, BeforeReady, Aborting,
     Waiting, Threads
<1>3. ShapeInv'
  BY DEF PinFails, At, Goto, shared, local, IInv, NumbersInv, ShapeInv, BeforeReady, Aborting,
     Waiting, Threads
<1>4. StopInv'
  BY DEF PinFails, At, Goto, shared, local, IInv, NumbersInv, ShapeInv, StopInv, BeforeReady,
     Aborting, Waiting, Threads
<1>5. CountInv'
  BY DEF PinFails, At, Goto, shared, local, IInv, NumbersInv, ShapeInv, CountInv, BarrierInv,
     AllReady, BeforeReady, Aborting, Waiting, Threads
<1>6. BarrierInv'
  BY DEF PinFails, At, Goto, shared, local, IInv, NumbersInv, ShapeInv, StopInv, BarrierInv,
     AllReady, CountInv, BeforeReady, Aborting, Waiting, Threads
<1>7. (~stop => HandshakeInv)'
  BY DEF PinFails, At, Goto, shared, local, IInv, NumbersInv, ShapeInv, StopInv, BarrierInv,
     AllReady, HandshakeInv, BeforeReady, Aborting, Waiting, Threads
<1>8. RecordInv'
  BY DEF PinFails, At, Goto, shared, local, IInv, NumbersInv, ShapeInv, HandshakeInv, RecordInv,
     BeforeReady, Aborting, Waiting, Threads
<1> QED BY <1>1, <1>2, <1>3, <1>4, <1>5, <1>6, <1>7, <1>8 DEF IInv

(***************************************************************************)
(* The waiter gets ready and waits for the generation to change.           *)
(***************************************************************************)
LEMMA WaiterWaitsStep ==
  ASSUME IInv, SendHandle \/ Capture \/ CheckStop \/ WaitDirect \/ CheckGeneration \/ Parked
  PROVE  IInv'
<1>1. NumbersInv'
  BY DEF SendHandle, Capture, CheckStop, WaitDirect, CheckGeneration, Parked, Private, At, Goto,
     shared, local, IInv, NumbersInv, ShapeInv, PCs, BeforeReady, Aborting, Waiting, Threads
<1>2. FlagsInv'
  BY Zenon DEF SendHandle, Capture, CheckStop, WaitDirect, CheckGeneration, Parked, Private, At,
     Goto, shared, local, IInv, NumbersInv, FlagsInv, BeforeReady, Aborting, Waiting, Threads
<1>3. ShapeInv'
  BY DEF SendHandle, Capture, CheckStop, WaitDirect, CheckGeneration, Parked, Private, At, Goto,
     shared, local, IInv, NumbersInv, ShapeInv, BeforeReady, Aborting, Waiting, Threads
<1>4. StopInv'
  BY DEF SendHandle, Capture, CheckStop, WaitDirect, CheckGeneration, Parked, Private, At, Goto,
     shared, local, IInv, NumbersInv, ShapeInv, StopInv, BeforeReady, Aborting, Waiting, Threads
<1>5. CountInv'
  BY DEF SendHandle, Capture, CheckStop, WaitDirect, CheckGeneration, Parked, Private, At, Goto,
     shared, local, IInv, NumbersInv, ShapeInv, CountInv, BarrierInv, AllReady, BeforeReady,
     Aborting, Waiting, Threads
<1>6. BarrierInv'
  BY DEF SendHandle, Capture, CheckStop, WaitDirect, CheckGeneration, Parked, Private, At, Goto,
     shared, local, IInv, NumbersInv, ShapeInv, StopInv, BarrierInv, AllReady, CountInv,
     BeforeReady, Aborting, Waiting, Threads
<1>7. (~stop => HandshakeInv)'
  BY DEF SendHandle, Capture, CheckStop, WaitDirect, CheckGeneration, Parked, Private, At, Goto,
     shared, local, IInv, NumbersInv, ShapeInv, StopInv, BarrierInv, AllReady, HandshakeInv,
     BeforeReady, Aborting, Waiting, Threads
<1>8. RecordInv'
  BY DEF SendHandle, Capture, CheckStop, WaitDirect, CheckGeneration, Parked, Private, At, Goto,
     shared, local, IInv, NumbersInv, ShapeInv, HandshakeInv, RecordInv, BeforeReady, Aborting,
     Waiting, Threads
<1> QED BY <1>1, <1>2, <1>3, <1>4, <1>5, <1>6, <1>7, <1>8 DEF IInv

(***************************************************************************)
(* It takes an event only with the stop flag unset behind the change,      *)
(* while the producer waits for the acknowledgement.                       *)
(***************************************************************************)
LEMMA WaiterTakesStep ==
  ASSUME IInv, \/ Reload \/ Changed \/ (\E kept \in BOOLEAN : RecordSample(kept))
               \/ Acknowledge \/ ParkUnclassified
  PROVE  IInv'
<1>1. NumbersInv'
  BY BenchTrialAssumption DEF Reload, Changed, RecordSample, Acknowledge, ParkUnclassified,
     Private, At, Goto, shared, local, IInv, NumbersInv, ShapeInv, PCs, BeforeReady, Aborting,
     Waiting, Threads
<1>2. FlagsInv'
  BY Zenon DEF Reload, Changed, RecordSample, Acknowledge, ParkUnclassified, Private, At, Goto,
     shared, local, IInv, NumbersInv, FlagsInv, BeforeReady, Aborting, Waiting, Threads
<1>3. ShapeInv'
  BY DEF Reload, Changed, RecordSample, Acknowledge, ParkUnclassified, Private, At, Goto,
     shared, local, IInv, NumbersInv, ShapeInv, BeforeReady, Aborting, Waiting, Threads
<1>4. StopInv'
  BY DEF Reload, Changed, RecordSample, Acknowledge, ParkUnclassified, Private, At, Goto,
     shared, local, IInv, NumbersInv, ShapeInv, StopInv, BeforeReady, Aborting, Waiting, Threads
<1>5. CountInv'
  BY DEF Reload, Changed, RecordSample, Acknowledge, ParkUnclassified, Private, At, Goto,
     shared, local, IInv, NumbersInv, ShapeInv, CountInv, BarrierInv, AllReady, BeforeReady,
     Aborting, Waiting, Threads
<1>6. BarrierInv'
  BY DEF Reload, Changed, RecordSample, Acknowledge, ParkUnclassified, Private, At, Goto,
     shared, local, IInv, NumbersInv, ShapeInv, StopInv, BarrierInv, AllReady, CountInv,
     BeforeReady, Aborting, Waiting, Threads
<1>7. (~stop => HandshakeInv)'
  BY DEF Reload, Changed, RecordSample, Acknowledge, ParkUnclassified, Private, At, Goto,
     shared, local, IInv, NumbersInv, ShapeInv, StopInv, BarrierInv, AllReady, HandshakeInv,
     BeforeReady, Aborting, Waiting, Threads
<1>8. RecordInv'
  <2>1. CASE Changed
    BY <2>1 DEF Changed, Private, At, Goto, shared, local, IInv, NumbersInv, ShapeInv,
       HandshakeInv, RecordInv, StopInv, BeforeReady, Aborting, Waiting, Threads
  <2>2. CASE \E kept \in BOOLEAN : RecordSample(kept)
    BY <2>2, Zenon DEF RecordSample, At, Goto, shared, local, IInv, NumbersInv, ShapeInv, HandshakeInv,
       RecordInv, BeforeReady, Aborting, Waiting, Threads
  <2>3. CASE Reload \/ Acknowledge \/ ParkUnclassified
    BY <2>3 DEF Reload, Acknowledge, ParkUnclassified, Private, At, Goto, shared, local, IInv,
       NumbersInv, ShapeInv, HandshakeInv, RecordInv, BeforeReady, Aborting, Waiting, Threads
  <2> QED BY <2>1, <2>2, <2>3
<1> QED BY <1>1, <1>2, <1>3, <1>4, <1>5, <1>6, <1>7, <1>8 DEF IInv

(***************************************************************************)
(* The producer stamps an event only behind the acknowledgement of the     *)
(* last one.                                                               *)
(***************************************************************************)
LEMMA ProducerEventStep ==
  ASSUME IInv, Loop \/ wait_for_ack_or_stop \/ Gap \/ Stamp \/ Publish \/ WakeWaiter
  PROVE  IInv'
<1>1. NumbersInv'
  BY DEF Loop, wait_for_ack_or_stop, Gap, Stamp, Publish, WakeWaiter, Wake, Private, At, Goto,
     shared, local, IInv, NumbersInv, ShapeInv, PCs, BeforeReady, Aborting, Waiting, Threads
<1>2. FlagsInv'
  BY Zenon DEF Loop, wait_for_ack_or_stop, Gap, Stamp, Publish, WakeWaiter, Wake, Private, At,
     Goto, shared, local, IInv, NumbersInv, FlagsInv, BeforeReady, Aborting, Waiting, Threads
<1>3. ShapeInv'
  BY DEF Loop, wait_for_ack_or_stop, Gap, Stamp, Publish, WakeWaiter, Wake, Private, At, Goto,
     shared, local, IInv, NumbersInv, ShapeInv, BeforeReady, Aborting, Waiting, Threads
<1>4. StopInv'
  BY DEF Loop, wait_for_ack_or_stop, Gap, Stamp, Publish, WakeWaiter, Wake, Private, At, Goto,
     shared, local, IInv, NumbersInv, ShapeInv, StopInv, BeforeReady, Aborting, Waiting, Threads
<1>5. CountInv'
  BY DEF Loop, wait_for_ack_or_stop, Gap, Stamp, Publish, WakeWaiter, Wake, Private, At, Goto,
     shared, local, IInv, NumbersInv, ShapeInv, CountInv, BarrierInv, AllReady, BeforeReady,
     Aborting, Waiting, Threads
<1>6. BarrierInv'
  BY DEF Loop, wait_for_ack_or_stop, Gap, Stamp, Publish, WakeWaiter, Wake, Private, At, Goto,
     shared, local, IInv, NumbersInv, ShapeInv, StopInv, BarrierInv, AllReady, CountInv,
     BeforeReady, Aborting, Waiting, Threads
<1>7. (~stop => HandshakeInv)'
  BY DEF Loop, wait_for_ack_or_stop, Gap, Stamp, Publish, WakeWaiter, Wake, Private, At, Goto,
     shared, local, IInv, NumbersInv, ShapeInv, StopInv, BarrierInv, AllReady, HandshakeInv,
     BeforeReady, Aborting, Waiting, Threads
<1>8. RecordInv'
  BY DEF Loop, wait_for_ack_or_stop, Gap, Stamp, Publish, WakeWaiter, Wake, Private, At, Goto,
     shared, local, IInv, NumbersInv, ShapeInv, HandshakeInv, RecordInv, BeforeReady, Aborting,
     Waiting, Threads
<1> QED BY <1>1, <1>2, <1>3, <1>4, <1>5, <1>6, <1>7, <1>8 DEF IInv

(***************************************************************************)
(* It leaves only behind the stop flag.                                    *)
(***************************************************************************)
LEMMA ProducerExitStep ==
  ASSUME IInv, ExitStop \/ ExitGeneration \/ ExitWake \/ AbortWake \/ ProducerMigrated
  PROVE  IInv'
<1>1. NumbersInv'
  BY DEF ExitStop, ExitGeneration, ExitWake, AbortWake, ProducerMigrated, Wake, Private, At,
     Goto, shared, local, IInv, NumbersInv, ShapeInv, PCs, BeforeReady, Aborting, Waiting,
     Threads
<1>2. FlagsInv'
  BY Zenon DEF ExitStop, ExitGeneration, ExitWake, AbortWake, ProducerMigrated, Wake, Private,
     At, Goto, shared, local, IInv, NumbersInv, FlagsInv, BeforeReady, Aborting, Waiting,
     Threads
<1>3. ShapeInv'
  BY DEF ExitStop, ExitGeneration, ExitWake, AbortWake, ProducerMigrated, Wake, Private, At,
     Goto, shared, local, IInv, NumbersInv, ShapeInv, BeforeReady, Aborting, Waiting, Threads
<1>4. StopInv'
  BY DEF ExitStop, ExitGeneration, ExitWake, AbortWake, ProducerMigrated, Wake, Private, At,
     Goto, shared, local, IInv, NumbersInv, ShapeInv, StopInv, BeforeReady, Aborting, Waiting,
     Threads
<1>5. CountInv'
  BY DEF ExitStop, ExitGeneration, ExitWake, AbortWake, ProducerMigrated, Wake, Private, At,
     Goto, shared, local, IInv, NumbersInv, ShapeInv, CountInv, BarrierInv, AllReady,
     BeforeReady, Aborting, Waiting, Threads
<1>6. BarrierInv'
  BY DEF ExitStop, ExitGeneration, ExitWake, AbortWake, ProducerMigrated, Wake, Private, At,
     Goto, shared, local, IInv, NumbersInv, ShapeInv, StopInv, BarrierInv, AllReady, CountInv,
     BeforeReady, Aborting, Waiting, Threads
<1>7. (~stop => HandshakeInv)'
  BY DEF ExitStop, ExitGeneration, ExitWake, AbortWake, ProducerMigrated, Wake, Private, At,
     Goto, shared, local, IInv, NumbersInv, ShapeInv, StopInv, BarrierInv, AllReady,
     HandshakeInv, BeforeReady, Aborting, Waiting, Threads
<1>8. RecordInv'
  BY DEF ExitStop, ExitGeneration, ExitWake, AbortWake, ProducerMigrated, Wake, Private, At,
     Goto, shared, local, IInv, NumbersInv, ShapeInv, HandshakeInv, RecordInv, BeforeReady,
     Aborting, Waiting, Threads
<1> QED BY <1>1, <1>2, <1>3, <1>4, <1>5, <1>6, <1>7, <1>8 DEF IInv

(***************************************************************************)
(* The victim only ends.                                                   *)
(***************************************************************************)
LEMMA VictimStep ==
  ASSUME IInv, VictimStops \/ VictimFails
  PROVE  IInv'
<1>1. NumbersInv'
  BY DEF VictimStops, VictimFails, Private, At, Goto, shared, local, IInv, NumbersInv, ShapeInv,
     PCs, BeforeReady, Aborting, Waiting, Threads
<1>2. FlagsInv'
  BY Zenon DEF VictimStops, VictimFails, Private, At, Goto, shared, local, IInv, NumbersInv, FlagsInv,
     BeforeReady, Aborting, Waiting, Threads
<1>3. ShapeInv'
  BY DEF VictimStops, VictimFails, Private, At, Goto, shared, local, IInv, NumbersInv, ShapeInv,
     BeforeReady, Aborting, Waiting, Threads
<1>4. StopInv'
  BY DEF VictimStops, VictimFails, Private, At, Goto, shared, local, IInv, NumbersInv, ShapeInv,
     StopInv, BeforeReady, Aborting, Waiting, Threads
<1>5. CountInv'
  BY DEF VictimStops, VictimFails, Private, At, Goto, shared, local, IInv, NumbersInv, ShapeInv,
     CountInv, BarrierInv, AllReady, BeforeReady, Aborting, Waiting, Threads
<1>6. BarrierInv'
  BY DEF VictimStops, VictimFails, Private, At, Goto, shared, local, IInv, NumbersInv, ShapeInv,
     StopInv, BarrierInv, AllReady, CountInv, BeforeReady, Aborting, Waiting, Threads
<1>7. (~stop => HandshakeInv)'
  BY DEF VictimStops, VictimFails, Private, At, Goto, shared, local, IInv, NumbersInv, ShapeInv,
     StopInv, BarrierInv, AllReady, HandshakeInv, BeforeReady, Aborting, Waiting, Threads
<1>8. RecordInv'
  BY DEF VictimStops, VictimFails, Private, At, Goto, shared, local, IInv, NumbersInv, ShapeInv,
     HandshakeInv, RecordInv, BeforeReady, Aborting, Waiting, Threads
<1> QED BY <1>1, <1>2, <1>3, <1>4, <1>5, <1>6, <1>7, <1>8 DEF IInv

(***************************************************************************)
(* The driver waits for the handle of the waiter, and gives up with an     *)
(* open barrier behind the stop flag.                                      *)
(***************************************************************************)
LEMMA DriverRecvStep ==
  ASSUME IInv, \/ RecvHandle \/ RecvDisconnected \/ RecvTimeout \/ StartupStopped \/ FailGo
               \/ StartupTimeout
  PROVE  IInv'
<1>1. NumbersInv'
  BY DEF RecvHandle, RecvDisconnected, RecvTimeout, StartupStopped, FailGo, StartupTimeout,
     RecvFailed, StoreGo, Private, At, Goto, shared, local, IInv, NumbersInv, ShapeInv, PCs,
     BeforeReady, Aborting, Waiting, Threads
<1>2. FlagsInv'
  BY Zenon DEF RecvHandle, RecvDisconnected, RecvTimeout, StartupStopped, FailGo,
     StartupTimeout, RecvFailed, StoreGo, Private, At, Goto, shared, local, IInv, NumbersInv,
     FlagsInv, BeforeReady, Aborting, Waiting, Threads
<1>3. ShapeInv'
  BY DEF RecvHandle, RecvDisconnected, RecvTimeout, StartupStopped, FailGo, StartupTimeout,
     RecvFailed, StoreGo, Private, At, Goto, shared, local, IInv, NumbersInv, ShapeInv,
     BeforeReady, Aborting, Waiting, Threads
<1>4. StopInv'
  BY DEF RecvHandle, RecvDisconnected, RecvTimeout, StartupStopped, FailGo, StartupTimeout,
     RecvFailed, StoreGo, Private, At, Goto, shared, local, IInv, NumbersInv, ShapeInv, StopInv,
     BeforeReady, Aborting, Waiting, Threads
<1>5. CountInv'
  BY DEF RecvHandle, RecvDisconnected, RecvTimeout, StartupStopped, FailGo, StartupTimeout,
     RecvFailed, StoreGo, Private, At, Goto, shared, local, IInv, NumbersInv, ShapeInv,
     CountInv, BarrierInv, AllReady, BeforeReady, Aborting, Waiting, Threads
<1>6. BarrierInv'
  BY DEF RecvHandle, RecvDisconnected, RecvTimeout, StartupStopped, FailGo, StartupTimeout,
     RecvFailed, StoreGo, Private, At, Goto, shared, local, IInv, NumbersInv, ShapeInv, StopInv,
     BarrierInv, AllReady, CountInv, BeforeReady, Aborting, Waiting, Threads
<1>7. (~stop => HandshakeInv)'
  BY DEF RecvHandle, RecvDisconnected, RecvTimeout, StartupStopped, FailGo, StartupTimeout,
     RecvFailed, StoreGo, Private, At, Goto, shared, local, IInv, NumbersInv, ShapeInv, StopInv,
     BarrierInv, AllReady, HandshakeInv, BeforeReady, Aborting, Waiting, Threads
<1>8. RecordInv'
  BY DEF RecvHandle, RecvDisconnected, RecvTimeout, StartupStopped, FailGo, StartupTimeout,
     RecvFailed, StoreGo, Private, At, Goto, shared, local, IInv, NumbersInv, ShapeInv,
     HandshakeInv, RecordInv, BeforeReady, Aborting, Waiting, Threads
<1> QED BY <1>1, <1>2, <1>3, <1>4, <1>5, <1>6, <1>7, <1>8 DEF IInv

(***************************************************************************)
(* It opens the barrier for all three threads and ends the trial behind    *)
(* them.                                                                   *)
(***************************************************************************)
LEMMA DriverGoStep ==
  ASSUME IInv, StartupComplete \/ Go \/ EndTrial \/ Join
  PROVE  IInv'
<1>1. NumbersInv'
  BY DEF StartupComplete, Go, EndTrial, Join, StoreGo, Private, At, Goto, shared, local, IInv,
     NumbersInv, ShapeInv, PCs, BeforeReady, Aborting, Waiting, Threads
<1>2. FlagsInv'
  BY Zenon DEF StartupComplete, Go, EndTrial, Join, StoreGo, Private, At, Goto, shared, local,
     IInv, NumbersInv, FlagsInv, BeforeReady, Aborting, Waiting, Threads
<1>3. ShapeInv'
  BY DEF StartupComplete, Go, EndTrial, Join, StoreGo, Private, At, Goto, shared, local, IInv,
     NumbersInv, ShapeInv, BeforeReady, Aborting, Waiting, Threads
<1>4. StopInv'
  BY DEF StartupComplete, Go, EndTrial, Join, StoreGo, Private, At, Goto, shared, local, IInv,
     NumbersInv, ShapeInv, StopInv, BeforeReady, Aborting, Waiting, Threads
<1>5. CountInv'
  BY DEF StartupComplete, Go, EndTrial, Join, StoreGo, Private, At, Goto, shared, local, IInv,
     NumbersInv, ShapeInv, CountInv, BarrierInv, AllReady, BeforeReady, Aborting, Waiting,
     Threads
<1>6. BarrierInv'
  BY DEF StartupComplete, Go, EndTrial, Join, StoreGo, Private, At, Goto, shared, local, IInv,
     NumbersInv, ShapeInv, StopInv, BarrierInv, AllReady, CountInv, BeforeReady, Aborting,
     Waiting, Threads
<1>7. (~stop => HandshakeInv)'
  BY DEF StartupComplete, Go, EndTrial, Join, StoreGo, Private, At, Goto, shared, local, IInv,
     NumbersInv, ShapeInv, StopInv, BarrierInv, AllReady, HandshakeInv, BeforeReady, Aborting,
     Waiting, Threads
<1>8. RecordInv'
  BY DEF StartupComplete, Go, EndTrial, Join, StoreGo, Private, At, Goto, shared, local, IInv,
     NumbersInv, ShapeInv, HandshakeInv, RecordInv, BeforeReady, Aborting, Waiting, Threads
<1> QED BY <1>1, <1>2, <1>3, <1>4, <1>5, <1>6, <1>7, <1>8 DEF IInv

-----------------------------------------------------------------------------
(***************************************************************************)
(* It holds of a trial that begins, on every surface.                      *)
(***************************************************************************)
LEMMA InitIInv ==
  ASSUME Init
  PROVE  IInv
<1>1. /\ pc["waiter"] = "pin" /\ pc["driver"] = (IF surface = "std" THEN "recv" ELSE "startup")
      /\ pc["producer"] = (IF surface = "std" THEN "unspawned" ELSE "pin")
      /\ pc["victim"] = (IF surface = "std" THEN "unspawned" ELSE "pin")
      /\ pc \in [Threads \cup {"driver"} -> PCs]
  BY DEF Init, Spawned, Threads, PCs
<1>2. NumbersInv
  BY <1>1, BenchTrialAssumption DEF Init, NumbersInv
<1>3. FlagsInv
  BY DEF Init, FlagsInv
<1>4. ShapeInv
  BY <1>1 DEF ShapeInv, BeforeReady
<1>5. StopInv /\ BarrierInv
  BY <1>1 DEF Init, StopInv, BarrierInv, Threads, Waiting
<1>6. CountInv
  <2> DEFINE c == [t \in Threads |-> 0]
  <2>1. c \in [Threads -> {0, 1}] /\ \A t \in Threads : c[t] = 0
    OBVIOUS
  <2> HIDE DEF c
  <2>2. ready = c["waiter"] + c["producer"] + c["victim"] /\ ~failed
    BY <2>1 DEF Init, Threads
  <2> QED BY <2>1, <2>2 DEF CountInv
<1>7. HandshakeInv /\ RecordInv
  BY <1>1 DEF Init, HandshakeInv, RecordInv
<1> QED BY <1>2, <1>3, <1>4, <1>5, <1>6, <1>7 DEF IInv

(***************************************************************************)
(* A step of a trial's threads keeps it.                                   *)
(***************************************************************************)
LEMMA TrialStep ==
  ASSUME IInv, TrialAction
  PROVE  IInv'
<1>1. ASSUME NEW t \in Threads \cup {"driver"}, Run(t)
      PROVE  IInv'
  <2>1. CASE Step(t)
    BY <2>1, StepStep
  <2>2. CASE Waiter
    BY <2>2, WaiterWaitsStep, WaiterTakesStep DEF Waiter
  <2>3. CASE Producer
    BY <2>3, ProducerEventStep, ProducerExitStep DEF Producer
  <2>4. CASE VictimStops
    BY <2>4, VictimStep
  <2>5. CASE Driver
    BY <2>5, DriverRecvStep, DriverGoStep DEF Driver
  <2> QED BY <1>1, <2>1, <2>2, <2>3, <2>4, <2>5 DEF Run
<1>2. ASSUME NEW t \in Threads, PinFails(t)
      PROVE  IInv'
  BY <1>2, PinFailsStep
<1>3. CASE ParkUnclassified
  BY <1>3, WaiterTakesStep
<1>4. CASE ProducerMigrated
  BY <1>4, ProducerExitStep
<1>5. CASE VictimFails
  BY <1>5, VictimStep
<1>6. CASE StartupTimeout \/ RecvTimeout
  BY <1>6, DriverRecvStep
<1> QED BY <1>1, <1>2, <1>3, <1>4, <1>5, <1>6 DEF TrialAction

(***************************************************************************)
(* So does one that leaves the trial alone.                                *)
(***************************************************************************)
LEMMA TrialStutter ==
  ASSUME IInv, UNCHANGED vars
  PROVE  IInv'
BY DEF IInv, NumbersInv, FlagsInv, ShapeInv, StopInv, CountInv, BarrierInv, AllReady,
       HandshakeInv, RecordInv, vars, shared

(***************************************************************************)
(* The invariant is inductive.                                             *)
(***************************************************************************)
THEOREM Invariance == Spec => []IInv
<1>1. Init => IInv
  BY InitIInv
<1>2. IInv /\ [Next]_vars => IInv'
  BY TrialStep, TrialStutter DEF Next, TrialAction, Finished
<1> QED BY <1>1, <1>2, PTL DEF Spec

-----------------------------------------------------------------------------
(* What follows.                                                           *)

(***************************************************************************)
(* The cells and the local variables of a trial keep their types; no more  *)
(* than three threads are ready and no more than max_samples are recorded. *)
(***************************************************************************)
THEOREM TypeCorrect == Spec => []TypeOK
<1>1. ASSUME IInv
      PROVE  TypeOK
  <2>1. ready \in 0..3
    <3> PICK c \in [Threads -> {0, 1}] : ready = c["waiter"] + c["producer"] + c["victim"]
      BY <1>1 DEF IInv, CountInv
    <3>1. c["waiter"] \in {0, 1} /\ c["producer"] \in {0, 1} /\ c["victim"] \in {0, 1}
      BY DEF Threads
    <3> QED BY <3>1
  <2>2. {failed, broken, mismatched} \subseteq BOOLEAN
    BY <1>1 DEF IInv, FlagsInv
  <2> QED BY <1>1, <2>1, <2>2 DEF IInv, NumbersInv, FlagsInv, TypeOK
<1> QED BY <1>1, Invariance, PTL

(***************************************************************************)
(* Every latency is taken between the two ends of one event, however often *)
(* the waiter is woken, whoever stops the trial and whichever thread       *)
(* aborts it.                                                              *)
(***************************************************************************)
THEOREM SamplesMatchEvents == Spec => []SampleMatchesEvent
<1>1. IInv => SampleMatchesEvent
  BY DEF IInv, RecordInv, SampleMatchesEvent
<1> QED BY <1>1, Invariance, PTL

(***************************************************************************)
(* A trial whose startup failed has recorded nothing and never will.       *)
(***************************************************************************)
THEOREM FailedStartupsMeasureNothing == Spec => []FailedStartupMeasuresNothing
<1>1. IInv => FailedStartupMeasuresNothing
  BY BenchTrialAssumption
     DEF IInv, NumbersInv, BarrierInv, AllReady, FailedStartupMeasuresNothing
<1> QED BY <1>1, Invariance, PTL

-----------------------------------------------------------------------------
(***************************************************************************)
(* The whole benchmark: its trials are trials of BenchTrial, the control's *)
(* threads are joined, and the report follows main's position.             *)
(***************************************************************************)

\* The driver leaves with the threads joined or the startup failed.
JoinInv == pc["driver"] = "ended" /\ ~failed => \A t \in Threads : pc[t] = "ended"

\* A thread runs in its own half of a pair only.
AloneInv ==
  /\ control \in Controls
  /\ control.driver = "ended" => control.worker \in {"ok", "error"}
  /\ exit = "running" /\ main.pc # "contender" => \A t \in Threads : pc[t] = "ended"
  /\ exit = "running" /\ main.pc # "control" => control.worker \in {"idle", "ok", "error"}

MainPCs ==
  {"create", "metadata", "pair", "control", "contender", "record", "summary", "skip", "winner",
   "sync", "rename", "directory"}

Finishing == {"sync", "rename", "directory"}

\* Where main is, and what it has measured of the pair there.
MainInv ==
  /\ plan \in Plans
  /\ main \in [pc: MainPCs, workload: Workloads, case: DOMAIN plan.cases,
               repetition: 0..(Repetitions - 1), control: BOOLEAN, samples: 0..(MaxSamples - 1)]
  /\ main.repetition > 0 \/ main.samples > 0 \/ main.pc \in {"contender", "record", "summary"}
       => main.case \in plan.supported
  /\ main.pc = "record" => main.samples > 0
  /\ main.pc = "skip" =>
       main.case \notin plan.supported /\ ~plan.official /\ main.repetition = 0
  /\ main.pc = "winner" => main.case = Len(plan.cases)
  /\ main.pc \in {"create", "metadata"} =>
       main.workload = 1 /\ main.case = 1 /\ main.repetition = 0
  /\ plan.preflight_only => main.pc \in {"create", "metadata"} \cup Finishing

\* The records that are due when main is at a workload W, case C and repetition R.
CaseOver(W, C, w, c) == w < W \/ (w = W /\ c < C)

Due(p, W, C, R, type, w, c, r) ==
  \/ type = "winner" /\ w \in Workloads /\ w < W
  \/ /\ w \in Workloads /\ c \in DOMAIN p.cases
     /\ \/ type = "skip" /\ c \notin p.supported /\ CaseOver(W, C, w, c)
        \/ type = "summary" /\ c \in p.supported /\ CaseOver(W, C, w, c)
        \/ /\ type = "repetition" /\ c \in p.supported /\ r \in 0..(Repetitions - 1)
           /\ CaseOver(W, C, w, c) \/ (w = W /\ c = C /\ r < R)

\* A record takes the place of one that is due.
Takes(x, type, w, c, r) ==
  /\ x.type = type /\ x.workload = w
  /\ type # "winner" => x.case = c
  /\ type = "repetition" => x.repetition = r

Lines ==
  {[type |-> "metadata"]} \cup
  [type: {"repetition", "summary", "skip", "winner"}, workload: Nat, case: Nat,
   repetition: Nat, samples: Nat]

Types == {"repetition", "summary", "skip", "winner"}

\* x is the one record that is due behind V, D, S and not yet behind W, C, R.
Adds(p, x, W, C, R, V, D, S) ==
  /\ x \in Lines /\ x.type \in Types /\ x.workload = W
  /\ \A type \in Types, w, c, r \in Nat :
       Due(p, V, D, S, type, w, c, r) <=> Due(p, W, C, R, type, w, c, r) \/ Takes(x, type, w, c, r)
  /\ ~Due(p, W, C, R, x.type, x.workload, x.case, x.repetition)
  /\ x.type = "repetition" => /\ x.samples \in 1..(MaxSamples - 1)
                              /\ ~Due(p, W, C, R, "summary", x.workload, x.case, 0)
  /\ x.type = "skip" => ~p.official

\* The report holds what is due, each record once and in order.
Reported(p, s, W, C, R) ==
  /\ s \in Seq(Lines) /\ Len(s) >= 1 /\ s[1].type = "metadata"
  /\ \A i \in 2..Len(s) :
       /\ s[i].type \in Types
       /\ Due(p, W, C, R, s[i].type, s[i].workload, s[i].case, s[i].repetition)
       /\ s[i].type = "repetition" => s[i].samples \in 1..(MaxSamples - 1)
       /\ s[i].type = "skip" => ~p.official
  /\ \A type \in Types, w, c, r \in Nat :
       Due(p, W, C, R, type, w, c, r) => \E i \in 2..Len(s) : Takes(s[i], type, w, c, r)
  /\ \A i, j \in 2..Len(s) :
       Takes(s[i], s[j].type, s[j].workload, s[j].case, s[j].repetition) => i = j
  /\ InOrder(s)
  /\ \A i, j \in 2..Len(s) : i < j /\ s[i].type = "summary" /\ s[j].type = "repetition"
       => s[i].workload # s[j].workload \/ s[i].case # s[j].case

\* How far main has come.
AtWorkload == IF main.pc \in Finishing THEN 3 ELSE main.workload

AtCase ==
  CASE main.pc \in Finishing -> 1 [] main.pc = "winner" -> Len(plan.cases) + 1 [] OTHER -> main.case

AtRepetition ==
  CASE main.pc \in Finishing \cup {"winner"} -> 0 [] main.pc = "summary" -> Repetitions
    [] OTHER -> main.repetition

ReportInv ==
  /\ main.pc \in {"create", "metadata"} => output.records = <<>>
  /\ main.pc \notin {"create", "metadata"} =>
       IF plan.preflight_only
       THEN output.records = <<[type |-> "metadata"]>>
       ELSE Reported(plan, output.records, AtWorkload, AtCase, AtRepetition)

\* The output's state follows main's.
OutputInv ==
  /\ output = [state |-> output.state, records |-> output.records]
  /\ output.state = CASE main.pc = "create" -> "none" [] main.pc = "rename" -> "synced"
                      [] main.pc = "directory" -> "published" [] OTHER -> "open"

\* What the path holds, and what a power loss may leave there.
DiskInv ==
  /\ disk = [parent |-> disk.parent, final |-> disk.final, survives |-> disk.survives,
             partial |-> disk.partial]
  /\ disk.parent \in Parents
  /\ exit = "running" /\ main.pc # "create" => disk.parent # "missing"
  /\ exit \in {"running", "error"} /\ main.pc # "directory" =>
       disk.final = Previous /\ disk.survives = {Previous}
  /\ exit = "running" /\ main.pc = "directory" => disk.survives \subseteq {Previous, disk.final}
  /\ exit = "ok" => disk.parent # "missing"
  /\ exit = "ok" /\ disk.parent = "durable" => disk.survives \subseteq {disk.final}
  /\ \A x \in disk.survives \cup {disk.final} : x = Previous \/ Complete(x)

Exits == {"running", "ok", "error", "killed", "lost"}

BInv ==
  /\ IInv /\ JoinInv /\ AloneInv /\ DiskInv /\ plan \in Plans /\ exit \in Exits
  /\ exit = "running" => MainInv /\ ReportInv /\ OutputInv

-----------------------------------------------------------------------------
(* What is due.                                                            *)

(***************************************************************************)
(* A record that is not the metadata names its place.                      *)
(***************************************************************************)
LEMMA LineFields ==
  ASSUME NEW x \in Lines, x.type \in Types
  PROVE  /\ x.workload \in Nat /\ x.case \in Nat /\ x.repetition \in Nat /\ x.samples \in Nat
BY DEF Lines, Types

(***************************************************************************)
(* Whether a record is due depends only on the place that it takes.        *)
(***************************************************************************)
LEMMA DueTakes ==
  ASSUME NEW p, NEW W, NEW C, NEW R, NEW x, NEW type, NEW w, NEW c, NEW r, Takes(x, type, w, c, r)
  PROVE  Due(p, W, C, R, type, w, c, r) <=>
           Due(p, W, C, R, x.type, x.workload, x.case, x.repetition)
BY DEF Takes, Due

(***************************************************************************)
(* A report grows by the next record that is due, and by it alone.         *)
(***************************************************************************)
LEMMA AppendReport ==
  ASSUME NEW p, NEW s, NEW W \in Nat, NEW C, NEW R, NEW V, NEW D, NEW S, NEW x,
         Reported(p, s, W, C, R), Adds(p, x, W, C, R, V, D, S)
  PROVE  Reported(p, Append(s, x), V, D, S)
<1> DEFINE t == Append(s, x)
           n == Len(s)
<1>0. s \in Seq(Lines) /\ n \in Nat /\ n >= 1 /\ s[1].type = "metadata"
  BY DEF Reported
<1>1. t \in Seq(Lines) /\ Len(t) = n + 1 /\ t[n + 1] = x /\ \A i \in 1..n : t[i] = s[i]
  BY <1>0 DEF Adds
<1> HIDE DEF t
<1>2. t[1].type = "metadata" /\ 2..Len(t) = (2..n) \cup {n + 1}
  BY <1>0, <1>1
<1> HIDE DEF n
<1>3. \A i \in 2..n : t[i] = s[i] /\ i # n + 1 /\ i < n + 1
  BY <1>0, <1>1
<1>4. \A i \in 2..n : /\ s[i] \in Lines /\ s[i].type \in Types
                      /\ s[i].workload \in Nat /\ s[i].case \in Nat /\ s[i].repetition \in Nat
  BY <1>0, LineFields DEF Reported, n
<1>5. /\ x.type \in Types /\ x.workload = W /\ x.case \in Nat /\ x.repetition \in Nat
      /\ x.type = "repetition" => x.samples \in 1..(MaxSamples - 1)
      /\ x.type = "skip" => ~p.official
      /\ ~Due(p, W, C, R, x.type, x.workload, x.case, x.repetition)
      /\ x.type = "repetition" => ~Due(p, W, C, R, "summary", x.workload, x.case, 0)
  BY LineFields DEF Adds
<1>6. \A i \in 2..n : Due(p, W, C, R, s[i].type, s[i].workload, s[i].case, s[i].repetition)
  BY DEF Reported, n
<1>7. \A i \in 2..Len(t) :
        /\ t[i].type \in Types
        /\ Due(p, V, D, S, t[i].type, t[i].workload, t[i].case, t[i].repetition)
        /\ t[i].type = "repetition" => t[i].samples \in 1..(MaxSamples - 1)
        /\ t[i].type = "skip" => ~p.official
  <2>1. ASSUME NEW i \in 2..n
        PROVE  /\ t[i].type \in Types
               /\ Due(p, V, D, S, t[i].type, t[i].workload, t[i].case, t[i].repetition)
               /\ t[i].type = "repetition" => t[i].samples \in 1..(MaxSamples - 1)
               /\ t[i].type = "skip" => ~p.official
    <3>1. Due(p, V, D, S, s[i].type, s[i].workload, s[i].case, s[i].repetition)
      BY <1>4, <1>6 DEF Adds
    <3>2. /\ s[i].type = "repetition" => s[i].samples \in 1..(MaxSamples - 1)
          /\ s[i].type = "skip" => ~p.official
      BY DEF Reported, n
    <3> QED BY <1>3, <1>4, <3>1, <3>2
  <2>2. Due(p, V, D, S, x.type, x.workload, x.case, x.repetition)
    BY <1>5 DEF Adds, Takes
  <2> QED BY <1>1, <1>2, <1>5, <2>1, <2>2
<1>8. ASSUME NEW type \in Types, NEW w \in Nat, NEW c \in Nat, NEW r \in Nat,
             Due(p, V, D, S, type, w, c, r)
      PROVE  \E i \in 2..Len(t) : Takes(t[i], type, w, c, r)
  <2>1. CASE Due(p, W, C, R, type, w, c, r)
    <3>1. PICK i \in 2..n : Takes(s[i], type, w, c, r)
      BY <2>1 DEF Reported, n
    <3> QED BY <1>2, <1>3, <3>1
  <2>2. CASE Takes(x, type, w, c, r)
    BY <1>1, <1>2, <2>2
  <2> QED BY <1>8, <2>1, <2>2 DEF Adds
<1>9. ASSUME NEW i \in 2..Len(t), NEW j \in 2..Len(t),
             Takes(t[i], t[j].type, t[j].workload, t[j].case, t[j].repetition)
      PROVE  i = j
  <2>1. CASE i \in 2..n /\ j \in 2..n
    BY <1>3, <1>9, <2>1 DEF Reported, n
  <2>2. CASE i \in 2..n /\ j = n + 1
    <3>1. Takes(s[i], x.type, x.workload, x.case, x.repetition)
      BY <1>1, <1>3, <1>9, <2>2
    <3> QED BY <1>5, <1>6, <2>2, <3>1, DueTakes
  <2>3. CASE i = n + 1 /\ j \in 2..n
    <3>1. Takes(x, s[j].type, s[j].workload, s[j].case, s[j].repetition)
      BY <1>1, <1>3, <1>9, <2>3
    <3> QED BY <1>5, <1>6, <2>3, <3>1, DueTakes
  <2> QED BY <1>2, <2>1, <2>2, <2>3
<1>10. \A i \in 2..n : s[i].workload <= W /\ (s[i].type = "winner" => s[i].workload < W)
  BY <1>4, <1>6 DEF Due, CaseOver, Workloads
<1>11. InOrder(t)
  <2> SUFFICES ASSUME NEW i \in 2..Len(t), NEW j \in 2..Len(t), i < j
               PROVE  /\ t[i].workload <= t[j].workload
                      /\ t[i].type = "winner" => t[i].workload < t[j].workload
    BY DEF InOrder
  <2>1. i \in 2..n
    BY <1>0, <1>1 DEF n
  <2>2. CASE j \in 2..n
    BY <1>3, <2>1, <2>2 DEF Reported, InOrder, n
  <2>3. CASE j = n + 1
    BY <1>1, <1>3, <1>5, <1>10, <2>1, <2>3
  <2> QED BY <1>2, <2>2, <2>3
<1>12. ASSUME NEW i \in 2..Len(t), NEW j \in 2..Len(t),
              i < j, t[i].type = "summary", t[j].type = "repetition",
              t[i].workload = t[j].workload, t[i].case = t[j].case
       PROVE  FALSE
  <2>1. i \in 2..n
    BY <1>0, <1>1, <1>12 DEF n
  <2>2. CASE j \in 2..n
    BY <1>3, <1>12, <2>1, <2>2 DEF Reported, n
  <2>3. CASE j = n + 1
    <3>1. x.type = "repetition" /\ Takes(s[i], "summary", x.workload, x.case, 0)
      BY <1>1, <1>3, <1>12, <2>1, <2>3 DEF Takes
    <3> QED BY <1>5, <1>6, <2>1, <3>1, DueTakes
  <2> QED BY <1>2, <2>2, <2>3
<1> QED
  <2>1. Len(t) >= 1
    BY <1>0, <1>1
  <2> QED BY <1>1, <1>2, <1>7, <1>8, <1>9, <1>11, <1>12, <2>1 DEF Reported, t

(***************************************************************************)
(* What the plans are: a sequence of cases, some of them supported.        *)
(***************************************************************************)
LEMMA PlanFields ==
  ASSUME NEW p \in Plans
  PROVE  /\ p.cases \in Seq(Surfaces) /\ Len(p.cases) \in Nat \ {0}
         /\ DOMAIN p.cases = 1..Len(p.cases)
         /\ p.supported \subseteq DOMAIN p.cases
         /\ p.preflight_only \in BOOLEAN /\ p.official \in BOOLEAN
<1>1. /\ p \in [official: BOOLEAN, preflight_only: BOOLEAN, cases: Seq(Surfaces),
                   supported: SUBSET DOMAIN p.cases]
      /\ p.cases # <<>>
  BY BenchAssumption
<1> QED BY <1>1

(***************************************************************************)
(* A repetition's record is the next one due.                              *)
(***************************************************************************)
LEMMA DueRepetition ==
  ASSUME NEW p \in Plans, NEW W \in Workloads, NEW C \in p.supported,
         NEW R \in 0..(Repetitions - 1), NEW x \in Lines,
         x.type = "repetition", x.workload = W, x.case = C, x.repetition = R,
         x.samples \in 1..(MaxSamples - 1)
  PROVE  Adds(p, x, W, C, R, W, C, R + 1)
<1>1. C \in DOMAIN p.cases /\ C \in Nat /\ Repetitions \in Nat
  BY PlanFields, BenchAssumption
<1>2. /\ \A type \in Types, w, c, r \in Nat :
           Due(p, W, C, R + 1, type, w, c, r) <=>
             Due(p, W, C, R, type, w, c, r) \/ Takes(x, type, w, c, r)
      /\ ~Due(p, W, C, R, x.type, x.workload, x.case, x.repetition)
      /\ ~Due(p, W, C, R, "summary", x.workload, x.case, 0)
  BY <1>1 DEF Due, Takes, CaseOver, Workloads, Types
<1> QED BY <1>2 DEF Adds, Types

(***************************************************************************)
(* A case's summary or skip is the next record due, and ends the case.     *)
(***************************************************************************)
LEMMA DueCase ==
  ASSUME NEW p \in Plans, NEW W \in Workloads, NEW C \in DOMAIN p.cases,
         NEW R \in {0, Repetitions}, NEW x \in Lines, x.workload = W, x.case = C,
         \/ x.type = "summary" /\ C \in p.supported /\ R = Repetitions
         \/ x.type = "skip" /\ C \notin p.supported /\ R = 0 /\ ~p.official
  PROVE  Adds(p, x, W, C, R, W, C + 1, 0)
<1>1. C \in Nat /\ Repetitions \in Nat /\ \A c \in DOMAIN p.cases : c \in Nat
  BY PlanFields, BenchAssumption
<1>2. /\ \A type \in Types, w, c, r \in Nat :
           Due(p, W, C + 1, 0, type, w, c, r) <=>
             Due(p, W, C, R, type, w, c, r) \/ Takes(x, type, w, c, r)
      /\ ~Due(p, W, C, R, x.type, x.workload, x.case, x.repetition)
  BY <1>1 DEF Due, Takes, CaseOver, Workloads, Types
<1> QED BY <1>2 DEF Adds, Types

(***************************************************************************)
(* Behind all cases the winner is due, and it ends the workload.           *)
(***************************************************************************)
LEMMA DueWinner ==
  ASSUME NEW p \in Plans, NEW W \in Workloads, NEW x \in Lines, x.type = "winner", x.workload = W
  PROVE  Adds(p, x, W, Len(p.cases) + 1, 0, W + 1, 1, 0)
<1> DEFINE C == Len(p.cases) + 1
<1>1. /\ Len(p.cases) \in Nat /\ Repetitions \in Nat
      /\ DOMAIN p.cases = 1..Len(p.cases)
  BY PlanFields, BenchAssumption
<1>2. /\ \A type \in Types, w, c, r \in Nat :
           Due(p, W + 1, 1, 0, type, w, c, r) <=>
             Due(p, W, C, 0, type, w, c, r) \/ Takes(x, type, w, c, r)
      /\ ~Due(p, W, C, 0, x.type, x.workload, x.case, x.repetition)
  BY <1>1 DEF Due, Takes, CaseOver, Workloads, Types
<1> QED BY <1>2 DEF Adds, Types

(***************************************************************************)
(* Before the first case nothing is due.                                   *)
(***************************************************************************)
LEMMA MetadataReported ==
  ASSUME NEW p \in Plans
  PROVE  Reported(p, <<[type |-> "metadata"]>>, 1, 1, 0)
<1>1. /\ Repetitions \in Nat
      /\ \A c \in DOMAIN p.cases : c \in Nat /\ c >= 1
  BY PlanFields, BenchAssumption
<1>2. ASSUME NEW type, NEW w, NEW c, NEW r
      PROVE  ~Due(p, 1, 1, 0, type, w, c, r)
  BY <1>1 DEF Due, CaseOver, Workloads
<1> DEFINE s == <<[type |-> "metadata"]>>
<1>3. s \in Seq(Lines) /\ Len(s) = 1 /\ s[1].type = "metadata"
  BY DEF Lines
<1> HIDE DEF s
<1>4. 2..Len(s) = {}
  BY <1>3
<1>5. InOrder(s)
  BY <1>4 DEF InOrder
<1>6. Reported(p, s, 1, 1, 0)
  BY <1>2, <1>3, <1>4, <1>5 DEF Reported
<1> QED BY <1>6 DEF s

(***************************************************************************)
(* A report with everything that is due behind both workloads is complete. *)
(***************************************************************************)
LEMMA ReportedComplete ==
  ASSUME NEW p \in Plans, p = plan, ~p.preflight_only, NEW s, Reported(p, s, 3, 1, 0)
  PROVE  Complete(s)
<1>1. /\ s \in Seq(Lines) /\ Len(s) >= 1 /\ s # <<>> /\ s[1].type = "metadata" /\ InOrder(s)
  BY DEF Reported
<1>2. \A i, j \in 2..Len(s) :
        Takes(s[i], s[j].type, s[j].workload, s[j].case, s[j].repetition) => i = j
  BY DEF Reported
<1>3. \A i \in 2..Len(s) :
        /\ s[i].type \in Types
        /\ Due(p, 3, 1, 0, s[i].type, s[i].workload, s[i].case, s[i].repetition)
  BY DEF Reported
<1>4. \A type \in Types, w, c, r \in Nat :
        Due(p, 3, 1, 0, type, w, c, r) => \E i \in 2..Len(s) : Takes(s[i], type, w, c, r)
  BY DEF Reported
<1>5. /\ Repetitions \in Nat \ {0}
      /\ \A c \in DOMAIN p.cases : c \in Nat
  BY PlanFields, BenchAssumption
<1>6. ASSUME NEW w \in Workloads
      PROVE  Once(Winners(s, w))
  <2>1. Due(p, 3, 1, 0, "winner", w, 0, 0) /\ w \in Nat
    BY DEF Due, Workloads
  <2>2. PICK i \in 2..Len(s) : Takes(s[i], "winner", w, 0, 0)
    BY <1>4, <2>1 DEF Types
  <2>3. i \in Winners(s, w)
    BY <2>2 DEF Winners, Takes
  <2>4. \A j \in Winners(s, w) : j = i
    BY <1>2, <2>2 DEF Winners, Takes
  <2> QED BY <2>3, <2>4 DEF Once
<1>7. ASSUME NEW w \in Workloads, NEW c \in DOMAIN p.cases
      PROVE  \/ ~p.official /\ Skipped(s, w, c)
             \/ Measured(s, w, c)
  <2>0. w \in Nat /\ c \in Nat /\ CaseOver(3, 1, w, c)
    BY <1>5 DEF CaseOver, Workloads
  <2>1. CASE c \notin p.supported
    <3>1. Due(p, 3, 1, 0, "skip", w, c, 0)
      BY <2>0, <2>1 DEF Due
    <3>2. PICK i \in 2..Len(s) : Takes(s[i], "skip", w, c, 0)
      BY <1>4, <2>0, <3>1 DEF Types
    <3>3. i \in Of(s, "skip", w, c) /\ \A j \in Of(s, "skip", w, c) : j = i
      BY <1>2, <3>2 DEF Of, Takes
    <3>4. Of(s, "repetition", w, c) = {} /\ Of(s, "summary", w, c) = {}
      BY <1>3, <2>1 DEF Of, Due
    <3>5. ~p.official
      BY <3>2 DEF Reported, Takes
    <3> QED BY <3>3, <3>4, <3>5 DEF Skipped, Once
  <2>2. CASE c \in p.supported
    <3>1. Of(s, "skip", w, c) = {}
      BY <1>3, <2>2 DEF Of, Due
    <3>2. Due(p, 3, 1, 0, "summary", w, c, 0)
      BY <2>0, <2>2 DEF Due
    <3>3. PICK i \in 2..Len(s) : Takes(s[i], "summary", w, c, 0)
      BY <1>4, <2>0, <3>2 DEF Types
    <3>4. i \in Of(s, "summary", w, c) /\ \A j \in Of(s, "summary", w, c) : j = i
      BY <1>2, <3>3 DEF Of, Takes
    <3>5. ASSUME NEW r \in 0..(Repetitions - 1)
          PROVE  Once({k \in Of(s, "repetition", w, c) : s[k].repetition = r})
      <4>1. Due(p, 3, 1, 0, "repetition", w, c, r) /\ r \in Nat
        BY <1>5, <2>0, <2>2 DEF Due
      <4>2. PICK k \in 2..Len(s) : Takes(s[k], "repetition", w, c, r)
        BY <1>4, <2>0, <4>1 DEF Types
      <4>3. k \in Of(s, "repetition", w, c) /\ s[k].repetition = r
        BY <4>2 DEF Of, Takes
      <4>4. \A j \in Of(s, "repetition", w, c) : s[j].repetition = r => j = k
        BY <1>2, <4>2 DEF Of, Takes
      <4> QED BY <4>3, <4>4 DEF Once
    <3>6. ASSUME NEW k \in Of(s, "repetition", w, c)
          PROVE  /\ s[k].repetition \in 0..(Repetitions - 1)
                 /\ s[k].samples \in 1..(MaxSamples - 1)
                 /\ \A j \in Of(s, "summary", w, c) : k < j
      <4>1. k \in 2..Len(s) /\ s[k].type = "repetition" /\ s[k].workload = w /\ s[k].case = c
        BY DEF Of
      <4>2. s[k].repetition \in 0..(Repetitions - 1)
        BY <1>3, <4>1 DEF Due
      <4>3. s[k].samples \in 1..(MaxSamples - 1)
        BY <4>1 DEF Reported
      <4>4. ASSUME NEW j \in Of(s, "summary", w, c)
            PROVE  k < j
        <5>1. j \in 2..Len(s) /\ s[j].type = "summary" /\ s[j].workload = w /\ s[j].case = c
          BY DEF Of
        <5>2. ~(j < k)
          BY <4>1, <5>1 DEF Reported
        <5>3. j # k
          BY <4>1, <5>1
        <5> QED BY <1>1, <4>1, <5>1, <5>2, <5>3
      <4> QED BY <4>2, <4>3, <4>4
    <3>7. Once(Of(s, "summary", w, c))
      BY <3>4 DEF Once
    <3> QED BY <3>1, <3>5, <3>6, <3>7 DEF Measured
  <2> QED BY <2>1, <2>2
<1> QED BY <1>1, <1>6, <1>7 DEF Complete

-----------------------------------------------------------------------------
(* The trials.                                                             *)

(***************************************************************************)
(* A trial's cells are fresh when it starts and when it has been dropped.  *)
(***************************************************************************)
LEMMA NewTrialStep ==
  ASSUME IInv, NewTrial, surface' \in Surfaces,
         \/ pc' = Spawned(surface')
         \/ pc' = [t \in Threads \cup {"driver"} |-> "ended"]
  PROVE  IInv' /\ JoinInv'
<1>0. pc' \in [Threads \cup {"driver"} -> PCs]
  BY DEF Spawned, PCs, Threads
<1>1. \/ \A t \in Threads \cup {"driver"} : pc'[t] = "ended"
      \/ /\ pc'["waiter"] = "pin"
         /\ pc'["driver"] = (IF surface' = "std" THEN "recv" ELSE "startup")
         /\ pc'["producer"] = (IF surface' = "std" THEN "unspawned" ELSE "pin")
         /\ pc'["victim"] = (IF surface' = "std" THEN "unspawned" ELSE "pin")
  BY DEF Spawned, Threads
<1>2. NumbersInv'
  BY <1>0, BenchTrialAssumption DEF NewTrial, NumbersInv
<1>8. FlagsInv'
  BY DEF NewTrial, FlagsInv, IInv
<1>3. ShapeInv'
  BY <1>1 DEF ShapeInv, BeforeReady, Threads
<1>4. StopInv' /\ BarrierInv'
  BY <1>1 DEF NewTrial, StopInv, BarrierInv, Threads, Waiting
<1>5. CountInv'
  <2> DEFINE c == [t \in Threads |-> 0]
  <2>1. c \in [Threads -> {0, 1}] /\ \A t \in Threads : c[t] = 0
    OBVIOUS
  <2> HIDE DEF c
  <2>2. ready' = c["waiter"] + c["producer"] + c["victim"] /\ ~failed'
    BY <2>1 DEF NewTrial, Threads
  <2> QED BY <2>1, <2>2 DEF CountInv
<1>6. HandshakeInv' /\ RecordInv'
  BY <1>1 DEF NewTrial, HandshakeInv, RecordInv, IInv, Threads
<1>7. JoinInv'
  BY <1>1 DEF JoinInv, Threads
<1> QED BY <1>2, <1>3, <1>4, <1>5, <1>6, <1>7, <1>8 DEF IInv

(***************************************************************************)
(* No thread runs again once it has ended, and only Join or a failed       *)
(* startup ends the driver.                                                *)
(***************************************************************************)
LEMMA TrialJoins ==
  ASSUME IInv, JoinInv, TrialAction
  PROVE  JoinInv'
<1>1. ASSUME NEW t \in Threads \cup {"driver"}, Step(t)
      PROVE  JoinInv'
  BY <1>1 DEF JoinInv, IInv, NumbersInv, ShapeInv, Step, PinSucceeds, Ready, AwaitGo, abort_startup,
     AbortStop, AbortGo, AbortGeneration, Private, At, Goto, local, Threads, BeforeReady, Aborting
<1>2. CASE Waiter \/ ParkUnclassified
  BY <1>2 DEF JoinInv, IInv, NumbersInv, Waiter, SendHandle, Capture, CheckStop, WaitDirect,
     CheckGeneration, Parked, Reload, Changed, RecordSample, Acknowledge, ParkUnclassified, Private,
     At, Goto, local, Threads
<1>3. CASE Producer \/ ProducerMigrated
  BY <1>3 DEF JoinInv, IInv, NumbersInv, Producer, Loop, wait_for_ack_or_stop, Gap, Stamp, Publish,
     WakeWaiter, ExitStop, ExitGeneration, ExitWake, AbortWake, ProducerMigrated, Wake, Private,
     At, Goto, local, Threads
<1>4. CASE VictimStops \/ VictimFails
  BY <1>4 DEF JoinInv, IInv, NumbersInv, VictimStops, VictimFails, Private, At, Goto, local, Threads
<1>5. CASE Driver \/ StartupTimeout \/ RecvTimeout
  BY <1>5 DEF JoinInv, IInv, NumbersInv, Driver, RecvHandle, RecvDisconnected, RecvTimeout,
     RecvFailed, StartupComplete, StartupStopped, FailGo, Go, EndTrial, Join, StartupTimeout,
     StoreGo, Private, At, Goto, local, Threads
<1>6. ASSUME NEW t \in Threads, PinFails(t)
      PROVE  JoinInv'
  BY <1>6 DEF JoinInv, IInv, NumbersInv, PinFails, At, Goto, Threads
<1> QED BY <1>1, <1>2, <1>3, <1>4, <1>5, <1>6 DEF TrialAction, Run

(***************************************************************************)
(* The cells of the trial are those of BenchTrial in every step of the     *)
(* benchmark: a trial that is dropped, and one that begins, is fresh.      *)
(***************************************************************************)
LEMMA BenchTrialStep ==
  ASSUME BInv, BenchNext
  PROVE  IInv' /\ JoinInv'
<1>0. IInv /\ JoinInv
  BY DEF BInv
<1>1. CASE UNCHANGED vars
  BY <1>0, <1>1, TrialStutter DEF JoinInv, vars, shared
<1>2. CASE TrialAction
  BY <1>0, <1>2, TrialStep, TrialJoins
<1>3. CASE StartContender
  <2>1. plan.cases[main.case] \in Surfaces
    <3>1. plan \in Plans /\ main.case \in DOMAIN plan.cases
      BY <1>3 DEF StartContender, MainAt, BInv, MainInv
    <3>2. plan.cases \in Seq(Surfaces)
      BY <3>1, PlanFields
    <3> QED BY <3>1, <3>2
  <2> QED BY <1>0, <1>3, <2>1, NewTrialStep DEF StartContender
<1>4. CASE EndContender
  <2>1. CASE TrialOk
    <3>1. \A t \in Threads \cup {"driver"} : pc[t] = "ended"
      BY <1>0, <1>4, <2>1 DEF EndContender, TrialOk, JoinInv, At
    <3>2. pc = [t \in Threads \cup {"driver"} |-> "ended"] /\ surface \in Surfaces
      BY <1>0, <3>1 DEF IInv, NumbersInv, FlagsInv
    <3>3. NewTrial /\ pc' = pc /\ surface' = surface
      BY <1>4, <2>1 DEF EndContender
    <3> QED BY <1>0, <3>2, <3>3, NewTrialStep
  <2>2. CASE ~TrialOk
    BY <1>1, <1>4, <2>2 DEF EndContender
  <2> QED BY <2>1, <2>2
<1>5. ASSUME NEW how, ProcessEnds(how)
      PROVE  IInv' /\ JoinInv'
  <2>1. pc' = [t \in Threads \cup {"driver"} |-> "ended"]
    BY <1>0, <1>5 DEF ProcessEnds, IInv, NumbersInv
  <2> QED BY <1>0, <1>5, <2>1, NewTrialStep DEF ProcessEnds, Surfaces
<1>6. CASE Main
  BY <1>1, <1>3, <1>4, <1>6 DEF Main, Create, Metadata, StartControl, EndControl, Unsupported,
     Repetition, WriteSummary, Skip, Winner, FinishSync, FinishRename, FinishDirectory
<1>7. CASE Trial
  BY <1>2, <1>7 DEF Trial, Contend, TrialAction
<1>8. CASE Fails \/ InControl(ControlNext)
  BY <1>1, <1>8 DEF Fails, InControl
<1>9. CASE Killed \/ Loses
  BY <1>5, <1>9 DEF Killed, Loses
<1> QED BY <1>6, <1>7, <1>8, <1>9 DEF BenchNext

(***************************************************************************)
(* A control's threads follow its flags, and it ends with them joined.     *)
(***************************************************************************)
LEMMA ControlStep ==
  ASSUME control \in Controls, ControlNext,
         control.driver = "ended" => control.worker \in {"ok", "error"}
  PROVE  /\ control' \in Controls
         /\ control'.driver = "ended" => control'.worker \in {"ok", "error"}
BY DEF ControlNext, ControlWorker, ControlDriver, ControlPinned, ControlReady, ControlAwaitGo,
   ControlVictimStops, ControlVictimFails, ControlStarts, ControlDies, ControlTimeout,
   ControlTimeoutStops, ControlGo, ControlDelay, ControlStop, ControlJoin, WorkerFinished, Controls

(***************************************************************************)
(* main starts a half of a pair when the threads of the other have ended.  *)
(***************************************************************************)
LEMMA AloneStep ==
  ASSUME BInv, BenchNext
  PROVE  AloneInv'
<1>0. /\ AloneInv /\ JoinInv
      /\ exit = "running" => main = [main EXCEPT !.pc = main.pc] /\ main.pc \in MainPCs
  BY DEF BInv, MainInv
<1>1. CASE InControl(ControlNext)
  BY <1>0, <1>1, ControlStep DEF InControl, MainAt, AloneInv, vars, bench
<1>2. CASE Trial
  <2>1. MainAt("contender") /\ UNCHANGED <<control, output, disk, bench>>
    BY <1>2 DEF Trial, Contend
  <2> QED BY <1>0, <2>1 DEF MainAt, AloneInv, bench
<1>3. CASE StartControl
  <2>1. control' = [NoControl EXCEPT !.worker = "pin", !.driver = "startup"]
    BY <1>3 DEF StartControl, SpawnControl
  <2>2. control' \in Controls /\ control'.driver = "startup"
    BY <2>1 DEF NoControl, Controls
  <2>3. main'.pc = "control" /\ MainAt("pair") /\ pc' = pc
    BY <1>0, <1>3 DEF StartControl, MainGoto, MainAt, vars
  <2> QED BY <1>0, <2>2, <2>3 DEF AloneInv, MainAt
<1>4. CASE StartContender
  <2>1. main'.pc = "contender" /\ MainAt("pair") /\ control' = control /\ exit' = exit
    BY <1>0, <1>4 DEF StartContender, MainGoto, MainAt
  <2> QED BY <1>0, <2>1 DEF AloneInv, MainAt
<1>5. CASE EndControl
  <2>1. MainAt("control") /\ control.driver = "ended" /\ control' = control /\ pc' = pc
    BY <1>5 DEF EndControl, vars
  <2> QED BY <1>0, <2>1 DEF AloneInv, MainAt
<1>6. CASE EndContender
  <2>1. MainAt("contender") /\ control' = control /\ pc["driver"] = "ended" /\ pc' = pc
    BY <1>6 DEF EndContender, At, vars
  <2>2. CASE TrialOk
    BY <1>0, <2>1, <2>2 DEF AloneInv, JoinInv, TrialOk, MainAt
  <2>3. CASE ~TrialOk
    <3>1. exit' = "error"
      BY <1>6, <2>3 DEF EndContender, Return
    <3> QED BY <1>0, <2>1, <3>1 DEF AloneInv
  <2> QED BY <2>2, <2>3
<1>7. CASE \/ Create \/ Metadata \/ Unsupported \/ Repetition \/ WriteSummary \/ Skip \/ Winner
           \/ FinishSync \/ FinishRename \/ FinishDirectory \/ Fails
  <2>1. pc' = pc /\ control' = control
    BY <1>7 DEF Create, Metadata, Unsupported, Repetition, WriteSummary, Skip, Winner, FinishSync,
       FinishRename, FinishDirectory, Fails, vars
  <2>2. exit = "running" /\ (main.pc \notin {"control", "contender"})
    BY <1>7 DEF Create, Metadata, Unsupported, Repetition, WriteSummary, Skip, Winner, FinishSync,
       FinishRename, FinishDirectory, Fails, MainAt
  <2> QED BY <1>0, <2>1, <2>2 DEF AloneInv
<1>8. CASE Killed \/ Loses
  <2>1. control' = NoControl /\ exit' # "running"
    BY <1>8 DEF Killed, Loses, ProcessEnds
  <2>2. control' \in Controls /\ control'.driver = "idle"
    BY <2>1 DEF NoControl, Controls
  <2> QED BY <2>1, <2>2 DEF AloneInv
<1> QED BY <1>1, <1>2, <1>3, <1>4, <1>5, <1>6, <1>7, <1>8 DEF BenchNext, Main

-----------------------------------------------------------------------------
(* The output.                                                             *)

(***************************************************************************)
(* What a complete report is depends on the plan alone.                    *)
(***************************************************************************)
LEMMA SamePlan ==
  ASSUME plan' = plan, NEW s
  PROVE  Complete(s)' <=> Complete(s)
BY DEF Complete

(***************************************************************************)
(* When main comes to finish, the output holds a complete report.          *)
(***************************************************************************)
LEMMA FinishesComplete ==
  ASSUME MainInv, ReportInv, main.pc \in Finishing
  PROVE  Complete(output.records)
<1>1. CASE plan.preflight_only
  <2> DEFINE s == <<[type |-> "metadata"]>>
  <2>1. output.records = s
    BY <1>1 DEF ReportInv, Finishing
  <2>2. s # <<>> /\ Len(s) = 1 /\ s[1].type = "metadata"
    OBVIOUS
  <2> HIDE DEF s
  <2>3. InOrder(s)
    BY <2>2 DEF InOrder
  <2>4. Complete(s)
    BY <1>1, <2>2, <2>3 DEF Complete
  <2> QED BY <2>1, <2>4
<1>2. CASE ~plan.preflight_only
  <2>1. AtWorkload = 3 /\ AtCase = 1 /\ AtRepetition = 0
    BY DEF AtWorkload, AtCase, AtRepetition, Finishing
  <2>2. Reported(plan, output.records, 3, 1, 0)
    BY <1>2, <2>1 DEF ReportInv, Finishing
  <2> QED BY <1>2, <2>2, ReportedComplete DEF MainInv
<1> QED BY <1>1, <1>2

(***************************************************************************)
(* An error that main returns leaves the path as it is.                    *)
(***************************************************************************)
LEMMA ReturnStep ==
  ASSUME BInv, exit = "running", Return
  PROVE  DiskInv' /\ exit' = "error" /\ plan' = plan
<1>1. exit' = "error" /\ plan' = plan /\ main' = main
  BY DEF Return
<1>2. /\ disk'.parent = disk.parent /\ disk'.final = disk.final
      /\ disk'.survives = disk.survives
      /\ disk' = [parent |-> disk'.parent, final |-> disk'.final, survives |-> disk'.survives,
                  partial |-> disk'.partial]
  <2>0. disk = [parent |-> disk.parent, final |-> disk.final, survives |-> disk.survives,
                partial |-> disk.partial]
    BY DEF BInv, DiskInv
  <2>1. CASE UNCHANGED disk
    BY <2>0, <2>1
  <2>2. ASSUME NEW removed, disk' = [disk EXCEPT !.partial = @ /\ ~removed]
        PROVE  /\ disk'.parent = disk.parent /\ disk'.final = disk.final
               /\ disk'.survives = disk.survives
               /\ disk' = [parent |-> disk'.parent, final |-> disk'.final,
                           survives |-> disk'.survives, partial |-> disk'.partial]
    BY <2>0, <2>2
  <2> QED BY <2>1, <2>2 DEF Return, DropOutput
<1>3. \A x \in disk.survives \cup {disk.final} : x = Previous \/ Complete(x)'
  BY <1>1, SamePlan DEF BInv, DiskInv
<1> QED BY <1>1, <1>2, <1>3 DEF BInv, DiskInv

(***************************************************************************)
(* A step that leaves the disk alone, apart from create and finish.        *)
(***************************************************************************)
LEMMA DiskStutter ==
  ASSUME BInv, exit = "running", UNCHANGED <<disk, plan, exit>>,
         main.pc = main'.pc \/ {main.pc, main'.pc} \cap {"create", "directory"} = {}
  PROVE  DiskInv'
<1>1. \A x \in disk.survives \cup {disk.final} : x = Previous \/ Complete(x)'
  BY SamePlan DEF BInv, DiskInv
<1>2. (main'.pc = "create" <=> main.pc = "create") /\ (main'.pc = "directory" <=> main.pc = "directory")
  OBVIOUS
<1> QED BY <1>1, <1>2 DEF BInv, DiskInv

(***************************************************************************)
(* The path changes in create, rename, the sync of its directory, and a    *)
(* loss of power.                                                          *)
(***************************************************************************)
LEMMA DiskStep ==
  ASSUME BInv, \/ Create \/ FinishRename \/ FinishDirectory \/ Killed \/ Loses
  PROVE  DiskInv'
<1> USE DEF BInv
<1>0. /\ disk = [parent |-> disk.parent, final |-> disk.final, survives |-> disk.survives,
                 partial |-> disk.partial]
      /\ plan' = plan
  BY DEF DiskInv, Create, FinishRename, FinishDirectory, Killed, Loses, MainGoto, ProcessEnds
<1>1. \A x \in disk.survives \cup {disk.final} : x = Previous \/ Complete(x)'
  BY <1>0, SamePlan DEF DiskInv
<1>2. CASE Create
  <2>1. /\ exit = "running" /\ exit' = "running" /\ main.pc = "create" /\ main'.pc = "metadata"
    BY <1>2 DEF Create, MainAt, MainGoto, MainInv
  <2>2. disk' = [disk EXCEPT !.partial = TRUE,
                             !.parent = IF disk.parent = "missing" THEN "durable" ELSE disk.parent]
    BY <1>2 DEF Create, CreateOutput
  <2>3. /\ disk' = [parent |-> disk'.parent, final |-> disk'.final, survives |-> disk'.survives,
                    partial |-> disk'.partial]
        /\ disk'.parent = (IF disk.parent = "missing" THEN "durable" ELSE disk.parent)
        /\ disk'.final = disk.final /\ disk'.survives = disk.survives
    BY <1>0, <2>2
  <2> QED BY <1>1, <2>1, <2>3 DEF DiskInv, Parents
<1>3. CASE FinishRename
  <2>1. /\ exit = "running" /\ exit' = "running" /\ main.pc = "rename" /\ main'.pc = "directory"
        /\ output.state = "synced"
    BY <1>3 DEF FinishRename, MainAt, MainGoto, MainInv, OutputInv
  <2>2. disk' = [disk EXCEPT !.final = output.records, !.partial = FALSE,
                             !.survives = @ \cup {output.records}]
    BY <1>3, <2>1 DEF FinishRename, Rename, Remnants
  <2>3. /\ disk' = [parent |-> disk'.parent, final |-> disk'.final, survives |-> disk'.survives,
                    partial |-> disk'.partial]
        /\ disk'.parent = disk.parent /\ disk'.final = output.records
        /\ disk'.survives = disk.survives \cup {output.records}
    BY <1>0, <2>2
  <2>4. Complete(output.records)
    BY <2>1, FinishesComplete DEF Finishing
  <2>5. \A x \in disk'.survives \cup {disk'.final} : x = Previous \/ Complete(x)'
    BY <1>0, <1>1, <2>3, <2>4, SamePlan
  <2> QED BY <2>1, <2>3, <2>5 DEF DiskInv
<1>4. CASE FinishDirectory
  <2>1. /\ exit = "running" /\ exit' = "ok" /\ main.pc = "directory"
    BY <1>4 DEF FinishDirectory, MainAt
  <2>2. disk' = [disk EXCEPT !.survives = IF disk.parent = "durable" THEN @ \ {Previous} ELSE @]
    BY <1>4 DEF FinishDirectory, SyncDirectory
  <2>3. /\ disk' = [parent |-> disk'.parent, final |-> disk'.final, survives |-> disk'.survives,
                    partial |-> disk'.partial]
        /\ disk'.parent = disk.parent /\ disk'.final = disk.final
        /\ disk'.survives = IF disk.parent = "durable" THEN disk.survives \ {Previous}
                            ELSE disk.survives
    BY <1>0, <2>2
  <2>4. \A x \in disk'.survives \cup {disk'.final} : x = Previous \/ Complete(x)'
    BY <1>1, <2>3
  <2> QED BY <2>1, <2>3, <2>4 DEF DiskInv
<1>5. CASE Killed
  <2>1. exit' = "killed" /\ disk' = disk
    BY <1>5 DEF Killed, ProcessEnds
  <2> QED BY <1>1, <2>1 DEF DiskInv
<1>6. CASE Loses
  <2>1. PICK left \in disk.survives : disk' = [disk EXCEPT !.final = left]
    BY <1>6 DEF Loses, PowerLoss
  <2>2. /\ disk' = [parent |-> disk'.parent, final |-> disk'.final, survives |-> disk'.survives,
                    partial |-> disk'.partial]
        /\ disk'.parent = disk.parent /\ disk'.final = left /\ disk'.survives = disk.survives
    BY <1>0, <2>1
  <2>3. exit' = "lost"
    BY <1>6 DEF Loses, ProcessEnds
  <2> QED BY <1>1, <2>1, <2>2, <2>3 DEF DiskInv
<1> QED BY <1>2, <1>3, <1>4, <1>5, <1>6

-----------------------------------------------------------------------------
(* The report.                                                             *)

\* What the run has come to, as long as it is running.
RunInv == MainInv /\ ReportInv /\ OutputInv

(***************************************************************************)
(* The fields of main.                                                     *)
(***************************************************************************)
LEMMA MainFields ==
  ASSUME MainInv
  PROVE  /\ main.pc \in MainPCs /\ main.workload \in {1, 2} /\ main.case \in DOMAIN plan.cases
         /\ main.case \in Nat \ {0} /\ main.case <= Len(plan.cases)
         /\ main.repetition \in Nat /\ main.repetition <= Repetitions - 1
         /\ main.control \in BOOLEAN /\ main.samples \in 0..(MaxSamples - 1)
         /\ Repetitions \in Nat \ {0} /\ MaxSamples \in Nat \ {0}
         /\ Len(plan.cases) \in Nat \ {0} /\ DOMAIN plan.cases = 1..Len(plan.cases)
<1>1. /\ Len(plan.cases) \in Nat \ {0} /\ DOMAIN plan.cases = 1..Len(plan.cases)
      /\ Repetitions \in Nat \ {0} /\ MaxSamples \in Nat \ {0}
  BY PlanFields, BenchAssumption, BenchTrialAssumption DEF MainInv
<1>2. /\ main.pc \in MainPCs /\ main.workload \in {1, 2} /\ main.case \in DOMAIN plan.cases
      /\ main.repetition \in 0..(Repetitions - 1)
      /\ main.control \in BOOLEAN /\ main.samples \in 0..(MaxSamples - 1)
  BY DEF MainInv, Workloads
<1> QED BY <1>1, <1>2

(***************************************************************************)
(* A step that only moves main between two points with the same position.  *)
(***************************************************************************)
LEMMA SamePlace ==
  ASSUME RunInv, MainInv', UNCHANGED <<output, plan>>,
         \/ main.pc \in {"pair", "control", "contender", "record", "skip"}
            /\ main'.pc \in {"pair", "control", "contender", "record", "skip"}
         \/ main'.pc = main.pc,
         main'.workload = main.workload, main'.case = main.case,
         main'.repetition = main.repetition
  PROVE  RunInv'
<1>1. /\ AtWorkload' = AtWorkload /\ AtCase' = AtCase /\ AtRepetition' = AtRepetition
  BY DEF AtWorkload, AtCase, AtRepetition, Finishing
<1>2. main'.pc \in {"create", "metadata"} <=> main.pc \in {"create", "metadata"}
  OBVIOUS
<1>3. ReportInv'
  BY <1>1, <1>2 DEF RunInv, ReportInv
<1>4. OutputInv'
  BY DEF RunInv, OutputInv
<1> QED BY <1>3, <1>4 DEF RunInv

(***************************************************************************)
(* The steps of a pair keep main's place in the report.                    *)
(***************************************************************************)
LEMMA PairStep ==
  ASSUME BInv, exit' = "running",
         \/ StartControl \/ EndControl \/ StartContender \/ Unsupported \/ EndContender
         \/ Trial \/ InControl(ControlNext)
  PROVE  RunInv' /\ DiskInv'
<1>0. exit = "running" /\ RunInv
  BY DEF BInv, RunInv, StartControl, EndControl, StartContender, Unsupported, EndContender,
     Trial, Contend, InControl, MainAt
<1>1. UNCHANGED <<output, disk, plan, exit>>
  BY <1>0 DEF StartControl, EndControl, StartContender, Unsupported, EndContender, Trial, Contend,
     InControl, MainGoto, Return, bench
<1>2. main' = main \/ /\ main.pc \in {"pair", "control", "contender"}
                      /\ main'.pc \in {"pair", "control", "contender", "record", "skip"}
                      /\ main'.workload = main.workload /\ main'.case = main.case
                      /\ main'.repetition = main.repetition
  BY <1>0, <1>1 DEF RunInv, MainInv, StartControl, EndControl, StartContender, Unsupported,
     EndContender, Trial, Contend, InControl, MainGoto, Return, bench, MainAt
<1>3. MainInv'
  <2>f. main.samples \in Nat /\ MaxSamples \in Nat /\ main.repetition \in Nat
    BY <1>0, MainFields DEF RunInv
  <2> USE DEF MainInv, MainPCs
  <2>1. CASE main' = main
    BY <1>0, <1>1, <2>1 DEF RunInv
  <2>2. CASE StartControl
    BY <1>0, <1>1, <2>2 DEF RunInv, StartControl, MainGoto, MainAt, Finishing
  <2>3. CASE StartContender
    BY <1>0, <1>1, <2>3 DEF RunInv, StartContender, MainGoto, MainAt, Finishing
  <2>4. CASE Unsupported
    <3>1. ~plan.official /\ main' = [main EXCEPT !.pc = "skip"] /\ main.pc = "pair"
      BY <1>0, <1>1, <2>4 DEF Unsupported, Return, MainGoto, MainAt
    <3>2. main.case \notin plan.supported /\ main.repetition = 0
      BY <1>0, <2>4, <2>f DEF Unsupported, RunInv
    <3> QED BY <1>0, <1>1, <3>1, <3>2 DEF RunInv, Finishing
  <2>5. CASE EndControl
    <3>1. /\ main' = [main EXCEPT !.control = TRUE,
                                  !.pc = IF main.samples > 0 THEN "record" ELSE "pair"]
          /\ main.pc = "control"
      BY <1>0, <1>1, <2>5 DEF EndControl, Return, MainAt
    <3>2. CASE main.samples > 0
      BY <1>0, <1>1, <2>f, <3>1, <3>2 DEF RunInv, Finishing
    <3>3. CASE ~(main.samples > 0)
      BY <1>0, <1>1, <2>f, <3>1, <3>3 DEF RunInv, Finishing
    <3> QED BY <3>2, <3>3
  <2>6. CASE EndContender
    <3>1. /\ main' = [main EXCEPT !.samples = samples,
                                  !.pc = IF main.control THEN "record" ELSE "pair"]
          /\ main.pc = "contender" /\ samples \in 1..(MaxSamples - 1)
      BY <1>0, <1>1, <2>6 DEF EndContender, Return, MainAt, TrialOk
    <3>2. main.case \in plan.supported /\ samples \in 0..(MaxSamples - 1) /\ samples > 0
      BY <1>0, <2>f, <3>1 DEF RunInv
    <3>3. CASE main.control
      BY <1>0, <1>1, <3>1, <3>2, <3>3 DEF RunInv, Finishing
    <3>4. CASE ~main.control
      BY <1>0, <1>1, <3>1, <3>2, <3>4 DEF RunInv, Finishing
    <3> QED BY <3>3, <3>4
  <2>7. CASE Trial \/ InControl(ControlNext)
    BY <2>1, <2>7 DEF Trial, Contend, InControl, bench
  <2> QED BY <2>2, <2>3, <2>4, <2>5, <2>6, <2>7
<1>4. RunInv'
  BY <1>0, <1>1, <1>2, <1>3, SamePlace
<1>5. DiskInv'
  BY <1>0, <1>1, <1>2, DiskStutter
<1> QED BY <1>4, <1>5

(***************************************************************************)
(* A write appends its record and leaves the output open.                  *)
(***************************************************************************)
LEMMA WriteFields ==
  ASSUME OutputInv, NEW x, Write(x)
  PROVE  /\ output' = [state |-> output'.state, records |-> output'.records]
         /\ output'.state = "open" /\ output'.records = Append(output.records, x)
         /\ disk' = disk
BY DEF OutputInv, Write

(***************************************************************************)
(* What main writes of its position is a line of the report.               *)
(***************************************************************************)
LEMMA RecordFields ==
  ASSUME MainInv, NEW type \in Types
  PROVE  /\ Record(type) \in Lines
         /\ Record(type).type = type /\ Record(type).workload = main.workload
         /\ Record(type).case = main.case /\ Record(type).repetition = main.repetition
         /\ Record(type).samples = main.samples
<1>1. /\ main.workload \in Nat /\ main.case \in Nat /\ main.repetition \in Nat
      /\ main.samples \in Nat
  BY MainFields
<1> QED BY <1>1 DEF Record, Lines, Types

(***************************************************************************)
(* The position behind a write is that of the longer report.               *)
(***************************************************************************)
LEMMA WriteStep ==
  ASSUME RunInv, MainInv', NEW type \in Types, Write(Record(type)), UNCHANGED plan,
         ~plan.preflight_only,
         main'.pc \in {"pair", "summary", "winner", "sync"},
         Reported(plan, Append(output.records, Record(type)), AtWorkload', AtCase', AtRepetition')
  PROVE  RunInv'
<1>1. /\ output' = [state |-> output'.state, records |-> output'.records]
      /\ output'.state = "open" /\ output'.records = Append(output.records, Record(type))
  BY WriteFields DEF RunInv
<1>2. ReportInv'
  BY <1>1 DEF ReportInv
<1>3. OutputInv'
  BY <1>1 DEF OutputInv
<1> QED BY <1>2, <1>3 DEF RunInv

(***************************************************************************)
(* Repetition.                                                             *)
(***************************************************************************)
LEMMA RepetitionStep ==
  ASSUME BInv, Repetition
  PROVE  RunInv' /\ DiskInv'
<1> DEFINE w == main.workload
           c == main.case
           r == main.repetition
           x == Record("repetition")
<1>0. exit = "running" /\ RunInv /\ main.pc = "record" /\ UNCHANGED <<plan, exit>>
  BY DEF BInv, RunInv, Repetition, MainAt
<1>1. /\ c \in plan.supported /\ main.samples \in 1..(MaxSamples - 1)
      /\ ~plan.preflight_only /\ plan \in Plans
  <2>1. main.samples > 0 /\ main.samples \in 0..(MaxSamples - 1) /\ MaxSamples \in Nat
    BY <1>0, MainFields DEF RunInv, MainInv
  <2> QED BY <1>0, <2>1 DEF RunInv, MainInv, Finishing
<1>2. /\ main.pc \in MainPCs /\ w \in Workloads /\ w \in Nat /\ c \in Nat \ {0} /\ r \in Nat
      /\ r <= Repetitions - 1
      /\ Repetitions \in Nat \ {0} /\ r \in 0..(Repetitions - 1)
  BY <1>0, MainFields DEF RunInv, Workloads
<1>3. /\ x \in Lines /\ x.type = "repetition" /\ x.workload = w /\ x.case = c
      /\ x.repetition = r /\ x.samples \in 1..(MaxSamples - 1)
  BY <1>0, <1>1, RecordFields DEF RunInv, Types
<1>4. Reported(plan, output.records, w, c, r)
  <2>1. AtWorkload = w /\ AtCase = c /\ AtRepetition = r
    BY <1>0 DEF AtWorkload, AtCase, AtRepetition, Finishing
  <2> QED BY <1>0, <1>1, <2>1 DEF RunInv, ReportInv
<1>w. Write(x)
  BY DEF Repetition
<1>m. main' = IF r + 1 < Repetitions
              THEN [main EXCEPT !.pc = "pair", !.repetition = r + 1, !.control = FALSE, !.samples = 0]
              ELSE [main EXCEPT !.pc = "summary"]
  BY DEF Repetition
<1> HIDE DEF x
<1>5. Reported(plan, Append(output.records, x), w, c, r + 1)
  <2> HIDE DEF w, c, r
  <2>1. Adds(plan, x, w, c, r, w, c, r + 1)
    BY <1>1, <1>2, <1>3, DueRepetition
  <2> QED BY <1>2, <1>4, <2>1, AppendReport
<1>6. CASE r + 1 < Repetitions
  <2>1. main' = [main EXCEPT !.pc = "pair", !.repetition = r + 1, !.control = FALSE, !.samples = 0]
    BY <1>6, <1>m
  <2>2. MainInv'
    <3>1. r + 1 \in 0..(Repetitions - 1) /\ 0 \in 0..(MaxSamples - 1)
      BY <1>0, <1>2, <1>6, MainFields DEF RunInv
    <3> HIDE DEF r
    <3> QED BY <1>0, <1>1, <2>1, <3>1 DEF RunInv, MainInv, MainPCs, Finishing
  <2>3. /\ main'.pc = "pair" /\ main'.workload = w /\ main'.case = c /\ main'.repetition = r + 1
    BY <1>0, <2>1 DEF RunInv, MainInv
  <2>4. AtWorkload' = w /\ AtCase' = c /\ AtRepetition' = r + 1
    BY <2>3 DEF AtWorkload, AtCase, AtRepetition, Finishing
  <2>5. RunInv'
    BY <1>0, <1>1, <1>5, <1>w, <2>2, <2>3, <2>4, WriteStep DEF Types, x
  <2> QED BY <1>0, <1>w, <2>3, <2>5, WriteFields, DiskStutter DEF RunInv
<1>7. CASE ~(r + 1 < Repetitions)
  <2>1. main' = [main EXCEPT !.pc = "summary"] /\ r + 1 = Repetitions
    BY <1>2, <1>7, <1>m
  <2>2. MainInv'
    BY <1>0, <1>1, <2>1 DEF RunInv, MainInv, MainPCs, Finishing
  <2>3. /\ main'.pc = "summary" /\ main'.workload = w /\ main'.case = c
    BY <1>0, <2>1 DEF RunInv, MainInv
  <2>4. AtWorkload' = w /\ AtCase' = c /\ AtRepetition' = r + 1
    BY <2>1, <2>3 DEF AtWorkload, AtCase, AtRepetition, Finishing
  <2>5. RunInv'
    BY <1>0, <1>1, <1>5, <1>w, <2>2, <2>3, <2>4, WriteStep DEF Types, x
  <2> QED BY <1>0, <1>w, <2>3, <2>5, WriteFields, DiskStutter DEF RunInv
<1> QED BY <1>6, <1>7

(***************************************************************************)
(* WriteSummary and Skip: the record ends its case.                        *)
(***************************************************************************)
LEMMA CaseStep ==
  ASSUME BInv, WriteSummary \/ Skip
  PROVE  RunInv' /\ DiskInv'
<1> DEFINE w == main.workload
           c == main.case
           type == IF main.pc = "summary" THEN "summary" ELSE "skip"
           R == IF main.pc = "summary" THEN Repetitions ELSE 0
           x == Record(type)
<1>0. /\ exit = "running" /\ RunInv /\ main.pc \in {"summary", "skip"} /\ UNCHANGED <<plan, exit>>
      /\ Write(x) /\ main' = NextCase
  BY DEF BInv, RunInv, WriteSummary, Skip, MainAt
<1>1. /\ main.pc = "summary" => c \in plan.supported
      /\ main.pc = "skip" => c \notin plan.supported /\ ~plan.official /\ main.repetition = 0
      /\ ~plan.preflight_only /\ plan \in Plans
  BY <1>0 DEF RunInv, MainInv, Finishing
<1>2. /\ w \in Workloads /\ w \in Nat /\ c \in Nat \ {0} /\ c <= Len(plan.cases)
      /\ c \in DOMAIN plan.cases
      /\ DOMAIN plan.cases = 1..Len(plan.cases) /\ Len(plan.cases) \in Nat \ {0}
      /\ Repetitions \in Nat \ {0} /\ MaxSamples \in Nat \ {0}
  BY <1>0, MainFields DEF RunInv, Workloads
<1>3. /\ x \in Lines /\ x.type = type /\ x.workload = w /\ x.case = c /\ type \in Types
  BY <1>0, RecordFields DEF RunInv, Types
<1>4. Reported(plan, output.records, w, c, R)
  <2>1. AtWorkload = w /\ AtCase = c /\ AtRepetition = R
    BY <1>0, <1>1 DEF AtWorkload, AtCase, AtRepetition, Finishing
  <2> QED BY <1>0, <1>1, <2>1 DEF RunInv, ReportInv
<1>5. \/ type = "summary" /\ c \in plan.supported /\ R = Repetitions
      \/ type = "skip" /\ c \notin plan.supported /\ R = 0 /\ ~plan.official
  BY <1>0, <1>1
<1> HIDE DEF x, type, R
<1>6. Reported(plan, Append(output.records, x), w, c + 1, 0)
  <2> HIDE DEF w, c
  <2>1. plan \in Plans /\ R \in {0, Repetitions}
    BY <1>1, <1>5
  <2>2. Adds(plan, x, w, c, R, w, c + 1, 0)
    BY <1>2, <1>3, <1>5, <2>1, DueCase
  <2> QED BY <1>2, <1>4, <2>2, AppendReport
<1>7. CASE c < Len(plan.cases)
  <2>1. main' = [pc |-> "pair", workload |-> w, case |-> c + 1, repetition |-> 0,
                 control |-> FALSE, samples |-> 0]
    BY <1>0, <1>7 DEF NextCase, Start
  <2>2. c + 1 \in DOMAIN plan.cases /\ 0 \in 0..(Repetitions - 1) /\ 0 \in 0..(MaxSamples - 1)
    BY <1>2, <1>7
  <2>3. MainInv'
    <3> HIDE DEF w, c
    <3>1. plan' = plan /\ plan \in Plans /\ ~plan.preflight_only /\ w \in Workloads
      BY <1>0, <1>1, <1>2
    <3> QED BY <2>1, <2>2, <3>1 DEF MainInv, MainPCs, Finishing
  <2>4. AtWorkload' = w /\ AtCase' = c + 1 /\ AtRepetition' = 0 /\ main'.pc = "pair"
    BY <2>1 DEF AtWorkload, AtCase, AtRepetition, Finishing
  <2>5. RunInv'
    BY <1>0, <1>1, <1>3, <1>6, <2>3, <2>4, WriteStep DEF x
  <2> QED BY <1>0, <2>4, <2>5, WriteFields, DiskStutter DEF RunInv
<1>8. CASE ~(c < Len(plan.cases))
  <2>1. main' = [main EXCEPT !.pc = "winner"] /\ c = Len(plan.cases)
    BY <1>0, <1>2, <1>8 DEF NextCase
  <2>2. MainInv'
    BY <1>0, <1>1, <2>1 DEF RunInv, MainInv, MainPCs, Finishing
  <2>3. main'.pc = "winner" /\ main'.workload = w
    BY <1>0, <2>1 DEF RunInv, MainInv
  <2>4. AtWorkload' = w /\ AtCase' = c + 1 /\ AtRepetition' = 0
    BY <1>0, <2>1, <2>3 DEF AtWorkload, AtCase, AtRepetition, Finishing
  <2>5. RunInv'
    BY <1>0, <1>1, <1>3, <1>6, <2>2, <2>3, <2>4, WriteStep DEF x
  <2> QED BY <1>0, <2>3, <2>5, WriteFields, DiskStutter DEF RunInv
<1> QED BY <1>7, <1>8

(***************************************************************************)
(* Winner: the record ends its workload.                                   *)
(***************************************************************************)
LEMMA WinnerStep ==
  ASSUME BInv, Winner
  PROVE  RunInv' /\ DiskInv'
<1> DEFINE w == main.workload
           C == Len(plan.cases) + 1
           x == Record("winner")
<1>0. /\ exit = "running" /\ RunInv /\ main.pc = "winner" /\ UNCHANGED <<plan, exit>>
      /\ Write(x)
      /\ main' = IF w = 1 THEN [Start EXCEPT !.pc = "pair", !.workload = 2]
                 ELSE [main EXCEPT !.pc = "sync"]
  BY DEF BInv, RunInv, Winner, MainAt
<1>1. ~plan.preflight_only /\ plan \in Plans
  BY <1>0 DEF RunInv, MainInv, Finishing
<1>2. /\ w \in Workloads /\ w \in Nat /\ w \in {1, 2}
      /\ DOMAIN plan.cases = 1..Len(plan.cases) /\ Len(plan.cases) \in Nat \ {0}
      /\ Repetitions \in Nat \ {0} /\ MaxSamples \in Nat \ {0}
  BY <1>0, MainFields DEF RunInv, Workloads
<1>3. /\ x \in Lines /\ x.type = "winner" /\ x.workload = w /\ "winner" \in Types
  BY <1>0, RecordFields DEF RunInv, Types
<1>4. Reported(plan, output.records, w, C, 0)
  <2>1. AtWorkload = w /\ AtCase = C /\ AtRepetition = 0
    BY <1>0 DEF AtWorkload, AtCase, AtRepetition, Finishing
  <2> QED BY <1>0, <1>1, <2>1 DEF RunInv, ReportInv
<1> HIDE DEF x
<1>5. Reported(plan, Append(output.records, x), w + 1, 1, 0)
  <2>1. Adds(plan, x, w, C, 0, w + 1, 1, 0)
    <3> HIDE DEF w
    <3> QED BY <1>1, <1>2, <1>3, DueWinner
  <2> HIDE DEF w, C
  <2> QED BY <1>2, <1>4, <2>1, AppendReport
<1>6. CASE w = 1
  <2>1. main' = [pc |-> "pair", workload |-> 2, case |-> 1, repetition |-> 0,
                 control |-> FALSE, samples |-> 0]
    BY <1>0, <1>6 DEF Start
  <2>2. /\ 1 \in DOMAIN plan.cases /\ 0 \in 0..(Repetitions - 1) /\ 0 \in 0..(MaxSamples - 1)
        /\ 2 \in Workloads /\ plan' = plan
    BY <1>0, <1>2 DEF Workloads
  <2>3. MainInv'
    BY <1>1, <2>1, <2>2 DEF MainInv, MainPCs, Finishing
  <2>4. AtWorkload' = w + 1 /\ AtCase' = 1 /\ AtRepetition' = 0 /\ main'.pc = "pair"
    BY <1>6, <2>1 DEF AtWorkload, AtCase, AtRepetition, Finishing
  <2>5. RunInv'
    BY <1>0, <1>1, <1>3, <1>5, <2>3, <2>4, WriteStep DEF x
  <2> QED BY <1>0, <2>4, <2>5, WriteFields, DiskStutter DEF RunInv
<1>7. CASE w # 1
  <2>1. main' = [main EXCEPT !.pc = "sync"] /\ w = 2
    BY <1>0, <1>2, <1>7
  <2>2. MainInv'
    BY <1>0, <1>1, <2>1 DEF RunInv, MainInv, MainPCs, Finishing
  <2>3. main'.pc = "sync"
    BY <1>0, <2>1 DEF RunInv, MainInv
  <2>4. AtWorkload' = w + 1 /\ AtCase' = 1 /\ AtRepetition' = 0
    BY <2>1, <2>3 DEF AtWorkload, AtCase, AtRepetition, Finishing
  <2>5. RunInv'
    BY <1>0, <1>1, <1>3, <1>5, <2>2, <2>3, <2>4, WriteStep DEF x
  <2> QED BY <1>0, <2>3, <2>5, WriteFields, DiskStutter DEF RunInv
<1> QED BY <1>6, <1>7

(***************************************************************************)
(* Create and Metadata: an empty report, then one with its first record.   *)
(***************************************************************************)
LEMMA HeadStep ==
  ASSUME BInv, Create \/ Metadata
  PROVE  RunInv' /\ DiskInv'
<1>0. exit = "running" /\ RunInv /\ UNCHANGED <<plan, exit>>
  BY DEF BInv, RunInv, Create, Metadata, MainAt, MainGoto
<1>1. CASE Create
  <2>1. main.pc = "create" /\ main' = [main EXCEPT !.pc = "metadata"]
    BY <1>1 DEF Create, MainAt, MainGoto
  <2>2. MainInv'
    BY <1>0, <2>1 DEF RunInv, MainInv, MainPCs, Finishing
  <2>3. main'.pc = "metadata"
    BY <1>0, <2>1 DEF RunInv, MainInv
  <2>4. output' = [state |-> "open", records |-> <<>>]
    <3>1. output = [state |-> output.state, records |-> output.records] /\ output.records = <<>>
      BY <1>0, <2>1 DEF RunInv, OutputInv, ReportInv
    <3>2. output' = [output EXCEPT !.state = "open"]
      BY <1>1 DEF Create, CreateOutput
    <3> QED BY <3>1, <3>2
  <2>5. ReportInv' /\ OutputInv'
    BY <2>3, <2>4 DEF ReportInv, OutputInv
  <2> QED BY <1>1, <2>2, <2>5, DiskStep DEF RunInv
<1>2. CASE Metadata
  <2>1. /\ main.pc = "metadata" /\ Write([type |-> "metadata"])
        /\ main' = [main EXCEPT !.pc = IF plan.preflight_only THEN "sync" ELSE "pair"]
    BY <1>2 DEF Metadata, MainAt, MainGoto
  <2>2. MainInv'
    <3>1. CASE plan.preflight_only
      BY <1>0, <2>1, <3>1 DEF RunInv, MainInv, MainPCs, Finishing
    <3>2. CASE ~plan.preflight_only
      BY <1>0, <2>1, <3>2 DEF RunInv, MainInv, MainPCs, Finishing
    <3> QED BY <3>1, <3>2
  <2>3. /\ main'.pc = (IF plan.preflight_only THEN "sync" ELSE "pair")
        /\ main'.workload = 1 /\ main'.case = 1 /\ main'.repetition = 0
    BY <1>0, <2>1 DEF RunInv, MainInv
  <2>4. /\ output' = [state |-> output'.state, records |-> output'.records]
        /\ output'.state = "open" /\ output'.records = <<[type |-> "metadata"]>>
        /\ disk' = disk
    <3>1. output.records = <<>>
      BY <1>0, <2>1 DEF RunInv, ReportInv
    <3>2. Append(<<>>, [type |-> "metadata"]) = <<[type |-> "metadata"]>>
      OBVIOUS
    <3> QED BY <1>0, <2>1, <3>1, <3>2, WriteFields DEF RunInv
  <2>5. ReportInv'
    <3>1. CASE plan.preflight_only
      BY <1>0, <2>3, <2>4, <3>1 DEF ReportInv
    <3>2. CASE ~plan.preflight_only
      <4>1. AtWorkload' = 1 /\ AtCase' = 1 /\ AtRepetition' = 0
        BY <2>3, <3>2 DEF AtWorkload, AtCase, AtRepetition, Finishing
      <4>2. Reported(plan, output'.records, 1, 1, 0)
        BY <1>0, <2>4, MetadataReported DEF RunInv, MainInv
      <4> QED BY <1>0, <2>3, <3>2, <4>1, <4>2 DEF ReportInv
    <3> QED BY <3>1, <3>2
  <2>6. OutputInv'
    BY <2>3, <2>4 DEF OutputInv
  <2>7. DiskInv'
    BY <1>0, <2>1, <2>3, <2>4, DiskStutter
  <2> QED BY <2>2, <2>5, <2>6, <2>7 DEF RunInv
<1> QED BY <1>1, <1>2

(***************************************************************************)
(* FinishSync and FinishRename keep the report that is complete.           *)
(***************************************************************************)
LEMMA FinishStep ==
  ASSUME BInv, FinishSync \/ FinishRename
  PROVE  RunInv' /\ DiskInv'
<1> DEFINE next == IF main.pc = "sync" THEN "rename" ELSE "directory"
           state == IF main.pc = "sync" THEN "synced" ELSE "published"
<1>0. /\ exit = "running" /\ RunInv /\ UNCHANGED <<plan, exit>> /\ main.pc \in {"sync", "rename"}
      /\ main' = [main EXCEPT !.pc = next] /\ output' = [output EXCEPT !.state = state]
  BY DEF BInv, RunInv, FinishSync, FinishRename, SyncAll, Rename, MainAt, MainGoto
<1>1. next \in {"rename", "directory"}
  BY <1>0
<1>2. MainInv'
  <2> HIDE DEF next
  <2> QED BY <1>0, <1>1 DEF RunInv, MainInv, MainPCs, Finishing
<1>3. main'.pc = next
  BY <1>0 DEF RunInv, MainInv
<1>4. output' = [state |-> state, records |-> output.records]
  BY <1>0 DEF RunInv, OutputInv
<1>5. OutputInv'
  <2>1. CASE main.pc = "sync"
    BY <1>3, <1>4, <2>1 DEF OutputInv
  <2>2. CASE main.pc = "rename"
    BY <1>3, <1>4, <2>2 DEF OutputInv
  <2> QED BY <1>0, <2>1, <2>2
<1>6. ReportInv'
  <2>1. AtWorkload' = AtWorkload /\ AtCase' = AtCase /\ AtRepetition' = AtRepetition
    BY <1>0, <1>3 DEF AtWorkload, AtCase, AtRepetition, Finishing
  <2>2. output'.records = output.records
    BY <1>4
  <2>3. main.pc \notin {"create", "metadata"} /\ main'.pc \notin {"create", "metadata"}
    BY <1>0, <1>1, <1>3
  <2> HIDE DEF next, state
  <2> QED BY <1>0, <2>1, <2>2, <2>3 DEF RunInv, ReportInv
<1>7. DiskInv'
  <2>1. CASE FinishRename
    BY <2>1, DiskStep
  <2>2. CASE FinishSync
    <3>1. main.pc = "sync" /\ main'.pc = "rename" /\ disk' = disk
      BY <1>3, <2>2 DEF FinishSync, MainAt, SyncAll
    <3> QED BY <1>0, <3>1, DiskStutter
  <2> QED BY <2>1, <2>2
<1> QED BY <1>2, <1>5, <1>6, <1>7 DEF RunInv

-----------------------------------------------------------------------------
(***************************************************************************)
(* The invariant holds of a benchmark that begins.                         *)
(***************************************************************************)
LEMMA BenchInitInv ==
  ASSUME BenchInit
  PROVE  BInv
<1>1. pc \in [Threads \cup {"driver"} -> PCs] /\ \A t \in Threads \cup {"driver"} : pc[t] = "ended"
  BY DEF BenchInit, PCs
<1>2. NumbersInv
  BY <1>1, BenchTrialAssumption DEF BenchInit, NumbersInv
<1>3. FlagsInv
  BY DEF BenchInit, FlagsInv, Surfaces
<1>4. ShapeInv /\ StopInv /\ BarrierInv
  BY <1>1 DEF BenchInit, ShapeInv, StopInv, BarrierInv, Threads, Waiting
<1>5. CountInv
  <2> DEFINE c == [t \in Threads |-> 0]
  <2>1. c \in [Threads -> {0, 1}] /\ \A t \in Threads : c[t] = 0
    OBVIOUS
  <2> HIDE DEF c
  <2>2. ready = c["waiter"] + c["producer"] + c["victim"] /\ ~failed
    BY <2>1 DEF BenchInit, Threads
  <2> QED BY <2>1, <2>2 DEF CountInv
<1>6. HandshakeInv /\ RecordInv
  BY <1>1 DEF BenchInit, HandshakeInv, RecordInv, Threads
<1>7. JoinInv /\ AloneInv
  BY <1>1 DEF BenchInit, JoinInv, AloneInv, NoControl, Controls
<1>8. MainInv
  <2>1. /\ 1 \in DOMAIN plan.cases /\ 0 \in 0..(Repetitions - 1) /\ 0 \in 0..(MaxSamples - 1)
        /\ 1 \in Workloads /\ plan \in Plans
    <3>1. plan \in Plans /\ Len(plan.cases) \in Nat \ {0} /\ DOMAIN plan.cases = 1..Len(plan.cases)
      BY PlanFields DEF BenchInit
    <3> QED BY <3>1, BenchAssumption, BenchTrialAssumption DEF Workloads
  <2> QED BY <2>1 DEF BenchInit, Start, MainInv, MainPCs
<1>9. ReportInv /\ OutputInv
  BY DEF BenchInit, Start, NoOutput, ReportInv, OutputInv
<1>10. DiskInv
  BY DEF BenchInit, Start, NewDisk, DiskInv
<1> QED BY <1>2, <1>3, <1>4, <1>5, <1>6, <1>7, <1>8, <1>9, <1>10
        DEF BInv, IInv, BenchInit, Exits

(***************************************************************************)
(* Every step of the benchmark keeps the invariant: main's, its threads',  *)
(* a failure, the end of the process and a loss of power.                  *)
(***************************************************************************)
LEMMA BenchStep ==
  ASSUME BInv, BenchNext
  PROVE  BInv'
<1>1. IInv' /\ JoinInv' /\ AloneInv'
  BY BenchTrialStep, AloneStep
<1>2. plan' = plan /\ plan \in Plans
  BY DEF BInv, BenchNext, Main, Create, Metadata, StartControl, EndControl, StartContender,
     Unsupported, EndContender, Repetition, WriteSummary, Skip, Winner, FinishSync, FinishRename,
     FinishDirectory, Fails, Trial, Contend, InControl, Killed, Loses, ProcessEnds, MainGoto,
     Return, bench
<1> DEFINE Kept == DiskInv' /\ exit' \in Exits /\ (exit' = "running" => RunInv')
<1>3. ASSUME exit = "running", Return
      PROVE  Kept
  BY <1>3, ReturnStep DEF Exits
<1>4. Kept
  <2>1. CASE \/ StartControl \/ EndControl \/ StartContender \/ Unsupported \/ EndContender
             \/ Trial \/ InControl(ControlNext)
    <3>1. exit = "running" /\ (exit' = "running" \/ Return)
      BY <2>1 DEF StartControl, EndControl, StartContender, Unsupported, EndContender, Trial,
         Contend, InControl, MainGoto, MainAt, bench
    <3>2. CASE exit' = "running"
      BY <2>1, <3>2, PairStep DEF Exits
    <3> QED BY <1>3, <3>1, <3>2
  <2>2. CASE Repetition \/ WriteSummary \/ Skip \/ Winner \/ Create \/ Metadata
             \/ FinishSync \/ FinishRename
    <3>1. exit' = "running"
      BY <2>2 DEF Repetition, WriteSummary, Skip, Winner, Create, Metadata, FinishSync,
         FinishRename, MainGoto, MainAt
    <3> QED BY <2>2, <3>1, RepetitionStep, CaseStep, WinnerStep, HeadStep, FinishStep DEF Exits
  <2>3. CASE FinishDirectory \/ Killed \/ Loses
    <3>1. exit' \in {"ok", "killed", "lost"}
      BY <2>3 DEF FinishDirectory, Killed, Loses, ProcessEnds
    <3> QED BY <2>3, <3>1, DiskStep DEF Exits
  <2>4. CASE Fails
    BY <1>3, <2>4 DEF Fails, MainAt
  <2> QED BY <2>1, <2>2, <2>3, <2>4 DEF BenchNext, Main
<1> QED BY <1>1, <1>2, <1>4 DEF BInv, RunInv

(***************************************************************************)
(* And so does one that changes nothing.                                   *)
(***************************************************************************)
LEMMA BenchStutter ==
  ASSUME BInv, UNCHANGED allvars
  PROVE  BInv'
<1>0. UNCHANGED <<vars, control, output, disk, plan, main, exit>>
  BY DEF allvars, bench
<1>1. IInv' /\ JoinInv' /\ AloneInv'
  BY <1>0, TrialStutter DEF BInv, JoinInv, AloneInv, vars, shared
<1>2. DiskInv'
  <2>1. \A x \in disk.survives \cup {disk.final} : x = Previous \/ Complete(x)'
    BY <1>0, SamePlan DEF BInv, DiskInv
  <2> QED BY <1>0, <2>1 DEF BInv, DiskInv
<1>3. exit = "running" => MainInv' /\ ReportInv' /\ OutputInv'
  BY <1>0 DEF BInv, MainInv, ReportInv, OutputInv, AtWorkload, AtCase, AtRepetition
<1> QED BY <1>0, <1>1, <1>2, <1>3 DEF BInv

(***************************************************************************)
(* The invariant of the benchmark.                                         *)
(***************************************************************************)
THEOREM BenchInvariance == BenchSpec => []BInv
<1>1. BenchInit => BInv
  BY BenchInitInv
<1>2. BInv /\ [BenchNext]_allvars => BInv'
  BY BenchStep, BenchStutter
<1> QED BY <1>1, <1>2, PTL DEF BenchSpec

(***************************************************************************)
(* Also in a benchmark of many trials, which reuses its cells, every       *)
(* latency is taken between the two ends of one event.                     *)
(***************************************************************************)
THEOREM BenchSamplesMatchEvents == BenchSpec => []SampleMatchesEvent
<1>1. BInv => SampleMatchesEvent
  BY DEF BInv, IInv, RecordInv, SampleMatchesEvent
<1> QED BY <1>1, BenchInvariance, PTL

(***************************************************************************)
(* And none of its trials measures anything when a thread failed to start. *)
(***************************************************************************)
THEOREM BenchFailedStartups == BenchSpec => []FailedStartupMeasuresNothing
<1>1. BInv => FailedStartupMeasuresNothing
  BY BenchTrialAssumption
     DEF BInv, IInv, NumbersInv, BarrierInv, AllReady, FailedStartupMeasuresNothing
<1> QED BY <1>1, BenchInvariance, PTL

(***************************************************************************)
(* The output path holds the previous result or a complete report, for any *)
(* number of cases and repetitions and wherever the run ends.              *)
(***************************************************************************)
THEOREM PublishedReportsAreComplete == BenchSpec => []PublishedIsComplete
<1>1. BInv => PublishedIsComplete
  BY DEF BInv, DiskInv, PublishedIsComplete
<1> QED BY <1>1, BenchInvariance, PTL

(***************************************************************************)
(* A run that reports an error leaves the previous result, unless it is    *)
(* the last sync that failed.                                              *)
(***************************************************************************)
THEOREM FailedRunsKeepResults == BenchSpec => []FailedRunKeepsResult
<1>1. BInv => FailedRunKeepsResult
  BY DEF BInv, DiskInv, FailedRunKeepsResult
<1> QED BY <1>1, BenchInvariance, PTL

(***************************************************************************)
(* No thread of one half of a pair is left while the other is measured.    *)
(***************************************************************************)
THEOREM MeasurementsAreAlone == BenchSpec => []MeasuredAlone
<1>1. BInv => MeasuredAlone
  BY DEF BInv, AloneInv, MeasuredAlone, MainAt, At
<1> QED BY <1>1, BenchInvariance, PTL

(***************************************************************************)
(* Once a run has succeeded, a loss of power cannot take its report back.  *)
(***************************************************************************)
THEOREM SuccessesAreDurable == BenchSpec => SuccessIsDurable
<1>1. ASSUME BInv, [BenchNext]_allvars
      PROVE  [exit = "ok" /\ disk.parent # "unsynced" => disk'.final = disk.final]_allvars
  <2> SUFFICES ASSUME exit = "ok", disk.parent # "unsynced", BenchNext
               PROVE  disk'.final = disk.final
    BY <1>1
  <2>1. disk.survives \subseteq {disk.final}
    BY <1>1 DEF BInv, DiskInv, Parents
  <2>2. Loses
    BY DEF BenchNext, Main, Create, Metadata, StartControl, EndControl, StartContender,
       Unsupported, EndContender, Repetition, WriteSummary, Skip, Winner, FinishSync,
       FinishRename, FinishDirectory, Fails, Trial, Contend, InControl, Killed, MainAt
  <2>3. PICK left \in disk.survives : disk' = [disk EXCEPT !.final = left]
    BY <2>2 DEF Loses, PowerLoss
  <2>4. disk'.final = left
    BY <1>1, <2>3 DEF BInv, DiskInv
  <2> QED BY <2>1, <2>3, <2>4
<1> QED BY <1>1, BenchInvariance, PTL DEF BenchSpec, SuccessIsDurable
=============================================================================
