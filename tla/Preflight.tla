------------------------------ MODULE Preflight -----------------------------
(***************************************************************************)
(* HardwareWait::preflight and HardwareWait::new (src/strategy.rs): the    *)
(* process-wide OnceLock, the static checks, and the bounded functional    *)
(* probe with its detached helper thread per store trial.  Time is a clock *)
(* that restarts with each trial; the helpers may be delayed for ever.     *)
(***************************************************************************)
EXTENDS Naturals

CONSTANTS
  Callers,                    \* threads calling preflight() and new()
  Machines,                   \* what CPUID may report
  StoreAttempts,              \* PREFLIGHT_STORE_ATTEMPTS
  RequiredObservations,       \* PREFLIGHT_REQUIRED_STORE_OBSERVATIONS
  SafetyTicks,                \* ticks until the programmed hardware timer fires
  MaxBaseline,                \* bound on the measured median, in ticks
  MaxClock                    \* bound on the clock of one trial

Capabilities ==
  [supported_target : BOOLEAN, amd_vendor : BOOLEAN, intel_vendor : BOOLEAN,
   monitorx_mwaitx : BOOLEAN, waitpkg : BOOLEAN, invariant_tsc : BOOLEAN, rdtscp : BOOLEAN]

ASSUME PreflightAssumption ==
  /\ Machines \subseteq Capabilities
  /\ {StoreAttempts, RequiredObservations, SafetyTicks, MaxBaseline, MaxClock} \subseteq Nat
  /\ 0 < RequiredObservations /\ RequiredObservations <= StoreAttempts
  /\ SafetyTicks < MaxClock

Trials == 1..StoreAttempts

Never == MaxClock + 1         \* later than every instant of a trial

Instants == 0..Never

VARIABLES
  caps,                       \* what CPUID reports (capabilities())
  once,                       \* HARDWARE_PREFLIGHT
  callers,                    \* each caller's current or last call
  probe,                      \* the thread inside run_hardware_preflight
  clock,                      \* ticks since the current trial started
  monitor,                    \* the probing thread's address monitor
  target, handoff, helper,    \* what each trial shares with its helper, and the helper
  channel,                    \* the current trial's receiver
  trial, truth                \* history: the current trial, and a tally of all of them

vars == <<caps, once, callers, probe, clock, monitor, target, handoff, helper, channel,
          trial, truth>>

StaticErrors ==
  {"UnsupportedTarget", "UnsupportedCpuVendor", "MissingMonitorxMwaitx", "MissingWaitpkg",
   "MissingInvariantTsc", "MissingRdtscp", "TscAccessDisabled", "UnstableTimerCalibration"}

ProbeErrors == {"WaitDidNotBlock", "StoreWakeNotObserved", "Inconclusive"}

Verdicts == {"none", "Ok", "PreflightPanicked"} \cup StaticErrors \cup ProbeErrors

TypeOK ==
  /\ caps \in Capabilities
  /\ once \in [state : {"empty", "running", "done"}, verdict : Verdicts]
  /\ callers \in [Callers -> [op : {"preflight", "new"}, pc : {"idle", "running", "blocked"},
                              result : Verdicts \cup {"PreflightRequired"}]]
  /\ probe \in [pc : {"off", "prepare", "baseline", "spawn", "load", "arm", "recheck", "handoff",
                      "last_load", "sleep", "asleep", "final_load", "finish", "recv", "conclude"},
                backend : {"none", "AmdMwaitx", "IntelUmwait"}, baseline : 0..MaxBaseline,
                attempts : 0..StoreAttempts, verified : Nat, overlaps : Nat,
                observed : {0, 1}, finished : Instants]
  /\ clock \in 0..MaxClock
  /\ monitor \in {"off", "armed", "triggered"}
  /\ target \in [Trials -> {0, 1}]
  /\ handoff \in [Trials -> BOOLEAN]
  /\ helper \in [Trials -> {"off", "spin", "delay", "store", "stamp", "exited"}]
  /\ channel \in Instants
  /\ trial \in [stored : Instants, by : {"none", "load", "monitor", "timer"}]
  /\ truth \in [witnessed : 0..StoreAttempts, untimed : 0..StoreAttempts,
               inTime : 0..StoreAttempts]

Init ==
  /\ caps \in Machines
  /\ once = [state |-> "empty", verdict |-> "none"]
  /\ callers = [c \in Callers |-> [op |-> "new", pc |-> "idle", result |-> "none"]]
  /\ probe = [pc |-> "off", backend |-> "none", baseline |-> 0, attempts |-> 0,
              verified |-> 0, overlaps |-> 0, observed |-> 0, finished |-> 0]
  /\ clock = 0
  /\ monitor = "off"
  /\ target = [t \in Trials |-> 0]
  /\ handoff = [t \in Trials |-> FALSE]
  /\ helper = [t \in Trials |-> "off"]
  /\ channel = Never
  /\ trial = [stored |-> Never, by |-> "none"]
  /\ truth = [witnessed |-> 0, untimed |-> 0, inTime |-> 0]

-----------------------------------------------------------------------------
(* Static selection.                                                       *)

select_backend ==
  CASE ~caps.supported_target -> "UnsupportedTarget"
    [] caps.supported_target /\ caps.amd_vendor = caps.intel_vendor -> "UnsupportedCpuVendor"
    [] caps.supported_target /\ caps.amd_vendor /\ ~caps.intel_vendor ->
         IF caps.monitorx_mwaitx THEN "AmdMwaitx" ELSE "MissingMonitorxMwaitx"
    [] OTHER -> IF caps.waitpkg THEN "IntelUmwait" ELSE "MissingWaitpkg"

\* The results of prepare_hardware_config: TSC access and calibration may fail.
prepare_hardware_config ==
  CASE select_backend \in StaticErrors -> {select_backend}
    [] select_backend \notin StaticErrors /\ ~caps.invariant_tsc -> {"MissingInvariantTsc"}
    [] select_backend \notin StaticErrors /\ caps.invariant_tsc /\ ~caps.rdtscp ->
         {"MissingRdtscp"}
    [] OTHER -> {"TscAccessDisabled", "UnstableTimerCalibration", select_backend}

-----------------------------------------------------------------------------
(* Callers and the OnceLock.                                               *)

Call(c, op, at, result) ==
  callers' = [callers EXCEPT ![c] = [op |-> op, pc |-> at, result |-> result]]

new(c) ==
  /\ callers[c].pc = "idle"
  /\ Call(c, "new", "idle", IF once.state = "done" THEN once.verdict ELSE "PreflightRequired")
  /\ UNCHANGED <<caps, once, probe, clock, monitor, target, handoff, helper, channel,
                 trial, truth>>

preflight(c) ==
  /\ callers[c].pc = "idle"
  /\ CASE once.state = "empty" ->
            /\ Call(c, "preflight", "running", "none")
            /\ once' = [once EXCEPT !.state = "running"]
            /\ probe' = [probe EXCEPT !.pc = "prepare"]
       [] once.state = "running" ->
            Call(c, "preflight", "blocked", "none") /\ UNCHANGED <<once, probe>>
       [] once.state = "done" ->
            Call(c, "preflight", "idle", once.verdict) /\ UNCHANGED <<once, probe>>
  /\ UNCHANGED <<caps, clock, monitor, target, handoff, helper, channel,
                 trial, truth>>

\* get_or_init returns in a thread that waited for the initializer.
Unblock(c) ==
  /\ callers[c].pc = "blocked"
  /\ once.state = "done"
  /\ Call(c, "preflight", "idle", once.verdict)
  /\ UNCHANGED <<caps, once, probe, clock, monitor, target, handoff, helper, channel,
                 trial, truth>>

\* The initializer returns: publish the verdict and return it to its caller.
Conclude(verdict) ==
  /\ once' = [state |-> "done", verdict |-> verdict]
  /\ callers' = [c \in Callers |->
       IF callers[c].pc = "running"
       THEN [callers[c] EXCEPT !.pc = "idle", !.result = verdict] ELSE callers[c]]
  /\ probe' = [probe EXCEPT !.pc = "off"]
  /\ UNCHANGED <<caps, clock, monitor, target, handoff, helper, channel,
                 trial, truth>>

\* Mutant of Panic: it is caught around get_or_init, whose OnceLock stays empty.
PanicCaughtOutside ==
  /\ probe.pc = "spawn"
  /\ once' = [state |-> "empty", verdict |-> "none"]
  /\ callers' = [c \in Callers |->
       IF callers[c].pc = "running"
       THEN [callers[c] EXCEPT !.pc = "idle", !.result = "PreflightPanicked"] ELSE callers[c]]
  /\ probe' = [probe EXCEPT !.pc = "off"]
  /\ UNCHANGED <<caps, clock, monitor, target, handoff, helper, channel,
                 trial, truth>>

\* thread::spawn panics when the system has no thread to give.
Panic ==
  /\ probe.pc = "spawn"
  /\ Conclude("PreflightPanicked")

-----------------------------------------------------------------------------
(* The probe.                                                              *)

Prepare ==
  /\ probe.pc = "prepare"
  /\ \E r \in prepare_hardware_config :
       IF r \in StaticErrors
       THEN Conclude(r)
       ELSE /\ probe' = [probe EXCEPT !.pc = "baseline", !.backend = r]
            /\ UNCHANGED <<caps, once, callers, clock, monitor, target, handoff, helper, channel,
                 trial, truth>>

\* The median of the waits with no store; 0 ticks is below PREFLIGHT_MIN_BLOCK.
Baseline ==
  /\ probe.pc = "baseline"
  /\ \E b \in 0..MaxBaseline :
       IF b = 0
       THEN Conclude("WaitDidNotBlock")
       ELSE /\ probe' = [probe EXCEPT !.pc = "spawn", !.baseline = b]
            /\ UNCHANGED <<caps, once, callers, clock, monitor, target, handoff, helper, channel,
                 trial, truth>>

wake_threshold == (probe.baseline * 3) \div 4

current == probe.attempts

Spawn ==
  /\ probe.pc = "spawn"
  /\ probe' = [probe EXCEPT !.pc = "load", !.attempts = @ + 1]
  /\ helper' = [helper EXCEPT ![current + 1] = "spin"]
  /\ clock' = 0
  /\ channel' = Never
  /\ trial' = [stored |-> Never, by |-> "none"]
  /\ UNCHANGED <<caps, once, callers, monitor, target, handoff, truth>>

\* preflight_wait_once returns what its last load observed.
WaitOver(cause) ==
  /\ probe' = [probe EXCEPT !.pc = "finish", !.observed = target[current]]
  /\ trial' = [trial EXCEPT !.by = cause]

ProbeLoad(from, next) ==
  /\ probe.pc = from
  /\ IF target[current] # 0
     THEN WaitOver("load")
     ELSE probe' = [probe EXCEPT !.pc = next] /\ UNCHANGED trial
  /\ UNCHANGED <<caps, once, callers, clock, monitor, target, handoff, helper, channel, truth>>

FirstLoad == ProbeLoad("load", "arm")

Arm ==
  /\ probe.pc = "arm"
  /\ monitor' = "armed"
  /\ probe' = [probe EXCEPT !.pc = "recheck"]
  /\ UNCHANGED <<caps, once, callers, clock, target, handoff, helper, channel,
                 trial, truth>>

Recheck == ProbeLoad("recheck", "handoff")

Handoff ==
  /\ probe.pc = "handoff"
  /\ handoff' = [handoff EXCEPT ![current] = TRUE]
  /\ probe' = [probe EXCEPT !.pc = "last_load"]
  /\ UNCHANGED <<caps, once, callers, clock, monitor, target, helper, channel, trial, truth>>

LastLoad == ProbeLoad("last_load", "sleep")

Sleep ==
  /\ probe.pc = "sleep"
  /\ probe' = [probe EXCEPT !.pc = "asleep"]
  /\ UNCHANGED <<caps, once, callers, clock, monitor, target, handoff, helper, channel,
                 trial, truth>>

Wake(cause) ==
  /\ probe.pc = "asleep"
  /\ probe' = [probe EXCEPT !.pc = "final_load"]
  /\ trial' = [trial EXCEPT !.by = cause]
  /\ UNCHANGED <<caps, once, callers, clock, monitor, target, handoff, helper, channel, truth>>

MonitorWake == monitor = "triggered" /\ Wake("monitor")

\* The timer never fires early; it may be noticed late.
TimerWake == clock >= SafetyTicks /\ Wake("timer")

FinalLoad ==
  /\ probe.pc = "final_load"
  /\ WaitOver(trial.by)
  /\ UNCHANGED <<caps, once, callers, clock, monitor, target, handoff, helper, channel, truth>>

\* wait_finished = Instant::now()
Finish ==
  /\ probe.pc = "finish"
  /\ probe' = [probe EXCEPT !.pc = "recv", !.finished = clock]
  /\ UNCHANGED <<caps, once, callers, clock, monitor, target, handoff, helper, channel,
                 trial, truth>>

\* recv_timeout(..).ok().flatten(): None from the helper, no message and a
\* receiver that stopped waiting for it all look like Never.
published == channel

helper_overlapped == published <= probe.finished

\* Mutant of verified_store_wake: a slow wait counts as well.
verified_store_wake_slow == helper_overlapped /\ probe.observed # 0

\* Mutant of verified_store_wake: a quick wait counts whatever it observed.
verified_store_wake_blind == probe.finished < wake_threshold

verified_store_wake ==
  helper_overlapped /\ probe.observed # 0 /\ probe.finished < wake_threshold

One(condition) == IF condition THEN 1 ELSE 0

\* Mutant of Receive: recv() instead of recv_timeout() waits for the helper.
ReceiveUnbounded ==
  /\ probe.pc = "recv"
  /\ published # Never
  /\ probe' = [probe EXCEPT !.verified = @ + One(verified_store_wake),
                            !.overlaps = @ + One(helper_overlapped), !.pc = "conclude"]
  /\ UNCHANGED <<caps, once, callers, clock, monitor, target, handoff, helper, channel,
                 trial, truth>>

\* The tally records what really happened in the trial.
Receive ==
  /\ probe.pc = "recv"
  /\ LET verified == probe.verified + One(verified_store_wake)
         last == verified >= RequiredObservations \/ current = StoreAttempts
     IN probe' = [probe EXCEPT !.verified = verified,
                               !.overlaps = @ + One(helper_overlapped),
                               !.pc = IF last THEN "conclude" ELSE "spawn"]
  /\ LET inTime == trial.stored <= probe.finished
     IN truth' = [witnessed |-> truth.witnessed + One(inTime /\ probe.observed = 1),
                  untimed |-> truth.untimed + One(trial.by # "timer"),
                  inTime |-> truth.inTime + One(inTime)]
  /\ UNCHANGED <<caps, once, callers, clock, monitor, target, handoff, helper, channel, trial>>

conclude_preflight ==
  CASE probe.overlaps = 0 -> "Inconclusive"
    [] probe.overlaps > 0 /\ probe.verified < RequiredObservations -> "StoreWakeNotObserved"
    [] OTHER -> "Ok"

ProbeDone == probe.pc = "conclude" /\ Conclude(conclude_preflight)

-----------------------------------------------------------------------------
(* The helpers and the clock.                                              *)

HelperStep(t, from, next) ==
  /\ helper[t] = from
  /\ helper' = [helper EXCEPT ![t] = next]

\* The handoff did not come within PREFLIGHT_HELPER_DEADLINE.
HelperGivesUp(t) ==
  /\ HelperStep(t, "spin", "exited")
  /\ ~handoff[t]
  /\ UNCHANGED <<caps, once, callers, probe, clock, monitor, target, handoff, channel,
                 trial, truth>>

HelperSeesHandoff(t) ==
  /\ HelperStep(t, "spin", "delay")
  /\ handoff[t]
  /\ UNCHANGED <<caps, once, callers, probe, clock, monitor, target, handoff, channel,
                 trial, truth>>

HelperDelay(t) ==
  /\ HelperStep(t, "delay", "store")
  /\ UNCHANGED <<caps, once, callers, probe, clock, monitor, target, handoff, channel,
                 trial, truth>>

\* Only a store to the current trial's target hits the monitor.
HelperStore(t) ==
  /\ HelperStep(t, "store", "stamp")
  /\ target' = [target EXCEPT ![t] = 1]
  /\ IF t = current
     THEN /\ trial' = [trial EXCEPT !.stored = clock]
          /\ monitor' = IF monitor = "armed" THEN "triggered" ELSE monitor
     ELSE UNCHANGED <<trial, monitor>>
  /\ UNCHANGED <<caps, once, callers, probe, clock, handoff, channel, truth>>

\* send(Some(Instant::now())); after its trial there is no receiver.
HelperStamp(t) ==
  /\ HelperStep(t, "stamp", "exited")
  /\ channel' = IF t = current THEN clock ELSE channel
  /\ UNCHANGED <<caps, once, callers, probe, clock, monitor, target, handoff, trial, truth>>

Help(t) ==
  HelperGivesUp(t) \/ HelperSeesHandoff(t) \/ HelperDelay(t) \/ HelperStore(t) \/ HelperStamp(t)

\* An interrupt, or a store near the monitored address.
Disturb ==
  /\ monitor = "armed"
  /\ monitor' = "triggered"
  /\ UNCHANGED <<caps, once, callers, probe, clock, target, handoff, helper, channel,
                 trial, truth>>

Tick ==
  /\ probe.pc # "off"
  /\ clock < MaxClock
  /\ clock' = clock + 1
  /\ UNCHANGED <<caps, once, callers, probe, monitor, target, handoff, helper, channel,
                 trial, truth>>

-----------------------------------------------------------------------------
Probe ==
  \/ Prepare \/ Baseline \/ Spawn \/ Panic
  \/ FirstLoad \/ Arm \/ Recheck \/ Handoff \/ LastLoad \/ Sleep \/ FinalLoad \/ Finish
  \/ Receive \/ ProbeDone

Next ==
  \/ \E c \in Callers : new(c) \/ preflight(c) \/ Unblock(c)
  \/ Probe
  \/ MonitorWake
  \/ TimerWake
  \/ \E t \in Trials : Help(t)
  \/ Disturb
  \/ Tick

Spec == Init /\ [][Next]_vars

\* The probing thread runs, time passes and the hardware timer fires.  No
\* helper is ever promised a processor.
FairSpec ==
  /\ Spec
  /\ WF_vars(Probe)
  /\ WF_vars(TimerWake)
  /\ WF_vars(Tick)
  /\ \A c \in Callers : WF_vars(Unblock(c))

-----------------------------------------------------------------------------
(* Properties.                                                             *)

(***************************************************************************)
(* Every caller and every constructor is told the one cached verdict, or   *)
(* that there is none yet.  A verdict, that of a panic included, is never  *)
(* replaced: it stays the one that earlier callers were told.              *)
(***************************************************************************)
OneVerdict ==
  \A c \in Callers : callers[c].result \in {"none", "PreflightRequired", once.verdict}

(***************************************************************************)
(* A verdict on the hardware is evidence.  Success: in at least the        *)
(* required number of trials their own helper stored, and the waiter       *)
(* observed it, before the wait was over; neither a helper delayed past    *)
(* its trial nor an unrelated wake counts.  StoreWakeNotObserved: some     *)
(* trial's store was made before its wait finished, so there was something *)
(* to observe; otherwise the probe is Inconclusive.                        *)
(***************************************************************************)
VerdictIsEvidence ==
  /\ once.verdict = "Ok" => truth.witnessed >= RequiredObservations
  /\ once.verdict = "StoreWakeNotObserved" => truth.inTime > 0

(***************************************************************************)
(* When the measured baseline is no longer than the safety timeout, a wait *)
(* that ran into its hardware timer is never evidence of a store wake.     *)
(***************************************************************************)
TimerIsNoEvidence ==
  once.verdict = "Ok" /\ probe.baseline <= SafetyTicks
    => truth.untimed >= RequiredObservations

(***************************************************************************)
(* Preflight is bounded: every caller returns, although no helper need     *)
(* ever run and a caller may have to wait for another's probe.             *)
(***************************************************************************)
PreflightReturns == \A c \in Callers : callers[c].pc # "idle" ~> callers[c].pc = "idle"
=============================================================================
