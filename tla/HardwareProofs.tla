--------------------------- MODULE HardwareProofs ---------------------------
(***************************************************************************)
(* Theorems about the hardware strategy's preflight and about the timers   *)
(* it is calibrated for: the cached verdict is one, and it is evidence,    *)
(* for any number of callers and of store trials; the calibrated timer is  *)
(* never fast, on any number of CPUs whatever their TSCs show.             *)
(***************************************************************************)
EXTENDS Preflight, Calibration, WellFoundedInduction, TLAPS

-----------------------------------------------------------------------------
(***************************************************************************)
(* The preflight.  While a probe runs there is no verdict, and nobody has  *)
(* been told one.  What a trial may count is bounded by what happened: the *)
(* stamp on its channel is no earlier than its own helper's store, since   *)
(* helpers of earlier trials have no receiver and later ones do not exist. *)
(***************************************************************************)

Onces == [state : {"empty", "running", "done"}, verdict : Verdicts]

Calls == [op : {"preflight", "new"}, pc : {"idle", "running", "blocked"},
          result : Verdicts \cup {"PreflightRequired"}]

ProbePCs ==
  {"off", "prepare", "baseline", "spawn", "load", "arm", "recheck", "handoff", "last_load", "sleep",
   "asleep", "final_load", "finish", "recv", "conclude"}

Probes ==
  [pc : ProbePCs, backend : {"none", "AmdMwaitx", "IntelUmwait"}, baseline : 0..MaxBaseline,
   attempts : 0..StoreAttempts, verified : Nat, overlaps : Nat, observed : {0, 1},
   finished : Instants]

\* The OnceLock and its callers.
OnceInv ==
  /\ once.state # "done" => once.verdict = "none"
  /\ once.state = "running" <=> probe.pc # "off"
  /\ \A c \in Callers : callers[c].pc = "running" => once.state = "running"
  /\ OneVerdict

BeforeTrials == {"prepare", "baseline"}

InTrial ==
  {"load", "arm", "recheck", "handoff", "last_load", "sleep", "asleep", "final_load", "finish",
   "recv"}

\* Which trial it is, and how far its own helper is.
TrialInv ==
  /\ once.state = "empty" \/ probe.pc \in BeforeTrials =>
       current = 0 /\ probe.verified = 0 /\ probe.overlaps = 0
  /\ probe.pc = "spawn" => current < StoreAttempts
  /\ probe.pc \in InTrial => current > 0
  /\ \A t \in Trials : t > current => helper[t] = "off"
  /\ trial.stored <= channel
  /\ \A t \in Trials : t = current /\ helper[t] # "exited" => channel = Never
  /\ \A t \in Trials : t = current /\ helper[t] = "stamp" => trial.stored <= clock
  /\ probe.pc = "recv" => probe.finished <= clock
  /\ trial.by = "timer" =>
       /\ probe.pc \in {"final_load", "finish"} => clock >= SafetyTicks
       /\ probe.pc = "recv" => probe.finished >= SafetyTicks

\* What the probe has counted is no more than what happened in its trials.
TallyInv ==
  /\ probe.verified <= truth.witnessed
  /\ probe.overlaps <= truth.inTime
  /\ probe.baseline <= SafetyTicks => probe.verified <= truth.untimed
  /\ \A k \in {"witnessed", "untimed", "inTime"} :
       /\ truth[k] <= current
       /\ probe.pc \in InTrial => truth[k] < current

PInv == TypeOK /\ OnceInv /\ TrialInv /\ TallyInv /\ VerdictIsEvidence /\ TimerIsNoEvidence

(***************************************************************************)
(* It holds before the first call.                                         *)
(***************************************************************************)
LEMMA PreflightInit ==
  ASSUME Init
  PROVE  PInv
<1>1. StoreAttempts \in Nat /\ MaxBaseline \in Nat /\ MaxClock \in Nat /\ Machines \subseteq Capabilities
  BY PreflightAssumption
<1>2. TypeOK
  <2>1. /\ once \in [state : {"empty", "running", "done"}, verdict : Verdicts]
        /\ callers \in [Callers -> [op : {"preflight", "new"}, pc : {"idle", "running", "blocked"},
                                    result : Verdicts \cup {"PreflightRequired"}]]
    BY DEF Init, Verdicts
  <2>2. /\ caps \in Capabilities /\ clock \in 0..MaxClock /\ monitor = "off"
        /\ target \in [Trials -> {0, 1}] /\ handoff \in [Trials -> BOOLEAN]
        /\ helper \in [Trials -> {"off", "spin", "delay", "store", "stamp", "exited"}]
    BY <1>1 DEF Init
  <2>3. Never \in Instants /\ 0 \in Instants
    BY <1>1 DEF Never, Instants
  <2> QED BY <1>1, <2>1, <2>2, <2>3 DEF Init, TypeOK
<1>3. OnceInv
  BY DEF Init, OnceInv, OneVerdict
<1>4. TrialInv
  BY <1>1 DEF Init, TrialInv, BeforeTrials, InTrial, current, Trials, Never
<1>5. TallyInv
  BY <1>1 DEF Init, TallyInv, InTrial, current
<1> QED BY <1>2, <1>3, <1>4, <1>5 DEF Init, PInv, VerdictIsEvidence, TimerIsNoEvidence

(***************************************************************************)
(* new and preflight tell a verdict that is cached, or none.               *)
(***************************************************************************)
LEMMA CallerStep ==
  ASSUME PInv, NEW c \in Callers, new(c) \/ preflight(c) \/ Unblock(c)
  PROVE  PInv'
<1>0. /\ TypeOK /\ OnceInv /\ TrialInv /\ TallyInv
      /\ UNCHANGED <<caps, clock, monitor, target, handoff, helper, channel, trial, truth>>
  BY DEF PInv, new, preflight, Unblock
<1>f. /\ once \in Onces /\ callers \in [Callers -> Calls] /\ probe \in Probes
      /\ once.state \in {"empty", "running", "done"} /\ once.verdict \in Verdicts
      /\ "none" \in Verdicts
  BY <1>0 DEF TypeOK, Onces, Calls, ProbePCs, Probes, Verdicts
<1>1. \/ /\ once.state = "empty" /\ once' = [once EXCEPT !.state = "running"]
         /\ probe' = [probe EXCEPT !.pc = "prepare"]
      \/ UNCHANGED <<once, probe>>
  <2>1. CASE new(c) \/ Unblock(c)
    BY <2>1 DEF new, Unblock
  <2>2. CASE preflight(c)
    BY <1>f, <2>2 DEF preflight
  <2> QED BY <2>1, <2>2
<1> DEFINE Told(call) ==
      /\ callers' = [callers EXCEPT ![c] = call]
      /\ call.pc = "running" => once'.state = "running"
      /\ call.result \in {"none", "PreflightRequired", once.verdict}
<1>2. \E call \in Calls : Told(call)
  <2>2. CASE new(c)
    <3> DEFINE call == [op |-> "new", pc |-> "idle",
                        result |-> IF once.state = "done" THEN once.verdict ELSE "PreflightRequired"]
    <3>1. call \in Calls /\ callers' = [callers EXCEPT ![c] = call]
      BY <1>f, <2>2 DEF new, Call, Calls
    <3> QED BY <3>1
  <2>3. CASE preflight(c) /\ once.state = "empty"
    <3> DEFINE call == [op |-> "preflight", pc |-> "running", result |-> "none"]
    <3>1. call \in Calls /\ callers' = [callers EXCEPT ![c] = call] /\ once'.state = "running"
      BY <1>f, <2>3 DEF preflight, Call, Calls, Onces
    <3> QED BY <3>1
  <2>4. CASE preflight(c) /\ once.state = "running"
    <3> DEFINE call == [op |-> "preflight", pc |-> "blocked", result |-> "none"]
    <3>1. call \in Calls /\ callers' = [callers EXCEPT ![c] = call]
      BY <1>f, <2>4 DEF preflight, Call, Calls
    <3> QED BY <3>1
  <2>5. CASE Unblock(c) \/ (preflight(c) /\ once.state = "done")
    <3> DEFINE call == [op |-> "preflight", pc |-> "idle", result |-> once.verdict]
    <3>1. call \in Calls /\ callers' = [callers EXCEPT ![c] = call]
      BY <1>f, <2>5 DEF Unblock, preflight, Call, Calls
    <3> QED BY <3>1
  <2>6. once.state = "empty" \/ once.state = "running" \/ once.state = "done"
    BY <1>f
  <2> HIDE DEF Told
  <2> QED BY <2>2, <2>3, <2>4, <2>5, <2>6
<1>3. /\ once' \in Onces /\ probe' \in Probes
      /\ once'.verdict = once.verdict
      /\ \/ once.state = "empty" /\ once'.state = "running" /\ probe'.pc = "prepare"
         \/ once' = once /\ probe' = probe
      /\ current' = current /\ probe'.verified = probe.verified /\ probe'.overlaps = probe.overlaps
      /\ probe'.baseline = probe.baseline /\ probe'.finished = probe.finished
  BY <1>1, <1>f DEF Onces, ProbePCs, Probes, current
<1>4. callers' \in [Callers -> Calls]
  BY <1>2, <1>f
<1>5. TypeOK'
  BY <1>0, <1>3, <1>4 DEF TypeOK, Onces, Calls, ProbePCs, Probes
<1>6. OnceInv'
  <2>1. PICK call \in Calls : Told(call)
    BY <1>2
  <2>2. \A d \in Callers : callers'[d] = IF d = c THEN call ELSE callers[d]
    BY <1>f, <2>1
  <2> QED BY <1>0, <1>3, <2>1, <2>2 DEF OnceInv, OneVerdict
<1>7. TrialInv'
  BY <1>0, <1>3 DEF TrialInv, InTrial, BeforeTrials, OnceInv
<1>8. TallyInv'
  BY <1>0, <1>3 DEF TallyInv, InTrial
<1> QED BY <1>0, <1>3, <1>5, <1>6, <1>7, <1>8
        DEF PInv, VerdictIsEvidence, TimerIsNoEvidence

(***************************************************************************)
(* The initializer publishes a verdict, when nobody has been told another. *)
(***************************************************************************)
LEMMA ConcludeStep ==
  ASSUME PInv, NEW v \in Verdicts, probe.pc # "off", Conclude(v),
         v = "Ok" => probe.verified >= RequiredObservations,
         v = "StoreWakeNotObserved" => probe.overlaps > 0
  PROVE  PInv'
<1>0. /\ TypeOK /\ OnceInv /\ TrialInv /\ TallyInv /\ once.state = "running" /\ once.verdict = "none"
      /\ UNCHANGED <<caps, clock, monitor, target, handoff, helper, channel, trial, truth>>
  BY DEF PInv, Conclude, OnceInv
<1>1. once'.state = "done" /\ once'.verdict = v /\ probe'.pc = "off"
  BY <1>0 DEF Conclude, TypeOK
<1>2. /\ current' = current /\ probe'.verified = probe.verified /\ probe'.overlaps = probe.overlaps
      /\ probe'.baseline = probe.baseline
  BY <1>0 DEF Conclude, TypeOK, current
<1>3. TypeOK'
  <2>1. once' \in Onces
    BY DEF Conclude, Onces
  <2>2. callers' \in [Callers -> Calls]
    <3>1. callers \in [Callers -> Calls]
      BY <1>0 DEF TypeOK, Calls
    <3>2. ASSUME NEW call \in Calls
          PROVE  [call EXCEPT !.pc = "idle", !.result = v] \in Calls
      BY DEF Calls
    <3> QED BY <3>1, <3>2 DEF Conclude
  <2>3. probe' \in Probes
    BY <1>0 DEF TypeOK, Conclude, Probes, ProbePCs
  <2> QED BY <1>0, <2>1, <2>2, <2>3 DEF TypeOK, Onces, Calls, Probes, ProbePCs
<1>4. OnceInv'
  <2>1. ASSUME NEW c \in Callers
        PROVE  callers'[c].pc # "running" /\ callers'[c].result \in {"none", "PreflightRequired", v}
    <3>1. CASE callers[c].pc = "running"
      <4>1. callers'[c] = [callers[c] EXCEPT !.pc = "idle", !.result = v]
        BY <3>1 DEF Conclude
      <4>2. callers[c] \in Calls
        BY <1>0 DEF TypeOK, Calls
      <4> QED BY <4>1, <4>2 DEF Calls
    <3>2. CASE callers[c].pc # "running"
      BY <1>0, <3>2 DEF Conclude, OnceInv, OneVerdict
    <3> QED BY <3>1, <3>2
  <2> QED BY <1>1, <2>1 DEF OnceInv, OneVerdict
<1>5. TrialInv'
  BY <1>0, <1>1, <1>2 DEF TrialInv, InTrial, BeforeTrials
<1>6. TallyInv'
  BY <1>0, <1>1, <1>2 DEF TallyInv, InTrial
<1>7. VerdictIsEvidence' /\ TimerIsNoEvidence'
  <2>1. /\ probe.verified \in Nat /\ probe.overlaps \in Nat /\ RequiredObservations \in Nat
        /\ truth.witnessed \in Nat /\ truth.untimed \in Nat /\ truth.inTime \in Nat
    BY <1>0, PreflightAssumption DEF TypeOK
  <2> QED BY <1>0, <1>1, <1>2, <2>1 DEF TallyInv, VerdictIsEvidence, TimerIsNoEvidence
<1> QED BY <1>3, <1>4, <1>5, <1>6, <1>7 DEF PInv

(***************************************************************************)
(* A conclusion before the trials rejects the machine.                     *)
(***************************************************************************)
LEMMA PrepareStep ==
  ASSUME PInv, Prepare \/ Baseline \/ Panic
  PROVE  PInv'
<1>0. TypeOK /\ OnceInv /\ TrialInv /\ TallyInv
  BY DEF PInv
<1>1. ASSUME NEW v \in StaticErrors \cup {"WaitDidNotBlock", "PreflightPanicked"}, Conclude(v)
      PROVE  PInv'
  <2>1. probe.pc # "off"
    BY DEF Prepare, Baseline, Panic
  <2>2. v \in Verdicts /\ v # "Ok" /\ v # "StoreWakeNotObserved"
    BY DEF StaticErrors, Verdicts, ProbeErrors
  <2> QED BY <1>1, <2>1, <2>2, ConcludeStep
<1>2. ASSUME NEW backend \in {"none", "AmdMwaitx", "IntelUmwait"}, NEW b \in 0..MaxBaseline,
             NEW next \in {"baseline", "spawn"}, probe.pc \in BeforeTrials,
             probe' = [probe EXCEPT !.pc = next, !.backend = backend, !.baseline = b],
             UNCHANGED <<caps, once, callers, clock, monitor, target, handoff, helper, channel,
                         trial, truth>>
      PROVE  PInv'
  <2>1. probe \in Probes /\ truth.untimed \in Nat /\ StoreAttempts \in Nat \ {0}
    BY <1>0, PreflightAssumption DEF TypeOK, Probes, ProbePCs
  <2>2. /\ probe' \in Probes /\ probe'.pc = next /\ current' = current
        /\ probe'.verified = probe.verified /\ probe'.overlaps = probe.overlaps
    BY <1>2, <2>1 DEF Probes, ProbePCs, current
  <2>3. current = 0 /\ probe.verified = 0 /\ probe.overlaps = 0 /\ probe.pc # "off"
    BY <1>0, <1>2 DEF TrialInv, BeforeTrials
  <2>4. TypeOK'
    BY <1>0, <1>2, <2>2 DEF TypeOK, Probes, ProbePCs
  <2>5. OnceInv' /\ once.verdict = "none"
    BY <1>0, <1>2, <2>2, <2>3 DEF OnceInv, OneVerdict
  <2>6. TrialInv'
    BY <1>0, <1>2, <2>1, <2>2, <2>3 DEF TrialInv, BeforeTrials, InTrial
  <2>7. TallyInv'
    BY <1>0, <1>2, <2>1, <2>2, <2>3 DEF TallyInv, InTrial
  <2> QED BY <1>2, <2>4, <2>5, <2>6, <2>7 DEF PInv, VerdictIsEvidence, TimerIsNoEvidence
<1>3. CASE Prepare
  <2>1. PICK r \in prepare_hardware_config :
          IF r \in StaticErrors
          THEN Conclude(r)
          ELSE /\ probe' = [probe EXCEPT !.pc = "baseline", !.backend = r]
               /\ UNCHANGED <<caps, once, callers, clock, monitor, target, handoff, helper, channel,
                              trial, truth>>
    BY <1>3 DEF Prepare
  <2>2. r \in StaticErrors \cup {"AmdMwaitx", "IntelUmwait"}
    BY DEF prepare_hardware_config, select_backend, StaticErrors
  <2>3. CASE r \in StaticErrors
    BY <1>1, <2>1, <2>3
  <2>4. CASE r \notin StaticErrors
    <3>1. /\ r \in {"none", "AmdMwaitx", "IntelUmwait"} /\ probe.baseline \in 0..MaxBaseline
          /\ probe.pc \in BeforeTrials
      BY <1>0, <1>3, <2>2, <2>4 DEF TypeOK, BeforeTrials, Prepare
    <3>2. probe' = [probe EXCEPT !.pc = "baseline", !.backend = r, !.baseline = probe.baseline]
      <4>1. probe \in Probes
        BY <1>0 DEF TypeOK, Probes, ProbePCs
      <4> QED BY <2>1, <2>4, <4>1 DEF Probes
    <3> QED BY <1>2, <2>1, <2>4, <3>1, <3>2
  <2> QED BY <2>3, <2>4
<1>4. CASE Baseline
  <2>1. PICK b \in 0..MaxBaseline :
          IF b = 0
          THEN Conclude("WaitDidNotBlock")
          ELSE /\ probe' = [probe EXCEPT !.pc = "spawn", !.baseline = b]
               /\ UNCHANGED <<caps, once, callers, clock, monitor, target, handoff, helper, channel,
                              trial, truth>>
    BY <1>4 DEF Baseline
  <2>2. CASE b = 0
    BY <1>1, <2>1, <2>2
  <2>3. CASE b # 0
    <3>1. /\ probe.backend \in {"none", "AmdMwaitx", "IntelUmwait"} /\ probe.pc \in BeforeTrials
      BY <1>0, <1>4 DEF TypeOK, BeforeTrials, Baseline
    <3>2. probe' = [probe EXCEPT !.pc = "spawn", !.backend = probe.backend, !.baseline = b]
      <4>1. probe \in Probes
        BY <1>0 DEF TypeOK, Probes, ProbePCs
      <4> QED BY <2>1, <2>3, <4>1 DEF Probes
    <3> QED BY <1>2, <2>1, <2>3, <3>1, <3>2
  <2> QED BY <2>2, <2>3
<1>5. CASE Panic
  BY <1>1, <1>5 DEF Panic
<1> QED BY <1>3, <1>4, <1>5

(***************************************************************************)
(* The probe is concluded on what its trials have shown.                   *)
(***************************************************************************)
LEMMA ProbeDoneStep ==
  ASSUME PInv, ProbeDone
  PROVE  PInv'
<1>1. /\ probe.pc # "off" /\ Conclude(conclude_preflight)
      /\ probe.overlaps \in Nat /\ probe.verified \in Nat /\ RequiredObservations \in Nat
  BY PreflightAssumption DEF PInv, TypeOK, ProbeDone
<1>2. /\ conclude_preflight \in Verdicts
      /\ conclude_preflight = "Ok" => probe.verified >= RequiredObservations
      /\ conclude_preflight = "StoreWakeNotObserved" => probe.overlaps > 0
  BY <1>1 DEF conclude_preflight, Verdicts, ProbeErrors
<1> QED BY <1>1, <1>2, ConcludeStep

(***************************************************************************)
(* A trial starts with a helper of its own, that has stored nothing yet.   *)
(***************************************************************************)
LEMMA SpawnStep ==
  ASSUME PInv, Spawn
  PROVE  PInv'
<1>0. /\ TypeOK /\ OnceInv /\ TrialInv /\ TallyInv /\ once.state = "running" /\ once.verdict = "none"
      /\ probe.pc = "spawn" /\ probe' = [probe EXCEPT !.pc = "load", !.attempts = @ + 1]
      /\ helper' = [helper EXCEPT ![current + 1] = "spin"]
      /\ clock' = 0 /\ channel' = Never /\ trial' = [stored |-> Never, by |-> "none"]
      /\ UNCHANGED <<caps, once, callers, monitor, target, handoff, truth>>
  BY DEF PInv, Spawn, OnceInv
<1>1. /\ probe \in Probes /\ current \in Nat /\ StoreAttempts \in Nat /\ MaxClock \in Nat
      /\ current < StoreAttempts /\ current + 1 \in Trials
      /\ truth.witnessed \in Nat /\ truth.untimed \in Nat /\ truth.inTime \in Nat
      /\ truth = [witnessed |-> truth.witnessed, untimed |-> truth.untimed, inTime |-> truth.inTime]
  <2>1. probe \in Probes /\ probe.attempts \in 0..StoreAttempts
    BY <1>0 DEF TypeOK, Probes, ProbePCs
  <2>2. StoreAttempts \in Nat /\ MaxClock \in Nat
    BY PreflightAssumption
  <2> QED BY <1>0, <2>1, <2>2 DEF TypeOK, TrialInv, current, Trials
<1>2. /\ probe' \in Probes /\ probe'.pc = "load" /\ current' = current + 1
      /\ probe'.verified = probe.verified /\ probe'.overlaps = probe.overlaps
      /\ probe'.baseline = probe.baseline
  <2>1. probe.attempts + 1 \in 0..StoreAttempts /\ "load" \in ProbePCs
    BY <1>1 DEF current, ProbePCs
  <2>2. probe' = [probe EXCEPT !.pc = "load", !.attempts = probe.attempts + 1] /\ probe \in Probes
    BY <1>0, <1>1
  <2> QED BY <2>1, <2>2 DEF Probes, current
<1>3. /\ helper' \in [Trials -> {"off", "spin", "delay", "store", "stamp", "exited"}]
      /\ helper'[current + 1] = "spin"
      /\ \A t \in Trials : t # current + 1 => helper'[t] = helper[t]
  BY <1>0, <1>1 DEF TypeOK
<1>4. trial'.stored = Never /\ trial'.by = "none" /\ Never \in Nat /\ MaxClock \in Nat /\ 0 <= Never
      /\ Never \in Instants
  BY <1>0, <1>1 DEF Never, Instants
<1>5. TypeOK'
  <2>1. trial' \in [stored : Instants, by : {"none", "load", "monitor", "timer"}]
    BY <1>0, <1>4
  <2> QED BY <1>0, <1>1, <1>2, <1>3, <1>4, <2>1 DEF TypeOK, Probes, ProbePCs
<1>6. OnceInv'
  BY <1>0, <1>2 DEF OnceInv, OneVerdict
<1>7. TrialInv'
  <2>1. \A t \in Trials : t > current' => helper'[t] = "off"
    <3>1. \A t \in Trials : t \in Nat
      BY <1>1 DEF Trials
    <3> QED BY <1>0, <1>1, <1>2, <1>3, <3>1 DEF TrialInv
  <2> QED BY <1>0, <1>1, <1>2, <1>3, <1>4, <2>1 DEF TrialInv, BeforeTrials, InTrial
<1>8. TallyInv'
  BY <1>0, <1>1, <1>2 DEF TallyInv, InTrial
<1> QED BY <1>0, <1>5, <1>6, <1>7, <1>8 DEF PInv, VerdictIsEvidence, TimerIsNoEvidence

(***************************************************************************)
(* A step of the wait: only the reading of the clock behind it, and who    *)
(* ended it, matter later.                                                 *)
(***************************************************************************)
LEMMA WaitStep ==
  ASSUME PInv, \/ FirstLoad \/ Arm \/ Recheck \/ Handoff \/ LastLoad \/ Sleep \/ MonitorWake
               \/ TimerWake \/ FinalLoad \/ Finish
  PROVE  PInv'
<1>0. /\ TypeOK /\ OnceInv /\ TrialInv /\ TallyInv
      /\ UNCHANGED <<caps, once, callers, clock, target, helper, channel, truth>>
  BY DEF PInv, FirstLoad, Arm, Recheck, Handoff, LastLoad, Sleep, MonitorWake, TimerWake, FinalLoad,
     Finish, ProbeLoad, Wake
<1>1. /\ probe \in Probes /\ trial \in [stored : Instants, by : {"none", "load", "monitor", "timer"}]
      /\ clock \in Nat /\ clock \in Instants /\ SafetyTicks \in Nat
  <2>1. MaxClock \in Nat /\ clock \in 0..MaxClock
    BY <1>0, PreflightAssumption DEF TypeOK
  <2> QED BY <1>0, <2>1, PreflightAssumption DEF TypeOK, Probes, ProbePCs, Instants, Never
<1> DEFINE Moves ==
      /\ probe.pc \in InTrial /\ probe' \in Probes /\ probe'.pc \in InTrial
      /\ current' = current /\ probe'.verified = probe.verified
      /\ probe'.overlaps = probe.overlaps /\ probe'.baseline = probe.baseline
      /\ trial' \in [stored : Instants, by : {"none", "load", "monitor", "timer"}]
      /\ trial'.stored = trial.stored
      /\ probe'.pc = "recv" => probe'.finished = clock
      /\ trial'.by = "timer" /\ probe'.pc \in {"final_load", "finish", "recv"} =>
           clock >= SafetyTicks
      /\ monitor' \in {"off", "armed", "triggered"} /\ handoff' \in [Trials -> BOOLEAN]
<1>2. Moves
  <2>0. monitor \in {"off", "armed", "triggered"} /\ handoff \in [Trials -> BOOLEAN]
    BY <1>0 DEF TypeOK
  <2>1. ASSUME NEW from \in InTrial \ {"final_load", "finish", "recv"},
               NEW next \in InTrial \ {"final_load", "finish", "recv"}, ProbeLoad(from, next)
        PROVE  Moves
    <3>1. target[current] \in {0, 1} \/ target[current] = 0
      <4>1. current \in Trials
        BY <1>0, <1>1, <2>1, PreflightAssumption DEF TrialInv, ProbeLoad, Trials, Probes, current
      <4> QED BY <1>0, <4>1 DEF TypeOK
    <3>2. CASE target[current] # 0
      <4>1. /\ probe.pc = from /\ trial' = [trial EXCEPT !.by = "load"]
            /\ probe' = [probe EXCEPT !.pc = "finish", !.observed = target[current]]
            /\ UNCHANGED <<monitor, handoff>>
        BY <2>1, <3>2 DEF ProbeLoad, WaitOver
      <4>2. target[current] \in {0, 1}
        BY <3>1
      <4> QED BY <1>1, <2>0, <4>1, <4>2 DEF Probes, ProbePCs, InTrial, current
    <3>3. CASE target[current] = 0
      <4>1. /\ probe.pc = from /\ trial' = trial /\ probe' = [probe EXCEPT !.pc = next]
            /\ UNCHANGED <<monitor, handoff>>
        BY <2>1, <3>3 DEF ProbeLoad
      <4> QED BY <1>1, <2>0, <4>1 DEF Probes, ProbePCs, InTrial, current
    <3> QED BY <3>2, <3>3
  <2>2. CASE FirstLoad \/ Recheck \/ LastLoad
    BY <2>1, <2>2 DEF FirstLoad, Recheck, LastLoad, InTrial
  <2>3. CASE Arm \/ Handoff \/ Sleep
    <3>1. PICK next \in {"recheck", "last_load", "asleep"} :
            /\ probe.pc \in {"arm", "handoff", "sleep"} /\ trial' = trial
            /\ probe' = [probe EXCEPT !.pc = next]
      BY <2>3 DEF Arm, Handoff, Sleep
    <3>2. monitor' \in {"off", "armed", "triggered"} /\ handoff' \in [Trials -> BOOLEAN]
      BY <2>0, <2>3 DEF Arm, Handoff, Sleep
    <3> QED BY <1>1, <3>1, <3>2 DEF Probes, ProbePCs, InTrial, current
  <2>4. CASE MonitorWake \/ TimerWake
    <3>1. PICK cause \in {"monitor", "timer"} :
            /\ probe.pc = "asleep" /\ trial' = [trial EXCEPT !.by = cause]
            /\ probe' = [probe EXCEPT !.pc = "final_load"] /\ UNCHANGED <<monitor, handoff>>
            /\ cause = "timer" => clock >= SafetyTicks
      BY <2>4 DEF MonitorWake, TimerWake, Wake
    <3> QED BY <1>1, <2>0, <3>1 DEF Probes, ProbePCs, InTrial, current
  <2>5. CASE FinalLoad
    <3>1. /\ probe.pc = "final_load" /\ trial' = [trial EXCEPT !.by = trial.by]
          /\ probe' = [probe EXCEPT !.pc = "finish", !.observed = target[current]]
          /\ UNCHANGED <<monitor, handoff>>
      BY <2>5 DEF FinalLoad, WaitOver
    <3>2. target[current] \in {0, 1}
      <4>1. current \in Trials
        BY <1>0, <1>1, <3>1, PreflightAssumption DEF TrialInv, Trials, Probes, InTrial, current
      <4> QED BY <1>0, <4>1 DEF TypeOK
    <3>3. trial.by = "timer" => clock >= SafetyTicks
      BY <1>0, <3>1 DEF TrialInv
    <3> QED BY <1>1, <2>0, <3>1, <3>2, <3>3 DEF Probes, ProbePCs, InTrial, current
  <2>6. CASE Finish
    <3>1. /\ probe.pc = "finish" /\ trial' = trial
          /\ probe' = [probe EXCEPT !.pc = "recv", !.finished = clock]
          /\ UNCHANGED <<monitor, handoff>>
      BY <2>6 DEF Finish
    <3>2. trial.by = "timer" => clock >= SafetyTicks
      BY <1>0, <3>1 DEF TrialInv
    <3> QED BY <1>1, <2>0, <3>1, <3>2 DEF Probes, ProbePCs, InTrial, current
  <2> HIDE DEF Moves
  <2> QED BY <2>2, <2>3, <2>4, <2>5, <2>6
<1>3. TypeOK'
  BY <1>0, <1>2 DEF TypeOK, Probes, ProbePCs
<1>4. OnceInv'
  BY <1>0, <1>2 DEF OnceInv, OneVerdict, InTrial
<1>5. TrialInv'
  BY <1>0, <1>1, <1>2 DEF TrialInv, BeforeTrials, InTrial
<1>6. TallyInv'
  BY <1>0, <1>2 DEF TallyInv
<1> QED BY <1>0, <1>2, <1>3, <1>4, <1>5, <1>6 DEF PInv, VerdictIsEvidence, TimerIsNoEvidence

(***************************************************************************)
(* What a trial counts has happened: a stamp that came before the wait was *)
(* over is behind the store of the trial's own helper, and a wait that is  *)
(* shorter than three quarters of the baseline did not run into its timer. *)
(***************************************************************************)
LEMMA ReceiveStep ==
  ASSUME PInv, Receive
  PROVE  PInv'
<1> DEFINE inTime == trial.stored <= probe.finished
           next == IF \/ probe.verified + One(verified_store_wake) >= RequiredObservations
                      \/ current = StoreAttempts
                   THEN "conclude" ELSE "spawn"
<1>0. /\ TypeOK /\ OnceInv /\ TrialInv /\ TallyInv /\ probe.pc = "recv"
      /\ probe' = [probe EXCEPT !.verified = probe.verified + One(verified_store_wake),
                                !.overlaps = probe.overlaps + One(helper_overlapped), !.pc = next]
      /\ truth' = [witnessed |-> truth.witnessed + One(inTime /\ probe.observed = 1),
                   untimed |-> truth.untimed + One(trial.by # "timer"),
                   inTime |-> truth.inTime + One(inTime)]
      /\ UNCHANGED <<caps, once, callers, clock, monitor, target, handoff, helper, channel, trial>>
  BY DEF PInv, Receive
<1>1. /\ probe \in Probes /\ probe.verified \in Nat /\ probe.overlaps \in Nat
      /\ probe.finished \in Nat /\ probe.baseline \in Nat /\ probe.observed \in {0, 1}
      /\ channel \in Nat /\ trial.stored \in Nat /\ SafetyTicks \in Nat /\ StoreAttempts \in Nat
      /\ RequiredObservations \in Nat /\ current \in 0..StoreAttempts
  <2>1. /\ {StoreAttempts, RequiredObservations, SafetyTicks, MaxBaseline, MaxClock} \subseteq Nat
        /\ Instants \subseteq Nat
    BY PreflightAssumption DEF Instants, Never
  <2> QED BY <1>0, <2>1 DEF TypeOK, Probes, ProbePCs, current
<1>2. \A condition \in BOOLEAN : One(condition) \in {0, 1} /\ (One(condition) = 1 <=> condition)
  BY DEF One
<1>3. helper_overlapped => inTime
  BY <1>0, <1>1 DEF helper_overlapped, published, TrialInv
<1>4. verified_store_wake => inTime /\ probe.observed = 1
  BY <1>1, <1>3 DEF verified_store_wake
<1>5. probe.baseline <= SafetyTicks /\ verified_store_wake => trial.by # "timer"
  <2>1. wake_threshold <= probe.baseline
    BY <1>1 DEF wake_threshold
  <2>2. wake_threshold \in Nat
    BY <1>1 DEF wake_threshold
  <2> QED BY <1>0, <1>1, <2>1, <2>2 DEF verified_store_wake, TrialInv
<1> DEFINE v == One(verified_store_wake)
           o == One(helper_overlapped)
           w == One(inTime /\ probe.observed = 1)
           u == One(trial.by # "timer")
           i == One(inTime)
<1>6. /\ {v, o, w, u, i} \subseteq {0, 1} /\ v <= w /\ o <= i
      /\ probe.baseline <= SafetyTicks => v <= u
  BY <1>3, <1>4, <1>5 DEF One
<1>7. next \in {"conclude", "spawn"} /\ (next = "spawn" => current < StoreAttempts)
  BY <1>1
<1> HIDE DEF v, o, w, u, i, inTime, next
<1>8. /\ probe' = [probe EXCEPT !.verified = probe.verified + v, !.overlaps = probe.overlaps + o,
                                !.pc = next]
      /\ truth' = [witnessed |-> truth.witnessed + w, untimed |-> truth.untimed + u,
                   inTime |-> truth.inTime + i]
  BY <1>0 DEF v, o, w, u, i, inTime, next
<1>9. /\ probe' \in Probes /\ probe'.pc = next /\ current' = current
      /\ probe'.verified = probe.verified + v /\ probe'.overlaps = probe.overlaps + o
      /\ probe'.baseline = probe.baseline
  <2>1. probe.verified + v \in Nat /\ probe.overlaps + o \in Nat /\ next \in ProbePCs
    BY <1>1, <1>6, <1>7 DEF ProbePCs
  <2> QED BY <1>1, <1>8, <2>1 DEF Probes, current
<1>10. /\ truth.witnessed \in Nat /\ truth.untimed \in Nat /\ truth.inTime \in Nat
       /\ truth.witnessed < current /\ truth.untimed < current /\ truth.inTime < current
  <2>1. \A k \in {"witnessed", "untimed", "inTime"} : truth[k] < current
    BY <1>0 DEF TallyInv, InTrial
  <2>2. truth.witnessed \in Nat /\ truth.untimed \in Nat /\ truth.inTime \in Nat
    BY <1>0, <1>1 DEF TypeOK
  <2> QED BY <2>1, <2>2
<1>11. /\ truth' \in [witnessed : 0..StoreAttempts, untimed : 0..StoreAttempts,
                      inTime : 0..StoreAttempts]
       /\ truth'.witnessed = truth.witnessed + w /\ truth'.untimed = truth.untimed + u
       /\ truth'.inTime = truth.inTime + i
       /\ \A k \in {"witnessed", "untimed", "inTime"} : truth'[k] <= current
  <2>1. /\ truth.witnessed + w \in 0..StoreAttempts /\ truth.witnessed + w <= current
        /\ truth.untimed + u \in 0..StoreAttempts /\ truth.untimed + u <= current
        /\ truth.inTime + i \in 0..StoreAttempts /\ truth.inTime + i <= current
    BY <1>1, <1>6, <1>10
  <2> QED BY <1>8, <2>1
<1>12. TypeOK'
  BY <1>0, <1>9, <1>11 DEF TypeOK, Probes, ProbePCs
<1>13. OnceInv' /\ once.verdict = "none"
  BY <1>0, <1>7, <1>9 DEF OnceInv, OneVerdict
<1>14. TrialInv'
  BY <1>0, <1>7, <1>9, <1>13 DEF TrialInv, BeforeTrials, InTrial, OnceInv
<1>15. TallyInv'
  <2>1. /\ probe.verified <= truth.witnessed /\ probe.overlaps <= truth.inTime
        /\ probe.baseline <= SafetyTicks => probe.verified <= truth.untimed
    BY <1>0 DEF TallyInv
  <2>2. /\ probe.verified + v <= truth.witnessed + w /\ probe.overlaps + o <= truth.inTime + i
        /\ probe.baseline <= SafetyTicks => probe.verified + v <= truth.untimed + u
    BY <1>1, <1>6, <1>10, <2>1
  <2> QED BY <1>7, <1>9, <1>11, <2>2 DEF TallyInv, InTrial
<1> QED BY <1>0, <1>12, <1>13, <1>14, <1>15 DEF PInv, VerdictIsEvidence, TimerIsNoEvidence

(***************************************************************************)
(* A helper's step.  Only the current trial's helper has a receiver, and   *)
(* it stores before it stamps.                                             *)
(***************************************************************************)
LEMMA HelpStep ==
  ASSUME PInv, NEW t \in Trials, Help(t)
  PROVE  PInv'
<1> DEFINE Helpers == {"off", "spin", "delay", "store", "stamp", "exited"}
<1>0. /\ TypeOK /\ OnceInv /\ TrialInv /\ TallyInv
      /\ UNCHANGED <<caps, once, callers, probe, clock, handoff, truth>>
  BY DEF PInv, Help, HelperGivesUp, HelperSeesHandoff, HelperDelay, HelperStore, HelperStamp
<1>1. /\ helper[t] # "off" /\ ~(t > current)
      /\ helper \in [Trials -> Helpers]
      /\ clock \in Nat /\ Never \in Nat /\ clock <= Never /\ clock \in Instants
  <2>1. MaxClock \in Nat /\ clock \in 0..MaxClock
    BY <1>0, PreflightAssumption DEF TypeOK
  <2>2. helper[t] # "off"
    BY DEF Help, HelperGivesUp, HelperSeesHandoff, HelperDelay, HelperStore, HelperStamp, HelperStep
  <2> QED BY <1>0, <2>1, <2>2 DEF TypeOK, TrialInv, Never, Instants
<1>2. PICK next \in Helpers \ {"off"} : helper' = [helper EXCEPT ![t] = next]
  BY DEF Help, HelperGivesUp, HelperSeesHandoff, HelperDelay, HelperStore, HelperStamp, HelperStep
<1>3. helper' \in [Trials -> Helpers] /\ \A s \in Trials : helper'[s] = IF s = t THEN next ELSE helper[s]
  BY <1>1, <1>2
<1>4. /\ target' \in [Trials -> {0, 1}] /\ monitor' \in {"off", "armed", "triggered"}
      /\ channel' \in Instants /\ trial' \in [stored : Instants, by : {"none", "load", "monitor", "timer"}]
      /\ trial'.by = trial.by
  <2>1. CASE HelperGivesUp(t) \/ HelperSeesHandoff(t) \/ HelperDelay(t)
    BY <1>0, <2>1 DEF HelperGivesUp, HelperSeesHandoff, HelperDelay, TypeOK
  <2>2. CASE HelperStore(t)
    BY <1>0, <1>1, <2>2 DEF HelperStore, TypeOK
  <2>3. CASE HelperStamp(t)
    BY <1>0, <1>1, <2>3 DEF HelperStamp, TypeOK
  <2> QED BY <2>1, <2>2, <2>3 DEF Help
<1>5. /\ trial'.stored <= channel'
      /\ t = current /\ next # "exited" => channel' = Never
      /\ t = current /\ next = "stamp" => trial'.stored <= clock
      /\ t # current => channel' = channel /\ trial' = trial
  <2>0. \A s : next = s => helper'[t] = s
    BY <1>3
  <2>1. CASE HelperGivesUp(t) \/ HelperSeesHandoff(t) \/ HelperDelay(t)
    <3>1. /\ UNCHANGED <<channel, trial>> /\ helper[t] # "exited"
          /\ helper'[t] \in {"exited", "delay", "store"}
      BY <1>1, <2>1 DEF HelperGivesUp, HelperSeesHandoff, HelperDelay, HelperStep
    <3> QED BY <1>0, <1>3, <3>1 DEF TrialInv
  <2>2. CASE HelperStore(t)
    <3>1. /\ helper[t] = "store" /\ channel' = channel
          /\ trial' = IF t = current THEN [trial EXCEPT !.stored = clock] ELSE trial
      BY <2>2 DEF HelperStore, HelperStep
    <3>2. t = current => channel = Never /\ trial'.stored = clock
      BY <1>0, <3>1 DEF TrialInv, TypeOK
    <3>3. trial.stored <= channel
      BY <1>0 DEF TrialInv
    <3> QED BY <1>1, <3>1, <3>2, <3>3
  <2>3. CASE HelperStamp(t)
    <3>1. /\ helper[t] = "stamp" /\ trial' = trial /\ helper'[t] = "exited"
          /\ channel' = IF t = current THEN clock ELSE channel
      BY <1>1, <2>3 DEF HelperStamp, HelperStep
    <3>2. next = "exited"
      BY <1>3, <3>1
    <3> QED BY <1>0, <3>1, <3>2 DEF TrialInv
  <2> QED BY <2>1, <2>2, <2>3 DEF Help
<1>6. TypeOK'
  BY <1>0, <1>3, <1>4 DEF TypeOK
<1>7. OnceInv'
  BY <1>0 DEF OnceInv, OneVerdict
<1>8. TrialInv'
  <2>1. current' = current
    BY <1>0 DEF current
  <2>2. \A s \in Trials : s > current => helper'[s] = "off"
    BY <1>0, <1>1, <1>3 DEF TrialInv
  <2>3. \A s \in Trials : /\ s = current /\ helper'[s] # "exited" => channel' = Never
                          /\ s = current /\ helper'[s] = "stamp" => trial'.stored <= clock
    BY <1>0, <1>3, <1>5 DEF TrialInv
  <2> QED BY <1>0, <1>4, <1>5, <2>1, <2>2, <2>3 DEF TrialInv
<1>9. TallyInv' /\ current' = current
  BY <1>0 DEF TallyInv, current
<1> QED BY <1>0, <1>6, <1>7, <1>8, <1>9 DEF PInv, VerdictIsEvidence, TimerIsNoEvidence

(***************************************************************************)
(* Interrupts and the passing of time.                                     *)
(***************************************************************************)
LEMMA SurroundingStep ==
  ASSUME PInv, Disturb \/ Tick
  PROVE  PInv'
<1>0. /\ TypeOK /\ OnceInv /\ TrialInv /\ TallyInv
      /\ UNCHANGED <<caps, once, callers, probe, target, handoff, helper, channel, trial, truth>>
      /\ monitor' \in {"off", "armed", "triggered"}
  BY DEF PInv, Disturb, Tick, TypeOK
<1>1. clock \in Nat /\ clock' \in 0..MaxClock /\ clock' >= clock
  <2>1. MaxClock \in Nat /\ clock \in 0..MaxClock
    BY <1>0, PreflightAssumption DEF TypeOK
  <2> QED BY <2>1 DEF Disturb, Tick
<1>2. TypeOK'
  BY <1>0, <1>1 DEF TypeOK
<1>3. OnceInv' /\ TallyInv'
  BY <1>0 DEF OnceInv, OneVerdict, TallyInv, current
<1>4. TrialInv'
  <2>1. Instants \subseteq Nat /\ SafetyTicks \in Nat /\ clock' \in Nat
    BY <1>1, PreflightAssumption DEF Instants, Never
  <2>2. trial.stored \in Nat /\ probe.finished \in Nat
    BY <1>0, <2>1 DEF TypeOK
  <2> QED BY <1>0, <1>1, <2>1, <2>2 DEF TrialInv, current
<1> QED BY <1>0, <1>2, <1>3, <1>4 DEF PInv, VerdictIsEvidence, TimerIsNoEvidence

(***************************************************************************)
(* The invariant of the preflight.                                         *)
(***************************************************************************)
THEOREM PreflightInvariance == Spec => []PInv
<1>1. Init => PInv
  BY PreflightInit
<1>2. PInv /\ [Next]_vars => PInv'
  <2> SUFFICES ASSUME PInv, [Next]_vars
               PROVE  PInv'
    OBVIOUS
  <2>1. ASSUME NEW c \in Callers, new(c) \/ preflight(c) \/ Unblock(c)
        PROVE  PInv'
    BY <2>1, CallerStep
  <2>2. CASE Probe
    BY <2>2, PrepareStep, SpawnStep, WaitStep, ReceiveStep, ProbeDoneStep DEF Probe
  <2>3. CASE MonitorWake \/ TimerWake
    BY <2>3, WaitStep
  <2>4. ASSUME NEW t \in Trials, Help(t)
        PROVE  PInv'
    BY <2>4, HelpStep
  <2>5. CASE Disturb \/ Tick
    BY <2>5, SurroundingStep
  <2>6. CASE UNCHANGED vars
    <3>1. TypeOK'
      BY <2>6 DEF vars, PInv, TypeOK
    <3>2. OnceInv' /\ VerdictIsEvidence' /\ TimerIsNoEvidence'
      BY <2>6 DEF vars, PInv, OnceInv, OneVerdict, VerdictIsEvidence, TimerIsNoEvidence
    <3>3. TrialInv' /\ TallyInv'
      BY <2>6 DEF vars, PInv, TrialInv, TallyInv, current
    <3> QED BY <3>1, <3>2, <3>3 DEF PInv
  <2> QED BY <2>1, <2>2, <2>3, <2>4, <2>5, <2>6 DEF Next
<1> QED BY <1>1, <1>2, PTL DEF Spec

(***************************************************************************)
(* The OnceLock, the callers and the probe keep their types: no more than  *)
(* PREFLIGHT_STORE_ATTEMPTS trials are made.                               *)
(***************************************************************************)
THEOREM PreflightTypes == Spec => []TypeOK
<1>1. PInv => TypeOK
  BY DEF PInv
<1> QED BY <1>1, PreflightInvariance, PTL

(***************************************************************************)
(* Every caller and every constructor is told the one cached verdict or    *)
(* none, however many of them there are.                                   *)
(***************************************************************************)
THEOREM VerdictsAgree == Spec => []OneVerdict
<1>1. PInv => OneVerdict
  BY DEF PInv, OnceInv
<1> QED BY <1>1, PreflightInvariance, PTL

(***************************************************************************)
(* Success means that the required number of stores was observed in time,  *)
(* and a failure to observe that there was something to observe.           *)
(***************************************************************************)
THEOREM VerdictsAreEvidence == Spec => []VerdictIsEvidence
<1>1. PInv => VerdictIsEvidence
  BY DEF PInv
<1> QED BY <1>1, PreflightInvariance, PTL

(***************************************************************************)
(* With a baseline up to the safety timeout no wait ended by its timer is  *)
(* taken for a store wake.                                                 *)
(***************************************************************************)
THEOREM TimersAreNoEvidence == Spec => []TimerIsNoEvidence
<1>1. PInv => TimerIsNoEvidence
  BY DEF PInv
<1> QED BY <1>1, PreflightInvariance, PTL

(***************************************************************************)
(* A verdict is final, that of a panic included: no later call, late       *)
(* helper or interrupt changes what the OnceLock holds.                    *)
(***************************************************************************)
THEOREM VerdictIsFinal == Spec => [][once.state = "done" => once' = once]_vars
<1>1. ASSUME PInv, [Next]_vars
      PROVE  [once.state = "done" => once' = once]_vars
  <2> SUFFICES ASSUME once.state = "done", Next
               PROVE  once' = once
    BY <1>1
  <2>1. probe.pc = "off"
    BY <1>1 DEF PInv, OnceInv, TypeOK
  <2>2. ~Probe
    BY <2>1 DEF Probe, Prepare, Baseline, Spawn, Panic, FirstLoad, Arm, Recheck, Handoff, LastLoad,
       Sleep, FinalLoad, Finish, Receive, ProbeDone, ProbeLoad
  <2>3. ASSUME NEW c \in Callers, new(c) \/ preflight(c) \/ Unblock(c)
        PROVE  once' = once
    BY <2>3 DEF new, preflight, Unblock
  <2> QED BY <2>2, <2>3 DEF Next, MonitorWake, TimerWake, Wake, Help, HelperGivesUp,
          HelperSeesHandoff, HelperDelay, HelperStore, HelperStamp, Disturb, Tick
<1> QED BY <1>1, PreflightInvariance, PTL DEF Spec

-----------------------------------------------------------------------------
(* The calibrated timer.                                                   *)

TrueHz == machine.rate * NanosPerSecond

\* x is what the TSC of CPU c showed at some time of this sample.
ReadOf(x, c) == \E t \in 0..now : x = Offsets[c] + machine.rate * t

Sampling == {"first", "spin", "last", "elapsed"}

\* Both reads of a sample are readings of the true clocks of their CPUs.
ReadsInv ==
  /\ pc \in {"spin", "last", "elapsed"} => ReadOf(sample.first, sample.first_aux)
  /\ pc = "elapsed" => ReadOf(sample.last, sample.last_aux)

\* No sample is fast; the loop collects Samples of them in Attempts rounds.
SamplesInv ==
  /\ \A i \in DOMAIN samples : samples[i] <= TrueHz
  /\ pc \in {"calibrate", "start"} \cup Sampling => Len(samples) < Samples
  /\ pc \in {"calibrate", "start"} => attempts < Attempts
  /\ pc = "config" => Len(samples) = Samples

SafetyInv ==
  pc = "ready" =>
    /\ safety_cycles > 0
    /\ safety_cycles = 1 \/ safety_cycles <= machine.rate * SafetyTimeout

\* The inductive invariant of the calibration.
CInv == TimerTypeOK /\ ReadsInv /\ SamplesInv /\ SafetyInv /\ TimerNeverFast /\ NeverOversleeps /\ TimerIsArmed

(***************************************************************************)
(* The smallest of some naturals exists: conservative_timer_hz starts from *)
(* the minimum of its samples.                                             *)
(***************************************************************************)
LEMMA LeastNatural ==
  ASSUME NEW S \in SUBSET Nat, S # {}
  PROVE  Min(S) \in S /\ \A n \in S : Min(S) <= n
<1> DEFINE R == OpToRel(<, Nat)
<1>1. PICK m \in S : \A n \in S : ~(<<n, m>> \in R)
  <2>1. IsWellFoundedOn(R, Nat)
    BY NatLessThanWellFounded
  <2> HIDE DEF R
  <2> QED BY <2>1, WFMin
<1>2. ASSUME NEW n \in S
      PROVE  m <= n
  <2>1. ~(n < m)
    <3>1. <<n, m>> \in Nat \X Nat /\ <<n, m>>[1] = n /\ <<n, m>>[2] = m
      OBVIOUS
    <3> QED BY <1>1, <3>1 DEF OpToRel
  <2> QED BY <2>1
<1> QED BY <1>2 DEF Min

(***************************************************************************)
(* A quotient is bounded by what the dividend is a multiple of at most.    *)
(***************************************************************************)
LEMMA DivBound ==
  ASSUME NEW a \in Nat, NEW n \in Nat \ {0}, NEW c \in Nat, a <= c * n
  PROVE  a \div n \in Nat /\ a \div n <= c
<1> DEFINE q == a \div n
<1>1. q \in Nat /\ n * q <= a
  OBVIOUS
<1> HIDE DEF q
<1>2. CASE q > c
  <2>1. n * q >= n * (c + 1)
    BY <1>1, <1>2
  <2>2. n * (c + 1) = c * n + n
    OBVIOUS
  <2> QED BY <1>1, <2>1, <2>2
<1> QED BY <1>1, <1>2 DEF q

(***************************************************************************)
(* Products of naturals are monotone in their factors.                     *)
(***************************************************************************)
LEMMA Product ==
  ASSUME NEW a \in Nat, NEW b \in Nat, NEW c \in Nat, NEW d \in Nat, a <= c, b <= d
  PROVE  a * b \in Nat /\ c * d \in Nat /\ a * b <= c * d
<1>1. a * b <= c * b
  OBVIOUS
<1>2. c * b <= c * d
  OBVIOUS
<1> QED BY <1>1, <1>2

(***************************************************************************)
(* The larger and the smaller of two naturals.                             *)
(***************************************************************************)
LEMMA Pair ==
  ASSUME NEW a \in Nat, NEW b \in Nat
  PROVE  /\ Max({a, b}) \in Nat /\ Max({a, b}) >= a /\ Max({a, b}) >= b
         /\ Min({a, b}) = IF a <= b THEN a ELSE b
<1>1. \E x \in {a, b} : \A y \in {a, b} : x >= y
  OBVIOUS
<1>2. Max({a, b}) \in {a, b} /\ \A y \in {a, b} : Max({a, b}) >= y
  BY <1>1 DEF Max
<1>3. \E x \in {a, b} : \A y \in {a, b} : x <= y
  OBVIOUS
<1>4. Min({a, b}) \in {a, b} /\ \A y \in {a, b} : Min({a, b}) <= y
  BY <1>3 DEF Min
<1> QED BY <1>2, <1>4

(***************************************************************************)
(* The numbers the arithmetic of the calibration is about.                 *)
(***************************************************************************)
LEMMA TimerNumbers ==
  /\ {NanosPerSecond, Samples, Attempts, U32Max, U64Max} \subseteq Nat \ {0}
  /\ {Interval, SafetyTimeout, MaxNow} \subseteq Nat
  /\ U32Max <= U64Max
  /\ TimerTypeOK => machine.rate \in Nat \ {0} /\ now \in Nat /\ Offsets[cpu] \in Nat
<1>1. {Interval, SafetyTimeout, MaxNow} \subseteq Nat
  BY CalibrationAssumption
<1>2. TimerTypeOK => machine.rate \in Rates /\ now \in 0..MaxNow /\ cpu \in Cpus
  BY DEF TimerTypeOK
<1>3. TimerTypeOK => machine.rate \in Nat \ {0} /\ Offsets[cpu] \in Nat
  BY <1>2, CalibrationAssumption
<1>4. TimerTypeOK => now \in Nat
  BY <1>1, <1>2
<1> QED BY <1>3, <1>4, CalibrationAssumption

(***************************************************************************)
(* A sample within one CPU is no faster than the machine, however late its *)
(* reads were: the time is taken around them.                              *)
(***************************************************************************)
LEMMA SampleNotFast ==
  ASSUME TimerTypeOK, ReadOf(sample.first, sample.first_aux), ReadOf(sample.last, sample.last_aux)
  PROVE  LET f == tsc_frequency_from_observation(sample, now)
         IN f \in Word /\ f <= TrueHz
<1> DEFINE f == tsc_frequency_from_observation(sample, now)
           r == machine.rate
           ticks == sample.last - sample.first
<1>0. r \in Nat \ {0} /\ now \in Nat /\ NanosPerSecond \in Nat \ {0} /\ U64Max \in Nat \ {0}
  BY TimerNumbers
<1>1. TrueHz \in Nat /\ TrueHz >= 1
  BY <1>0, Product DEF TrueHz
<1>2. CASE f = None
  BY <1>0, <1>1, <1>2 DEF None, Word
<1>3. CASE f # None
  <2>1. /\ sample.first_aux = sample.last_aux /\ sample.first < sample.last /\ now # 0
        /\ f = frequency_hz(ticks, now)
    BY <1>0, <1>3 DEF tsc_frequency_from_observation, TimerTypeOK
  <2>2. PICK t1 \in 0..now : sample.first = Offsets[sample.first_aux] + r * t1
    BY DEF ReadOf
  <2>3. PICK t2 \in 0..now : sample.last = Offsets[sample.last_aux] + r * t2
    BY DEF ReadOf
  <2>4. Offsets[sample.first_aux] \in Nat
    BY CalibrationAssumption DEF TimerTypeOK
  <2>5. t1 \in Nat /\ t2 \in Nat /\ t2 <= now
    BY <1>0
  <2>6. r * t1 \in Nat /\ r * t2 \in Nat /\ r * now \in Nat /\ r * t2 <= r * now
    <3> HIDE DEF r
    <3> QED BY <1>0, <2>5, Product
  <2>7. ticks \in Nat /\ ticks <= r * now
    <3>1. sample.last = Offsets[sample.first_aux] + r * t2
      BY <2>1, <2>3
    <3> QED BY <2>1, <2>2, <2>4, <2>6, <3>1
  <2>8. /\ (ticks * NanosPerSecond) \div now \in Nat
        /\ (ticks * NanosPerSecond) \div now <= TrueHz
    <3> HIDE DEF ticks, r
    <3>1. ticks * NanosPerSecond \in Nat /\ ticks * NanosPerSecond <= (r * now) * NanosPerSecond
      BY <1>0, <2>6, <2>7, Product
    <3>2. (r * now) * NanosPerSecond = (r * NanosPerSecond) * now
      BY <1>0
    <3>3. ticks * NanosPerSecond <= TrueHz * now
      BY <3>1, <3>2 DEF TrueHz, r
    <3> QED BY <1>0, <1>1, <2>1, <3>1, <3>3, DivBound
  <2>9. clamp(now, 1, now + 1) = now
    BY <1>0, <2>1 DEF clamp
  <2> HIDE DEF ticks, f
  <2> DEFINE q == (ticks * NanosPerSecond) \div now
  <2>10. f = clamp(q, 1, U64Max)
    BY <2>1, <2>9 DEF frequency_hz
  <2> HIDE DEF q
  <2>11. q \in Nat /\ q <= TrueHz
    BY <2>8 DEF q
  <2> QED BY <1>0, <1>1, <2>10, <2>11 DEF clamp, Word, f
<1> QED BY <1>2, <1>3

(***************************************************************************)
(* The frequency a processor is configured with is below its slowest       *)
(* sample, so below its true one, also where a product saturates.          *)
(***************************************************************************)
LEMMA ConservativeNotFast ==
  ASSUME TimerTypeOK, SamplesInv, pc = "config"
  PROVE  conservative_timer_hz(samples) \in Word /\ conservative_timer_hz(samples) <= TrueHz
<1> DEFINE seen == {samples[i] : i \in DOMAIN samples}
           m == Min(seen)
           product == saturating_mul(m, 80)
<1>0. TrueHz \in Nat /\ U64Max \in Nat
  BY TimerNumbers, Product DEF TrueHz
<1>1. seen \in SUBSET Word /\ \A f \in seen : f <= TrueHz
  BY DEF TimerTypeOK, SamplesInv
<1>2. seen # {}
  <2>1. 1 \in DOMAIN samples
    BY TimerNumbers DEF TimerTypeOK, SamplesInv
  <2> QED BY <2>1
<1>3. m \in Word /\ m <= TrueHz
  <2> HIDE DEF seen
  <2>1. seen \in SUBSET Nat
    BY <1>0, <1>1 DEF Word
  <2> QED BY <1>1, <1>2, <2>1, LeastNatural
<1>4. conservative_timer_hz(samples) \in {None, product \div 100}
  BY DEF conservative_timer_hz
<1> HIDE DEF seen, m
<1>5. product \in Nat /\ product <= m * 100
  BY <1>0, <1>3 DEF saturating_mul, clamp, Word
<1>6. product \div 100 \in Nat /\ product \div 100 <= m
  <2> HIDE DEF product
  <2> QED BY <1>0, <1>3, <1>5, DivBound DEF Word
<1> HIDE DEF product
<1> QED BY <1>0, <1>3, <1>4, <1>6 DEF None, Word

(***************************************************************************)
(* A duration is programmed as at least one cycle, and as no more than it  *)
(* lasts on a machine whose configured frequency is not fast.              *)
(***************************************************************************)
LEMMA CyclesNotLate ==
  ASSUME TimerTypeOK, NEW duration \in Nat, NEW hz \in Word, hz <= TrueHz
  PROVE  LET cycles == duration_to_cycles(duration, hz)
         IN cycles \in Word /\ cycles > 0 /\ (cycles = 1 \/ cycles <= machine.rate * duration)
<1> DEFINE r == machine.rate
           q == (duration * hz) \div NanosPerSecond
<1>1. r \in Nat \ {0} /\ NanosPerSecond \in Nat \ {0} /\ hz \in Nat
  BY TimerNumbers DEF Word
<1>2. CyclesMax \in Nat \ {0} /\ CyclesMax <= U64Max /\ U64Max \in Nat
  BY TimerNumbers DEF CyclesMax
<1>3. r * duration \in Nat /\ q \in Nat /\ q <= r * duration
  <2> HIDE DEF r
  <2>1. hz <= r * NanosPerSecond /\ r * NanosPerSecond \in Nat
    BY <1>1 DEF TrueHz, r
  <2>2. duration * hz \in Nat /\ duration * hz <= duration * (r * NanosPerSecond)
    BY <1>1, <2>1, Product
  <2>3. duration * (r * NanosPerSecond) = (r * duration) * NanosPerSecond /\ r * duration \in Nat
    BY <1>1
  <2> QED BY <1>1, <2>2, <2>3, DivBound
<1>4. duration_to_cycles(duration, hz) = clamp(q, 1, CyclesMax)
  BY DEF duration_to_cycles
<1> HIDE DEF q, r
<1>5. /\ clamp(q, 1, CyclesMax) \in Word /\ clamp(q, 1, CyclesMax) > 0
      /\ clamp(q, 1, CyclesMax) = 1 \/ clamp(q, 1, CyclesMax) <= r * duration
  BY <1>2, <1>3 DEF clamp, Word
<1> QED BY <1>4, <1>5 DEF r

(***************************************************************************)
(* The calibration starts with no sample and no programmed wait.           *)
(***************************************************************************)
LEMMA TimerStarts == TimerInit => CInv
<1> SUFFICES ASSUME TimerInit
             PROVE  CInv
  OBVIOUS
<1>1. TimerTypeOK
  <2>1. sample \in [first : Nat, first_aux : Cpus, last : Nat, last_aux : Cpus]
    BY DEF TimerInit, NoSample
  <2>2. wait \in [remaining : Timeouts \cup {0}, cycles : Word, tsc : Nat, deadline : Word]
    BY TimerNumbers DEF TimerInit, NoWait, Word
  <2>3. 0 \in Word /\ 0 \in 0..MaxNow /\ 0 \in 0..Attempts /\ 0 <= Samples
    BY TimerNumbers DEF Word
  <2> QED BY <2>1, <2>2, <2>3 DEF TimerInit, TimerTypeOK, PCs
<1>2. ReadsInv /\ SamplesInv /\ SafetyInv
  BY TimerNumbers DEF TimerInit, ReadsInv, SamplesInv, SafetyInv
<1>3. TimerNeverFast
  BY <1>1, TimerNumbers, Product DEF TimerInit, TimerNeverFast
<1>4. NeverOversleeps
  <2>1. Min({0, SafetyTimeout}) = 0
    BY TimerNumbers, Pair
  <2>2. machine.rate * 0 = 0
    BY <1>1, TimerNumbers
  <2>3. Max({1, 0}) >= 1
    BY Pair
  <2>4. wait.remaining = 0 /\ wait.cycles = 1
    BY DEF TimerInit, NoWait
  <2> QED BY <2>1, <2>2, <2>3, <2>4 DEF NeverOversleeps
<1>5. TimerIsArmed
  BY DEF TimerInit, NoWait, TimerIsArmed
<1> QED BY <1>1, <1>2, <1>3, <1>4, <1>5 DEF CInv

(***************************************************************************)
(* A programmed wait ends by the earlier of the remaining timeout and the  *)
(* safety timeout, and its timer is live.                                  *)
(***************************************************************************)
LEMMA ProgramWaitStep ==
  ASSUME CInv, NEW remaining \in Timeouts, ProgramWait(remaining)
  PROVE  CInv'
<1> DEFINE r == machine.rate
           cycles == timeout_cycles(remaining)
           least == Min({remaining, SafetyTimeout})
           deadline == saturating_add(tsc, clamp(cycles, 1, U64Max))
<1> USE DEF CInv
<1>0. remaining \in Nat /\ SafetyTimeout \in Nat /\ r \in Nat /\ U64Max \in Nat
  BY TimerNumbers, CalibrationAssumption
<1>1. pc = "ready"
  BY DEF ProgramWait
<1>2. wait' = [remaining |-> remaining, cycles |-> cycles, tsc |-> tsc, deadline |-> deadline]
  BY DEF ProgramWait
<1>3. cycles \in Word /\ cycles > 0 /\ (cycles = 1 \/ cycles <= r * least)
  <2>1. least = IF remaining <= SafetyTimeout THEN remaining ELSE SafetyTimeout
    BY <1>0, Pair
  <2>2. CASE remaining < SafetyTimeout
    <3>1. least = remaining
      BY <1>0, <2>1, <2>2
    <3>2. cycles = duration_to_cycles(remaining, timer_hz)
      BY <2>2 DEF timeout_cycles
    <3>3. timer_hz \in Word /\ timer_hz <= TrueHz
      BY DEF TimerTypeOK, TimerNeverFast, TrueHz
    <3> QED BY <1>0, <3>1, <3>2, <3>3, CyclesNotLate
  <2>3. CASE ~(remaining < SafetyTimeout)
    <3>1. least = SafetyTimeout
      BY <1>0, <2>1, <2>3
    <3>2. cycles = safety_cycles
      BY <2>3 DEF timeout_cycles
    <3> QED BY <1>1, <3>1, <3>2 DEF SafetyInv, TimerTypeOK
  <2> QED BY <2>2, <2>3
<1>4. tsc \in Nat
  BY TimerNumbers, Product DEF tsc
<1> HIDE DEF cycles
<1>5. deadline \in Word /\ (deadline > tsc \/ deadline = U64Max)
  BY <1>0, <1>3, <1>4 DEF saturating_add, clamp, Word
<1> HIDE DEF deadline
<1>6. TimerTypeOK'
  <2>1. wait' \in [remaining : Timeouts \cup {0}, cycles : Word, tsc : Nat, deadline : Word]
    BY <1>2, <1>3, <1>4, <1>5
  <2>2. UNCHANGED <<machine, now, cpu, pc, sample, samples, attempts, timer_hz, safety_cycles>>
    BY DEF ProgramWait
  <2> QED BY <2>1, <2>2 DEF TimerTypeOK
<1>7. NeverOversleeps'
  <2>1. least \in Nat
    BY <1>0, Pair
  <2>2. r * least \in Nat
    BY <1>0, <2>1
  <2>3. Max({1, r * least}) \in Nat /\ Max({1, r * least}) >= 1 /\ Max({1, r * least}) >= r * least
    <3> HIDE DEF r, least
    <3> QED BY <2>2, Pair
  <2>4. cycles <= Max({1, r * least})
    <3> DEFINE all == r * least
               most == Max({1, all})
    <3>1. all \in Nat /\ (cycles = 1 \/ cycles <= all)
      BY <1>3, <2>2
    <3>2. cycles \in Nat
      BY <1>0, <1>3 DEF Word
    <3> HIDE DEF all
    <3>3. most \in Nat /\ most >= 1 /\ most >= all
      BY <2>3 DEF all
    <3> HIDE DEF most
    <3>4. cycles <= most
      BY <3>1, <3>2, <3>3
    <3> QED BY <3>4 DEF most, all
  <2>5. machine' = machine /\ wait'.remaining = remaining /\ wait'.cycles = cycles
    BY <1>2 DEF ProgramWait
  <2> QED BY <2>4, <2>5 DEF NeverOversleeps
<1>8. TimerIsArmed'
  BY <1>2, <1>3, <1>5 DEF TimerIsArmed
<1>9. ReadsInv' /\ SamplesInv' /\ SafetyInv' /\ TimerNeverFast'
  BY DEF ProgramWait, ReadsInv, ReadOf, SamplesInv, Sampling, TrueHz, SafetyInv, TimerNeverFast
<1> QED BY <1>6, <1>7, <1>8, <1>9

(***************************************************************************)
(* A step that leaves the programmed wait alone keeps what is true of it.  *)
(***************************************************************************)
LEMMA WaitUnchanged ==
  ASSUME NeverOversleeps, TimerIsArmed, machine' = machine, wait' = wait
  PROVE  NeverOversleeps' /\ TimerIsArmed'
BY DEF NeverOversleeps, TimerIsArmed

(***************************************************************************)
(* Before the second read of a sample: what a delay or a migration at any  *)
(* of these points can change.                                             *)
(***************************************************************************)
LEMMA SamplingStep ==
  ASSUME CInv,
         \/ calibrate_timer_hz \/ StartSample \/ ReadFirst \/ SpinOver \/ ReadLast
         \/ TimePasses \/ \E c \in Cpus : Migrate(c)
  PROVE  CInv'
<1> USE DEF CInv
<1>0. /\ now \in Nat /\ MaxNow \in Nat /\ Attempts \in Nat /\ Samples \in Nat \ {0} /\ tsc \in Nat
      /\ machine.rate \in Nat
  BY TimerNumbers, Product DEF tsc
<1>1. machine' = machine /\ wait' = wait /\ samples' = samples /\ timer_hz' = timer_hz
      /\ safety_cycles' = safety_cycles
  BY DEF calibrate_timer_hz, StartSample, ReadFirst, SpinOver, ReadLast, TimePasses, Migrate
<1>2. NeverOversleeps' /\ TimerIsArmed'
  BY <1>1, WaitUnchanged
<1>3. TimerNeverFast'
  BY <1>1 DEF TimerNeverFast
<1>4. TimerTypeOK'
  <2>1. /\ machine' \in [backend : {"AmdMwaitx", "IntelUmwait"}, usable : BOOLEAN, rate : Rates]
        /\ samples' \in Seq(Word) /\ Len(samples') <= Samples
        /\ timer_hz' \in Word /\ safety_cycles' \in Word
        /\ wait' \in [remaining : Timeouts \cup {0}, cycles : Word, tsc : Nat, deadline : Word]
    BY <1>1 DEF TimerTypeOK
  <2>2. now' \in 0..MaxNow /\ attempts' \in 0..Attempts
    <3>1. now \in 0..MaxNow /\ attempts \in 0..Attempts /\ (pc = "start" => attempts < Attempts)
      BY DEF TimerTypeOK, SamplesInv
    <3>2. \/ now' = now /\ attempts' = attempts
          \/ now' = 0 /\ attempts' = attempts + 1 /\ pc = "start"
          \/ now < MaxNow /\ now' = now + 1 /\ attempts' = attempts
      BY DEF calibrate_timer_hz, StartSample, ReadFirst, SpinOver, ReadLast, TimePasses, Migrate
    <3> QED BY <1>0, <3>1, <3>2
  <2>3. cpu' \in Cpus /\ pc' \in PCs
    BY DEF calibrate_timer_hz, StartSample, ReadFirst, SpinOver, ReadLast, TimePasses, Migrate,
       TimerTypeOK, Goto, PCs
  <2>4. sample' \in [first : Nat, first_aux : Cpus, last : Nat, last_aux : Cpus]
    BY <1>0 DEF calibrate_timer_hz, StartSample, ReadFirst, SpinOver, ReadLast, TimePasses, Migrate,
       TimerTypeOK
  <2> QED BY <2>1, <2>2, <2>3, <2>4 DEF TimerTypeOK
<1>5. SamplesInv'
  BY <1>0, <1>1 DEF calibrate_timer_hz, StartSample, ReadFirst, SpinOver, ReadLast, TimePasses,
     Migrate, Goto, SamplesInv, Sampling, TrueHz
<1>6. SafetyInv'
  BY <1>1 DEF calibrate_timer_hz, StartSample, ReadFirst, SpinOver, ReadLast, TimePasses,
     Migrate, Goto, SafetyInv
<1>7. ReadsInv'
  <2>1. CASE calibrate_timer_hz \/ StartSample
    BY <2>1 DEF calibrate_timer_hz, StartSample, Goto, ReadsInv
  <2>2. CASE ReadFirst
    <3>1. sample' = [sample EXCEPT !.first = tsc, !.first_aux = cpu] /\ now' = now /\ pc' = "spin"
      BY <2>2 DEF ReadFirst, Goto
    <3>2. sample'.first = tsc /\ sample'.first_aux = cpu
      BY <3>1 DEF TimerTypeOK
    <3>3. ReadOf(sample.first, sample.first_aux)'
      <4>1. now' \in 0..now'
        BY <1>0, <3>1
      <4> QED BY <1>1, <3>1, <3>2, <4>1 DEF ReadOf, tsc
    <3> QED BY <3>1, <3>3 DEF ReadsInv
  <2>3. CASE ReadLast
    <3>1. /\ sample' = [sample EXCEPT !.last = tsc, !.last_aux = cpu]
          /\ now' = now /\ pc = "last" /\ pc' = "elapsed"
      BY <2>3 DEF ReadLast, Goto
    <3>2. /\ sample'.last = tsc /\ sample'.last_aux = cpu
          /\ sample'.first = sample.first /\ sample'.first_aux = sample.first_aux
      BY <3>1 DEF TimerTypeOK
    <3>3. ReadOf(sample.last, sample.last_aux)'
      <4>1. now' \in 0..now'
        BY <1>0, <3>1
      <4> QED BY <1>1, <3>1, <3>2, <4>1 DEF ReadOf, tsc
    <3>4. ReadOf(sample.first, sample.first_aux)'
      BY <1>1, <3>1, <3>2 DEF ReadsInv, ReadOf
    <3> QED BY <3>1, <3>3, <3>4 DEF ReadsInv
  <2>4. CASE SpinOver \/ TimePasses \/ \E c \in Cpus : Migrate(c)
    <3>1. sample' = sample /\ now' \in Nat /\ now <= now'
      BY <1>0, <2>4 DEF SpinOver, TimePasses, Migrate
    <3>2. pc' = pc \/ (pc = "spin" /\ pc' = "last")
      BY <2>4 DEF SpinOver, TimePasses, Migrate, Goto
    <3>3. \A t \in 0..now : t \in 0..now'
      BY <1>0, <3>1
    <3>4. ASSUME NEW x, NEW c, ReadOf(x, c)
          PROVE  \E t \in 0..now' : x = Offsets[c] + machine'.rate * t
      BY <1>1, <3>3, <3>4 DEF ReadOf
    <3>5. pc' \in {"spin", "last", "elapsed"} => ReadOf(sample.first, sample.first_aux)'
      <4>1. ASSUME pc' \in {"spin", "last", "elapsed"}
            PROVE  ReadOf(sample.first, sample.first_aux)
        BY <3>2, <4>1 DEF ReadsInv
      <4> QED BY <3>1, <3>4, <4>1 DEF ReadOf
    <3>6. pc' = "elapsed" => ReadOf(sample.last, sample.last_aux)'
      <4>1. ASSUME pc' = "elapsed"
            PROVE  ReadOf(sample.last, sample.last_aux)
        BY <3>2, <4>1 DEF ReadsInv
      <4> QED BY <3>1, <3>4, <4>1 DEF ReadOf
    <3> QED BY <3>5, <3>6 DEF ReadsInv
  <2> QED BY <2>1, <2>2, <2>3, <2>4
<1> QED BY <1>2, <1>3, <1>4, <1>5, <1>6, <1>7

(***************************************************************************)
(* The end of a sample keeps a frequency only if it is not fast.           *)
(***************************************************************************)
LEMMA ElapsedStep ==
  ASSUME CInv, Elapsed
  PROVE  CInv'
<1> DEFINE f == tsc_frequency_from_observation(sample, now)
<1> USE DEF CInv
<1>0. Samples \in Nat \ {0} /\ Attempts \in Nat
  BY TimerNumbers
<1>1. /\ machine' = machine /\ wait' = wait /\ timer_hz' = timer_hz /\ safety_cycles' = safety_cycles
      /\ now' = now /\ cpu' = cpu /\ attempts' = attempts /\ pc = "elapsed"
      /\ samples' = (IF f = None THEN samples ELSE Append(samples, f)) /\ sample' = NoSample
      /\ pc' = IF Len(samples') = Samples THEN "config"
               ELSE IF attempts = Attempts THEN "failed" ELSE "start"
  BY DEF Elapsed, Goto
<1>2. NeverOversleeps' /\ TimerIsArmed'
  BY <1>1, WaitUnchanged
<1>3. f \in Word /\ f <= TrueHz
  BY <1>1, SampleNotFast DEF ReadsInv
<1> HIDE DEF f
<1>4. samples \in Seq(Word) /\ Len(samples) < Samples
  BY <1>1 DEF TimerTypeOK, SamplesInv, Sampling
<1>5. samples' \in Seq(Word) /\ Len(samples') <= Samples
  BY <1>0, <1>1, <1>3, <1>4
<1>6. \A i \in DOMAIN samples' : samples'[i] <= TrueHz
  BY <1>1, <1>3, <1>4 DEF SamplesInv
<1>7. TimerTypeOK'
  BY <1>1, <1>5 DEF TimerTypeOK, NoSample, PCs
<1>8. SamplesInv'
  <2>1. TrueHz' = TrueHz
    BY <1>1 DEF TrueHz
  <2>2. pc' \in {"config", "failed", "start"}
    BY <1>1
  <2>3. pc' = "start" => Len(samples') < Samples /\ attempts' < Attempts
    BY <1>0, <1>1, <1>5 DEF TimerTypeOK
  <2>4. pc' = "config" => Len(samples') = Samples
    BY <1>1
  <2> QED BY <1>6, <2>1, <2>2, <2>3, <2>4 DEF SamplesInv, Sampling
<1>9. ReadsInv' /\ SafetyInv' /\ TimerNeverFast'
  BY <1>1 DEF ReadsInv, SafetyInv, TimerNeverFast
<1> QED BY <1>2, <1>7, <1>8, <1>9

(***************************************************************************)
(* A configured processor has a safety timeout of at least one cycle that  *)
(* is not late.                                                            *)
(***************************************************************************)
LEMMA NewConfigStep ==
  ASSUME CInv, NewConfig
  PROVE  CInv'
<1> USE DEF CInv
<1>1. /\ machine' = machine /\ wait' = wait /\ now' = now /\ cpu' = cpu /\ sample' = sample
      /\ samples' = samples /\ attempts' = attempts /\ pc = "config"
      /\ timer_hz' = conservative_timer_hz(samples)
      /\ IF timer_hz' = None
         THEN pc' = "failed" /\ safety_cycles' = safety_cycles
         ELSE pc' = "ready" /\ safety_cycles' = duration_to_cycles(SafetyTimeout, timer_hz')
  BY DEF NewConfig, Goto
<1>2. NeverOversleeps' /\ TimerIsArmed'
  BY <1>1, WaitUnchanged
<1>3. timer_hz' \in Word /\ timer_hz' <= TrueHz
  BY <1>1, ConservativeNotFast
<1>4. safety_cycles' \in Word /\ (pc' = "ready" => SafetyInv')
  <2>1. CASE timer_hz' = None
    BY <1>1, <2>1 DEF TimerTypeOK
  <2>2. CASE timer_hz' # None
    <3>1. SafetyTimeout \in Nat
      BY TimerNumbers
    <3> QED BY <1>1, <1>3, <2>2, <3>1, CyclesNotLate DEF SafetyInv
  <2> QED BY <2>1, <2>2
<1>5. pc' \in {"failed", "ready"}
  BY <1>1
<1>6. TimerTypeOK'
  BY <1>1, <1>3, <1>4, <1>5 DEF TimerTypeOK, PCs
<1>7. ReadsInv' /\ SamplesInv' /\ SafetyInv'
  BY <1>1, <1>4, <1>5 DEF ReadsInv, SamplesInv, Sampling, SafetyInv, TrueHz
<1>8. TimerNeverFast'
  BY <1>1, <1>3 DEF TimerNeverFast, TrueHz
<1> QED BY <1>2, <1>6, <1>7, <1>8

(***************************************************************************)
(* The invariant of the calibration and of the waits programmed after it.  *)
(***************************************************************************)
THEOREM TimerInvariance == TimerSpec => []CInv
<1>1. CInv /\ [TimerNext]_timer_vars => CInv'
  <2> SUFFICES ASSUME CInv, [TimerNext]_timer_vars
               PROVE  CInv'
    OBVIOUS
  <2>1. CASE UNCHANGED timer_vars
    <3>1. TimerTypeOK'
      BY <2>1 DEF CInv, TimerTypeOK, timer_vars
    <3>2. ReadsInv' /\ SamplesInv' /\ SafetyInv' /\ TimerNeverFast'
      BY <2>1 DEF CInv, timer_vars, ReadsInv, ReadOf, SamplesInv, Sampling, SafetyInv,
         TimerNeverFast, TrueHz
    <3>3. NeverOversleeps' /\ TimerIsArmed'
      BY <2>1, WaitUnchanged DEF CInv, timer_vars
    <3> QED BY <3>1, <3>2, <3>3 DEF CInv
  <2>2. CASE TimerNext
    BY <2>2, SamplingStep, ElapsedStep, NewConfigStep, ProgramWaitStep DEF TimerNext
  <2> QED BY <2>1, <2>2
<1> QED BY <1>1, TimerStarts, PTL DEF TimerSpec

(***************************************************************************)
(* The calibrated frequency is never above the true one, for every number  *)
(* of CPUs, offset of their TSCs, rate, preemption and migration.          *)
(***************************************************************************)
THEOREM CalibrationIsNotFast == TimerSpec => []TimerNeverFast
<1>1. CInv => TimerNeverFast
  BY DEF CInv
<1> QED BY <1>1, TimerInvariance, PTL

(***************************************************************************)
(* No programmed wait outlasts the remaining timeout or the safety timeout *)
(* by more than the one cycle it lasts at least, for every timeout.        *)
(***************************************************************************)
THEOREM WaitsEndInTime == TimerSpec => []NeverOversleeps
<1>1. CInv => NeverOversleeps
  BY DEF CInv
<1> QED BY <1>1, TimerInvariance, PTL

(***************************************************************************)
(* Every programmed wait has a live timer, at both register widths.        *)
(***************************************************************************)
THEOREM WaitsAreTimed == TimerSpec => []TimerIsArmed
<1>1. CInv => TimerIsArmed
  BY DEF CInv
<1> QED BY <1>1, TimerInvariance, PTL
=============================================================================
