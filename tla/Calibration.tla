----------------------------- MODULE Calibration ----------------------------
(***************************************************************************)
(* The TSC calibration of src/arch/x86_64/{amd,intel}.rs and the hardware  *)
(* timeouts that src/strategy.rs programs from it.  The two architectures  *)
(* share the sampling code.  The sampling thread may be delayed, and moved *)
(* to another CPU, between any two instructions; each CPU has a TSC with   *)
(* an offset of its own and TSC_AUX names the CPU.                         *)
(***************************************************************************)
EXTENDS Integers, FiniteSets, FiniteSetsExt, Sequences

CONSTANTS
  Offsets,                    \* the TSC of each CPU when its sample starts
  Rates,                      \* true TSC ticks per nanosecond of the machines considered
  NanosPerSecond,             \* NANOS_PER_SECOND
  Interval,                   \* TIMER_CALIBRATION_INTERVAL
  Samples, Attempts,          \* TIMER_CALIBRATION_SAMPLES and _ATTEMPTS
  SafetyTimeout,              \* MWAITX_SAFETY_TIMEOUT = UMWAIT_SAFETY_TIMEOUT
  U32Max, U64Max,             \* the largest values of the integer types
  MaxNow,                     \* bound on the length of one sample
  Timeouts                    \* the remaining() durations considered

Cpus == DOMAIN Offsets

ASSUME CalibrationAssumption ==
  /\ \A c \in Cpus : Offsets[c] \in Nat
  /\ Rates \subseteq Nat \ {0}
  /\ {NanosPerSecond, Samples, Attempts, U32Max, U64Max} \subseteq Nat \ {0}
  /\ {Interval, SafetyTimeout, MaxNow} \subseteq Nat
  /\ Timeouts \subseteq Nat \ {0}
  /\ Interval <= MaxNow /\ U32Max <= U64Max

VARIABLES
  machine,                    \* [backend, usable, rate]: the processor
  now, cpu,                   \* time since the sample started, CPU of the thread
  pc,
  sample,                     \* [first, first_aux, last, last_aux] of the current sample
  samples, attempts,          \* the collected frequencies, the calls of sample_once
  timer_hz, safety_cycles,    \* AmdConfig or IntelConfig; timer_hz = 0 for None
  wait                        \* the last programmed wait

timer_vars == <<machine, now, cpu, pc, sample, samples, attempts, timer_hz, safety_cycles, wait>>

PCs == {"calibrate", "start", "first", "spin", "last", "elapsed", "config", "ready", "failed"}

tsc == Offsets[cpu] + machine.rate * now

Word == 0..U64Max

NoSample == [first |-> 0, first_aux |-> cpu, last |-> 0, last_aux |-> cpu]

NoWait == [remaining |-> 0, cycles |-> 1, tsc |-> 0, deadline |-> 1]

TimerTypeOK ==
  /\ machine \in [backend : {"AmdMwaitx", "IntelUmwait"}, usable : BOOLEAN, rate : Rates]
  /\ now \in 0..MaxNow
  /\ cpu \in Cpus
  /\ pc \in PCs
  /\ sample \in [first : Nat, first_aux : Cpus, last : Nat, last_aux : Cpus]
  /\ samples \in Seq(Word) /\ Len(samples) <= Samples
  /\ attempts \in 0..Attempts
  /\ timer_hz \in Word
  /\ safety_cycles \in Word
  /\ wait \in [remaining : Timeouts \cup {0}, cycles : Word, tsc : Nat, deadline : Word]

TimerInit ==
  /\ machine \in [backend : {"AmdMwaitx", "IntelUmwait"}, usable : BOOLEAN, rate : Rates]
  /\ now = 0
  /\ cpu \in Cpus
  /\ pc = "calibrate"
  /\ sample = NoSample
  /\ samples = <<>>
  /\ attempts = 0
  /\ timer_hz = 0
  /\ safety_cycles = 0
  /\ wait = NoWait

-----------------------------------------------------------------------------
(* The arithmetic of the source, at its widths.                            *)

clamp(x, low, high) == IF x < low THEN low ELSE IF x > high THEN high ELSE x

saturating_mul(a, b) == clamp(a * b, 0, U64Max)

saturating_add(a, b) == clamp(a + b, 0, U64Max)

frequency_hz(ticks, elapsed_nanos) ==
  clamp((ticks * NanosPerSecond) \div clamp(elapsed_nanos, 1, elapsed_nanos + 1), 1, U64Max)

None == 0                     \* no frequency is 0

\* Mutant of tsc_frequency_from_observation: TSC_AUX is not compared.
tsc_frequency_any_cpu(s, elapsed_nanos) ==
  IF s.last <= s.first \/ elapsed_nanos = 0
  THEN None ELSE frequency_hz(s.last - s.first, elapsed_nanos)

tsc_frequency_from_observation(s, elapsed_nanos) ==
  IF s.first_aux # s.last_aux \/ s.last <= s.first \/ elapsed_nanos = 0
  THEN None ELSE frequency_hz(s.last - s.first, elapsed_nanos)

conservative_timer_hz(frequencies) ==
  LET seen == {frequencies[i] : i \in DOMAIN frequencies}
      minimum == Min(seen)
      maximum == Max(seen)
  IN IF saturating_mul(maximum - minimum, 100) > saturating_mul(maximum, 20)
     THEN None ELSE saturating_mul(minimum, 80) \div 100

\* The register of MWAITX has 32 bits, the deadline of UMWAIT 64.
CyclesMax == IF machine.backend = "AmdMwaitx" THEN U32Max ELSE U64Max

\* Mutant of duration_to_cycles: no lower clamp.
duration_to_cycles_unclamped(duration, hz) ==
  clamp((duration * hz) \div NanosPerSecond, 0, CyclesMax)

duration_to_cycles(duration, hz) == clamp((duration * hz) \div NanosPerSecond, 1, CyclesMax)

\* Mutant of timeout_cycles: the safety timeout is a lower bound.
timeout_cycles_at_least(remaining) ==
  IF remaining < SafetyTimeout THEN safety_cycles ELSE duration_to_cycles(remaining, timer_hz)

\* mwaitx_timeout_cycles and umwait_timeout_cycles
timeout_cycles(remaining) ==
  IF remaining < SafetyTimeout THEN duration_to_cycles(remaining, timer_hz) ELSE safety_cycles

-----------------------------------------------------------------------------
(* Sampling.                                                               *)

Goto(next) == pc' = next

calibrate_timer_hz ==
  /\ pc = "calibrate"
  /\ Goto(IF machine.usable THEN "start" ELSE "failed")
  /\ UNCHANGED <<machine, now, cpu, sample, samples, attempts, timer_hz, safety_cycles, wait>>

\* started = Instant::now()
StartSample ==
  /\ pc = "start"
  /\ now' = 0
  /\ attempts' = attempts + 1
  /\ Goto("first")
  /\ UNCHANGED <<machine, cpu, sample, samples, timer_hz, safety_cycles, wait>>

ReadFirst ==
  /\ pc = "first"
  /\ sample' = [sample EXCEPT !.first = tsc, !.first_aux = cpu]
  /\ Goto("spin")
  /\ UNCHANGED <<machine, now, cpu, samples, attempts, timer_hz, safety_cycles, wait>>

SpinOver ==
  /\ pc = "spin"
  /\ now >= Interval
  /\ Goto("last")
  /\ UNCHANGED <<machine, now, cpu, sample, samples, attempts, timer_hz, safety_cycles, wait>>

ReadLast ==
  /\ pc = "last"
  /\ sample' = [sample EXCEPT !.last = tsc, !.last_aux = cpu]
  /\ Goto("elapsed")
  /\ UNCHANGED <<machine, now, cpu, samples, attempts, timer_hz, safety_cycles, wait>>

\* started.elapsed() after the last read, and one round of collect_tsc_frequencies
Elapsed ==
  /\ pc = "elapsed"
  /\ LET f == tsc_frequency_from_observation(sample, now)
     IN samples' = IF f = None THEN samples ELSE Append(samples, f)
  /\ sample' = NoSample
  /\ Goto(IF Len(samples') = Samples THEN "config"
          ELSE IF attempts = Attempts THEN "failed" ELSE "start")
  /\ UNCHANGED <<machine, now, cpu, attempts, timer_hz, safety_cycles, wait>>

\* AmdConfig::new and IntelConfig::new
NewConfig ==
  /\ pc = "config"
  /\ timer_hz' = conservative_timer_hz(samples)
  /\ IF timer_hz' = None
     THEN Goto("failed") /\ UNCHANGED safety_cycles
     ELSE Goto("ready") /\ safety_cycles' = duration_to_cycles(SafetyTimeout, timer_hz')
  /\ UNCHANGED <<machine, now, cpu, sample, samples, attempts, wait>>

\* One hardware wait; remaining >= SafetyTimeout also stands for an untimed one.
ProgramWait(remaining) ==
  /\ pc = "ready"
  /\ LET cycles == timeout_cycles(remaining)
     IN wait' = [remaining |-> remaining, cycles |-> cycles, tsc |-> tsc,
                 deadline |-> saturating_add(tsc, clamp(cycles, 1, U64Max))]
  /\ UNCHANGED <<machine, now, cpu, pc, sample, samples, attempts, timer_hz, safety_cycles>>

\* Time passes, also while the thread is not running.
TimePasses ==
  /\ pc \in {"first", "spin", "last", "elapsed", "ready"}
  /\ now < MaxNow
  /\ now' = now + 1
  /\ UNCHANGED <<machine, cpu, pc, sample, samples, attempts, timer_hz, safety_cycles, wait>>

Migrate(c) ==
  /\ pc \in {"first", "spin", "last", "elapsed"}
  /\ cpu' = c
  /\ UNCHANGED <<machine, now, pc, sample, samples, attempts, timer_hz, safety_cycles, wait>>

TimerNext ==
  \/ calibrate_timer_hz \/ StartSample \/ ReadFirst \/ SpinOver \/ ReadLast \/ Elapsed
  \/ NewConfig
  \/ \E remaining \in Timeouts : ProgramWait(remaining)
  \/ TimePasses
  \/ \E c \in Cpus : Migrate(c)

TimerSpec == TimerInit /\ [][TimerNext]_timer_vars

-----------------------------------------------------------------------------
(* Properties.                                                             *)

(***************************************************************************)
(* The calibrated frequency is never above the true one, wherever the      *)
(* sampling thread was preempted or migrated: delays lengthen the elapsed  *)
(* time and a sample across CPUs is discarded.                             *)
(***************************************************************************)
TimerNeverFast == timer_hz <= machine.rate * NanosPerSecond

(***************************************************************************)
(* No programmed hardware wait outlasts the remaining public timeout or    *)
(* the internal safety timeout, except that it is at least one cycle.      *)
(***************************************************************************)
NeverOversleeps ==
  wait.cycles <= Max({1, machine.rate * Min({wait.remaining, SafetyTimeout})})

(***************************************************************************)
(* Every hardware wait has a live timer: a nonzero MWAITX count, and an    *)
(* UMWAIT deadline after the TSC that was read for it unless that is at    *)
(* the end of its range.                                                   *)
(***************************************************************************)
TimerIsArmed ==
  /\ wait.cycles > 0
  /\ wait.deadline > wait.tsc \/ wait.deadline = U64Max
=============================================================================
