---------------------------- MODULE WaitStrategy ----------------------------
(***************************************************************************)
(* The built-in wait strategies of src/strategy.rs: one waiter thread      *)
(* calling the four public operations on one watched atomic, with every    *)
(* Acquire load, deadline check, monitor arming and hardware wait a step   *)
(* of its own, while other threads store to the atomic, interrupts and     *)
(* neighbouring stores disturb the monitor, and timers fire.               *)
(***************************************************************************)
EXTENDS Naturals

CONSTANTS
  Values,                     \* the values of the watched atomic
  SpinIterations              \* spin_iterations of the two spinning hybrids

ASSUME SpinIterationsAssumption == SpinIterations \in Nat

VARIABLES
  word,                       \* the watched atomic
  call,                       \* the public call, as in WaitContract
  thread,                     \* the waiter inside wait_raw
  monitor                     \* the waiter's address monitor

vars == <<word, call, thread, monitor>>

Contract == INSTANCE WaitContract

\* AmdMwaitxC1 runs the HardwareWait protocol with another C-state hint.
Strategies == {"BusySpin", "SpinThenYield", "HardwareWait", "SpinThenHardwareWait"}

PCs == {"idle", "spin_load", "spin_check", "yield", "load", "check", "arm", "recheck",
        "remaining", "sleep", "asleep", "classify_load", "classify_check"}

\* blocks counts the yields and hardware waits of the current raw attempt.
Threads == [strategy : Strategies, pc : PCs, spins : 0..SpinIterations, blocks : Nat]

\* The monitor: never armed, watching the line, or hit since it was armed.
MonitorStates == {"off", "armed", "triggered"}

TypeOK ==
  /\ word \in Values
  /\ call \in Contract!Calls
  /\ thread \in Threads
  /\ monitor \in MonitorStates

Init ==
  /\ word \in Values
  /\ call = Contract!NoCall(word)
  /\ thread \in {[strategy |-> s, pc |-> "idle", spins |-> 0, blocks |-> 0] : s \in Strategies}
  /\ monitor = "off"

-----------------------------------------------------------------------------
(* Control flow.                                                           *)

Goto(pc) == thread' = [thread EXCEPT !.pc = pc]

\* Where wait_raw starts and where spin_prefix hands over.
RawEntry == IF thread.strategy = "HardwareWait" THEN "load" ELSE "spin_load"

EnterRaw ==
  thread' = [strategy |-> thread.strategy, pc |-> RawEntry, spins |-> 0, blocks |-> 0]

AfterSpin == IF thread.strategy = "SpinThenYield" THEN "yield" ELSE "load"

\* A raw attempt that a public operation turns into its own return value.
Return(result, v) ==
  /\ call' = [call EXCEPT !.status = "returned", !.result = result, !.value = v]
  /\ Goto("idle")

\* Mutant of RawUnclassified: the unfiltered operations retry as well.
RawUnclassifiedAlwaysRetries ==
  /\ thread' = [thread EXCEPT !.pc = RawEntry, !.spins = 0]
  /\ UNCHANGED call

\* Mutant of RawUnclassified: the filter lets a hardware timer through.
RawUnclassifiedTimesOut ==
  IF call.op \in Contract!FilteredOps
  THEN Return("TimedOut", call.expected)
  ELSE Return("Unclassified", call.expected)

\* The filtered operations absorb Unclassified and run wait_raw again.
RawUnclassified ==
  IF call.op \in Contract!FilteredOps
  THEN /\ EnterRaw
       /\ UNCHANGED call
  ELSE Return("Unclassified", call.expected)

\* An Acquire load at `from`: any other value ends the call, else go on.
Load(from, next) ==
  /\ thread.pc = from
  /\ IF word # call.expected
     THEN Return("Changed", word)
     ELSE /\ call' = [call EXCEPT !.equal = TRUE]
          /\ Goto(next)
  /\ UNCHANGED <<word, monitor>>

\* Mutant of DeadlineExpired: the retry loop treats TimedOut like Unclassified.
DeadlineExpiredRetries(from) ==
  /\ thread.pc = from
  /\ call.deadline = "expired"
  /\ RawUnclassified
  /\ UNCHANGED <<word, monitor>>

\* Deadline::remaining at `from`; the untimed operations have no deadline.
DeadlineExpired(from) ==
  /\ thread.pc = from
  /\ call.deadline = "expired"
  /\ Return("TimedOut", call.expected)
  /\ UNCHANGED <<word, monitor>>

DeadlineLeft(from, next) ==
  /\ thread.pc = from
  /\ call.deadline # "expired"
  /\ Goto(next)
  /\ UNCHANGED <<word, call, monitor>>

-----------------------------------------------------------------------------
(* The public operations.                                                  *)

Begin(op, expected, deadline) ==
  /\ thread.pc = "idle"
  /\ call' = [status |-> "waiting", op |-> op, expected |-> expected,
              deadline |-> deadline, equal |-> FALSE,
              changedAtExpiry |-> FALSE, result |-> "none", value |-> expected]
  /\ EnterRaw
  /\ UNCHANGED <<word, monitor>>

-----------------------------------------------------------------------------
(* BusySpin and the spin prefix.                                           *)

SpinLoad == Load("spin_load", "spin_check")

SpinExpired == DeadlineExpired("spin_check")

\* Mutant of SpinAgain: the load is hoisted out of the BusySpin loop.
SpinAgainHoistedLoad ==
  /\ thread.pc = "spin_check"
  /\ call.deadline # "expired"
  /\ thread' =
       CASE thread.strategy = "BusySpin" -> thread
         [] thread.strategy # "BusySpin" /\ thread.spins < SpinIterations ->
              [thread EXCEPT !.pc = "spin_load", !.spins = @ + 1]
         [] OTHER -> [thread EXCEPT !.pc = AfterSpin]
  /\ UNCHANGED <<word, call, monitor>>

SpinAgain ==
  /\ thread.pc = "spin_check"
  /\ call.deadline # "expired"
  /\ thread' =
       CASE thread.strategy = "BusySpin" -> [thread EXCEPT !.pc = "spin_load"]
         [] thread.strategy # "BusySpin" /\ thread.spins < SpinIterations ->
              [thread EXCEPT !.pc = "spin_load", !.spins = @ + 1]
         [] OTHER -> [thread EXCEPT !.pc = AfterSpin]
  /\ UNCHANGED <<word, call, monitor>>

YieldNow ==
  /\ thread.pc = "yield"
  /\ thread' = [thread EXCEPT !.pc = "classify_load", !.blocks = @ + 1]
  /\ UNCHANGED <<word, call, monitor>>

-----------------------------------------------------------------------------
(* The monitor protocol of mwaitx_*_protocol and umwait_*_protocol.        *)

FirstLoad == Load("load", "check")

FirstCheckExpired == DeadlineExpired("check")

FirstCheck == DeadlineLeft("check", "arm")

\* Mutant of Arm: no load between arming the monitor and sleeping.
ArmWithoutRecheck ==
  /\ thread.pc = "arm"
  /\ monitor' = "armed"
  /\ Goto("remaining")
  /\ UNCHANGED <<word, call>>

Arm ==
  /\ thread.pc = "arm"
  /\ monitor' = "armed"
  /\ Goto("recheck")
  /\ UNCHANGED <<word, call>>

Recheck == Load("recheck", "remaining")

RemainingExpired == DeadlineExpired("remaining")

Remaining == DeadlineLeft("remaining", "sleep")

\* MWAITX / UMWAIT: does not block on a monitor that has been hit.
HardwareSleep ==
  /\ thread.pc = "sleep"
  /\ thread' = [thread EXCEPT !.pc = IF monitor = "armed" THEN "asleep" ELSE "classify_load",
                              !.blocks = @ + 1]
  /\ UNCHANGED <<word, call, monitor>>

MonitorWake ==
  /\ thread.pc = "asleep"
  /\ monitor = "triggered"
  /\ Goto("classify_load")
  /\ UNCHANGED <<word, call, monitor>>

\* The programmed timer: the safety timeout, or what the deadline leaves.
TimerWake ==
  /\ thread.pc = "asleep"
  /\ Goto("classify_load")
  /\ UNCHANGED <<word, call, monitor>>

ClassifyLoad == Load("classify_load", "classify_check")

ClassifyTimedOut == DeadlineExpired("classify_check")

ClassifyUnclassified ==
  /\ thread.pc = "classify_check"
  /\ call.deadline # "expired"
  /\ RawUnclassified
  /\ UNCHANGED <<word, monitor>>

-----------------------------------------------------------------------------
(* The environment.                                                        *)

HitMonitor == monitor' = IF monitor = "armed" THEN "triggered" ELSE monitor

Store(v) ==
  /\ word' = v
  /\ HitMonitor
  /\ UNCHANGED <<call, thread>>

\* A neighbouring store in the monitored granule, or an interrupt.
Disturb ==
  /\ monitor = "armed"
  /\ monitor' = "triggered"
  /\ UNCHANGED <<word, call, thread>>

Expire ==
  /\ call.status = "waiting"
  /\ call.deadline = "running"
  /\ call' = [call EXCEPT !.deadline = "expired",
                          !.changedAtExpiry = word # call.expected]
  /\ UNCHANGED <<word, thread, monitor>>

-----------------------------------------------------------------------------
Spinning == SpinLoad \/ SpinExpired \/ SpinAgain \/ YieldNow

Monitoring ==
  \/ FirstLoad \/ FirstCheckExpired \/ FirstCheck
  \/ Arm \/ Recheck \/ RemainingExpired \/ Remaining \/ HardwareSleep

Classifying == ClassifyLoad \/ ClassifyTimedOut \/ ClassifyUnclassified

\* What the waiter's own instructions do once it is running.
Run == Spinning \/ Monitoring \/ Classifying

Next ==
  \/ \E op \in Contract!Ops, e \in Values :
       \E d \in Contract!DeadlinesOf(op) : Begin(op, e, d)
  \/ Run
  \/ MonitorWake
  \/ TimerWake
  \/ \E v \in Values : Store(v)
  \/ Disturb
  \/ Expire

Spec == Init /\ [][Next]_vars

\* The waiter is scheduled and a hit monitor ends the wait; timers may never fire.
StoreWakeSpec == Spec /\ WF_vars(Run) /\ WF_vars(MonitorWake)

-----------------------------------------------------------------------------
(* Properties.                                                             *)

(***************************************************************************)
(* Lost-wake invariant (docs/safety.md): a waiter that is asleep in MWAITX *)
(* or UMWAIT while the atomic already differs has a hit monitor, so the    *)
(* wait ends without help from the safety timeout.                         *)
(***************************************************************************)
NoLostWake ==
  thread.pc = "asleep" /\ word # call.expected => monitor = "triggered"

(***************************************************************************)
(* "performs at most one strategy-specific blocking or yielding operation" *)
(* per raw attempt (the WaitStrategy trait), and a filtered operation      *)
(* classifies with a fresh load between two of them.                       *)
(***************************************************************************)
AtMostOneBlock == thread.blocks <= 1

(***************************************************************************)
(* A store that stays is noticed with no timer at all: while the word      *)
(* differs, every operation of every strategy returns, even if neither the *)
(* safety timeout nor the deadline is ever reached.                        *)
(***************************************************************************)
StoreEndsWait ==
  (call.status = "waiting" /\ word # call.expected)
    ~> (call.status = "returned" \/ word = call.expected)

(***************************************************************************)
(* Every public operation of every strategy implements WaitContract: what  *)
(* Changed, Unclassified and TimedOut mean, that the filtered operations   *)
(* never report Unclassified and that hardware timers never show up as a   *)
(* public timeout.                                                         *)
(***************************************************************************)
ImplementsContract == Contract!Spec

(***************************************************************************)
(* If programmed hardware timers fire, a wait also makes the progress that *)
(* WaitContract promises: it returns once its deadline has passed, however *)
(* the strategy chains its spin prefix, the monitor and its retries.       *)
(***************************************************************************)
KeepsContractPromises == WF_vars(TimerWake) => Contract!Fairness
=============================================================================
