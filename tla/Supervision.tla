----------------------------- MODULE Supervision ----------------------------
(***************************************************************************)
(* tools/benchctl/src/supervision.rs: one operation's workload supervisor, *)
(* workload and crash guardian, and the coordinator's side of them         *)
(* (coordinate).  CpuIdle adds the rest of the coordinator.                *)
(*                                                                         *)
(* A coordinator that returns an I/O error exits, and its locks and its    *)
(* parenthood go with it: such an exit is the same as its Crash.           *)
(***************************************************************************)
EXTENDS Naturals

CONSTANTS
  Procs,                      \* benchctl processes started by callers
  Ops,                        \* operation IDs
  NoProc,                     \* no process
  MaxFaults                   \* bound on crashes, starved limits and other faults

VARIABLES
  proc,                       \* the benchctl processes
  group,                      \* per operation: supervisor, workload and guardian
  runtime,                    \* per operation: the files of its runtime directory
  active,                     \* the operation whose guardian holds active.lock, or NoProc
  faults                      \* how many faults have happened

supervisionVars == <<group, runtime, active>>

Outcomes == {"Success", "Failed", "TimedOut", "Cancelled"}

Groups ==
  [parent : Procs \cup {NoProc},
   supervisor : {"off", "waiting", "running", "lingering", "zombie", "gone"},
   workload : {"off", "running", "exited", "gone"},
   guardian : {"off", "start", "watch", "termed", "killed", "leaving", "done",
               "failed", "crashed"},
   requested : BOOLEAN]

Runtimes ==
  [files : SUBSET {"ready", "go", "drain", "drained"},
   status : {"none", "Success", "Failed"}, outcome : Outcomes \cup {"none"}]

NoGroup ==
  [parent |-> NoProc, supervisor |-> "off", workload |-> "off", guardian |-> "off",
   requested |-> FALSE]

NoRuntime == [files |-> {}, status |-> "none", outcome |-> "none"]

SupervisionTypeOK ==
  /\ group \in [Ops -> Groups]
  /\ runtime \in [Ops -> Runtimes]
  /\ active \in Ops \cup {NoProc}
  /\ faults \in 0..MaxFaults

SupervisionInit ==
  /\ group = [o \in Ops |-> NoGroup]
  /\ runtime = [o \in Ops |-> NoRuntime]
  /\ active = NoProc
  /\ faults = 0

-----------------------------------------------------------------------------
\* A step that only starvation, a crash or an unkillable process explains.
Fault == faults < MaxFaults /\ faults' = faults + 1

At(p, pc) == proc[p].pc = pc

Goto(p, pc) == proc' = [proc EXCEPT ![p].pc = pc]

Set(o, field, value) == group' = [group EXCEPT ![o][field] = value]

Has(o, file) == file \in runtime[o].files

\* atomic_write of a file into the runtime directory, which it creates if need be
Write(o, file) == runtime' = [runtime EXCEPT ![o].files = @ \cup {file}]

has_parent(o) == group[o].parent # NoProc

WorkloadAlive(o) == group[o].workload = "running"

\* killpg(pgid, None): a zombie leader still answers.
group_is_empty(o) == /\ group[o].supervisor \in {"off", "gone"}
                     /\ ~WorkloadAlive(o)

\* What is left of a killed process until somebody reaps it: init does at once.
Corpse(o) == IF has_parent(o) THEN "zombie" ELSE "gone"

\* SIGTERM ends a supervisor; its workload may ignore it.
Signalled(o) ==
  IF group[o].supervisor \in {"waiting", "running", "lingering"}
  THEN Corpse(o) ELSE group[o].supervisor

Reaped(o) == IF group[o].supervisor = "zombie" THEN "gone" ELSE group[o].supervisor

-----------------------------------------------------------------------------
(* The workload supervisor and the workload.                               *)

\* go appears: execute the workload.
SupervisorGo(o) ==
  /\ group[o].supervisor = "waiting"
  /\ Has(o, "go")
  /\ group' = [group EXCEPT ![o].supervisor = "running", ![o].workload = "running"]
  /\ UNCHANGED <<proc, runtime, active, faults>>

\* The coordinator is gone before it wrote go.
SupervisorGivesUp(o) ==
  /\ group[o].supervisor = "waiting"
  /\ ~Has(o, "go")
  /\ ~has_parent(o)
  /\ Set(o, "supervisor", "gone")
  /\ UNCHANGED <<proc, runtime, active, faults>>

\* The coordinator takes longer than STARTUP_LIMIT, or the supervisor dies.
SupervisorFails(o) ==
  /\ group[o].supervisor \in {"waiting", "running", "lingering"}
  /\ Fault
  /\ Set(o, "supervisor", Corpse(o))
  /\ UNCHANGED <<proc, runtime, active>>

WorkloadExits(o) ==
  /\ WorkloadAlive(o)
  /\ Set(o, "workload", IF group[o].supervisor = "running" THEN "exited" ELSE "gone")
  /\ UNCHANGED <<proc, runtime, active, faults>>

\* The supervisor records how the workload ended and stays for the drain.
RecordStatus(o, status) ==
  /\ group[o].supervisor = "running"
  /\ group[o].workload = "exited"
  /\ runtime' = [runtime EXCEPT ![o].status = status]
  /\ group' = [group EXCEPT ![o].supervisor = "lingering", ![o].workload = "gone"]
  /\ UNCHANGED <<proc, active, faults>>

-----------------------------------------------------------------------------
(* The guardian.                                                           *)

\* active.lock(), then the ready file
GuardianLocks(o) ==
  /\ group[o].guardian = "start"
  /\ active = NoProc
  /\ active' = o
  /\ Write(o, "ready")
  /\ Set(o, "guardian", "watch")
  /\ UNCHANGED <<proc, faults>>

\* Mutant of GuardianTerminates: the end of the coordinator goes unnoticed.
GuardianTerminatesOnRequest(o) ==
  /\ group[o].guardian = "watch"
  /\ Has(o, "drain")
  /\ group' = [group EXCEPT ![o].guardian = "termed", ![o].requested = TRUE,
                            ![o].supervisor = Signalled(o)]
  /\ UNCHANGED <<proc, runtime, active, faults>>

\* A drain request or the end of the coordinator: terminate_and_drain begins.
GuardianTerminates(o) ==
  /\ group[o].guardian = "watch"
  /\ Has(o, "drain") \/ ~has_parent(o)
  /\ group' = [group EXCEPT ![o].guardian = "termed", ![o].requested = Has(o, "drain"),
                            ![o].supervisor = Signalled(o)]
  /\ UNCHANGED <<proc, runtime, active, faults>>

\* STOP_GRACE is over: SIGKILL.
GuardianKills(o) ==
  /\ group[o].guardian = "termed"
  /\ ~group_is_empty(o)
  /\ Set(o, "guardian", "killed")
  /\ UNCHANGED <<proc, runtime, active, faults>>

\* Mutant of GuardianDrained: the group is not inspected.
GuardianDrainedUnproved(o) ==
  /\ group[o].guardian \in {"termed", "killed"}
  /\ Set(o, "guardian", "leaving")
  /\ IF group[o].requested THEN Write(o, "drained") ELSE UNCHANGED runtime
  /\ UNCHANGED <<proc, active, faults>>

\* The group is proved empty: answer a request.
GuardianDrained(o) ==
  /\ group[o].guardian \in {"termed", "killed"}
  /\ group_is_empty(o)
  /\ Set(o, "guardian", "leaving")
  /\ IF group[o].requested THEN Write(o, "drained") ELSE UNCHANGED runtime
  /\ UNCHANGED <<proc, active, faults>>

\* Exiting releases active.lock.
GuardianLeaves(o) ==
  /\ group[o].guardian = "leaving"
  /\ Set(o, "guardian", "done")
  /\ active' = NoProc
  /\ UNCHANGED <<proc, runtime, faults>>

\* DRAIN_LIMIT is over and something in the group is still there.
GuardianFails(o) ==
  /\ group[o].guardian = "killed"
  /\ ~group_is_empty(o)
  /\ Fault
  /\ Set(o, "guardian", "failed")
  /\ active' = NoProc
  /\ UNCHANGED <<proc, runtime>>

GuardianCrashes(o) ==
  /\ group[o].guardian \in {"start", "watch", "termed", "killed", "leaving"}
  /\ Fault
  /\ Set(o, "guardian", "crashed")
  /\ active' = IF active = o THEN NoProc ELSE active
  /\ UNCHANGED <<proc, runtime>>

GuardianExited(o) == group[o].guardian \in {"done", "failed", "crashed"}

-----------------------------------------------------------------------------
(* The coordinator: coordinate().                                          *)

SpawnSupervisor(p, o) ==
  /\ At(p, "spawn")
  /\ group' = [group EXCEPT ![o].parent = p, ![o].supervisor = "waiting"]
  /\ Goto(p, "spawn_guardian")
  /\ UNCHANGED <<runtime, active, faults>>

SpawnGuardian(p, o) ==
  /\ At(p, "spawn_guardian")
  /\ Set(o, "guardian", "start")
  /\ Goto(p, "wait_for_ready")
  /\ UNCHANGED <<runtime, active, faults>>

SpawnGuardianFails(p, o) ==
  /\ At(p, "spawn_guardian")
  /\ Fault
  /\ Goto(p, "terminate")
  /\ UNCHANGED <<group, runtime, active>>

\* A supervisor that ended is only reported: the guardian sees its parent go.
wait_for_ready(p, o) ==
  /\ At(p, "wait_for_ready")
  /\ \/ Has(o, "ready") /\ Goto(p, "go") /\ UNCHANGED <<group, faults>>
     \/ /\ ~Has(o, "ready")
        /\ GuardianExited(o)
        /\ Goto(p, "terminate") /\ UNCHANGED <<group, faults>>
     \/ /\ ~Has(o, "ready")
        /\ ~GuardianExited(o)
        /\ group[o].supervisor = "zombie"
        /\ Set(o, "supervisor", "gone")
        /\ Goto(p, "reconcile") /\ UNCHANGED faults
     \/ ~Has(o, "ready") /\ Fault /\ Goto(p, "terminate") /\ UNCHANGED group
  /\ UNCHANGED <<runtime, active>>

WriteGo(p, o) ==
  /\ At(p, "go")
  /\ Write(o, "go")
  /\ Goto(p, "monitor")
  /\ UNCHANGED <<group, active, faults>>

Decided(p, outcome) == proc' = [proc EXCEPT ![p].pc = "outcome", ![p].outcome = outcome]

\* One round of the loop: the status file is read first, the rest later.
ReadStatus(p, o) ==
  /\ At(p, "monitor")
  /\ IF runtime[o].status # "none"
     THEN Decided(p, runtime[o].status) ELSE Goto(p, "monitor_checks")
  /\ UNCHANGED <<group, runtime, active, faults>>

MonitorStops(p, o, outcome) ==
  /\ At(p, "monitor_checks")
  /\ outcome \in {"Cancelled", "TimedOut"}
  /\ Decided(p, outcome)
  /\ UNCHANGED <<group, runtime, active, faults>>

\* The guardian or the supervisor is gone, or the loop goes on.
MonitorChildren(p, o) ==
  /\ At(p, "monitor_checks")
  /\ Goto(p, IF GuardianExited(o) \/ group[o].supervisor = "zombie"
             THEN "terminate" ELSE "monitor")
  /\ group' = [group EXCEPT ![o].supervisor = IF GuardianExited(o) THEN @ ELSE Reaped(o)]
  /\ UNCHANGED <<runtime, active, faults>>

StoreOutcome(p, o) ==
  /\ At(p, "outcome")
  /\ runtime' = [runtime EXCEPT ![o].outcome = proc[p].outcome]
  /\ Goto(p, "drain")
  /\ UNCHANGED <<group, active, faults>>

RequestDrain(p, o) ==
  /\ At(p, "drain")
  /\ Write(o, "drain")
  /\ Goto(p, "wait_for_drained")
  /\ UNCHANGED <<group, active, faults>>

wait_for_drained(p, o) ==
  /\ At(p, "wait_for_drained")
  /\ Goto(p, IF Has(o, "drained") THEN "reap" ELSE "drain_checks")
  /\ UNCHANGED <<group, runtime, active, faults>>

\* Mutant of DrainChecks: the leader is not reaped.
DrainChecksUnreaped(p, o) ==
  /\ At(p, "drain_checks")
  /\ Goto(p, IF GuardianExited(o) THEN "reconcile" ELSE "wait_for_drained")
  /\ UNCHANGED <<group, runtime, active, faults>>

\* The rest of the round: the leader is reaped while the guardian proves the
\* group empty.  A guardian that has exited since the proof was looked for is an error, also
\* if it left the proof; the limit may be over.
DrainChecks(p, o) ==
  /\ At(p, "drain_checks")
  /\ Set(o, "supervisor", Reaped(o))
  /\ \/ GuardianExited(o) /\ Goto(p, "reconcile") /\ UNCHANGED faults
     \/ ~GuardianExited(o) /\ Goto(p, "wait_for_drained") /\ UNCHANGED faults
     \/ ~GuardianExited(o) /\ Fault /\ Goto(p, "reconcile")
  /\ UNCHANGED <<runtime, active>>

\* With the proof, both children are reaped; the supervisor was killed.
ReapChildren(p, o) ==
  /\ At(p, "reap")
  /\ GuardianExited(o)
  /\ Goto(p, IF group[o].guardian = "done" THEN "finish" ELSE "reconcile")
  /\ UNCHANGED <<group, runtime, active, faults>>

\* terminate_and_reap_group, terminate_and_drain: SIGTERM, later SIGKILL, until
\* the group is empty or DRAIN_LIMIT is over; both ends return an error.
Terminate(p, o) ==
  /\ At(p, "terminate")
  /\ Set(o, "supervisor", IF group[o].supervisor \in {"off", "gone"}
                          THEN group[o].supervisor ELSE "gone")
  /\ Goto(p, "terminating")
  /\ UNCHANGED <<runtime, active, faults>>

Terminated(p, o) ==
  /\ At(p, "terminating")
  /\ IF group_is_empty(o) THEN UNCHANGED faults ELSE Fault
  /\ Goto(p, "reconcile")
  /\ UNCHANGED <<group, runtime, active>>

cleanup_runtime(o) == runtime' = [runtime EXCEPT ![o] = NoRuntime]

\* recover_outcome: the coordinator's own decision comes first.
recover_outcome(o) ==
  IF runtime[o].outcome # "none" THEN runtime[o].outcome ELSE runtime[o].status

Children(o) ==
  \/ SupervisorGo(o) \/ SupervisorGivesUp(o)
  \/ \E s \in {"Success", "Failed"} : RecordStatus(o, s)
  \/ GuardianLocks(o) \/ GuardianTerminates(o) \/ GuardianKills(o)
  \/ GuardianDrained(o) \/ GuardianLeaves(o)

ChildrenFail(o) == SupervisorFails(o) \/ GuardianFails(o) \/ GuardianCrashes(o)

coordinate(p, o) ==
  \/ SpawnSupervisor(p, o) \/ SpawnGuardian(p, o) \/ SpawnGuardianFails(p, o)
  \/ wait_for_ready(p, o) \/ WriteGo(p, o)
  \/ ReadStatus(p, o) \/ MonitorChildren(p, o)
  \/ \E outcome \in Outcomes : MonitorStops(p, o, outcome)
  \/ StoreOutcome(p, o) \/ RequestDrain(p, o)
  \/ wait_for_drained(p, o) \/ DrainChecks(p, o) \/ ReapChildren(p, o)
  \/ Terminate(p, o) \/ Terminated(p, o)
=============================================================================
