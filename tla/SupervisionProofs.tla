-------------------------- MODULE SupervisionProofs -------------------------
(***************************************************************************)
(* Theorems about the workload of an operation in CpuIdle: when the policy *)
(* is restored under it, what policy it runs under and which outcome is    *)
(* told of it.                                                             *)
(*                                                                         *)
(* A workload that runs, or can still start, has a guardian that holds     *)
(* active.lock, or one that was lost.  A command that is past              *)
(* require_inactive has therefore no such workload but its own, and that   *)
(* one only from the go file to the end of coordinate().                   *)
(***************************************************************************)
EXTENDS CpuIdleProofs

\* The workload runs or, with the go file, is about to be executed.
Armed(o) == WorkloadAlive(o) \/ (group[o].supervisor = "waiting" /\ Has(o, "go"))

\* Nothing has happened under this operation ID.
Untouched(o) == group[o] = NoGroup /\ runtime[o].files = {} /\ starts[o] = 0

\* The guardian holds active.lock.
Locking == {"watch", "termed", "killed", "leaving"}

\* The processes and files of one operation.
GroupOK(o) ==
  /\ active = o <=> group[o].guardian \in Locking
  /\ WorkloadAlive(o) => group[o].guardian \in {"watch", "termed", "killed", "failed", "crashed"}
  /\ group[o].supervisor = "waiting" =>
       group[o].guardian \in {"off", "start", "watch", "crashed"} /\ starts[o] = 0
  /\ group[o].supervisor = "waiting" /\ Has(o, "go") => group[o].guardian \notin {"off", "start"}
  /\ Has(o, "ready") => group[o].guardian # "start"
  /\ starts[o] <= 1

GroupInv == \A o \in Ops : GroupOK(o)

UntouchedInv == \A o \in Ops : ~Exists(o) => Untouched(o)

\* A guarded workload has its journal and the desired policy.
ArmedInv ==
  \A o \in Ops : Armed(o) /\ ~GuardianLost(o) => Unfinished(o) /\ (disturbed \/ sysfs = Desired)

\* From the stored journal to the spawned supervisor.
Preparing == {"apply", "apply_write", "apply_readback", "applied", "started", "spawn"}

\* How far a coordinator has come with its workload before that may run.
FreshOK(p) ==
  /\ proc[p].pc \in Preparing => Untouched(Op(p))
  /\ At(p, "spawn_guardian") => group[Op(p)].guardian = "off" /\ runtime[Op(p)].files = {}
  /\ At(p, "wait_for_ready") => group[Op(p)].guardian # "off"
  /\ At(p, "go") => group[Op(p)].guardian \notin {"off", "start"}
  /\ proc[p].pc \in {"spawn_guardian", "wait_for_ready", "go"} =>
       ~Has(Op(p), "go") /\ ~WorkloadAlive(Op(p))

\* recover never supervises, and a run never selects.
CommandOK(p) ==
  /\ proc[p].pc \in Deciding \cup {"accept", "prepare"} => proc[p].command = "run"
  /\ At(p, "require_inactive") => proc[p].command \in {"run", "recover"}
  /\ At(p, "select") => proc[p].command = "recover"
  /\ proc[p].pc \in {"require_inactive", "accept", "prepare"} => proc[p].entry = 1

\* From the go file to the end of coordinate(), and after its error.
Monitoring ==
  {"monitor", "monitor_checks", "outcome", "drain", "wait_for_drained", "drain_checks", "reap",
   "terminate", "terminating"}

Running(p) ==
  \/ proc[p].pc \in Monitoring
  \/ proc[p].pc \in {"reconcile", "recoverable"} /\ proc[p].command = "run"

\* What require_inactive found still holds, but for the command's own workload.
PassOK(p) ==
  \A o \in Ops :
    /\ proc[p].pc \notin {"idle", "require_inactive"}
    /\ o # Op(p) \/ ~Running(p)
    /\ Armed(o)
    => GuardianLost(o)

\* The desired policy is in place, entry by entry and then as a whole.
DesiredOK(p) ==
  /\ proc[p].pc \in {"apply", "apply_write", "apply_readback"} =>
       \A e \in Entries : e < proc[p].entry => disturbed \/ sysfs[e] = Desired[e]
  /\ proc[p].pc \in {"applied", "started", "spawn", "spawn_guardian", "wait_for_ready", "go"} =>
       disturbed \/ sysfs = Desired

ProcOK(p) == FreshOK(p) /\ CommandOK(p) /\ PassOK(p) /\ DesiredOK(p)

WInv == GroupInv /\ UntouchedInv /\ ArmedInv /\ \A p \in Procs : ProcOK(p)

-----------------------------------------------------------------------------
(* Steps of the supervisor, the workload and the guardian.                 *)

\* What a step makes of the processes and files of o.
Changes(o, s, w, g, files) ==
  /\ group'[o].supervisor = s /\ group'[o].workload = w /\ group'[o].guardian = g
  /\ runtime'[o].files = files
  /\ \A q \in Ops : q # o => group'[q] = group[q] /\ runtime'[q] = runtime[q]

\* The history counts a workload that starts.
Counted ==
  \A q \in Ops :
    starts'[q] = starts[q] + IF ~WorkloadAlive(q) /\ group'[q].workload = "running" THEN 1 ELSE 0

\* A step of the children of o, as far as the coordinator cares.
ChildEffect(o) ==
  /\ \A q \in Ops : q # o =>
       group'[q] = group[q] /\ runtime'[q] = runtime[q] /\ starts'[q] = starts[q]
  /\ ~Untouched(o)
  /\ Armed(o)' => Armed(o)
  /\ GuardianLost(o) => GuardianLost(o)'
  /\ (group'[o].guardian = "off") <=> (group[o].guardian = "off")
  /\ group'[o].guardian = "start" => group[o].guardian = "start"
  /\ group[o].guardian = "off" => runtime'[o].files = runtime[o].files
  /\ Has(o, "go")' <=> Has(o, "go")

(***************************************************************************)
(* An operation that a step leaves alone is as it was.                     *)
(***************************************************************************)
LEMMA OtherGroups ==
  ASSUME GroupInv, NEW o \in Ops, IInv, Counted, active' \in {active, o, NoProc},
         active' = NoProc /\ active # NoProc => active = o,
         active' = o /\ active # o => active = NoProc,
         \A q \in Ops : q # o => group'[q] = group[q] /\ runtime'[q] = runtime[q]
  PROVE  \A q \in Ops : q # o => GroupOK(q)' /\ starts'[q] = starts[q]
<1> SUFFICES ASSUME NEW q \in Ops, q # o
             PROVE  GroupOK(q)' /\ starts'[q] = starts[q]
  OBVIOUS
<1>1. starts'[q] = starts[q]
  BY DEF Counted, WorkloadAlive, IInv, TypeOK
<1>2. active' = q <=> active = q
  BY CpuIdleAssumption
<1>3. GroupOK(q)
  BY DEF GroupInv
<1> QED BY <1>1, <1>2, <1>3 DEF GroupOK, WorkloadAlive, Has, Locking

(***************************************************************************)
(* A step of a supervisor, a workload or a guardian.                       *)
(***************************************************************************)
LEMMA ChildStep ==
  ASSUME IInv, GroupInv, NEW o \in Ops,
         Supervise(Children(o) \/ ChildrenFail(o) \/ WorkloadExits(o))
  PROVE  GroupInv' /\ ChildEffect(o)
<1> DEFINE g == group[o]
           files == runtime[o].files
<1>t. /\ group \in [Ops -> Groups] /\ runtime \in [Ops -> Runtimes] /\ group[o] \in Groups
      /\ runtime[o] \in Runtimes /\ starts \in [Ops -> Nat] /\ starts[o] \in Nat /\ o # NoProc
      /\ active \in Ops \cup {NoProc}
  BY CpuIdleAssumption DEF IInv, TypeOK, SupervisionTypeOK
<1>c. Counted
  BY DEF Supervise, Counted
<1>k. GroupOK(o)
  BY DEF GroupInv
<1>e. Corpse(o) \in {"zombie", "gone"} /\ Signalled(o) # "waiting"
  BY DEF Corpse, Signalled
<1>o. ASSUME GroupOK(o)', ChildEffect(o), active' \in {active, o, NoProc},
             active' = NoProc /\ active # NoProc => active = o,
             active' = o /\ active # o => active = NoProc
      PROVE  GroupInv' /\ ChildEffect(o)
  <2>1. \A q \in Ops : q # o => GroupOK(q)'
    BY <1>o, <1>c, OtherGroups DEF ChildEffect
  <2> QED BY <1>o, <2>1 DEF GroupInv
<1>q. \A q \in Ops : q # o /\ group'[q] = group[q] => starts'[q] = starts[q]
  BY <1>c, <1>t DEF Counted, WorkloadAlive
<1>1. CASE SupervisorGo(o)
  <2>1. /\ Changes(o, "running", "running", g.guardian, files)
        /\ g.supervisor = "waiting" /\ Has(o, "go") /\ active' = active
    BY <1>1, <1>t DEF SupervisorGo, Changes, Groups
  <2>2. GroupOK(o)'
    BY <2>1, <1>t, <1>c, <1>k, <1>e DEF Changes, Counted, GroupOK, WorkloadAlive, Has, Locking, group_is_empty
  <2>3. ChildEffect(o)
    BY <2>1, <1>t, <1>c, <1>k, <1>e, <1>q
       DEF Changes, ChildEffect, Counted, Untouched, NoGroup,
           Armed, WorkloadAlive, Has, GuardianLost
  <2> QED BY <2>1, <2>2, <2>3, <1>k, <1>o DEF GroupOK, Locking
<1>2. CASE SupervisorGivesUp(o)
  <2>1. /\ Changes(o, "gone", g.workload, g.guardian, files)
        /\ g.supervisor = "waiting" /\ active' = active
    BY <1>2, <1>t DEF SupervisorGivesUp, Set, Changes, Groups
  <2>2. GroupOK(o)'
    BY <2>1, <1>t, <1>c, <1>k, <1>e DEF Changes, Counted, GroupOK, WorkloadAlive, Has, Locking, group_is_empty
  <2>3. ChildEffect(o)
    BY <2>1, <1>t, <1>c, <1>k, <1>e, <1>q
       DEF Changes, ChildEffect, Counted, Untouched, NoGroup,
           Armed, WorkloadAlive, Has, GuardianLost
  <2> QED BY <2>1, <2>2, <2>3, <1>k, <1>o DEF GroupOK, Locking
<1>3. CASE RecordStatus(o, "Success") \/ RecordStatus(o, "Failed")
  <2>1. /\ Changes(o, "lingering", "gone", g.guardian, files)
        /\ g.supervisor = "running" /\ active' = active
    BY <1>3, <1>t DEF RecordStatus, Runtimes, Changes, Groups
  <2>2. GroupOK(o)'
    BY <2>1, <1>t, <1>c, <1>k, <1>e DEF Changes, Counted, GroupOK, WorkloadAlive, Has, Locking, group_is_empty
  <2>3. ChildEffect(o)
    BY <2>1, <1>t, <1>c, <1>k, <1>e, <1>q
       DEF Changes, ChildEffect, Counted, Untouched, NoGroup,
           Armed, WorkloadAlive, Has, GuardianLost
  <2> QED BY <2>1, <2>2, <2>3, <1>k, <1>o DEF GroupOK, Locking
<1>4. CASE GuardianLocks(o)
  <2>1. /\ Changes(o, g.supervisor, g.workload, "watch", files \cup {"ready"})
        /\ g.guardian = "start" /\ active = NoProc /\ active' = o
    BY <1>4, <1>t DEF GuardianLocks, Set, Write, Runtimes, Changes, Groups
  <2>2. GroupOK(o)'
    BY <2>1, <1>t, <1>c, <1>k, <1>e DEF Changes, Counted, GroupOK, WorkloadAlive, Has, Locking, group_is_empty
  <2>3. ChildEffect(o)
    BY <2>1, <1>t, <1>c, <1>k, <1>e, <1>q
       DEF Changes, ChildEffect, Counted, Untouched, NoGroup,
           Armed, WorkloadAlive, Has, GuardianLost
  <2> QED BY <2>1, <2>2, <2>3, <1>k, <1>o DEF GroupOK, Locking
<1>5. CASE GuardianTerminates(o)
  <2>1. /\ Changes(o, Signalled(o), g.workload, "termed", files)
        /\ g.guardian = "watch" /\ active' = active
    BY <1>5, <1>t DEF GuardianTerminates, Changes, Groups
  <2>2. GroupOK(o)'
    BY <2>1, <1>t, <1>c, <1>k, <1>e DEF Changes, Counted, GroupOK, WorkloadAlive, Has, Locking, group_is_empty
  <2>3. ChildEffect(o)
    BY <2>1, <1>t, <1>c, <1>k, <1>e, <1>q
       DEF Changes, ChildEffect, Counted, Untouched, NoGroup,
           Armed, WorkloadAlive, Has, GuardianLost
  <2> QED BY <2>1, <2>2, <2>3, <1>k, <1>o DEF GroupOK, Locking
<1>6. CASE GuardianKills(o)
  <2>1. /\ Changes(o, g.supervisor, g.workload, "killed", files)
        /\ g.guardian = "termed" /\ active' = active
    BY <1>6, <1>t DEF GuardianKills, Set, Changes, Groups
  <2>2. GroupOK(o)'
    BY <2>1, <1>t, <1>c, <1>k, <1>e DEF Changes, Counted, GroupOK, WorkloadAlive, Has, Locking, group_is_empty
  <2>3. ChildEffect(o)
    BY <2>1, <1>t, <1>c, <1>k, <1>e, <1>q
       DEF Changes, ChildEffect, Counted, Untouched, NoGroup,
           Armed, WorkloadAlive, Has, GuardianLost
  <2> QED BY <2>1, <2>2, <2>3, <1>k, <1>o DEF GroupOK, Locking
<1>7. CASE GuardianLeaves(o)
  <2>1. /\ Changes(o, g.supervisor, g.workload, "done", files)
        /\ g.guardian = "leaving" /\ active' = NoProc
    BY <1>7, <1>t DEF GuardianLeaves, Set, Changes, Groups
  <2>2. GroupOK(o)'
    BY <2>1, <1>t, <1>c, <1>k, <1>e DEF Changes, Counted, GroupOK, WorkloadAlive, Has, Locking, group_is_empty
  <2>3. ChildEffect(o)
    BY <2>1, <1>t, <1>c, <1>k, <1>e, <1>q
       DEF Changes, ChildEffect, Counted, Untouched, NoGroup,
           Armed, WorkloadAlive, Has, GuardianLost
  <2> QED BY <2>1, <2>2, <2>3, <1>k, <1>o DEF GroupOK, Locking
<1>8. CASE SupervisorFails(o)
  <2>1. /\ Changes(o, Corpse(o), g.workload, g.guardian, files)
        /\ g.supervisor \in {"waiting", "running", "lingering"} /\ active' = active
    BY <1>8, <1>t DEF SupervisorFails, Set, Changes, Groups
  <2>2. GroupOK(o)'
    BY <2>1, <1>t, <1>c, <1>k, <1>e DEF Changes, Counted, GroupOK, WorkloadAlive, Has, Locking, group_is_empty
  <2>3. ChildEffect(o)
    BY <2>1, <1>t, <1>c, <1>k, <1>e, <1>q
       DEF Changes, ChildEffect, Counted, Untouched, NoGroup,
           Armed, WorkloadAlive, Has, GuardianLost
  <2> QED BY <2>1, <2>2, <2>3, <1>k, <1>o DEF GroupOK, Locking
<1>9. CASE GuardianFails(o)
  <2>1. /\ Changes(o, g.supervisor, g.workload, "failed", files)
        /\ g.guardian = "killed" /\ active' = NoProc
    BY <1>9, <1>t DEF GuardianFails, Set, Changes, Groups
  <2>2. GroupOK(o)'
    BY <2>1, <1>t, <1>c, <1>k, <1>e DEF Changes, Counted, GroupOK, WorkloadAlive, Has, Locking, group_is_empty
  <2>3. ChildEffect(o)
    BY <2>1, <1>t, <1>c, <1>k, <1>e, <1>q
       DEF Changes, ChildEffect, Counted, Untouched, NoGroup,
           Armed, WorkloadAlive, Has, GuardianLost
  <2> QED BY <2>1, <2>2, <2>3, <1>k, <1>o DEF GroupOK, Locking
<1>10. CASE GuardianCrashes(o)
  <2>1. /\ Changes(o, g.supervisor, g.workload, "crashed", files)
        /\ g.guardian \in {"start", "watch", "termed", "killed", "leaving"}
        /\ active' = IF active = o THEN NoProc ELSE active
    BY <1>10, <1>t DEF GuardianCrashes, Set, Changes, Groups
  <2>2. GroupOK(o)'
    BY <2>1, <1>t, <1>c, <1>k, <1>e DEF Changes, Counted, GroupOK, WorkloadAlive, Has, Locking, group_is_empty
  <2>3. ChildEffect(o)
    BY <2>1, <1>t, <1>c, <1>k, <1>e, <1>q
       DEF Changes, ChildEffect, Counted, Untouched, NoGroup,
           Armed, WorkloadAlive, Has, GuardianLost
  <2> QED BY <2>1, <2>2, <2>3, <1>k, <1>o DEF GroupOK, Locking
<1>11. CASE GuardianDrained(o)
  <2>1. /\ Changes(o, g.supervisor, g.workload, "leaving", runtime'[o].files)
        /\ runtime'[o].files \in {files, files \cup {"drained"}}
        /\ g.guardian \in {"termed", "killed"} /\ group_is_empty(o) /\ active' = active
    BY <1>11, <1>t DEF GuardianDrained, Set, Write, Runtimes, Changes, Groups
  <2>2. GroupOK(o)'
    BY <2>1, <1>t, <1>c, <1>k DEF Changes, Counted, GroupOK, WorkloadAlive, Has, Locking, group_is_empty
  <2>3. ChildEffect(o)
    BY <2>1, <1>t, <1>c, <1>k, <1>q
       DEF Changes, ChildEffect, Counted, Untouched, NoGroup,
           Armed, WorkloadAlive, Has, GuardianLost
  <2> QED BY <2>1, <2>2, <2>3, <1>o
<1>12. CASE WorkloadExits(o)
  <2>1. /\ Changes(o, g.supervisor, group'[o].workload, g.guardian, files)
        /\ group'[o].workload \in {"exited", "gone"} /\ WorkloadAlive(o) /\ active' = active
    BY <1>12, <1>t DEF WorkloadExits, Set, Changes, Groups
  <2>2. GroupOK(o)'
    BY <2>1, <1>t, <1>c, <1>k DEF Changes, Counted, GroupOK, WorkloadAlive, Has, Locking, group_is_empty
  <2>3. ChildEffect(o)
    BY <2>1, <1>t, <1>c, <1>k, <1>q
       DEF Changes, ChildEffect, Counted, Untouched, NoGroup,
           Armed, WorkloadAlive, Has, GuardianLost
  <2> QED BY <2>1, <2>2, <2>3, <1>o
<1> QED BY <1>1, <1>2, <1>3, <1>4, <1>5, <1>6, <1>7, <1>8, <1>9, <1>10, <1>11, <1>12
       DEF Supervise, Children, ChildrenFail

(***************************************************************************)
(* It keeps the rest of the invariant too, since the processes, the        *)
(* journals and the policy stay as they are.                               *)
(***************************************************************************)
LEMMA ChildKeeps ==
  ASSUME IInv, WInv, NEW o \in Ops,
         Supervise(Children(o) \/ ChildrenFail(o) \/ WorkloadExits(o))
  PROVE  WInv'
<1>1. GroupInv' /\ ChildEffect(o)
  BY ChildStep DEF WInv
<1>2. proc' = proc
  BY ChildrenTyped DEF Supervise, IInv
<1>3. UNCHANGED <<journal, sysfs, disturbed>>
  BY DEF Supervise, cpuidleVars
<1>a. /\ \A q \in Ops : Armed(q)' => Armed(q)
      /\ \A q \in Ops : GuardianLost(q) => GuardianLost(q)'
      /\ \A q \in Ops : Untouched(q) => Untouched(q)'
  BY <1>1 DEF ChildEffect, Armed, WorkloadAlive, Has, GuardianLost, Untouched
<1>4. UntouchedInv'
  BY <1>a, <1>3 DEF WInv, UntouchedInv, Exists
<1>5. ArmedInv'
  BY <1>a, <1>3 DEF WInv, ArmedInv, Unfinished, Exists
<1>6. ASSUME NEW p \in Procs
      PROVE  ProcOK(p)'
  <2>0. ProcOK(p) /\ (proc[p].pc # "idle" => Op(p) \in Ops)
    BY <1>6, NotIdle DEF WInv, IInv, Commands, Op
  <2>1. FreshOK(p)'
    <3>1. ASSUME Op(p) \in Ops, ~WorkloadAlive(Op(p)), ~Has(Op(p), "go")
          PROVE  ~WorkloadAlive(Op(p))'
      BY <1>a, <3>1, <1>2 DEF Armed, Op
    <3>2. CASE proc[p].pc = "idle"
      BY <1>2, <3>2 DEF FreshOK, At, Preparing
    <3>3. CASE Op(p) \in Ops
      BY <2>0, <1>1, <1>2, <1>a, <3>1, <3>3 DEF ProcOK, FreshOK, ChildEffect, At, Op, Has
    <3> QED BY <2>0, <3>2, <3>3
  <2>2. CommandOK(p)' /\ DesiredOK(p)'
    BY <2>0, <1>2, <1>3 DEF ProcOK, CommandOK, DesiredOK, At
  <2>3. PassOK(p)'
    BY <2>0, <1>2, <1>a DEF ProcOK, PassOK, Running, Op
  <2> QED BY <2>1, <2>2, <2>3 DEF ProcOK
<1> QED BY <1>1, <1>4, <1>5, <1>6 DEF WInv

-----------------------------------------------------------------------------
(* Steps of a command.                                                     *)

(***************************************************************************)
(* Nothing is asked of a process that is idle.                             *)
(***************************************************************************)
LEMMA IdleOK ==
  ASSUME NEW p \in Procs, proc'[p] = Idle
  PROVE  ProcOK(p)'
BY DEF ProcOK, FreshOK, CommandOK, PassOK, DesiredOK, Idle, At, Preparing, Deciding, Supervising

(***************************************************************************)
(* While one command is under way, the other processes are idle.           *)
(***************************************************************************)
LEMMA OthersIdle ==
  ASSUME IInv, NEW p \in Procs, proc[p] # Idle, \A q \in Procs : q # p => proc'[q] = proc[q]
  PROVE  \A q \in Procs : q # p => ProcOK(q)'
<1>1. \A q \in Procs : q # p => proc'[q] = Idle
  BY DEF IInv, JournalInv, LockInv
<1> QED BY <1>1, IdleOK

\* A step of CpuIdle leaves the supervision alone.
Unsupervised == UNCHANGED <<group, runtime, active, starts>>

\* What is armed has lost its guardian.
AllLost == \A o \in Ops : Armed(o) => GuardianLost(o)

(***************************************************************************)
(* A command that has no workload of its own yet, or no more, knows that   *)
(* no guarded workload is armed.                                           *)
(***************************************************************************)
LEMMA Passed ==
  ASSUME WInv, NEW p \in Procs, proc[p].pc \notin {"idle", "require_inactive"}, ~Running(p)
  PROVE  AllLost
BY DEF WInv, ProcOK, PassOK, AllLost

(***************************************************************************)
(* So it may do as it likes with the policy and with its journal.          *)
(***************************************************************************)
LEMMA LocalStep ==
  ASSUME IInv, WInv, NEW p \in Procs, proc[p].pc \notin {"idle", "require_inactive"}, ~Running(p),
         \A q \in Procs : q # p => proc'[q] = proc[q],
         Unsupervised,
         \A o \in Ops : ~Exists(o)' => ~Exists(o),
         FreshOK(p)', CommandOK(p)', DesiredOK(p)'
  PROVE  WInv'
<1>1. AllLost
  BY Passed
<1>2. \A o \in Ops : /\ Armed(o)' = Armed(o)
                     /\ GuardianLost(o)' = GuardianLost(o)
                     /\ Untouched(o)' = Untouched(o)
  BY DEF Unsupervised, Armed, WorkloadAlive, Has, GuardianLost, Untouched
<1>3. ArmedInv' /\ PassOK(p)'
  BY <1>1, <1>2 DEF AllLost, ArmedInv, PassOK
<1>4. UntouchedInv'
  BY <1>2 DEF WInv, UntouchedInv
<1>5. GroupInv'
  BY DEF WInv, GroupInv, GroupOK, Unsupervised, WorkloadAlive, Has
<1>6. \A q \in Procs : q # p => ProcOK(q)'
  BY OthersIdle DEF Idle
<1> QED BY <1>3, <1>4, <1>5, <1>6 DEF WInv, ProcOK

\* A command goes on under its ID.
Steps(p, to) ==
  /\ proc'[p].pc \in to
  /\ proc'[p].op = proc[p].op /\ proc'[p].command = proc[p].command
  /\ proc'[p].outcome = proc[p].outcome
  /\ \A q \in Procs : q # p => proc'[q] = proc[q]

(***************************************************************************)
(* What Goto leaves as it is.                                              *)
(***************************************************************************)
LEMMA GotoSteps ==
  ASSUME TypeOK, NEW p \in Procs, proc[p] \in Commands, NEW x, Goto(p, x)
  PROVE  Steps(p, {x}) /\ proc'[p].entry = proc[p].entry
<1>1. proc' = [proc EXCEPT ![p] = [proc[p] EXCEPT !.pc = x]]
  BY DEF Goto, TypeOK
<1>2. proc'[p] = [proc[p] EXCEPT !.pc = x] /\ \A q \in Procs : q # p => proc'[q] = proc[q]
  BY <1>1 DEF TypeOK
<1> QED BY <1>2 DEF Steps, Commands

(***************************************************************************)
(* What NextEntry leaves as it is.                                         *)
(***************************************************************************)
LEMMA NextEntrySteps ==
  ASSUME TypeOK, NEW p \in Procs, proc[p] \in Commands, NEW again, NEW next,
         NextEntry(p, again, next)
  PROVE  Steps(p, {again, next})
<1> DEFINE e == IF proc[p].entry = Len(Desired) THEN 1 ELSE proc[p].entry + 1
           x == IF proc[p].entry = Len(Desired) THEN next ELSE again
<1>1. proc' = [proc EXCEPT ![p] = [proc[p] EXCEPT !.entry = e, !.pc = x]]
  BY DEF NextEntry, TypeOK
<1>3. x \in {again, next}
  OBVIOUS
<1> HIDE DEF e, x
<1>2. /\ proc'[p] = [proc[p] EXCEPT !.entry = e, !.pc = x]
      /\ \A q \in Procs : q # p => proc'[q] = proc[q]
  BY <1>1 DEF TypeOK
<1> QED BY <1>2, <1>3 DEF Steps, Commands

\* No journal is taken away.
JournalsStay == \A o \in Ops : ~Exists(o)' => ~Exists(o)

(***************************************************************************)
(* A transition takes no journal away.                                     *)
(***************************************************************************)
LEMMA StageStays ==
  ASSUME IInv, NEW o \in Ops, Exists(o), NEW s \in Stages, Stage(o, s)
  PROVE  JournalsStay
<1>1. journal'[o] \in Journals /\ \A q \in Ops : q # o => journal'[q] = journal[q]
  BY StageTyped DEF IInv
<1>2. journal'[o] # NoJournal
  BY <1>1 DEF Journals, NoJournal
<1> QED BY <1>1, <1>2 DEF JournalsStay, Exists

(***************************************************************************)
(* A step of the restoration, or to it.                                    *)
(***************************************************************************)
LEMMA RestoringStep ==
  ASSUME IInv, WInv, NEW p \in Procs, proc[p].pc \notin {"idle", "require_inactive"}, ~Running(p),
         \A q \in Procs : q # p => proc'[q] = proc[q],
         proc'[p].pc \in {"restore_check", "restoring", "restore", "restore_write",
                          "restore_readback", "restore_verify", "restored", "cleanup", "reconcile",
                          "recoverable"},
         Unsupervised, JournalsStay
  PROVE  WInv'
<1>1. FreshOK(p)' /\ CommandOK(p)' /\ DesiredOK(p)'
  BY DEF FreshOK, CommandOK, DesiredOK, At, Preparing, Deciding, Supervising
<1> QED BY <1>1, LocalStep DEF JournalsStay

(***************************************************************************)
(* require_inactive: the guardian's lock is free, so no workload is        *)
(* guarded.                                                                *)
(***************************************************************************)
LEMMA RequireInactivePasses ==
  ASSUME IInv, WInv, NEW p \in Procs, require_inactive(p)
  PROVE  WInv'
<1>1. At(p, "require_inactive") /\ proc[p] \in Commands /\ TypeOK
  BY NotIdle DEF require_inactive, At, IInv
<1>2. /\ Steps(p, {"accept", "select"}) /\ proc'[p].entry = proc[p].entry
      /\ proc'[p].pc = IF proc[p].command = "run" THEN "accept" ELSE "select"
  BY <1>1, GotoSteps DEF require_inactive, Steps
<1>3. Unsupervised /\ UNCHANGED <<journal, sysfs, disturbed>> /\ active = NoProc
  BY DEF require_inactive, Unsupervised, supervisionVars, cpuidleVars, history
<1>4. AllLost
  <2> SUFFICES ASSUME NEW o \in Ops, Armed(o)
               PROVE  GuardianLost(o)
    BY DEF AllLost
  <2>1. group[o].guardian \notin Locking
    BY <1>3, CpuIdleAssumption DEF WInv, GroupInv, GroupOK
  <2> QED BY <2>1 DEF WInv, GroupInv, GroupOK, Armed, GuardianLost, Locking
<1>5. \A o \in Ops : /\ Armed(o)' = Armed(o)
                     /\ GuardianLost(o)' = GuardianLost(o)
                     /\ Untouched(o)' = Untouched(o)
  BY <1>3 DEF Unsupervised, Armed, WorkloadAlive, Has, GuardianLost, Untouched
<1>6. PassOK(p)' /\ ArmedInv'
  BY <1>4, <1>5 DEF PassOK, AllLost, ArmedInv
<1>7. FreshOK(p)' /\ CommandOK(p)' /\ DesiredOK(p)'
  <2>1. proc[p].command \in {"run", "recover"} /\ proc[p].entry = 1
    BY <1>1 DEF WInv, ProcOK, CommandOK, At
  <2> QED BY <1>2, <2>1
          DEF Steps, FreshOK, CommandOK, DesiredOK, At, Preparing, Deciding, Supervising
<1>8. GroupInv'
  BY <1>3 DEF WInv, GroupInv, GroupOK, Unsupervised, WorkloadAlive, Has
<1>9. UntouchedInv'
  BY <1>3, <1>5 DEF WInv, UntouchedInv, Exists
<1>10. \A q \in Procs : q # p => ProcOK(q)'
  BY <1>1, <1>2, OthersIdle, NotIdleRecord DEF Steps, At
<1> QED BY <1>6, <1>7, <1>8, <1>9, <1>10 DEF WInv, ProcOK

(***************************************************************************)
(* Accept and StorePrepared: the ID was never used.                        *)
(***************************************************************************)
LEMMA PreparePasses ==
  ASSUME IInv, WInv, NEW p \in Procs, Accept(p) \/ StorePrepared(p)
  PROVE  WInv'
<1>1. /\ proc[p].pc \in {"accept", "prepare"} /\ proc[p] \in Commands /\ TypeOK /\ ~Running(p)
      /\ proc[p].command = "run" /\ proc[p].entry = 1
  BY NotIdle DEF Accept, StorePrepared, At, IInv, Running, Monitoring, WInv, ProcOK, CommandOK
<1>2. Unsupervised /\ UNCHANGED <<sysfs, disturbed>>
  BY DEF Accept, StorePrepared, Unsupervised, supervisionVars, cpuidleVars, history
<1>3. CASE Accept(p)
  <2>1. Steps(p, {"prepare"}) /\ proc'[p].entry = 1
    <3>1. proc' = [proc EXCEPT ![p] = [proc[p] EXCEPT !.pc = "prepare", !.original = sysfs]]
      BY <1>3, <1>1 DEF Accept, TypeOK
    <3>2. /\ proc'[p] = [proc[p] EXCEPT !.pc = "prepare", !.original = sysfs]
          /\ \A q \in Procs : q # p => proc'[q] = proc[q]
      BY <1>1, <3>1 DEF TypeOK
    <3> QED BY <1>1, <3>2 DEF Steps, Commands
  <2>2. FreshOK(p)' /\ CommandOK(p)' /\ DesiredOK(p)'
    BY <1>1, <2>1 DEF Steps, FreshOK, CommandOK, DesiredOK, At, Preparing, Deciding, Supervising
  <2>3. \A o \in Ops : ~Exists(o)' => ~Exists(o)
    BY <1>3 DEF Accept, cpuidleVars, Exists
  <2> QED BY <1>1, <1>2, <2>1, <2>2, <2>3, LocalStep DEF Steps
<1>4. CASE StorePrepared(p)
  <2>1. Steps(p, {"apply"}) /\ proc'[p].entry = 1
    BY <1>1, <1>4, GotoSteps DEF StorePrepared
  <2>2. ~Exists(Op(p)) /\ Op(p) \in Ops
    BY <1>1, <1>4 DEF StorePrepared, IInv, JournalInv, PrepareInv, Op, Commands
  <2>3. Untouched(Op(p))
    BY <2>2 DEF WInv, UntouchedInv
  <2>4. Untouched(Op(p))'
    BY <1>2, <2>1, <2>3 DEF Unsupervised, Untouched, Op, Steps
  <2>5. DesiredOK(p)'
    <3>1. \A e \in Entries : ~(e < 1)
      BY EntriesInterval
    <3> QED BY <2>1, <3>1 DEF DesiredOK, Steps
  <2>6. FreshOK(p)' /\ CommandOK(p)'
    BY <1>1, <2>1, <2>4 DEF Steps, FreshOK, CommandOK, At
  <2>7. \A o \in Ops : ~Exists(o)' => ~Exists(o)
    <3>1. \A o \in Ops : o # Op(p) => journal'[o] = journal[o]
      BY <1>1, <1>4 DEF StorePrepared, TypeOK
    <3> QED BY <2>2, <3>1 DEF Exists
  <2> QED BY <1>1, <1>2, <2>1, <2>5, <2>6, <2>7, LocalStep DEF Steps
<1> QED BY <1>3, <1>4

(***************************************************************************)
(* apply, entry by entry.                                                  *)
(***************************************************************************)
LEMMA ApplyPasses ==
  ASSUME IInv, WInv, NEW p \in Procs, apply(p) \/ ApplyReadback(p) \/ ApplyWrite(p)
  PROVE  WInv'
<1>1. /\ proc[p].pc \in {"apply", "apply_write", "apply_readback"} /\ proc[p] \in Commands /\ TypeOK
      /\ ~Running(p) /\ ProcOK(p) /\ proc[p].command = "run" /\ Op(p) \in Ops
  BY NotIdle DEF apply, ApplyReadback, ApplyWrite, write_bit, At, IInv, Running, Monitoring, WInv,
                 ProcOK, CommandOK, Deciding, Op, Commands
<1>2. Unsupervised /\ UNCHANGED <<journal, disturbed>>
  BY DEF apply, ApplyReadback, ApplyWrite, write_bit, Unsupervised, supervisionVars, cpuidleVars,
         history
<1>3. JournalsStay
  BY <1>2 DEF JournalsStay, Exists
<1>4. CASE Abort(p) /\ UNCHANGED sysfs
  <2>1. Moves(p, {"restore_check"})
    BY <1>1, <1>4, AbortMoves
  <2> QED BY <1>1, <1>2, <1>3, <2>1, RestoringStep DEF Moves
<1>5. ASSUME Steps(p, {"apply", "apply_write", "apply_readback", "applied"}), DesiredOK(p)'
      PROVE  WInv'
  <2>1. Untouched(Op(p))'
    BY <1>1, <1>2, <1>5 DEF ProcOK, FreshOK, Preparing, Unsupervised, Untouched, Op, Steps
  <2>2. FreshOK(p)' /\ CommandOK(p)'
    BY <1>1, <1>5, <2>1 DEF Steps, FreshOK, CommandOK, At
  <2> QED BY <1>1, <1>2, <1>3, <1>5, <2>2, LocalStep DEF Steps, JournalsStay
<1>6. CASE apply(p) /\ Goto(p, "apply_write")
  <2>1. Steps(p, {"apply_write"}) /\ proc'[p].entry = proc[p].entry
    BY <1>1, <1>6, GotoSteps
  <2>2. UNCHANGED sysfs
    BY <1>6 DEF apply, cpuidleVars
  <2>3. DesiredOK(p)'
    BY <1>1, <1>2, <2>1, <2>2 DEF ProcOK, DesiredOK, Steps
  <2> QED BY <1>5, <2>1, <2>3 DEF Steps
<1>7. CASE ApplyWrite(p)
  <2>1. Steps(p, {"apply_readback"}) /\ proc'[p].entry = proc[p].entry
    BY <1>1, <1>7, GotoSteps DEF ApplyWrite, write_bit
  <2>2. \A e \in Entries : e < proc[p].entry => sysfs'[e] = sysfs[e]
    <3>1. \A e \in Entries : e < proc[p].entry => e # proc[p].entry
      BY <1>1, EntriesInterval DEF Commands
    <3>2. sysfs \in [Entries -> {0, 1}]
      BY <1>1 DEF TypeOK, Bits
    <3> QED BY <1>7, <3>1, <3>2 DEF ApplyWrite, write_bit
  <2>3. DesiredOK(p)'
    BY <1>1, <1>2, <2>1, <2>2 DEF ProcOK, DesiredOK, Steps
  <2> QED BY <1>5, <2>1, <2>3 DEF Steps
<1>8. CASE ApplyReadback(p) /\ Current(p) = Wanted(p) /\ NextEntry(p, "apply", "applied")
  <2>0. At(p, "apply_readback") /\ UNCHANGED sysfs /\ "apply" \in PCs /\ "applied" \in PCs
    BY <1>8 DEF ApplyReadback, cpuidleVars, PCs
  <2>1. Steps(p, {"apply", "applied"})
    BY <1>1, <1>8, NextEntrySteps
  <2>2. /\ proc[p].entry = Len(Desired) => proc'[p].pc = "applied"
        /\ proc[p].entry # Len(Desired) => proc'[p].pc = "apply" /\ proc'[p].entry = proc[p].entry + 1
    BY <1>1, <1>8, <2>0, NextEntryMoves
  <2>3. \A e \in Entries : e < proc[p].entry + 1 => disturbed \/ sysfs[e] = Desired[e]
    <3>1. \A e \in Entries : e < proc[p].entry => disturbed \/ sysfs[e] = Desired[e]
      BY <1>1, <2>0 DEF ProcOK, DesiredOK, At
    <3>2. sysfs[proc[p].entry] = Desired[proc[p].entry]
      BY <1>8 DEF Current, Wanted
    <3>3. proc[p].entry \in Nat /\ \A e \in Entries : e \in Nat
      BY <1>1, EntriesInterval DEF Commands
    <3>4. \A e \in Entries : e < proc[p].entry + 1 => e < proc[p].entry \/ e = proc[p].entry
      BY <3>3
    <3> QED BY <3>1, <3>2, <3>4
  <2>4. ASSUME proc[p].entry = Len(Desired)
        PROVE  disturbed \/ sysfs = Desired
    <3>1. \A e \in Entries : disturbed \/ sysfs[e] = Desired[e]
      BY <2>3, <2>4, EntriesInterval
    <3>2. sysfs \in [Entries -> {0, 1}] /\ Desired \in [Entries -> {0, 1}]
      BY <1>1, CpuIdleAssumption DEF TypeOK, Bits, Entries
    <3> QED BY <3>1, <3>2
  <2>5. DesiredOK(p)'
    BY <1>2, <2>0, <2>1, <2>2, <2>3, <2>4 DEF DesiredOK, Steps
  <2> QED BY <1>5, <2>1, <2>5 DEF Steps
<1> QED BY <1>4, <1>6, <1>7, <1>8 DEF apply, ApplyReadback, cpuidleVars

(***************************************************************************)
(* The stages on the way to the workload.                                  *)
(***************************************************************************)
LEMMA AppliedPasses ==
  ASSUME IInv, WInv, NEW p \in Procs, StoreApplied(p) \/ StoreWorkloadStarted(p)
  PROVE  WInv'
<1>1. /\ proc[p].pc \in {"applied", "started"} /\ proc[p] \in Commands /\ TypeOK /\ ~Running(p)
      /\ ProcOK(p) /\ proc[p].command = "run" /\ Op(p) \in Ops /\ Exists(Op(p))
  <2>1. proc[p].pc \in {"applied", "started"}
    BY DEF StoreApplied, StoreWorkloadStarted, StoreStage, At
  <2>2. proc[p].pc \in Owning /\ proc[p].pc \in Deciding
    BY <2>1 DEF Owning, Deciding
  <2> QED BY <2>1, <2>2, Owned DEF IInv, WInv, ProcOK, CommandOK, Running, Monitoring
<1>2. Unsupervised /\ UNCHANGED <<sysfs, disturbed>>
  BY DEF StoreApplied, StoreWorkloadStarted, StoreStage, Unsupervised, supervisionVars, history
<1>3. Steps(p, {"started", "spawn"})
  BY <1>1, GotoSteps DEF StoreApplied, StoreWorkloadStarted, StoreStage, Steps
<1>4. JournalsStay
  BY <1>1, StageStays DEF StoreApplied, StoreWorkloadStarted, StoreStage, Stages
<1>5. Untouched(Op(p))'
  BY <1>1, <1>2, <1>3 DEF ProcOK, FreshOK, Preparing, Unsupervised, Untouched, Op, Steps
<1>6. FreshOK(p)' /\ CommandOK(p)'
  BY <1>1, <1>3, <1>5 DEF Steps, FreshOK, CommandOK, At
<1>7. DesiredOK(p)'
  BY <1>1, <1>2, <1>3 DEF ProcOK, DesiredOK, Steps
<1> QED BY <1>1, <1>2, <1>3, <1>4, <1>6, <1>7, LocalStep DEF Steps, JournalsStay

(***************************************************************************)
(* The steps of a restoration that goes on.                                *)
(***************************************************************************)
LEMMA RestorePasses ==
  ASSUME IInv, WInv, NEW p \in Procs, UNCHANGED <<group, runtime, active, starts>>,
         \/ StoreFinished(p) \/ Select(p) \/ (reconcile_runtime_outcome(p) /\ proc[p].command # "run")
         \/ RestoreCheck(p) \/ StoreRestoring(p) \/ Restore(p) \/ RestoreWrite(p)
         \/ RestoreReadback(p) \/ RestoreVerify(p) \/ StoreRestored(p),
         ~Depart(p)
  PROVE  WInv'
<1> DEFINE To == {"restore_check", "restoring", "restore", "restore_write", "restore_readback",
                  "restore_verify", "restored", "cleanup", "reconcile"}
<1>1. /\ proc[p].pc \in {"finish", "select", "reconcile"} \cup To /\ proc[p] \in Commands /\ TypeOK
      /\ ~Running(p) /\ Op(p) \in Ops
  <2>1. /\ proc[p].pc \in {"finish", "select", "reconcile"} \cup To
        /\ At(p, "reconcile") => proc[p].command # "run"
    BY DEF StoreFinished, Select, reconcile_runtime_outcome, RestoreCheck, StoreRestoring, Restore,
           RestoreWrite, RestoreReadback, RestoreVerify, StoreRestored, StoreStage, write_bit, At
  <2>2. proc[p] \in Commands
    BY <2>1, NotIdle DEF IInv
  <2>3. ~Running(p)
    BY <2>1 DEF Running, Monitoring, At
  <2> QED BY <2>1, <2>2, <2>3 DEF IInv, Op, Commands
<1>g. ASSUME NEW x \in To, Goto(p, x)
      PROVE  Steps(p, To)
  BY <1>1, <1>g, GotoSteps DEF Steps
<1>n. ASSUME NEW x \in To, NEW y \in To, NextEntry(p, x, y)
      PROVE  Steps(p, To)
  BY <1>1, <1>n, NextEntrySteps DEF Steps
<1>2. Steps(p, To)
  <2>1. CASE StoreFinished(p) \/ Select(p) \/ StoreRestoring(p) \/ RestoreWrite(p) \/ StoreRestored(p)
    BY <2>1, <1>g DEF StoreFinished, Select, StoreRestoring, RestoreWrite, StoreRestored, StoreStage,
                      write_bit
  <2>2. CASE reconcile_runtime_outcome(p) /\ proc[p].command # "run"
    BY <2>2, <1>g DEF reconcile_runtime_outcome
  <2>3. CASE RestoreCheck(p) \/ RestoreReadback(p) \/ RestoreVerify(p)
    BY <2>3, <1>n DEF RestoreCheck, RestoreReadback, RestoreVerify, Conflict
  <2>4. CASE Restore(p)
    BY <2>4, <1>g, <1>n DEF Restore, Conflict
  <2> QED BY <2>1, <2>2, <2>3, <2>4
<1>3. JournalsStay
  <2>1. CASE journal' = journal
    BY <2>1 DEF JournalsStay, Exists
  <2>2. CASE StoreRestoring(p) \/ StoreRestored(p)
    <3>1. proc[p].pc \in Owning
      BY <2>2 DEF StoreRestoring, StoreRestored, StoreStage, At, Owning
    <3>2. \E s \in Stages : Stage(Op(p), s)
      BY <2>2 DEF StoreRestoring, StoreRestored, StoreStage, Stages
    <3> QED BY <3>1, <3>2, Owned, StageStays
  <2>3. CASE StoreFinished(p) \/ reconcile_runtime_outcome(p)
    <3>1. proc[p].pc \in Owning
      BY <2>3 DEF StoreFinished, reconcile_runtime_outcome, At, Owning, Deciding
    <3>2. journal[Op(p)] \in Journals
      BY <3>1, Owned
    <3>3. journal'[Op(p)].boot = journal[Op(p)].boot /\ journal'[Op(p)] # NoJournal
      <4>1. PICK j : /\ journal' = [journal EXCEPT ![Op(p)] = j]
                     /\ j \in {[journal[Op(p)] EXCEPT !.stage = "Draining", !.outcome = proc[p].outcome],
                               [journal[Op(p)] EXCEPT !.outcome =
                                  IF @ = "none" THEN recover_outcome(Op(p)) ELSE @]}
        BY <2>3, <1>1 DEF StoreFinished, reconcile_runtime_outcome, TypeOK
      <4>2. journal'[Op(p)] = j
        BY <1>1, <4>1 DEF TypeOK
      <4>3. j # NoJournal /\ j.boot = journal[Op(p)].boot
        <5>1. DOMAIN j = DOMAIN journal[Op(p)] /\ "boot" \in DOMAIN journal[Op(p)]
          BY <3>2, <4>1 DEF Journals
        <5>2. j.boot = journal[Op(p)].boot
          BY <3>2, <4>1 DEF Journals
        <5>3. "boot" \notin DOMAIN NoJournal
          BY DEF NoJournal
        <5> QED BY <5>1, <5>2, <5>3
      <4> QED BY <4>2, <4>3
    <3>4. \A o \in Ops : o # Op(p) => journal'[o] = journal[o]
      BY <2>3, <1>1 DEF StoreFinished, reconcile_runtime_outcome, TypeOK
    <3> HIDE DEF Op
    <3> QED BY <3>3, <3>4 DEF JournalsStay, Exists
  <2>4. CASE Select(p) \/ RestoreCheck(p) \/ Restore(p) \/ RestoreWrite(p) \/ RestoreReadback(p)
             \/ RestoreVerify(p)
    BY <2>4, <2>1 DEF Select, RestoreCheck, Restore, RestoreWrite, RestoreReadback, RestoreVerify,
                      Conflict, write_bit
  <2> QED BY <2>2, <2>3, <2>4
<1> QED BY <1>1, <1>2, <1>3, RestoringStep DEF Unsupervised, Steps

(***************************************************************************)
(* A process that ends: its children have another parent, and a supervisor *)
(* that was dead is reaped.                                                *)
(***************************************************************************)
LEMMA DepartGroups ==
  ASSUME IInv, NEW p \in Procs, Depart(p), NEW o \in Ops
  PROVE  /\ group'[o].guardian = group[o].guardian /\ group'[o].workload = group[o].workload
         /\ (group'[o].supervisor = "waiting") <=> (group[o].supervisor = "waiting")
         /\ group[o] = NoGroup => group'[o] = NoGroup
<1>1. group[o] \in Groups
  BY DEF IInv, TypeOK, SupervisionTypeOK
<1>2. group'[o] = IF group[o].parent = p
                  THEN [group[o] EXCEPT !.parent = NoProc, !.supervisor = Reaped(o)] ELSE group[o]
  BY DEF Depart
<1>3. group[o] = NoGroup => group[o].parent # p
  BY CpuIdleAssumption DEF NoGroup
<1>4. CASE group[o].parent = p
  <2>1. /\ group'[o].guardian = group[o].guardian /\ group'[o].workload = group[o].workload
        /\ group'[o].supervisor = Reaped(o)
    BY <1>1, <1>2, <1>4 DEF Groups
  <2> QED BY <1>3, <1>4, <2>1 DEF Reaped
<1> QED BY <1>2, <1>3, <1>4

(***************************************************************************)
(* What it leaves behind is as it was, as long as no guarded workload has  *)
(* its journal finished.                                                   *)
(***************************************************************************)
LEMMA DepartPasses ==
  ASSUME IInv, WInv, NEW p \in Procs, proc[p] # Idle, Depart(p), JournalsStay,
         UNCHANGED <<active, starts, sysfs, disturbed>>,
         \A o \in Ops : runtime'[o].files \in {runtime[o].files, {}},
         AllLost \/ \A o \in Ops : Unfinished(o) => Unfinished(o)'
  PROVE  WInv'
<1>1. \A q \in Procs : ProcOK(q)'
  BY DepartTyped, OthersIdle, IdleOK DEF IInv
<1>2. \A o \in Ops : /\ WorkloadAlive(o)' <=> WorkloadAlive(o)
                     /\ GuardianLost(o)' <=> GuardianLost(o)
                     /\ Armed(o)' => Armed(o)
                     /\ Untouched(o) => Untouched(o)'
  BY DepartGroups DEF WorkloadAlive, GuardianLost, Armed, Has, Untouched
<1>3. UntouchedInv'
  BY <1>2 DEF WInv, UntouchedInv, JournalsStay
<1>4. ArmedInv'
  BY <1>2 DEF WInv, ArmedInv, AllLost
<1>5. GroupInv'
  <2> SUFFICES ASSUME NEW o \in Ops
               PROVE  GroupOK(o)'
    BY DEF GroupInv
  <2>1. GroupOK(o)
    BY DEF WInv, GroupInv
  <2>2. Has(o, "go")' => Has(o, "go")
    BY DEF Has
  <2>3. Has(o, "ready")' => Has(o, "ready")
    BY DEF Has
  <2> QED BY <1>2, <2>1, <2>2, <2>3, DepartGroups DEF GroupOK
<1> QED BY <1>1, <1>3, <1>4, <1>5 DEF WInv

(***************************************************************************)
(* The steps with which a command ends.                                    *)
(***************************************************************************)
LEMMA EndPasses ==
  ASSUME IInv, WInv, NEW p \in Procs, Depart(p),
         \/ StillActive(p) \/ Refuse(p) \/ replay_outcome(p) \/ Crash(p) \/ Cleanup(p) \/ Select(p)
         \/ StoreRecoverable(p) \/ RestoreCheck(p) \/ Restore(p) \/ RestoreReadback(p)
         \/ RestoreVerify(p) \/ StoreRestored(p)
  PROVE  WInv'
<1>1. proc[p].pc # "idle"
  BY DEF StillActive, Refuse, replay_outcome, Crash, Cleanup, Select, StoreRecoverable, RestoreCheck,
         Restore, RestoreReadback, RestoreVerify, StoreRestored, At
<1>2. UNCHANGED <<active, starts, sysfs, disturbed>>
  BY DEF StillActive, Refuse, replay_outcome, Crash, Cleanup, Select, StoreRecoverable, RestoreCheck,
         Restore, RestoreReadback, RestoreVerify, StoreRestored, history
<1>3. \A o \in Ops : runtime'[o].files \in {runtime[o].files, {}}
  <2>1. CASE runtime' = runtime
    BY <2>1
  <2>2. CASE Cleanup(p)
    BY <2>2 DEF Cleanup, cleanup_runtime, NoRuntime, IInv, TypeOK, SupervisionTypeOK
  <2> QED BY <2>1, <2>2
          DEF StillActive, Refuse, replay_outcome, Crash, Select, StoreRecoverable, RestoreCheck,
              Restore, RestoreReadback, RestoreVerify, StoreRestored
<1>4. JournalsStay /\ (AllLost \/ \A o \in Ops : Unfinished(o) => Unfinished(o)')
  <2>1. CASE journal' = journal
    BY <2>1 DEF JournalsStay, Exists, Unfinished
  <2>2. ASSUME proc[p].pc \in Owning, NEW s \in Stages, Stage(Op(p), s),
               s # "Restored" \/ At(p, "restored")
        PROVE  JournalsStay /\ (AllLost \/ \A o \in Ops : Unfinished(o) => Unfinished(o)')
    <3>1. Op(p) \in Ops /\ Exists(Op(p))
      BY <2>2, Owned
    <3>2. JournalsStay
      BY <2>2, <3>1, StageStays
    <3>3. CASE At(p, "restored")
      BY <3>2, <3>3, Passed DEF At, Running, Monitoring
    <3>4. CASE s # "Restored"
      <4>1. journal'[Op(p)].stage = s /\ \A q \in Ops : q # Op(p) => journal'[q] = journal[q]
        BY <2>2, <3>1, StageTyped DEF IInv
      <4> HIDE DEF Op
      <4> QED BY <3>1, <3>2, <3>4, <4>1 DEF Unfinished, JournalsStay, Exists
    <3> QED BY <2>2, <3>3, <3>4
  <2>3. CASE StoreRecoverable(p) \/ StoreRestored(p)
    <3>1. /\ proc[p].pc \in Owning
          /\ \E s \in Stages : Stage(Op(p), s) /\ (s # "Restored" \/ At(p, "restored"))
      BY <2>3 DEF StoreRecoverable, StoreRestored, At, Owning, Stages
    <3> QED BY <2>2, <3>1
  <2>4. CASE RestoreCheck(p) \/ Restore(p) \/ RestoreVerify(p)
    <3>1. proc[p].pc \in Owning
      BY <2>4 DEF RestoreCheck, Restore, RestoreVerify, At, Owning
    <3>2. Conflict(p) \/ journal' = journal
      BY <2>4 DEF RestoreCheck, Restore, RestoreVerify
    <3> QED BY <2>1, <2>2, <3>1, <3>2 DEF Conflict, Stages
  <2>5. CASE StillActive(p) \/ Refuse(p) \/ replay_outcome(p) \/ Crash(p) \/ Cleanup(p) \/ Select(p)
             \/ RestoreReadback(p)
    BY <2>1, <2>5 DEF StillActive, Refuse, replay_outcome, Crash, Cleanup, Select, RestoreReadback
  <2> QED BY <2>3, <2>4, <2>5
<1> QED BY <1>1, <1>2, <1>3, <1>4, DepartPasses, NotIdleRecord

-----------------------------------------------------------------------------
(* Steps of coordinate().                                                  *)

\* The coordinator goes on with its operation.
Coordinates(p, to) ==
  /\ proc'[p].pc \in to
  /\ proc'[p].op = proc[p].op /\ proc'[p].command = proc[p].command
  /\ \A q \in Procs : q # p => proc'[q] = proc[q]

\* The other operations, the journals and the policy stay as they are.
OwnOnly(o) ==
  /\ \A q \in Ops : q # o => /\ group'[q] = group[q] /\ runtime'[q] = runtime[q]
                             /\ starts'[q] = starts[q]
  /\ UNCHANGED <<active, journal, sysfs, disturbed>>

(***************************************************************************)
(* The coordinator's operation is typed, exists and was begun by a run.    *)
(***************************************************************************)
LEMMA Coordinator ==
  ASSUME IInv, WInv, NEW p \in Procs, proc[p].pc \in Supervising
  PROVE  /\ proc[p] \in Commands /\ TypeOK /\ Op(p) \in Ops /\ ProcOK(p)
         /\ Exists(Op(p)) /\ Unfinished(Op(p)) /\ proc[p].command = "run"
         /\ GroupOK(Op(p)) /\ group[Op(p)] \in Groups /\ runtime[Op(p)] \in Runtimes
         /\ starts[Op(p)] \in Nat /\ Op(p) # NoProc
<1>1. proc[p].pc \in Owning /\ proc[p].pc \in Deciding
  BY DEF Owning, Deciding
<1>2. proc[p] \in Commands /\ Op(p) \in Ops /\ Exists(Op(p)) /\ Unfinished(Op(p))
  BY <1>1, Owned DEF Unfinished
<1>3. ProcOK(p) /\ proc[p].command = "run"
  BY <1>1 DEF WInv, ProcOK, CommandOK
<1>4. TypeOK /\ GroupOK(Op(p))
  BY <1>2 DEF IInv, WInv, GroupInv
<1> QED BY <1>2, <1>3, <1>4, CpuIdleAssumption DEF TypeOK, SupervisionTypeOK

(***************************************************************************)
(* No workload starts in a step of coordinate().                           *)
(***************************************************************************)
LEMMA SameStarts ==
  ASSUME TypeOK, Counted, \A q \in Ops : group'[q].workload = group[q].workload
  PROVE  \A q \in Ops : starts'[q] = starts[q]
<1> SUFFICES ASSUME NEW q \in Ops PROVE starts'[q] = starts[q]
  OBVIOUS
<1>1. starts[q] \in Nat
  BY DEF TypeOK
<1>2. starts'[q] = starts[q] + 0
  BY DEF Counted, WorkloadAlive
<1> QED BY <1>1, <1>2

(***************************************************************************)
(* What a step of coordinate() has to show.                                *)
(***************************************************************************)
LEMMA OwnStep ==
  ASSUME IInv, WInv, NEW p \in Procs, NEW o \in Ops, o = Op(p), proc[p].pc \in Supervising,
         Coordinates(p, Supervising \cup {"reconcile", "finish"}), OwnOnly(o),
         GroupOK(o)', FreshOK(p)',
         DesiredOK(p)',
         Armed(o)' /\ ~GuardianLost(o)' => disturbed \/ sysfs = Desired,
         Armed(o)' /\ ~Running(p)' => GuardianLost(o)'
  PROVE  WInv'
<1>1. /\ proc[p] \in Commands /\ o \in Ops /\ ProcOK(p) /\ Exists(o) /\ Unfinished(o)
      /\ proc[p].command = "run"
  BY Coordinator
<1>2. Op(p)' = o
  BY DEF Coordinates, Op
<1>3. \A q \in Ops : q # o => /\ Armed(q)' = Armed(q)
                              /\ GuardianLost(q)' = GuardianLost(q)
                              /\ Untouched(q)' = Untouched(q)
                              /\ GroupOK(q)' = GroupOK(q)
  BY DEF OwnOnly, Armed, WorkloadAlive, Has, GuardianLost, Untouched, GroupOK
<1>4. GroupInv'
  BY <1>3 DEF WInv, GroupInv
<1>5. UntouchedInv'
  BY <1>1, <1>3 DEF WInv, UntouchedInv, OwnOnly, Exists
<1>6. ArmedInv'
  <2>1. \A q \in Ops : Unfinished(q)' = Unfinished(q)
    BY DEF OwnOnly, Unfinished, Exists
  <2>2. \A q \in Ops : q # o /\ Armed(q)' /\ ~GuardianLost(q)' =>
                         Unfinished(q) /\ (disturbed \/ sysfs = Desired)
    BY <1>3 DEF WInv, ArmedInv
  <2> QED BY <1>1, <2>1, <2>2 DEF ArmedInv, OwnOnly
<1>7. PassOK(p)'
  <2>1. \A q \in Ops : q # o /\ Armed(q) => GuardianLost(q)
    BY <1>1 DEF ProcOK, PassOK, Supervising
  <2> QED BY <1>2, <1>3, <2>1 DEF PassOK
<1>8. CommandOK(p)'
  BY <1>1 DEF CommandOK, Coordinates, Supervising, Deciding, At
<1>9. \A q \in Procs : q # p => ProcOK(q)'
  BY NotIdleRecord, OthersIdle DEF Coordinates, Supervising
<1> QED BY <1>4, <1>5, <1>6, <1>7, <1>8, <1>9 DEF WInv, ProcOK

(***************************************************************************)
(* The supervisor is spawned under an unused ID.                           *)
(***************************************************************************)
LEMMA SpawnSupervisorPasses ==
  ASSUME IInv, WInv, NEW p \in Procs, NEW o \in Ops, o = Op(p),
         Supervise(SpawnSupervisor(p, o))
  PROVE  WInv'
<1>0. SpawnSupervisor(p, o) /\ Counted /\ UNCHANGED <<journal, sysfs, disturbed>>
  BY DEF Supervise, Counted, cpuidleVars
<1>1. proc[p].pc = "spawn" /\ proc[p].pc \in Supervising
  BY <1>0 DEF SpawnSupervisor, At, Supervising
<1>2. /\ proc[p] \in Commands /\ TypeOK /\ o \in Ops /\ ProcOK(p) /\ GroupOK(o)
      /\ group[o] \in Groups /\ starts[o] \in Nat /\ o # NoProc
  BY <1>1, Coordinator
<1>3. Coordinates(p, {"spawn_guardian"}) /\ Op(p)' = o
  BY <1>0, <1>2, GotoSteps DEF SpawnSupervisor, Steps, Coordinates, Op
<1>4. /\ group[o].guardian = "off" /\ group[o].workload = "off" /\ runtime[o].files = {}
      /\ starts[o] = 0 /\ (disturbed \/ sysfs = Desired)
  <2>1. Untouched(o) /\ (disturbed \/ sysfs = Desired)
    BY <1>1, <1>2 DEF ProcOK, FreshOK, DesiredOK, Preparing
  <2> QED BY <2>1 DEF Untouched, NoGroup
<1>5. /\ group'[o].supervisor = "waiting" /\ group'[o].workload = "off" /\ group'[o].guardian = "off"
      /\ runtime' = runtime /\ active' = active /\ \A q \in Ops : q # o => group'[q] = group[q]
  <2>1. group'[o] = [group[o] EXCEPT !.parent = p, !.supervisor = "waiting"]
    BY <1>0, <1>2 DEF SpawnSupervisor, TypeOK, SupervisionTypeOK
  <2> QED BY <1>0, <1>2, <1>4, <2>1 DEF SpawnSupervisor, TypeOK, SupervisionTypeOK, Groups
<1>6. \A q \in Ops : starts'[q] = starts[q]
  <2>1. \A q \in Ops : group'[q].workload = group[q].workload
    BY <1>4, <1>5
  <2> QED BY <1>0, <1>2, <2>1, SameStarts
<1>7. OwnOnly(o)
  BY <1>0, <1>5, <1>6 DEF OwnOnly
<1>8. GroupOK(o)'
  BY <1>2, <1>4, <1>5, <1>6 DEF GroupOK, WorkloadAlive, Has, Locking
<1>9. ~Armed(o)'
  BY <1>4, <1>5 DEF Armed, WorkloadAlive, Has
<1>10. FreshOK(p)' /\ DesiredOK(p)'
  BY <1>0, <1>3, <1>4, <1>5 DEF FreshOK, DesiredOK, Coordinates, At, Preparing, Has, WorkloadAlive
<1> QED BY <1>1, <1>3, <1>7, <1>8, <1>9, <1>10, OwnStep DEF Coordinates, Supervising

(***************************************************************************)
(* The guardian is spawned before the workload may start.                  *)
(***************************************************************************)
LEMMA SpawnGuardianPasses ==
  ASSUME IInv, WInv, NEW p \in Procs, NEW o \in Ops, o = Op(p),
         Supervise(SpawnGuardian(p, o))
  PROVE  WInv'
<1>0. SpawnGuardian(p, o) /\ Counted /\ UNCHANGED <<journal, sysfs, disturbed>>
  BY DEF Supervise, Counted, cpuidleVars
<1>1. proc[p].pc = "spawn_guardian" /\ proc[p].pc \in Supervising
  BY <1>0 DEF SpawnGuardian, At, Supervising
<1>2. /\ proc[p] \in Commands /\ TypeOK /\ o \in Ops /\ ProcOK(p) /\ GroupOK(o)
      /\ group[o] \in Groups /\ starts[o] \in Nat /\ o # NoProc
  BY <1>1, Coordinator
<1>3. Coordinates(p, {"wait_for_ready"}) /\ Op(p)' = o
  BY <1>0, <1>2, GotoSteps DEF SpawnGuardian, Steps, Coordinates, Op
<1>4. /\ group[o].guardian = "off" /\ runtime[o].files = {} /\ ~WorkloadAlive(o)
      /\ disturbed \/ sysfs = Desired
  BY <1>1, <1>2 DEF ProcOK, FreshOK, DesiredOK, At
<1>5. /\ group'[o].supervisor = group[o].supervisor /\ group'[o].workload = group[o].workload
      /\ group'[o].guardian = "start"
      /\ runtime' = runtime /\ active' = active /\ \A q \in Ops : q # o => group'[q] = group[q]
  <2>1. group'[o] = [group[o] EXCEPT !["guardian"] = "start"]
    BY <1>0, <1>2 DEF SpawnGuardian, Set, TypeOK, SupervisionTypeOK
  <2> QED BY <1>0, <1>2, <2>1 DEF SpawnGuardian, Set, TypeOK, SupervisionTypeOK, Groups
<1>6. \A q \in Ops : starts'[q] = starts[q]
  <2>1. \A q \in Ops : group'[q].workload = group[q].workload
    BY <1>5
  <2> QED BY <1>0, <1>2, <2>1, SameStarts
<1>7. OwnOnly(o)
  BY <1>0, <1>5, <1>6 DEF OwnOnly
<1>8. GroupOK(o)'
  BY <1>2, <1>4, <1>5, <1>6 DEF GroupOK, WorkloadAlive, Has, Locking
<1>9. ~Armed(o)'
  BY <1>4, <1>5 DEF Armed, WorkloadAlive, Has
<1>10. FreshOK(p)' /\ DesiredOK(p)'
  BY <1>0, <1>3, <1>4, <1>5 DEF FreshOK, DesiredOK, Coordinates, At, Preparing, Has, WorkloadAlive
<1> QED BY <1>1, <1>3, <1>7, <1>8, <1>9, <1>10, OwnStep DEF Coordinates, Supervising

(***************************************************************************)
(* The go file arms the workload, under the guardian and the policy.       *)
(***************************************************************************)
LEMMA WriteGoPasses ==
  ASSUME IInv, WInv, NEW p \in Procs, NEW o \in Ops, o = Op(p),
         Supervise(WriteGo(p, o))
  PROVE  WInv'
<1>0. WriteGo(p, o) /\ Counted /\ UNCHANGED <<group, active, journal, sysfs, disturbed>>
  BY DEF Supervise, Counted, cpuidleVars, WriteGo
<1>1. proc[p].pc = "go" /\ proc[p].pc \in Supervising
  BY <1>0 DEF WriteGo, At, Supervising
<1>2. /\ proc[p] \in Commands /\ TypeOK /\ o \in Ops /\ ProcOK(p) /\ GroupOK(o)
      /\ runtime[o] \in Runtimes /\ starts[o] \in Nat
  BY <1>1, Coordinator
<1>3. Coordinates(p, {"monitor"}) /\ Op(p)' = o
  BY <1>0, <1>2, GotoSteps DEF WriteGo, Steps, Coordinates, Op
<1>4. group[o].guardian \notin {"off", "start"} /\ (disturbed \/ sysfs = Desired)
  BY <1>1, <1>2 DEF ProcOK, FreshOK, DesiredOK, At
<1>5. /\ runtime'[o].files = runtime[o].files \cup {"go"}
      /\ \A q \in Ops : q # o => runtime'[q] = runtime[q]
  BY <1>0, <1>2 DEF WriteGo, Write, TypeOK, SupervisionTypeOK, Runtimes
<1>6. \A q \in Ops : starts'[q] = starts[q]
  BY <1>0, <1>2, SameStarts
<1>7. OwnOnly(o)
  BY <1>0, <1>5, <1>6 DEF OwnOnly
<1>8. GroupOK(o)'
  BY <1>0, <1>2, <1>4, <1>5, <1>6 DEF GroupOK, WorkloadAlive, Has
<1>9. FreshOK(p)' /\ DesiredOK(p)' /\ Running(p)'
  BY <1>3 DEF FreshOK, DesiredOK, Running, Monitoring, Coordinates, At, Preparing
<1> QED BY <1>1, <1>3, <1>4, <1>7, <1>8, <1>9, OwnStep DEF Coordinates, Supervising

\* Any other step of coordinate(): it may reap or signal the supervisor and ask for the drain.
GroupOutlives(o) ==
  /\ group'[o].guardian = group[o].guardian /\ group'[o].workload = group[o].workload
  /\ group'[o].supervisor = "waiting" => group[o].supervisor = "waiting"
  /\ \A q \in Ops : q # o => group'[q] = group[q]

FilesOutlive(o) ==
  /\ \A f \in {"ready", "go"} : f \in runtime'[o].files <=> f \in runtime[o].files
  /\ \A q \in Ops : q # o => runtime'[q] = runtime[q]

LateEffect(p, o) ==
  /\ Coordinates(p, Monitoring \cup {"go", "reconcile", "finish"})
  /\ proc'[p].pc = "go" => At(p, "wait_for_ready") /\ Has(o, "ready")
  /\ proc'[p].pc = "finish" => group[o].guardian = "done"
  /\ GroupOutlives(o) /\ FilesOutlive(o)
  /\ active' = active

(***************************************************************************)
(* Such a step takes nothing from the guardian.                            *)
(***************************************************************************)
LEMMA LatePasses ==
  ASSUME IInv, WInv, NEW p \in Procs, NEW o \in Ops, o = Op(p), proc[p].pc \in Supervising,
         LateEffect(p, o), Counted, UNCHANGED <<journal, sysfs, disturbed>>
  PROVE  WInv'
<1>1. /\ TypeOK /\ ProcOK(p) /\ GroupOK(o) /\ starts[o] \in Nat /\ proc[p].command = "run"
  BY Coordinator
<1>2. Op(p)' = o
  BY DEF LateEffect, Coordinates, Op
<1>3. \A q \in Ops : starts'[q] = starts[q]
  <2>1. \A q \in Ops : group'[q].workload = group[q].workload
    BY DEF LateEffect, GroupOutlives
  <2> QED BY <1>1, <2>1, SameStarts
<1>4. OwnOnly(o)
  BY <1>3 DEF OwnOnly, LateEffect, GroupOutlives, FilesOutlive
<1>5. /\ Has(o, "go")' <=> Has(o, "go")
      /\ Has(o, "ready")' <=> Has(o, "ready")
      /\ WorkloadAlive(o)' <=> WorkloadAlive(o)
      /\ GuardianLost(o)' <=> GuardianLost(o)
      /\ Armed(o)' => Armed(o)
  BY DEF LateEffect, GroupOutlives, FilesOutlive, Has, WorkloadAlive, GuardianLost, Armed
<1>6. GroupOK(o)'
  BY <1>1, <1>3, <1>5 DEF GroupOK, LateEffect, GroupOutlives
<1>7. CASE proc'[p].pc = "go"
  <2>1. /\ group[o].guardian \notin {"off", "start"} /\ ~Has(o, "go") /\ ~WorkloadAlive(o)
        /\ disturbed \/ sysfs = Desired
    BY <1>1, <1>7 DEF LateEffect, ProcOK, FreshOK, DesiredOK, GroupOK, At
  <2>2. FreshOK(p)' /\ DesiredOK(p)'
    BY <1>2, <1>5, <1>7, <2>1 DEF FreshOK, DesiredOK, LateEffect, GroupOutlives, At, Preparing
  <2>3. ~Armed(o)'
    BY <1>5, <2>1 DEF Armed
  <2> QED BY <1>4, <1>6, <1>7, <2>2, <2>3, OwnStep DEF LateEffect, Coordinates, Supervising
<1>8. CASE proc'[p].pc # "go"
  <2>1. proc'[p].pc \in Monitoring \cup {"reconcile", "finish"} /\ proc'[p].command = "run"
    BY <1>1, <1>8 DEF LateEffect, Coordinates
  <2>2. FreshOK(p)' /\ DesiredOK(p)'
    BY <2>1 DEF FreshOK, DesiredOK, Monitoring, At, Preparing
  <2>3. Armed(o)' /\ ~GuardianLost(o)' => disturbed \/ sysfs = Desired
    BY <1>5 DEF WInv, ArmedInv
  <2>4. ~Running(p)' => proc'[p].pc = "finish"
    BY <2>1 DEF Running
  <2>5. proc'[p].pc = "finish" => ~Armed(o)'
    BY <1>1, <1>5 DEF LateEffect, GroupOK, Armed
  <2>6. Coordinates(p, Supervising \cup {"reconcile", "finish"})
    BY <2>1 DEF LateEffect, Coordinates, Monitoring, Supervising
  <2> QED BY <1>4, <1>6, <2>2, <2>3, <2>4, <2>5, <2>6, OwnStep
<1> QED BY <1>7, <1>8

(***************************************************************************)
(* A supervisor that is reaped or signalled.                               *)
(***************************************************************************)
LEMMA SupervisorEnds ==
  ASSUME TypeOK, NEW o \in Ops, NEW s, s = "waiting" => group[o].supervisor = "waiting",
         group' = [group EXCEPT ![o].supervisor = s] \/ Set(o, "supervisor", s)
  PROVE  GroupOutlives(o)
<1>1. group[o] \in Groups /\ group \in [Ops -> Groups]
  BY DEF TypeOK, SupervisionTypeOK
<1>2. group' = [group EXCEPT ![o] = [group[o] EXCEPT !.supervisor = s]]
  BY <1>1 DEF Set
<1>3. group'[o] = [group[o] EXCEPT !.supervisor = s] /\ \A q \in Ops : q # o => group'[q] = group[q]
  BY <1>1, <1>2
<1> QED BY <1>1, <1>3 DEF Groups, GroupOutlives

(***************************************************************************)
(* The coordinator has decided.                                            *)
(***************************************************************************)
LEMMA DecidedCoordinates ==
  ASSUME TypeOK, NEW p \in Procs, proc[p] \in Commands, NEW v, Decided(p, v)
  PROVE  Coordinates(p, {"outcome"}) /\ proc'[p].outcome = v
<1> DEFINE c == [proc[p] EXCEPT !.pc = "outcome", !.outcome = v]
<1>1. c.pc = "outcome" /\ c.op = proc[p].op /\ c.command = proc[p].command /\ c.outcome = v
  BY DEF Commands
<1>2. proc' = [proc EXCEPT ![p] = c]
  BY DEF Decided, TypeOK
<1> HIDE DEF c
<1> QED BY <1>1, <1>2 DEF Coordinates, TypeOK

(***************************************************************************)
(* Every step of coordinate() passes.                                      *)
(***************************************************************************)
LEMMA CoordinatePasses ==
  ASSUME IInv, WInv, NEW p \in Procs, NEW o \in Ops, o = Op(p), Supervise(coordinate(p, o))
  PROVE  WInv'
<1>0. coordinate(p, o) /\ Counted /\ UNCHANGED <<journal, sysfs, disturbed>> /\ TypeOK
  BY DEF Supervise, Counted, cpuidleVars, IInv
<1>1. proc[p] \in Commands /\ proc[p].pc \in Supervising
  BY <1>0, CoordinateTyped
<1>2. runtime \in [Ops -> Runtimes] /\ group \in [Ops -> Groups]
  BY <1>0 DEF TypeOK, SupervisionTypeOK
<1>l. ASSUME NEW x \in Monitoring \cup {"go", "reconcile", "finish"}, Goto(p, x),
             x = "go" => At(p, "wait_for_ready") /\ Has(o, "ready"),
             x = "finish" => group[o].guardian = "done",
             GroupOutlives(o), FilesOutlive(o), active' = active
      PROVE  LateEffect(p, o)
  <2>1. Steps(p, {x})
    BY <1>0, <1>1, <1>l, GotoSteps
  <2>2. Coordinates(p, Monitoring \cup {"go", "reconcile", "finish"}) /\ proc'[p].pc = x
    BY <2>1 DEF Steps, Coordinates
  <2> QED BY <1>l, <2>2 DEF LateEffect
<1>m. {"terminate", "terminating", "monitor", "monitor_checks", "outcome", "drain",
       "wait_for_drained", "drain_checks", "reap"} \subseteq Monitoring
  BY DEF Monitoring
<1>3. group' = group => GroupOutlives(o)
  BY DEF GroupOutlives
<1>4. runtime' = runtime => FilesOutlive(o)
  BY DEF FilesOutlive
<1>5. CASE SpawnSupervisor(p, o)
  BY <1>5, SpawnSupervisorPasses DEF Supervise
<1>6. CASE SpawnGuardian(p, o)
  BY <1>6, SpawnGuardianPasses DEF Supervise
<1>7. CASE WriteGo(p, o)
  BY <1>7, WriteGoPasses DEF Supervise
<1> SUFFICES ASSUME ~SpawnSupervisor(p, o), ~SpawnGuardian(p, o), ~WriteGo(p, o)
             PROVE  LateEffect(p, o)
  BY <1>0, <1>1, <1>5, <1>6, <1>7, LatePasses
<1>8. CASE SpawnGuardianFails(p, o) \/ wait_for_drained(p, o) \/ Terminated(p, o)
  <2>1. /\ \E x \in {"terminate", "reap", "drain_checks", "reconcile"} : Goto(p, x)
        /\ UNCHANGED <<group, runtime, active>>
    BY <1>8 DEF SpawnGuardianFails, wait_for_drained, Terminated
  <2> QED BY <1>l, <1>m, <1>3, <1>4, <2>1
<1>9. CASE wait_for_ready(p, o)
  <2>1. GroupOutlives(o)
    BY <1>9, <1>0, <1>3, SupervisorEnds DEF wait_for_ready
  <2>2. /\ \/ Goto(p, "go") /\ Has(o, "ready")
           \/ Goto(p, "terminate") \/ Goto(p, "reconcile")
        /\ At(p, "wait_for_ready") /\ UNCHANGED <<runtime, active>>
    BY <1>9 DEF wait_for_ready
  <2> QED BY <1>l, <1>m, <1>4, <2>1, <2>2
<1>10. CASE ReadStatus(p, o) \/ \E v \in Outcomes : MonitorStops(p, o, v)
  <2>1. Goto(p, "monitor_checks") \/ \E v \in Outcomes \cup {"none"} : Decided(p, v)
    BY <1>10, <1>2 DEF ReadStatus, MonitorStops, Runtimes, Outcomes
  <2>2. UNCHANGED <<group, runtime, active>>
    BY <1>10 DEF ReadStatus, MonitorStops
  <2>3. CASE Goto(p, "monitor_checks")
    BY <1>l, <1>m, <1>3, <1>4, <2>2, <2>3
  <2>4. CASE \E v \in Outcomes \cup {"none"} : Decided(p, v)
    <3>1. Coordinates(p, {"outcome"})
      BY <2>4, <1>0, <1>1, DecidedCoordinates
    <3> QED BY <1>m, <1>3, <1>4, <2>2, <3>1 DEF LateEffect, Coordinates
  <2> QED BY <2>1, <2>3, <2>4
<1>11. CASE MonitorChildren(p, o)
  <2>1. GroupOutlives(o)
    <3> DEFINE s == IF GuardianExited(o) THEN group[o].supervisor ELSE Reaped(o)
    <3>1. group' = [group EXCEPT ![o].supervisor = s]
      BY <1>11 DEF MonitorChildren
    <3>2. s = "waiting" => group[o].supervisor = "waiting"
      BY DEF Reaped
    <3> HIDE DEF s
    <3> QED BY <1>0, <3>1, <3>2, SupervisorEnds
  <2>2. (\E x \in {"terminate", "monitor"} : Goto(p, x)) /\ UNCHANGED <<runtime, active>>
    BY <1>11 DEF MonitorChildren
  <2> QED BY <1>l, <1>m, <1>4, <2>1, <2>2
<1>12. CASE StoreOutcome(p, o)
  <2>1. runtime' = [runtime EXCEPT ![o] = [runtime[o] EXCEPT !.outcome = proc[p].outcome]]
    BY <1>12, <1>2 DEF StoreOutcome
  <2>2. FilesOutlive(o)
    BY <1>2, <2>1 DEF FilesOutlive, Runtimes
  <2>3. Goto(p, "drain") /\ UNCHANGED <<group, active>>
    BY <1>12 DEF StoreOutcome
  <2> QED BY <1>l, <1>m, <1>3, <2>2, <2>3
<1>13. CASE RequestDrain(p, o)
  <2>1. runtime' = [runtime EXCEPT ![o] = [runtime[o] EXCEPT !.files = runtime[o].files \cup {"drain"}]]
    BY <1>13, <1>2 DEF RequestDrain, Write
  <2>2. FilesOutlive(o)
    BY <1>2, <2>1 DEF FilesOutlive, Runtimes
  <2>3. Goto(p, "wait_for_drained") /\ UNCHANGED <<group, active>>
    BY <1>13 DEF RequestDrain
  <2> QED BY <1>l, <1>m, <1>3, <2>2, <2>3
<1>14. CASE DrainChecks(p, o)
  <2>1. GroupOutlives(o)
    BY <1>14, <1>0, SupervisorEnds DEF DrainChecks, Reaped
  <2>2. (\E x \in {"reconcile", "wait_for_drained"} : Goto(p, x)) /\ UNCHANGED <<runtime, active>>
    BY <1>14 DEF DrainChecks
  <2> QED BY <1>l, <1>m, <1>4, <2>1, <2>2
<1>15. CASE ReapChildren(p, o)
  <2>1. /\ (Goto(p, "finish") /\ group[o].guardian = "done") \/ Goto(p, "reconcile")
        /\ UNCHANGED <<group, runtime, active>>
    BY <1>15 DEF ReapChildren
  <2> QED BY <1>l, <1>m, <1>3, <1>4, <2>1
<1>16. CASE Terminate(p, o)
  <2>1. GroupOutlives(o)
    BY <1>16, <1>0, SupervisorEnds DEF Terminate
  <2>2. Goto(p, "terminating") /\ UNCHANGED <<runtime, active>>
    BY <1>16 DEF Terminate
  <2> QED BY <1>l, <1>m, <1>4, <2>1, <2>2
<1> QED BY <1>0, <1>8, <1>9, <1>10, <1>11, <1>12, <1>13, <1>14, <1>15, <1>16 DEF coordinate

-----------------------------------------------------------------------------
(* The other steps of a command, and the environment.                      *)

(***************************************************************************)
(* A run whose coordinate() failed records what is known of the outcome.   *)
(***************************************************************************)
LEMMA ReconcilePasses ==
  ASSUME IInv, WInv, NEW p \in Procs, reconcile_runtime_outcome(p), proc[p].command = "run"
  PROVE  WInv'
<1>1. At(p, "reconcile") /\ proc[p].pc \in Owning /\ proc[p].pc # "idle"
  BY DEF reconcile_runtime_outcome, At, Owning
<1>2. proc[p] \in Commands /\ TypeOK /\ Op(p) \in Ops /\ Exists(Op(p)) /\ ProcOK(p) /\ proc[p] # Idle
  BY <1>1, Owned, NotIdleRecord DEF IInv, WInv
<1>3. Steps(p, {"recoverable"})
  BY <1>2, GotoSteps DEF reconcile_runtime_outcome
<1>4. UNCHANGED <<group, runtime, active, starts, sysfs, disturbed>>
  BY DEF reconcile_runtime_outcome, supervisionVars, history
<1>5. \A o \in Ops : (Exists(o)' <=> Exists(o)) /\ (Unfinished(o)' <=> Unfinished(o))
  <2>1. journal[Op(p)] \in Journals /\ journal \in [Ops -> Journals \cup {NoJournal}]
    BY <1>2 DEF Exists, TypeOK
  <2>2. PICK v : journal' = [journal EXCEPT ![Op(p)] = [journal[Op(p)] EXCEPT !.outcome = v]]
    BY <2>1 DEF reconcile_runtime_outcome
  <2>3. /\ journal'[Op(p)] = [journal[Op(p)] EXCEPT !.outcome = v]
        /\ \A o \in Ops : o # Op(p) => journal'[o] = journal[o]
    BY <1>2, <2>1, <2>2
  <2>4. journal'[Op(p)].stage = journal[Op(p)].stage /\ journal'[Op(p)] # NoJournal
    BY <2>1, <2>3 DEF Journals, NoJournal
  <2> QED BY <1>2, <2>3, <2>4 DEF Exists, Unfinished
<1>6. \A o \in Ops : /\ Armed(o)' <=> Armed(o)
                     /\ GuardianLost(o)' <=> GuardianLost(o)
                     /\ Untouched(o)' <=> Untouched(o)
                     /\ GroupOK(o)' <=> GroupOK(o)
  <2>1. \A o \in Ops : (Armed(o)' <=> Armed(o)) /\ (GuardianLost(o)' <=> GuardianLost(o))
    BY <1>4 DEF Armed, WorkloadAlive, Has, GuardianLost
  <2>2. \A o \in Ops : Untouched(o)' <=> Untouched(o)
    BY <1>4 DEF Untouched
  <2>3. \A o \in Ops : GroupOK(o)' <=> GroupOK(o)
    BY <1>4 DEF WorkloadAlive, Has, GroupOK
  <2> QED BY <2>1, <2>2, <2>3
<1>7. GroupInv' /\ UntouchedInv' /\ ArmedInv'
  BY <1>4, <1>5, <1>6 DEF WInv, GroupInv, UntouchedInv, ArmedInv
<1>8. FreshOK(p)' /\ CommandOK(p)' /\ DesiredOK(p)'
  BY <1>3 DEF Steps, FreshOK, CommandOK, DesiredOK, At, Preparing, Deciding, Supervising
<1>9. PassOK(p)'
  <2>1. \A o \in Ops : o # Op(p) /\ Armed(o) => GuardianLost(o)
    BY <1>1, <1>2 DEF ProcOK, PassOK, At
  <2>2. Op(p)' = Op(p) /\ Running(p)'
    BY <1>3 DEF Steps, Op, Running
  <2> QED BY <1>6, <2>1, <2>2 DEF PassOK
<1>10. \A q \in Procs : q # p => ProcOK(q)'
  BY <1>2, <1>3, OthersIdle DEF Steps
<1> QED BY <1>7, <1>8, <1>9, <1>10 DEF WInv, ProcOK

(***************************************************************************)
(* Every step of a command passes.                                         *)
(***************************************************************************)
LEMMA CommandPasses ==
  ASSUME IInv, WInv, NEW p \in Procs, Command(p) \/ Refuse(p) \/ Crash(p)
  PROVE  WInv'
<1>1. CASE Depart(p) /\ (Refuse(p) \/ Crash(p) \/ StillActive(p) \/ replay_outcome(p) \/ Cleanup(p)
                         \/ Select(p) \/ StoreRecoverable(p) \/ RestoreCheck(p) \/ Restore(p)
                         \/ RestoreReadback(p) \/ RestoreVerify(p) \/ StoreRestored(p))
  BY <1>1, EndPasses
<1>2. CASE Refuse(p) \/ Crash(p) \/ StillActive(p) \/ replay_outcome(p) \/ Cleanup(p)
           \/ StoreRecoverable(p)
  BY <1>1, <1>2 DEF Refuse, Crash, StillActive, replay_outcome, Cleanup, StoreRecoverable
<1>3. CASE ~Depart(p) /\ (Select(p) \/ RestoreCheck(p) \/ Restore(p) \/ RestoreReadback(p)
                          \/ RestoreVerify(p) \/ StoreRestored(p))
  <2>1. UNCHANGED <<group, runtime, active, starts>>
    BY <1>3 DEF Select, RestoreCheck, Restore, RestoreReadback, RestoreVerify, StoreRestored,
                Conflict, history
  <2> QED BY <1>3, <2>1, RestorePasses
<1>4. CASE StoreFinished(p) \/ (reconcile_runtime_outcome(p) /\ proc[p].command # "run")
           \/ StoreRestoring(p) \/ RestoreWrite(p)
  <2>1. UNCHANGED <<group, runtime, active, starts>>
    BY <1>4 DEF StoreFinished, reconcile_runtime_outcome, StoreRestoring, StoreStage, RestoreWrite,
                write_bit, supervisionVars, history
  <2>2. proc[p].pc # "idle" /\ \E x : Goto(p, x) /\ x # "idle"
    BY <1>4 DEF StoreFinished, reconcile_runtime_outcome, StoreRestoring, StoreStage, RestoreWrite,
                write_bit, At
  <2>3. proc'[p].pc # "idle"
    BY <2>2, NotIdle, GotoSteps DEF IInv, Steps
  <2>4. ~Depart(p)
    BY <2>3, DepartTyped DEF IInv, Idle
  <2> QED BY <1>4, <2>1, <2>4, RestorePasses
<1>5. CASE require_inactive(p)
  BY <1>5, RequireInactivePasses
<1>6. CASE Accept(p) \/ StorePrepared(p)
  BY <1>6, PreparePasses
<1>7. CASE apply(p) \/ ApplyWrite(p) \/ ApplyReadback(p)
  BY <1>7, ApplyPasses
<1>8. CASE StoreApplied(p) \/ StoreWorkloadStarted(p)
  BY <1>8, AppliedPasses
<1>9. CASE reconcile_runtime_outcome(p) /\ proc[p].command = "run"
  BY <1>9, ReconcilePasses
<1>10. CASE ~At(p, "idle") /\ Supervise(coordinate(p, Op(p)))
  <2>1. Op(p) \in Ops
    BY <1>10, NotIdle DEF IInv, At, Op, Commands
  <2> QED BY <1>10, <2>1, CoordinatePasses
<1> QED BY <1>1, <1>2, <1>3, <1>4, <1>5, <1>6, <1>7, <1>8, <1>9, <1>10 DEF Command

(***************************************************************************)
(* A command begins.                                                       *)
(***************************************************************************)
LEMMA BeginPasses ==
  ASSUME IInv, WInv, NEW p \in Procs, NEW o \in Ops, NEW c \in {"run", "recover"},
         NEW r \in Requests, Begin(p, c, o, r)
  PROVE  WInv'
<1>1. /\ proc'[p].pc = "require_inactive" /\ proc'[p].command = c /\ proc'[p].entry = 1
      /\ \A q \in Procs : q # p => proc'[q] = proc[q]
  BY DEF Begin, IInv, TypeOK
<1>2. UNCHANGED <<group, runtime, active, starts, journal, sysfs, disturbed>>
  BY DEF Begin, supervisionVars, history
<1>3. GroupInv' /\ UntouchedInv' /\ ArmedInv'
  BY <1>2 DEF WInv, GroupInv, UntouchedInv, ArmedInv, GroupOK, Untouched, Armed, WorkloadAlive, Has,
              GuardianLost, Unfinished, Exists
<1>4. ProcOK(p)'
  BY <1>1 DEF ProcOK, FreshOK, CommandOK, PassOK, DesiredOK, At, Preparing, Deciding, Supervising
<1>5. \A q \in Procs : q # p => ProcOK(q)'
  <2>1. \A q \in Procs : proc[q] = Idle
    BY CpuIdleAssumption DEF Begin, IInv, JournalInv, LockInv
  <2> QED BY <1>1, <2>1, IdleOK
<1> QED BY <1>3, <1>4, <1>5 DEF WInv

(***************************************************************************)
(* Somebody else writes a disable file.                                    *)
(***************************************************************************)
LEMMA ExternalWritePasses ==
  ASSUME IInv, WInv, NEW e \in Entries, ExternalWrite(e)
  PROVE  WInv'
<1>1. disturbed' = TRUE /\ UNCHANGED <<proc, group, runtime, active, starts, journal>>
  BY DEF ExternalWrite, supervisionVars
<1>2. GroupInv' /\ UntouchedInv' /\ ArmedInv'
  BY <1>1 DEF WInv, GroupInv, UntouchedInv, ArmedInv, GroupOK, Untouched, Armed, WorkloadAlive, Has,
              GuardianLost, Unfinished, Exists
<1>3. ASSUME NEW p \in Procs PROVE ProcOK(p)'
  <2>1. ProcOK(p)
    BY DEF WInv
  <2>2. FreshOK(p)' /\ CommandOK(p)'
    BY <1>1, <2>1 DEF ProcOK, FreshOK, CommandOK, At, Op, Untouched, WorkloadAlive, Has
  <2>3. PassOK(p)'
    BY <1>1, <2>1 DEF ProcOK, PassOK, Op, Running, Armed, WorkloadAlive, Has, GuardianLost
  <2>4. DesiredOK(p)'
    BY <1>1 DEF DesiredOK
  <2> QED BY <2>2, <2>3, <2>4 DEF ProcOK
<1> QED BY <1>2, <1>3 DEF WInv

(***************************************************************************)
(* After a reboot no process of an operation is left.                      *)
(***************************************************************************)
LEMMA RebootPasses ==
  ASSUME IInv, WInv, Reboot
  PROVE  WInv'
<1>1. /\ \A p \in Procs : proc'[p] = Idle
      /\ \A o \in Ops : group'[o] = NoGroup
      /\ active' = NoProc /\ UNCHANGED <<runtime, journal, starts>>
  BY DEF Reboot
<1>a. \A o \in Ops : /\ group'[o].guardian = "off" /\ group'[o].workload = "off"
                     /\ group'[o].supervisor = "off" /\ active' # o
  BY <1>1, CpuIdleAssumption DEF NoGroup
<1>2. \A o \in Ops : GroupOK(o)'
  BY <1>1, <1>a DEF WInv, GroupInv, GroupOK, WorkloadAlive, Has, Locking
<1>3. UntouchedInv'
  BY <1>1 DEF WInv, UntouchedInv, Untouched, Exists
<1>4. \A o \in Ops : ~Armed(o)'
  BY <1>a DEF Armed, WorkloadAlive
<1> QED BY <1>1, <1>2, <1>3, <1>4, IdleOK DEF WInv, GroupInv, ArmedInv

(***************************************************************************)
(* The invariant holds at the start.                                       *)
(***************************************************************************)
LEMMA InitPasses == Init => WInv
<1> SUFFICES ASSUME Init PROVE WInv
  OBVIOUS
<1>1. /\ \A p \in Procs : proc[p] = Idle
      /\ \A o \in Ops : group[o] = NoGroup /\ runtime[o] = NoRuntime /\ starts[o] = 0
      /\ active = NoProc
  BY DEF Init, SupervisionInit
<1>2. ASSUME NEW o \in Ops
      PROVE  /\ group[o].guardian = "off" /\ ~WorkloadAlive(o) /\ group[o].supervisor = "off"
             /\ runtime[o].files = {} /\ active # o
  <2>1. group[o] = NoGroup /\ runtime[o] = NoRuntime
    BY <1>1
  <2>2. active # o
    BY <1>1, CpuIdleAssumption
  <2> QED BY <2>1, <2>2 DEF NoGroup, NoRuntime, WorkloadAlive
<1>3. ASSUME NEW o \in Ops PROVE Untouched(o) /\ ~Armed(o) /\ GroupOK(o)
  <2>1. group[o] = NoGroup /\ starts[o] = 0
    BY <1>1
  <2>2. Untouched(o) /\ ~Armed(o)
    BY <1>2, <2>1 DEF Untouched, Armed
  <2>3. GroupOK(o)
    BY <1>2, <2>1 DEF GroupOK, Has, Locking
  <2> QED BY <2>2, <2>3
<1>4. ASSUME NEW p \in Procs PROVE ProcOK(p)
  <2>1. proc[p].pc = "idle"
    BY <1>1 DEF Idle
  <2>2. FreshOK(p) /\ PassOK(p) /\ DesiredOK(p)
    BY <2>1 DEF FreshOK, PassOK, DesiredOK, At, Preparing
  <2>3. CommandOK(p)
    BY <2>1 DEF CommandOK, At, Deciding, Supervising
  <2> QED BY <2>2, <2>3 DEF ProcOK
<1> QED BY <1>3, <1>4 DEF WInv, GroupInv, UntouchedInv, ArmedInv

(***************************************************************************)
(* The processes, the files and the policy of every operation fit the      *)
(* command that is under way.                                              *)
(***************************************************************************)
THEOREM Supervised == Spec => []WInv
<1>1. Init => WInv
  BY InitPasses
<1>2. IInv /\ WInv /\ [Next]_vars => WInv'
  <2> SUFFICES ASSUME IInv, WInv, [Next]_vars PROVE WInv'
    OBVIOUS
  <2>1. CASE \E p \in Procs, o \in Ops : recover(p, o) \/ \E r \in Requests : run(p, o, r)
    BY <2>1, BeginPasses DEF recover, run
  <2>2. CASE \E p \in Procs : Command(p) \/ Refuse(p) \/ Crash(p)
    BY <2>2, CommandPasses
  <2>3. CASE \E o \in Ops : Supervise(Children(o) \/ ChildrenFail(o) \/ WorkloadExits(o))
    BY <2>3, ChildKeeps
  <2>4. CASE \E e \in Entries : ExternalWrite(e)
    BY <2>4, ExternalWritePasses
  <2>5. CASE Reboot
    BY <2>5, RebootPasses
  <2>6. CASE UNCHANGED vars
    <3>1. UNCHANGED <<proc, group, runtime, active, starts, journal, sysfs, disturbed>>
      BY <2>6 DEF vars, supervisionVars, cpuidleVars, history
    <3>2. GroupInv' /\ UntouchedInv' /\ ArmedInv'
      BY <3>1 DEF WInv, GroupInv, UntouchedInv, ArmedInv, GroupOK, Untouched, Armed, WorkloadAlive,
                  Has, GuardianLost, Unfinished, Exists
    <3>3. \A p \in Procs : FreshOK(p)' /\ CommandOK(p)'
      BY <3>1 DEF WInv, ProcOK, FreshOK, CommandOK, At, Op, Untouched, WorkloadAlive, Has
    <3>4. \A p \in Procs : PassOK(p)' /\ DesiredOK(p)'
      BY <3>1 DEF WInv, ProcOK, PassOK, DesiredOK, Op, Running, Armed, WorkloadAlive, Has, GuardianLost
    <3> QED BY <3>2, <3>3, <3>4 DEF WInv, ProcOK
  <2> QED BY <2>1, <2>2, <2>3, <2>4, <2>5, <2>6 DEF Next
<1> QED BY <1>1, <1>2, Invariance, PTL DEF Spec

(***************************************************************************)
(* No command restores the policy under a workload that is running, unless *)
(* its guardian was lost, with any number of operations and processes.     *)
(***************************************************************************)
THEOREM RestorationsWait == Spec => []RestoreWaitsForGuardian
<1>1. WInv => RestoreWaitsForGuardian
  <2> SUFFICES ASSUME WInv, NEW p \in Procs, NEW o \in Ops, Restoring(p), WorkloadAlive(o)
               PROVE  GuardianLost(o)
    BY DEF RestoreWaitsForGuardian
  <2>1. ~Running(p) /\ proc[p].pc \notin {"idle", "require_inactive"}
    BY DEF Restoring, Running, Monitoring
  <2> QED BY <2>1, Passed DEF AllLost, Armed
<1> QED BY <1>1, Supervised, PTL

(***************************************************************************)
(* A workload starts once per operation ID and, under its guardian, runs   *)
(* with its journal on disk and the desired policy in place.               *)
(***************************************************************************)
THEOREM WorkloadsRunUnderPolicy == Spec => []WorkloadRunsUnderPolicy
<1>1. WInv => WorkloadRunsUnderPolicy
  BY DEF WInv, GroupInv, GroupOK, ArmedInv, Armed, WorkloadRunsUnderPolicy
<1> QED BY <1>1, Supervised, PTL

-----------------------------------------------------------------------------
(* The outcome that is told of an operation.                               *)

\* coordinate() has its outcome, and returns it.
Decision == {"outcome", "drain", "wait_for_drained", "drain_checks", "reap", "finish"}

\* From the stored outcome to the reply.
Ending ==
  {"restore_check", "restoring", "restore", "restore_write", "restore_readback", "restore_verify",
   "restored", "cleanup"}

\* The coordinator's outcome is the one in its journal, and that is Restored before the reply.
OutcomeOK(p) ==
  /\ proc[p].pc \in Decision => proc[p].outcome # "none"
  /\ proc[p].pc \in Ending /\ proc[p].command = "run" =>
       journal[Op(p)].outcome = proc[p].outcome /\ proc[p].outcome # "none"
  /\ At(p, "cleanup") => journal[Op(p)].stage = "Restored"

\* What has been told is final.
RepliesOK(o) ==
  replies[o] # {} =>
    /\ journal[o].stage = "Restored"
    /\ replies[o] = {journal[o].outcome} /\ journal[o].outcome # "none"

RInv == (\A p \in Procs : OutcomeOK(p)) /\ \A o \in Ops : RepliesOK(o)

(***************************************************************************)
(* The outcome of an idle process.                                         *)
(***************************************************************************)
LEMMA IdleOutcome ==
  ASSUME NEW p \in Procs, proc'[p] = Idle
  PROVE  OutcomeOK(p)'
BY DEF OutcomeOK, Idle, At, Decision, Ending

(***************************************************************************)
(* One command at a time.                                                  *)
(***************************************************************************)
LEMMA OutcomeAlone ==
  ASSUME IInv, NEW p \in Procs, proc[p].pc # "idle", \A q \in Procs : q # p => proc'[q] = proc[q],
         OutcomeOK(p)'
  PROVE  \A q \in Procs : OutcomeOK(q)'
<1>1. proc[p] # Idle
  BY NotIdleRecord
<1>2. \A q \in Procs : q # p => proc'[q] = Idle
  BY <1>1 DEF IInv, JournalInv, LockInv
<1> QED BY <1>2, IdleOutcome

(***************************************************************************)
(* A process that ends.                                                    *)
(***************************************************************************)
LEMMA DepartOutcome ==
  ASSUME IInv, NEW p \in Procs, proc[p].pc # "idle", Depart(p)
  PROVE  \A q \in Procs : OutcomeOK(q)'
BY DepartTyped, IdleOutcome, OutcomeAlone DEF IInv

(***************************************************************************)
(* A command that goes on before it has an outcome, or after an error.     *)
(***************************************************************************)
LEMMA EarlyOutcome ==
  ASSUME IInv, NEW p \in Procs, proc[p].pc # "idle",
         proc'[p].pc \notin Decision \cup {"cleanup"},
         proc'[p].pc \in Ending => proc'[p].command # "run",
         \A q \in Procs : q # p => proc'[q] = proc[q]
  PROVE  \A q \in Procs : OutcomeOK(q)'
<1>1. OutcomeOK(p)'
  BY DEF OutcomeOK, At
<1> QED BY <1>1, OutcomeAlone

(***************************************************************************)
(* A step of the restoration.                                              *)
(***************************************************************************)
LEMMA EndingOutcome ==
  ASSUME IInv, RInv, Forward, NEW p \in Procs, proc[p].pc \in Ending \cap Owning,
         Steps(p, Ending), proc'[p].pc = "cleanup" => journal'[Op(p)].stage = "Restored"
  PROVE  \A q \in Procs : OutcomeOK(q)'
<1>1. Op(p) \in Ops /\ Exists(Op(p)) /\ Op(p)' = Op(p) /\ proc[p].pc # "idle"
  BY Owned DEF Steps, Op, Ending
<1> HIDE DEF Op
<1>2. proc[p].command = "run" =>
        journal'[Op(p)].outcome = proc[p].outcome /\ proc[p].outcome # "none"
  BY <1>1 DEF RInv, OutcomeOK, Forward
<1>3. OutcomeOK(p)'
  BY <1>1, <1>2 DEF OutcomeOK, Steps, At, Ending, Decision
<1> QED BY <1>1, <1>3, OutcomeAlone DEF Steps

(***************************************************************************)
(* coordinate() goes on.                                                   *)
(***************************************************************************)
LEMMA CoordinateOutcome ==
  ASSUME IInv, RInv, NEW p \in Procs, NEW o \in Ops, coordinate(p, o)
  PROVE  \A q \in Procs : OutcomeOK(q)'
<1>0. /\ proc[p] \in Commands /\ proc[p].pc \in Supervising /\ TypeOK
      /\ proc[p].pc # "idle" /\ runtime[o] \in Runtimes
  BY CoordinateTyped DEF IInv, Supervising, TypeOK, SupervisionTypeOK
<1>1. ASSUME NEW x, Goto(p, x), x \notin Ending, x \in Decision => proc[p].pc \in Decision
      PROVE  \A q \in Procs : OutcomeOK(q)'
  <2>1. Steps(p, {x})
    BY <1>0, <1>1, GotoSteps
  <2>2. OutcomeOK(p)'
    BY <1>1, <2>1 DEF RInv, OutcomeOK, Steps, At, Ending
  <2> QED BY <1>0, <2>1, <2>2, OutcomeAlone DEF Steps
<1>2. ASSUME NEW v \in Outcomes, Decided(p, v)
      PROVE  \A q \in Procs : OutcomeOK(q)'
  <2>1. Coordinates(p, {"outcome"}) /\ proc'[p].outcome = v
    BY <1>0, <1>2, DecidedCoordinates
  <2>2. v # "none"
    BY <1>2 DEF Outcomes
  <2>3. OutcomeOK(p)'
    BY <2>1, <2>2 DEF OutcomeOK, Coordinates, At, Ending
  <2> QED BY <1>0, <2>1, <2>3, OutcomeAlone DEF Coordinates
<1>3. CASE ReadStatus(p, o) \/ \E v \in Outcomes : MonitorStops(p, o, v)
  <2>1. Goto(p, "monitor_checks") \/ \E v \in Outcomes : Decided(p, v)
    BY <1>0, <1>3 DEF ReadStatus, MonitorStops, Runtimes, Outcomes
  <2> QED BY <1>1, <1>2, <2>1 DEF Decision, Ending
<1>4. CASE SpawnSupervisor(p, o) \/ SpawnGuardian(p, o) \/ SpawnGuardianFails(p, o)
           \/ wait_for_ready(p, o) \/ WriteGo(p, o) \/ MonitorChildren(p, o) \/ Terminate(p, o)
           \/ Terminated(p, o)
  <2>1. \E x \in {"spawn_guardian", "wait_for_ready", "terminate", "go", "reconcile", "monitor",
                  "terminating"} : Goto(p, x)
    BY <1>4 DEF SpawnSupervisor, SpawnGuardian, SpawnGuardianFails, wait_for_ready, WriteGo,
                MonitorChildren, Terminate, Terminated
  <2> QED BY <1>1, <2>1 DEF Decision, Ending
<1>5. CASE StoreOutcome(p, o) \/ RequestDrain(p, o) \/ wait_for_drained(p, o) \/ DrainChecks(p, o)
           \/ ReapChildren(p, o)
  <2>1. \E x \in Decision \cup {"reconcile"} : Goto(p, x)
    BY <1>5 DEF StoreOutcome, RequestDrain, wait_for_drained, DrainChecks, ReapChildren, Decision
  <2>2. proc[p].pc \in Decision
    BY <1>5 DEF StoreOutcome, RequestDrain, wait_for_drained, DrainChecks, ReapChildren, Decision, At
  <2> QED BY <1>1, <2>1, <2>2 DEF Decision, Ending
<1> QED BY <1>3, <1>4, <1>5 DEF coordinate

(***************************************************************************)
(* Every step of a command keeps its outcome.                              *)
(***************************************************************************)
LEMMA CommandOutcome ==
  ASSUME IInv, WInv, RInv, Forward, NEW p \in Procs, Command(p) \/ Refuse(p) \/ Crash(p)
  PROVE  \A q \in Procs : OutcomeOK(q)'
<1> DEFINE Goal == \A q \in Procs : OutcomeOK(q)'
<1>0. TypeOK /\ ProcOK(p)
  BY DEF IInv, WInv
<1>d. ASSUME Depart(p), proc[p].pc # "idle" PROVE Goal
  BY <1>d, DepartOutcome
<1>g. ASSUME NEW x, Goto(p, x), proc[p].pc # "idle" PROVE Steps(p, {x}) /\ proc[p] \in Commands
  BY <1>0, <1>g, NotIdle, GotoSteps
<1>n. ASSUME NEW x, NEW y, NextEntry(p, x, y), proc[p].pc # "idle" PROVE Steps(p, {x, y})
  BY <1>0, <1>n, NotIdle, NextEntrySteps
<1>1. CASE Refuse(p) \/ Crash(p) \/ StillActive(p) \/ replay_outcome(p) \/ Cleanup(p)
           \/ StoreRecoverable(p)
  BY <1>1, <1>d DEF Refuse, Crash, StillActive, replay_outcome, Cleanup, StoreRecoverable, At
<1>2. CASE require_inactive(p) \/ StorePrepared(p) \/ ApplyWrite(p) \/ StoreApplied(p)
           \/ StoreWorkloadStarted(p)
  <2>1. /\ \E x \in {"accept", "select", "apply", "apply_readback", "started", "spawn"} : Goto(p, x)
        /\ proc[p].pc # "idle"
    BY <1>2 DEF require_inactive, StorePrepared, ApplyWrite, write_bit, StoreApplied,
                StoreWorkloadStarted, StoreStage, At
  <2>2. Steps(p, {"accept", "select", "apply", "apply_readback", "started", "spawn"})
    BY <2>1, <1>g DEF Steps
  <2> QED BY <2>1, <2>2, EarlyOutcome DEF Steps, Decision, Ending
<1>3. CASE Accept(p)
  <2>1. proc[p].pc # "idle" /\ proc[p] \in Commands
    BY <1>0, <1>3, NotIdle DEF Accept, At
  <2>2. proc'[p].pc = "prepare" /\ \A q \in Procs : q # p => proc'[q] = proc[q]
    <3>1. proc' = [proc EXCEPT ![p] = [proc[p] EXCEPT !.pc = "prepare", !.original = sysfs]]
      BY <1>0, <1>3 DEF Accept, TypeOK
    <3>2. /\ proc'[p] = [proc[p] EXCEPT !.pc = "prepare", !.original = sysfs]
          /\ \A q \in Procs : q # p => proc'[q] = proc[q]
      BY <1>0, <3>1 DEF TypeOK
    <3> QED BY <2>1, <3>2 DEF Commands
  <2> QED BY <2>1, <2>2, EarlyOutcome DEF Decision, Ending
<1>4. CASE apply(p) \/ ApplyReadback(p)
  <2>1. proc[p].pc # "idle" /\ proc[p] \in Commands
    BY <1>0, <1>4, NotIdle DEF apply, ApplyReadback, At
  <2>2. CASE Abort(p)
    <3>1. proc'[p].pc = "restore_check" /\ proc'[p].command = "abort"
      <4>1. proc'[p] = [proc[p] EXCEPT !.command = "abort", !.pc = "restore_check", !.entry = 1]
        BY <1>0, <2>2 DEF Abort, TypeOK
      <4> QED BY <2>1, <4>1 DEF Commands
    <3>2. \A q \in Procs : q # p => proc'[q] = proc[q]
      BY <1>0, <2>2 DEF Abort, TypeOK
    <3> QED BY <2>1, <3>1, <3>2, EarlyOutcome DEF Decision
  <2>3. CASE Goto(p, "apply_write") \/ NextEntry(p, "apply", "applied")
    <3>1. Steps(p, {"apply_write", "apply", "applied"})
      BY <2>1, <2>3, <1>g, <1>n DEF Steps
    <3> QED BY <2>1, <3>1, EarlyOutcome DEF Steps, Decision, Ending
  <2> QED BY <1>4, <2>2, <2>3 DEF apply, ApplyReadback
<1>5. CASE StoreFinished(p)
  <2>1. At(p, "finish") /\ proc[p].pc \in Owning /\ proc[p].pc # "idle"
    BY <1>5 DEF StoreFinished, At, Owning, Deciding
  <2>2. Op(p) \in Ops /\ Exists(Op(p)) /\ Steps(p, {"restore_check"})
    BY <1>5, <1>g, <2>1, Owned DEF StoreFinished
  <2>3. journal'[Op(p)].outcome = proc[p].outcome
    <3>1. journal[Op(p)] \in Journals /\ journal \in [Ops -> Journals \cup {NoJournal}]
      BY <1>0, <2>2 DEF Exists, TypeOK
    <3> QED BY <1>5, <2>2, <3>1 DEF StoreFinished, Journals
  <2>4. proc[p].outcome # "none"
    BY <2>1 DEF RInv, OutcomeOK, At, Decision
  <2>5. OutcomeOK(p)'
    BY <2>2, <2>3, <2>4 DEF Steps, OutcomeOK, At, Op, Decision
  <2> QED BY <2>1, <2>2, <2>5, OutcomeAlone DEF Steps
<1>6. CASE Select(p)
  <2>1. At(p, "select") /\ proc[p].pc # "idle" /\ proc[p].command = "recover"
    BY <1>0, <1>6 DEF Select, At, ProcOK, CommandOK
  <2>2. CASE journal[Op(p)].stage = "Restored" /\ Goto(p, "cleanup")
    <3>1. Steps(p, {"cleanup"}) /\ journal' = journal
      BY <1>6, <1>g, <2>1, <2>2 DEF Select
    <3>2. OutcomeOK(p)'
      BY <2>1, <2>2, <3>1 DEF Steps, OutcomeOK, At, Op, Decision
    <3> QED BY <2>1, <3>1, <3>2, OutcomeAlone DEF Steps
  <2>3. CASE Goto(p, "reconcile")
    <3>1. Steps(p, {"reconcile"})
      BY <2>1, <2>3, <1>g
    <3> QED BY <2>1, <3>1, EarlyOutcome DEF Steps, Decision, Ending
  <2> QED BY <1>6, <1>d, <2>1, <2>2, <2>3 DEF Select
<1>7. CASE reconcile_runtime_outcome(p)
  <2>1. proc[p].pc # "idle"
    BY <1>7 DEF reconcile_runtime_outcome, At
  <2>2. Steps(p, {IF proc[p].command = "run" THEN "recoverable" ELSE "restore_check"})
    BY <1>7, <1>g, <2>1 DEF reconcile_runtime_outcome
  <2> QED BY <2>1, <2>2, EarlyOutcome DEF Steps, Decision, Ending
<1>8. CASE RestoreCheck(p) \/ StoreRestoring(p) \/ Restore(p) \/ RestoreWrite(p) \/ RestoreReadback(p)
           \/ RestoreVerify(p) \/ StoreRestored(p)
  <2>1. proc[p].pc \in Ending \cap Owning /\ proc[p].pc # "idle"
    BY <1>8 DEF RestoreCheck, StoreRestoring, StoreStage, Restore, RestoreWrite, write_bit,
                RestoreReadback, RestoreVerify, StoreRestored, At, Ending, Owning
  <2>2. CASE StoreRestored(p) /\ ~Depart(p)
    <3>1. Steps(p, {"cleanup"})
      BY <2>1, <2>2, <1>g DEF StoreRestored
    <3>2. journal'[Op(p)].stage = "Restored"
      <4>1. Op(p) \in Ops /\ journal[Op(p)] \in Journals /\ journal \in [Ops -> Journals \cup {NoJournal}]
        BY <1>0, <2>1, Owned DEF TypeOK
      <4> QED BY <2>2, <4>1 DEF StoreRestored, Stage, Journals
    <3> QED BY <2>1, <3>1, <3>2, EndingOutcome DEF Steps, Ending
  <2>3. CASE ~StoreRestored(p) /\ ~Depart(p)
    <3>1. \/ \E x \in {"restore", "restore_write", "restore_readback"} : Goto(p, x)
          \/ NextEntry(p, "restore_check", "restoring") \/ NextEntry(p, "restore", "restore_verify")
          \/ NextEntry(p, "restore_verify", "restored")
      BY <1>8, <2>3 DEF RestoreCheck, StoreRestoring, StoreStage, Restore, RestoreWrite, write_bit,
                        RestoreReadback, RestoreVerify, Conflict
    <3>2. Steps(p, Ending \ {"cleanup"})
      <4>1. CASE \E x \in {"restore", "restore_write", "restore_readback"} : Goto(p, x)
        BY <2>1, <4>1, <1>g DEF Steps, Ending
      <4>2. CASE \/ NextEntry(p, "restore_check", "restoring")
                 \/ NextEntry(p, "restore", "restore_verify")
                 \/ NextEntry(p, "restore_verify", "restored")
        <5>1. \/ Steps(p, {"restore_check", "restoring"}) \/ Steps(p, {"restore", "restore_verify"})
              \/ Steps(p, {"restore_verify", "restored"})
          BY <2>1, <4>2, <1>n
        <5> QED BY <5>1 DEF Steps, Ending
      <4> QED BY <3>1, <4>1, <4>2
    <3> QED BY <2>1, <3>2, EndingOutcome DEF Steps
  <2> QED BY <1>d, <2>1, <2>2, <2>3
<1>9. CASE ~At(p, "idle") /\ Supervise(coordinate(p, Op(p)))
  <2>1. Op(p) \in Ops
    BY <1>0, <1>9, NotIdle DEF At, Op, Commands
  <2> QED BY <1>9, <2>1, CoordinateOutcome DEF Supervise
<1> QED BY <1>1, <1>2, <1>3, <1>4, <1>5, <1>6, <1>7, <1>8, <1>9 DEF Command

(***************************************************************************)
(* A reply is told again, or told once the outcome is final.               *)
(***************************************************************************)
LEMMA RepliesStep ==
  ASSUME IInv, RInv, [Next]_vars, Forward
  PROVE  \A o \in Ops : RepliesOK(o)'
<1>1. CASE replies' = replies
  <2> SUFFICES ASSUME NEW o \in Ops, replies[o] # {}
               PROVE  /\ journal'[o].stage = "Restored" /\ replies[o] = {journal'[o].outcome}
                      /\ journal'[o].outcome # "none"
    BY <1>1 DEF RepliesOK
  <2>1. RepliesOK(o) /\ Exists(o)
    BY DEF RInv, RepliesOK, Exists, NoJournal
  <2> QED BY <2>1 DEF RepliesOK, Forward
<1>2. ASSUME NEW p \in Procs, replay_outcome(p) \/ Cleanup(p)
      PROVE  \A o \in Ops : RepliesOK(o)'
  <2>1. journal' = journal /\ proc[p] \in Commands /\ replies \in [Ops -> SUBSET (Outcomes \cup {"none"})]
    BY <1>2, NotIdle DEF replay_outcome, Cleanup, At, IInv, TypeOK
  <2>2. Op(p) \in Ops
    BY <2>1 DEF Op, Commands
  <2>3. /\ \A o \in Ops : o # Op(p) => replies'[o] = replies[o]
        /\ journal[Op(p)].stage = "Restored"
    BY <1>2, <2>1 DEF replay_outcome, Cleanup, RInv, OutcomeOK
  <2>4. \/ replies'[Op(p)] = replies[Op(p)]
        \/ /\ replies'[Op(p)] = replies[Op(p)] \cup {journal[Op(p)].outcome}
           /\ journal[Op(p)].outcome # "none"
    <3>1. CASE replay_outcome(p)
      BY <2>1, <2>2, <3>1 DEF replay_outcome
    <3>2. CASE Cleanup(p)
      <4>1. proc[p].command = "run" =>
              journal[Op(p)].outcome = proc[p].outcome /\ proc[p].outcome # "none"
        BY <3>2 DEF Cleanup, At, RInv, OutcomeOK, Ending
      <4> QED BY <2>1, <2>2, <3>2, <4>1 DEF Cleanup
    <3> QED BY <1>2, <3>1, <3>2
  <2> HIDE DEF Op
  <2>5. \A o \in Ops : RepliesOK(o)
    BY DEF RInv
  <2> QED BY <2>1, <2>2, <2>3, <2>4, <2>5 DEF RepliesOK
<1>3. ASSUME NEW p \in Procs, Command(p) \/ Refuse(p) \/ Crash(p)
      PROVE  replies' = replies \/ replay_outcome(p) \/ Cleanup(p)
  <2>1. CASE require_inactive(p) \/ StillActive(p) \/ Accept(p) \/ StorePrepared(p) \/ apply(p)
             \/ ApplyWrite(p) \/ ApplyReadback(p) \/ Refuse(p) \/ Crash(p)
    BY <2>1 DEF require_inactive, StillActive, Accept, StorePrepared, apply, ApplyWrite,
                ApplyReadback, Refuse, Crash, write_bit, history
  <2>2. CASE StoreApplied(p) \/ StoreWorkloadStarted(p) \/ StoreFinished(p) \/ Select(p)
             \/ reconcile_runtime_outcome(p) \/ StoreRecoverable(p) \/ RestoreCheck(p)
             \/ StoreRestoring(p)
    BY <2>2 DEF StoreApplied, StoreWorkloadStarted, StoreStage, StoreFinished, Select,
                reconcile_runtime_outcome, StoreRecoverable, RestoreCheck, StoreRestoring, history
  <2>3. CASE Restore(p) \/ RestoreWrite(p) \/ RestoreReadback(p) \/ RestoreVerify(p) \/ StoreRestored(p)
             \/ (~At(p, "idle") /\ Supervise(coordinate(p, Op(p))))
    BY <2>3 DEF Restore, RestoreWrite, write_bit, RestoreReadback, RestoreVerify, StoreRestored,
                Supervise, history
  <2> QED BY <1>3, <2>1, <2>2, <2>3 DEF Command
<1>4. CASE \E p \in Procs : Command(p) \/ Refuse(p) \/ Crash(p)
  BY <1>1, <1>2, <1>3, <1>4
<1>5. CASE \E p \in Procs, o \in Ops : recover(p, o) \/ \E r \in Requests : run(p, o, r)
  BY <1>1, <1>5 DEF recover, run, Begin, history
<1>6. CASE \E o \in Ops : Supervise(Children(o) \/ ChildrenFail(o) \/ WorkloadExits(o))
  BY <1>1, <1>6 DEF Supervise
<1>7. CASE Reboot \/ UNCHANGED vars \/ \E e \in Entries : ExternalWrite(e)
  BY <1>1, <1>7 DEF Reboot, vars, history, ExternalWrite
<1> QED BY <1>4, <1>5, <1>6, <1>7 DEF Next

(***************************************************************************)
(* A caller, its retries and its replays are told one outcome per          *)
(* operation, the one in its journal, whatever crashed in between.         *)
(***************************************************************************)
THEOREM OneOutcomeIsTold == Spec => []RepliesAgree
<1>1. Init => RInv
  <2> SUFFICES ASSUME Init PROVE RInv
    OBVIOUS
  <2>1. \A p \in Procs : OutcomeOK(p)
    BY DEF Init, OutcomeOK, Idle, At, Decision, Ending
  <2>2. \A o \in Ops : RepliesOK(o)
    BY DEF Init, RepliesOK
  <2> QED BY <2>1, <2>2 DEF RInv
<1>2. IInv /\ WInv /\ RInv /\ [Next]_vars => RInv'
  <2> SUFFICES ASSUME IInv, WInv, RInv, [Next]_vars PROVE \A p \in Procs : OutcomeOK(p)'
    BY RepliesStep, ForwardStep DEF RInv
  <2>1. CASE \E p \in Procs : Command(p) \/ Refuse(p) \/ Crash(p)
    BY <2>1, CommandOutcome, ForwardStep
  <2>2. CASE \E p \in Procs, o \in Ops : recover(p, o) \/ \E r \in Requests : run(p, o, r)
    <3>1. PICK p \in Procs, c \in {"run", "recover"}, o \in Ops, r \in Requests : Begin(p, c, o, r)
      BY <2>2 DEF recover, run
    <3>2. proc'[p].pc = "require_inactive" /\ \A q \in Procs : q # p => proc'[q] = proc[q]
      BY <3>1 DEF Begin, IInv, TypeOK
    <3>3. \A q \in Procs : proc[q] = Idle
      BY <3>1, CpuIdleAssumption DEF Begin, IInv, JournalInv, LockInv
    <3>4. OutcomeOK(p)'
      BY <3>2 DEF OutcomeOK, At, Decision, Ending
    <3> QED BY <3>2, <3>3, <3>4, IdleOutcome
  <2>3. CASE Reboot
    BY <2>3, IdleOutcome DEF Reboot
  <2>4. CASE UNCHANGED <<proc, journal>>
    BY <2>4 DEF RInv, OutcomeOK, At, Op
  <2>5. CASE \E o \in Ops : Supervise(Children(o) \/ ChildrenFail(o) \/ WorkloadExits(o))
    BY <2>4, <2>5, ChildrenTyped DEF Supervise, cpuidleVars, IInv
  <2>6. CASE UNCHANGED vars \/ \E e \in Entries : ExternalWrite(e)
    BY <2>4, <2>6 DEF vars, cpuidleVars, ExternalWrite
  <2> QED BY <2>1, <2>2, <2>3, <2>5, <2>6 DEF Next
<1>3. RInv => RepliesAgree
  BY DEF RInv, RepliesOK, RepliesAgree
<1> QED BY <1>1, <1>2, <1>3, Invariance, Supervised, PTL DEF Spec
=============================================================================
