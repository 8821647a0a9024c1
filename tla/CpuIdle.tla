------------------------------- MODULE CpuIdle ------------------------------
(***************************************************************************)
(* tools/benchctl/src/cpuidle.rs and journal.rs: the run and recover       *)
(* commands, which change the host's CPU-idle policy around a workload and *)
(* restore it from a durable journal.  Everything may crash; the host may  *)
(* reboot, and others may write the same sysfs files.                      *)
(***************************************************************************)
EXTENDS Supervision, Sequences

CONSTANTS
  Requests,                   \* what a caller may ask for under an operation ID
  Desired,                    \* IdleEntry.desired of each controlled entry, in order
  MaxBoots                    \* bound on the number of boots

ASSUME CpuIdleAssumption ==
  /\ NoProc \notin Procs \cup Ops
  /\ MaxFaults \in Nat /\ MaxBoots \in Nat \ {0}
  /\ Desired \in Seq({0, 1}) /\ Desired # <<>>

Entries == DOMAIN Desired

Bits == [Entries -> {0, 1}]

VARIABLES
  sysfs,                      \* the disable file of each entry
  boot,                       \* the kernel's boot ID
  lock,                       \* the process that holds the cpuidle lock, or NoProc
  journal,                    \* per operation: the durable journal
  baseline, disturbed,        \* history: sysfs at boot; somebody else has written it since
  replies, starts             \* history: outcomes reported per operation, workloads started

cpuidleVars == <<sysfs, boot, lock, journal>>

history == <<baseline, disturbed, replies, starts>>

vars == <<proc, supervisionVars, faults, cpuidleVars, history>>

Stages ==
  {"Prepared", "Applied", "WorkloadStarted", "Draining", "Restoring", "Restored",
   "Recoverable", "RestoreConflict"}

Journals ==
  [stage : Stages, request : Requests, original : Bits, boot : 1..MaxBoots,
   outcome : Outcomes \cup {"none"}]

NoJournal == [stage |-> "none"]

Idle == [pc |-> "idle"]

PCs ==
  {"require_inactive", "accept", "select", "prepare", "apply", "apply_write",
   "apply_readback", "applied", "started",
   "spawn", "spawn_guardian", "wait_for_ready", "go", "monitor", "monitor_checks",
   "outcome", "drain", "wait_for_drained", "drain_checks", "reap", "terminate",
   "terminating", "reconcile", "recoverable", "finish",
   "restore_check", "restoring", "restore", "restore_write", "restore_readback",
   "restore_verify", "restored", "cleanup"}

Commands ==
  [command : {"run", "abort", "recover"}, pc : PCs, op : Ops, request : Requests,
   entry : Entries, original : Bits, outcome : Outcomes \cup {"none"}]

TypeOK ==
  /\ SupervisionTypeOK
  /\ proc \in [Procs -> Commands \cup {Idle}]
  /\ sysfs \in Bits
  /\ boot \in 1..MaxBoots
  /\ lock \in Procs \cup {NoProc}
  /\ journal \in [Ops -> Journals \cup {NoJournal}]
  /\ baseline \in Bits
  /\ disturbed \in BOOLEAN
  /\ replies \in [Ops -> SUBSET (Outcomes \cup {"none"})]
  /\ starts \in [Ops -> Nat]

Init ==
  /\ SupervisionInit
  /\ proc = [p \in Procs |-> Idle]
  /\ sysfs \in Bits
  /\ boot = 1
  /\ lock = NoProc
  /\ journal = [o \in Ops |-> NoJournal]
  /\ baseline = sysfs
  /\ disturbed = FALSE
  /\ replies = [o \in Ops |-> {}]
  /\ starts = [o \in Ops |-> 0]

-----------------------------------------------------------------------------
Op(p) == proc[p].op

Exists(o) == journal[o] # NoJournal

Unfinished(o) == Exists(o) /\ journal[o].stage # "Restored"

\* Journal::transition and journal::store
Stage(o, stage) == journal' = [journal EXCEPT ![o].stage = stage]

\* A process ends: its lock is free and its children have another parent.
Depart(p) ==
  /\ proc' = [proc EXCEPT ![p] = Idle]
  /\ lock' = IF lock = p THEN NoProc ELSE lock
  /\ group' = [o \in Ops |->
       IF group[o].parent = p
       THEN [group[o] EXCEPT !.parent = NoProc, !.supervisor = Reaped(o)] ELSE group[o]]

Begin(p, command, o, r) ==
  /\ At(p, "idle")
  /\ lock = NoProc
  /\ lock' = p
  /\ proc' = [proc EXCEPT ![p] =
       [command |-> command, pc |-> "require_inactive", op |-> o, request |-> r,
        entry |-> 1, original |-> sysfs, outcome |-> "none"]]
  /\ UNCHANGED <<supervisionVars, faults, sysfs, boot, journal, history>>

\* benchctl run and benchctl recover, up to their lock; without it they fail.
run(p, o, r) == Begin(p, "run", o, r)

recover(p, o) == \E r \in Requests : Exists(o) /\ r = journal[o].request /\ Begin(p, "recover", o, r)

\* Mutant of require_inactive: the guardian's lock is not awaited.
require_inactive_unchecked(p) ==
  /\ At(p, "require_inactive")
  /\ Goto(p, IF proc[p].command = "run" THEN "accept" ELSE "select")
  /\ UNCHANGED <<supervisionVars, faults, cpuidleVars, history>>

require_inactive(p) ==
  /\ At(p, "require_inactive")
  /\ active = NoProc
  /\ Goto(p, IF proc[p].command = "run" THEN "accept" ELSE "select")
  /\ UNCHANGED <<supervisionVars, faults, cpuidleVars, history>>

\* ACTIVE_WAIT is over.
StillActive(p) ==
  /\ At(p, "require_inactive")
  /\ active # NoProc
  /\ Depart(p)
  /\ UNCHANGED <<runtime, active, faults, sysfs, boot, journal, history>>

-----------------------------------------------------------------------------
(* coordinate_run                                                          *)

\* The receipt, the checkout or the snapshot is refused, or the client is gone;
\* or the ID is taken: RequestConflict and RecoveryRequired.
Refuse(p) ==
  /\ At(p, "accept")
  /\ Depart(p)
  /\ UNCHANGED <<runtime, active, faults, sysfs, boot, journal, history>>

replay_outcome(p) ==
  /\ At(p, "accept")
  /\ Exists(Op(p))
  /\ journal[Op(p)].request = proc[p].request
  /\ journal[Op(p)].stage = "Restored"
  /\ replies' = [replies EXCEPT ![Op(p)] = @ \cup ({journal[Op(p)].outcome} \ {"none"})]
  /\ Depart(p)
  /\ UNCHANGED <<runtime, active, faults, sysfs, boot, journal, baseline, disturbed, starts>>

\* Mutant of Accept: a journal under the same ID is not looked for.
AcceptReusedId(p) ==
  /\ At(p, "accept")
  /\ \A o \in Ops : ~Unfinished(o)
  /\ proc' = [proc EXCEPT ![p].pc = "prepare", ![p].original = sysfs]
  /\ UNCHANGED <<supervisionVars, faults, cpuidleVars, history>>

\* require_no_unfinished_journal, the snapshots and the inventory
Accept(p) ==
  /\ At(p, "accept")
  /\ ~Exists(Op(p))
  /\ \A o \in Ops : ~Unfinished(o)
  /\ proc' = [proc EXCEPT ![p].pc = "prepare", ![p].original = sysfs]
  /\ UNCHANGED <<supervisionVars, faults, cpuidleVars, history>>

StorePrepared(p) ==
  /\ At(p, "prepare")
  /\ journal' = [journal EXCEPT ![Op(p)] =
       [stage |-> "Prepared", request |-> proc[p].request, original |-> proc[p].original,
        boot |-> boot, outcome |-> "none"]]
  /\ Goto(p, "apply")
  /\ UNCHANGED <<supervisionVars, faults, sysfs, boot, lock, history>>

Original(p) == journal[Op(p)].original[proc[p].entry]

Current(p) == sysfs[proc[p].entry]

Wanted(p) == Desired[proc[p].entry]

\* The next entry, or after the last one the next phase.
NextEntry(p, again, next) ==
  proc' = [proc EXCEPT ![p].entry = IF @ = Len(Desired) THEN 1 ELSE @ + 1,
                       ![p].pc = IF proc[p].entry = Len(Desired) THEN next ELSE again]

\* apply returned an error: restore, then report it.
Abort(p) ==
  proc' = [proc EXCEPT ![p].command = "abort", ![p].pc = "restore_check", ![p].entry = 1]

apply(p) ==
  /\ At(p, "apply")
  /\ IF Current(p) = Original(p) THEN Goto(p, "apply_write") ELSE Abort(p)
  /\ UNCHANGED <<supervisionVars, faults, cpuidleVars, history>>

write_bit(p, from, value, next) ==
  /\ At(p, from)
  /\ sysfs' = [sysfs EXCEPT ![proc[p].entry] = value]
  /\ Goto(p, next)
  /\ UNCHANGED <<supervisionVars, faults, boot, lock, journal, history>>

ApplyWrite(p) == write_bit(p, "apply_write", Wanted(p), "apply_readback")

ApplyReadback(p) ==
  /\ At(p, "apply_readback")
  /\ IF Current(p) = Wanted(p) THEN NextEntry(p, "apply", "applied") ELSE Abort(p)
  /\ UNCHANGED <<supervisionVars, faults, cpuidleVars, history>>

StoreStage(p, from, stage, next) ==
  /\ At(p, from)
  /\ Stage(Op(p), stage)
  /\ Goto(p, next)
  /\ UNCHANGED <<supervisionVars, faults, sysfs, boot, lock, history>>

StoreApplied(p) == StoreStage(p, "applied", "Applied", "started")

StoreWorkloadStarted(p) == StoreStage(p, "started", "WorkloadStarted", "spawn")

\* Mutant of StoreFinished: the outcome is reported but not stored.
StoreFinishedUnrecorded(p) ==
  /\ At(p, "finish")
  /\ Stage(Op(p), "Draining")
  /\ Goto(p, "restore_check")
  /\ UNCHANGED <<supervisionVars, faults, sysfs, boot, lock, history>>

\* coordinate() returned an outcome.
StoreFinished(p) ==
  /\ At(p, "finish")
  /\ journal' = [journal EXCEPT ![Op(p)].stage = "Draining", ![Op(p)].outcome = proc[p].outcome]
  /\ Goto(p, "restore_check")
  /\ UNCHANGED <<supervisionVars, faults, sysfs, boot, lock, history>>

-----------------------------------------------------------------------------
(* recover                                                                 *)

\* Mutant of Select: the boot ID is not compared.
SelectAnyBoot(p) ==
  /\ At(p, "select")
  /\ Goto(p, IF journal[Op(p)].stage = "Restored" THEN "cleanup" ELSE "reconcile")
  /\ UNCHANGED <<supervisionVars, faults, cpuidleVars, history>>

Select(p) ==
  /\ At(p, "select")
  /\ \/ journal[Op(p)].stage = "Restored" /\ Goto(p, "cleanup") /\ UNCHANGED <<group, lock>>
     \/ Unfinished(Op(p)) /\ journal[Op(p)].boot # boot /\ Depart(p)
     \/ /\ Unfinished(Op(p))
        /\ journal[Op(p)].boot = boot
        /\ Goto(p, "reconcile") /\ UNCHANGED <<group, lock>>
  /\ UNCHANGED <<runtime, active, faults, sysfs, boot, journal, history>>

reconcile_runtime_outcome(p) ==
  /\ At(p, "reconcile")
  /\ journal' = [journal EXCEPT ![Op(p)].outcome =
       IF @ = "none" THEN recover_outcome(Op(p)) ELSE @]
  /\ Goto(p, IF proc[p].command = "run" THEN "recoverable" ELSE "restore_check")
  /\ UNCHANGED <<supervisionVars, faults, sysfs, boot, lock, history>>

StoreRecoverable(p) ==
  /\ At(p, "recoverable")
  /\ Stage(Op(p), "Recoverable")
  /\ Depart(p)
  /\ UNCHANGED <<runtime, active, faults, sysfs, boot, history>>

-----------------------------------------------------------------------------
(* restore                                                                 *)

Foreign(p) == Current(p) # Original(p) /\ Current(p) # Wanted(p)

\* Record RestoreConflict and fail.
Conflict(p) ==
  /\ Stage(Op(p), "RestoreConflict")
  /\ Depart(p)

RestoreCheck(p) ==
  /\ At(p, "restore_check")
  /\ IF Foreign(p)
     THEN Conflict(p)
     ELSE NextEntry(p, "restore_check", "restoring") /\ UNCHANGED <<group, lock, journal>>
  /\ UNCHANGED <<runtime, active, faults, sysfs, boot, history>>

StoreRestoring(p) == StoreStage(p, "restoring", "Restoring", "restore")

Restore(p) ==
  /\ At(p, "restore")
  /\ \/ Foreign(p) /\ Conflict(p)
     \/ /\ Current(p) = Wanted(p) /\ Current(p) # Original(p)
        /\ Goto(p, "restore_write") /\ UNCHANGED <<group, lock, journal>>
     \/ /\ Current(p) = Original(p)
        /\ NextEntry(p, "restore", "restore_verify") /\ UNCHANGED <<group, lock, journal>>
  /\ UNCHANGED <<runtime, active, faults, sysfs, boot, history>>

RestoreWrite(p) == write_bit(p, "restore_write", Original(p), "restore_readback")

RestoreReadback(p) ==
  /\ At(p, "restore_readback")
  /\ IF Current(p) = Original(p)
     THEN NextEntry(p, "restore", "restore_verify") /\ UNCHANGED <<group, lock>>
     ELSE Depart(p)
  /\ UNCHANGED <<runtime, active, faults, sysfs, boot, journal, history>>

RestoreVerify(p) ==
  /\ At(p, "restore_verify")
  /\ IF Current(p) = Original(p)
     THEN NextEntry(p, "restore_verify", "restored") /\ UNCHANGED <<group, lock, journal>>
     ELSE Conflict(p)
  /\ UNCHANGED <<runtime, active, faults, sysfs, boot, history>>

\* An aborted run reports its error at once and leaves no runtime directory.
StoreRestored(p) ==
  /\ At(p, "restored")
  /\ Stage(Op(p), "Restored")
  /\ IF proc[p].command = "abort"
     THEN Depart(p)
     ELSE Goto(p, "cleanup") /\ UNCHANGED <<group, lock>>
  /\ UNCHANGED <<runtime, active, faults, sysfs, boot, history>>

\* cleanup_runtime; a run then reports the outcome it has stored.
Cleanup(p) ==
  /\ At(p, "cleanup")
  /\ cleanup_runtime(Op(p))
  /\ Depart(p)
  /\ replies' = [replies EXCEPT ![Op(p)] =
       IF proc[p].command = "run" THEN @ \cup {proc[p].outcome} ELSE @]
  /\ UNCHANGED <<active, faults, sysfs, boot, journal, baseline, disturbed, starts>>

-----------------------------------------------------------------------------
(* The environment.                                                        *)

Crash(p) ==
  /\ ~At(p, "idle")
  /\ Fault
  /\ Depart(p)
  /\ UNCHANGED <<runtime, active, sysfs, boot, journal, history>>

\* Somebody else writes a disable file.
ExternalWrite(e) ==
  /\ Fault
  /\ sysfs' = [sysfs EXCEPT ![e] = 1 - @]
  /\ disturbed' = TRUE
  /\ UNCHANGED <<proc, supervisionVars, boot, lock, journal, baseline, replies, starts>>

\* Processes, locks and sysfs are lost; the state directory is not.
Reboot ==
  /\ boot < MaxBoots
  /\ boot' = boot + 1
  /\ proc' = [p \in Procs |-> Idle]
  /\ lock' = NoProc
  /\ active' = NoProc
  /\ group' = [o \in Ops |-> NoGroup]
  /\ sysfs' \in Bits
  /\ baseline' = sysfs'
  /\ disturbed' = FALSE
  /\ UNCHANGED <<runtime, faults, journal, replies, starts>>

-----------------------------------------------------------------------------
\* A step of supervision.rs; the history counts the workloads it starts.
Supervise(A) ==
  /\ A
  /\ starts' = [o \in Ops |->
       starts[o] + IF ~WorkloadAlive(o) /\ group'[o].workload = "running" THEN 1 ELSE 0]
  /\ UNCHANGED <<cpuidleVars, baseline, disturbed, replies>>

Command(p) ==
  \/ require_inactive(p) \/ StillActive(p)
  \/ replay_outcome(p) \/ Accept(p) \/ StorePrepared(p)
  \/ apply(p) \/ ApplyWrite(p) \/ ApplyReadback(p)
  \/ StoreApplied(p) \/ StoreWorkloadStarted(p) \/ StoreFinished(p)
  \/ Select(p) \/ reconcile_runtime_outcome(p) \/ StoreRecoverable(p)
  \/ RestoreCheck(p) \/ StoreRestoring(p) \/ Restore(p) \/ RestoreWrite(p)
  \/ RestoreReadback(p) \/ RestoreVerify(p) \/ StoreRestored(p) \/ Cleanup(p)
  \/ ~At(p, "idle") /\ Supervise(coordinate(p, Op(p)))

Next ==
  \/ \E p \in Procs, o \in Ops : recover(p, o) \/ \E r \in Requests : run(p, o, r)
  \/ \E p \in Procs : Command(p) \/ Refuse(p) \/ Crash(p)
  \/ \E o \in Ops : Supervise(Children(o) \/ ChildrenFail(o) \/ WorkloadExits(o))
  \/ \E e \in Entries : ExternalWrite(e)
  \/ Reboot

Spec == Init /\ [][Next]_vars

(***************************************************************************)
(* Every process that is alive goes on, the workload timeout passes and a  *)
(* workload does not survive SIGKILL for ever; nothing is assumed of a     *)
(* workload before that.                                                   *)
(***************************************************************************)
Killed(o) ==
  \/ group[o].guardian = "killed"
  \/ \E p \in Procs : At(p, "terminating") /\ Op(p) = o

\* The workload timeout: once it is over, every round of the loop sees it.
Stops(p) == ~At(p, "idle") /\ Supervise(MonitorStops(p, Op(p), "TimedOut"))

FairSpec ==
  /\ Spec
  /\ \A p \in Procs : WF_vars(Command(p))
  /\ \A p \in Procs : SF_vars(Stops(p))
  /\ \A o \in Ops : WF_vars(Supervise(Children(o)))
  /\ \A o \in Ops : WF_vars(Killed(o) /\ Supervise(WorkloadExits(o)))

-----------------------------------------------------------------------------
(* Properties.                                                             *)

(***************************************************************************)
(* Whatever crashed, a CPU-idle policy that is not the one of the boot is  *)
(* explained by an unfinished journal of this boot that records exactly    *)
(* the values to restore.  So it is written before the first mutation, a   *)
(* journal becomes Restored only with every value back, and a journal of   *)
(* an earlier boot is never replayed over this one.                        *)
(***************************************************************************)
PolicyIsJournaled ==
  ~disturbed /\ sysfs # baseline =>
    \E o \in Ops : Unfinished(o) /\ journal[o].boot = boot /\ journal[o].original = baseline

Restoring(p) == proc[p].pc \in {"restoring", "restore", "restore_write", "restore_readback",
                                "restore_verify", "restored"}

GuardianLost(o) == group[o].guardian \in {"failed", "crashed"}

(***************************************************************************)
(* No command restores the policy while a workload is running, unless that *)
(* workload's guardian crashed or gave up: run has the drained proof and   *)
(* recover waits for the guardian's lock.                                  *)
(***************************************************************************)
RestoreWaitsForGuardian ==
  \A p \in Procs, o \in Ops : Restoring(p) /\ WorkloadAlive(o) => GuardianLost(o)

(***************************************************************************)
(* docs/benchctl.md:55: Benchctl "refuses restoration while the group      *)
(* cannot be proved drained".                                              *)
(***************************************************************************)
RefusesRestorationUntilDrained ==
  \A p \in Procs : Restoring(p) => ~WorkloadAlive(Op(p))

(***************************************************************************)
(* A workload runs under the desired policy, once per operation ID, and    *)
(* only with the operation's journal on disk, as long as its guardian is   *)
(* there and nobody else writes sysfs.                                     *)
(***************************************************************************)
WorkloadRunsUnderPolicy ==
  \A o \in Ops :
    /\ starts[o] <= 1
    /\ WorkloadAlive(o) /\ ~GuardianLost(o) =>
         Unfinished(o) /\ (~disturbed => sysfs = Desired)

(***************************************************************************)
(* At most one operation is unfinished, so recover without an ID is never  *)
(* ambiguous and no journal can record another's policy as the original.   *)
(***************************************************************************)
OneUnfinished == \A o1, o2 \in Ops : Unfinished(o1) /\ Unfinished(o2) => o1 = o2

(***************************************************************************)
(* A caller, its retries and its replays are told one outcome per          *)
(* operation, the one in the journal.                                      *)
(***************************************************************************)
RepliesAgree ==
  \A o \in Ops : replies[o] # {} =>
    replies[o] = {journal[o].outcome} /\ journal[o].outcome # "none"

(***************************************************************************)
(* A journal only moves forward: its request, originals and boot are       *)
(* fixed, an outcome is never replaced and Restored is final.              *)
(***************************************************************************)
JournalIsAppendOnly ==
  [][\A o \in Ops : Exists(o) =>
       /\ \A f \in {"request", "original", "boot"} : journal'[o][f] = journal[o][f]
       /\ journal[o].outcome # "none" => journal'[o].outcome = journal[o].outcome
       /\ journal[o].stage = "Restored" => journal'[o].stage = "Restored"]_vars

(***************************************************************************)
(* A run that no fault disturbs always settles, whether its workload       *)
(* succeeds, fails, hangs or ignores SIGTERM: the policy is restored or,   *)
(* when the drain proof was missed, the workload is gone, its outcome is   *)
(* recorded and the journal asks for recover.                              *)
(***************************************************************************)
RunSettles ==
  \A o \in Ops :
    Unfinished(o) /\ faults = 0 ~>
      \/ faults > 0
      \/ ~Unfinished(o)
      \/ /\ journal[o].stage = "Recoverable"
         /\ journal[o].outcome # "none"
         /\ ~WorkloadAlive(o)

(***************************************************************************)
(* The guardian's lock never blocks recovery for ever.                     *)
(***************************************************************************)
ActiveLockIsReleased == \A o \in Ops : active = o ~> active # o
=============================================================================
