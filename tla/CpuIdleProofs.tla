---------------------------- MODULE CpuIdleProofs ---------------------------
(***************************************************************************)
(* Theorems about the journal and the policy of CpuIdle, for any number of *)
(* processes, operations, entries, faults and boots.                       *)
(*                                                                         *)
(* Only the holder of the cpuidle lock is between its start and its end.   *)
(* It knows that nothing is unfinished before it prepares its journal, and *)
(* from there to the end of its restoration it owns an unfinished journal  *)
(* of this boot, whose original is the policy of the boot.  The final      *)
(* verification has seen every entry at that original.                     *)
(***************************************************************************)
EXTENDS CpuIdle, TLAPS

\* The program counters of coordinate().
Supervising ==
  {"spawn", "spawn_guardian", "wait_for_ready", "go", "monitor", "monitor_checks",
   "outcome", "drain", "wait_for_drained", "drain_checks", "reap", "terminate", "terminating"}

\* Before the command has an outcome to store.
Deciding == Supervising \cup {"apply", "apply_write", "apply_readback", "applied", "started", "finish"}

\* From the journal's creation, or its selection, to its end.
Owning ==
  Deciding \cup {"reconcile", "recoverable", "restore_check", "restoring", "restore",
                 "restore_write", "restore_readback", "restore_verify", "restored"}

\* Every command that is under way holds the cpuidle lock.
LockInv == \A p \in Procs : proc[p] # Idle => lock = p

\* The check for unfinished journals, and the inventory, still hold when the journal is stored.
PrepareInv ==
  \A p \in Procs : At(p, "prepare") =>
    /\ ~Exists(Op(p))
    /\ \A o \in Ops : ~Unfinished(o)
    /\ disturbed \/ proc[p].original = sysfs

OwnInv ==
  \A p \in Procs : proc[p].pc \in Owning =>
    /\ Unfinished(Op(p))
    /\ journal[Op(p)].boot = boot
    /\ proc[p].pc \in Deciding => journal[Op(p)].outcome = "none"

BootInv == \A o \in Ops : Exists(o) => journal[o].boot <= boot

Governs(o) == Unfinished(o) /\ journal[o].boot = boot

PolicyInv ==
  \/ disturbed
  \/ /\ \A o \in Ops : Governs(o) => journal[o].original = baseline
     /\ (\A o \in Ops : ~Governs(o)) => sysfs = baseline

\* What the final verification has seen so far.
VerifyInv ==
  \A p \in Procs :
    /\ At(p, "restore_verify") =>
         \A e \in Entries : e < proc[p].entry => disturbed \/ sysfs[e] = journal[Op(p)].original[e]
    /\ At(p, "restored") => disturbed \/ sysfs = journal[Op(p)].original

JournalInv == LockInv /\ PrepareInv /\ OwnInv /\ OneUnfinished /\ BootInv /\ PolicyInv /\ VerifyInv

IInv == TypeOK /\ JournalInv

-----------------------------------------------------------------------------
(* Types.                                                                  *)

\* What a step of a command that is under way does to the processes.
Moves(p, to) ==
  /\ proc' \in [Procs -> Commands \cup {Idle}]
  /\ proc'[p] \in Commands
  /\ proc'[p].pc \in to
  /\ proc'[p].op = proc[p].op
  /\ \A q \in Procs : q # p => proc'[q] = proc[q]

(***************************************************************************)
(* A process with a program counter of PCs runs a command.                 *)
(***************************************************************************)
LEMMA NotIdle ==
  ASSUME TypeOK, NEW p \in Procs, proc[p].pc # "idle"
  PROVE  proc[p] \in Commands
BY DEF TypeOK, Idle

(***************************************************************************)
(* And it is not idle, which says more than its program counter.           *)
(***************************************************************************)
LEMMA NotIdleRecord ==
  ASSUME NEW p, proc[p].pc # "idle"
  PROVE  proc[p] # Idle
BY DEF Idle

(***************************************************************************)
(* Goto moves one process.                                                 *)
(***************************************************************************)
LEMMA GotoMoves ==
  ASSUME TypeOK, NEW p \in Procs, proc[p] \in Commands, NEW x \in PCs, Goto(p, x)
  PROVE  Moves(p, {x}) /\ proc'[p].entry = proc[p].entry
BY DEF TypeOK, Goto, Moves, Commands

(***************************************************************************)
(* Set keeps the types of the groups.                                      *)
(***************************************************************************)
LEMMA SetTyped ==
  ASSUME TypeOK, NEW o \in Ops, NEW f, NEW v, Set(o, f, v),
         \/ f = "supervisor" /\ v \in {"off", "waiting", "running", "lingering", "zombie", "gone"}
         \/ f = "workload" /\ v \in {"off", "running", "exited", "gone"}
         \/ f = "guardian" /\ v \in {"off", "start", "watch", "termed", "killed", "leaving", "done",
                                     "failed", "crashed"}
  PROVE  group' \in [Ops -> Groups]
<1>1. group \in [Ops -> Groups]
  BY DEF TypeOK, SupervisionTypeOK
<1> QED BY <1>1 DEF Set, Groups

(***************************************************************************)
(* Writing a file keeps the types of the runtime directories.              *)
(***************************************************************************)
LEMMA WriteTyped ==
  ASSUME TypeOK, NEW o \in Ops, NEW f \in {"ready", "go", "drain", "drained"}, Write(o, f)
  PROVE  runtime' \in [Ops -> Runtimes]
<1>1. runtime \in [Ops -> Runtimes]
  BY DEF TypeOK, SupervisionTypeOK
<1>2. [runtime[o] EXCEPT !.files = @ \cup {f}] \in Runtimes
  BY <1>1 DEF Runtimes
<1>3. runtime' = [runtime EXCEPT ![o] = [runtime[o] EXCEPT !.files = @ \cup {f}]]
  BY <1>1 DEF Write
<1> QED BY <1>1, <1>2, <1>3

(***************************************************************************)
(* A fault stays within the bound on faults.                               *)
(***************************************************************************)
LEMMA FaultTyped ==
  ASSUME TypeOK, Fault
  PROVE  faults' \in 0..MaxFaults
BY CpuIdleAssumption DEF TypeOK, SupervisionTypeOK, Fault

(***************************************************************************)
(* The values that are computed for a supervisor are of its type.          *)
(***************************************************************************)
LEMMA SupervisorValues ==
  ASSUME TypeOK, NEW o \in Ops
  PROVE  {Corpse(o), Signalled(o), Reaped(o)}
           \subseteq {"off", "waiting", "running", "lingering", "zombie", "gone"}
BY DEF TypeOK, SupervisionTypeOK, Groups, Corpse, Signalled, Reaped

\* The types of the variables of Supervision.
SupervisionTyped ==
  /\ group' \in [Ops -> Groups]
  /\ runtime' \in [Ops -> Runtimes]
  /\ active' \in Ops \cup {NoProc}
  /\ faults' \in 0..MaxFaults

(***************************************************************************)
(* A step of a supervisor, a workload or a guardian touches no process.    *)
(***************************************************************************)
LEMMA ChildrenTyped ==
  ASSUME TypeOK, NEW o \in Ops, Children(o) \/ ChildrenFail(o) \/ WorkloadExits(o)
  PROVE  SupervisionTyped /\ proc' = proc
<1>t. /\ group \in [Ops -> Groups] /\ runtime \in [Ops -> Runtimes]
      /\ active \in Ops \cup {NoProc} /\ faults \in 0..MaxFaults
  BY DEF TypeOK, SupervisionTypeOK
<1>1. CASE SupervisorGo(o)
  <2>1. group[o] \in Groups
    BY <1>t
  <2>2. [group[o] EXCEPT !.supervisor = "running", !.workload = "running"] \in Groups
    BY <2>1 DEF Groups
  <2>3. group' = [group EXCEPT ![o] =
          [group[o] EXCEPT !.supervisor = "running", !.workload = "running"]]
    BY <1>1, <1>t DEF SupervisorGo
  <2>4. group' \in [Ops -> Groups]
    BY <1>t, <2>2, <2>3
  <2> QED BY <1>1, <1>t, <2>4 DEF SupervisorGo, SupervisionTyped
<1>2. CASE SupervisorGivesUp(o)
  BY <1>2, <1>t, SetTyped DEF SupervisorGivesUp, SupervisionTyped
<1>3. ASSUME NEW s \in {"Success", "Failed"}, RecordStatus(o, s)
      PROVE  SupervisionTyped /\ proc' = proc
  <2>1. runtime' \in [Ops -> Runtimes]
    BY <1>3, <1>t DEF RecordStatus, Runtimes
  <2>2. group' \in [Ops -> Groups]
    BY <1>3, <1>t DEF RecordStatus, Groups
  <2> QED BY <1>3, <1>t, <2>1, <2>2 DEF RecordStatus, SupervisionTyped
<1>4. CASE GuardianLocks(o)
  BY <1>4, <1>t, SetTyped, WriteTyped DEF GuardianLocks, SupervisionTyped
<1>5. CASE GuardianTerminates(o)
  <2> DEFINE g == [group[o] EXCEPT !.guardian = "termed", !.requested = Has(o, "drain"),
                                   !.supervisor = Signalled(o)]
  <2>1. group[o] \in Groups
    BY <1>t
  <2>2. Has(o, "drain") \in BOOLEAN
    BY DEF Has
  <2>3. g \in Groups
    BY <2>1, <2>2, SupervisorValues DEF Groups
  <2>4. group' = [group EXCEPT ![o] = g]
    BY <1>5, <1>t DEF GuardianTerminates
  <2> HIDE DEF g
  <2>5. group' \in [Ops -> Groups]
    BY <1>t, <2>3, <2>4
  <2> QED BY <1>5, <1>t, <2>5 DEF GuardianTerminates, SupervisionTyped
<1>6. CASE GuardianKills(o)
  BY <1>6, <1>t, SetTyped DEF GuardianKills, SupervisionTyped
<1>7. CASE GuardianDrained(o)
  BY <1>7, <1>t, SetTyped, WriteTyped DEF GuardianDrained, SupervisionTyped
<1>8. CASE GuardianLeaves(o)
  BY <1>8, <1>t, SetTyped DEF GuardianLeaves, SupervisionTyped
<1>9. CASE SupervisorFails(o)
  BY <1>9, <1>t, SetTyped, FaultTyped, SupervisorValues DEF SupervisorFails, SupervisionTyped
<1>10. CASE GuardianFails(o)
  BY <1>10, <1>t, SetTyped, FaultTyped DEF GuardianFails, SupervisionTyped
<1>11. CASE GuardianCrashes(o)
  BY <1>11, <1>t, SetTyped, FaultTyped DEF GuardianCrashes, SupervisionTyped
<1>12. CASE WorkloadExits(o)
  BY <1>12, <1>t, SetTyped DEF WorkloadExits, SupervisionTyped
<1> QED BY <1>1, <1>2, <1>3, <1>4, <1>5, <1>6, <1>7, <1>8, <1>9, <1>10, <1>11, <1>12
        DEF Children, ChildrenFail

(***************************************************************************)
(* A step of coordinate() moves its process on, at most to the end of its  *)
(* supervision.                                                            *)
(***************************************************************************)
LEMMA CoordinateTyped ==
  ASSUME TypeOK, NEW p \in Procs, NEW o \in Ops, coordinate(p, o)
  PROVE  /\ SupervisionTyped
         /\ proc[p] \in Commands /\ proc[p].pc \in Supervising
         /\ Moves(p, Supervising \cup {"reconcile", "finish"})
<1> DEFINE To == Supervising \cup {"reconcile", "finish"}
           Goal == /\ SupervisionTyped
                   /\ proc[p] \in Commands /\ proc[p].pc \in Supervising
                   /\ Moves(p, To)
<1>t. /\ group \in [Ops -> Groups] /\ runtime \in [Ops -> Runtimes]
      /\ active \in Ops \cup {NoProc} /\ faults \in 0..MaxFaults
  BY DEF TypeOK, SupervisionTypeOK
<1>g. ASSUME NEW x \in PCs, x \in To, proc[p] \in Commands, Goto(p, x)
      PROVE  Moves(p, To)
  BY <1>g, GotoMoves DEF Moves
<1>d. ASSUME NEW v \in Outcomes \cup {"none"}, proc[p] \in Commands, Decided(p, v)
      PROVE  Moves(p, To)
  <2> DEFINE c == [proc[p] EXCEPT !.pc = "outcome", !.outcome = v]
  <2>1. c \in Commands /\ c.pc = "outcome" /\ c.op = proc[p].op
    BY <1>d DEF Commands, PCs
  <2>2. proc' = [proc EXCEPT ![p] = c]
    BY <1>d DEF Decided, TypeOK
  <2> HIDE DEF c
  <2> QED BY <2>1, <2>2 DEF Moves, TypeOK, Supervising
<1>c. ASSUME proc[p].pc \in Supervising
      PROVE  proc[p] \in Commands
  BY <1>c, NotIdle DEF Supervising
<1>s. To \subseteq PCs
  BY DEF Supervising, PCs
<1>1. CASE SpawnSupervisor(p, o)
  <2>1. proc[p] \in Commands /\ proc[p].pc \in Supervising
    BY <1>1, <1>c DEF SpawnSupervisor, At, Supervising
  <2>2. Moves(p, To)
    BY <1>1, <2>1, <1>g, <1>s DEF SpawnSupervisor, Supervising
  <2> DEFINE g == [group[o] EXCEPT !.parent = p, !.supervisor = "waiting"]
  <2>3. group[o] \in Groups
    BY <1>t
  <2>4. g \in Groups
    BY <2>3 DEF Groups
  <2>5. group' = [group EXCEPT ![o] = g]
    BY <1>1, <1>t DEF SpawnSupervisor
  <2> HIDE DEF g
  <2>6. group' \in [Ops -> Groups]
    BY <1>t, <2>4, <2>5
  <2> QED BY <1>1, <1>t, <2>1, <2>2, <2>6 DEF SpawnSupervisor, SupervisionTyped
<1>2. CASE SpawnGuardian(p, o)
  <2>1. proc[p] \in Commands /\ proc[p].pc \in Supervising
    BY <1>2, <1>c DEF SpawnGuardian, At, Supervising
  <2>2. Moves(p, To)
    BY <1>2, <2>1, <1>g, <1>s DEF SpawnGuardian, Supervising
  <2> QED BY <1>2, <1>t, <2>1, <2>2, SetTyped DEF SpawnGuardian, SupervisionTyped
<1>3. CASE SpawnGuardianFails(p, o)
  <2>1. proc[p] \in Commands /\ proc[p].pc \in Supervising
    BY <1>3, <1>c DEF SpawnGuardianFails, At, Supervising
  <2>2. Moves(p, To)
    BY <1>3, <2>1, <1>g, <1>s DEF SpawnGuardianFails, Supervising
  <2> QED BY <1>3, <1>t, <2>1, <2>2, FaultTyped DEF SpawnGuardianFails, SupervisionTyped
<1>4. CASE wait_for_ready(p, o)
  <2>1. proc[p] \in Commands /\ proc[p].pc \in Supervising
    BY <1>4, <1>c DEF wait_for_ready, At, Supervising
  <2>2. Moves(p, To)
    BY <1>4, <2>1, <1>g, <1>s DEF wait_for_ready, Supervising
  <2>3. group' \in [Ops -> Groups] /\ faults' \in 0..MaxFaults
    BY <1>4, <1>t, SetTyped, FaultTyped DEF wait_for_ready
  <2> QED BY <1>4, <1>t, <2>1, <2>2, <2>3 DEF wait_for_ready, SupervisionTyped
<1>5. CASE WriteGo(p, o)
  <2>1. proc[p] \in Commands /\ proc[p].pc \in Supervising
    BY <1>5, <1>c DEF WriteGo, At, Supervising
  <2>2. Moves(p, To)
    BY <1>5, <2>1, <1>g, <1>s DEF WriteGo, Supervising
  <2> QED BY <1>5, <1>t, <2>1, <2>2, WriteTyped DEF WriteGo, SupervisionTyped
<1>6. CASE ReadStatus(p, o)
  <2>1. proc[p] \in Commands /\ proc[p].pc \in Supervising
    BY <1>6, <1>c DEF ReadStatus, At, Supervising
  <2>2. runtime[o].status \in Outcomes \cup {"none"}
    BY <1>t DEF Runtimes, Outcomes
  <2>3. Moves(p, To)
    BY <1>6, <2>1, <2>2, <1>g, <1>d, <1>s DEF ReadStatus, Supervising
  <2> QED BY <1>6, <1>t, <2>1, <2>3 DEF ReadStatus, SupervisionTyped
<1>7. CASE MonitorChildren(p, o)
  <2>1. proc[p] \in Commands /\ proc[p].pc \in Supervising
    BY <1>7, <1>c DEF MonitorChildren, At, Supervising
  <2>2. Moves(p, To)
    BY <1>7, <2>1, <1>g, <1>s DEF MonitorChildren, Supervising
  <2>3. group' \in [Ops -> Groups]
    BY <1>7, <1>t, SupervisorValues DEF MonitorChildren, Groups
  <2> QED BY <1>7, <1>t, <2>1, <2>2, <2>3 DEF MonitorChildren, SupervisionTyped
<1>8. ASSUME NEW v \in Outcomes, MonitorStops(p, o, v)
      PROVE  Goal
  <2>1. proc[p] \in Commands /\ proc[p].pc \in Supervising
    BY <1>8, <1>c DEF MonitorStops, At, Supervising
  <2>2. Moves(p, To)
    BY <1>8, <2>1, <1>d DEF MonitorStops
  <2> QED BY <1>8, <1>t, <2>1, <2>2 DEF MonitorStops, SupervisionTyped
<1>9. CASE StoreOutcome(p, o)
  <2>1. proc[p] \in Commands /\ proc[p].pc \in Supervising
    BY <1>9, <1>c DEF StoreOutcome, At, Supervising
  <2>2. Moves(p, To)
    BY <1>9, <2>1, <1>g, <1>s DEF StoreOutcome, Supervising
  <2>3. proc[p].outcome \in Outcomes \cup {"none"}
    BY <2>1 DEF Commands
  <2>4. runtime' \in [Ops -> Runtimes]
    BY <1>9, <1>t, <2>3 DEF StoreOutcome, Runtimes
  <2> QED BY <1>9, <1>t, <2>1, <2>2, <2>4 DEF StoreOutcome, SupervisionTyped
<1>10. CASE RequestDrain(p, o)
  <2>1. proc[p] \in Commands /\ proc[p].pc \in Supervising
    BY <1>10, <1>c DEF RequestDrain, At, Supervising
  <2>2. Moves(p, To)
    BY <1>10, <2>1, <1>g, <1>s DEF RequestDrain, Supervising
  <2> QED BY <1>10, <1>t, <2>1, <2>2, WriteTyped DEF RequestDrain, SupervisionTyped
<1>11. CASE wait_for_drained(p, o)
  <2>1. proc[p] \in Commands /\ proc[p].pc \in Supervising
    BY <1>11, <1>c DEF wait_for_drained, At, Supervising
  <2>2. Moves(p, To)
    BY <1>11, <2>1, <1>g, <1>s DEF wait_for_drained, Supervising
  <2> QED BY <1>11, <1>t, <2>1, <2>2 DEF wait_for_drained, SupervisionTyped
<1>12. CASE DrainChecks(p, o)
  <2>1. proc[p] \in Commands /\ proc[p].pc \in Supervising
    BY <1>12, <1>c DEF DrainChecks, At, Supervising
  <2>2. Moves(p, To)
    BY <1>12, <2>1, <1>g, <1>s DEF DrainChecks, Supervising
  <2>3. group' \in [Ops -> Groups] /\ faults' \in 0..MaxFaults
    BY <1>12, <1>t, SetTyped, FaultTyped, SupervisorValues DEF DrainChecks
  <2> QED BY <1>12, <1>t, <2>1, <2>2, <2>3 DEF DrainChecks, SupervisionTyped
<1>13. CASE ReapChildren(p, o)
  <2>1. proc[p] \in Commands /\ proc[p].pc \in Supervising
    BY <1>13, <1>c DEF ReapChildren, At, Supervising
  <2>2. Moves(p, To)
    BY <1>13, <2>1, <1>g, <1>s DEF ReapChildren, Supervising
  <2> QED BY <1>13, <1>t, <2>1, <2>2 DEF ReapChildren, SupervisionTyped
<1>14. CASE Terminate(p, o)
  <2>1. proc[p] \in Commands /\ proc[p].pc \in Supervising
    BY <1>14, <1>c DEF Terminate, At, Supervising
  <2>2. Moves(p, To)
    BY <1>14, <2>1, <1>g, <1>s DEF Terminate, Supervising
  <2>3. group[o].supervisor \in {"off", "waiting", "running", "lingering", "zombie", "gone"}
    BY <1>t DEF Groups
  <2>4. group' \in [Ops -> Groups]
    BY <1>14, <2>3, SetTyped DEF Terminate
  <2> QED BY <1>14, <1>t, <2>1, <2>2, <2>4 DEF Terminate, SupervisionTyped
<1>15. CASE Terminated(p, o)
  <2>1. proc[p] \in Commands /\ proc[p].pc \in Supervising
    BY <1>15, <1>c DEF Terminated, At, Supervising
  <2>2. Moves(p, To)
    BY <1>15, <2>1, <1>g, <1>s DEF Terminated, Supervising
  <2> QED BY <1>15, <1>t, <2>1, <2>2, FaultTyped DEF Terminated, SupervisionTyped
<1> QED BY <1>1, <1>2, <1>3, <1>4, <1>5, <1>6, <1>7, <1>8, <1>9, <1>10, <1>11, <1>12, <1>13,
           <1>14, <1>15 DEF coordinate

(***************************************************************************)
(* A process that departs gives up its lock and its children.              *)
(***************************************************************************)
LEMMA DepartTyped ==
  ASSUME TypeOK, NEW p \in Procs, Depart(p)
  PROVE  /\ proc' \in [Procs -> Commands \cup {Idle}]
         /\ proc'[p] = Idle /\ \A q \in Procs : q # p => proc'[q] = proc[q]
         /\ lock' \in Procs \cup {NoProc}
         /\ group' \in [Ops -> Groups]
<1>1. /\ proc' \in [Procs -> Commands \cup {Idle}]
      /\ proc'[p] = Idle /\ \A q \in Procs : q # p => proc'[q] = proc[q]
      /\ lock' \in Procs \cup {NoProc}
  BY DEF TypeOK, Depart
<1>2. ASSUME NEW o \in Ops
      PROVE  [group[o] EXCEPT !.parent = NoProc, !.supervisor = Reaped(o)] \in Groups
  <2>1. group[o] \in Groups
    BY DEF TypeOK, SupervisionTypeOK
  <2> QED BY <2>1, SupervisorValues DEF Groups
<1>3. group \in [Ops -> Groups]
  BY DEF TypeOK, SupervisionTypeOK
<1>4. group' \in [Ops -> Groups]
  BY <1>2, <1>3 DEF Depart
<1> QED BY <1>1, <1>4

(***************************************************************************)
(* Entries are numbered from 1.                                            *)
(***************************************************************************)
LEMMA EntriesInterval == Entries = 1..Len(Desired) /\ Len(Desired) \in Nat \ {0}
BY CpuIdleAssumption DEF Entries

(***************************************************************************)
(* NextEntry advances within the entries, or leaves with the first one.    *)
(***************************************************************************)
LEMMA NextEntryMoves ==
  ASSUME TypeOK, NEW p \in Procs, proc[p] \in Commands, NEW again \in PCs, NEW next \in PCs,
         NextEntry(p, again, next)
  PROVE  /\ Moves(p, {again, next})
         /\ proc[p].entry = Len(Desired) => proc'[p].pc = next /\ proc'[p].entry = 1
         /\ proc[p].entry # Len(Desired) =>
              proc'[p].pc = again /\ proc'[p].entry = proc[p].entry + 1
<1> DEFINE e == IF proc[p].entry = Len(Desired) THEN 1 ELSE proc[p].entry + 1
           x == IF proc[p].entry = Len(Desired) THEN next ELSE again
           c == [proc[p] EXCEPT !.entry = e, !.pc = x]
<1>1. proc[p].entry \in Entries
  BY DEF Commands
<1>2. e \in Entries /\ x \in PCs
  BY <1>1, EntriesInterval
<1>3. c \in Commands /\ c.pc = x /\ c.entry = e /\ c.op = proc[p].op
  <2> HIDE DEF e, x
  <2> QED BY <1>2 DEF Commands
<1>4. proc' = [proc EXCEPT ![p] = c]
  BY DEF NextEntry, TypeOK
<1>5. Moves(p, {again, next}) /\ proc'[p] = c
  <2>1. x \in {again, next}
    OBVIOUS
  <2> HIDE DEF c, x
  <2> QED BY <1>3, <1>4, <2>1 DEF Moves, TypeOK
<1> QED BY <1>3, <1>5

(***************************************************************************)
(* Abort turns to the restoration.                                         *)
(***************************************************************************)
LEMMA AbortMoves ==
  ASSUME TypeOK, NEW p \in Procs, proc[p] \in Commands, Abort(p)
  PROVE  Moves(p, {"restore_check"})
<1> DEFINE c == [proc[p] EXCEPT !.command = "abort", !.pc = "restore_check", !.entry = 1]
<1>1. 1 \in Entries /\ "restore_check" \in PCs
  BY EntriesInterval DEF PCs
<1>2. c \in Commands /\ c.pc = "restore_check" /\ c.op = proc[p].op
  BY <1>1 DEF Commands
<1>3. proc' = [proc EXCEPT ![p] = c]
  BY DEF Abort, TypeOK
<1> HIDE DEF c
<1> QED BY <1>2, <1>3 DEF Moves, TypeOK

(***************************************************************************)
(* A transition of an existing journal changes its stage only.             *)
(***************************************************************************)
LEMMA StageTyped ==
  ASSUME TypeOK, NEW o \in Ops, Exists(o), NEW s \in Stages, Stage(o, s)
  PROVE  /\ journal' \in [Ops -> Journals \cup {NoJournal}]
         /\ journal'[o] \in Journals
         /\ journal'[o].stage = s
         /\ \A f \in {"request", "original", "boot", "outcome"} : journal'[o][f] = journal[o][f]
         /\ \A q \in Ops : q # o => journal'[q] = journal[q]
<1>1. journal[o] \in Journals
  BY DEF TypeOK, Exists
<1> QED BY <1>1 DEF TypeOK, Stage, Journals

-----------------------------------------------------------------------------
(* What keeps the journal invariant.                                       *)

\* The policy stays, and no journal appears, is finished or has its originals changed.
Quiet ==
  /\ UNCHANGED <<sysfs, boot, baseline, disturbed>>
  /\ \A o \in Ops :
       /\ (journal'[o] = NoJournal) <=> (journal[o] = NoJournal)
       /\ (journal'[o].stage = "Restored") <=> (journal[o].stage = "Restored")
       /\ journal'[o].boot = journal[o].boot
       /\ journal'[o].original = journal[o].original

(***************************************************************************)
(* Steps of the children leave it alone.                                   *)
(***************************************************************************)
LEMMA StutterKeeps ==
  ASSUME JournalInv, TypeOK, Quiet, proc' = proc, lock' = lock, journal' = journal
  PROVE  JournalInv'
BY DEF JournalInv, LockInv, PrepareInv, OwnInv, OneUnfinished, BootInv, PolicyInv, VerifyInv, Governs,
       Quiet, At, Op, Exists, Unfinished

(***************************************************************************)
(* So does a process that ends.                                            *)
(***************************************************************************)
LEMMA DepartKeeps ==
  ASSUME TypeOK, JournalInv, Quiet, NEW p \in Procs, proc[p] # Idle, Depart(p)
  PROVE  JournalInv'
<1>0. \A q \in Procs : proc'[q] = Idle
  BY DepartTyped DEF JournalInv, LockInv
<1>1. LockInv'
  BY <1>0 DEF LockInv
<1>2. PrepareInv' /\ OwnInv' /\ VerifyInv'
  BY <1>0 DEF PrepareInv, OwnInv, VerifyInv, At, Idle, Owning, Deciding, Supervising
<1>3. OneUnfinished' /\ BootInv' /\ PolicyInv'
  BY DEF JournalInv, OneUnfinished, BootInv, PolicyInv, Quiet, Exists, Unfinished, Governs
<1> QED BY <1>1, <1>2, <1>3 DEF JournalInv

\* What the final verification of p has seen when it arrives at its next step.
Verified(p) ==
  /\ proc'[p].pc = "restore_verify" =>
       \A e \in Entries : e < proc'[p].entry => disturbed \/ sysfs[e] = journal[Op(p)].original[e]
  /\ proc'[p].pc = "restored" => disturbed \/ sysfs = journal[Op(p)].original

(***************************************************************************)
(* And so does a process that goes on without touching the policy.         *)
(***************************************************************************)
LEMMA MoveKeeps ==
  ASSUME TypeOK, JournalInv, Quiet, NEW p \in Procs, proc[p] \in Commands, NEW to, Moves(p, to),
         lock' = lock,
         proc'[p].pc \in Owning => proc[p].pc \in Owning \/ Governs(Op(p)),
         proc'[p].pc \in Deciding =>
           proc[p].pc \in Deciding /\ journal'[Op(p)].outcome = journal[Op(p)].outcome,
         proc'[p].pc # "prepare",
         Verified(p)
  PROVE  JournalInv'
<1>0. proc[p] # Idle
  <2>1. proc[p].pc # "idle"
    BY DEF Commands, PCs
  <2> QED BY <2>1, NotIdleRecord
<1>1. LockInv' /\ \A q \in Procs : q # p => proc'[q] = Idle
  BY <1>0 DEF JournalInv, LockInv, Moves
<1>2. PrepareInv'
  BY <1>1 DEF PrepareInv, At, Idle
<1>o. Op(p) \in Ops
  BY DEF Op, Commands
<1>q. \A q \in Procs : q # p => proc'[q].pc = "idle"
  BY <1>1 DEF Idle
<1>p. Op(p)' = Op(p)
  BY DEF Moves, Op
<1>3. OwnInv'
  <2>1. \A q \in Procs : proc'[q].pc \in Owning => q = p
    BY <1>q DEF Owning, Deciding, Supervising
  <2>2. ASSUME proc'[p].pc \in Owning
        PROVE  Unfinished(Op(p)) /\ journal[Op(p)].boot = boot
    BY <2>2 DEF JournalInv, OwnInv, Governs
  <2>3. ASSUME proc'[p].pc \in Deciding
        PROVE  journal'[Op(p)].outcome = "none"
    BY <2>3 DEF JournalInv, OwnInv, Owning
  <2> HIDE DEF Op
  <2> QED BY <1>o, <1>p, <2>1, <2>2, <2>3 DEF OwnInv, Quiet, Exists, Unfinished
<1>4. VerifyInv'
  BY <1>q, <1>o, <1>p DEF VerifyInv, Verified, Quiet, At
<1>5. OneUnfinished' /\ BootInv' /\ PolicyInv'
  BY DEF JournalInv, OneUnfinished, BootInv, PolicyInv, Quiet, Exists, Unfinished, Governs
<1> QED BY <1>1, <1>2, <1>3, <1>4, <1>5 DEF JournalInv

-----------------------------------------------------------------------------
(* The steps that leave journal and policy alone.                          *)

\* The types that such a step has to keep, beside those of Supervision and of the processes.
QuietTyped ==
  /\ UNCHANGED <<sysfs, boot, baseline, disturbed>>
  /\ journal' \in [Ops -> Journals \cup {NoJournal}]
  /\ lock' \in Procs \cup {NoProc}
  /\ replies' \in [Ops -> SUBSET (Outcomes \cup {"none"})]
  /\ starts' \in [Ops -> Nat]

(***************************************************************************)
(* Types are kept by a quiet step.                                         *)
(***************************************************************************)
LEMMA QuietTypeOK ==
  ASSUME TypeOK, QuietTyped, SupervisionTyped, proc' \in [Procs -> Commands \cup {Idle}]
  PROVE  TypeOK'
BY DEF TypeOK, QuietTyped, SupervisionTyped, SupervisionTypeOK

(***************************************************************************)
(* Steps of the supervision.                                               *)
(***************************************************************************)
LEMMA SuperviseStep ==
  ASSUME IInv, NEW o \in Ops,
         \/ Supervise(Children(o) \/ ChildrenFail(o) \/ WorkloadExits(o))
         \/ \E p \in Procs : Supervise(coordinate(p, o)) /\ Op(p) = o
  PROVE  IInv'
<1>1. CASE Supervise(Children(o) \/ ChildrenFail(o) \/ WorkloadExits(o))
  <2>1. SupervisionTyped /\ proc' = proc
    BY <1>1, ChildrenTyped DEF Supervise, IInv
  <2>2. QuietTyped /\ Quiet /\ lock' = lock /\ journal' = journal
    BY <1>1 DEF Supervise, QuietTyped, Quiet, cpuidleVars, IInv, TypeOK
  <2> QED BY <2>1, <2>2, QuietTypeOK, StutterKeeps DEF IInv, TypeOK
<1>2. ASSUME NEW p \in Procs, Supervise(coordinate(p, o)), Op(p) = o
      PROVE  IInv'
  <2>1. /\ SupervisionTyped
        /\ proc[p] \in Commands /\ proc[p].pc \in Supervising
        /\ Moves(p, Supervising \cup {"reconcile", "finish"})
    BY <1>2, CoordinateTyped DEF Supervise, IInv
  <2>2. QuietTyped /\ Quiet /\ lock' = lock /\ journal' = journal
    BY <1>2 DEF Supervise, QuietTyped, Quiet, cpuidleVars, IInv, TypeOK
  <2>3. proc[p].pc \in Owning /\ proc[p].pc \in Deciding
    BY <2>1 DEF Owning, Deciding
  <2>4. Verified(p) /\ proc'[p].pc # "prepare"
    BY <2>1 DEF Moves, Verified, Supervising
  <2>5. JournalInv'
    BY <2>1, <2>2, <2>3, <2>4, MoveKeeps DEF IInv
  <2> QED BY <2>1, <2>2, <2>5, QuietTypeOK DEF IInv, Moves
<1> QED BY <1>1, <1>2

(***************************************************************************)
(* A process that ends, on its own or by a crash, without storing a        *)
(* journal.                                                                *)
(***************************************************************************)
LEMMA DepartStep ==
  ASSUME IInv, NEW p \in Procs,
         \/ StillActive(p) \/ Refuse(p) \/ replay_outcome(p) \/ Crash(p) \/ Cleanup(p)
  PROVE  IInv'
<1>1. Depart(p) /\ journal' = journal /\ Quiet
  BY DEF StillActive, Refuse, replay_outcome, Crash, Cleanup, Quiet, history
<1>2. /\ proc' \in [Procs -> Commands \cup {Idle}] /\ lock' \in Procs \cup {NoProc}
      /\ group' \in [Ops -> Groups]
  BY <1>1, DepartTyped DEF IInv
<1>3. (Op(p) \in Ops /\ proc[p].outcome \in Outcomes \cup {"none"}) \/ proc[p] = Idle
  <2>1. proc[p] \in Commands \cup {Idle}
    BY DEF IInv, TypeOK
  <2> QED BY <2>1 DEF Commands, Op
<1>4. ASSUME replay_outcome(p)
      PROVE  journal[Op(p)].outcome \in Outcomes \cup {"none"} /\ Op(p) \in Ops
  <2>1. Op(p) \in Ops
    BY <1>3, <1>4 DEF replay_outcome, At, Idle
  <2>2. journal[Op(p)] \in Journals
    BY <1>4, <2>1 DEF replay_outcome, Exists, IInv, TypeOK
  <2> QED BY <2>1, <2>2 DEF Journals
<1>5. replies' \in [Ops -> SUBSET (Outcomes \cup {"none"})] /\ starts' \in [Ops -> Nat]
  <2> replies \in [Ops -> SUBSET (Outcomes \cup {"none"})] /\ starts \in [Ops -> Nat]
    BY DEF IInv, TypeOK
  <2>1. CASE replay_outcome(p)
    <3>1. {journal[Op(p)].outcome} \ {"none"} \in SUBSET (Outcomes \cup {"none"}) /\ Op(p) \in Ops
      BY <2>1, <1>4
    <3> QED BY <2>1, <3>1 DEF replay_outcome
  <2>2. CASE Cleanup(p)
    <3>1. Op(p) \in Ops /\ proc[p].outcome \in Outcomes \cup {"none"}
      <4>1. proc[p].pc = "cleanup"
        BY <2>2 DEF Cleanup, At
      <4>2. proc[p] # Idle
        BY <4>1, NotIdleRecord
      <4> QED BY <1>3, <4>2
    <3> QED BY <2>2, <3>1 DEF Cleanup
  <2>3. CASE StillActive(p) \/ Refuse(p) \/ Crash(p)
    BY <2>3 DEF StillActive, Refuse, Crash, history
  <2> QED BY <2>1, <2>2, <2>3
<1>6. runtime' \in [Ops -> Runtimes] /\ active' \in Ops \cup {NoProc} /\ faults' \in 0..MaxFaults
  <2> /\ runtime \in [Ops -> Runtimes] /\ active \in Ops \cup {NoProc} /\ faults \in 0..MaxFaults
    BY DEF IInv, TypeOK, SupervisionTypeOK
  <2>1. CASE Cleanup(p)
    <3>1. NoRuntime \in Runtimes
      BY DEF NoRuntime, Runtimes
    <3> QED BY <2>1, <3>1 DEF Cleanup, cleanup_runtime
  <2>2. CASE Crash(p)
    BY <2>2, FaultTyped DEF Crash, IInv
  <2>3. CASE StillActive(p) \/ Refuse(p) \/ replay_outcome(p)
    BY <2>3 DEF StillActive, Refuse, replay_outcome
  <2> QED BY <2>1, <2>2, <2>3
<1>7. TypeOK'
  BY <1>1, <1>2, <1>5, <1>6, QuietTypeOK DEF QuietTyped, Quiet, SupervisionTyped, IInv, TypeOK
<1>8. proc[p] # Idle
  <2>1. proc[p].pc # "idle"
    BY DEF StillActive, Refuse, replay_outcome, Crash, Cleanup, At
  <2> QED BY <2>1, NotIdleRecord
<1> QED BY <1>1, <1>7, <1>8, DepartKeeps DEF IInv

-----------------------------------------------------------------------------
(* The steps of a command that keep the set of unfinished journals.        *)

\* What a step of CpuIdle alone leaves to the others.
Alone == UNCHANGED <<runtime, active, faults, replies, starts>>

(***************************************************************************)
(* A process moves on; it may store a journal.                             *)
(***************************************************************************)
LEMMA MoveStep ==
  ASSUME IInv, NEW p \in Procs, proc[p] \in Commands, NEW to, Moves(p, to),
         Alone, UNCHANGED <<group, lock>>, Quiet, journal' \in [Ops -> Journals \cup {NoJournal}],
         proc'[p].pc \in Owning => proc[p].pc \in Owning \/ Governs(Op(p)),
         proc'[p].pc \in Deciding =>
           proc[p].pc \in Deciding /\ journal'[Op(p)].outcome = journal[Op(p)].outcome,
         proc'[p].pc # "prepare",
         Verified(p)
  PROVE  IInv'
<1>1. JournalInv'
  BY MoveKeeps DEF IInv
<1>2. QuietTyped /\ SupervisionTyped
  BY DEF Quiet, QuietTyped, SupervisionTyped, Alone, IInv, TypeOK, SupervisionTypeOK
<1> QED BY <1>1, <1>2, QuietTypeOK DEF IInv, Moves

(***************************************************************************)
(* A process stores a journal that stays unfinished, and ends.             *)
(***************************************************************************)
LEMMA LeaveStep ==
  ASSUME IInv, NEW p \in Procs, proc[p] # Idle, Depart(p), Alone, Quiet,
         journal' \in [Ops -> Journals \cup {NoJournal}]
  PROVE  IInv'
<1>1. JournalInv'
  BY DepartKeeps DEF IInv
<1>2. QuietTyped /\ SupervisionTyped /\ proc' \in [Procs -> Commands \cup {Idle}]
  BY DepartTyped DEF Quiet, QuietTyped, SupervisionTyped, Alone, IInv, TypeOK, SupervisionTypeOK
<1> QED BY <1>1, <1>2, QuietTypeOK DEF IInv

(***************************************************************************)
(* The owner's journal is typed.                                           *)
(***************************************************************************)
LEMMA Owned ==
  ASSUME IInv, NEW p \in Procs, proc[p].pc \in Owning
  PROVE  /\ proc[p] \in Commands /\ Op(p) \in Ops
         /\ Exists(Op(p)) /\ journal[Op(p)] \in Journals /\ journal[Op(p)].stage # "Restored"
<1>1. proc[p] \in Commands
  BY NotIdle DEF IInv, Owning, Deciding, Supervising
<1>2. Op(p) \in Ops /\ Exists(Op(p)) /\ journal[Op(p)].stage # "Restored"
  BY <1>1 DEF IInv, JournalInv, OwnInv, Unfinished, Op, Commands
<1> QED BY <1>1, <1>2 DEF Exists, IInv, TypeOK

(***************************************************************************)
(* A transition to another stage than Restored is quiet.                   *)
(***************************************************************************)
LEMMA StageQuiet ==
  ASSUME IInv, NEW p \in Procs, proc[p].pc \in Owning, NEW s \in Stages \ {"Restored"},
         Stage(Op(p), s), UNCHANGED <<sysfs, boot, baseline, disturbed>>
  PROVE  /\ Quiet /\ journal' \in [Ops -> Journals \cup {NoJournal}]
         /\ journal'[Op(p)].outcome = journal[Op(p)].outcome
<1>1. Op(p) \in Ops /\ Exists(Op(p)) /\ journal[Op(p)].stage # "Restored"
  BY Owned
<1>2. /\ journal' \in [Ops -> Journals \cup {NoJournal}] /\ journal'[Op(p)] \in Journals
      /\ journal'[Op(p)].stage = s
      /\ \A f \in {"request", "original", "boot", "outcome"} :
           journal'[Op(p)][f] = journal[Op(p)][f]
      /\ \A q \in Ops : q # Op(p) => journal'[q] = journal[q]
  BY <1>1, StageTyped DEF IInv
<1>3. journal'[Op(p)] # NoJournal /\ s # "Restored"
  BY <1>2 DEF Journals, NoJournal
<1> HIDE DEF Op
<1>4. Quiet
  BY <1>1, <1>2, <1>3 DEF Quiet, Exists
<1> QED BY <1>2, <1>4

(***************************************************************************)
(* A step that changes no journal is quiet.                                *)
(***************************************************************************)
LEMMA SameQuiet ==
  ASSUME IInv, UNCHANGED <<sysfs, boot, journal, baseline, disturbed>>
  PROVE  Quiet /\ journal' \in [Ops -> Journals \cup {NoJournal}]
BY DEF Quiet, IInv, TypeOK

(***************************************************************************)
(* require_inactive, up to the check of the journals.                      *)
(***************************************************************************)
LEMMA RequireInactiveStep ==
  ASSUME IInv, NEW p \in Procs, require_inactive(p)
  PROVE  IInv'
<1>1. proc[p] \in Commands
  BY NotIdle DEF require_inactive, At, IInv
<1>2. Moves(p, {"accept", "select"})
  BY <1>1, GotoMoves DEF require_inactive, IInv, PCs, Moves
<1>3. Alone /\ UNCHANGED <<group, lock, sysfs, boot, journal, baseline, disturbed>>
  BY DEF require_inactive, Alone, supervisionVars, cpuidleVars, history
<1>4. /\ proc'[p].pc \notin Owning /\ proc'[p].pc \notin Deciding /\ proc'[p].pc # "prepare"
      /\ Verified(p)
  BY <1>2 DEF Moves, Owning, Deciding, Supervising, Verified
<1> QED BY <1>1, <1>2, <1>3, <1>4, SameQuiet, MoveStep

(***************************************************************************)
(* apply and its readback: the next entry, or the restoration.             *)
(***************************************************************************)
LEMMA ApplyStep ==
  ASSUME IInv, NEW p \in Procs, apply(p) \/ ApplyReadback(p)
  PROVE  IInv'
<1>1. proc[p] \in Commands /\ proc[p].pc \in Deciding
  BY NotIdle DEF apply, ApplyReadback, At, IInv, Deciding
<1>2. Moves(p, {"apply", "apply_write", "applied", "restore_check"})
  <2>0. TypeOK /\ {"apply", "apply_write", "applied"} \subseteq PCs
    BY DEF IInv, PCs
  <2>1. CASE Goto(p, "apply_write")
    BY <1>1, <2>0, <2>1, GotoMoves DEF Moves
  <2>2. CASE NextEntry(p, "apply", "applied")
    BY <1>1, <2>0, <2>2, NextEntryMoves DEF Moves
  <2>3. CASE Abort(p)
    BY <1>1, <2>0, <2>3, AbortMoves DEF Moves
  <2> QED BY <2>1, <2>2, <2>3 DEF apply, ApplyReadback
<1>3. Alone /\ UNCHANGED <<group, lock, sysfs, boot, journal, baseline, disturbed>>
  BY DEF apply, ApplyReadback, Alone, supervisionVars, cpuidleVars, history
<1>4. proc[p].pc \in Owning /\ proc'[p].pc # "prepare" /\ Verified(p)
  BY <1>1, <1>2 DEF Moves, Owning, Verified
<1> QED BY <1>1, <1>2, <1>3, <1>4, SameQuiet, MoveStep

(***************************************************************************)
(* Storing a stage on the way.                                             *)
(***************************************************************************)
LEMMA StoreStageStep ==
  ASSUME IInv, NEW p \in Procs, StoreApplied(p) \/ StoreWorkloadStarted(p) \/ StoreRestoring(p)
  PROVE  IInv'
<1>1. PICK from \in {"applied", "started", "restoring"}, s \in Stages \ {"Restored"},
           next \in {"started", "spawn", "restore"} :
        /\ StoreStage(p, from, s, next)
        /\ next \in Deciding => from \in Deciding
  BY DEF StoreApplied, StoreWorkloadStarted, StoreRestoring, Stages, Deciding, Supervising
<1>2. /\ proc[p].pc = from /\ proc[p].pc \in Owning
      /\ next \in PCs \ {"prepare", "restore_verify", "restored"}
  BY <1>1 DEF StoreStage, At, Owning, Deciding, PCs
<1>3. proc[p] \in Commands /\ Moves(p, {next})
  BY <1>1, <1>2, Owned, GotoMoves DEF StoreStage, IInv
<1>4. Alone /\ UNCHANGED <<group, lock, sysfs, boot, baseline, disturbed>>
  BY <1>1 DEF StoreStage, Alone, supervisionVars, history
<1>5. /\ Quiet /\ journal' \in [Ops -> Journals \cup {NoJournal}]
      /\ journal'[Op(p)].outcome = journal[Op(p)].outcome
  BY <1>1, <1>2, <1>4, StageQuiet DEF StoreStage
<1>6. proc'[p].pc = next
  BY <1>3 DEF Moves
<1>7. Verified(p)
  BY <1>2, <1>6 DEF Verified
<1> QED BY <1>1, <1>2, <1>3, <1>4, <1>5, <1>6, <1>7, MoveStep

(***************************************************************************)
(* Storing an outcome: after coordinate(), or by reconcile.                *)
(***************************************************************************)
LEMMA StoreOutcomeStep ==
  ASSUME IInv, NEW p \in Procs, StoreFinished(p) \/ reconcile_runtime_outcome(p)
  PROVE  IInv'
<1>1. proc[p].pc \in Owning
  BY DEF StoreFinished, reconcile_runtime_outcome, At, Owning, Deciding
<1>2. proc[p] \in Commands /\ Op(p) \in Ops /\ journal[Op(p)] \in Journals
      /\ journal[Op(p)].stage # "Restored"
  BY <1>1, Owned
<1>3. Moves(p, {"restore_check", "recoverable"})
  <2>1. {"restore_check", "recoverable"} \subseteq PCs /\ TypeOK
    BY DEF PCs, IInv
  <2>2. PICK x \in {"restore_check", "recoverable"} : Goto(p, x)
    BY DEF StoreFinished, reconcile_runtime_outcome
  <2> QED BY <1>2, <2>1, <2>2, GotoMoves DEF Moves
<1>4. Alone /\ UNCHANGED <<group, lock, sysfs, boot, baseline, disturbed>>
  BY DEF StoreFinished, reconcile_runtime_outcome, Alone, supervisionVars, history
<1>5. PICK j \in Journals :
        /\ journal' = [journal EXCEPT ![Op(p)] = j]
        /\ j.stage # "Restored" /\ j.boot = journal[Op(p)].boot
        /\ j.original = journal[Op(p)].original
  <2>t. journal \in [Ops -> Journals \cup {NoJournal}]
    BY DEF IInv, TypeOK
  <2>1. CASE StoreFinished(p)
    <3> DEFINE j == [journal[Op(p)] EXCEPT !.stage = "Draining", !.outcome = proc[p].outcome]
    <3>1. j \in Journals /\ j.stage = "Draining" /\ j.boot = journal[Op(p)].boot
          /\ j.original = journal[Op(p)].original
      BY <1>2 DEF Journals, Commands, Stages
    <3>2. journal' = [journal EXCEPT ![Op(p)] = j]
      BY <2>1, <2>t, <1>2 DEF StoreFinished
    <3> HIDE DEF j
    <3> QED BY <3>1, <3>2
  <2>2. CASE reconcile_runtime_outcome(p)
    <3> DEFINE v == IF journal[Op(p)].outcome = "none" THEN recover_outcome(Op(p))
                    ELSE journal[Op(p)].outcome
               j == [journal[Op(p)] EXCEPT !.outcome = v]
    <3>0. v \in Outcomes \cup {"none"}
      <4>1. runtime[Op(p)] \in Runtimes
        BY <1>2 DEF IInv, TypeOK, SupervisionTypeOK
      <4> QED BY <1>2, <4>1 DEF Journals, recover_outcome, Runtimes, Outcomes
    <3>1. j \in Journals /\ j.stage = journal[Op(p)].stage /\ j.boot = journal[Op(p)].boot
          /\ j.original = journal[Op(p)].original
      <4> HIDE DEF v
      <4> QED BY <1>2, <3>0 DEF Journals
    <3>2. journal' = [journal EXCEPT ![Op(p)] = j]
      BY <2>2, <2>t, <1>2 DEF reconcile_runtime_outcome
    <3> HIDE DEF j
    <3> QED BY <1>2, <3>1, <3>2
  <2> QED BY <2>1, <2>2
<1>6. Quiet /\ journal' \in [Ops -> Journals \cup {NoJournal}]
  <2>1. journal \in [Ops -> Journals \cup {NoJournal}]
    BY DEF IInv, TypeOK
  <2>2. j # NoJournal /\ journal[Op(p)] # NoJournal
    BY <1>2, <1>5 DEF Journals, NoJournal
  <2> HIDE DEF Op
  <2> QED BY <1>2, <1>4, <1>5, <2>1, <2>2 DEF Quiet
<1>7. /\ proc'[p].pc \notin Deciding /\ proc'[p].pc # "prepare" /\ Verified(p)
  BY <1>3 DEF Moves, Deciding, Supervising, Verified
<1> QED BY <1>1, <1>2, <1>3, <1>4, <1>6, <1>7, MoveStep

(***************************************************************************)
(* recover's choice of the journal, up to a boot that is not this one.     *)
(***************************************************************************)
LEMMA SelectStep ==
  ASSUME IInv, NEW p \in Procs, Select(p)
  PROVE  IInv'
<1>1. proc[p] \in Commands /\ proc[p] # Idle
  BY NotIdle, NotIdleRecord DEF Select, At, IInv
<1>2. Alone /\ UNCHANGED <<sysfs, boot, journal, baseline, disturbed>>
  BY DEF Select, Alone, history
<1>3. CASE Depart(p)
  BY <1>1, <1>2, <1>3, SameQuiet, LeaveStep
<1>4. CASE journal[Op(p)].stage = "Restored" /\ Goto(p, "cleanup") /\ UNCHANGED <<group, lock>>
  <2>1. Moves(p, {"cleanup"})
    BY <1>1, <1>4, GotoMoves DEF IInv, PCs
  <2>2. proc'[p].pc \notin Owning /\ proc'[p].pc \notin Deciding /\ proc'[p].pc # "prepare"
        /\ Verified(p)
    BY <2>1 DEF Moves, Owning, Deciding, Supervising, Verified
  <2> QED BY <1>1, <1>2, <1>4, <2>1, <2>2, SameQuiet, MoveStep
<1>5. CASE Governs(Op(p)) /\ Goto(p, "reconcile") /\ UNCHANGED <<group, lock>>
  <2>1. Moves(p, {"reconcile"})
    BY <1>1, <1>5, GotoMoves DEF IInv, PCs
  <2>2. proc'[p].pc \notin Deciding /\ proc'[p].pc # "prepare" /\ Verified(p)
    BY <2>1 DEF Moves, Deciding, Supervising, Verified
  <2> QED BY <1>1, <1>2, <1>5, <2>1, <2>2, SameQuiet, MoveStep
<1> QED BY <1>3, <1>4, <1>5 DEF Select, Governs

(***************************************************************************)
(* Recoverable, and RestoreConflict: the journal stays unfinished.         *)
(***************************************************************************)
LEMMA GiveUpStep ==
  ASSUME IInv, NEW p \in Procs, proc[p].pc \in Owning,
         Alone, UNCHANGED <<sysfs, boot, baseline, disturbed>>, Depart(p),
         \/ Stage(Op(p), "Recoverable") \/ Stage(Op(p), "RestoreConflict") \/ journal' = journal
  PROVE  IInv'
<1>1. proc[p] # Idle
  BY DEF Idle, Owning, Deciding, Supervising
<1>2. Quiet /\ journal' \in [Ops -> Journals \cup {NoJournal}]
  BY StageQuiet, SameQuiet DEF Stages
<1> QED BY <1>1, <1>2, LeaveStep

(***************************************************************************)
(* The entries of the restoration, but for the final verification.         *)
(***************************************************************************)
LEMMA RestoreStep ==
  ASSUME IInv, NEW p \in Procs, RestoreCheck(p) \/ Restore(p) \/ RestoreReadback(p)
  PROVE  IInv'
<1>1. proc[p].pc \in Owning
  BY DEF RestoreCheck, Restore, RestoreReadback, At, Owning
<1>2. proc[p] \in Commands /\ TypeOK
  BY <1>1, Owned DEF IInv
<1>3. Alone /\ UNCHANGED <<sysfs, boot, baseline, disturbed>>
  BY DEF RestoreCheck, Restore, RestoreReadback, Alone, history
<1>4. CASE Conflict(p) \/ (Depart(p) /\ journal' = journal)
  BY <1>1, <1>3, <1>4, GiveUpStep DEF Conflict
<1>5. ASSUME UNCHANGED <<group, lock, journal>>,
             \/ Goto(p, "restore_write")
             \/ NextEntry(p, "restore_check", "restoring")
             \/ NextEntry(p, "restore", "restore_verify")
      PROVE  IInv'
  <2>0. {"restore_check", "restoring", "restore", "restore_write", "restore_verify"} \subseteq PCs
    BY DEF PCs
  <2>1. /\ Moves(p, {"restore_check", "restoring", "restore", "restore_write", "restore_verify"})
        /\ proc'[p].pc = "restore_verify" => proc'[p].entry = 1
    <3>1. CASE Goto(p, "restore_write")
      BY <1>2, <2>0, <3>1, GotoMoves DEF Moves
    <3>2. CASE NextEntry(p, "restore_check", "restoring")
      BY <1>2, <2>0, <3>2, NextEntryMoves DEF Moves
    <3>3. CASE NextEntry(p, "restore", "restore_verify")
      BY <1>2, <2>0, <3>3, NextEntryMoves DEF Moves
    <3> QED BY <1>5, <3>1, <3>2, <3>3
  <2>2. proc'[p].pc \notin Deciding /\ proc'[p].pc # "prepare"
    BY <2>1 DEF Moves, Deciding, Supervising
  <2>3. Verified(p)
    BY <2>1, EntriesInterval DEF Moves, Verified
  <2> QED BY <1>1, <1>2, <1>3, <1>5, <2>1, <2>2, <2>3, SameQuiet, MoveStep
<1>6. CASE RestoreCheck(p)
  BY <1>4, <1>5, <1>6 DEF RestoreCheck
<1>7. CASE Restore(p)
  BY <1>4, <1>5, <1>7 DEF Restore
<1>8. CASE RestoreReadback(p)
  BY <1>4, <1>5, <1>8 DEF RestoreReadback
<1> QED BY <1>6, <1>7, <1>8

(***************************************************************************)
(* The final verification of an entry.                                     *)
(***************************************************************************)
LEMMA RestoreVerifyStep ==
  ASSUME IInv, NEW p \in Procs, RestoreVerify(p)
  PROVE  IInv'
<1>1. At(p, "restore_verify") /\ proc[p].pc \in Owning
  BY DEF RestoreVerify, At, Owning
<1>2. proc[p] \in Commands /\ TypeOK /\ Op(p) \in Ops /\ journal[Op(p)] \in Journals
  BY <1>1, Owned DEF IInv
<1>3. Alone /\ UNCHANGED <<sysfs, boot, baseline, disturbed>>
  BY DEF RestoreVerify, Alone, history
<1>4. CASE Conflict(p)
  BY <1>1, <1>3, <1>4, GiveUpStep DEF Conflict
<1>5. CASE /\ Current(p) = Original(p)
           /\ NextEntry(p, "restore_verify", "restored") /\ UNCHANGED <<group, lock, journal>>
  <2>1. /\ Moves(p, {"restore_verify", "restored"})
        /\ proc[p].entry = Len(Desired) => proc'[p].pc = "restored" /\ proc'[p].entry = 1
        /\ proc[p].entry # Len(Desired) =>
             proc'[p].pc = "restore_verify" /\ proc'[p].entry = proc[p].entry + 1
    BY <1>2, <1>5, NextEntryMoves DEF PCs
  <2>2. proc'[p].pc \notin Deciding /\ proc'[p].pc # "prepare"
    BY <2>1 DEF Moves, Deciding, Supervising
  <2>3. proc[p].entry \in 1..Len(Desired) /\ Entries = 1..Len(Desired) /\ Len(Desired) \in Nat
    BY <1>2, EntriesInterval DEF Commands
  <2>4. \A e \in Entries : e <= proc[p].entry => disturbed \/ sysfs[e] = journal[Op(p)].original[e]
    BY <1>1, <1>5, <2>3 DEF IInv, JournalInv, VerifyInv, Current, Original
  <2>5. sysfs \in Bits /\ journal[Op(p)].original \in Bits
    BY <1>2 DEF TypeOK, Journals
  <2>6. proc[p].entry = Len(Desired) => disturbed \/ sysfs = journal[Op(p)].original
    BY <2>3, <2>4, <2>5 DEF Bits
  <2>7. Verified(p)
    BY <2>1, <2>3, <2>4, <2>6 DEF Verified
  <2> QED BY <1>1, <1>2, <1>3, <1>5, <2>1, <2>2, <2>7, SameQuiet, MoveStep
<1> QED BY <1>4, <1>5 DEF RestoreVerify

-----------------------------------------------------------------------------
(* The steps that begin or finish a journal, or change the policy.         *)

(***************************************************************************)
(* Restored: every value is back, and no journal is unfinished any more.   *)
(***************************************************************************)
LEMMA StoreRestoredStep ==
  ASSUME IInv, NEW p \in Procs, StoreRestored(p)
  PROVE  IInv'
<1>1. At(p, "restored") /\ proc[p].pc \in Owning
  BY DEF StoreRestored, At, Owning
<1>2. /\ proc[p] \in Commands /\ proc[p] # Idle /\ TypeOK
      /\ Op(p) \in Ops /\ Exists(Op(p)) /\ Unfinished(Op(p)) /\ journal[Op(p)].boot = boot
  BY <1>1, Owned, NotIdleRecord DEF IInv, JournalInv, OwnInv, At
<1>3. Alone /\ UNCHANGED <<sysfs, boot, baseline, disturbed>>
  BY DEF StoreRestored, Alone, history
<1>4. /\ journal' \in [Ops -> Journals \cup {NoJournal}] /\ journal'[Op(p)] \in Journals
      /\ journal'[Op(p)].stage = "Restored" /\ journal'[Op(p)].boot = journal[Op(p)].boot
      /\ \A q \in Ops : q # Op(p) => journal'[q] = journal[q]
  BY <1>2, StageTyped DEF StoreRestored, Stages
<1>5. \A o \in Ops : ~Unfinished(o)'
  <2> HIDE DEF Op
  <2>1. \A o \in Ops : o # Op(p) => ~Unfinished(o)
    BY <1>2 DEF IInv, JournalInv, OneUnfinished
  <2> QED BY <1>2, <1>4, <2>1 DEF Unfinished, Exists
<1>6. OneUnfinished' /\ PolicyInv'
  <2>1. disturbed \/ sysfs = baseline
    BY <1>1, <1>2 DEF IInv, JournalInv, VerifyInv, PolicyInv, Governs
  <2> QED BY <1>3, <1>5, <2>1 DEF OneUnfinished, PolicyInv, Governs
<1>7. BootInv'
  <2> HIDE DEF Op
  <2> QED BY <1>2, <1>3, <1>4 DEF IInv, JournalInv, BootInv, Exists
<1>8. /\ proc' \in [Procs -> Commands \cup {Idle}] /\ lock' \in Procs \cup {NoProc}
      /\ group' \in [Ops -> Groups]
      /\ proc'[p] # Idle => lock' = lock
      /\ proc'[p] = Idle \/ proc'[p].pc = "cleanup"
      /\ \A q \in Procs : q # p => proc'[q] = proc[q]
  <2>1. CASE Depart(p)
    BY <1>2, <2>1, DepartTyped
  <2>2. CASE Goto(p, "cleanup") /\ UNCHANGED <<group, lock>>
    <3>1. Moves(p, {"cleanup"})
      BY <1>2, <2>2, GotoMoves DEF PCs
    <3> QED BY <1>2, <2>2, <3>1 DEF Moves, TypeOK, SupervisionTypeOK
  <2> QED BY <2>1, <2>2 DEF StoreRestored
<1>9. LockInv' /\ \A q \in Procs : proc'[q] = Idle \/ proc'[q].pc = "cleanup"
  BY <1>2, <1>8 DEF IInv, JournalInv, LockInv
<1>10. PrepareInv' /\ OwnInv' /\ VerifyInv'
  <2>1. \A q \in Procs : proc'[q].pc \in {"idle", "cleanup"}
    BY <1>9 DEF Idle
  <2> QED BY <2>1 DEF PrepareInv, OwnInv, VerifyInv, At, Owning, Deciding, Supervising
<1>11. TypeOK'
  BY <1>2, <1>3, <1>4, <1>8, QuietTypeOK
     DEF QuietTyped, SupervisionTyped, Alone, TypeOK, SupervisionTypeOK
<1> QED BY <1>6, <1>7, <1>9, <1>10, <1>11 DEF IInv, JournalInv

(***************************************************************************)
(* run and recover begin with the lock.                                    *)
(***************************************************************************)
LEMMA BeginStep ==
  ASSUME IInv, NEW p \in Procs, NEW c \in {"run", "recover"}, NEW o \in Ops, NEW r \in Requests,
         Begin(p, c, o, r)
  PROVE  IInv'
<1> DEFINE x == [command |-> c, pc |-> "require_inactive", op |-> o, request |-> r,
                 entry |-> 1, original |-> sysfs, outcome |-> "none"]
<1>1. TypeOK /\ JournalInv
  BY DEF IInv
<1>2. x \in Commands /\ x.pc = "require_inactive"
  <2>1. 1 \in Entries /\ "require_inactive" \in PCs /\ sysfs \in Bits
    BY <1>1, EntriesInterval DEF PCs, TypeOK
  <2> QED BY <2>1 DEF Commands
<1>3. proc' = [proc EXCEPT ![p] = x]
  BY DEF Begin
<1> HIDE DEF x
<1>4. lock = NoProc /\ lock' = p /\ Alone /\ UNCHANGED <<group, sysfs, boot, journal, baseline, disturbed>>
  BY DEF Begin, Alone, supervisionVars, history
<1>5. \A q \in Procs : proc[q] = Idle
  BY <1>1, <1>4, CpuIdleAssumption DEF JournalInv, LockInv
<1>6. /\ proc' \in [Procs -> Commands \cup {Idle}]
      /\ proc'[p] = x /\ \A q \in Procs : q # p => proc'[q] = Idle
  BY <1>1, <1>2, <1>3, <1>5 DEF TypeOK
<1>7. LockInv'
  BY <1>4, <1>6 DEF LockInv
<1>8. PrepareInv' /\ OwnInv' /\ VerifyInv'
  <2>1. \A q \in Procs : proc'[q].pc \in {"idle", "require_inactive"}
    BY <1>2, <1>6 DEF Idle
  <2> QED BY <2>1 DEF PrepareInv, OwnInv, VerifyInv, At, Owning, Deciding, Supervising
<1>9. OneUnfinished' /\ BootInv' /\ PolicyInv'
  BY <1>1, <1>4 DEF JournalInv, OneUnfinished, BootInv, PolicyInv, Exists, Unfinished, Governs
<1>10. TypeOK'
  BY <1>1, <1>4, <1>6, QuietTypeOK
     DEF QuietTyped, SupervisionTyped, Alone, TypeOK, SupervisionTypeOK
<1> QED BY <1>7, <1>8, <1>9, <1>10 DEF IInv, JournalInv

(***************************************************************************)
(* The checks before a journal: nothing is unfinished, and the policy is   *)
(* read.                                                                   *)
(***************************************************************************)
LEMMA AcceptStep ==
  ASSUME IInv, NEW p \in Procs, Accept(p)
  PROVE  IInv'
<1>1. TypeOK /\ JournalInv /\ proc[p] \in Commands /\ sysfs \in Bits
  BY NotIdle DEF IInv, Accept, At, TypeOK
<1> DEFINE x == [proc[p] EXCEPT !.pc = "prepare", !.original = sysfs]
<1>2. x \in Commands /\ x.pc = "prepare" /\ x.original = sysfs /\ x.op = proc[p].op
  BY <1>1 DEF Commands, PCs
<1>3. proc' = [proc EXCEPT ![p] = x]
  BY <1>1 DEF Accept, TypeOK
<1> HIDE DEF x
<1>4. Alone /\ UNCHANGED <<group, lock, sysfs, boot, journal, baseline, disturbed>>
  BY DEF Accept, Alone, supervisionVars, cpuidleVars, history
<1>5. proc[p] # Idle
  BY DEF Accept, At, Idle
<1>6. /\ proc' \in [Procs -> Commands \cup {Idle}]
      /\ proc'[p] = x /\ \A q \in Procs : q # p => proc'[q] = Idle
  BY <1>1, <1>2, <1>3, <1>5 DEF TypeOK, JournalInv, LockInv
<1>7. LockInv'
  BY <1>1, <1>4, <1>5, <1>6 DEF JournalInv, LockInv
<1>8. PrepareInv'
  BY <1>2, <1>4, <1>6 DEF Accept, PrepareInv, At, Op, Exists, Unfinished, Idle
<1>9. OwnInv' /\ VerifyInv'
  <2>1. \A q \in Procs : proc'[q].pc \in {"idle", "prepare"}
    BY <1>2, <1>6 DEF Idle
  <2> QED BY <2>1 DEF OwnInv, VerifyInv, At, Owning, Deciding, Supervising
<1>10. OneUnfinished' /\ BootInv' /\ PolicyInv'
  BY <1>1, <1>4 DEF JournalInv, OneUnfinished, BootInv, PolicyInv, Exists, Unfinished, Governs
<1>11. TypeOK'
  BY <1>1, <1>4, <1>6, QuietTypeOK
     DEF QuietTyped, SupervisionTyped, Alone, TypeOK, SupervisionTypeOK
<1> QED BY <1>7, <1>8, <1>9, <1>10, <1>11 DEF IInv, JournalInv

(***************************************************************************)
(* The journal is stored before the first mutation: it becomes the only    *)
(* unfinished one, and its original is the policy of the boot.             *)
(***************************************************************************)
LEMMA StorePreparedStep ==
  ASSUME IInv, NEW p \in Procs, StorePrepared(p)
  PROVE  IInv'
<1>1. TypeOK /\ JournalInv /\ At(p, "prepare") /\ proc[p] \in Commands /\ proc[p] # Idle
  BY NotIdle, NotIdleRecord DEF IInv, StorePrepared, At
<1>2. Op(p) \in Ops
  BY <1>1 DEF Op, Commands
<1> DEFINE j == [stage |-> "Prepared", request |-> proc[p].request, original |-> proc[p].original,
                 boot |-> boot, outcome |-> "none"]
<1>3. /\ j \in Journals /\ j # NoJournal /\ j.stage = "Prepared" /\ j.boot = boot
      /\ j.outcome = "none" /\ j.original = proc[p].original
  <2>1. boot \in 1..MaxBoots
    BY <1>1 DEF TypeOK
  <2> QED BY <1>1, <2>1 DEF Journals, Commands, Stages, NoJournal
<1>4. journal' = [journal EXCEPT ![Op(p)] = j]
  BY DEF StorePrepared
<1> HIDE DEF j
<1>5. /\ journal' \in [Ops -> Journals \cup {NoJournal}] /\ journal'[Op(p)] = j
      /\ \A q \in Ops : q # Op(p) => journal'[q] = journal[q]
  BY <1>1, <1>2, <1>3, <1>4 DEF TypeOK
<1>6. Moves(p, {"apply"})
  BY <1>1, GotoMoves DEF StorePrepared, PCs
<1>7. Alone /\ UNCHANGED <<group, lock, sysfs, boot, baseline, disturbed>>
  BY DEF StorePrepared, Alone, supervisionVars, history
<1>8. LockInv' /\ \A q \in Procs : q # p => proc'[q] = Idle
  BY <1>1, <1>6, <1>7 DEF JournalInv, LockInv, Moves
<1>9. \A o \in Ops : ~Unfinished(o)
  BY <1>1 DEF JournalInv, PrepareInv
<1>10. \A o \in Ops : Unfinished(o)' <=> o = Op(p)
  <2> HIDE DEF Op
  <2> QED BY <1>2, <1>3, <1>5, <1>9 DEF Unfinished, Exists
<1>11. PrepareInv' /\ VerifyInv'
  <2>1. \A q \in Procs : proc'[q].pc \in {"idle", "apply"}
    BY <1>6, <1>8 DEF Idle, Moves
  <2> QED BY <2>1 DEF PrepareInv, VerifyInv, At
<1>12. OwnInv'
  <2>1. Op(p)' = Op(p)
    BY <1>6 DEF Moves, Op
  <2>2. Unfinished(Op(p))' /\ (journal[Op(p)].boot = boot)' /\ (journal[Op(p)].outcome = "none")'
    <3> HIDE DEF Op
    <3> QED BY <1>2, <1>3, <1>5, <1>7, <1>10, <2>1
  <2> QED BY <1>8, <2>2 DEF OwnInv, Idle, Owning, Deciding, Supervising
<1>13. OneUnfinished'
  BY <1>10 DEF OneUnfinished
<1>14. BootInv'
  <2>1. boot \in Nat
    BY <1>1 DEF TypeOK
  <2> HIDE DEF Op
  <2>2. journal'[Op(p)].boot <= boot'
    BY <1>3, <1>5, <1>7, <2>1
  <2>3. \A o \in Ops : Exists(o) => journal[o].boot <= boot
    BY <1>1 DEF JournalInv, BootInv
  <2> QED BY <1>5, <1>7, <2>2, <2>3 DEF BootInv, Exists
<1>15. PolicyInv'
  <2>1. disturbed \/ (sysfs = baseline /\ proc[p].original = sysfs)
    BY <1>1, <1>9 DEF JournalInv, PolicyInv, PrepareInv, Governs
  <2> HIDE DEF Op
  <2>3. \A o \in Ops : Governs(o)' => o = Op(p)
    BY <1>10 DEF Governs
  <2>4. \E o \in Ops : Governs(o)'
    BY <1>2, <1>3, <1>5, <1>7, <1>10 DEF Governs
  <2> QED BY <1>2, <1>3, <1>5, <1>7, <2>1, <2>3, <2>4 DEF PolicyInv
<1>16. TypeOK'
  BY <1>1, <1>5, <1>6, <1>7, QuietTypeOK
     DEF QuietTyped, SupervisionTyped, Alone, TypeOK, SupervisionTypeOK, Moves
<1> QED BY <1>8, <1>11, <1>12, <1>13, <1>14, <1>15, <1>16 DEF IInv, JournalInv

(***************************************************************************)
(* Writing an entry: only the owner of a journal of this boot does it.     *)
(***************************************************************************)
LEMMA WriteStep ==
  ASSUME IInv, NEW p \in Procs, ApplyWrite(p) \/ RestoreWrite(p)
  PROVE  IInv'
<1>1. PICK from \in {"apply_write", "restore_write"}, next \in {"apply_readback", "restore_readback"},
           value \in {Wanted(p), Original(p)} :
        write_bit(p, from, value, next) /\ (next \in Deciding => from \in Deciding)
  BY DEF ApplyWrite, RestoreWrite, Deciding, Supervising
<1>2. proc[p].pc = from /\ proc[p].pc \in Owning /\ next \in PCs
  BY <1>1 DEF write_bit, At, Owning, Deciding, PCs
<1>3. /\ TypeOK /\ JournalInv /\ proc[p] \in Commands /\ proc[p] # Idle
      /\ Op(p) \in Ops /\ journal[Op(p)] \in Journals
  <2>1. proc[p].pc # "idle"
    BY <1>2
  <2> QED BY <1>2, <2>1, Owned, NotIdleRecord DEF IInv
<1>4. Moves(p, {next})
  BY <1>1, <1>2, <1>3, GotoMoves DEF write_bit
<1>5. Alone /\ UNCHANGED <<group, lock, boot, journal, baseline, disturbed>>
  BY <1>1 DEF write_bit, Alone, supervisionVars, history
<1>6. sysfs' \in Bits
  <2>1. proc[p].entry \in Entries /\ sysfs \in Bits /\ journal[Op(p)].original \in Bits
    BY <1>3 DEF TypeOK, Commands, Journals
  <2>2. Desired \in Bits
    BY CpuIdleAssumption DEF Bits, Entries
  <2>3. value \in {0, 1}
    BY <1>1, <2>1, <2>2 DEF Wanted, Original, Bits
  <2> QED BY <1>1, <2>1, <2>3 DEF write_bit, Bits
<1>7. LockInv' /\ \A q \in Procs : q # p => proc'[q] = Idle
  BY <1>3, <1>4, <1>5 DEF JournalInv, LockInv, Moves
<1>8. \A q \in Procs : proc'[q].pc \in {"idle", "apply_readback", "restore_readback"}
  BY <1>4, <1>7 DEF Idle, Moves
<1>9. PrepareInv' /\ VerifyInv'
  BY <1>8 DEF PrepareInv, VerifyInv, At
<1>10. OwnInv'
  <2>1. Op(p)' = Op(p) /\ proc'[p].pc = next
    BY <1>4 DEF Moves, Op
  <2>2. /\ Unfinished(Op(p)) /\ journal[Op(p)].boot = boot
        /\ next \in Deciding => journal[Op(p)].outcome = "none"
    BY <1>1, <1>2, <1>3 DEF JournalInv, OwnInv
  <2>3. \A q \in Procs : proc'[q].pc \in Owning => q = p
    BY <1>7 DEF Idle, Owning, Deciding, Supervising
  <2> QED BY <1>5, <2>1, <2>2, <2>3 DEF OwnInv, Exists, Unfinished
<1>11. Governs(Op(p))
  BY <1>2, <1>3 DEF JournalInv, OwnInv, Governs
<1>12. OneUnfinished' /\ BootInv' /\ PolicyInv'
  <2> HIDE DEF Op
  <2> QED BY <1>3, <1>5, <1>11
             DEF JournalInv, OneUnfinished, BootInv, PolicyInv, Exists, Unfinished, Governs
<1>13. TypeOK'
  BY <1>3, <1>4, <1>5, <1>6 DEF TypeOK, SupervisionTypeOK, Alone, Moves
<1> QED BY <1>7, <1>9, <1>10, <1>12, <1>13 DEF IInv, JournalInv

(***************************************************************************)
(* After somebody else's write nothing is claimed about the policy.        *)
(***************************************************************************)
LEMMA ExternalWriteStep ==
  ASSUME IInv, NEW e \in Entries, ExternalWrite(e)
  PROVE  IInv'
<1>1. TypeOK'
  <2>1. sysfs' \in Bits
    <3>1. sysfs \in Bits
      BY DEF IInv, TypeOK
    <3>2. 1 - sysfs[e] \in {0, 1}
      BY <3>1 DEF Bits
    <3> QED BY <3>1, <3>2 DEF ExternalWrite, Bits
  <2>2. faults' \in 0..MaxFaults
    BY FaultTyped DEF ExternalWrite, IInv
  <2> QED BY <2>1, <2>2 DEF ExternalWrite, supervisionVars, IInv, TypeOK, SupervisionTypeOK
<1>2. LockInv' /\ OwnInv' /\ OneUnfinished' /\ BootInv'
  BY DEF ExternalWrite, IInv, JournalInv, LockInv, OwnInv, OneUnfinished, BootInv, Exists, Unfinished, Op
<1>3. PrepareInv' /\ PolicyInv' /\ VerifyInv'
  BY DEF ExternalWrite, IInv, JournalInv, PrepareInv, PolicyInv, VerifyInv, Exists, Unfinished, Op, At
<1> QED BY <1>1, <1>2, <1>3 DEF IInv, JournalInv

(***************************************************************************)
(* No journal is of the boot that begins.                                  *)
(***************************************************************************)
LEMMA RebootStep ==
  ASSUME IInv, Reboot
  PROVE  IInv'
<1>1. boot \in 1..MaxBoots /\ boot' = boot + 1 /\ MaxBoots \in Nat /\ boot < MaxBoots
  BY CpuIdleAssumption DEF IInv, TypeOK, Reboot
<1>2. \A p \in Procs : proc'[p] = Idle
  BY DEF Reboot
<1>3. TypeOK'
  <2>1. NoGroup \in Groups
    BY DEF NoGroup, Groups
  <2>2. SupervisionTypeOK'
    BY <2>1 DEF Reboot, IInv, TypeOK, SupervisionTypeOK
  <2>3. boot' \in 1..MaxBoots /\ lock' \in Procs \cup {NoProc}
    BY <1>1 DEF Reboot
  <2>4. sysfs' \in Bits /\ baseline' \in Bits /\ proc' \in [Procs -> Commands \cup {Idle}]
    BY DEF Reboot
  <2>5. disturbed' \in BOOLEAN
    BY DEF Reboot
  <2> QED BY <2>2, <2>3, <2>4, <2>5 DEF Reboot, IInv, TypeOK
<1>4. LockInv' /\ PrepareInv' /\ OwnInv' /\ VerifyInv'
  <2>1. \A q \in Procs : proc'[q].pc = "idle"
    BY <1>2 DEF Idle
  <2>2. LockInv'
    BY <1>2 DEF LockInv
  <2>3. PrepareInv' /\ OwnInv' /\ VerifyInv'
    BY <2>1 DEF PrepareInv, OwnInv, VerifyInv, At, Owning, Deciding, Supervising
  <2> QED BY <2>2, <2>3
<1>5. \A o \in Ops : Exists(o) => journal[o].boot \in Nat /\ journal[o].boot <= boot
  <2>1. \A o \in Ops : Exists(o) => journal[o] \in Journals
    BY DEF IInv, TypeOK, Exists
  <2>2. \A o \in Ops : Exists(o) => journal[o].boot \in Nat
    BY <2>1 DEF Journals
  <2> QED BY <2>2 DEF IInv, JournalInv, BootInv
<1>6. OneUnfinished' /\ BootInv'
  <2>1. journal' = journal
    BY DEF Reboot
  <2>2. OneUnfinished'
    BY <2>1 DEF IInv, JournalInv, OneUnfinished, Exists, Unfinished
  <2>3. \A o \in Ops : Exists(o) => journal[o].boot <= boot'
    BY <1>1, <1>5
  <2> QED BY <2>1, <2>2, <2>3 DEF BootInv, Exists
<1>7. PolicyInv'
  <2>1. journal' = journal /\ sysfs' = baseline'
    BY DEF Reboot
  <2>2. \A o \in Ops : Exists(o) => journal[o].boot # boot'
    BY <1>1, <1>5
  <2>3. \A o \in Ops : ~Governs(o)'
    BY <2>1, <2>2 DEF Governs, Exists, Unfinished
  <2> QED BY <2>1, <2>3 DEF PolicyInv
<1> QED BY <1>3, <1>4, <1>6, <1>7 DEF IInv, JournalInv

-----------------------------------------------------------------------------
(* The invariant.                                                          *)

(***************************************************************************)
(* It holds of a host on which benchctl was never run.                     *)
(***************************************************************************)
LEMMA InitIInv ==
  ASSUME Init
  PROVE  IInv
<1>1. TypeOK
  <2>1. NoGroup \in Groups /\ NoRuntime \in Runtimes
    BY DEF NoGroup, Groups, NoRuntime, Runtimes
  <2>2. SupervisionTypeOK
    BY <2>1, CpuIdleAssumption DEF Init, SupervisionInit, SupervisionTypeOK
  <2>3. boot \in 1..MaxBoots /\ starts \in [Ops -> Nat]
    BY CpuIdleAssumption DEF Init
  <2>4. replies \in [Ops -> SUBSET (Outcomes \cup {"none"})]
    BY DEF Init
  <2>5. disturbed \in BOOLEAN
    BY DEF Init
  <2> QED BY <2>2, <2>3, <2>4, <2>5 DEF Init, TypeOK
<1>2. LockInv /\ PrepareInv /\ OwnInv /\ VerifyInv
  BY DEF Init, LockInv, PrepareInv, OwnInv, VerifyInv, At, Idle, Owning, Deciding, Supervising
<1>3. OneUnfinished /\ BootInv /\ PolicyInv
  BY DEF Init, OneUnfinished, BootInv, PolicyInv, Governs, Exists, Unfinished
<1> QED BY <1>1, <1>2, <1>3 DEF IInv, JournalInv

(***************************************************************************)
(* A command's own steps, one lemma for each group of them.                *)
(***************************************************************************)
LEMMA CommandStep ==
  ASSUME IInv, NEW p \in Procs, Command(p) \/ Refuse(p) \/ Crash(p)
  PROVE  IInv'
<1>1. CASE StillActive(p) \/ Refuse(p) \/ replay_outcome(p) \/ Crash(p) \/ Cleanup(p)
  BY <1>1, DepartStep
<1>2. CASE require_inactive(p) \/ Accept(p) \/ StorePrepared(p) \/ Select(p)
  BY <1>2, RequireInactiveStep, AcceptStep, StorePreparedStep, SelectStep
<1>3. CASE apply(p) \/ ApplyReadback(p) \/ ApplyWrite(p) \/ RestoreWrite(p)
  BY <1>3, ApplyStep, WriteStep
<1>4. CASE StoreApplied(p) \/ StoreWorkloadStarted(p) \/ StoreRestoring(p)
  BY <1>4, StoreStageStep
<1>5. CASE StoreFinished(p) \/ reconcile_runtime_outcome(p)
  BY <1>5, StoreOutcomeStep
<1>6. CASE StoreRecoverable(p)
  <2>1. /\ proc[p].pc \in Owning /\ Alone /\ UNCHANGED <<sysfs, boot, baseline, disturbed>>
        /\ Depart(p) /\ Stage(Op(p), "Recoverable")
    BY <1>6 DEF StoreRecoverable, At, Owning, Alone, history
  <2> QED BY <2>1, GiveUpStep
<1>7. CASE RestoreCheck(p) \/ Restore(p) \/ RestoreReadback(p)
  BY <1>7, RestoreStep
<1>8. CASE RestoreVerify(p) \/ StoreRestored(p)
  BY <1>8, RestoreVerifyStep, StoreRestoredStep
<1>9. CASE ~At(p, "idle") /\ Supervise(coordinate(p, Op(p)))
  <2>1. Op(p) \in Ops
    BY <1>9, NotIdle DEF At, IInv, Commands, Op
  <2> QED BY <1>9, <2>1, SuperviseStep
<1> QED BY <1>1, <1>2, <1>3, <1>4, <1>5, <1>6, <1>7, <1>8, <1>9 DEF Command

(***************************************************************************)
(* The invariant is inductive.                                             *)
(***************************************************************************)
THEOREM Invariance == Spec => []IInv
<1>1. Init => IInv
  BY InitIInv
<1>2. ASSUME IInv, [Next]_vars
      PROVE  IInv'
  <2>1. ASSUME NEW p \in Procs, NEW o \in Ops, recover(p, o) \/ \E r \in Requests : run(p, o, r)
        PROVE  IInv'
    BY <1>2, <2>1, BeginStep DEF recover, run
  <2>2. ASSUME NEW p \in Procs, Command(p) \/ Refuse(p) \/ Crash(p)
        PROVE  IInv'
    BY <1>2, <2>2, CommandStep
  <2>3. ASSUME NEW o \in Ops, Supervise(Children(o) \/ ChildrenFail(o) \/ WorkloadExits(o))
        PROVE  IInv'
    BY <1>2, <2>3, SuperviseStep
  <2>4. ASSUME NEW e \in Entries, ExternalWrite(e)
        PROVE  IInv'
    BY <1>2, <2>4, ExternalWriteStep
  <2>5. CASE Reboot
    BY <1>2, <2>5, RebootStep
  <2>6. CASE UNCHANGED vars
    <3>1. TypeOK'
      BY <1>2, <2>6
         DEF IInv, TypeOK, SupervisionTypeOK, vars, supervisionVars, cpuidleVars, history
    <3>2. Quiet /\ proc' = proc /\ lock' = lock /\ journal' = journal
      BY <2>6 DEF Quiet, vars, supervisionVars, cpuidleVars, history
    <3> QED BY <1>2, <3>1, <3>2, StutterKeeps DEF IInv
  <2> QED BY <1>2, <2>1, <2>2, <2>3, <2>4, <2>5, <2>6 DEF Next
<1> QED BY <1>1, <1>2, PTL DEF Spec

-----------------------------------------------------------------------------
(* What follows.                                                           *)

(***************************************************************************)
(* Every policy that is not the boot's is explained by a journal.          *)
(***************************************************************************)
THEOREM PoliciesAreJournaled == Spec => []PolicyIsJournaled
<1>1. IInv => PolicyIsJournaled
  BY DEF IInv, JournalInv, PolicyInv, PolicyIsJournaled, Governs
<1> QED BY <1>1, Invariance, PTL

(***************************************************************************)
(* Whatever was begun, retried or killed, one journal at most is           *)
(* unfinished: require_no_unfinished_journal, under the lock, is enough.   *)
(***************************************************************************)
THEOREM AtMostOneUnfinished == Spec => []OneUnfinished
<1>1. IInv => OneUnfinished
  BY DEF IInv, JournalInv
<1> QED BY <1>1, Invariance, PTL

\* What a step may do to a journal: its request, originals and boot are fixed, an outcome is
\* never replaced and Restored is final.
Forward ==
  \A o \in Ops : Exists(o) =>
    /\ \A f \in {"request", "original", "boot"} : journal'[o][f] = journal[o][f]
    /\ journal[o].outcome # "none" => journal'[o].outcome = journal[o].outcome
    /\ journal[o].stage = "Restored" => journal'[o].stage = "Restored"

(***************************************************************************)
(* Only its owner changes a journal, the owner's journal is not Restored,  *)
(* and the owner stores an outcome only where there is none.               *)
(***************************************************************************)
LEMMA ForwardStep ==
  ASSUME IInv, [Next]_vars
  PROVE  Forward
<1> USE DEF Forward
<1>1. CASE journal' = journal
  BY <1>1
<1>2. ASSUME NEW p \in Procs, StorePrepared(p)
      PROVE  Forward
  <2>1. ~Exists(Op(p))
    BY <1>2 DEF StorePrepared, IInv, JournalInv, PrepareInv
  <2>2. \A o \in Ops : o # Op(p) => journal'[o] = journal[o]
    BY <1>2 DEF StorePrepared, IInv, TypeOK
  <2> QED BY <2>1, <2>2
<1>3. ASSUME NEW p \in Procs, proc[p].pc \in Owning, NEW s \in Stages, Stage(Op(p), s)
      PROVE  Forward
  <2>1. Op(p) \in Ops /\ Exists(Op(p)) /\ journal[Op(p)].stage # "Restored"
    BY <1>3, Owned
  <2>2. /\ \A f \in {"request", "original", "boot", "outcome"} :
             journal'[Op(p)][f] = journal[Op(p)][f]
        /\ \A o \in Ops : o # Op(p) => journal'[o] = journal[o]
    BY <1>3, <2>1, StageTyped DEF IInv
  <2>h. journal'[Op(p)].outcome = journal[Op(p)].outcome
    BY <2>2
  <2> HIDE DEF Op
  <2> QED BY <2>1, <2>2, <2>h
<1>4. ASSUME NEW p \in Procs, StoreFinished(p) \/ reconcile_runtime_outcome(p)
      PROVE  Forward
  <2>1. proc[p].pc \in Owning
    BY <1>4 DEF StoreFinished, reconcile_runtime_outcome, At, Owning, Deciding
  <2>2. /\ Op(p) \in Ops /\ journal[Op(p)] \in Journals /\ journal[Op(p)].stage # "Restored"
    BY <2>1, Owned
  <2>t. journal \in [Ops -> Journals \cup {NoJournal}]
    BY DEF IInv, TypeOK
  <2>3. \A o \in Ops : o # Op(p) => journal'[o] = journal[o]
    BY <1>4, <2>2, <2>t DEF StoreFinished, reconcile_runtime_outcome
  <2>4. \A f \in {"request", "original", "boot"} : journal'[Op(p)][f] = journal[Op(p)][f]
    BY <1>4, <2>2, <2>t DEF StoreFinished, reconcile_runtime_outcome, Journals
  <2>5. journal[Op(p)].outcome # "none" => journal'[Op(p)].outcome = journal[Op(p)].outcome
    <3>1. CASE StoreFinished(p)
      BY <3>1 DEF StoreFinished, At, IInv, JournalInv, OwnInv, Owning, Deciding
    <3>2. CASE reconcile_runtime_outcome(p)
      BY <3>2, <2>2, <2>t DEF reconcile_runtime_outcome, Journals
    <3> QED BY <1>4, <3>1, <3>2
  <2> HIDE DEF Op
  <2> QED BY <2>2, <2>3, <2>4, <2>5
<1>5. ASSUME NEW p \in Procs, Command(p) \/ Refuse(p) \/ Crash(p)
      PROVE  Forward
  <2>1. CASE \/ StoreRecoverable(p) \/ StoreRestored(p) \/ StoreApplied(p)
             \/ StoreWorkloadStarted(p) \/ StoreRestoring(p)
    <3>1. proc[p].pc \in Owning /\ \E s \in Stages : Stage(Op(p), s)
      BY <2>1 DEF StoreRecoverable, StoreRestored, StoreApplied, StoreWorkloadStarted,
                  StoreRestoring, StoreStage, At, Owning, Deciding, Stages
    <3> QED BY <1>3, <3>1
  <2>2. CASE RestoreCheck(p) \/ Restore(p) \/ RestoreVerify(p)
    <3>1. proc[p].pc \in Owning
      BY <2>2 DEF RestoreCheck, Restore, RestoreVerify, At, Owning
    <3>2. CASE Conflict(p)
      BY <1>3, <3>1, <3>2 DEF Conflict, Stages
    <3>3. Conflict(p) \/ journal' = journal
      BY <2>2 DEF RestoreCheck, Restore, RestoreVerify
    <3> QED BY <1>1, <3>2, <3>3
  <2>3. CASE StorePrepared(p) \/ StoreFinished(p) \/ reconcile_runtime_outcome(p)
    BY <1>2, <1>4, <2>3
  <2>4. CASE StillActive(p) \/ Refuse(p) \/ replay_outcome(p) \/ Crash(p) \/ Cleanup(p) \/ Select(p)
    BY <1>1, <2>4 DEF StillActive, Refuse, replay_outcome, Crash, Cleanup, Select
  <2>5. CASE require_inactive(p) \/ Accept(p) \/ apply(p) \/ ApplyReadback(p) \/ RestoreReadback(p)
    BY <1>1, <2>5 DEF require_inactive, Accept, apply, ApplyReadback, RestoreReadback, cpuidleVars
  <2>6. CASE ApplyWrite(p) \/ RestoreWrite(p)
    BY <1>1, <2>6 DEF ApplyWrite, RestoreWrite, write_bit
  <2>7. CASE ~At(p, "idle") /\ Supervise(coordinate(p, Op(p)))
    BY <1>1, <2>7 DEF Supervise, cpuidleVars
  <2> HIDE DEF Forward
  <2> QED BY <1>5, <2>1, <2>2, <2>3, <2>4, <2>5, <2>6, <2>7 DEF Command
<1>6. ASSUME NEW p \in Procs, NEW o \in Ops, recover(p, o) \/ \E r \in Requests : run(p, o, r)
      PROVE  Forward
  BY <1>1, <1>6 DEF recover, run, Begin
<1>7. ASSUME NEW o \in Ops, Supervise(Children(o) \/ ChildrenFail(o) \/ WorkloadExits(o))
      PROVE  Forward
  BY <1>1, <1>7 DEF Supervise, cpuidleVars
<1>8. CASE Reboot \/ UNCHANGED vars \/ \E e \in Entries : ExternalWrite(e)
  BY <1>1, <1>8 DEF Reboot, vars, cpuidleVars, ExternalWrite
<1> HIDE DEF Forward
<1> QED BY <1>5, <1>6, <1>7, <1>8 DEF Next

(***************************************************************************)
(* A journal only moves forward, in every step.                            *)
(***************************************************************************)
THEOREM JournalsAreAppendOnly == Spec => JournalIsAppendOnly
<1>1. IInv /\ [Next]_vars => [Forward]_vars
  BY ForwardStep
<1> QED BY <1>1, Invariance, PTL DEF Spec, JournalIsAppendOnly, Forward
=============================================================================
