-------------------------------- MODULE Build -------------------------------
(***************************************************************************)
(* tools/benchctl/src/build.rs: `benchctl build cargo-bench`.  The tool    *)
(* runs Cargo twice (metadata, then bench), each time below a build        *)
(* guardian that owns Cargo's process group, and stores a receipt naming   *)
(* the commit it found.  Somebody may edit the checkout at any time.       *)
(*                                                                         *)
(* Commits are numbered in the order they are made, and an edit is only    *)
(* followed by a commit: an edit that is undone is not seen by the code.   *)
(***************************************************************************)
EXTENDS PackageGraph

CONSTANTS
  MaxEdits,                   \* bound on changes of the checkout
  MaxFaults                   \* bound on crashes, starved limits and I/O errors

ASSUME BoundAssumption == MaxEdits \in Nat /\ MaxFaults \in Nat

VARIABLES
  tool,                       \* cargo_bench: the coordinator
  guardian,                   \* build_guardian of the current call
  cargo,                      \* the process group: leader, other members, exit status
  files,                      \* ready, drain, and the status record of the current call
  tree,                       \* the checkout
  receipt,                    \* the commits a stored receipt names
  validated,                  \* the checkouts that were read before `git rev-parse HEAD`
  sources,                    \* the checkouts Cargo may have read while it built
  edits, faults

vars == <<tool, guardian, cargo, files, tree, receipt, validated, sources, edits, faults>>

Commits == 1..(MaxEdits + 1)

Trees == [commit : Commits, clean : BOOLEAN]

Ended == {"ok", "error", "crashed"}

ToolPCs == {"validate", "guarded_cargo", "wait", "checks", "exited_early", "reap",
            "drain_reap", "graph", "rev_parse", "git_status", "artifact", "recheck_commit",
            "recheck_status", "store"} \cup Ended

GuardianPCs == {"off", "start", "spawn", "announce", "monitor", "termed", "killed",
                "record", "leaving", "ok", "err", "crashed"}

TypeOK ==
  /\ tool \in [pc : ToolPCs, call : 1..2, commit : SUBSET Commits, untracked : BOOLEAN]
  /\ guardian \in [pc : GuardianPCs, why : {"request", "drain", "cleanup"}]
  /\ cargo \in [leader : {"off", "running", "zombie", "gone"}, others : BOOLEAN,
                exit : {"none", "success", "failure"}]
  /\ files \in [names : SUBSET {"ready", "drain"}, status : {"none", "success", "failure"}]
  /\ tree \in Trees
  /\ receipt \subseteq Commits
  /\ validated \subseteq Trees /\ sources \subseteq Trees
  /\ edits \in 0..MaxEdits
  /\ faults \in 0..MaxFaults

NoGuardian == [pc |-> "off", why |-> "request"]

NoCargo == [leader |-> "off", others |-> FALSE, exit |-> "none"]

NoFiles == [names |-> {}, status |-> "none"]

Init ==
  /\ tool = [pc |-> "validate", call |-> 1, commit |-> {}, untracked |-> FALSE]
  /\ guardian = NoGuardian
  /\ cargo = NoCargo
  /\ files = NoFiles
  /\ tree \in [commit : {1}, clean : BOOLEAN]
  /\ receipt = {}
  /\ validated = {} /\ sources = {}
  /\ edits = 0
  /\ faults = 0

-----------------------------------------------------------------------------
Fault == faults < MaxFaults /\ faults' = faults + 1

Goto(pc) == tool' = [tool EXCEPT !.pc = pc]

GuardianGoto(pc) == guardian' = [guardian EXCEPT !.pc = pc]

Write(name) == files' = [files EXCEPT !.names = @ \cup {name}]

has_parent == tool.pc # "crashed"

GuardianExited == guardian.pc \in {"ok", "err", "crashed"}

GuardianAlive == guardian.pc # "off" /\ ~GuardianExited

CargoAlive == cargo.leader = "running" \/ cargo.others

-----------------------------------------------------------------------------
(* The guardian.                                                           *)

GuardianStarts ==
  /\ guardian.pc = "start"
  /\ GuardianGoto(IF has_parent THEN "spawn" ELSE "ok")
  /\ UNCHANGED <<tool, cargo, files, tree, receipt, validated, sources, edits, faults>>

\* The first call resolves the packages of the checkout, the second compiles it.
CargoReads(t) ==
  IF tool.call = 1 THEN validated' = validated \cup {t} /\ UNCHANGED sources
                   ELSE sources' = sources \cup {t} /\ UNCHANGED validated

SpawnCargo ==
  /\ guardian.pc = "spawn"
  /\ cargo' = [NoCargo EXCEPT !.leader = "running"]
  /\ CargoReads(tree)
  /\ GuardianGoto("announce")
  /\ UNCHANGED <<tool, files, tree, receipt, edits, faults>>

SpawnCargoFails ==
  /\ guardian.pc = "spawn"
  /\ Fault
  /\ GuardianGoto("err")
  /\ UNCHANGED <<tool, cargo, files, tree, receipt, validated, sources, edits>>

Announce ==
  /\ guardian.pc = "announce"
  /\ Write("ready")
  /\ GuardianGoto("monitor")
  /\ UNCHANGED <<tool, cargo, tree, receipt, validated, sources, edits, faults>>

\* Mutant of MonitorStops: only a request counts.
MonitorStopsOnRequest ==
  /\ guardian.pc = "monitor"
  /\ "drain" \in files.names
  /\ guardian' = [pc |-> "termed", why |-> "request"]
  /\ UNCHANGED <<tool, cargo, files, tree, receipt, validated, sources, edits, faults>>

\* A drain request or the end of the tool: terminate_cargo_group begins.
MonitorStops ==
  /\ guardian.pc = "monitor"
  /\ "drain" \in files.names \/ ~has_parent
  /\ guardian' = [pc |-> "termed", why |-> "request"]
  /\ UNCHANGED <<tool, cargo, files, tree, receipt, validated, sources, edits, faults>>

\* Mutant of MonitorReaps: the rest of the group is not drained.
MonitorReapsUndrained ==
  /\ guardian.pc = "monitor"
  /\ cargo.leader = "zombie"
  /\ cargo' = [cargo EXCEPT !.leader = "gone"]
  /\ guardian' = [pc |-> "record", why |-> "drain"]
  /\ UNCHANGED <<tool, files, tree, receipt, validated, sources, edits, faults>>

\* Cargo exited: it is reaped and drain_cargo_group begins.
MonitorReaps ==
  /\ guardian.pc = "monitor"
  /\ cargo.leader = "zombie"
  /\ cargo' = [cargo EXCEPT !.leader = "gone"]
  /\ guardian' = [pc |-> "termed", why |-> "drain"]
  /\ UNCHANGED <<tool, files, tree, receipt, validated, sources, edits, faults>>

\* The grace period is over: SIGKILL.
Kill ==
  /\ guardian.pc = "termed"
  /\ CargoAlive
  /\ GuardianGoto("killed")
  /\ UNCHANGED <<tool, cargo, files, tree, receipt, validated, sources, edits, faults>>

\* The leader is reaped and the group is empty.
Drained ==
  /\ guardian.pc \in {"termed", "killed"}
  /\ ~CargoAlive
  /\ cargo' = [cargo EXCEPT !.leader = "gone"]
  /\ GuardianGoto(CASE guardian.why = "request" -> "ok"
                    [] guardian.why = "drain"   -> "record"
                    [] guardian.why = "cleanup" -> "err")
  /\ UNCHANGED <<tool, files, tree, receipt, validated, sources, edits, faults>>

RecordStatus ==
  /\ guardian.pc = "record"
  /\ files' = [files EXCEPT !.status = cargo.exit]
  /\ GuardianGoto("leaving")
  /\ UNCHANGED <<tool, cargo, tree, receipt, validated, sources, edits, faults>>

GuardianLeaves ==
  /\ guardian.pc = "leaving"
  /\ GuardianGoto("ok")
  /\ UNCHANGED <<tool, cargo, files, tree, receipt, validated, sources, edits, faults>>

\* An I/O error, or a group that outlives the kill limit: clean up once, then fail.
GuardianErrs ==
  /\ \/ guardian.pc \in {"announce", "monitor", "record"}
     \/ guardian.pc = "killed" /\ CargoAlive
  /\ Fault
  /\ guardian' = [pc |-> IF guardian.why = "cleanup" THEN "err" ELSE "termed",
                  why |-> "cleanup"]
  /\ UNCHANGED <<tool, cargo, files, tree, receipt, validated, sources, edits>>

GuardianCrashes ==
  /\ GuardianAlive
  /\ Fault
  /\ GuardianGoto("crashed")
  /\ cargo' = [cargo EXCEPT !.leader = IF @ = "zombie" THEN "gone" ELSE @]
  /\ UNCHANGED <<tool, files, tree, receipt, validated, sources, edits>>

-----------------------------------------------------------------------------
(* Cargo: the leader, and the compilers and build scripts it starts.       *)

LeaderExits(exit) ==
  /\ cargo.leader = "running"
  /\ cargo' = [cargo EXCEPT !.leader = IF GuardianAlive THEN "zombie" ELSE "gone",
                            !.exit = exit]
  /\ UNCHANGED <<tool, guardian, files, tree, receipt, validated, sources, edits, faults>>

OthersStart ==
  /\ cargo.leader = "running"
  /\ guardian.pc # "killed"
  /\ ~cargo.others
  /\ cargo' = [cargo EXCEPT !.others = TRUE]
  /\ UNCHANGED <<tool, guardian, files, tree, receipt, validated, sources, edits, faults>>

OthersExit ==
  /\ cargo.others
  /\ cargo' = [cargo EXCEPT !.others = FALSE]
  /\ UNCHANGED <<tool, guardian, files, tree, receipt, validated, sources, edits, faults>>

Edit(commit) ==
  /\ edits < MaxEdits
  /\ edits' = edits + 1
  /\ tree' = IF commit THEN [commit |-> tree.commit + 1, clean |-> TRUE]
                       ELSE [tree EXCEPT !.clean = FALSE]
  /\ IF CargoAlive THEN CargoReads(tree') ELSE UNCHANGED <<validated, sources>>
  /\ UNCHANGED <<tool, guardian, cargo, files, receipt, faults>>
-----------------------------------------------------------------------------
(* The tool.                                                               *)

\* Environment, Cargo configuration and the pinned toolchain, before the first call.
Validate ==
  /\ tool.pc = "validate"
  /\ \E pc \in {"guarded_cargo", "error"} : Goto(pc)
  /\ validated' = {tree}
  /\ UNCHANGED <<guardian, cargo, files, tree, receipt, sources, edits, faults>>

\* Spawn a guardian with a fresh directory, unless cancelled or out of time.
guarded_cargo ==
  /\ tool.pc = "guarded_cargo"
  /\ \/ /\ guardian' = [NoGuardian EXCEPT !.pc = "start"]
        /\ cargo' = NoCargo
        /\ files' = NoFiles
        /\ Goto("wait")
     \/ Goto("error") /\ UNCHANGED <<guardian, cargo, files>>
  /\ UNCHANGED <<tree, receipt, validated, sources, edits, faults>>

\* wait_for_cargo, one round: the status record is looked for first.
wait_for_cargo ==
  /\ tool.pc = "wait"
  /\ Goto(IF files.status # "none" THEN "reap" ELSE "checks")
  /\ UNCHANGED <<guardian, cargo, files, tree, receipt, validated, sources, edits, faults>>

\* Mutant of request_build_drain: the guardian is not awaited.
request_build_drain_unawaited ==
  /\ tool.pc = "checks"
  /\ Write("drain")
  /\ Goto("error")
  /\ UNCHANGED <<guardian, cargo, tree, receipt, validated, sources, edits, faults>>

\* Mutant of request_build_drain: the guardian is awaited but not asked.
request_build_drain_unasked ==
  /\ tool.pc = "checks"
  /\ Goto("drain_reap")
  /\ UNCHANGED <<guardian, cargo, files, tree, receipt, validated, sources, edits, faults>>

\* Cancelled, out of time, or no ready file in time.
request_build_drain ==
  /\ tool.pc = "checks"
  /\ Write("drain")
  /\ Goto("drain_reap")
  /\ UNCHANGED <<guardian, cargo, tree, receipt, validated, sources, edits, faults>>

CheckGuardian ==
  /\ tool.pc = "checks"
  /\ Goto(IF GuardianExited THEN "exited_early" ELSE "wait")
  /\ UNCHANGED <<guardian, cargo, files, tree, receipt, validated, sources, edits, faults>>

\* "Cargo crash guardian exited before recording status"
ReportGuardian ==
  /\ tool.pc = "exited_early"
  /\ Goto("error")
  /\ UNCHANGED <<guardian, cargo, files, tree, receipt, validated, sources, edits, faults>>

\* The guardian is awaited without a limit; then cargo_bench goes on with a
\* successful status: from metadata to the checkout, from bench to the receipt.
require_guardian_success ==
  /\ tool.pc \in {"reap", "drain_reap"}
  /\ GuardianExited
  /\ IF tool.pc = "drain_reap" \/ guardian.pc # "ok" \/ files.status # "success"
     THEN Goto("error")
     ELSE Goto(IF tool.call = 1 THEN "graph" ELSE "artifact")
  /\ UNCHANGED <<guardian, cargo, files, tree, receipt, validated, sources, edits, faults>>

\* The workspace and the package that owns the benchmark are tracked, and so is every
\* local package of the resolved graph.
validate_reachable_local_graph ==
  /\ tool.pc = "graph"
  /\ \E graph \in Outcomes :
       tool' = [tool EXCEPT !.pc = IF graph.accepted THEN "rev_parse" ELSE "error",
                            !.untracked = ~graph.tracked]
  /\ validated' = validated \cup {tree}
  /\ UNCHANGED <<guardian, cargo, files, tree, receipt, sources, edits, faults>>

rev_parse ==
  /\ tool.pc = "rev_parse"
  /\ tool' = [tool EXCEPT !.pc = "git_status", !.commit = {tree.commit}]
  /\ UNCHANGED <<guardian, cargo, files, tree, receipt, validated, sources, edits, faults>>

git_status ==
  /\ tool.pc = "git_status"
  /\ tool' = IF tree.clean THEN [tool EXCEPT !.pc = "guarded_cargo", !.call = 2]
                           ELSE [tool EXCEPT !.pc = "error"]
  /\ UNCHANGED <<guardian, cargo, files, tree, receipt, validated, sources, edits, faults>>

\* Cargo reported one executable for the benchmark, of its package, and it is digested.
Artifact ==
  /\ tool.pc = "artifact"
  /\ \E pc \in {"recheck_commit", "error"} : Goto(pc)
  /\ UNCHANGED <<guardian, cargo, files, tree, receipt, validated, sources, edits, faults>>

\* Mutant of RecheckCommit: only the working tree is rechecked.
RecheckCommitSkipped ==
  /\ tool.pc = "recheck_commit"
  /\ Goto("recheck_status")
  /\ UNCHANGED <<guardian, cargo, files, tree, receipt, validated, sources, edits, faults>>

\* verify_checkout_unchanged
RecheckCommit ==
  /\ tool.pc = "recheck_commit"
  /\ Goto(IF {tree.commit} = tool.commit THEN "recheck_status" ELSE "error")
  /\ UNCHANGED <<guardian, cargo, files, tree, receipt, validated, sources, edits, faults>>

RecheckStatus ==
  /\ tool.pc = "recheck_status"
  /\ Goto(IF tree.clean THEN "store" ELSE "error")
  /\ UNCHANGED <<guardian, cargo, files, tree, receipt, validated, sources, edits, faults>>

Store ==
  /\ tool.pc = "store"
  /\ receipt' = tool.commit
  /\ Goto("ok")
  /\ UNCHANGED <<guardian, cargo, files, tree, validated, sources, edits, faults>>

ToolCrashes ==
  /\ tool.pc \notin Ended
  /\ Fault
  /\ Goto("crashed")
  /\ UNCHANGED <<guardian, cargo, files, tree, receipt, validated, sources, edits>>

-----------------------------------------------------------------------------
build_guardian ==
  \/ GuardianStarts \/ SpawnCargo \/ Announce \/ MonitorStops \/ MonitorReaps
  \/ Kill \/ Drained \/ RecordStatus \/ GuardianLeaves

cargo_bench ==
  \/ Validate \/ guarded_cargo \/ wait_for_cargo \/ request_build_drain \/ CheckGuardian
  \/ ReportGuardian \/ require_guardian_success \/ validate_reachable_local_graph
  \/ rev_parse \/ git_status \/ Artifact \/ RecheckCommit \/ RecheckStatus \/ Store

CargoExits == OthersExit \/ \E exit \in {"success", "failure"} : LeaderExits(exit)

Next ==
  \/ build_guardian \/ SpawnCargoFails \/ GuardianErrs \/ GuardianCrashes
  \/ cargo_bench \/ ToolCrashes
  \/ CargoExits \/ OthersStart
  \/ \E commit \in BOOLEAN : Edit(commit)

(***************************************************************************)
(* Both processes go on while they are alive, the build timeout passes and *)
(* is then seen in every round, and nothing survives SIGKILL for ever.     *)
(***************************************************************************)
Spec ==
  /\ Init /\ [][Next]_vars
  /\ WF_vars(build_guardian)
  /\ WF_vars(cargo_bench)
  /\ SF_vars(request_build_drain)
  /\ WF_vars(guardian.pc = "killed" /\ CargoExits)

-----------------------------------------------------------------------------
(* Properties.                                                             *)

GuardianLost == guardian.pc \in {"err", "crashed"}

(***************************************************************************)
(* A status record proves that Cargo and everything it started are gone,   *)
(* so that nothing still writes the artifact that is digested next.        *)
(***************************************************************************)
StatusMeansDrained == files.status # "none" => ~CargoAlive

(***************************************************************************)
(* When cargo_bench returns, with a receipt, cancelled or out of time, no  *)
(* member of Cargo's group is left, unless its guardian failed or died.    *)
(***************************************************************************)
NoCargoLeftBehind ==
  tool.pc \in {"ok", "error"} /\ CargoAlive => GuardianLost

(***************************************************************************)
(* HEAD was the commit of the receipt all the while Cargo built, and the   *)
(* tree was clean all the while unless HEAD has moved since: a commit made *)
(* between the checks before the build, or an edit, leaves no receipt.     *)
(***************************************************************************)
ReceiptNamesHead ==
  \A c \in receipt, s \in sources : s.commit = c /\ (s.clean \/ tree.commit # c)

(***************************************************************************)
(* A receipt is only stored for a benchmark all of whose local packages    *)
(* are tracked, however the resolved graph repeats and leads back to them. *)
(***************************************************************************)
ReceiptIsTracked == receipt # {} => ~tool.untracked

(***************************************************************************)
(* docs/benchctl.md:42: the packages are validated, and a change of the    *)
(* checkout during the build is detected: what was validated is the commit *)
(* that the receipt names.                                                 *)
(***************************************************************************)
ValidatedIsHead == \A c \in receipt, t \in validated : t.commit = c

(***************************************************************************)
(* Cargo does not outlive a tool that crashed, at whatever step of the     *)
(* guardian's start or drain, as long as the guardian itself survives.     *)
(***************************************************************************)
OrphanedCargoIsDrained ==
  tool.pc = "crashed" ~> (~CargoAlive /\ ~GuardianAlive) \/ GuardianLost

(***************************************************************************)
(* A build comes to an end although the tool awaits its guardian without a *)
(* limit and Cargo may hang or ignore SIGTERM.                             *)
(***************************************************************************)
BuildReturns == <>(tool.pc \in Ended)
=============================================================================
