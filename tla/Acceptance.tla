----------------------------- MODULE Acceptance -----------------------------
(***************************************************************************)
(* From the checkout to the process that runs: `benchctl build` writes a   *)
(* receipt, `benchctl run` accepts it (tools/benchctl/src/receipt.rs and   *)
(* coordinate_run in cpuidle.rs), the workload supervisor executes the     *)
(* accepted snapshot, and the benchmark checks in official mode what it    *)
(* was given (benches/wake_latency.rs).                                    *)
(*                                                                         *)
(* Somebody edits and commits meanwhile, several builds share Cargo's      *)
(* output path and the receipt path, and a run may crash and be repeated   *)
(* under its operation ID.  Build and CpuIdle have the details of a build  *)
(* and of the rest of a run; here are the files that they exchange, for    *)
(* one operation ID.  A SHA-256 digest is the content itself.  As in       *)
(* Build, commits follow each other and only a commit cleans an edited     *)
(* tree.                                                                   *)
(***************************************************************************)
EXTENDS Naturals

CONSTANTS
  Builders,                   \* benchctl build processes
  NoFile,                     \* a file that does not exist
  MaxCommits, MaxBuilds, MaxRuns   \* bounds on commits, Cargo builds and run commands

ASSUME AcceptanceAssumption == {MaxCommits, MaxBuilds, MaxRuns} \subseteq Nat \ {0}

VARIABLES
  tree,                       \* the checkout: HEAD, and whether `git status` is empty
  executable,                 \* Cargo's output
  receipt,                    \* the file that --receipt names
  builder,                    \* the builds
  builds, runs,               \* how many Cargo builds and run commands there were
  coordinator,                \* the run command; the cpuidle lock admits one at a time
  accepted,                   \* <id>.receipt and <id>.executable in the state directory
  journal,                    \* <id>.json: the digests of the request, and its end
  workload                    \* the workload supervisor and the workload it starts

buildVars == <<tree, executable, receipt, builder, builds>>

runVars == <<runs, coordinator, accepted, journal, workload>>

vars == <<buildVars, runVars>>

Commits == 1..MaxCommits

Trees == [commit : Commits, clean : BOOLEAN]

\* What Cargo made: in which build, from which checkouts, stamped with which commit.
Executables == [build : 1..MaxBuilds, trees : SUBSET Trees, stamp : Commits]

Receipts == [build : 1..MaxBuilds, commit : Commits, executable : Executables]

Requests == [receipt : Receipts, executable : Executables]

OrNone(S) == S \cup {NoFile}

BuilderPCs == {"idle", "git_status", "cargo_bench", "cargo", "new", "recheck_commit",
               "recheck_status", "store"}

RunPCs == {"idle", "verify", "head", "status", "receipt_digest", "exists", "snapshot_receipt",
           "same_receipt", "snapshot_executable", "same_executable", "store", "coordinate"}

WorkloadPCs == {"off", "load_accepted", "open", "main", "smoke", "official", "gone"}

TypeOK ==
  /\ tree \in Trees
  /\ executable \in OrNone(Executables)
  /\ receipt \in OrNone(Receipts)
  /\ builder \in [Builders -> [pc : BuilderPCs, commit : Commits, build : 0..MaxBuilds,
                               trees : SUBSET Trees, receipt : OrNone(Receipts)]]
  /\ builds \in 0..MaxBuilds /\ runs \in 0..MaxRuns
  /\ coordinator \in [pc : RunPCs, receipt : OrNone(Receipts), hash : OrNone(Receipts)]
  /\ accepted \in [receipt : OrNone(Receipts), executable : OrNone(Executables)]
  /\ journal \in OrNone([request : Requests, restored : BOOLEAN])
  /\ workload \in [pc : WorkloadPCs, receipt : OrNone(Receipts), image : OrNone(Executables)]

NoBuild == [pc |-> "idle", commit |-> 1, build |-> 0, trees |-> {}, receipt |-> NoFile]

NoRun == [pc |-> "idle", receipt |-> NoFile, hash |-> NoFile]

NoWorkload == [pc |-> "off", receipt |-> NoFile, image |-> NoFile]

Init ==
  /\ tree = [commit |-> 1, clean |-> TRUE]
  /\ executable = NoFile
  /\ receipt = NoFile
  /\ builder = [b \in Builders |-> NoBuild]
  /\ builds = 0 /\ runs = 0
  /\ coordinator = NoRun
  /\ accepted = [receipt |-> NoFile, executable |-> NoFile]
  /\ journal = NoFile
  /\ workload = NoWorkload

-----------------------------------------------------------------------------
(* The checkout.                                                           *)

\* Builds that Cargo is working on see the change.
Checkout(t) ==
  /\ tree' = t
  /\ builder' = [b \in Builders |->
       IF builder[b].pc = "cargo" THEN [builder[b] EXCEPT !.trees = @ \cup {t}] ELSE builder[b]]
  /\ UNCHANGED <<executable, receipt, builds, runVars>>

Edit == tree.clean /\ Checkout([tree EXCEPT !.clean = FALSE])

Commit == /\ tree.commit < MaxCommits
          /\ Checkout([commit |-> tree.commit + 1, clean |-> TRUE])

-----------------------------------------------------------------------------
(* benchctl build cargo-bench, reduced to the files it reads and writes.   *)

BuildStep(b, from, next) ==
  /\ builder[b].pc = from
  /\ builder' = [builder EXCEPT ![b] = next]
  /\ UNCHANGED <<tree, runVars>>

BuildGoto(b, pc) == [builder[b] EXCEPT !.pc = pc]

rev_parse(b) ==
  /\ BuildStep(b, "idle", [BuildGoto(b, "git_status") EXCEPT !.commit = tree.commit])
  /\ UNCHANGED <<executable, receipt, builds>>

git_status(b) ==
  /\ BuildStep(b, "git_status", IF tree.clean THEN BuildGoto(b, "cargo_bench") ELSE NoBuild)
  /\ UNCHANGED <<executable, receipt, builds>>

\* Cargo holds a lock on its build directory until it exits (external).
CargoStarts(b) ==
  /\ builds < MaxBuilds
  /\ \A c \in Builders : builder[c].pc # "cargo"
  /\ builds' = builds + 1
  /\ BuildStep(b, "cargo_bench",
               [BuildGoto(b, "cargo") EXCEPT !.build = builds + 1, !.trees = {tree}])
  /\ UNCHANGED <<executable, receipt>>

CargoSucceeds(b) ==
  /\ BuildStep(b, "cargo", BuildGoto(b, "new"))
  /\ executable' = [build |-> builder[b].build, trees |-> builder[b].trees,
                    stamp |-> builder[b].commit]
  /\ UNCHANGED <<receipt, builds>>

\* Cargo fails, or the build is cancelled, out of time or killed at any other point.
BuildFails(b) ==
  /\ builder[b].pc # "idle"
  /\ BuildStep(b, builder[b].pc, NoBuild)
  /\ UNCHANGED <<executable, receipt, builds>>

\* BuildReceipt::new digests the file at Cargo's output path, whoever wrote it last.
BuildReceiptNew(b) ==
  /\ executable # NoFile
  /\ BuildStep(b, "new",
       [BuildGoto(b, "recheck_commit") EXCEPT !.receipt =
          [build |-> builder[b].build, commit |-> builder[b].commit, executable |-> executable]])
  /\ UNCHANGED <<executable, receipt, builds>>

\* verify_checkout_unchanged
RecheckCommit(b) ==
  /\ BuildStep(b, "recheck_commit",
       IF tree.commit = builder[b].commit THEN BuildGoto(b, "recheck_status") ELSE NoBuild)
  /\ UNCHANGED <<executable, receipt, builds>>

\* Mutant of RecheckStatus: the tree is not looked at again after the build.
RecheckStatusSkipped(b) ==
  /\ BuildStep(b, "recheck_status", BuildGoto(b, "store"))
  /\ UNCHANGED <<executable, receipt, builds>>

RecheckStatus(b) ==
  /\ BuildStep(b, "recheck_status", IF tree.clean THEN BuildGoto(b, "store") ELSE NoBuild)
  /\ UNCHANGED <<executable, receipt, builds>>

StoreReceipt(b) ==
  /\ BuildStep(b, "store", NoBuild)
  /\ receipt' = builder[b].receipt
  /\ UNCHANGED <<executable, builds>>

Build(b) ==
  \/ rev_parse(b) \/ git_status(b) \/ CargoStarts(b) \/ CargoSucceeds(b) \/ BuildFails(b)
  \/ BuildReceiptNew(b) \/ RecheckCommit(b) \/ RecheckStatus(b) \/ StoreReceipt(b)

-----------------------------------------------------------------------------
(* benchctl run: coordinate_run up to the journal, for one operation ID.   *)

RunStep(from, next) ==
  /\ coordinator.pc = from
  /\ coordinator' = next
  /\ UNCHANGED <<buildVars, runs>>

RunGoto(pc) == [coordinator EXCEPT !.pc = pc]

\* An early return with an error leaves the snapshots that were written.
Check(ok, from, to) ==
  /\ RunStep(from, IF ok THEN RunGoto(to) ELSE NoRun)
  /\ UNCHANGED <<accepted, journal, workload>>

\* The lock is taken, no workload group is active, and receipt::load reads the file.
Load ==
  /\ coordinator.pc = "idle"
  /\ workload.pc \in {"off", "gone"}
  /\ receipt # NoFile
  /\ runs < MaxRuns
  /\ runs' = runs + 1
  /\ coordinator' = [pc |-> "verify", receipt |-> receipt, hash |-> NoFile]
  /\ UNCHANGED <<buildVars, accepted, journal, workload>>

\* BuildReceipt::verify digests Cargo's output.
Verify == Check(executable = coordinator.receipt.executable, "verify", "head")

\* Mutant of VerifyHead: HEAD is not compared with the receipt.
VerifyHeadSkipped == Check(TRUE, "head", "status")

\* verify_checkout_as
VerifyHead == Check(tree.commit = coordinator.receipt.commit, "head", "status")

VerifyClean == Check(tree.clean, "status", "receipt_digest")

\* receipt_digest reads the file a second time.
ReceiptDigest ==
  /\ RunStep("receipt_digest", [coordinator EXCEPT !.pc = "exists", !.hash = receipt])
  /\ UNCHANGED <<accepted, journal, workload>>

\* Mutant of PathExists: an operation that needs recovery is accepted again.
AcceptsAgain ==
  Check(journal = NoFile \/ ~journal.restored, "exists", "snapshot_receipt")

\* An operation that has a journal is replayed, in conflict or to be recovered: the
\* command ends here.
PathExists == Check(journal = NoFile, "exists", "snapshot_receipt")

\* The third read, and the atomic write of what it found.
SnapshotReceipt ==
  /\ RunStep("snapshot_receipt", RunGoto("same_receipt"))
  /\ accepted' = [accepted EXCEPT !.receipt = receipt]
  /\ UNCHANGED <<journal, workload>>

\* "build receipt changed while it was being accepted"
SameReceipt ==
  Check(/\ accepted.receipt = coordinator.hash
        /\ executable = accepted.receipt.executable
        /\ accepted.receipt = coordinator.receipt, "same_receipt", "snapshot_executable")

SnapshotExecutable ==
  /\ RunStep("snapshot_executable", RunGoto("same_executable"))
  /\ accepted' = [accepted EXCEPT !.executable = executable]
  /\ UNCHANGED <<journal, workload>>

\* "benchmark executable changed while it was being accepted"
SameExecutable ==
  Check(accepted.executable = coordinator.receipt.executable, "same_executable", "store")

\* Journal::new and store_journal.
StoreJournal ==
  /\ RunStep("store", RunGoto("coordinate"))
  /\ journal' = [request |-> [receipt |-> coordinator.hash,
                              executable |-> coordinator.receipt.executable],
                 restored |-> FALSE]
  /\ UNCHANGED <<accepted, workload>>

\* The run ends with the policy restored, whether or not a workload was started.
Restored ==
  /\ workload.pc \in {"off", "gone"}
  /\ RunStep("coordinate", NoRun)
  /\ journal' = [journal EXCEPT !.restored = TRUE]
  /\ workload' = NoWorkload
  /\ UNCHANGED accepted

RunCrashes ==
  /\ coordinator.pc # "idle"
  /\ RunStep(coordinator.pc, NoRun)
  /\ UNCHANGED <<accepted, journal, workload>>

\* benchctl recover; the rest of it is in CpuIdle.
Recover ==
  /\ coordinator.pc = "idle" /\ workload.pc \in {"off", "gone"}
  /\ journal # NoFile /\ ~journal.restored
  /\ journal' = [journal EXCEPT !.restored = TRUE]
  /\ workload' = NoWorkload
  /\ UNCHANGED <<buildVars, runs, coordinator, accepted>>

Run ==
  \/ Load \/ Verify \/ VerifyHead \/ VerifyClean \/ ReceiptDigest \/ PathExists
  \/ SnapshotReceipt \/ SameReceipt \/ SnapshotExecutable \/ SameExecutable
  \/ StoreJournal \/ Restored \/ RunCrashes \/ Recover

-----------------------------------------------------------------------------
(* The workload supervisor, and the workload.                              *)

WorkloadStep(from, next) ==
  /\ workload.pc = from
  /\ workload' = next
  /\ UNCHANGED <<buildVars, runs, coordinator, accepted, journal>>

SupervisorGo ==
  /\ coordinator.pc = "coordinate"
  /\ WorkloadStep("off", [workload EXCEPT !.pc = "load_accepted"])

LoadAccepted ==
  WorkloadStep("load_accepted", [workload EXCEPT !.pc = "open", !.receipt = accepted.receipt])

\* open_verified_executable: the descriptor that was digested is the one executed.
OpenVerified ==
  /\ workload.pc = "open" /\ accepted.executable = workload.receipt.executable
  /\ WorkloadStep("open", [workload EXCEPT !.pc = "main", !.image = accepted.executable])

\* Smoke mode asks for no receipt.
Smoke == WorkloadStep("main", [workload EXCEPT !.pc = "smoke"])

\* Mutant of Official: the commit that was compiled in is not compared.
OfficialUnstamped ==
  /\ WorkloadStep("main", [workload EXCEPT !.pc = "official"])
  /\ workload.image = workload.receipt.executable

\* validate_official_receipt: the stamp and /proc/self/exe against the receipt.
Official ==
  /\ WorkloadStep("main", [workload EXCEPT !.pc = "official"])
  /\ workload.receipt.commit = workload.image.stamp
  /\ workload.image = workload.receipt.executable

\* It ends, fails one of the checks, or is killed by the crash guardian.
WorkloadEnds ==
  /\ workload.pc \notin {"off", "gone"}
  /\ WorkloadStep(workload.pc, [NoWorkload EXCEPT !.pc = "gone"])

Workload ==
  SupervisorGo \/ LoadAccepted \/ OpenVerified \/ Smoke \/ Official \/ WorkloadEnds

Next ==
  \/ Edit \/ Commit
  \/ \E b \in Builders : Build(b)
  \/ Run
  \/ Workload

Spec == Init /\ [][Next]_vars

-----------------------------------------------------------------------------
(* Properties.                                                             *)

\* The executable of r was compiled from the clean commit that r names, and nothing else.
Sound(r) == r.executable.trees = {[commit |-> r.commit, clean |-> TRUE]}

\* A stored receipt names the sources of its executable, whoever built at the same time
\* (verify_checkout_unchanged), unless HEAD has moved on since.
ReceiptNamesSources ==
  receipt # NoFile => tree.commit > receipt.commit \/ Sound(receipt)

\* From the journal on, the snapshots are the receipt and the executable of the request,
\* and they belong together: no rebuild, crash or repeated command changes what a
\* recorded operation ran (coordinate_run).
SnapshotIsFrozen ==
  journal # NoFile =>
    /\ accepted = journal.request
    /\ journal.request.executable = journal.request.receipt.executable

\* What is executed is the executable of the operation's receipt, compiled from the clean
\* commit the receipt names - here without an exception: a receipt that HEAD has moved
\* past was refused (verify_checkout_as, open_verified_executable).
WorkloadIsAsReceipted ==
  workload.image # NoFile =>
    /\ workload.image = journal.request.executable
    /\ workload.receipt = journal.request.receipt
    /\ Sound(workload.receipt)

\* An official measurement names in its stamp the commit it was compiled from, even if
\* another build replaced Cargo's output before the receipt was made
\* (validate_official_receipt).
OfficialIsStamped ==
  workload.pc = "official" => \A t \in workload.image.trees : t.commit = workload.image.stamp

=============================================================================
