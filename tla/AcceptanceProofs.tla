-------------------------- MODULE AcceptanceProofs --------------------------
(***************************************************************************)
(* Proofs about Acceptance for any number of builds, commits, builders and *)
(* repeated run commands.                                                  *)
(***************************************************************************)
EXTENDS Acceptance, TLAPS

\* t is an earlier checkout than now, or now, or the same commit before an edit.
Seen(t, now) ==
  \/ t.commit < now.commit
  \/ t.commit = now.commit /\ (now.clean => t.clean)

\* The checkouts of a compilation that began when HEAD was at c or after it.
ReadSince(trees, c, now) == trees # {} /\ \A t \in trees : c <= t.commit /\ Seen(t, now)

\* r names the sources of its executable, or HEAD has moved past it.
Current(r, now) == now.commit > r.commit \/ Sound(r)

\* A builder past Cargo has, at worst, the output of a build that Cargo's lock made start
\* after its own: of a checkout no older than the commit the builder read.
BuildInv ==
  /\ \A b \in Builders :
       /\ builder[b].commit <= tree.commit
       /\ builder[b].pc \notin {"idle", "git_status", "cargo_bench"} => builder[b].build > 0
       /\ builder[b].pc = "cargo" => ReadSince(builder[b].trees, builder[b].commit, tree)
       /\ builder[b].pc = "new" => /\ executable \in Executables
                                   /\ ReadSince(executable.trees, builder[b].commit, tree)
       /\ builder[b].pc \in {"recheck_commit", "recheck_status", "store"} =>
            /\ builder[b].receipt \in Receipts
            /\ builder[b].receipt.commit = builder[b].commit
            /\ ReadSince(builder[b].receipt.executable.trees, builder[b].commit, tree)
       /\ builder[b].pc = "store" => Current(builder[b].receipt, tree)
  /\ \A b, c \in Builders : builder[b].pc = "cargo" /\ builder[c].pc = "cargo" => b = c
  /\ \A b, c \in Builders : builder[b].pc = "new" /\ builder[c].pc = "cargo" =>
                              ReadSince(builder[c].trees, builder[b].commit, tree)

\* The journal's request is what was snapshotted, and its receipt is sound.
Recorded ==
  /\ journal \in [request : Requests, restored : BOOLEAN]
  /\ accepted = journal.request
  /\ journal.request.executable = journal.request.receipt.executable
  /\ Sound(journal.request.receipt)

RunInv ==
  /\ coordinator.pc # "idle" =>
       coordinator.receipt \in Receipts /\ Current(coordinator.receipt, tree)
  /\ coordinator.pc \notin {"idle", "verify", "head"} => Sound(coordinator.receipt)
  /\ coordinator.pc \in {"snapshot_receipt", "same_receipt", "snapshot_executable",
                         "same_executable", "store"} => journal = NoFile
  /\ coordinator.pc \in {"snapshot_executable", "same_executable", "store"} =>
       accepted.receipt = coordinator.receipt /\ coordinator.hash = coordinator.receipt
  /\ coordinator.pc = "store" => accepted.executable = coordinator.receipt.executable
  /\ coordinator.pc = "coordinate" => Recorded
  /\ journal # NoFile => Recorded

WorkloadInv ==
  /\ workload.pc \notin {"off", "gone"} =>
       coordinator.pc \in {"idle", "coordinate"} /\ Recorded
  /\ workload.pc \in {"open", "main", "smoke", "official"} =>
       workload.receipt = journal.request.receipt
  /\ IF workload.pc \in {"main", "smoke", "official"}
       THEN workload.image = journal.request.executable
       ELSE workload.image = NoFile
  /\ workload.pc = "official" => workload.image.stamp = workload.receipt.commit

IInv ==
  /\ TypeOK
  /\ BuildInv
  /\ ReceiptNamesSources
  /\ RunInv
  /\ WorkloadInv

-----------------------------------------------------------------------------
(* The checkout moves forward.                                             *)

\* What an edit or a commit may do to the checkout.
Forward ==
  /\ tree' \in Trees
  /\ \/ tree'.commit = tree.commit /\ ~tree'.clean
     \/ tree'.commit > tree.commit

LEMMA CommitsAreNumbers == \A t \in Trees : t.commit \in Nat /\ t.clean \in BOOLEAN
  BY AcceptanceAssumption DEF Trees, Commits

LEMMA EditIsForward == TypeOK /\ (Edit \/ Commit) => Forward
<1> SUFFICES ASSUME TypeOK, Edit \/ Commit PROVE Forward
  OBVIOUS
<1> USE AcceptanceAssumption DEF TypeOK, Forward, Checkout, Trees, Commits
<1>1. CASE Edit
  BY <1>1 DEF Edit
<1>2. CASE Commit
  BY <1>2 DEF Commit
<1>3. QED
  BY <1>1, <1>2

\* A checkout that was seen stays seen.
LEMMA SeenStays == ASSUME TypeOK, Forward \/ tree' = tree, NEW t \in Trees, Seen(t, tree)
                   PROVE  Seen(t, tree')
  BY CommitsAreNumbers DEF TypeOK, Forward, Seen

LEMMA ReadSinceStays ==
  ASSUME TypeOK, Forward \/ tree' = tree,
         NEW trees \in SUBSET Trees, NEW c \in Nat, ReadSince(trees, c, tree)
  PROVE  ReadSince(trees, c, tree')
  BY SeenStays DEF ReadSince

\* A receipt that is current stays so.
LEMMA CurrentStays ==
  ASSUME TypeOK, Forward \/ tree' = tree, NEW r \in Receipts, Current(r, tree)
  PROVE  Current(r, tree')
<1>1. r.commit \in Nat
  BY AcceptanceAssumption DEF Receipts, Commits
<1>2. QED
  BY <1>1, CommitsAreNumbers DEF TypeOK, Forward, Current

\* A build that finds the tree clean again has a sound receipt, unless HEAD has moved.
LEMMA CleanMeansSound ==
  ASSUME TypeOK, tree.clean, NEW r \in Receipts, r.commit <= tree.commit,
         ReadSince(r.executable.trees, r.commit, tree)
  PROVE  Current(r, tree)
<1>1. r.commit \in Nat /\ r.executable.trees \subseteq Trees
  BY AcceptanceAssumption DEF Receipts, Executables, Commits
<1>2. SUFFICES ASSUME tree.commit = r.commit PROVE Sound(r)
  BY <1>1, CommitsAreNumbers DEF Current, TypeOK
<1>3. ASSUME NEW t \in r.executable.trees PROVE t = [commit |-> r.commit, clean |-> TRUE]
  <2>1. t.commit = r.commit /\ t.clean
    BY <1>1, <1>2, <1>3, CommitsAreNumbers DEF ReadSince, Seen
  <2>2. QED
    BY <2>1, <1>1 DEF Trees
<1>4. QED
  BY <1>3 DEF Sound, ReadSince

-----------------------------------------------------------------------------
(* Type correctness.                                                       *)

LEMMA InitTyping == Init => TypeOK
  BY AcceptanceAssumption
  DEF Init, TypeOK, Trees, Commits, OrNone, NoBuild, NoRun, NoWorkload, BuilderPCs, RunPCs,
      WorkloadPCs

BuilderStates ==
  [pc : BuilderPCs, commit : Commits, build : 0..MaxBuilds, trees : SUBSET Trees,
   receipt : OrNone(Receipts)]

LEMMA BuildTyping ==
  ASSUME TypeOK, BuildInv, NEW b \in Builders, Build(b)
  PROVE  TypeOK'
<1> USE AcceptanceAssumption
    DEF TypeOK, OrNone, BuilderPCs, BuildStep, BuildGoto, NoBuild, runVars
<1>1. tree.commit \in Commits
  BY DEF Trees
<1>2. 1 \in Commits
  BY DEF Commits
<1>b. builder[b] \in BuilderStates
  BY DEF BuilderStates
<1>3. CASE rev_parse(b)
  <2>1. [BuildGoto(b, "git_status") EXCEPT !.commit = tree.commit] \in BuilderStates
    <3> HIDE DEF TypeOK
    <3> QED BY <1>1, <1>b DEF BuilderStates
  <2>2. QED
    BY <2>1, <1>3 DEF rev_parse, BuilderStates
<1>4. CASE git_status(b)
  BY <1>2, <1>4 DEF git_status
<1>5. CASE CargoStarts(b)
  <2>1. [BuildGoto(b, "cargo") EXCEPT !.build = builds + 1, !.trees = {tree}] \in BuilderStates
    <3>2. {tree} \in SUBSET Trees /\ builds + 1 \in 0..MaxBuilds /\ "cargo" \in BuilderPCs
      BY <1>5 DEF CargoStarts
    <3>3. QED
      BY <1>b, <3>2 DEF BuilderStates
  <2>2. builds' \in 0..MaxBuilds
    BY <1>5 DEF CargoStarts
  <2>3. QED
    BY <2>1, <2>2, <1>5 DEF CargoStarts, BuilderStates
<1>6. CASE CargoSucceeds(b)
  <2>1. executable' \in Executables
    BY <1>6 DEF CargoSucceeds, Executables, BuildInv
  <2>2. QED
    BY <2>1, <1>6 DEF CargoSucceeds
<1>7. CASE BuildFails(b)
  BY <1>2, <1>7 DEF BuildFails
<1>8. CASE BuildReceiptNew(b)
  <2>1. [build |-> builder[b].build, commit |-> builder[b].commit,
         executable |-> executable] \in Receipts
    BY <1>8 DEF BuildReceiptNew, Receipts, BuildInv
  <2>2. [BuildGoto(b, "recheck_commit") EXCEPT !.receipt =
          [build |-> builder[b].build, commit |-> builder[b].commit,
           executable |-> executable]] \in BuilderStates
    <3> DEFINE r == [build |-> builder[b].build, commit |-> builder[b].commit,
                     executable |-> executable]
    <3>1. r \in Receipts
      BY <2>1
    <3> HIDE DEF TypeOK, r
    <3>2. [BuildGoto(b, "recheck_commit") EXCEPT !.receipt = r] \in BuilderStates
      BY <3>1, <1>b DEF BuilderStates
    <3> QED BY <3>2 DEF r
  <2>3. QED
    BY <2>2, <1>8 DEF BuildReceiptNew, BuilderStates
<1>9. CASE RecheckCommit(b)
  BY <1>2, <1>9 DEF RecheckCommit
<1>10. CASE RecheckStatus(b)
  BY <1>2, <1>10 DEF RecheckStatus
<1>11. CASE StoreReceipt(b)
  BY <1>2, <1>11 DEF StoreReceipt
<1>12. QED
  BY <1>3, <1>4, <1>5, <1>6, <1>7, <1>8, <1>9, <1>10, <1>11 DEF Build

LEMMA RunTyping == ASSUME TypeOK, RunInv, Run PROVE TypeOK'
<1> USE AcceptanceAssumption
    DEF TypeOK, OrNone, RunPCs, WorkloadPCs, RunStep, RunGoto, Check, NoRun, NoWorkload, buildVars
<1>1. CASE Load
  BY <1>1 DEF Load
<1>2. CASE Verify \/ VerifyHead \/ VerifyClean \/ PathExists \/ SameReceipt \/ SameExecutable
  <2>1. CASE Verify
    BY <2>1 DEF Verify
  <2>2. CASE VerifyHead
    BY <2>2 DEF VerifyHead
  <2>3. CASE VerifyClean
    BY <2>3 DEF VerifyClean
  <2>4. CASE PathExists
    BY <2>4 DEF PathExists
  <2>5. CASE SameReceipt
    BY <2>5 DEF SameReceipt
  <2>6. CASE SameExecutable
    BY <2>6 DEF SameExecutable
  <2> QED BY <1>2, <2>1, <2>2, <2>3, <2>4, <2>5, <2>6
<1>3. CASE ReceiptDigest
  <2>1. coordinator' \in [pc : RunPCs, receipt : OrNone(Receipts), hash : OrNone(Receipts)]
    BY <1>3 DEF ReceiptDigest
  <2> QED BY <1>3, <2>1 DEF ReceiptDigest
<1>4. CASE SnapshotReceipt
  BY <1>4 DEF SnapshotReceipt
<1>5. CASE SnapshotExecutable
  BY <1>5 DEF SnapshotExecutable
<1>6. CASE StoreJournal
  <2>1. /\ coordinator.hash \in Receipts
        /\ coordinator.receipt.executable \in Executables
    BY <1>6 DEF StoreJournal, RunInv, Receipts
  <2>2. journal' \in [request : Requests, restored : BOOLEAN]
    BY <2>1, <1>6 DEF StoreJournal, Requests
  <2>3. QED
    BY <2>2, <1>6 DEF StoreJournal
<1>7. CASE Restored \/ Recover
  <2>1. journal \in [request : Requests, restored : BOOLEAN]
    BY <1>7 DEF Restored, Recover, RunInv, Recorded
  <2>2. journal' \in [request : Requests, restored : BOOLEAN]
    BY <2>1, <1>7 DEF Restored, Recover
  <2>3. QED
    BY <2>2, <1>7 DEF Restored, Recover
<1>8. CASE RunCrashes
  BY <1>8 DEF RunCrashes
<1>9. QED
  BY <1>1, <1>2, <1>3, <1>4, <1>5, <1>6, <1>7, <1>8 DEF Run

LEMMA WorkloadTyping == ASSUME TypeOK, Workload PROVE TypeOK'
<1> USE AcceptanceAssumption DEF TypeOK, OrNone, WorkloadPCs, WorkloadStep, NoWorkload, buildVars
<1>1. CASE SupervisorGo
  BY <1>1 DEF SupervisorGo
<1>2. CASE LoadAccepted
  BY <1>2 DEF LoadAccepted
<1>3. CASE OpenVerified
  BY <1>3 DEF OpenVerified
<1>4. CASE Smoke
  BY <1>4 DEF Smoke
<1>5. CASE Official
  BY <1>5 DEF Official
<1>6. CASE WorkloadEnds
  BY <1>6 DEF WorkloadEnds
<1> QED BY <1>1, <1>2, <1>3, <1>4, <1>5, <1>6 DEF Workload

LEMMA CheckoutTyping == ASSUME TypeOK, Edit \/ Commit PROVE TypeOK'
<1>1. tree' \in Trees
  BY EditIsForward DEF Forward
<1>2. \E t : t = tree' /\ Checkout(t)
  BY DEF Edit, Commit, Checkout
<1>3. QED
  BY <1>1, <1>2 DEF Checkout, TypeOK, runVars

-----------------------------------------------------------------------------
(* The builds.                                                             *)

LEMMA InitBuild == Init => BuildInv
  BY AcceptanceAssumption DEF Init, BuildInv, NoBuild

\* Sets of checkouts that the builds hold.
LEMMA BuildTypes ==
  ASSUME TypeOK, NEW b \in Builders
  PROVE  /\ builder[b].trees \in SUBSET Trees
         /\ builder[b].commit \in Nat
         /\ tree.commit \in Nat
         /\ builder[b].receipt \in Receipts =>
              builder[b].receipt.executable.trees \in SUBSET Trees
         /\ executable # NoFile => executable \in Executables
  BY AcceptanceAssumption, CommitsAreNumbers
  DEF TypeOK, Commits, Receipts, Executables, OrNone

LEMMA CheckoutBuild ==
  ASSUME TypeOK, BuildInv, Edit \/ Commit
  PROVE  BuildInv'
<1>1. Forward
  BY EditIsForward
<1>2. /\ tree' \in Trees /\ tree.commit \in Nat /\ tree'.commit \in Nat
      /\ tree.commit <= tree'.commit /\ Seen(tree', tree')
  BY <1>1, CommitsAreNumbers DEF Forward, TypeOK, Seen
<1>3. /\ executable' = executable
      /\ \A b \in Builders : builder'[b] =
           IF builder[b].pc = "cargo" THEN [builder[b] EXCEPT !.trees = @ \cup {tree'}]
                                      ELSE builder[b]
  BY DEF Edit, Commit, Checkout
<1>4. ASSUME NEW b \in Builders
      PROVE  /\ builder'[b].pc = builder[b].pc
             /\ builder'[b].commit = builder[b].commit
             /\ builder'[b].build = builder[b].build
             /\ builder'[b].receipt = builder[b].receipt
             /\ builder[b].pc = "cargo" => builder'[b].trees = builder[b].trees \cup {tree'}
  BY <1>3 DEF TypeOK
<1>5. ASSUME NEW trees \in SUBSET Trees, NEW c \in Nat, c <= tree.commit,
             ReadSince(trees, c, tree)
      PROVE  /\ ReadSince(trees, c, tree')
             /\ ReadSince(trees \cup {tree'}, c, tree')
  <2>1. ReadSince(trees, c, tree')
    BY <1>1, <1>5, ReadSinceStays
  <2>2. c <= tree'.commit
    BY <1>2, <1>5
  <2>3. QED
    BY <1>2, <2>1, <2>2 DEF ReadSince
<1>6. ASSUME NEW b \in Builders
      PROVE  /\ builder[b].commit \in Nat /\ builder[b].commit <= tree.commit
             /\ builder[b].trees \in SUBSET Trees
             /\ builder[b].commit <= tree'.commit
  BY <1>2, BuildTypes DEF BuildInv
<1>7. ASSUME NEW b \in Builders, builder[b].pc = "new"
      PROVE  ReadSince(executable.trees, builder[b].commit, tree')
  <2>1. executable.trees \in SUBSET Trees
    BY <1>7 DEF BuildInv, Executables
  <2>2. QED
    BY <1>5, <1>6, <1>7, <2>1 DEF BuildInv
<1>8. ASSUME NEW b \in Builders,
             builder[b].pc \in {"recheck_commit", "recheck_status", "store"}
      PROVE  /\ ReadSince(builder[b].receipt.executable.trees, builder[b].commit, tree')
             /\ builder[b].pc = "store" => Current(builder[b].receipt, tree')
  BY <1>1, <1>5, <1>6, <1>8, BuildTypes, CurrentStays DEF BuildInv
<1>9. \A b \in Builders : builder'[b].pc = "cargo" =>
                            ReadSince(builder'[b].trees, builder'[b].commit, tree')
  BY <1>4, <1>5, <1>6 DEF BuildInv
<1>10. \A b, c \in Builders : builder'[b].pc = "new" /\ builder'[c].pc = "cargo" =>
                              ReadSince(builder'[c].trees, builder'[b].commit, tree')
  BY <1>4, <1>5, <1>6 DEF BuildInv
<1>11. QED
  BY <1>3, <1>4, <1>6, <1>7, <1>8, <1>9, <1>10 DEF BuildInv

\* A step of one build that leaves the executable alone and does not start Cargo keeps the
\* invariant of the others; only its own new state is left to show.
LEMMA OneBuilderMoves ==
  ASSUME TypeOK, BuildInv, NEW b \in Builders,
         UNCHANGED <<tree, executable>>,
         NEW next \in BuilderStates, builder' = [builder EXCEPT ![b] = next],
         next.pc # "cargo", next.pc # "new", next.commit <= tree.commit,
         next.pc \in {"recheck_commit", "recheck_status", "store"} =>
           /\ next.build > 0
           /\ next.receipt \in Receipts
           /\ next.receipt.commit = next.commit
           /\ ReadSince(next.receipt.executable.trees, next.commit, tree),
         next.pc = "store" => Current(next.receipt, tree)
  PROVE  BuildInv'
<1>1. builder'[b] = next
  BY DEF TypeOK
<1>2. \A c \in Builders : c # b => builder'[c] = builder[c]
  BY DEF TypeOK
<1>3. next.pc \notin {"idle", "git_status", "cargo_bench"} =>
        next.pc \in {"recheck_commit", "recheck_status", "store"}
  BY DEF BuilderStates, BuilderPCs
<1>4. QED
  BY <1>1, <1>2, <1>3 DEF BuildInv

LEMMA BuildBuild ==
  ASSUME TypeOK, BuildInv, NEW b \in Builders, Build(b)
  PROVE  BuildInv'
<1> USE DEF BuildStep
<1>1. builder[b] \in BuilderStates
  BY DEF TypeOK, BuilderStates
<1>2. /\ tree \in Trees /\ tree.commit \in Commits /\ tree.commit \in Nat
      /\ builder[b].commit \in Nat
  BY BuildTypes DEF TypeOK, Trees
<1>3. /\ NoBuild \in BuilderStates
      /\ NoBuild.pc = "idle" /\ NoBuild.commit <= tree.commit
  BY <1>2, AcceptanceAssumption DEF NoBuild, BuilderStates, BuilderPCs, OrNone, Commits
<1>4. CASE rev_parse(b)
  <2> DEFINE next == [BuildGoto(b, "git_status") EXCEPT !.commit = tree.commit]
  <2>1. next \in BuilderStates /\ next.pc = "git_status" /\ next.commit = tree.commit
    BY <1>1, <1>2 DEF BuildGoto, BuilderStates, BuilderPCs
  <2>2. builder' = [builder EXCEPT ![b] = next] /\ UNCHANGED <<tree, executable>>
    BY <1>4 DEF rev_parse
  <2>3. next.commit <= tree.commit
    BY <1>2, <2>1
  <2> HIDE DEF next
  <2>4. QED
    BY <2>1, <2>2, <2>3, OneBuilderMoves
<1>5. CASE git_status(b)
  <2>1. BuildGoto(b, "cargo_bench") \in BuilderStates
        /\ BuildGoto(b, "cargo_bench").pc = "cargo_bench"
        /\ BuildGoto(b, "cargo_bench").commit <= tree.commit
    BY <1>1 DEF BuildGoto, BuilderStates, BuilderPCs, BuildInv
  <2>2. QED
    BY <1>3, <1>5, <2>1, OneBuilderMoves DEF git_status
<1>6. CASE BuildFails(b)
  BY <1>3, <1>6, OneBuilderMoves DEF BuildFails
<1>7. CASE BuildReceiptNew(b)
  <2> DEFINE r == [build |-> builder[b].build, commit |-> builder[b].commit,
                   executable |-> executable]
             next == [BuildGoto(b, "recheck_commit") EXCEPT !.receipt = r]
  <2>1. builder[b].pc = "new" /\ builder[b].build > 0 /\ executable \in Executables
        /\ ReadSince(executable.trees, builder[b].commit, tree)
        /\ builder[b].commit <= tree.commit
    BY <1>7 DEF BuildReceiptNew, BuildInv
  <2>2. r \in Receipts
    BY <1>1, <2>1, AcceptanceAssumption DEF Receipts, BuilderStates
  <2>3. next \in BuilderStates /\ next.pc = "recheck_commit" /\ next.commit = builder[b].commit
        /\ next.build = builder[b].build /\ next.receipt = r
    BY <1>1, <2>2 DEF BuildGoto, BuilderStates, BuilderPCs, OrNone
  <2>4. builder' = [builder EXCEPT ![b] = next] /\ UNCHANGED <<tree, executable>>
    BY <1>7 DEF BuildReceiptNew
  <2>5. r.commit = builder[b].commit /\ r.executable = executable
    OBVIOUS
  <2> HIDE DEF next, r
  <2>6. QED
    BY <2>1, <2>2, <2>3, <2>4, <2>5, OneBuilderMoves
<1>8. CASE RecheckCommit(b)
  <2>1. /\ BuildGoto(b, "recheck_status") \in BuilderStates
        /\ BuildGoto(b, "recheck_status").pc = "recheck_status"
        /\ BuildGoto(b, "recheck_status").commit = builder[b].commit
        /\ BuildGoto(b, "recheck_status").build = builder[b].build
        /\ BuildGoto(b, "recheck_status").receipt = builder[b].receipt
    BY <1>1 DEF BuildGoto, BuilderStates, BuilderPCs
  <2>2. builder[b].pc = "recheck_commit" /\ UNCHANGED <<tree, executable>>
    BY <1>8 DEF RecheckCommit
  <2>3. CASE builder' = [builder EXCEPT ![b] = NoBuild]
    BY <1>3, <2>2, <2>3, OneBuilderMoves
  <2>4. CASE builder' = [builder EXCEPT ![b] = BuildGoto(b, "recheck_status")]
    <3> HIDE DEF BuildGoto
    <3>1. QED
      BY <2>1, <2>2, <2>4, OneBuilderMoves DEF BuildInv
  <2>5. QED
    BY <1>8, <2>3, <2>4 DEF RecheckCommit
<1>9. CASE RecheckStatus(b)
  <2>1. /\ BuildGoto(b, "store") \in BuilderStates
        /\ BuildGoto(b, "store").pc = "store"
        /\ BuildGoto(b, "store").commit = builder[b].commit
        /\ BuildGoto(b, "store").build = builder[b].build
        /\ BuildGoto(b, "store").receipt = builder[b].receipt
    BY <1>1 DEF BuildGoto, BuilderStates, BuilderPCs
  <2>2. builder[b].pc = "recheck_status" /\ UNCHANGED <<tree, executable>>
    BY <1>9 DEF RecheckStatus
  <2>3. CASE ~tree.clean
    BY <1>3, <1>9, <2>2, <2>3, OneBuilderMoves DEF RecheckStatus
  <2>4. CASE tree.clean
    <3>1. Current(builder[b].receipt, tree)
      BY <2>2, <2>4, CleanMeansSound DEF BuildInv
    <3>2. builder' = [builder EXCEPT ![b] = BuildGoto(b, "store")]
      BY <1>9, <2>4 DEF RecheckStatus
    <3>3. QED
      BY <2>1, <2>2, <3>1, <3>2, OneBuilderMoves DEF BuildInv
  <2>5. QED
    BY <2>3, <2>4
<1>10. CASE StoreReceipt(b)
  BY <1>3, <1>10, OneBuilderMoves DEF StoreReceipt
<1>11. CASE CargoStarts(b)
  <2> DEFINE next == [BuildGoto(b, "cargo") EXCEPT !.build = builds + 1, !.trees = {tree}]
  <2>1. /\ next.pc = "cargo" /\ next.commit = builder[b].commit
        /\ next.build = builds + 1 /\ next.trees = {tree}
    BY <1>1 DEF BuildGoto, BuilderStates
  <2>2. /\ builder' = [builder EXCEPT ![b] = next] /\ UNCHANGED <<tree, executable>>
        /\ \A c \in Builders : builder[c].pc # "cargo"
    BY <1>11 DEF CargoStarts
  <2>3. \A c \in Builders : ReadSince({tree}, builder[c].commit, tree)
    BY DEF BuildInv, ReadSince, Seen
  <2>4. builder'[b] = next /\ \A c \in Builders : c # b => builder'[c] = builder[c]
    BY <2>2 DEF TypeOK
  <2>5. builds + 1 > 0
    BY AcceptanceAssumption DEF TypeOK
  <2> HIDE DEF next
  <2>6. \A c \in Builders : c # b => builder'[c].pc # "cargo"
    BY <2>2, <2>4
  <2>7. \A c \in Builders : builder'[c].commit = builder[c].commit
    BY <2>1, <2>4
  <2>8. \A c \in Builders : builder'[c].pc = "new" => ReadSince(builder'[b].trees, builder'[c].commit, tree')
    BY <2>1, <2>2, <2>3, <2>4, <2>7
  <2>9. builder'[b].build > 0 /\ ReadSince(builder'[b].trees, builder'[b].commit, tree')
    BY <2>1, <2>2, <2>3, <2>4, <2>5
  <2>10. QED
    BY <2>1, <2>2, <2>4, <2>6, <2>7, <2>8, <2>9 DEF BuildInv
<1>12. CASE CargoSucceeds(b)
  <2>1. builder[b].pc = "cargo" /\ tree' = tree
    BY <1>12 DEF CargoSucceeds
  <2>2. executable' \in Executables /\ executable'.trees = builder[b].trees
    BY <1>1, <1>12, <2>1, AcceptanceAssumption
    DEF CargoSucceeds, Executables, BuilderStates, BuildInv
  <2>3. /\ builder'[b].pc = "new" /\ builder'[b].commit = builder[b].commit
        /\ builder'[b].build = builder[b].build
        /\ \A c \in Builders : c # b => builder'[c] = builder[c]
    BY <1>1, <1>12 DEF CargoSucceeds, BuildGoto, BuilderStates, TypeOK
  <2>4. \A c \in Builders : c # b => builder[c].pc # "cargo"
    BY <2>1 DEF BuildInv
  <2>5. \A c \in Builders : builder'[c].pc = "new" =>
                              ReadSince(executable'.trees, builder'[c].commit, tree')
    BY <2>1, <2>2, <2>3 DEF BuildInv
  <2>6. QED
    BY <2>1, <2>2, <2>3, <2>4, <2>5 DEF BuildInv
<1>13. QED
  BY <1>4, <1>5, <1>6, <1>7, <1>8, <1>9, <1>10, <1>11, <1>12 DEF Build

\* A step outside the builds leaves what they hold alone.
LEMMA BuildUnchanged == BuildInv /\ UNCHANGED buildVars => BuildInv'
  BY DEF BuildInv, buildVars

LEMMA ReceiptStep ==
  ASSUME TypeOK, BuildInv, ReceiptNamesSources, [Next]_vars
  PROVE  ReceiptNamesSources'
<1>1. receipt # NoFile => receipt \in Receipts
  BY DEF TypeOK, OrNone
<1>2. CASE Edit \/ Commit
  <2>1. Forward /\ receipt' = receipt
    BY <1>2, EditIsForward DEF Edit, Commit, Checkout
  <2>2. QED
    BY <1>1, <2>1, CurrentStays DEF ReceiptNamesSources, Current
<1>3. ASSUME NEW b \in Builders, StoreReceipt(b) PROVE ReceiptNamesSources'
  BY <1>3 DEF StoreReceipt, BuildStep, BuildInv, Current, ReceiptNamesSources
<1>4. CASE UNCHANGED <<tree, receipt>>
  BY <1>4 DEF ReceiptNamesSources
<1>5. ASSUME NEW b \in Builders, Build(b), ~StoreReceipt(b) PROVE UNCHANGED <<tree, receipt>>
  BY <1>5 DEF Build, rev_parse, git_status, CargoStarts, CargoSucceeds, BuildFails,
              BuildReceiptNew, RecheckCommit, RecheckStatus, BuildStep
<1>6. CASE Run \/ Workload \/ UNCHANGED vars
  BY <1>4, <1>6
  DEF Run, Load, Verify, VerifyHead, VerifyClean, ReceiptDigest, PathExists, SnapshotReceipt,
      SameReceipt, SnapshotExecutable, SameExecutable, StoreJournal, Restored, RunCrashes,
      Recover, Check, RunStep, Workload, SupervisorGo, LoadAccepted, OpenVerified, Smoke,
      Official, WorkloadEnds, WorkloadStep, buildVars, vars
<1>7. QED
  BY <1>2, <1>3, <1>4, <1>5, <1>6 DEF Next

-----------------------------------------------------------------------------
(* The run command.                                                        *)

LEMMA InitRun == Init => ReceiptNamesSources /\ RunInv /\ WorkloadInv
  BY DEF Init, ReceiptNamesSources, RunInv, WorkloadInv, NoRun, NoWorkload

\* The builds and the checkout take nothing from a run: its receipt stays current.
LEMMA RunUnchanged ==
  ASSUME TypeOK, RunInv, Forward \/ tree' = tree, UNCHANGED <<coordinator, accepted, journal>>
  PROVE  RunInv'
<1>1. coordinator.pc # "idle" =>
        coordinator.receipt \in Receipts /\ Current(coordinator.receipt, tree')
  BY CurrentStays DEF RunInv
<1>2. QED
  BY <1>1 DEF RunInv, Recorded

LEMMA RunRun == ASSUME TypeOK, ReceiptNamesSources, RunInv, Run PROVE RunInv'
<1> USE DEF RunStep, RunGoto, NoRun, buildVars
<1>1. /\ coordinator \in [pc : RunPCs, receipt : OrNone(Receipts), hash : OrNone(Receipts)]
      /\ accepted \in [receipt : OrNone(Receipts), executable : OrNone(Executables)]
  BY DEF TypeOK
<1>2. receipt # NoFile => receipt \in Receipts /\ Current(receipt, tree)
  BY DEF TypeOK, OrNone, ReceiptNamesSources, Current
<1>3. CASE Load
  BY <1>2, <1>3 DEF Load, RunInv, Recorded
<1>4. CASE Verify \/ VerifyClean \/ PathExists
  BY <1>1, <1>4 DEF Verify, VerifyClean, PathExists, Check, RunInv, Recorded
<1>5. CASE VerifyHead
  <2>1. coordinator.pc = "head" /\ tree' = tree /\ UNCHANGED <<accepted, journal>>
    BY <1>5 DEF VerifyHead, Check
  <2>2. CASE tree.commit = coordinator.receipt.commit
    <3>1. Sound(coordinator.receipt)
      BY <2>1, <2>2, CommitsAreNumbers DEF RunInv, Current, TypeOK
    <3>2. QED
      BY <1>1, <1>5, <2>1, <2>2, <3>1 DEF VerifyHead, Check, RunInv, Recorded
  <2>3. CASE tree.commit # coordinator.receipt.commit
    BY <1>1, <1>5, <2>1, <2>3 DEF VerifyHead, Check, RunInv, Recorded
  <2>4. QED
    BY <2>2, <2>3
<1>6. CASE ReceiptDigest
  BY <1>1, <1>6 DEF ReceiptDigest, RunInv, Recorded
<1>7. CASE SnapshotReceipt
  BY <1>1, <1>7 DEF SnapshotReceipt, RunInv, Recorded
<1>8. CASE SameReceipt
  BY <1>1, <1>8 DEF SameReceipt, Check, RunInv, Recorded
<1>9. CASE SnapshotExecutable
  BY <1>1, <1>9 DEF SnapshotExecutable, RunInv, Recorded
<1>10. CASE SameExecutable
  BY <1>1, <1>10 DEF SameExecutable, Check, RunInv, Recorded
<1>11. CASE StoreJournal
  <2>1. /\ coordinator.pc = "store" /\ coordinator.receipt \in Receipts
        /\ Sound(coordinator.receipt) /\ Current(coordinator.receipt, tree)
        /\ accepted.receipt = coordinator.receipt /\ coordinator.hash = coordinator.receipt
        /\ accepted.executable = coordinator.receipt.executable
    BY <1>11 DEF StoreJournal, RunInv
  <2>2. coordinator.receipt.executable \in Executables
    BY <2>1 DEF Receipts
  <2>3. accepted = [receipt |-> coordinator.receipt, executable |-> coordinator.receipt.executable]
    BY <1>1, <2>1
  <2>4. journal' = [request |-> accepted, restored |-> FALSE] /\ accepted' = accepted
    BY <1>11, <2>1, <2>3 DEF StoreJournal
  <2>5. accepted \in Requests
    BY <2>1, <2>2, <2>3 DEF Requests
  <2>6. Recorded'
    BY <2>1, <2>4, <2>5 DEF Recorded
  <2>7. coordinator'.pc = "coordinate" /\ coordinator'.receipt = coordinator.receipt
        /\ tree' = tree
    BY <1>1, <1>11 DEF StoreJournal
  <2>8. QED
    BY <2>1, <2>6, <2>7 DEF RunInv
<1>12. CASE Restored \/ Recover
  <2>1. Recorded
    BY <1>12 DEF Restored, Recover, RunInv
  <2>2. /\ journal' = [journal EXCEPT !.restored = TRUE] /\ accepted' = accepted
        /\ coordinator'.pc = "idle"
    BY <1>12 DEF Restored, Recover
  <2>3. Recorded'
    BY <2>1, <2>2 DEF Recorded
  <2>4. QED
    BY <2>2, <2>3 DEF RunInv
<1>13. CASE RunCrashes
  BY <1>13 DEF RunCrashes, RunInv, Recorded
<1>14. QED
  BY <1>3, <1>4, <1>5, <1>6, <1>7, <1>8, <1>9, <1>10, <1>11, <1>12, <1>13 DEF Run

-----------------------------------------------------------------------------
(* The workload.                                                           *)

\* A run command that finds a workload active does nothing before it waits for it.
LEMMA RunWorkload ==
  ASSUME TypeOK, RunInv, WorkloadInv, Run
  PROVE  WorkloadInv'
<1> USE DEF RunStep, RunGoto, NoRun, NoWorkload
<1>1. CASE workload.pc \in {"off", "gone"}
  <2>1. workload' \in {workload, NoWorkload}
    BY DEF Run, Load, Verify, VerifyHead, VerifyClean, ReceiptDigest, PathExists,
           SnapshotReceipt, SameReceipt, SnapshotExecutable, SameExecutable, StoreJournal,
           Restored, RunCrashes, Recover, Check
  <2>2. QED
    BY <1>1, <2>1 DEF WorkloadInv
<1>2. CASE workload.pc \notin {"off", "gone"}
  <2>1. RunCrashes
    BY <1>2 DEF WorkloadInv, Run, Load, Verify, VerifyHead, VerifyClean, ReceiptDigest,
                PathExists, SnapshotReceipt, SameReceipt, SnapshotExecutable, SameExecutable,
                StoreJournal, Restored, Recover, Check
  <2>2. QED
    BY <2>1 DEF RunCrashes, WorkloadInv, Recorded
<1>3. QED
  BY <1>1, <1>2

LEMMA WorkloadWorkload ==
  ASSUME TypeOK, RunInv, WorkloadInv, Workload
  PROVE  WorkloadInv'
<1> USE DEF WorkloadStep, NoWorkload
<1>1. workload \in [pc : WorkloadPCs, receipt : OrNone(Receipts), image : OrNone(Executables)]
  BY DEF TypeOK
<1>2. CASE SupervisorGo
  BY <1>1, <1>2 DEF SupervisorGo, RunInv, WorkloadInv, Recorded
<1>3. CASE LoadAccepted
  BY <1>1, <1>3 DEF LoadAccepted, WorkloadInv, Recorded
<1>4. CASE OpenVerified
  BY <1>1, <1>4 DEF OpenVerified, WorkloadInv, Recorded
<1>5. CASE Smoke
  BY <1>1, <1>5 DEF Smoke, WorkloadInv, Recorded
<1>6. CASE Official
  BY <1>1, <1>6 DEF Official, WorkloadInv, Recorded
<1>7. CASE WorkloadEnds
  BY <1>1, <1>7 DEF WorkloadEnds, WorkloadInv, Recorded
<1>8. QED
  BY <1>2, <1>3, <1>4, <1>5, <1>6, <1>7 DEF Workload

-----------------------------------------------------------------------------
(* The theorems.                                                           *)

LEMMA Inductive == IInv /\ [Next]_vars => IInv'
<1> SUFFICES ASSUME IInv, [Next]_vars PROVE IInv'
  OBVIOUS
<1> USE DEF IInv
<1>1. ReceiptNamesSources'
  BY ReceiptStep
<1>2. CASE Edit \/ Commit
  <2>1. Forward /\ UNCHANGED runVars
    BY <1>2, EditIsForward DEF Edit, Commit, Checkout
  <2>2. TypeOK' /\ BuildInv'
    BY <1>2, CheckoutTyping, CheckoutBuild
  <2>3. RunInv'
    BY <2>1, RunUnchanged DEF runVars
  <2>4. WorkloadInv'
    BY <2>1 DEF runVars, WorkloadInv, Recorded
  <2>5. QED
    BY <1>1, <2>2, <2>3, <2>4
<1>3. ASSUME NEW b \in Builders, Build(b) PROVE IInv'
  <2>1. tree' = tree /\ UNCHANGED runVars
    BY <1>3 DEF Build, rev_parse, git_status, CargoStarts, CargoSucceeds, BuildFails,
                BuildReceiptNew, RecheckCommit, RecheckStatus, StoreReceipt, BuildStep
  <2>2. TypeOK' /\ BuildInv'
    BY <1>3, BuildTyping, BuildBuild
  <2>3. RunInv'
    BY <2>1, RunUnchanged DEF runVars
  <2>4. WorkloadInv'
    BY <2>1 DEF runVars, WorkloadInv, Recorded
  <2>5. QED
    BY <1>1, <2>2, <2>3, <2>4
<1>4. CASE Run
  <2>1. UNCHANGED buildVars
    BY <1>4 DEF Run, Load, Verify, VerifyHead, VerifyClean, ReceiptDigest, PathExists,
                SnapshotReceipt, SameReceipt, SnapshotExecutable, SameExecutable,
                StoreJournal, Restored, RunCrashes, Recover, Check, RunStep
  <2>2. QED
    BY <1>1, <1>4, <2>1, RunTyping, BuildUnchanged, RunRun, RunWorkload
<1>5. CASE Workload
  <2>1. UNCHANGED buildVars /\ UNCHANGED <<coordinator, accepted, journal>>
    BY <1>5 DEF Workload, SupervisorGo, LoadAccepted, OpenVerified, Smoke, Official,
                WorkloadEnds, WorkloadStep
  <2>2. RunInv'
    BY <2>1, RunUnchanged DEF buildVars
  <2>3. QED
    BY <1>1, <1>5, <2>1, <2>2, WorkloadTyping, BuildUnchanged, WorkloadWorkload
<1>6. CASE UNCHANGED vars
  BY <1>1, <1>6, BuildUnchanged
  DEF vars, buildVars, runVars, TypeOK, RunInv, WorkloadInv, Recorded
<1>7. QED
  BY <1>2, <1>3, <1>4, <1>5, <1>6 DEF Next

LEMMA Invariance == Spec => []IInv
<1>1. Init => IInv
  BY InitTyping, InitBuild, InitRun DEF IInv
<1>2. QED
  BY <1>1, Inductive, PTL DEF Spec

(***************************************************************************)
(* A stored receipt names the sources of its executable, or HEAD has moved *)
(* past it, for any number of concurrent `benchctl build` processes.       *)
(***************************************************************************)
THEOREM ReceiptsAreSound == Spec => []ReceiptNamesSources
  BY Invariance, PTL DEF IInv

(***************************************************************************)
(* Once coordinate_run has stored the journal, its snapshots never change, *)
(* whatever is rebuilt, committed, crashed or repeated.                    *)
(***************************************************************************)
THEOREM SnapshotsAreFrozen == Spec => []SnapshotIsFrozen
<1>1. IInv => SnapshotIsFrozen
  BY DEF IInv, RunInv, Recorded, SnapshotIsFrozen
<1>2. QED
  BY <1>1, Invariance, PTL

(***************************************************************************)
(* The workload that the supervisor executes is the executable of the      *)
(* accepted receipt, compiled from the clean commit the receipt names.     *)
(***************************************************************************)
THEOREM WorkloadsAreReceipted == Spec => []WorkloadIsAsReceipted
<1>1. IInv => WorkloadIsAsReceipted
  BY DEF IInv, WorkloadInv, Recorded, WorkloadIsAsReceipted
<1>2. QED
  BY <1>1, Invariance, PTL

(***************************************************************************)
(* A benchmark that passed validate_official_receipt was compiled from the *)
(* commit in its stamp.                                                    *)
(***************************************************************************)
THEOREM OfficialRunsAreStamped == Spec => []OfficialIsStamped
<1>1. IInv => OfficialIsStamped
  BY DEF IInv, WorkloadInv, Recorded, Sound, OfficialIsStamped
<1>2. QED
  BY <1>1, Invariance, PTL

=============================================================================
