---------------------------- MODULE BuildProofs -----------------------------
(***************************************************************************)
(* Proofs about Build for any number of edits, crashes and errors, and     *)
(* about the search of PackageGraph for any resolved graph.                *)
(***************************************************************************)
EXTENDS Build, FiniteSetTheorems, WellFoundedInduction, TLAPS

-----------------------------------------------------------------------------
(* The search of the resolved graph.                                       *)

Graph == [deps : [Packages -> Seq(Packages)], kind : [Packages -> Kinds]]

\* One unfolding of Search with f for the recursion.
Unfolded(g, f) == [w \in Worklists |-> IF w.pending = <<>> THEN w.reachable ELSE f[Visit(g, w)]]

\* A set of worklists that the search of g neither leaves nor enters.
Separate(g, X) == \A w \in Worklists : w.pending # <<>> => (w \in X <=> Visit(g, w) \in X)

\* The worklists that no such set tells apart from w: the run of the search w is on.
Run(g, w) == {v \in Worklists : \A X \in SUBSET Worklists : Separate(g, X) /\ w \in X => v \in X}

Ends(g, w) == {v \in Run(g, w) : v.pending = <<>>}

(***************************************************************************)
(* A visit leads from a worklist to a worklist.                            *)
(***************************************************************************)
LEMMA VisitType ==
  ASSUME NEW g \in Graph, NEW w \in Worklists, w.pending # <<>>
  PROVE  Visit(g, w) \in Worklists /\ Head(w.pending) \in Packages
<1>1. /\ w.pending \in Seq(Packages) /\ Head(w.pending) \in Packages
      /\ Tail(w.pending) \in Seq(Packages) /\ w.reachable \in SUBSET Packages
  BY DEF Worklists
<1>2. Tail(w.pending) \o g.deps[Head(w.pending)] \in Seq(Packages)
  BY <1>1 DEF Graph
<1>3. [w EXCEPT !.pending = Tail(@)] \in Worklists
  BY <1>1 DEF Worklists
<1>4. [pending |-> Tail(w.pending) \o g.deps[Head(w.pending)],
       reachable |-> w.reachable \cup {Head(w.pending)}] \in Worklists
  BY <1>1, <1>2 DEF Worklists
<1> QED BY <1>1, <1>3, <1>4 DEF Visit

(***************************************************************************)
(* A visit stays on the run of the search.                                 *)
(***************************************************************************)
LEMMA RunGoesOn ==
  ASSUME NEW g \in Graph, NEW w \in Worklists, w.pending # <<>>
  PROVE  Run(g, Visit(g, w)) = Run(g, w)
BY DEF Run, Separate

(***************************************************************************)
(* An empty queue is the only end of its run.                              *)
(***************************************************************************)
LEMMA RunEnds ==
  ASSUME NEW g \in Graph, NEW w \in Worklists, w.pending = <<>>
  PROVE  Ends(g, w) = {w}
<1> DEFINE Leads(Y) == /\ w \in Y
                       /\ \A v \in Worklists : v.pending # <<>> /\ Visit(g, v) \in Y => v \in Y
           X == {v \in Worklists : \A Y \in SUBSET Worklists : Leads(Y) => v \in Y}
           Z == {v \in X : v = w \/ (v.pending # <<>> /\ Visit(g, v) \in X)}
<1>1. Leads(X) /\ X \in SUBSET Worklists
  OBVIOUS
<1>2. Leads(Z) /\ Z \in SUBSET Worklists
  <2> HIDE DEF X
  <2> QED BY <1>1
<1>3. X \subseteq Z
  <2> HIDE DEF Z
  <2> QED BY <1>2
<1>4. Separate(g, X)
  <2> HIDE DEF X
  <2> QED BY <1>1, <1>3 DEF Separate
<1>5. Run(g, w) \subseteq X /\ w \in Run(g, w)
  <2> HIDE DEF X
  <2> QED BY <1>1, <1>4 DEF Run
<1>6. \A v \in X : v.pending = <<>> => v = w
  <2> HIDE DEF X
  <2> QED BY <1>3
<1> HIDE DEF X
<1> QED BY <1>5, <1>6 DEF Ends

(***************************************************************************)
(* The recursion of the search has a solution on every graph, also on one  *)
(* whose dependencies lead back: Search is what its definition says.       *)
(***************************************************************************)
LEMMA SearchUnfolds ==
  ASSUME NEW g \in Graph
  PROVE  Search(g) = Unfolded(g, Search(g))
<1> DEFINE f == [w \in Worklists |-> (CHOOSE v \in Ends(g, w) : TRUE).reachable]
<1>1. ASSUME NEW w \in Worklists
      PROVE  f[w] = IF w.pending = <<>> THEN w.reachable ELSE f[Visit(g, w)]
  <2>1. CASE w.pending = <<>>
    BY <2>1, RunEnds
  <2>2. CASE w.pending # <<>>
    <3>1. Visit(g, w) \in Worklists
      BY <2>2, VisitType
    <3>2. Ends(g, Visit(g, w)) = Ends(g, w)
      BY <2>2, RunGoesOn DEF Ends
    <3> QED BY <2>2, <3>1, <3>2
  <2> QED BY <2>1, <2>2
<1>2. f = Unfolded(g, f)
  <2>1. f = [w \in Worklists |-> f[w]]
    OBVIOUS
  <2> HIDE DEF f
  <2> QED BY <1>1, <2>1 DEF Unfolded
<1> HIDE DEF f
<1> QED BY <1>2 DEF Search, Unfolded

-----------------------------------------------------------------------------
Queued(w) == {w.pending[i] : i \in DOMAIN w.pending}

\* What was seen or is queued is compiled, and holds the dependencies of what was seen.
Sound(g, w) ==
  LET known == w.reachable \cup Queued(w)
  IN  /\ Root \in known /\ known \subseteq Compiled(g)
      /\ \A p \in w.reachable : \A i \in DOMAIN g.deps[p] : g.deps[p][i] \in known

Unseen(w) == Packages \ w.reachable

(***************************************************************************)
(* The smallest of some naturals exists.                                   *)
(***************************************************************************)
LEMMA LeastNatural ==
  ASSUME NEW S \in SUBSET Nat, S # {}
  PROVE  \E m \in S : \A n \in S : m <= n
<1> DEFINE R == OpToRel(<, Nat)
<1>1. PICK m \in S : \A n \in S : ~(<<n, m>> \in R)
  <2>1. IsWellFoundedOn(R, Nat)
    BY NatLessThanWellFounded
  <2> HIDE DEF R
  <2> QED BY <2>1, WFMin
<1>2. ASSUME NEW n \in S
      PROVE  m <= n
  <2>1. <<n, m>> \in Nat \X Nat /\ <<n, m>>[1] = n /\ <<n, m>>[2] = m
    OBVIOUS
  <2>2. ~(n < m)
    BY <1>1, <2>1 DEF OpToRel
  <2> QED BY <2>2
<1> QED BY <1>2

(***************************************************************************)
(* The search starts with the package of the benchmark, which is compiled. *)
(***************************************************************************)
LEMMA StartSound ==
  ASSUME NEW g \in Graph
  PROVE  Start \in Worklists /\ Sound(g, Start)
<1>1. Root \in Packages
  BY GraphAssumption
<1>2. Start \in Worklists /\ Start.reachable = {} /\ Queued(Start) = {Root}
  BY <1>1 DEF Start, Worklists, Queued
<1>3. Root \in Compiled(g)
  BY <1>1 DEF Compiled, Closed
<1> QED BY <1>2, <1>3 DEF Sound

(***************************************************************************)
(* A visit forgets nothing that is queued and queues what is compiled.     *)
(***************************************************************************)
LEMMA VisitSound ==
  ASSUME NEW g \in Graph, NEW w \in Worklists, w.pending # <<>>, Sound(g, w)
  PROVE  Sound(g, Visit(g, w))
<1> DEFINE next == Head(w.pending)
           v == Visit(g, w)
<1>1. w.pending \in Seq(Packages) /\ next \in Packages /\ g.deps[next] \in Seq(Packages)
  BY VisitType DEF Graph, Worklists
<1>2. Queued(w) = {next} \cup {Tail(w.pending)[i] : i \in DOMAIN Tail(w.pending)}
  <2> DEFINE s == w.pending
  <2>1. s \in Seq(Packages) /\ s # <<>>
    BY <1>1
  <2>2. 1 \in DOMAIN s /\ s[1] = next
    BY <2>1
  <2>3. ASSUME NEW i \in DOMAIN s, i # 1
        PROVE  i - 1 \in DOMAIN Tail(s) /\ Tail(s)[i - 1] = s[i]
    BY <2>1, <2>3
  <2>4. ASSUME NEW i \in DOMAIN Tail(s)
        PROVE  i + 1 \in DOMAIN s /\ Tail(s)[i] = s[i + 1]
    BY <2>1
  <2> QED BY <2>2, <2>3, <2>4 DEF Queued
<1>3. CASE next \in w.reachable
  <2>1. v.reachable = w.reachable /\ v.pending = Tail(w.pending)
    BY <1>3 DEF Visit, Worklists
  <2>2. v.reachable \cup Queued(v) = w.reachable \cup Queued(w)
    BY <1>2, <1>3, <2>1 DEF Queued
  <2> QED BY <2>1, <2>2 DEF Sound
<1>4. CASE next \notin w.reachable
  <2> DEFINE deps == g.deps[next]
             D == {deps[i] : i \in DOMAIN deps}
  <2>1. v.reachable = w.reachable \cup {next} /\ v.pending = Tail(w.pending) \o deps
    BY <1>4 DEF Visit
  <2>2. Queued(v) = {Tail(w.pending)[i] : i \in DOMAIN Tail(w.pending)} \cup D
    <3> DEFINE t == Tail(w.pending)
    <3>1. t \in Seq(Packages) /\ deps \in Seq(Packages)
      BY <1>1
    <3> HIDE DEF t, deps
    <3>2. ASSUME NEW i \in DOMAIN (t \o deps)
          PROVE  \/ i \in DOMAIN t /\ (t \o deps)[i] = t[i]
                 \/ i - Len(t) \in DOMAIN deps /\ (t \o deps)[i] = deps[i - Len(t)]
      BY <3>1
    <3>3. ASSUME NEW i \in DOMAIN t
          PROVE  i \in DOMAIN (t \o deps) /\ (t \o deps)[i] = t[i]
      BY <3>1
    <3>4. ASSUME NEW i \in DOMAIN deps
          PROVE  i + Len(t) \in DOMAIN (t \o deps) /\ (t \o deps)[i + Len(t)] = deps[i]
      BY <3>1
    <3>5. {(t \o deps)[i] : i \in DOMAIN (t \o deps)} = {t[i] : i \in DOMAIN t} \cup D
      <4> DEFINE u == t \o deps
      <4>1. \A i \in DOMAIN u : u[i] \in {t[j] : j \in DOMAIN t} \cup D
        BY <3>2
      <4>2. \A i \in DOMAIN t : t[i] \in {u[j] : j \in DOMAIN u}
        BY <3>3
      <4>3. \A i \in DOMAIN deps : deps[i] \in {u[j] : j \in DOMAIN u}
        BY <3>4
      <4> HIDE DEF u
      <4>4. {u[i] : i \in DOMAIN u} = {t[i] : i \in DOMAIN t} \cup D
        BY <4>1, <4>2, <4>3
      <4> QED BY <4>4 DEF u
    <3> QED BY <2>1, <3>5 DEF Queued, t
  <2>3. v.reachable \cup Queued(v) = w.reachable \cup Queued(w) \cup D
    BY <1>2, <2>1, <2>2
  <2>4. D \subseteq Compiled(g)
    <3>1. next \in Compiled(g)
      BY <1>2 DEF Sound
    <3>2. D \subseteq Packages
      BY <1>1
    <3> QED BY <3>1, <3>2 DEF Compiled, Closed
  <2>5. \A i \in DOMAIN deps : deps[i] \in v.reachable \cup Queued(v)
    BY <2>3
  <2>6. Sound(g, v)
    <3> HIDE DEF v
    <3> QED BY <2>1, <2>3, <2>4, <2>5 DEF Sound
  <2> QED BY <2>6
<1> QED BY <1>3, <1>4

(***************************************************************************)
(* A visit uses up the queue or the packages that were not seen.           *)
(***************************************************************************)
LEMMA VisitProgress ==
  ASSUME NEW g \in Graph, NEW w \in Worklists, w.pending # <<>>
  PROVE  LET v == Visit(g, w)
         IN  \/ Cardinality(Unseen(v)) < Cardinality(Unseen(w))
             \/ Unseen(v) = Unseen(w) /\ Len(v.pending) < Len(w.pending)
<1> DEFINE next == Head(w.pending)
           v == Visit(g, w)
<1>1. w.pending \in Seq(Packages) /\ next \in Packages /\ IsFiniteSet(Unseen(w))
  <2>1. IsFiniteSet(Packages)
    BY GraphAssumption
  <2> QED BY <2>1, VisitType, FS_Subset DEF Worklists, Unseen
<1>2. CASE next \in w.reachable
  <2>1. v.reachable = w.reachable /\ v.pending = Tail(w.pending)
    BY <1>2 DEF Visit, Worklists
  <2> QED BY <1>1, <2>1 DEF Unseen
<1>3. CASE next \notin w.reachable
  <2>1. v.reachable = w.reachable \cup {next}
    BY <1>3 DEF Visit
  <2>2. Unseen(v) = Unseen(w) \ {next} /\ next \in Unseen(w)
    BY <1>1, <1>3, <2>1 DEF Unseen
  <2>3. Cardinality(Unseen(w)) \in Nat /\ Cardinality(Unseen(v)) = Cardinality(Unseen(w)) - 1
    BY <1>1, <2>2, FS_RemoveElement, FS_CardinalityType
  <2> QED BY <2>3
<1> QED BY <1>2, <1>3

(***************************************************************************)
(* The search ends, with an empty queue, on every finite graph.            *)
(***************************************************************************)
LEMMA SearchEnds ==
  ASSUME NEW g \in Graph
  PROVE  \E w \in Worklists : w.pending = <<>> /\ Sound(g, w) /\ Reachable(g) = w.reachable
<1> DEFINE T == {w \in Worklists : Sound(g, w) /\ Search(g)[w] = Reachable(g)}
           Counts == {Cardinality(Unseen(w)) : w \in T}
<1>0. \A w \in Worklists :
        Search(g)[w] = IF w.pending = <<>> THEN w.reachable ELSE Search(g)[Visit(g, w)]
  BY SearchUnfolds DEF Unfolded
<1>1. Start \in T
  BY StartSound DEF Reachable
<1>2. ASSUME NEW w \in T, w.pending # <<>>
      PROVE  Visit(g, w) \in T
  BY <1>0, <1>2, VisitType, VisitSound
<1>3. \A w \in T : Cardinality(Unseen(w)) \in Nat /\ Len(w.pending) \in Nat
  <2>1. IsFiniteSet(Packages)
    BY GraphAssumption
  <2> QED BY <2>1, FS_Subset, FS_CardinalityType DEF Worklists, Unseen
<1>4. PICK c \in Counts : \A n \in Counts : c <= n
  <2>1. Counts \in SUBSET Nat /\ Counts # {}
    BY <1>1, <1>3
  <2> HIDE DEF Counts
  <2> QED BY <2>1, LeastNatural
<1> DEFINE U == {w \in T : Cardinality(Unseen(w)) = c}
           Lengths == {Len(w.pending) : w \in U}
<1>5. PICK l \in Lengths : \A n \in Lengths : l <= n
  <2>1. Lengths \in SUBSET Nat /\ Lengths # {}
    BY <1>3, <1>4
  <2> HIDE DEF Lengths
  <2> QED BY <2>1, LeastNatural
<1>6. PICK w \in U : Len(w.pending) = l
  BY <1>5
<1>7. CASE w.pending # <<>>
  <2>1. w \in T /\ w \in Worklists /\ Visit(g, w) \in T
    BY <1>2, <1>7
  <2>2. c <= Cardinality(Unseen(Visit(g, w)))
    BY <1>4, <2>1
  <2>3. Cardinality(Unseen(w)) = c
    BY <1>6
  <2>4. Unseen(Visit(g, w)) = Unseen(w) /\ Len(Visit(g, w).pending) < Len(w.pending)
    <3> HIDE DEF T
    <3> QED BY <1>3, <1>7, <2>1, <2>2, <2>3, VisitProgress
  <2>5. Visit(g, w) \in U
    BY <2>1, <2>3, <2>4
  <2>6. l <= Len(Visit(g, w).pending)
    BY <1>5, <2>5
  <2> HIDE DEF T
  <2> QED BY <1>3, <1>6, <2>1, <2>4, <2>6
<1> QED BY <1>0, <1>6, <1>7

(***************************************************************************)
(* The search of validate_reachable_local_graph finds exactly the packages *)
(* that Cargo may compile into the benchmark, on every finite graph of any *)
(* shape: with cycles, diamonds and dependencies listed more than once.    *)
(***************************************************************************)
THEOREM SearchIsExact ==
  ASSUME NEW g \in Resolutions
  PROVE  Reachable(g) = Compiled(g)
<1>0. g \in Graph
  BY GraphAssumption DEF Graph
<1>1. PICK w \in Worklists : w.pending = <<>> /\ Sound(g, w) /\ Reachable(g) = w.reachable
  BY <1>0, SearchEnds
<1>2. Queued(w) = {} /\ w.reachable \in SUBSET Packages
  BY <1>1 DEF Queued, Worklists
<1>3. Closed(g, w.reachable) /\ w.reachable \subseteq Compiled(g)
  BY <1>1, <1>2 DEF Sound, Closed
<1> QED BY <1>1, <1>2, <1>3 DEF Compiled

-----------------------------------------------------------------------------
(* The build.                                                              *)

\* The guardian, the status record and the Cargo group: a guardian that has not started
\* Cargo, has drained it or has exited with success has no Cargo left.
GuardianInv ==
  /\ guardian.pc \in {"off", "start", "spawn", "record", "leaving", "ok"} => ~CargoAlive
  /\ files.status # "none" =>
       ~CargoAlive /\ guardian.pc \in {"leaving", "ok", "crashed"}

\* Where the tool is, as far as the guardian and the call go.
ToolInv ==
  /\ tool.pc = "validate" => guardian.pc = "off"
  /\ tool.pc \in {"guarded_cargo", "graph", "rev_parse", "git_status", "artifact",
                  "recheck_commit", "recheck_status", "store"} => guardian.pc \in {"off", "ok"}
  /\ tool.pc \in {"exited_early", "error"} => guardian.pc \in {"off", "ok", "err", "crashed"}
  /\ tool.pc = "ok" => guardian.pc \in {"off", "ok"}
  /\ tool.pc \in {"validate", "graph", "rev_parse", "git_status"} => tool.call = 1
  /\ receipt # {} => tool.pc = "ok" /\ receipt = tool.commit

\* The checkout moves forward, and Cargo compiles nothing older than the commit of the tool.
SourcesInv ==
  /\ tree.commit <= edits + 1
  /\ tool.call = 1 => sources = {}
  /\ \A c \in tool.commit : c <= tree.commit
  /\ \A s \in sources :
       \/ s.commit < tree.commit
       \/ s.commit = tree.commit /\ (tree.clean => s.clean)
  /\ \A c \in tool.commit, s \in sources :
       /\ c <= s.commit
       /\ tool.pc \in {"recheck_status", "store", "ok"} => s.commit = c
       /\ tool.pc \in {"store", "ok"} => s.clean \/ tree.commit # c

\* A graph with an untracked package is not accepted, and the error is final.
TrackedInv == tool.untracked => tool.pc = "error"

\* The inductive invariant of the build.
IInv == TypeOK /\ GuardianInv /\ ToolInv /\ SourcesInv /\ TrackedInv

-----------------------------------------------------------------------------
Tools == [pc : ToolPCs, call : 1..2, commit : SUBSET Commits, untracked : BOOLEAN]

Cargos ==
  [leader : {"off", "running", "zombie", "gone"}, others : BOOLEAN,
   exit : {"none", "success", "failure"}]

\* Every step keeps the types.
LEMMA Typing == ASSUME TypeOK, tree.commit <= edits + 1, [Next]_vars PROVE TypeOK'
<1> USE BoundAssumption
    DEF TypeOK, Trees, Commits, ToolPCs, Ended, GuardianPCs, Goto, GuardianGoto, Write, NoGuardian,
        NoCargo, NoFiles
<1>1. CASE Validate
  BY <1>1 DEF Validate
<1>2. CASE guarded_cargo
  <2>1. CASE UNCHANGED <<guardian, cargo, files>>
    BY <1>2, <2>1 DEF guarded_cargo
  <2>2. CASE /\ guardian' = [NoGuardian EXCEPT !.pc = "start"]
             /\ cargo' = NoCargo
             /\ files' = NoFiles
    <3>1. guardian' \in [pc : GuardianPCs, why : {"request", "drain", "cleanup"}]
      BY <2>2
    <3>2. /\ cargo' \in Cargos
          /\ files' \in [names : SUBSET {"ready", "drain"}, status : {"none", "success", "failure"}]
      BY <2>2 DEF Cargos
    <3>3. tool' \in Tools
      BY <1>2 DEF guarded_cargo, Tools
    <3>4. QED
      BY <1>2, <3>1, <3>2, <3>3 DEF guarded_cargo, Tools, Cargos
  <2>3. QED
    BY <1>2, <2>1, <2>2 DEF guarded_cargo
<1>3. CASE wait_for_cargo
  BY <1>3 DEF wait_for_cargo
<1>4. CASE request_build_drain
  BY <1>4 DEF request_build_drain
<1>5. CASE CheckGuardian
  BY <1>5 DEF CheckGuardian
<1>6. CASE ReportGuardian
  BY <1>6 DEF ReportGuardian
<1>7. CASE require_guardian_success
  BY <1>7 DEF require_guardian_success
<1>8. CASE validate_reachable_local_graph
  <2>1. tree.commit \in Commits /\ tool \in Tools
    BY DEF Trees, Tools
  <2>2. tool' \in Tools
    BY <1>8, <2>1 DEF validate_reachable_local_graph, Tools
  <2>3. QED
    BY <1>8, <2>2 DEF validate_reachable_local_graph, Tools
<1>9. CASE rev_parse
  <2>1. tree.commit \in Commits /\ tool \in Tools
    BY DEF Trees, Tools
  <2>2. tool' \in Tools
    BY <1>9, <2>1 DEF rev_parse, Tools
  <2>3. QED
    BY <1>9, <2>2 DEF rev_parse, Tools
<1>10. CASE git_status
  <2>1. CASE tree.clean
    <3>1. tool \in Tools /\ "guarded_cargo" \in ToolPCs /\ 2 \in 1..2
      BY DEF Tools
    <3>2. tool' = [tool EXCEPT !.pc = "guarded_cargo", !.call = 2]
      BY <1>10, <2>1 DEF git_status
    <3>3. tool' \in Tools
      <4> HIDE DEF TypeOK, ToolPCs, Commits, Trees
      <4>1. QED
        BY <3>1, <3>2 DEF Tools
    <3>4. QED
      BY <1>10, <3>3 DEF git_status, Tools
  <2>2. CASE ~tree.clean
    BY <1>10, <2>2 DEF git_status
  <2>3. QED
    BY <2>1, <2>2
<1>11. CASE Artifact
  BY <1>11 DEF Artifact
<1>12. CASE RecheckCommit
  BY <1>12 DEF RecheckCommit
<1>13. CASE RecheckStatus
  BY <1>13 DEF RecheckStatus
<1>14. CASE Store
  BY <1>14 DEF Store
<1>15. CASE ToolCrashes
  BY <1>15 DEF ToolCrashes, Fault
<1>16. CASE GuardianStarts
  BY <1>16 DEF GuardianStarts
<1>17. CASE SpawnCargo
  <2>1. cargo' \in Cargos
    BY <1>17 DEF SpawnCargo, Cargos
  <2>2. validated' \subseteq Trees /\ sources' \subseteq Trees
    <3> HIDE DEF Trees
    <3>1. QED
      BY <1>17 DEF SpawnCargo, CargoReads
  <2>3. guardian' \in [pc : GuardianPCs, why : {"request", "drain", "cleanup"}]
    BY <1>17 DEF SpawnCargo
  <2>4. QED
    BY <1>17, <2>1, <2>2, <2>3 DEF SpawnCargo, Cargos
<1>18. CASE SpawnCargoFails
  BY <1>18 DEF SpawnCargoFails, Fault
<1>19. CASE Announce
  BY <1>19 DEF Announce
<1>20. CASE MonitorStops
  BY <1>20 DEF MonitorStops
<1>21. CASE MonitorReaps
  BY <1>21 DEF MonitorReaps
<1>22. CASE Kill
  BY <1>22 DEF Kill
<1>23. CASE Drained
  BY <1>23 DEF Drained
<1>24. CASE RecordStatus
  BY <1>24 DEF RecordStatus
<1>25. CASE GuardianLeaves
  BY <1>25 DEF GuardianLeaves
<1>26. CASE GuardianErrs
  BY <1>26 DEF GuardianErrs, Fault
<1>27. CASE GuardianCrashes
  BY <1>27 DEF GuardianCrashes, Fault
<1>28. CASE OthersStart
  <2>1. cargo' \in Cargos
    BY <1>28 DEF OthersStart, Cargos
  <2>2. QED
    BY <1>28, <2>1 DEF OthersStart, Cargos
<1>29. CASE OthersExit
  <2>1. cargo' \in Cargos
    BY <1>29 DEF OthersExit, Cargos
  <2>2. QED
    BY <1>29, <2>1 DEF OthersExit, Cargos
<1>30. ASSUME NEW exit \in {"success", "failure"}, LeaderExits(exit) PROVE TypeOK'
  <2>1. cargo' \in Cargos
    BY <1>30 DEF LeaderExits, Cargos
  <2>2. QED
    BY <1>30, <2>1 DEF LeaderExits, Cargos
<1>31. ASSUME NEW commit \in BOOLEAN, Edit(commit) PROVE TypeOK'
  <2>1. tree' \in Trees
    <3>1. CASE commit
      BY <1>31, <3>1 DEF Edit
    <3>2. CASE ~commit
      BY <1>31, <3>2 DEF Edit
    <3>3. QED
      BY <3>1, <3>2
  <2>2. validated' \subseteq Trees /\ sources' \subseteq Trees
    <3> HIDE DEF Trees
    <3>1. QED
      BY <1>31, <2>1 DEF Edit, CargoReads
  <2>3. edits' \in 0..MaxEdits
    BY <1>31 DEF Edit
  <2>4. QED
    BY <1>31, <2>1, <2>2, <2>3 DEF Edit
<1>32. CASE UNCHANGED vars
  BY <1>32 DEF vars
<1>33. QED
  BY <1>1, <1>2, <1>3, <1>4, <1>5, <1>6, <1>7, <1>8, <1>9, <1>10, <1>11, <1>12, <1>13, <1>14, <1>15, <1>16, <1>17, <1>18, <1>19, <1>20, <1>21, <1>22, <1>23, <1>24, <1>25, <1>26, <1>27, <1>28, <1>29, <1>30, <1>31, <1>32
  DEF Next, build_guardian, cargo_bench, CargoExits

\* Every step keeps what the guardian's state says about Cargo.
LEMMA GuardianStep == ASSUME TypeOK, GuardianInv, [Next]_vars PROVE GuardianInv'
<1> USE DEF GuardianInv, CargoAlive, Goto, GuardianGoto, Write, NoGuardian, NoCargo, NoFiles
<1>1. CASE Validate
  BY <1>1 DEF Validate
<1>2. CASE guarded_cargo
  BY <1>2 DEF guarded_cargo, NoGuardian, NoCargo, NoFiles
<1>3. CASE wait_for_cargo
  BY <1>3 DEF wait_for_cargo
<1>4. CASE request_build_drain
  BY <1>4 DEF request_build_drain
<1>5. CASE CheckGuardian
  BY <1>5 DEF CheckGuardian
<1>6. CASE ReportGuardian
  BY <1>6 DEF ReportGuardian
<1>7. CASE require_guardian_success
  BY <1>7 DEF require_guardian_success
<1>8. CASE validate_reachable_local_graph
  BY <1>8 DEF validate_reachable_local_graph
<1>9. CASE rev_parse
  BY <1>9 DEF rev_parse
<1>10. CASE git_status
  BY <1>10 DEF git_status
<1>11. CASE Artifact
  BY <1>11 DEF Artifact
<1>12. CASE RecheckCommit
  BY <1>12 DEF RecheckCommit
<1>13. CASE RecheckStatus
  BY <1>13 DEF RecheckStatus
<1>14. CASE Store
  BY <1>14 DEF Store
<1>15. CASE ToolCrashes
  BY <1>15 DEF ToolCrashes, Fault
<1>16. CASE GuardianStarts
  BY <1>16 DEF GuardianStarts
<1>17. CASE SpawnCargo
  BY <1>17 DEF SpawnCargo, CargoReads, NoCargo
<1>18. CASE SpawnCargoFails
  BY <1>18 DEF SpawnCargoFails, Fault
<1>19. CASE Announce
  BY <1>19 DEF Announce
<1>20. CASE MonitorStops
  BY <1>20 DEF MonitorStops
<1>21. CASE MonitorReaps
  BY <1>21 DEF MonitorReaps
<1>22. CASE Kill
  BY <1>22 DEF Kill
<1>23. CASE Drained
  BY <1>23 DEF Drained
<1>24. CASE RecordStatus
  BY <1>24 DEF RecordStatus
<1>25. CASE GuardianLeaves
  BY <1>25 DEF GuardianLeaves
<1>26. CASE GuardianErrs
  BY <1>26 DEF GuardianErrs, Fault
<1>27. CASE GuardianCrashes
  BY <1>27 DEF GuardianCrashes, Fault
<1>28. CASE OthersStart
  BY <1>28 DEF OthersStart
<1>29. CASE OthersExit
  BY <1>29 DEF OthersExit
<1>30. ASSUME NEW exit \in {"success", "failure"}, LeaderExits(exit) PROVE GuardianInv'
  BY <1>30 DEF LeaderExits
<1>31. ASSUME NEW commit \in BOOLEAN, Edit(commit) PROVE GuardianInv'
  BY <1>31 DEF Edit, CargoReads
<1>32. CASE UNCHANGED vars
  BY <1>32 DEF vars
<1>33. QED
  BY <1>1, <1>2, <1>3, <1>4, <1>5, <1>6, <1>7, <1>8, <1>9, <1>10, <1>11, <1>12, <1>13, <1>14, <1>15, <1>16, <1>17, <1>18, <1>19, <1>20, <1>21, <1>22, <1>23, <1>24, <1>25, <1>26, <1>27, <1>28, <1>29, <1>30, <1>31, <1>32
  DEF Next, build_guardian, cargo_bench, CargoExits

\* Every step keeps what the tool's state says about the guardian and the call.
LEMMA ToolStep == ASSUME TypeOK, GuardianInv, ToolInv, [Next]_vars PROVE ToolInv'
<1> USE DEF ToolInv, CargoAlive, Goto, GuardianGoto, Write, NoGuardian, NoCargo, NoFiles
<1>1. CASE Validate
  BY <1>1 DEF Validate
<1>2. CASE guarded_cargo
  BY <1>2 DEF guarded_cargo, TypeOK
<1>3. CASE wait_for_cargo
  BY <1>3 DEF wait_for_cargo
<1>4. CASE request_build_drain
  BY <1>4 DEF request_build_drain
<1>5. CASE CheckGuardian
  BY <1>5 DEF CheckGuardian, GuardianExited, TypeOK
<1>6. CASE ReportGuardian
  BY <1>6 DEF ReportGuardian
<1>7. CASE require_guardian_success
  BY <1>7 DEF require_guardian_success, GuardianExited, TypeOK
<1>8. CASE validate_reachable_local_graph
  BY <1>8 DEF validate_reachable_local_graph
<1>9. CASE rev_parse
  BY <1>9 DEF rev_parse
<1>10. CASE git_status
  BY <1>10 DEF git_status
<1>11. CASE Artifact
  BY <1>11 DEF Artifact
<1>12. CASE RecheckCommit
  BY <1>12 DEF RecheckCommit
<1>13. CASE RecheckStatus
  BY <1>13 DEF RecheckStatus
<1>14. CASE Store
  BY <1>14 DEF Store
<1>15. CASE ToolCrashes
  BY <1>15 DEF ToolCrashes, Ended, Fault, TypeOK
<1>16. CASE GuardianStarts
  BY <1>16 DEF GuardianStarts
<1>17. CASE SpawnCargo
  BY <1>17 DEF SpawnCargo, CargoReads, NoCargo
<1>18. CASE SpawnCargoFails
  BY <1>18 DEF SpawnCargoFails, Fault
<1>19. CASE Announce
  BY <1>19 DEF Announce
<1>20. CASE MonitorStops
  BY <1>20 DEF MonitorStops
<1>21. CASE MonitorReaps
  BY <1>21 DEF MonitorReaps
<1>22. CASE Kill
  BY <1>22 DEF Kill
<1>23. CASE Drained
  BY <1>23 DEF Drained
<1>24. CASE RecordStatus
  BY <1>24 DEF RecordStatus
<1>25. CASE GuardianLeaves
  BY <1>25 DEF GuardianLeaves
<1>26. CASE GuardianErrs
  BY <1>26 DEF GuardianErrs, Fault
<1>27. CASE GuardianCrashes
  BY <1>27 DEF GuardianCrashes, GuardianAlive, GuardianExited, Fault, TypeOK
<1>28. CASE OthersStart
  BY <1>28 DEF OthersStart
<1>29. CASE OthersExit
  BY <1>29 DEF OthersExit
<1>30. ASSUME NEW exit \in {"success", "failure"}, LeaderExits(exit) PROVE ToolInv'
  BY <1>30 DEF LeaderExits
<1>31. ASSUME NEW commit \in BOOLEAN, Edit(commit) PROVE ToolInv'
  BY <1>31 DEF Edit, CargoReads
<1>32. CASE UNCHANGED vars
  BY <1>32 DEF vars
<1>33. QED
  BY <1>1, <1>2, <1>3, <1>4, <1>5, <1>6, <1>7, <1>8, <1>9, <1>10, <1>11, <1>12, <1>13, <1>14, <1>15, <1>16, <1>17, <1>18, <1>19, <1>20, <1>21, <1>22, <1>23, <1>24, <1>25, <1>26, <1>27, <1>28, <1>29, <1>30, <1>31, <1>32
  DEF Next, build_guardian, cargo_bench, CargoExits

\* Every step keeps what the checkouts of the compilation have to do with the commit.
LEMMA SourcesStep == ASSUME TypeOK, GuardianInv, ToolInv, SourcesInv, [Next]_vars PROVE SourcesInv'
<1> USE DEF SourcesInv, CargoAlive, Goto, GuardianGoto, Write, NoGuardian, NoCargo, NoFiles
<1>1. CASE Validate
  BY <1>1 DEF Validate
<1>2. CASE guarded_cargo
  BY <1>2, BoundAssumption DEF guarded_cargo, TypeOK
<1>3. CASE wait_for_cargo
  BY <1>3 DEF wait_for_cargo
<1>4. CASE request_build_drain
  BY <1>4 DEF request_build_drain
<1>5. CASE CheckGuardian
  BY <1>5 DEF CheckGuardian
<1>6. CASE ReportGuardian
  BY <1>6 DEF ReportGuardian
<1>7. CASE require_guardian_success
  BY <1>7, BoundAssumption DEF require_guardian_success, TypeOK
<1>8. CASE validate_reachable_local_graph
  BY <1>8 DEF validate_reachable_local_graph
<1>9. CASE rev_parse
  BY <1>9, BoundAssumption DEF rev_parse, ToolInv, Trees, Commits, TypeOK
<1>10. CASE git_status
  BY <1>10 DEF git_status
<1>11. CASE Artifact
  BY <1>11 DEF Artifact
<1>12. CASE RecheckCommit
  BY <1>12, BoundAssumption DEF RecheckCommit, Trees, Commits, TypeOK
<1>13. CASE RecheckStatus
  BY <1>13, BoundAssumption DEF RecheckStatus, Trees, Commits, TypeOK
<1>14. CASE Store
  BY <1>14 DEF Store
<1>15. CASE ToolCrashes
  BY <1>15 DEF ToolCrashes, Fault
<1>16. CASE GuardianStarts
  BY <1>16 DEF GuardianStarts
<1>17. CASE SpawnCargo
  BY <1>17, BoundAssumption DEF SpawnCargo, CargoReads, GuardianInv, ToolInv, Trees, Commits, TypeOK
<1>18. CASE SpawnCargoFails
  BY <1>18 DEF SpawnCargoFails, Fault
<1>19. CASE Announce
  BY <1>19 DEF Announce
<1>20. CASE MonitorStops
  BY <1>20 DEF MonitorStops
<1>21. CASE MonitorReaps
  BY <1>21 DEF MonitorReaps
<1>22. CASE Kill
  BY <1>22 DEF Kill
<1>23. CASE Drained
  BY <1>23 DEF Drained
<1>24. CASE RecordStatus
  BY <1>24 DEF RecordStatus
<1>25. CASE GuardianLeaves
  BY <1>25 DEF GuardianLeaves
<1>26. CASE GuardianErrs
  BY <1>26 DEF GuardianErrs, Fault
<1>27. CASE GuardianCrashes
  BY <1>27 DEF GuardianCrashes, Fault
<1>28. CASE OthersStart
  BY <1>28 DEF OthersStart
<1>29. CASE OthersExit
  BY <1>29 DEF OthersExit
<1>30. ASSUME NEW exit \in {"success", "failure"}, LeaderExits(exit) PROVE SourcesInv'
  BY <1>30 DEF LeaderExits
<1>31. ASSUME NEW commit \in BOOLEAN, Edit(commit) PROVE SourcesInv'
  BY <1>31, BoundAssumption DEF Edit, CargoReads, GuardianInv, ToolInv, TypeOK, Trees, Commits
<1>32. CASE UNCHANGED vars
  BY <1>32 DEF vars
<1>33. QED
  BY <1>1, <1>2, <1>3, <1>4, <1>5, <1>6, <1>7, <1>8, <1>9, <1>10, <1>11, <1>12, <1>13, <1>14, <1>15, <1>16, <1>17, <1>18, <1>19, <1>20, <1>21, <1>22, <1>23, <1>24, <1>25, <1>26, <1>27, <1>28, <1>29, <1>30, <1>31, <1>32
  DEF Next, build_guardian, cargo_bench, CargoExits

\* Only the search sets the flag, and it accepts no graph that it should not.
LEMMA TrackedStep == ASSUME TypeOK, TrackedInv, [Next]_vars PROVE TrackedInv'
<1>1. CASE validate_reachable_local_graph
  <2>1. PICK graph \in Outcomes :
          tool' = [tool EXCEPT !.pc = IF graph.accepted THEN "rev_parse" ELSE "error",
                               !.untracked = ~graph.tracked]
    BY <1>1 DEF validate_reachable_local_graph
  <2>2. PICK g \in Resolutions : graph = [accepted |-> IsTracked(g), tracked |-> FullyTracked(g)]
    BY DEF Outcomes
  <2>3. graph.accepted => graph.tracked
    BY <2>2, SearchIsExact DEF IsTracked, FullyTracked
  <2>4. /\ tool'.pc = IF graph.accepted THEN "rev_parse" ELSE "error"
        /\ tool'.untracked = ~graph.tracked
    BY <2>1 DEF TypeOK
  <2> QED BY <2>3, <2>4 DEF TrackedInv
<1>2. CASE tool' = tool
  BY <1>2 DEF TrackedInv
<1>3. ASSUME NEW pc, tool' = [tool EXCEPT !.pc = pc], tool.pc # "error"
      PROVE  TrackedInv'
  BY <1>3 DEF TrackedInv, TypeOK
<1>4. CASE \/ Validate \/ guarded_cargo \/ wait_for_cargo \/ request_build_drain \/ CheckGuardian
           \/ ReportGuardian \/ require_guardian_success \/ Artifact \/ RecheckCommit
           \/ RecheckStatus \/ Store \/ ToolCrashes
  <2>1. tool.pc # "error" /\ \E pc \in ToolPCs : tool' = [tool EXCEPT !.pc = pc]
    BY <1>4 DEF Validate, guarded_cargo, wait_for_cargo, request_build_drain, CheckGuardian,
       ReportGuardian, require_guardian_success, Artifact, RecheckCommit, RecheckStatus, Store,
       ToolCrashes, Goto, Ended, ToolPCs
  <2> QED BY <1>3, <2>1
<1>5. CASE rev_parse \/ git_status
  BY <1>5 DEF rev_parse, git_status, TrackedInv, TypeOK
<1>6. CASE build_guardian \/ SpawnCargoFails \/ GuardianErrs \/ GuardianCrashes
  BY <1>2, <1>6 DEF build_guardian, GuardianStarts, SpawnCargo, Announce, MonitorStops, MonitorReaps,
     Kill, Drained, RecordStatus, GuardianLeaves, SpawnCargoFails, GuardianErrs, GuardianCrashes
<1>7. CASE CargoExits \/ OthersStart \/ \E commit \in BOOLEAN : Edit(commit)
  BY <1>2, <1>7 DEF CargoExits, OthersExit, LeaderExits, OthersStart, Edit
<1>8. CASE UNCHANGED vars
  BY <1>2, <1>8 DEF vars
<1> QED BY <1>1, <1>4, <1>5, <1>6, <1>7, <1>8 DEF Next, cargo_bench

-----------------------------------------------------------------------------
\* The build starts with nothing validated.
LEMMA InitIInv == Init => IInv
<1> SUFFICES ASSUME Init PROVE IInv
  OBVIOUS
<1> USE DEF Init, NoGuardian, NoCargo, NoFiles
<1>1. TypeOK
  BY BoundAssumption DEF TypeOK, Trees, Commits, ToolPCs, Ended, GuardianPCs
<1>2. GuardianInv /\ ToolInv
  BY DEF GuardianInv, ToolInv, CargoAlive
<1>3. SourcesInv
  BY DEF SourcesInv
<1>4. TrackedInv
  BY DEF TrackedInv
<1>5. QED
  BY <1>1, <1>2, <1>3, <1>4 DEF IInv

\* The invariant of the build.
LEMMA Invariance == Spec => []IInv
<1>1. IInv /\ [Next]_vars => IInv'
  <2> SUFFICES ASSUME IInv, [Next]_vars PROVE IInv'
    OBVIOUS
  <2>1. TypeOK /\ GuardianInv /\ ToolInv /\ SourcesInv /\ TrackedInv /\ tree.commit <= edits + 1
    BY DEF IInv, SourcesInv
  <2>2. QED
    BY <2>1, Typing, GuardianStep, ToolStep, SourcesStep, TrackedStep DEF IInv
<1>2. QED
  BY <1>1, InitIInv, PTL DEF Spec

(***************************************************************************)
(* A status record of the build guardian proves that Cargo's process group *)
(* is empty.                                                               *)
(***************************************************************************)
THEOREM StatusImpliesDrained == Spec => []StatusMeansDrained
<1>1. IInv => StatusMeansDrained
  BY DEF IInv, GuardianInv, StatusMeansDrained
<1>2. QED
  BY <1>1, Invariance, PTL

(***************************************************************************)
(* cargo_bench returns without Cargo, whichever of its paths it takes,     *)
(* unless its guardian failed or died.                                     *)
(***************************************************************************)
THEOREM NothingLeftBehind == Spec => []NoCargoLeftBehind
<1>1. IInv => NoCargoLeftBehind
  BY DEF IInv, GuardianInv, ToolInv, NoCargoLeftBehind, GuardianLost
<1>2. QED
  BY <1>1, Invariance, PTL

(***************************************************************************)
(* HEAD was the commit of a stored receipt all the while Cargo compiled,   *)
(* and the tree was clean unless HEAD has moved since.                     *)
(***************************************************************************)
THEOREM ReceiptsNameHead == Spec => []ReceiptNamesHead
<1>1. IInv => ReceiptNamesHead
  BY DEF IInv, ToolInv, SourcesInv, ReceiptNamesHead
<1>2. QED
  BY <1>1, Invariance, PTL

(***************************************************************************)
(* A receipt is only stored for a benchmark all of whose local packages    *)
(* are tracked, for every resolved graph.                                  *)
(***************************************************************************)
THEOREM ReceiptsAreTracked == Spec => []ReceiptIsTracked
<1>1. IInv => ReceiptIsTracked
  BY DEF IInv, ToolInv, TrackedInv, ReceiptIsTracked
<1>2. QED
  BY <1>1, Invariance, PTL

=============================================================================
