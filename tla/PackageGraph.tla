---------------------------- MODULE PackageGraph ----------------------------
(***************************************************************************)
(* validate_reachable_local_graph of tools/benchctl/src/build.rs: the      *)
(* packages that the resolved graph of `cargo metadata` reaches from the   *)
(* benchmark's package, and whether Git tracks those that are local.       *)
(***************************************************************************)
EXTENDS Naturals, Sequences, FiniteSets

CONSTANTS
  Packages,
  Root,                       \* the package that owns the benchmark
  Resolutions                 \* resolved graphs that `cargo metadata` may report

\* A package without a node or entry, one of a registry, a local one whose manifest and
\* targets are all tracked, and a local one with a file outside the repository or untracked.
Kinds == {"missing", "registry", "tracked", "untracked"}

ASSUME GraphAssumption ==
  /\ IsFiniteSet(Packages) /\ Root \in Packages
  /\ Resolutions \subseteq [deps : [Packages -> Seq(Packages)], kind : [Packages -> Kinds]]

-----------------------------------------------------------------------------
Worklists == [pending : Seq(Packages), reachable : SUBSET Packages]

Start == [pending |-> <<Root>>, reachable |-> {}]

\* A package seen before is passed over, the dependencies of a new one are queued.
Visit(g, w) ==
  LET next == Head(w.pending)
  IN  IF next \in w.reachable
      THEN [w EXCEPT !.pending = Tail(@)]
      ELSE [pending   |-> Tail(w.pending) \o g.deps[next],
            reachable |-> w.reachable \cup {next}]

\* Mutant of Search: a package that was seen before ends the search.
SearchToFirstRepeat(g) ==
  LET Found[w \in Worklists] ==
        IF w.pending = <<>> \/ Head(w.pending) \in w.reachable
        THEN w.reachable ELSE Found[Visit(g, w)]
  IN  Found

\* The queue `pending` and the set `reachable` of the search, until the queue is empty.
Search(g) ==
  LET Found[w \in Worklists] == IF w.pending = <<>> THEN w.reachable ELSE Found[Visit(g, w)]
  IN  Found

Reachable(g) == Search(g)[Start]

\* No error: registry packages are passed over, require_tracked holds for the others.
IsTracked(g) == \A p \in Reachable(g) : g.kind[p] \in {"registry", "tracked"}

-----------------------------------------------------------------------------
(* The reference: what every set closed under dependencies contains.       *)

Closed(g, S) ==
  Root \in S /\ \A p \in S : \A i \in DOMAIN g.deps[p] : g.deps[p][i] \in S

\* What Cargo may compile into the benchmark.
Compiled(g) == {p \in Packages : \A S \in SUBSET Packages : Closed(g, S) => p \in S}

FullyTracked(g) == \A p \in Compiled(g) : g.kind[p] \in {"registry", "tracked"}

\* For some graph, whether the search accepts it and whether it should.
Outcomes == {[accepted |-> IsTracked(g), tracked |-> FullyTracked(g)] : g \in Resolutions}

=============================================================================
