------------------------------- MODULE MCBuild ------------------------------
(* Build with the resolved graphs of three packages: cycles, diamonds and    *)
(* repeated dependencies in either order, and every kind of dependency.      *)
EXTENDS Build

MCPackages == {"bench", "lib", "dep"}

Few(S) == {<<>>} \cup {<<p>> : p \in S}

MCDeps ==
  {[p \in MCPackages |-> CASE p = "bench" -> b [] p = "lib" -> l [] p = "dep" -> d] :
     b \in Few({"lib", "dep"}) \cup {<<"lib", "dep">>, <<"dep", "lib">>, <<"bench", "lib">>},
     l \in Few(MCPackages), d \in Few(MCPackages)}

MCResolutions ==
  [deps : MCDeps, kind : {k \in [MCPackages -> Kinds] : k["bench"] = "tracked"}]

=============================================================================
