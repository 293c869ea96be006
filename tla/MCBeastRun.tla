----------------------------- MODULE MCBeastRun -----------------------------
(* Beast runs on small instances, and the plan of the real registry.         *)
EXTENDS BeastRun, TLC

CONSTANTS r1, r2, o1, o2, k1, k2

\* One agent of the registry, with and without sources: one task per run.
OneAgent == {"aria"}
OneAtATime == "aria" :> 1
OneAgentSources == {"aria" :> 0, "aria" :> 3}

\* Two agents, of which only one may have sources: two or three tasks per run.
TwoAgents == {"aria", "sentinel"}
TwoAtATime == "aria" :> 2 @@ "sentinel" :> 1
TwoAgentsSources == { "aria" :> 0 @@ "sentinel" :> 0,
                      "aria" :> 1 @@ "sentinel" :> 0,
                      "aria" :> 3 @@ "sentinel" :> 1 }

MCSymmetry == Permutations({r1, r2}) \cup Permutations({o1, o2}) \cup Permutations({k1, k2})
=============================================================================
