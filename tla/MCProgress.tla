----------------------------- MODULE MCProgress -----------------------------
(***************************************************************************)
(* Progress on small instances.  The task queue in two settings: one       *)
(* process that may fail once, and two that do not.                        *)
(***************************************************************************)
EXTENDS Progress, TLC

CONSTANTS w1, w2, w3, x, y, t1, t2, a1, a2

Priorities == t1 :> 1 @@ t2 :> 5
Lapsing    == t1 :> 1 @@ t2 :> 0
Workers    == [alone |-> {w1}, pair |-> {w1, w2}]
Failures   == [alone |-> 1, pair |-> 0]
=============================================================================
