------------------------------ MODULE Worklist ------------------------------
(***************************************************************************)
(* What the task queue promises to those who send tasks and to those who   *)
(* read its events, without lease tokens, processes or deliveries.  A     *)
(* task that was sent is ready or leased until it is closed; it is closed  *)
(* only while somebody has it, never re-opened, and goes back to ready     *)
(* only while it has attempts left; and no completion is announced that    *)
(* does not have a lease of its own behind it.                             *)
(***************************************************************************)
EXTENDS Naturals

CONSTANTS Task, MaxAttempts

VARIABLES
  state,       \* where each task is
  leases,      \* how often each task was leased
  completions  \* how often each task was announced as completed

wvars == <<state, leases, completions>>

Init ==
  /\ state = [t \in Task |-> "unsent"]
  /\ leases = [t \in Task |-> 0]
  /\ completions = [t \in Task |-> 0]

Submit(t) ==
  /\ state[t] = "unsent"
  /\ state' = [state EXCEPT ![t] = "ready"]
  /\ UNCHANGED <<leases, completions>>

\* A batch of tasks is handed out; a task whose lease ran out is handed out again.
Lease(B) ==
  /\ \A t \in B : state[t] \in {"ready", "leased"}
  /\ state' = [t \in Task |-> IF t \in B THEN "leased" ELSE state[t]]
  /\ leases' = [t \in Task |-> IF t \in B THEN leases[t] + 1 ELSE leases[t]]
  /\ UNCHANGED completions

Release(t) ==
  /\ state[t] = "leased"
  /\ leases[t] < MaxAttempts
  /\ state' = [state EXCEPT ![t] = "ready"]
  /\ UNCHANGED <<leases, completions>>

Close(t) ==
  /\ state[t] = "leased"
  /\ state' = [state EXCEPT ![t] = "closed"]
  /\ UNCHANGED <<leases, completions>>

Complete(t) ==
  /\ completions[t] < leases[t]
  /\ completions' = [completions EXCEPT ![t] = @ + 1]
  /\ UNCHANGED <<state, leases>>

Next ==
  \/ \E t \in Task : Submit(t) \/ Release(t) \/ Close(t) \/ Complete(t)
  \/ \E B \in SUBSET Task : Lease(B)

Spec == Init /\ [][Next]_wvars
=============================================================================
