-------------------------- MODULE SentinelLauncher --------------------------
(***************************************************************************)
(* Stream watches started on demand: POST and DELETE /api/watches          *)
(* (services/orchestrator/src/routes/index.ts) and SentinelLauncher        *)
(* (services/orchestrator/src/sentinel.ts), which counts the running       *)
(* executions of a Cloud Run Job and then starts one.  Each call of the    *)
(* platform is one step; executions are numbered by their creation.        *)
(***************************************************************************)
EXTENDS Naturals, FiniteSets

CONSTANTS
  Request,         \* the POST requests served at the same time
  MaxExecutions,   \* bound: executions ever started
  MaxFaults        \* bound: calls that throw or lose their answer

VARIABLES
  started,         \* how many executions were created: 1 .. started
  running,         \* those without a completionTime
  request,         \* where each request stands
  audited,         \* audit_log: the executions agent.dispatched names
  misnamed,        \* executions whose request reported the name of a later one
  faults

vars == <<started, running, request, audited, misnamed, faults>>

Execution == 1..MaxExecutions
Pc == {"idle", "run", "newest", "audit"}
Idle == [pc |-> "idle", execution |-> 0]

TypeOK ==
  /\ started \in 0..MaxExecutions
  /\ running \subseteq 1..started
  /\ request \in [Request -> [pc : Pc, execution : 0..MaxExecutions]]
  /\ audited \subseteq 1..started
  /\ misnamed \subseteq 1..started
  /\ faults \in 0..MaxFaults

Init ==
  /\ started = 0
  /\ running = {}
  /\ request = [q \in Request |-> Idle]
  /\ audited = {}
  /\ misnamed = {}
  /\ faults = 0

At(q, pc) == request[q].pc = pc
Becomes(q, r) == request' = [request EXCEPT ![q] = r]

----------------------------------------------------------------------------
(* SentinelLauncher.launch, and the route around it *)

\* Mutant: an off-by-one in the ceiling.
CountThree(q) ==
  /\ At(q, "idle")
  /\ Cardinality(running) <= 2
  /\ Becomes(q, [Idle EXCEPT !.pc = "run"])
  /\ UNCHANGED <<started, running, audited, misnamed, faults>>

\* runningCount: with two or more the launch is refused.
Count(q) ==
  /\ At(q, "idle")
  /\ Cardinality(running) < 2
  /\ Becomes(q, [Idle EXCEPT !.pc = "run"])
  /\ UNCHANGED <<started, running, audited, misnamed, faults>>

\* runJob; the metadata of the operation may or may not carry the name already.
Run(q) ==
  /\ At(q, "run")
  /\ started < MaxExecutions
  /\ started' = started + 1
  /\ running' = running \cup {started'}
  /\ \/ Becomes(q, [pc |-> "audit", execution |-> started'])
     \/ Becomes(q, [pc |-> "newest", execution |-> started'])
  /\ UNCHANGED <<audited, misnamed, faults>>

\* newestExecutionName: the execution created last, whoever asked for it.
Newest(q) ==
  /\ At(q, "newest")
  /\ Becomes(q, [pc |-> "audit", execution |-> started])
  /\ misnamed' = misnamed \cup ({request[q].execution} \ {started})
  /\ UNCHANGED <<started, running, audited, faults>>

\* agent.dispatched, and the answer 201 with the name.
Audit(q) ==
  /\ At(q, "audit")
  /\ audited' = audited \cup {request[q].execution}
  /\ Becomes(q, Idle)
  /\ UNCHANGED <<started, running, misnamed, faults>>

\* A call throws after it took effect or before, or the orchestrator is replaced.
Fail(q) ==
  /\ ~At(q, "idle")
  /\ faults < MaxFaults
  /\ faults' = faults + 1
  /\ Becomes(q, Idle)
  /\ UNCHANGED <<started, running, audited, misnamed>>

\* The execution ends by itself, or DELETE /api/watches/:executionName cancels it.
End(e) ==
  /\ e \in running
  /\ running' = running \ {e}
  /\ UNCHANGED <<started, request, audited, misnamed, faults>>

Next ==
  \/ \E q \in Request : Count(q) \/ Run(q) \/ Newest(q) \/ Audit(q) \/ Fail(q)
  \/ \E e \in Execution : End(e)

Spec == Init /\ [][Next]_vars

----------------------------------------------------------------------------
(* What the launcher promises *)

\* The ceiling of two holds for launches one after the other; launches at the same time, and
\* they alone, pass it: by one execution each.  An execution that no entry of the ledger
\* names belongs to a request still being served, was reported under the name of another
\* that started after it, or was lost to a failure of its own.
CeilingHeld ==
  /\ Cardinality(running) <= 1 + Cardinality(Request)
  /\ LET served == {request[q].execution : q \in {r \in Request : ~At(r, "idle")}} IN
     Cardinality((1..started) \ (audited \cup served \cup misnamed)) <= faults
=============================================================================
