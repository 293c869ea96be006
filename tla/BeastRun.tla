------------------------------ MODULE BeastRun ------------------------------
(***************************************************************************)
(* Beast runs: class BeastController in services/orchestrator/src/beast.ts,*)
(* the table runs with its partial unique index, the expiry timer of the   *)
(* orchestrator, and as much of the agents as spends a run's budget.       *)
(*                                                                         *)
(* A call is one request (activate or deactivate, of an operator) or one   *)
(* task result being applied (accrue, of a consumer); each of its SQL      *)
(* statements is one step.  A call that ends is idle again.                *)
(***************************************************************************)
EXTENDS Naturals, FiniteSets

CONSTANTS
  Run,                 \* the ids randomUUID() may give
  NoRun,               \* the run of an idle call
  Operator,            \* the requests served at the same time
  Consumer,            \* the readers of task results that call accrue; {} in the repository
  Agent,               \* keys of AGENT_REGISTRY
  MaxConcurrency,      \* AGENT_REGISTRY[a].maxConcurrency
  MaxConcurrentTasks,  \* BEAST_MAX_CONCURRENT_TASKS
  SourceCounts,        \* what sourceCounts may answer for the tags of a request
  Limit,               \* budget.maxCostUsd of a run
  Cost,                \* the costs a task result may report
  MaxFaults            \* bound: crashes and failed statements, in all

Call == Operator \cup Consumer

ASSUME BeastAssumption ==
  /\ NoRun \notin Run
  /\ MaxConcurrency \in [Agent -> Nat \ {0}]
  /\ MaxConcurrentTasks \in Nat
  /\ SourceCounts \subseteq [Agent -> Nat]
  /\ Limit \in Nat \ {0}
  /\ Cost \subseteq Nat
  /\ MaxFaults \in Nat

VARIABLES
  run,        \* the table runs; overdue is `expires_at < now()`
  tasks,      \* the collect tasks of a run: in the queue, being worked on, result not applied
  spent,      \* of the results given to accrue: their cost, and whether it once was 80% exactly
  call,       \* where each call stands
  swept,      \* runs the sweep expired and has not audited
  audits,     \* audit_log: the actions appended for a run
  announced,  \* agent_events: the status events of a run
  warnings,   \* agent_events: budget.threshold_crossed with threshold 0.8
  faults      \* crashes and failed statements so far

vars == <<run, tasks, spent, call, swept, audits, announced, warnings, faults>>

Ended     == {"cancelled", "budget_halted", "expired"}
RunStatus == {"none", "running"} \cup Ended
Slot      == Agent \X Nat
CallPc    == {"insert", "dispatch", "recordDispatched", "auditActivated", "announceActivated",
              "cancel", "auditCancelled", "announceCancelled",
              "halt", "auditHalted", "announceExhausted", "warn"}

Busy  == [pc : CallPc, run : Run, slots : SUBSET Slot, sent : Nat]
Idle  == [pc |-> "idle", run |-> NoRun, slots |-> {}, sent |-> 0]
Row   == [status : RunStatus, accrued : Nat, dispatched : Nat, overdue : BOOLEAN]
Tasks == [queued : Nat, working : Nat, reported : Nat]
Spent == [cost : Nat, onMark : BOOLEAN]
Audit == {"activated", "cancelled", "halted"}

TypeOK ==
  /\ run \in [Run -> Row]
  /\ tasks \in [Run -> Tasks]
  /\ spent \in [Run -> Spent]
  /\ call \in [Call -> Busy \cup {Idle}]
  /\ swept \subseteq Run
  /\ audits \in [Run -> SUBSET Audit]
  /\ announced \in [Run -> SUBSET {"running", "cancelled", "exhausted"}]
  /\ warnings \in [Run -> Nat]
  /\ faults \in Nat

Init ==
  /\ run = [r \in Run |-> [status |-> "none", accrued |-> 0, dispatched |-> 0, overdue |-> FALSE]]
  /\ tasks = [r \in Run |-> [queued |-> 0, working |-> 0, reported |-> 0]]
  /\ spent = [r \in Run |-> [cost |-> 0, onMark |-> FALSE]]
  /\ call = [c \in Call |-> Idle]
  /\ swept = {}
  /\ audits = [r \in Run |-> {}]
  /\ announced = [r \in Run |-> {}]
  /\ warnings = [r \in Run |-> 0]
  /\ faults = 0

----------------------------------------------------------------------------
(* The plan of a preflight *)

Least(a, b) == IF a < b THEN a ELSE b
Most(a, b)  == IF a < b THEN b ELSE a

\* The ceiling of the agent, its share of the fleet-wide cap - a quarter - and the work.
ConcurrencyOf(a, sources) ==
  Most(1, Least(Least(MaxConcurrency[a], MaxConcurrentTasks \div 4), Most(1, sources[a])))

\* One task per agent and slot; an agent without a source gets one all the same.
Plan(sources) ==
  {s \in Agent \X (0 .. MaxConcurrentTasks) : s[2] < ConcurrencyOf(s[1], sources)}

----------------------------------------------------------------------------
Active      == {r \in Run : run[r].status = "running"}
Fault       == faults < MaxFaults /\ faults' = faults + 1
Goto(c, pc) == call' = [call EXCEPT ![c].pc = pc]
Return(c)   == call' = [call EXCEPT ![c] = Idle]

----------------------------------------------------------------------------
(* activate *)

\* preflight: no run is active and some source matches.  The id is a fresh one.
Preflight(c) ==
  /\ call[c] = Idle
  /\ Active = {}
  /\ \E r \in Run, sources \in SourceCounts :
       /\ run[r].status = "none"
       /\ \A d \in Call : call[d].run # r
       /\ \E a \in Agent : sources[a] > 0
       /\ call' = [call EXCEPT ![c] = [pc |-> "insert", run |-> r,
                                       slots |-> Plan(sources), sent |-> 0]]
  /\ UNCHANGED <<run, tasks, spent, swept, audits, announced, warnings, faults>>

\* Mutant: the table without runs_single_active_beast_idx.
InsertUnguarded(c) ==
  /\ call[c].pc = "insert"
  /\ run' = [run EXCEPT ![call[c].run].status = "running"]
  /\ Goto(c, "dispatch")
  /\ UNCHANGED <<tasks, spent, swept, audits, announced, warnings, faults>>

\* INSERT INTO runs; the partial unique index refuses a second active run (23505).
Insert(c) ==
  /\ call[c].pc = "insert"
  /\ IF Active = {}
     THEN /\ run' = [run EXCEPT ![call[c].run].status = "running"]
          /\ Goto(c, "dispatch")
     ELSE /\ Return(c)
          /\ UNCHANGED run
  /\ UNCHANGED <<tasks, spent, swept, audits, announced, warnings, faults>>

\* One turn of the loop over the plan.  The status of the run is not read again.
Dispatch(c) ==
  /\ call[c].pc = "dispatch"
  /\ call[c].slots # {}
  /\ call' = [call EXCEPT ![c].slots = @ \ {CHOOSE s \in @ : TRUE}, ![c].sent = @ + 1]
  /\ tasks' = [tasks EXCEPT ![call[c].run].queued = @ + 1]
  /\ UNCHANGED <<run, spent, swept, audits, announced, warnings, faults>>

DispatchEnds(c) ==
  /\ call[c].pc = "dispatch"
  /\ call[c].slots = {}
  /\ Goto(c, "recordDispatched")
  /\ UNCHANGED <<run, tasks, spent, swept, audits, announced, warnings, faults>>

\* Mutant: the row the call built is written back whole, not one field of it.
RecordWholeRow(c) ==
  /\ call[c].pc = "recordDispatched"
  /\ run' = [run EXCEPT ![call[c].run] = [status |-> "running", accrued |-> 0,
                                          dispatched |-> call[c].sent, overdue |-> @.overdue]]
  /\ Goto(c, "auditActivated")
  /\ UNCHANGED <<tasks, spent, swept, audits, announced, warnings, faults>>

\* jsonb_set(budget, '{dispatchedTasks}', n): no other field is touched.
RecordDispatched(c) ==
  /\ call[c].pc = "recordDispatched"
  /\ run' = [run EXCEPT ![call[c].run].dispatched = call[c].sent]
  /\ Goto(c, "auditActivated")
  /\ UNCHANGED <<tasks, spent, swept, audits, announced, warnings, faults>>

AuditActivated(c) ==
  /\ call[c].pc = "auditActivated"
  /\ audits' = [audits EXCEPT ![call[c].run] = @ \cup {"activated"}]
  /\ Goto(c, "announceActivated")
  /\ UNCHANGED <<run, tasks, spent, swept, announced, warnings, faults>>

AnnounceActivated(c) ==
  /\ call[c].pc = "announceActivated"
  /\ announced' = [announced EXCEPT ![call[c].run] = @ \cup {"running"}]
  /\ Return(c)
  /\ UNCHANGED <<run, tasks, spent, swept, audits, warnings, faults>>

----------------------------------------------------------------------------
(* deactivate *)

\* getRun: a run that is not running is returned as it is.
ReadRun(c) ==
  /\ call[c] = Idle
  /\ \E r \in Active :
       call' = [call EXCEPT ![c] = [pc |-> "cancel", run |-> r, slots |-> {}, sent |-> 0]]
  /\ UNCHANGED <<run, tasks, spent, swept, audits, announced, warnings, faults>>

\* The UPDATE does not ask for the status that was read.
Cancel(c) ==
  /\ call[c].pc = "cancel"
  /\ run' = [run EXCEPT ![call[c].run].status = "cancelled"]
  /\ Goto(c, "auditCancelled")
  /\ UNCHANGED <<tasks, spent, swept, audits, announced, warnings, faults>>

AuditCancelled(c) ==
  /\ call[c].pc = "auditCancelled"
  /\ audits' = [audits EXCEPT ![call[c].run] = @ \cup {"cancelled"}]
  /\ Goto(c, "announceCancelled")
  /\ UNCHANGED <<run, tasks, spent, swept, announced, warnings, faults>>

AnnounceCancelled(c) ==
  /\ call[c].pc = "announceCancelled"
  /\ announced' = [announced EXCEPT ![call[c].run] = @ \cup {"cancelled"}]
  /\ Return(c)
  /\ UNCHANGED <<run, tasks, spent, swept, audits, warnings, faults>>

----------------------------------------------------------------------------
(* accrue *)

\* What `cost >= limit * 0.8` may answer.  Costs have six decimals, but limit * 0.8 and
\* accrued - costUsd are doubles: at the mark itself, and only there, they may be an ulp off
\* on either side.
Reaches(cost) ==
  {b \in BOOLEAN : IF b THEN 10 * cost >= 8 * Limit ELSE 10 * cost <= 8 * Limit}

\* Mutants: the budget is gone only past its limit; every result past 80% warns.
ExhaustedPastLimit(accrued) == accrued > Limit
NearlyExhaustedAgain(before, accrued) == Reaches(accrued)

Exhausted(accrued) == accrued >= Limit
\* Whether this result is the one that crosses 80%; `before` is accrued - costUsd, which is
\* accrued to the last bit for a result that cost nothing.
NearlyExhausted(before, accrued) ==
  {b \in BOOLEAN : \E past \in Reaches(accrued), was \in Reaches(before) :
                     b <=> before # accrued /\ past /\ ~was}

\* What accrue may do with the row its UPDATE returned.
Verdicts(status, before, accrued) ==
  CASE status # "running" -> {"idle"}
    [] status = "running" /\ Exhausted(accrued) -> {"halt"}
    [] OTHER -> {IF near THEN "warn" ELSE "idle" : near \in NearlyExhausted(before, accrued)}

Adds(r, cost) ==
  /\ run' = [run EXCEPT ![r].accrued = @ + cost]
  /\ spent' = [spent EXCEPT ![r] =
                  [cost |-> @.cost + cost,
                   onMark |-> @.onMark \/ 10 * (run[r].accrued + cost) = 8 * Limit]]

\* A consumer takes the result of a task and adds its cost: UPDATE ... RETURNING.
Accrue(c) ==
  /\ call[c] = Idle
  /\ \E r \in Run, cost \in Cost :
       /\ tasks[r].reported > 0
       /\ tasks' = [tasks EXCEPT ![r].reported = @ - 1]
       /\ Adds(r, cost)
       /\ \E pc \in Verdicts(run[r].status, run[r].accrued, run[r].accrued + cost) :
            call' = IF pc = "idle" THEN call
                    ELSE [call EXCEPT ![c] = [pc |-> pc, run |-> r, slots |-> {}, sent |-> 0]]
  /\ UNCHANGED <<swept, audits, announced, warnings, faults>>

\* The UPDATE does not ask for the status that was returned.
Halt(c) ==
  /\ call[c].pc = "halt"
  /\ run' = [run EXCEPT ![call[c].run].status = "budget_halted"]
  /\ Goto(c, "auditHalted")
  /\ UNCHANGED <<tasks, spent, swept, audits, announced, warnings, faults>>

AuditHalted(c) ==
  /\ call[c].pc = "auditHalted"
  /\ audits' = [audits EXCEPT ![call[c].run] = @ \cup {"halted"}]
  /\ Goto(c, "announceExhausted")
  /\ UNCHANGED <<run, tasks, spent, swept, announced, warnings, faults>>

AnnounceExhausted(c) ==
  /\ call[c].pc = "announceExhausted"
  /\ announced' = [announced EXCEPT ![call[c].run] = @ \cup {"exhausted"}]
  /\ Return(c)
  /\ UNCHANGED <<run, tasks, spent, swept, audits, warnings, faults>>

Warn(c) ==
  /\ call[c].pc = "warn"
  /\ warnings' = [warnings EXCEPT ![call[c].run] = @ + 1]
  /\ Return(c)
  /\ UNCHANGED <<run, tasks, spent, swept, audits, announced, faults>>

----------------------------------------------------------------------------
(* expireOverdueRuns, every minute *)

OverdueRuns == {r \in Active : run[r].overdue}

\* Mutants: runs whose dispatch was never recorded are passed over; nothing is audited.
SweepDispatched ==
  /\ \E r \in OverdueRuns : run[r].dispatched > 0
  /\ run' = [r \in Run |-> IF r \in OverdueRuns /\ run[r].dispatched > 0
                           THEN [run[r] EXCEPT !.status = "expired"] ELSE run[r]]
  /\ swept' = swept \cup {r \in OverdueRuns : run[r].dispatched > 0}
  /\ UNCHANGED <<tasks, spent, call, audits, announced, warnings, faults>>

SweepUnaudited ==
  /\ OverdueRuns # {}
  /\ run' = [r \in Run |-> IF r \in OverdueRuns THEN [run[r] EXCEPT !.status = "expired"]
                                                ELSE run[r]]
  /\ UNCHANGED <<tasks, spent, call, swept, audits, announced, warnings, faults>>

\* UPDATE ... WHERE status = 'running' AND expires_at < now() RETURNING id
Sweep ==
  /\ OverdueRuns # {}
  /\ run' = [r \in Run |-> IF r \in OverdueRuns THEN [run[r] EXCEPT !.status = "expired"]
                                                ELSE run[r]]
  /\ swept' = swept \cup OverdueRuns
  /\ UNCHANGED <<tasks, spent, call, audits, announced, warnings, faults>>

\* One turn of the loop over the rows; no event is published.
SweepAudits(r) ==
  /\ r \in swept
  /\ audits' = [audits EXCEPT ![r] = @ \cup {"halted"}]
  /\ swept' = swept \ {r}
  /\ UNCHANGED <<run, tasks, spent, call, announced, warnings, faults>>

----------------------------------------------------------------------------
(* The agents, time and failures *)

\* The window of the run closes.  The TTL of its tasks is as long but counts from their
\* dispatch, so that they end a little later than the run.
WindowCloses(r) ==
  /\ run[r].status # "none"
  /\ ~run[r].overdue
  /\ run' = [run EXCEPT ![r].overdue = TRUE]
  /\ UNCHANGED <<tasks, spent, call, swept, audits, announced, warnings, faults>>

\* An agent picks a task up.  It looks at the deadline of the task, not at the run.
TaskStarts(r) ==
  /\ tasks[r].queued > 0
  /\ tasks' = [tasks EXCEPT ![r].queued = @ - 1, ![r].working = @ + 1]
  /\ UNCHANGED <<run, spent, call, swept, audits, announced, warnings, faults>>

TaskDropped(r) ==
  /\ tasks[r].queued > 0
  /\ run[r].overdue
  /\ tasks' = [tasks EXCEPT ![r].queued = @ - 1]
  /\ UNCHANGED <<run, spent, call, swept, audits, announced, warnings, faults>>

TaskEnds(r) ==
  /\ tasks[r].working > 0
  /\ tasks' = [tasks EXCEPT ![r].working = @ - 1, ![r].reported = @ + 1]
  /\ UNCHANGED <<run, spent, call, swept, audits, announced, warnings, faults>>

\* A statement of a call throws and the call ends there.  (A statement that was applied
\* and throws all the same is its own step followed by this one.)
CallFails(c) ==
  /\ call[c] # Idle
  /\ Fault
  /\ Return(c)
  /\ UNCHANGED <<run, tasks, spent, swept, audits, announced, warnings>>

\* The audit of an expired run throws: the loop ends there.
SweepFails ==
  /\ swept # {}
  /\ Fault
  /\ swept' = {}
  /\ UNCHANGED <<run, tasks, spent, call, audits, announced, warnings>>

\* The orchestrator is restarted: its calls and its sweep are lost.
Crash ==
  /\ Fault
  /\ call' = [c \in Call |-> Idle]
  /\ swept' = {}
  /\ UNCHANGED <<run, tasks, spent, audits, announced, warnings>>

----------------------------------------------------------------------------
Activate(c) ==
  \/ Preflight(c) \/ Insert(c) \/ Dispatch(c) \/ DispatchEnds(c)
  \/ RecordDispatched(c) \/ AuditActivated(c) \/ AnnounceActivated(c)

Deactivate(c) == ReadRun(c) \/ Cancel(c) \/ AuditCancelled(c) \/ AnnounceCancelled(c)

ApplyResult(c) == Accrue(c) \/ Halt(c) \/ AuditHalted(c) \/ AnnounceExhausted(c) \/ Warn(c)

ExpireOverdueRuns == Sweep \/ SweepFails \/ \E r \in Run : SweepAudits(r)

Next ==
  \/ \E c \in Operator : Activate(c) \/ Deactivate(c)
  \/ \E c \in Consumer : ApplyResult(c)
  \/ \E c \in Call : CallFails(c)
  \/ \E r \in Run : WindowCloses(r) \/ TaskStarts(r) \/ TaskDropped(r) \/ TaskEnds(r)
  \/ ExpireOverdueRuns
  \/ Crash

Spec == Init /\ [][Next]_vars

\* Windows close, the timer keeps firing, agents and consumers go on.  Nothing promises
\* that an operator does anything.
Fairness ==
  /\ \A r \in Run : /\ WF_vars(WindowCloses(r)) /\ WF_vars(TaskEnds(r))
                    /\ WF_vars(TaskStarts(r) \/ TaskDropped(r))
  /\ \A c \in Consumer : WF_vars(ApplyResult(c))
  /\ WF_vars(Sweep)

FairSpec == Spec /\ Fairness

----------------------------------------------------------------------------
(* Properties *)

\* Rail 4, single-flight: no interleaving of two activations, with stale preflights and
\* with whatever ends a run meanwhile, leaves two runs active.
SingleFlight == Cardinality(Active) <= 1

\* Rail 1: a run that spent its budget is not left running by accrue: the call that saw
\* it is about to halt the run, unless that call was lost.
OverBudgetRunIsHalting ==
  \A r \in Active :
    run[r].accrued >= Limit =>
      faults > 0 \/ \E c \in Consumer : call[c].run = r /\ call[c].pc = "halt"

\* The early warning: no run is warned of below 80%, and a run that is past it has its one
\* warning, sent or about to be, whatever results are applied at the same time.  A run whose
\* cost once was 80% exactly may have none or two: there the doubles of accrue decide.
Told(r) == warnings[r] + Cardinality({c \in Consumer : call[c].run = r /\ call[c].pc = "warn"})
WarnedAtMark ==
  \A r \in Run :
    /\ Told(r) > 0 => 10 * run[r].accrued >= 8 * Limit
    /\ Told(r) <= IF spent[r].onMark THEN 2 ELSE 1
    /\ /\ r \in Active /\ ~Exhausted(run[r].accrued)
       /\ 10 * run[r].accrued >= 8 * Limit /\ ~spent[r].onMark
       => Told(r) = 1 \/ faults > 0

\* No update of the budget column loses the cost another one added: activate records its
\* dispatch while consumers already add the first results.
CostConserved == \A r \in Run : run[r].accrued = spent[r].cost

\* A run that is over has its end in the ledger, or the call that ended it is about to
\* write it, unless that call was lost; and what is announced is in the ledger, whatever
\* fails between the two.
EndedRunsAudited ==
  /\ \A r \in Run :
       run[r].status \in Ended =>
         \/ audits[r] \cap {"cancelled", "halted"} # {}
         \/ r \in swept
         \/ \E c \in Call : call[c].run = r /\ call[c].pc \in {"auditCancelled", "auditHalted"}
         \/ faults > 0
  /\ \A r \in Run :
       /\ "running" \in announced[r] => "activated" \in audits[r]
       /\ "cancelled" \in announced[r] => "cancelled" \in audits[r]
       /\ "exhausted" \in announced[r] => "halted" \in audits[r]

\* A run that is over is never active again, though activate is still writing its row
\* and the updates that end a run overwrite one another.
NeverReopened ==
  [][\A r \in Run : run[r].status \in Ended => run'[r].status \in Ended]_vars

\* Rail 2: every run ends by itself, also one whose activation was lost half-way.
EventuallyEnds == \A r \in Run : run[r].status = "running" ~> run[r].status \in Ended
=============================================================================
