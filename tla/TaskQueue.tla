----------------------------- MODULE TaskQueue -----------------------------
(***************************************************************************)
(* The shared task queue (table agent_tasks) and the agent processes that  *)
(* drain it: class TaskQueue in packages/agent-runtime/src/bus.ts and      *)
(* class Agent in packages/agent-runtime/src/agent.ts.                     *)
(*                                                                         *)
(* Every SQL statement is one step, because Postgres runs it atomically;   *)
(* everything between two awaits of a process is one step with the         *)
(* statement before it.  A worker is one running process of one agent; a   *)
(* delivery is one call of runTask, from the claim of a row to the         *)
(* `finally` that decrements `active`.                                     *)
(*                                                                         *)
(* Time is abstracted to the two comparisons the code makes with it:       *)
(* row.visible is `visible_at <= now()` and expired[t] is isExpired(task). *)
(* gen_random_uuid() is a value no earlier claim of the row was given: the *)
(* number of the claim.                                                    *)
(***************************************************************************)
EXTENDS Naturals, FiniteSets

CONSTANTS
  Task,         \* the rows that may be inserted into agent_tasks
  Worker,       \* the running processes of the agent these rows are for
  Priority,     \* AgentTask.priority of each task
  MaxAttempts,  \* AgentTask.maxAttempts (3 unless the dispatcher is told otherwise)
  Concurrency,  \* the concurrency of each process
  MaxBatch,     \* the most rows one receive() claims (10 in the code)
  MaxLapses,    \* bound: how often the lease of each task may lapse under a working holder
  MaxFaults     \* bound: crashes, drains and failed database calls, in all

ASSUME QueueAssumption ==
  /\ Priority \in [Task -> Nat]
  /\ MaxAttempts \in Nat \ {0}
  /\ Concurrency \in Nat \ {0}
  /\ MaxBatch \in Nat \ {0}
  /\ MaxLapses \in [Task -> Nat]
  /\ MaxFaults \in Nat
  /\ IsFiniteSet(Task)

VARIABLES
  row,         \* agent_tasks, by task
  expired,     \* body.expiresAt has passed
  deliveries,  \* the calls of runTask that have not returned
  loop,        \* where each process stands in the loop of start()
  capacity,    \* the argument of the receive() each process is waiting for
  draining,    \* the processes that got SIGTERM or SIGINT
  events,      \* agent_events: task.completed and task.failed, by task
  lapses,      \* leases that lapsed under a working holder, by task
  faults       \* crashes, drains and failed calls so far

vars == <<row, expired, deliveries, loop, capacity, draining, events, lapses, faults>>

RowStatus  == {"unsent", "pending", "in_flight", "deleted"}
LoopState  == {"top", "polling", "stopped", "down"}
\* The statement a delivery is about to run.  A permanently failed and an expired
\* task take the same two statements: ack, then the event task.failed.
DeliveryPc == {"received", "handling", "ackSucceeded", "reportSucceeded",
               "ackFailed", "reportFailed", "nack"}

Row      == [status : RowStatus, leaseToken : Nat, receiveCount : Nat, visible : BOOLEAN]
Delivery == [task : Task, token : Nat, attempt : Nat, worker : Worker, pc : DeliveryPc]

TypeOK ==
  /\ row \in [Task -> Row]
  /\ expired \in [Task -> BOOLEAN]
  /\ deliveries \subseteq Delivery
  /\ loop \in [Worker -> LoopState]
  /\ capacity \in [Worker -> Nat]
  /\ draining \subseteq Worker
  /\ events \in [Task -> [completed : Nat, failed : Nat]]
  /\ lapses \in [Task -> Nat]
  /\ faults \in Nat

Init ==
  /\ row = [t \in Task |-> [status |-> "unsent", leaseToken |-> 0,
                            receiveCount |-> 0, visible |-> FALSE]]
  /\ expired = [t \in Task |-> FALSE]
  /\ deliveries = {}
  /\ loop = [w \in Worker |-> "top"]
  /\ capacity = [w \in Worker |-> 0]
  /\ draining = {}
  /\ events = [t \in Task |-> [completed |-> 0, failed |-> 0]]
  /\ lapses = [t \in Task |-> 0]
  /\ faults = 0

----------------------------------------------------------------------------
(* Rows, leases and deliveries *)

Stored(t) == row[t].status \in {"pending", "in_flight"}
\* Mutant: the claim asks for status = 'pending', so a lapsed lease is never found.
VisibleIfPending == {t \in Task : row[t].status = "pending" /\ row[t].visible}

Visible   == {t \in Task : Stored(t) /\ row[t].visible}
Active(w) == {d \in deliveries : d.worker = w}
Least(a, b) == IF a < b THEN a ELSE b

\* WHERE id = $1 AND lease_token = $2
Matches(d) == Stored(d.task) /\ row[d.task].leaseToken = d.token

\* Some process still works under the lease the row carries.
Held(t) == \E d \in deliveries : d.task = t /\ Matches(d)

\* Mutants: a claim that keeps the token; a claim without a visibility timeout.
ClaimedSameToken(r) == [r EXCEPT !.status = "in_flight", !.receiveCount = @ + 1, !.visible = FALSE]
ClaimedStillVisible(r) == [status |-> "in_flight", leaseToken |-> r.receiveCount + 1,
                           receiveCount |-> r.receiveCount + 1, visible |-> TRUE]

Claimed(r) == [status |-> "in_flight", leaseToken |-> r.receiveCount + 1,
               receiveCount |-> r.receiveCount + 1, visible |-> FALSE]

MoveTo(d, pc) == deliveries' = (deliveries \ {d}) \cup {[d EXCEPT !.pc = pc]}
Finish(d)     == deliveries' = deliveries \ {d}

Fault == faults < MaxFaults /\ faults' = faults + 1

----------------------------------------------------------------------------
(* The producer and the passing of time *)

\* TaskQueue.send: the row is claimable at once (visible_at DEFAULT now()).
Send(t) ==
  /\ row[t].status = "unsent"
  /\ row' = [row EXCEPT ![t].status = "pending", ![t].visible = TRUE]
  /\ UNCHANGED <<expired, deliveries, loop, capacity, draining, events, lapses, faults>>

\* The deadline of the task passes.
Expire(t) ==
  /\ Stored(t)
  /\ ~expired[t]
  /\ expired' = [expired EXCEPT ![t] = TRUE]
  /\ UNCHANGED <<row, deliveries, loop, capacity, draining, events, lapses, faults>>

\* visible_at of a nacked row passes.
BackoffElapses(t) ==
  /\ row[t].status = "pending"
  /\ ~row[t].visible
  /\ row' = [row EXCEPT ![t].visible = TRUE]
  /\ UNCHANGED <<expired, deliveries, loop, capacity, draining, events, lapses, faults>>

\* visible_at of a claimed row passes: its holder crashed, or is slower than the
\* visibility timeout and did not call keepAlive in time.
LeaseLapses(t) ==
  /\ row[t].status = "in_flight"
  /\ ~row[t].visible
  /\ row' = [row EXCEPT ![t].visible = TRUE]
  /\ IF Held(t)
     THEN lapses[t] < MaxLapses[t] /\ lapses' = [lapses EXCEPT ![t] = @ + 1]
     ELSE UNCHANGED lapses
  /\ UNCHANGED <<expired, deliveries, loop, capacity, draining, events, faults>>

----------------------------------------------------------------------------
(* The receive loop of Agent.start *)

\* Mutant: the capacity forgets the tasks that still run.
PollAtFullCapacity(w) ==
  /\ loop[w] = "top"
  /\ w \notin draining
  /\ Cardinality(Active(w)) < Concurrency
  /\ loop' = [loop EXCEPT ![w] = "polling"]
  /\ capacity' = [capacity EXCEPT ![w] = Least(Concurrency, MaxBatch)]
  /\ UNCHANGED <<row, expired, deliveries, draining, events, lapses, faults>>

\* capacity = concurrency - active; receive(min(capacity, 10)).  At no capacity the
\* process sleeps and looks again, which changes nothing.
Poll(w) ==
  /\ loop[w] = "top"
  /\ w \notin draining
  /\ Cardinality(Active(w)) < Concurrency
  /\ loop' = [loop EXCEPT ![w] = "polling"]
  /\ capacity' = [capacity EXCEPT ![w] = Least(Concurrency - Cardinality(Active(w)), MaxBatch)]
  /\ UNCHANGED <<row, expired, deliveries, draining, events, lapses, faults>>

\* The rows the claim statement may pick with this limit: ORDER BY priority DESC.
Batches(limit) ==
  {B \in SUBSET Visible :
     /\ Cardinality(B) = Least(limit, Cardinality(Visible))
     /\ \A t \in B, u \in Visible \ B : Priority[t] >= Priority[u]}

ClaimRows(B) == row' = [t \in Task |-> IF t \in B THEN Claimed(row[t]) ELSE row[t]]

\* RETURNING id, body, receive_count, lease_token: what runTask gets of a claimed row.
NewDelivery(t, w) == [task |-> t, token |-> Claimed(row[t]).leaseToken,
                      attempt |-> Claimed(row[t]).receiveCount,
                      worker |-> w, pc |-> "received"]

\* The claim statement finds rows: each starts a runTask of its own.
Claim(w) ==
  /\ loop[w] = "polling"
  /\ Visible # {}
  /\ \E B \in Batches(capacity[w]) :
       /\ ClaimRows(B)
       /\ deliveries' = deliveries \cup {NewDelivery(t, w) : t \in B}
  /\ loop' = [loop EXCEPT ![w] = "top"]
  /\ capacity' = [capacity EXCEPT ![w] = 0]
  /\ UNCHANGED <<expired, draining, events, lapses, faults>>

\* waitSeconds pass without a row: receive returns [].
ReceiveEmpty(w) ==
  /\ loop[w] = "polling"
  /\ Visible = {}
  /\ loop' = [loop EXCEPT ![w] = "top"]
  /\ capacity' = [capacity EXCEPT ![w] = 0]
  /\ UNCHANGED <<row, expired, deliveries, draining, events, lapses, faults>>

\* receive throws and the loop goes on (state 'degraded').  The statement may have
\* been applied all the same: its rows are then leased to nobody.
ReceiveFails(w) ==
  /\ loop[w] = "polling"
  /\ Fault
  /\ \/ UNCHANGED row
     \/ Visible # {} /\ \E B \in Batches(capacity[w]) : ClaimRows(B)
  /\ loop' = [loop EXCEPT ![w] = "top"]
  /\ capacity' = [capacity EXCEPT ![w] = 0]
  /\ UNCHANGED <<expired, deliveries, draining, events, lapses>>

----------------------------------------------------------------------------
(* Agent.runTask *)

\* isExpired is asked once, before the work.
Begin(d) ==
  /\ d.pc = "received"
  /\ MoveTo(d, IF expired[d.task] THEN "ackFailed" ELSE "handling")
  /\ UNCHANGED <<row, expired, loop, capacity, draining, events, lapses, faults>>

\* ctx.keepAlive during the work: TaskQueue.heartbeat.
KeepAlive(d) ==
  /\ d.pc = "handling"
  /\ Matches(d)
  /\ row' = [row EXCEPT ![d.task].visible = FALSE]
  /\ UNCHANGED <<expired, deliveries, loop, capacity, draining, events, lapses, faults>>

HandleReturns(d) ==
  /\ d.pc = "handling"
  /\ MoveTo(d, "ackSucceeded")
  /\ UNCHANGED <<row, expired, loop, capacity, draining, events, lapses, faults>>

\* Mutant: one attempt too many.
AfterThrowOffByOne(d, retryable) ==
  IF retryable /\ d.attempt <= MaxAttempts THEN "nack" ELSE "ackFailed"

\* The catch block: a transient fault goes back while attempts are left.
AfterThrow(d, retryable) ==
  IF retryable /\ d.attempt < MaxAttempts THEN "nack" ELSE "ackFailed"

HandleThrows(d) ==
  /\ d.pc = "handling"
  /\ \E retryable \in BOOLEAN : MoveTo(d, AfterThrow(d, retryable))
  /\ UNCHANGED <<row, expired, loop, capacity, draining, events, lapses, faults>>

\* TaskQueue.ack: DELETE, a no-op under a stale token.
Ack(d) ==
  /\ d.pc \in {"ackSucceeded", "ackFailed"}
  /\ row' = IF Matches(d)
            THEN [row EXCEPT ![d.task].status = "deleted", ![d.task].visible = FALSE]
            ELSE row
  /\ MoveTo(d, IF d.pc = "ackSucceeded" THEN "reportSucceeded" ELSE "reportFailed")
  /\ UNCHANGED <<expired, loop, capacity, draining, events, lapses, faults>>

\* Mutant: a nack that does not present its token.
NackWithoutToken(d) ==
  /\ d.pc = "nack"
  /\ row' = IF Stored(d.task)
            THEN [row EXCEPT ![d.task].status = "pending", ![d.task].visible = FALSE]
            ELSE row
  /\ Finish(d)
  /\ UNCHANGED <<expired, loop, capacity, draining, events, lapses, faults>>

\* TaskQueue.nack: pending again after a backoff, a no-op under a stale token.  The
\* statement does not clear lease_token.
Nack(d) ==
  /\ d.pc = "nack"
  /\ row' = IF Matches(d)
            THEN [row EXCEPT ![d.task].status = "pending", ![d.task].visible = FALSE]
            ELSE row
  /\ Finish(d)
  /\ UNCHANGED <<expired, loop, capacity, draining, events, lapses, faults>>

Publish(d) ==
  events' = IF d.pc = "reportSucceeded"
            THEN [events EXCEPT ![d.task].completed = @ + 1]
            ELSE [events EXCEPT ![d.task].failed = @ + 1]

\* EventBus.publish of task.completed or task.failed; runTask returns.
Report(d) ==
  /\ d.pc \in {"reportSucceeded", "reportFailed"}
  /\ Publish(d)
  /\ Finish(d)
  /\ UNCHANGED <<row, expired, loop, capacity, draining, lapses, faults>>

\* ack and report of a success stand inside the try: when one of them throws, work
\* that is done goes through the catch block.  The statement may have been applied
\* or not (an applied ack that throws is Ack followed by this step).
SuccessPathThrows(d) ==
  /\ d.pc \in {"ackSucceeded", "reportSucceeded"}
  /\ Fault
  /\ \/ UNCHANGED events
     \/ d.pc = "reportSucceeded" /\ Publish(d)
  /\ \E retryable \in BOOLEAN : MoveTo(d, AfterThrow(d, retryable))
  /\ UNCHANGED <<row, expired, loop, capacity, draining, lapses>>

----------------------------------------------------------------------------
(* The life of a process *)

\* requestDrain; the receive() a process is in is not interrupted.
Drain(w) ==
  /\ loop[w] \in {"top", "polling"}
  /\ w \notin draining
  /\ Fault
  /\ draining' = draining \cup {w}
  /\ UNCHANGED <<row, expired, deliveries, loop, capacity, events, lapses>>

\* The loop ends and start() returns, with no task left or at the drain deadline; a
\* task that is still running then goes on until the process is killed.
Stop(w) ==
  /\ loop[w] = "top"
  /\ w \in draining
  /\ loop' = [loop EXCEPT ![w] = "stopped"]
  /\ UNCHANGED <<row, expired, deliveries, capacity, draining, events, lapses, faults>>

\* The process dies where it stands: SIGKILL, or an error that leaves runTask (the
\* ack or report of a failure, a nack), which nothing catches and Node ends on.
Crash(w) ==
  /\ loop[w] # "down"
  /\ Fault
  /\ deliveries' = deliveries \ Active(w)
  /\ loop' = [loop EXCEPT ![w] = "down"]
  /\ capacity' = [capacity EXCEPT ![w] = 0]
  /\ UNCHANGED <<row, expired, draining, events, lapses>>

\* The platform starts a new process in its place.
Restart(w) ==
  /\ loop[w] \in {"stopped", "down"}
  /\ Active(w) = {}
  /\ loop' = [loop EXCEPT ![w] = "top"]
  /\ draining' = draining \ {w}
  /\ UNCHANGED <<row, expired, deliveries, capacity, events, lapses, faults>>

----------------------------------------------------------------------------
Time(t) == Expire(t) \/ BackoffElapses(t) \/ LeaseLapses(t)

Receive(w) == Poll(w) \/ Claim(w) \/ ReceiveEmpty(w) \/ ReceiveFails(w)

\* The steps of runTask that nothing but a crash can keep from happening.
RunTask(d) ==
  Begin(d) \/ HandleReturns(d) \/ HandleThrows(d) \/ Ack(d) \/ Nack(d) \/ Report(d)

Lifecycle(w) == Drain(w) \/ Stop(w) \/ Crash(w) \/ Restart(w)

Next ==
  \/ \E t \in Task : Send(t) \/ Time(t)
  \/ \E w \in Worker : Receive(w) \/ Lifecycle(w)
  \/ \E d \in deliveries : RunTask(d) \/ KeepAlive(d) \/ SuccessPathThrows(d)

Spec == Init /\ [][Next]_vars

\* Time passes; a process that runs takes its next step; a handler returns or throws;
\* the platform replaces a process that ended.  Nothing promises a send, a deadline, a
\* keepAlive, a lapse under a working holder, or a fault.
Fairness ==
  /\ \A t \in Task : WF_vars(BackoffElapses(t)) /\ WF_vars(~Held(t) /\ LeaseLapses(t))
  /\ \A w \in Worker :
       /\ WF_vars(Poll(w)) /\ WF_vars(Claim(w)) /\ WF_vars(ReceiveEmpty(w))
       /\ WF_vars(Stop(w)) /\ WF_vars(Restart(w))
       /\ \A t \in Task : WF_vars(\E d \in Active(w) : d.task = t /\ RunTask(d))

FairSpec == Spec /\ Fairness

----------------------------------------------------------------------------
(* Properties *)

\* At most one running delivery can still move a row: no two hold the same token, and a
\* token the row carries is held only while the row is claimed.  (nack leaves the token
\* in the pending row, so this rests on runTask never using its lease after nack.)
OneLeaseHolder ==
  \A d \in deliveries :
    /\ \A e \in deliveries : d.task = e.task /\ d.token = e.token => d = e
    /\ Matches(d) => row[d.task].status = "in_flight"

\* A row waits for another try only while it has one left, whatever stale delivery of
\* an earlier attempt reports back and when.
PendingHasAttemptsLeft ==
  \A t \in Task : row[t].status = "pending" => row[t].receiveCount < MaxAttempts

\* A task is reported completed, or still being worked on, once for its first lease and
\* once more for each lease that lapsed under a working holder - whatever crashed,
\* failed or was retried: losing a process never duplicates a completion.
CompletionsNeedLapses ==
  \A t \in Task :
    events[t].completed + Cardinality({d \in deliveries : d.task = t /\ d.pc \in
                                         {"received", "handling", "ackSucceeded"}})
      <= 1 + lapses[t]

\* No process runs more tasks than its concurrency, counting those the receive() it is
\* waiting for may bring: `capacity` is read before that await and used after it.
ConcurrencyCeiling ==
  \A w \in Worker : Cardinality(Active(w)) + capacity[w] <= Concurrency

\* A row that left the queue has its event, or a delivery about to publish one.  A failure
\* takes the events of the tasks of one process at most: of those a process was about to
\* announce when it died, or of the success whose report threw.
Announced(t) ==
  \/ events[t].completed + events[t].failed > 0
  \/ \E d \in deliveries : d.task = t /\ d.pc \in {"reportSucceeded", "reportFailed"}
Unannounced == {t \in Task : row[t].status = "deleted" /\ ~Announced(t)}
NoSilentSettlement == Cardinality(Unannounced) <= Concurrency * faults

\* Outcomes and their announcements agree: no completion without a lease of its own, and
\* no more settlements without an announcement than failures account for.
OutcomesAccounted == CompletionsNeedLapses /\ NoSilentSettlement

\* Every task that is sent leaves the queue, whatever crashes, lapses and retries.
EventuallySettled ==
  \A t \in Task : row[t].status = "pending" ~> row[t].status = "deleted"

\* The queue keeps the promises of Worklist: see there.
TaskState(t) ==
  CASE row[t].status = "unsent"    -> "unsent"
    [] row[t].status = "pending"   -> "ready"
    [] row[t].status = "in_flight" -> "leased"
    [] row[t].status = "deleted"   -> "closed"

Abstract == INSTANCE Worklist WITH
  state       <- [t \in Task |-> TaskState(t)],
  leases      <- [t \in Task |-> row[t].receiveCount],
  completions <- [t \in Task |-> events[t].completed]

ImplementsWorklist == Abstract!Spec

\* AgentTask.priority (packages/core/src/types.ts): "Lower number runs first when the
\* agent drains its queue."
LowerNumberFirst ==
  [][\A t, u \in Task :
       /\ t \in Visible /\ row'[t].receiveCount > row[t].receiveCount
       /\ u \in Visible /\ row'[u].receiveCount = row[u].receiveCount
       => Priority[t] <= Priority[u]]_vars
=============================================================================
