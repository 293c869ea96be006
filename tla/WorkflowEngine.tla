--------------------------- MODULE WorkflowEngine ---------------------------
(***************************************************************************)
(* Execution of a workflow: executeWorkflow and runNode                    *)
(* (packages/workflow-engine/src/executor.ts), the effects they are given  *)
(* (services/orchestrator/src/effects.ts) and the route that starts and    *)
(* records an execution (routes/index.ts).                                 *)
(*                                                                         *)
(* Each effect - one SQL statement, for notify two - is one step, so that  *)
(* executions interleave where the code awaits.  What a node computes of   *)
(* an item (a comparison, a score, a new field) is part of the workflow's  *)
(* definition here: which items a filter keeps, which case an item takes.  *)
(***************************************************************************)
EXTENDS Integers, FiniteSets, Sequences

CONSTANTS
  Execution,  \* requests to execute a workflow
  Node, Trigger,
  Item,       \* the observations of the last 24 hours, numbered from the newest
  Source,
  SourceOf,   \* the source of an item
  Label, Unlabelled,
  Workflow,   \* the definitions validateWorkflow accepted
  Price,      \* estimatedCostUsd of an agent task
  NoWorkflow, NoFrame,
  MaxFaults   \* bound: effects that fail, executions that die or run out of time, in all

Blank == 0    \* the trigger's item, {}
Data  == Item \cup {Blank}

Plain   == {"trigger", "score", "delay", "transform"}  \* the items go on as they are
Acting  == {"agent_task", "archive", "notify"}
Calling == Acting \cup {"source", "score"}             \* an effect is awaited, which may throw
Type    == Plain \cup Calling \cup {"filter", "branch"}

Definition ==
  [type : [Node -> Type], out : [Node -> Seq([to : Node, label : Label \cup {Unlabelled}])],
   keeps : [Node -> SUBSET Data], case : [Node -> [Data -> Label \cup {Unlabelled}]],
   dedupes : [Node -> BOOLEAN], maxNodes : Nat, maxCost : Nat]

ASSUME WorkflowAssumption ==
  /\ Item \subseteq Nat \ {0} /\ IsFiniteSet(Item) /\ Item # {}
  /\ SourceOf \in [Data -> Source]
  /\ Trigger \in Node
  /\ Unlabelled \notin Label
  /\ Workflow \subseteq Definition
  /\ NoWorkflow \notin Workflow
  /\ Price \in Nat
  /\ MaxFaults \in Nat

VARIABLES
  exec,     \* the executions
  tasks,    \* rows of agent_tasks: what agent_task and archive nodes dispatched
  notices,  \* rows of notifications
  faults

vars == <<exec, tasks, notices, faults>>

Pc     == {"idle", "turn", "node", "send", "record", "recorded", "dead"}
Status == {"none", "completed", "failed", "halted_limits"}
Branch == [label : Label \cup {Unlabelled}, items : SUBSET Data]
Frame  == [node : Node, items : SUBSET Data]
Step   == [node : Node, items : SUBSET Data, status : {"ok", "skipped", "failed"},
           branches : Seq(Branch)]
Task   == [exec : Execution, step : Nat, node : Node, item : Data]
Notice == [of : Task, status : {"queued"}, fresh : BOOLEAN]
          \cup [of : Task, status : {"suppressed"}, fresh : {FALSE}]

ExecutionState ==
  [pc : Pc,
   workflow : Workflow \cup {NoWorkflow},
   dryRun : BOOLEAN,
   queue : Seq(Frame),
   late : BOOLEAN,               \* more than maxDurationSeconds have passed
   cost : Nat,
   steps : Seq(Step),            \* one for each node executed
   frame : Frame \cup {NoFrame}, \* what runNode works on
   todo : SUBSET Data,           \* the items its loop has still to come to
   nodeCost : Nat,
   repeated : BOOLEAN,           \* notify: what its SELECT found
   status : Status]

NotStarted ==
  [pc |-> "idle", workflow |-> NoWorkflow, dryRun |-> FALSE, queue |-> <<>>, late |-> FALSE,
   cost |-> 0, steps |-> <<>>, frame |-> NoFrame, todo |-> {}, nodeCost |-> 0,
   repeated |-> FALSE, status |-> "none"]

TypeOK ==
  /\ exec \in [Execution -> ExecutionState]
  /\ tasks \subseteq Task
  /\ notices \subseteq Notice
  /\ faults \in Nat

Init ==
  /\ exec = [x \in Execution |-> NotStarted]
  /\ tasks = {}
  /\ notices = {}
  /\ faults = 0

Fault == faults < MaxFaults /\ faults' = faults + 1

Becomes(x, e) == exec' = [exec EXCEPT ![x] = e]

\* What an execution is busy with.
TypeAt(x) == exec[x].workflow.type[exec[x].frame.node]
Acts(x)   == TypeAt(x) \in Acting /\ ~exec[x].dryRun

\* for (const item of items): the newest first.
IsNext(x, i) == i \in exec[x].todo /\ \A j \in exec[x].todo : i <= j

----------------------------------------------------------------------------
(* POST /api/workflows/:id/execute, executeWorkflow *)

\* The definition is the one the row holds when it is read; saving it later changes nothing.
Begin(x, w, dry) ==
  /\ exec[x].pc = "idle"
  /\ Becomes(x, [NotStarted EXCEPT
       !.pc = "turn", !.workflow = w, !.dryRun = dry,
       !.queue = <<[node |-> Trigger, items |-> {Blank}]>>])
  /\ UNCHANGED <<tasks, notices, faults>>

Late(x) ==
  /\ exec[x].pc = "turn"
  /\ ~exec[x].late
  /\ Becomes(x, [exec[x] EXCEPT !.late = TRUE])
  /\ Fault
  /\ UNCHANGED <<tasks, notices>>

Exhausted(x) ==
  \/ Len(exec[x].steps) >= exec[x].workflow.maxNodes
  \/ exec[x].late
  \/ exec[x].cost > exec[x].workflow.maxCost

Finish(x, s) == Becomes(x, [exec[x] EXCEPT !.pc = "record", !.status = s])

Halt(x) ==
  /\ exec[x].pc = "turn"
  /\ exec[x].queue # <<>>
  /\ Exhausted(x)
  /\ Finish(x, "halted_limits")
  /\ UNCHANGED <<tasks, notices, faults>>

Complete(x) ==
  /\ exec[x].pc = "turn"
  /\ exec[x].queue = <<>>
  /\ Finish(x, "completed")
  /\ UNCHANGED <<tasks, notices, faults>>

\* queue.shift(), nodesExecuted++
Take(x) ==
  /\ exec[x].pc = "turn"
  /\ exec[x].queue # <<>>
  /\ ~Exhausted(x)
  /\ Becomes(x, [exec[x] EXCEPT
       !.pc = "node", !.frame = Head(exec[x].queue), !.queue = Tail(@),
       !.todo = Head(exec[x].queue).items, !.nodeCost = 0])
  /\ UNCHANGED <<tasks, notices, faults>>

----------------------------------------------------------------------------
(* What a node hands on *)

\* S as a sequence, given what comes before each of its elements.
Listed(S, before) ==
  [i \in 1 .. Cardinality(S) |-> CHOOSE s \in S : Cardinality(before[s]) = i - 1]

\* Mutant: the first edge only.
FirstEdge(w, n, b) == {e \in DOMAIN w.out[n] : e = 1 /\ b.label \in {Unlabelled, w.out[n][e].label}}

\* The edges a branch of the outcome goes along: those with its label, all if it has none.
Matching(w, n, b) == {e \in DOMAIN w.out[n] : b.label \in {Unlabelled, w.out[n][e].label}}

\* for each branch that has items, for each edge: a branch and an edge.
Ways(w, n, branches) ==
  {p \in (DOMAIN branches) \X (DOMAIN w.out[n]) :
     branches[p[1]].items # {} /\ p[2] \in Matching(w, n, branches[p[1]])}
Earlier(p, q) == p[1] < q[1] \/ (p[1] = q[1] /\ p[2] < q[2])

\* queue.push for each of them.
Pushed(w, n, branches) ==
  LET P    == Ways(w, n, branches)
      ways == Listed(P, [p \in P |-> {q \in P : Earlier(q, p)}])
      Along(p) == [node |-> w.out[n][p[2]].to, items |-> branches[p[1]].items]
  IN  [i \in DOMAIN ways |-> Along(ways[i])]

\* The node has run: its step is logged, its items are handed on.
Produce(x, status, branches, cost) ==
  LET f == exec[x].frame
  IN  Becomes(x, [exec[x] EXCEPT
        !.pc = "turn", !.frame = NoFrame, !.todo = {}, !.nodeCost = 0,
        !.cost = @ + cost,
        !.steps = Append(@, [node |-> f.node, items |-> f.items, status |-> status,
                             branches |-> branches]),
        !.queue = @ \o Pushed(exec[x].workflow, f.node, branches)])

All(items) == <<[label |-> Unlabelled, items |-> items]>>

AtNode(x, types) == exec[x].pc = "node" /\ TypeAt(x) \in types

PassOn(x) ==
  /\ AtNode(x, Plain)
  /\ Produce(x, "ok", All(exec[x].frame.items), 0)
  /\ UNCHANGED <<tasks, notices, faults>>

\* What came in is dropped: the node's items are those the query finds.
Fetch(x, found) ==
  /\ AtNode(x, {"source"})
  /\ Produce(x, "ok", All(found), 0)
  /\ UNCHANGED <<tasks, notices, faults>>

Filter(x) ==
  /\ AtNode(x, {"filter"})
  /\ Produce(x, "ok", All(exec[x].frame.items \cap exec[x].workflow.keeps[exec[x].frame.node]), 0)
  /\ UNCHANGED <<tasks, notices, faults>>

\* A bucket for each label that an item takes, in the order in which they come up.
Openers(items, case) == {i \in items : \A j \in items : case[j] = case[i] => i <= j}
Buckets(items, case) ==
  LET F     == Openers(items, case)
      first == Listed(F, [i \in F |-> {j \in F : j < i}])
      Bucket(f) == [label |-> case[f], items |-> {i \in items : case[i] = case[f]}]
  IN  [k \in DOMAIN first |-> Bucket(first[k])]

Divide(x) ==
  /\ AtNode(x, {"branch"})
  /\ \E buckets \in {Buckets(exec[x].frame.items, exec[x].workflow.case[exec[x].frame.node])} :
       Produce(x, "ok", buckets, 0)
  /\ UNCHANGED <<tasks, notices, faults>>

\* Mutant: a node without effects hands nothing on.
SkipAndStop(x) ==
  /\ AtNode(x, Acting)
  /\ exec[x].dryRun
  /\ Produce(x, "skipped", All({}), 0)
  /\ UNCHANGED <<tasks, notices, faults>>

\* if (options.dryRun)
Skip(x) ==
  /\ AtNode(x, Acting)
  /\ exec[x].dryRun
  /\ Produce(x, "skipped", All(exec[x].frame.items), 0)
  /\ UNCHANGED <<tasks, notices, faults>>

----------------------------------------------------------------------------
(* The effects of agent_task, archive and notify, item by item *)

Row(x, i) == [exec |-> x, step |-> Len(exec[x].steps) + 1, node |-> exec[x].frame.node, item |-> i]

\* dispatchAgentTask, archive: Dispatcher.dispatch
Dispatch(x, i) ==
  /\ AtNode(x, {"agent_task", "archive"})
  /\ Acts(x)
  /\ IsNext(x, i)
  /\ tasks' = tasks \cup {Row(x, i)}
  /\ Becomes(x, [exec[x] EXCEPT
       !.todo = @ \ {i},
       !.nodeCost = IF TypeAt(x) = "agent_task" THEN @ + Price ELSE @])
  /\ UNCHANGED <<notices, faults>>

\* Mutant: a key for each item.
KeyOfItem(n, i) == <<n, i>>

\* dedupeKey
Key(n, i) == <<n, SourceOf[i]>>

\* The SELECT of notify.
Look(x, i) ==
  /\ AtNode(x, {"notify"})
  /\ Acts(x)
  /\ IsNext(x, i)
  /\ Becomes(x, [exec[x] EXCEPT
       !.pc = "send",
       !.repeated = /\ exec[x].workflow.dedupes[exec[x].frame.node]
                    /\ \E r \in notices :
                         r.fresh /\ Key(r.of.node, r.of.item) = Key(exec[x].frame.node, i)])
  /\ UNCHANGED <<tasks, notices, faults>>

NoticeRow(x, i) ==
  IF exec[x].repeated THEN [of |-> Row(x, i), fresh |-> FALSE, status |-> "suppressed"]
                      ELSE [of |-> Row(x, i), fresh |-> TRUE, status |-> "queued"]

\* Its INSERT.
Send(x, i) ==
  /\ exec[x].pc = "send"
  /\ IsNext(x, i)
  /\ notices' = notices \cup {NoticeRow(x, i)}
  /\ Becomes(x, [exec[x] EXCEPT !.pc = "node", !.todo = @ \ {i}, !.repeated = FALSE])
  /\ UNCHANGED <<tasks, faults>>

\* Mutants: the cost of one task is charged; the loop ends after its first item.
ActedForOnePrice(x) ==
  /\ AtNode(x, Acting)
  /\ Acts(x)
  /\ exec[x].todo = {}
  /\ Produce(x, "ok", All(exec[x].frame.items), IF TypeAt(x) = "agent_task" THEN Price ELSE 0)
  /\ UNCHANGED <<tasks, notices, faults>>

ActedOnSome(x) ==
  /\ AtNode(x, Acting)
  /\ Acts(x)
  /\ exec[x].todo # exec[x].frame.items
  /\ Produce(x, "ok", All(exec[x].frame.items), exec[x].nodeCost)
  /\ UNCHANGED <<tasks, notices, faults>>

Acted(x) ==
  /\ AtNode(x, Acting)
  /\ Acts(x)
  /\ exec[x].todo = {}
  /\ Produce(x, "ok", All(exec[x].frame.items), exec[x].nodeCost)
  /\ UNCHANGED <<tasks, notices, faults>>

\* A source was silent for dedupeWindowMinutes since this row was sent.
WindowEnds(r) ==
  /\ r.fresh
  /\ notices' = (notices \ {r}) \cup {[r EXCEPT !.fresh = FALSE]}
  /\ UNCHANGED <<exec, tasks, faults>>

----------------------------------------------------------------------------
(* Failures and the record *)

\* An effect throws, or its answer is lost.
MayThrow(x) ==
  /\ exec[x].pc \in {"node", "send"}
  /\ TypeAt(x) \in Calling
  /\ TypeAt(x) \in Acting => Acts(x)

\* Mutant: the node is run again.
NodeIsRetried(x) ==
  /\ MayThrow(x)
  /\ Becomes(x, [exec[x] EXCEPT !.pc = "node", !.todo = exec[x].frame.items,
                                !.repeated = FALSE])
  /\ UNCHANGED <<tasks, notices, faults>>

\* What the node did is not undone, and its cost is not added.
NodeFails(x) ==
  /\ MayThrow(x)
  /\ Becomes(x, [exec[x] EXCEPT
       !.pc = "record", !.status = "failed", !.frame = NoFrame, !.todo = {}, !.nodeCost = 0,
       !.repeated = FALSE,
       !.steps = Append(@, [node |-> exec[x].frame.node, items |-> exec[x].frame.items,
                            status |-> "failed", branches |-> <<>>])])
  /\ Fault
  /\ UNCHANGED <<tasks, notices>>

\* INSERT INTO workflow_executions
Record(x) ==
  /\ exec[x].pc = "record"
  /\ Becomes(x, [exec[x] EXCEPT !.pc = "recorded"])
  /\ UNCHANGED <<tasks, notices, faults>>

\* The process ends, or the INSERT fails: the route answers with an error.
Die(x) ==
  /\ exec[x].pc \in {"turn", "node", "send", "record"}
  /\ Becomes(x, [exec[x] EXCEPT !.pc = "dead"])
  /\ Fault
  /\ UNCHANGED <<tasks, notices>>

Start(x) == \E w \in Workflow, dry \in BOOLEAN : Begin(x, w, dry)

RunNode(x) ==
  \/ PassOn(x) \/ Filter(x) \/ Divide(x) \/ Skip(x) \/ Acted(x)
  \/ \E found \in SUBSET Item : Fetch(x, found)
  \/ \E i \in Data : Dispatch(x, i) \/ Look(x, i) \/ Send(x, i)

\* What an execution does by itself.
Proceed(x) == Halt(x) \/ Complete(x) \/ Take(x) \/ RunNode(x) \/ Record(x)

Next ==
  \/ \E x \in Execution : Start(x) \/ Late(x) \/ Proceed(x) \/ NodeFails(x) \/ Die(x)
  \/ \E r \in notices : WindowEnds(r)

Spec == Init /\ [][Next]_vars

\* An execution goes on: each effect is answered or throws.
FairSpec == Spec /\ \A x \in Execution : WF_vars(Proceed(x))

----------------------------------------------------------------------------
(* Properties *)

\* When an execution completes, each step's items went along each edge they match, and
\* nothing else ran: a node is executed with some items exactly as often as they were handed to it.
\* A diamond executes the node at its end twice.
EveryBranchFollowed ==
  \A x \in Execution : exec[x].pc = "record" /\ exec[x].status = "completed" =>
    LET s     == exec[x].steps
        out   == exec[x].workflow.out
        Edges == UNION {DOMAIN out[n] : n \in Node}
        Runs(n, items)   == {k \in DOMAIN s : s[k].node = n /\ s[k].items = items}
        Handed(n, items) ==
          {h \in (DOMAIN s) \X (Label \cup {Unlabelled}) \X Edges :
             LET k == h[1]  l == h[2]  e == h[3]
             IN  /\ \E b \in DOMAIN s[k].branches :
                      s[k].branches[b] = [label |-> l, items |-> items]
                 /\ e \in DOMAIN out[s[k].node]
                 /\ out[s[k].node][e].to = n
                 /\ l \in {Unlabelled, out[s[k].node][e].label}}
    IN  \A n \in Node, items \in (SUBSET Data) \ {{}} :
          Cardinality(Runs(n, items)) =
            Cardinality(Handed(n, items)) + (IF n = Trigger /\ items = {Blank} THEN 1 ELSE 0)

\* The record of an execution accounts for its effects: every item of every acting node that
\* was executed has one, and only the node that failed may have left some of its own.
EffectsAreReported ==
  \A x \in Execution : exec[x].pc = "recorded" =>
    LET s      == exec[x].steps
        Rows(k) == {[exec |-> x, step |-> k, node |-> s[k].node, item |-> i] : i \in s[k].items}
        acted  == {k \in DOMAIN s : s[k].status = "ok" /\ exec[x].workflow.type[s[k].node] \in Acting}
        failed == {k \in DOMAIN s : s[k].status = "failed"}
        mine   == {r \in notices : r.of.exec = x}
        rows   == {r \in tasks : r.exec = x} \cup {r.of : r \in mine}
    IN  /\ UNION {Rows(k) : k \in acted} \subseteq rows
        /\ rows \subseteq UNION {Rows(k) : k \in acted \cup failed}
        /\ \A r, q \in mine : r.of = q.of => r = q

\* "Dry run ... dispatches no agents, archives nothing" (docs/DEPLOY.md) "but still reports
\* what would happen" (workflow.test.mjs): given the same items, a dry run and a real one
\* that both complete have gone the same way.
SameItemsFound(x, y) ==
  \A k \in (DOMAIN exec[x].steps) \cap (DOMAIN exec[y].steps) :
    /\ exec[x].steps[k].node = exec[y].steps[k].node
    /\ exec[x].workflow.type[exec[x].steps[k].node] = "source"
    => exec[x].steps[k].branches = exec[y].steps[k].branches

Way(x) == [k \in DOMAIN exec[x].steps |-> [exec[x].steps[k] EXCEPT !.status = "ok"]]

DryRunForetells ==
  \A x \in Execution : exec[x].dryRun =>
    /\ \A r \in tasks : r.exec # x
    /\ \A r \in notices : r.of.exec # x
    /\ \A y \in Execution :
         /\ exec[x].status = "completed" /\ exec[y].status = "completed"
         /\ exec[x].workflow = exec[y].workflow
         /\ SameItemsFound(x, y)
         => Way(x) = Way(y)

\* "Safety rails applied to every execution" (schema.ts): the cost is compared between nodes
\* only, so what is dispatched may pass maxCostUsd by one node over all items, and no more.
Dispatched(x) == {r \in tasks : r.exec = x /\ exec[x].workflow.type[r.node] = "agent_task"}

SpendBounded ==
  \A x \in Execution : exec[x].pc # "idle" =>
    Price * Cardinality(Dispatched(x)) <= exec[x].workflow.maxCost + Price * Cardinality(Item)

\* "Suppress repeats for the same source within this window" (schema.ts), as far as one
\* execution can see to it: along whatever paths it comes to a node, it does not notify of a
\* source twice.
SendsOnceItself ==
  \A r, q \in notices :
    /\ r.fresh /\ q.fresh /\ r.of.exec = q.of.exec
    /\ exec[r.of.exec].workflow.dedupes[r.of.node]
    /\ r.of.node = q.of.node /\ SourceOf[r.of.item] = SourceOf[q.of.item]
    => r = q

\* Every execution ends, or its process does: again and again none is under way.
ExecutionsEnd == []<>(\A x \in Execution : exec[x].pc \in {"idle", "recorded", "dead"})
=============================================================================
