----------------------- MODULE WorkflowEngineProofs -----------------------
(***************************************************************************)
(* What executions do, for any workflows, items and executions: a dry run  *)
(* nothing but show the way, none notifies twice of a source within its    *)
(* window, every branch is followed, the record accounts for the effects,  *)
(* and the cost stays within one node of the rail.                         *)
(***************************************************************************)
EXTENDS WorkflowEngine, FiniteSetTheorems, SequenceTheorems, WellFoundedInduction, TLAPS

\* Executions and notifications have their fields, whatever the values.
Fields == {"pc", "workflow", "dryRun", "queue", "late", "cost", "steps", "frame", "todo",
           "nodeCost", "repeated", "status"}

Shaped(e) == DOMAIN e = Fields

Shapes ==
  /\ exec = [x \in Execution |-> exec[x]]
  /\ \A x \in Execution : Shaped(exec[x])
  /\ \A r \in notices : DOMAIN r = {"of", "fresh", "status"}

\* Whoever has a row has begun, and not as a dry run.
RowsAreReal ==
  /\ \A r \in tasks : r.exec \in Execution /\ exec[r.exec].pc # "idle" /\ ~exec[r.exec].dryRun
  /\ \A r \in notices :
       r.of.exec \in Execution /\ exec[r.of.exec].pc # "idle" /\ ~exec[r.of.exec].dryRun
  /\ \A x \in Execution : exec[x].pc = "send" => ~exec[x].dryRun

\* What the SELECT of an execution found is still true of its own rows at its INSERT.
LookedStillHolds ==
  \A x \in Execution :
    /\ exec[x].pc = "send"
    /\ ~exec[x].repeated
    /\ exec[x].workflow.dedupes[exec[x].frame.node]
    => \A r \in notices, i \in Data :
         /\ r.fresh /\ r.of.exec = x /\ r.of.node = exec[x].frame.node
         /\ IsNext(x, i)
         => SourceOf[r.of.item] # SourceOf[i]

NoticeInv == Shapes /\ RowsAreReal /\ LookedStillHolds /\ SendsOnceItself

DryRunSendsNothing ==
  /\ \A r \in tasks : ~exec[r.exec].dryRun
  /\ \A r \in notices : ~exec[r.of.exec].dryRun

\* An initial segment of the numbers is finite, and of the size one expects.
LEMMA SegmentFinite == ASSUME NEW m \in Nat PROVE IsFiniteSet(1 .. m) /\ Cardinality(1 .. m) = m
  BY FS_Interval

LEMMA InitNotice == Init => NoticeInv
<1> SUFFICES ASSUME Init PROVE NoticeInv
  OBVIOUS
<1>0. DOMAIN NotStarted = Fields
  BY DEF NotStarted, Fields
<1>1. Shapes
  BY <1>0, Zenon DEF Init, Shapes, Shaped
<1>2. \A x \in Execution : exec[x].pc = "idle"
  BY DEF Init, NotStarted
<1> QED
  BY <1>1, <1>2 DEF Init, NoticeInv, RowsAreReal, LookedStillHolds, SendsOnceItself

----------------------------------------------------------------------------
(* Steps that send nothing: the execution keeps its definition, and does not go to its INSERT *)

Quiet(x, e) ==
  /\ Becomes(x, e)
  /\ Shaped(e)
  /\ e.pc \notin {"idle", "send"}
  /\ exec[x].pc # "idle" => e.workflow = exec[x].workflow /\ e.dryRun = exec[x].dryRun
  /\ notices' = notices
  /\ \A r \in tasks' : r \in tasks \/ (r.exec = x /\ ~e.dryRun)

LEMMA QuietStep ==
  ASSUME NoticeInv, NEW x \in Execution, NEW e, Quiet(x, e)
  PROVE  NoticeInv'
<1> USE DEF NoticeInv
<1>1. exec = [y \in Execution |-> exec[y]]
  BY DEF Shapes
<1>2. exec'[x] = e /\ \A y \in Execution : y # x => exec'[y] = exec[y]
  BY <1>1, Zenon DEF Quiet, Becomes
<1>3. exec' = [y \in Execution |-> exec'[y]]
  BY <1>1, Zenon DEF Quiet, Becomes
<1>4. Shapes'
  BY <1>2, <1>3 DEF Shapes, Quiet, Shaped
<1>5. RowsAreReal'
  BY <1>2 DEF RowsAreReal, Quiet
<1>6. LookedStillHolds'
  BY <1>2 DEF LookedStillHolds, Quiet, IsNext
<1>7. SendsOnceItself'
  BY <1>2 DEF SendsOnceItself, RowsAreReal, Quiet
<1> QED
  BY <1>4, <1>5, <1>6, <1>7

LEMMA ProduceIsQuiet ==
  ASSUME Shapes, NEW x \in Execution, NEW s, NEW b, NEW c, exec[x].pc = "node",
         Produce(x, s, b, c), UNCHANGED <<tasks, notices>>
  PROVE  \E e : Quiet(x, e)
<1> DEFINE f == exec[x].frame
           e == [exec[x] EXCEPT
                  !.pc = "turn", !.frame = NoFrame, !.todo = {}, !.nodeCost = 0,
                  !.cost = @ + c,
                  !.steps = Append(@, [node |-> f.node, items |-> f.items, status |-> s,
                                       branches |-> b]),
                  !.queue = @ \o Pushed(exec[x].workflow, f.node, b)]
<1>1. Becomes(x, e)
  BY DEF Produce
<1>2. DOMAIN exec[x] = Fields
  BY DEF Shapes, Shaped
<1>3. DOMAIN e = Fields /\ e.pc = "turn" /\ e.workflow = exec[x].workflow /\ e.dryRun = exec[x].dryRun
  BY <1>2 DEF Fields
<1> QED
  BY <1>1, <1>3 DEF Quiet, Shaped

LEMMA NextIsOne ==
  ASSUME NEW x, NEW i \in Data, NEW j \in Data, IsNext(x, i), IsNext(x, j)
  PROVE  i = j
<1>1. i \in Nat /\ j \in Nat
  BY WorkflowAssumption DEF Data, Blank
<1> QED
  BY <1>1 DEF IsNext

\* All that an execution does but for the two statements of notify.
LEMMA OthersAreQuiet ==
  ASSUME Shapes, NEW x \in Execution,
         \/ Start(x) \/ Late(x) \/ Halt(x) \/ Complete(x) \/ Take(x) \/ Record(x)
         \/ PassOn(x) \/ Filter(x) \/ Divide(x) \/ Skip(x) \/ Acted(x)
         \/ (\E found \in SUBSET Item : Fetch(x, found))
         \/ (\E i \in Data : Dispatch(x, i))
         \/ NodeFails(x) \/ Die(x)
  PROVE  \E e : Quiet(x, e)
<1>0. DOMAIN exec[x] = Fields
  BY DEF Shapes, Shaped
<1>1. CASE Start(x)
  <2>1. PICK w \in Workflow, dry \in BOOLEAN : Begin(x, w, dry)
    BY <1>1 DEF Start
  <2> DEFINE e == [NotStarted EXCEPT
                     !.pc = "turn", !.workflow = w, !.dryRun = dry,
                     !.queue = <<[node |-> Trigger, items |-> {Blank}]>>]
  <2>2. DOMAIN NotStarted = Fields
    BY DEF NotStarted, Fields
  <2>3. DOMAIN e = Fields /\ e.pc = "turn"
    BY <2>2 DEF Fields
  <2> QED
    BY <2>1, <2>3 DEF Begin, Quiet, Shaped
<1>2. CASE Late(x)
  <2> DEFINE e == [exec[x] EXCEPT !.late = TRUE]
  <2>1. DOMAIN e = Fields /\ e.pc = "turn" /\ e.workflow = exec[x].workflow /\ e.dryRun = exec[x].dryRun
    BY <1>0, <1>2 DEF Fields, Late
  <2> QED
    BY <1>2, <2>1 DEF Late, Quiet, Shaped
<1>3. ASSUME NEW s, Finish(x, s), UNCHANGED <<tasks, notices>> PROVE \E e : Quiet(x, e)
  <2> DEFINE e == [exec[x] EXCEPT !.pc = "record", !.status = s]
  <2>1. DOMAIN e = Fields /\ e.pc = "record" /\ e.workflow = exec[x].workflow /\ e.dryRun = exec[x].dryRun
    BY <1>0 DEF Fields
  <2> QED
    BY <1>3, <2>1 DEF Finish, Quiet, Shaped
<1>4. CASE Halt(x) \/ Complete(x)
  BY <1>3, <1>4 DEF Halt, Complete
<1>5. CASE Take(x)
  <2> DEFINE e == [exec[x] EXCEPT
                     !.pc = "node", !.frame = Head(exec[x].queue), !.queue = Tail(@),
                     !.todo = Head(exec[x].queue).items, !.nodeCost = 0]
  <2>1. DOMAIN e = Fields /\ e.pc = "node" /\ e.workflow = exec[x].workflow /\ e.dryRun = exec[x].dryRun
    BY <1>0 DEF Fields
  <2> QED
    BY <1>5, <2>1 DEF Take, Quiet, Shaped
<1>6. CASE Record(x)
  <2> DEFINE e == [exec[x] EXCEPT !.pc = "recorded"]
  <2>1. DOMAIN e = Fields /\ e.pc = "recorded" /\ e.workflow = exec[x].workflow /\ e.dryRun = exec[x].dryRun
    BY <1>0 DEF Fields
  <2> QED
    BY <1>6, <2>1 DEF Record, Quiet, Shaped
<1>7. CASE PassOn(x) \/ Filter(x) \/ Divide(x) \/ Skip(x) \/ Acted(x)
           \/ \E found \in SUBSET Item : Fetch(x, found)
  <2>1. PICK s, b, c : Produce(x, s, b, c)
    BY <1>7, Zenon DEF PassOn, Filter, Divide, Skip, Acted, Fetch
  <2>2. exec[x].pc = "node" /\ UNCHANGED <<tasks, notices>>
    BY <1>7 DEF PassOn, Filter, Divide, Skip, Acted, Fetch, AtNode
  <2> QED
    BY <2>1, <2>2, ProduceIsQuiet
<1>8. CASE \E i \in Data : Dispatch(x, i)
  <2>1. PICK i \in Data : Dispatch(x, i)
    BY <1>8
  <2> DEFINE e == [exec[x] EXCEPT
                     !.todo = @ \ {i},
                     !.nodeCost = IF TypeAt(x) = "agent_task" THEN @ + Price ELSE @]
  <2>2. exec[x].pc = "node" /\ ~exec[x].dryRun
    BY <2>1 DEF Dispatch, AtNode, Acts
  <2>3. DOMAIN e = Fields /\ e.pc = "node" /\ e.workflow = exec[x].workflow /\ e.dryRun = exec[x].dryRun
    BY <1>0, <2>2 DEF Fields
  <2>4. Row(x, i).exec = x
    BY DEF Row
  <2>5. Becomes(x, e) /\ notices' = notices /\ tasks' = tasks \cup {Row(x, i)}
    BY <2>1 DEF Dispatch
  <2> HIDE DEF e
  <2> QED
    BY <2>2, <2>3, <2>4, <2>5 DEF Quiet, Shaped
<1>9. CASE NodeFails(x)
  <2> DEFINE e == [exec[x] EXCEPT
                     !.pc = "record", !.status = "failed", !.frame = NoFrame, !.todo = {},
                     !.nodeCost = 0, !.repeated = FALSE,
                     !.steps = Append(@, [node |-> exec[x].frame.node,
                                          items |-> exec[x].frame.items,
                                          status |-> "failed", branches |-> <<>>])]
  <2>1. DOMAIN e = Fields /\ e.pc = "record" /\ e.workflow = exec[x].workflow /\ e.dryRun = exec[x].dryRun
    BY <1>0 DEF Fields
  <2> QED
    BY <1>9, <2>1 DEF NodeFails, Quiet, Shaped
<1>10. CASE Die(x)
  <2> DEFINE e == [exec[x] EXCEPT !.pc = "dead"]
  <2>1. DOMAIN e = Fields /\ e.pc = "dead" /\ e.workflow = exec[x].workflow /\ e.dryRun = exec[x].dryRun
    BY <1>0 DEF Fields
  <2> QED
    BY <1>10, <2>1 DEF Die, Quiet, Shaped
<1> QED
  BY <1>1, <1>2, <1>4, <1>5, <1>6, <1>7, <1>8, <1>9, <1>10

----------------------------------------------------------------------------
(* notify: SELECT, then INSERT *)

LEMMA LookStep ==
  ASSUME NoticeInv, NEW x \in Execution, NEW i \in Data, Look(x, i)
  PROVE  NoticeInv'
<1> DEFINE found == /\ exec[x].workflow.dedupes[exec[x].frame.node]
                    /\ \E r \in notices :
                         r.fresh /\ Key(r.of.node, r.of.item) = Key(exec[x].frame.node, i)
           e == [exec[x] EXCEPT !.pc = "send", !.repeated = found]
<1>1. exec = [y \in Execution |-> exec[y]] /\ DOMAIN exec[x] = Fields
  BY DEF NoticeInv, Shapes, Shaped
<1>2. Becomes(x, e) /\ exec[x].pc = "node" /\ ~exec[x].dryRun /\ IsNext(x, i)
  BY DEF Look, AtNode, Acts
<1>3. UNCHANGED <<tasks, notices>>
  BY DEF Look
<1>4. /\ DOMAIN e = Fields /\ e.pc = "send" /\ e.repeated = found
      /\ e.workflow = exec[x].workflow /\ e.dryRun = exec[x].dryRun
      /\ e.frame = exec[x].frame /\ e.todo = exec[x].todo
  <2> HIDE DEF found
  <2> QED
    BY <1>1 DEF Fields
<1> HIDE DEF e
<1>5. exec'[x] = e /\ \A y \in Execution : y # x => exec'[y] = exec[y]
  BY <1>1, <1>2, Zenon DEF Becomes
<1>6. exec' = [y \in Execution |-> exec'[y]]
  BY <1>1, <1>2, Zenon DEF Becomes
<1>7. Shapes'
  BY <1>3, <1>4, <1>5, <1>6 DEF NoticeInv, Shapes, Shaped
<1>8. RowsAreReal'
  BY <1>2, <1>3, <1>4, <1>5 DEF NoticeInv, RowsAreReal
<1>9. ~found /\ e.workflow.dedupes[e.frame.node] =>
        \A r \in notices : r.fresh /\ r.of.node = e.frame.node => SourceOf[r.of.item] # SourceOf[i]
  BY <1>4 DEF Key
<1>10. \A j \in Data : IsNext(x, j)' => j = i
  <2> SUFFICES ASSUME NEW j \in Data, IsNext(x, j)' PROVE j = i
    OBVIOUS
  <2>1. IsNext(x, j)
    BY <1>4, <1>5 DEF IsNext
  <2> QED
    BY <1>2, <2>1, NextIsOne
<1>11. LookedStillHolds'
  <2> HIDE DEF found
  <2> SUFFICES ASSUME NEW y \in Execution, exec'[y].pc = "send", ~exec'[y].repeated,
                      exec'[y].workflow.dedupes[exec'[y].frame.node],
                      NEW r \in notices, NEW j \in Data,
                      r.fresh, r.of.exec = y, r.of.node = exec'[y].frame.node, IsNext(y, j)'
               PROVE  SourceOf[r.of.item] # SourceOf[j]
    BY <1>3 DEF LookedStillHolds
  <2>1. CASE y = x
    BY <2>1, <1>4, <1>5, <1>9, <1>10
  <2>2. CASE y # x
    BY <2>2, <1>5 DEF NoticeInv, LookedStillHolds, IsNext
  <2> QED
    BY <2>1, <2>2
<1>12. SendsOnceItself'
  BY <1>3, <1>4, <1>5 DEF NoticeInv, RowsAreReal, SendsOnceItself
<1> QED
  BY <1>7, <1>8, <1>11, <1>12 DEF NoticeInv

LEMMA SendStep ==
  ASSUME NoticeInv, NEW x \in Execution, NEW i \in Data, Send(x, i)
  PROVE  NoticeInv'
<1> DEFINE e == [exec[x] EXCEPT !.pc = "node", !.todo = @ \ {i}, !.repeated = FALSE]
           n == NoticeRow(x, i)
<1>1. exec = [y \in Execution |-> exec[y]] /\ DOMAIN exec[x] = Fields
  BY DEF NoticeInv, Shapes, Shaped
<1>2. /\ Becomes(x, e) /\ exec[x].pc = "send" /\ IsNext(x, i)
      /\ tasks' = tasks /\ notices' = notices \cup {n}
  BY DEF Send
<1>3. ~exec[x].dryRun
  BY <1>2 DEF NoticeInv, RowsAreReal
<1>4. /\ DOMAIN e = Fields /\ e.pc = "node"
      /\ e.workflow = exec[x].workflow /\ e.dryRun = exec[x].dryRun
  BY <1>1 DEF Fields
<1>5. /\ DOMAIN n = {"of", "fresh", "status"}
      /\ n.of = Row(x, i) /\ (n.fresh => ~exec[x].repeated)
  BY DEF NoticeRow
<1>6. n.of.exec = x /\ n.of.node = exec[x].frame.node /\ n.of.item = i
  BY <1>5 DEF Row
<1> HIDE DEF e, n
<1>7. exec'[x] = e /\ \A y \in Execution : y # x => exec'[y] = exec[y]
  BY <1>1, <1>2, Zenon DEF Becomes
<1>8. exec' = [y \in Execution |-> exec'[y]]
  BY <1>1, <1>2, Zenon DEF Becomes
<1>9. Shapes'
  BY <1>2, <1>4, <1>5, <1>7, <1>8 DEF NoticeInv, Shapes, Shaped
<1>10. RowsAreReal'
  BY <1>2, <1>3, <1>4, <1>6, <1>7 DEF NoticeInv, RowsAreReal
<1>11. LookedStillHolds'
  BY <1>2, <1>4, <1>6, <1>7 DEF NoticeInv, LookedStillHolds, IsNext
<1>12. \A r \in notices :
         /\ r.fresh /\ n.fresh /\ r.of.exec = x
         /\ exec[x].workflow.dedupes[exec[x].frame.node]
         /\ r.of.node = exec[x].frame.node
         => SourceOf[r.of.item] # SourceOf[i]
  BY <1>2, <1>5 DEF NoticeInv, LookedStillHolds
<1>13. SendsOnceItself'
  <2> SUFFICES ASSUME NEW r \in notices', NEW q \in notices',
                      r.fresh, q.fresh, r.of.exec = q.of.exec,
                      exec'[r.of.exec].workflow.dedupes[r.of.node],
                      r.of.node = q.of.node, SourceOf[r.of.item] = SourceOf[q.of.item]
               PROVE  r = q
    BY DEF SendsOnceItself
  <2>1. exec'[r.of.exec].workflow = exec[r.of.exec].workflow
    BY <1>2, <1>4, <1>6, <1>7 DEF NoticeInv, RowsAreReal
  <2>2. CASE r \in notices /\ q \in notices
    BY <2>1, <2>2 DEF NoticeInv, SendsOnceItself
  <2>3. CASE r = n /\ q \in notices
    BY <2>1, <2>3, <1>6, <1>12
  <2>4. CASE r \in notices /\ q = n
    BY <2>1, <2>4, <1>6, <1>12
  <2> QED
    BY <1>2, <2>2, <2>3, <2>4
<1> QED
  BY <1>9, <1>10, <1>11, <1>13 DEF NoticeInv

LEMMA WindowStep ==
  ASSUME NoticeInv, NEW w \in notices, WindowEnds(w)
  PROVE  NoticeInv'
<1> DEFINE n == [w EXCEPT !.fresh = FALSE]
<1>1. /\ notices' = (notices \ {w}) \cup {n}
      /\ tasks' = tasks /\ exec' = exec
  BY DEF WindowEnds
<1>2. DOMAIN w = {"of", "fresh", "status"}
  BY DEF NoticeInv, Shapes
<1>3. DOMAIN n = {"of", "fresh", "status"} /\ n.of = w.of /\ n.fresh = FALSE
  BY <1>2
<1> HIDE DEF n
<1>4. Shapes'
  BY <1>1, <1>3 DEF NoticeInv, Shapes
<1>5. RowsAreReal'
  BY <1>1, <1>3 DEF NoticeInv, RowsAreReal
<1>6. LookedStillHolds'
  BY <1>1, <1>3 DEF NoticeInv, LookedStillHolds, IsNext
<1>7. SendsOnceItself'
  BY <1>1, <1>3 DEF NoticeInv, SendsOnceItself
<1> QED
  BY <1>4, <1>5, <1>6, <1>7 DEF NoticeInv

LEMMA NextNotice == NoticeInv /\ [Next]_vars => NoticeInv'
<1> SUFFICES ASSUME NoticeInv, [Next]_vars PROVE NoticeInv'
  OBVIOUS
<1>1. CASE UNCHANGED vars
  BY <1>1 DEF vars, NoticeInv, Shapes, Shaped, RowsAreReal, LookedStillHolds, IsNext,
              SendsOnceItself
<1>2. CASE \E r \in notices : WindowEnds(r)
  BY <1>2, WindowStep
<1>3. CASE \E x \in Execution : Start(x) \/ Late(x) \/ Proceed(x) \/ NodeFails(x) \/ Die(x)
  <2>1. PICK x \in Execution : Start(x) \/ Late(x) \/ Proceed(x) \/ NodeFails(x) \/ Die(x)
    BY <1>3
  <2>2. CASE \E i \in Data : Look(x, i)
    BY <2>2, LookStep
  <2>3. CASE \E i \in Data : Send(x, i)
    BY <2>3, SendStep
  <2>4. CASE ~(\E i \in Data : Look(x, i)) /\ ~(\E i \in Data : Send(x, i))
    <3>1. \E e : Quiet(x, e)
      BY <2>1, <2>4, OthersAreQuiet, Zenon DEF NoticeInv, Proceed, RunNode
    <3> QED
      BY <3>1, QuietStep
  <2> QED
    BY <2>2, <2>3, <2>4
<1> QED
  BY <1>1, <1>2, <1>3 DEF Next

\* An execution comes to a notify node by whatever ways, with whatever items, and however often:
\* within the window it sends one notification of a source, for any number of executions.
THEOREM NotifiesOnce == Spec => []SendsOnceItself
<1>1. NoticeInv => SendsOnceItself
  BY DEF NoticeInv
<1> QED
  BY InitNotice, NextNotice, <1>1, PTL DEF Spec

\* "Dry run ... dispatches no agents, archives nothing" (docs/DEPLOY.md): a dry run leaves no
\* row in agent_tasks or notifications, whatever its workflow.
THEOREM DryRunHarmless == Spec => []DryRunSendsNothing
<1>1. NoticeInv => DryRunSendsNothing
  BY DEF NoticeInv, RowsAreReal, DryRunSendsNothing
<1> QED
  BY InitNotice, NextNotice, <1>1, PTL DEF Spec

----------------------------------------------------------------------------
(* What a node hands on, as sequences *)

\* A finite set that is ordered is listed whole, each element once.
LEMMA ListedFacts ==
  ASSUME NEW S, IsFiniteSet(S), NEW before \in [S -> SUBSET S],
         \A s \in S : s \notin before[s],
         \A s, t \in S : s # t => s \in before[t] \/ t \in before[s],
         \A s, t \in S : t \in before[s] => before[t] \subseteq before[s]
  PROVE  /\ Cardinality(S) \in Nat
         /\ Listed(S, before) \in [1 .. Cardinality(S) -> S]
         /\ \A s \in S : \E i \in 1 .. Cardinality(S) : Listed(S, before)[i] = s
         /\ \A i, j \in 1 .. Cardinality(S) :
              Listed(S, before)[i] = Listed(S, before)[j] => i = j
<1>1. PICK n : n = Cardinality(S)
  OBVIOUS
<1>2. n \in Nat
  BY <1>1, FS_CardinalityType
<1>3. PICK rank : rank = [s \in S |-> Cardinality(before[s]) + 1]
  OBVIOUS
<1>4. ASSUME NEW s \in S
      PROVE  IsFiniteSet(before[s]) /\ Cardinality(before[s]) \in Nat /\ Cardinality(before[s]) < n
  <2>1. IsFiniteSet(before[s]) /\ Cardinality(before[s]) \in Nat /\ Cardinality(before[s]) <= n
    BY <1>1, FS_Subset, FS_CardinalityType
  <2>2. Cardinality(before[s]) # n
    BY <1>1, FS_Subset
  <2> QED BY <1>2, <2>1, <2>2
<1>5. rank \in [S -> 1 .. n]
  BY <1>2, <1>3, <1>4
<1>6. ASSUME NEW s \in S, NEW t \in S, s \in before[t] PROVE rank[s] < rank[t]
  <2>1. before[s] \in SUBSET before[t] /\ before[s] # before[t]
    BY <1>6
  <2>2. Cardinality(before[s]) <= Cardinality(before[t]) /\ Cardinality(before[s]) # Cardinality(before[t])
    BY <1>4, <2>1, FS_Subset
  <2> QED BY <1>3, <1>4, <2>2
<1>7. \A s, t \in S : rank[s] = rank[t] => s = t
  <2> SUFFICES ASSUME NEW s \in S, NEW t \in S, rank[s] = rank[t], s # t PROVE FALSE
    OBVIOUS
  <2>1. rank[s] < rank[t] \/ rank[t] < rank[s]
    BY <1>6
  <2> QED BY <1>5, <2>1
<1>8. \A i \in 1 .. n : \E s \in S : rank[s] = i
  <2>1. rank \in Injection(S, 1 .. n)
    BY <1>5, <1>7 DEF Injection, IsInjective
  <2>2. IsFiniteSet(1 .. n) /\ Cardinality(1 .. n) = n
    BY <1>2, SegmentFinite
  <2>3. rank \in Surjection(S, 1 .. n)
    BY <1>1, <2>1, <2>2, FS_Injection
  <2> QED BY <2>3 DEF Surjection
<1>9. PICK list : list = Listed(S, before)
  OBVIOUS
<1>10. list = [i \in 1 .. n |-> CHOOSE s \in S : Cardinality(before[s]) = i - 1]
  BY <1>1, <1>9 DEF Listed
<1>11. ASSUME NEW i \in 1 .. n PROVE list[i] \in S /\ rank[list[i]] = i
  <2>1. \A s \in S : Cardinality(before[s]) = i - 1 <=> rank[s] = i
    BY <1>3, <1>4
  <2>2. \E s \in S : Cardinality(before[s]) = i - 1
    BY <1>8, <2>1
  <2>3. list[i] \in S /\ Cardinality(before[list[i]]) = i - 1
    BY <1>10, <2>2
  <2> QED BY <2>1, <2>3
<1>12. list \in [1 .. n -> S]
  BY <1>10, <1>11
<1>13. \A s \in S : \E i \in 1 .. n : list[i] = s
  BY <1>5, <1>7, <1>11
<1>14. \A i, j \in 1 .. n : list[i] = list[j] => i = j
  BY <1>11
<1> QED BY <1>1, <1>2, <1>9, <1>12, <1>13, <1>14

LEMMA SeqFacts ==
  ASSUME NEW T, NEW s \in Seq(T)
  PROVE  Len(s) \in Nat /\ DOMAIN s = 1 .. Len(s) /\ \A i \in 1 .. Len(s) : s[i] \in T
OBVIOUS

LEMMA WaysFacts ==
  ASSUME NEW w \in Workflow, NEW n \in Node, NEW branches \in Seq(Branch)
  PROVE  LET P == Ways(w, n, branches)
         IN  /\ IsFiniteSet(P) /\ P \subseteq (1 .. Len(branches)) \X (1 .. Len(w.out[n]))
             /\ \A p \in P : /\ p[1] \in Nat /\ p[2] \in Nat
                             /\ w.out[n][p[2]].to \in Node
                             /\ branches[p[1]].items \in SUBSET Data
             /\ \A p, q \in P : p[1] = q[1] /\ p[2] = q[2] => p = q
<1> DEFINE P == Ways(w, n, branches)
<1>1. w \in Definition
  BY WorkflowAssumption
<1>2. w.out[n] \in Seq([to : Node, label : Label \cup {Unlabelled}])
  BY <1>1 DEF Definition
<1>3. PICK edges : edges = w.out[n]
  OBVIOUS
<1>4. /\ Len(edges) \in Nat /\ DOMAIN edges = 1 .. Len(edges)
      /\ \A e \in 1 .. Len(edges) : edges[e].to \in Node
  <2>1. PICK E : E = [to : Node, label : Label \cup {Unlabelled}]
    OBVIOUS
  <2>2. /\ Len(edges) \in Nat /\ DOMAIN edges = 1 .. Len(edges)
        /\ \A e \in 1 .. Len(edges) : edges[e] \in E
    BY <1>2, <1>3, <2>1, SeqFacts
  <2> QED BY <2>1, <2>2
<1>5. /\ Len(branches) \in Nat /\ DOMAIN branches = 1 .. Len(branches)
      /\ \A b \in 1 .. Len(branches) : branches[b] \in Branch /\ branches[b].items \in SUBSET Data
  <2>1. /\ Len(branches) \in Nat /\ DOMAIN branches = 1 .. Len(branches)
        /\ \A b \in 1 .. Len(branches) : branches[b] \in Branch
    BY SeqFacts
  <2> QED BY <2>1 DEF Branch
<1>6. P \subseteq (1 .. Len(branches)) \X (1 .. Len(edges))
  BY <1>3, <1>4, <1>5 DEF Ways
<1>7. IsFiniteSet((1 .. Len(branches)) \X (1 .. Len(edges)))
  <2>1. IsFiniteSet(1 .. Len(branches)) /\ IsFiniteSet(1 .. Len(edges))
    BY <1>4, <1>5, SegmentFinite
  <2> QED BY <2>1, FS_Product
<1>8. IsFiniteSet(P)
  BY <1>6, <1>7, FS_Subset
<1>9. \A p \in P : /\ p[1] \in 1 .. Len(branches) /\ p[2] \in 1 .. Len(edges)
                   /\ p = <<p[1], p[2]>>
  BY <1>6
<1> HIDE DEF P
<1> QED BY <1>3, <1>4, <1>5, <1>6, <1>8, <1>9 DEF P

\* The queue gets a frame for each of them.
LEMMA PushedFacts ==
  ASSUME NEW w \in Workflow, NEW n \in Node, NEW branches \in Seq(Branch),
         NEW P, P = Ways(w, n, branches), NEW frames, frames = Pushed(w, n, branches)
  PROVE  /\ frames \in Seq(Frame) /\ Len(frames) \in Nat /\ Len(frames) = Cardinality(P)
         /\ \E ways \in [1 .. Len(frames) -> P] :
              /\ \A p \in P : \E i \in 1 .. Len(frames) : ways[i] = p
              /\ \A i, j \in 1 .. Len(frames) : ways[i] = ways[j] => i = j
              /\ \A i \in 1 .. Len(frames) :
                   frames[i] =
                     [node |-> w.out[n][ways[i][2]].to, items |-> branches[ways[i][1]].items]
<1>1. P = Ways(w, n, branches)
  OBVIOUS
<1>2. PICK before : before = [p \in P |-> {q \in P : Earlier(q, p)}]
  OBVIOUS
<1>3. /\ IsFiniteSet(P)
      /\ \A p \in P : p[1] \in Nat /\ p[2] \in Nat
      /\ \A p, q \in P : p[1] = q[1] /\ p[2] = q[2] => p = q
  BY <1>1, WaysFacts
<1>4. before \in [P -> SUBSET P]
  BY <1>2
<1>5. \A p \in P : p \notin before[p]
  BY <1>2, <1>3 DEF Earlier
<1>6. \A p, q \in P : p # q => p \in before[q] \/ q \in before[p]
  BY <1>2, <1>3 DEF Earlier
<1>7. \A p, q \in P : q \in before[p] => before[q] \subseteq before[p]
  BY <1>2, <1>3 DEF Earlier
<1>8. PICK ways : ways = Listed(P, before)
  OBVIOUS
<1>9. PICK N : N = Cardinality(P)
  OBVIOUS
<1>10. /\ N \in Nat /\ ways \in [1 .. N -> P]
       /\ \A p \in P : \E i \in 1 .. N : ways[i] = p
       /\ \A i, j \in 1 .. N : ways[i] = ways[j] => i = j
  BY <1>3, <1>4, <1>5, <1>6, <1>7, <1>8, <1>9, ListedFacts
<1>11. Pushed(w, n, branches) =
         [i \in 1 .. N |->
            [node |-> w.out[n][ways[i][2]].to, items |-> branches[ways[i][1]].items]]
  BY <1>1, <1>2, <1>8, <1>10, Zenon DEF Pushed
<1>12. \A i \in 1 .. N :
         /\ w.out[n][ways[i][2]].to \in Node /\ branches[ways[i][1]].items \in SUBSET Data
  BY <1>1, <1>10, WaysFacts
<1>13. frames = Pushed(w, n, branches)
  OBVIOUS
<1>14. \A i \in 1 .. N :
         frames[i] = [node |-> w.out[n][ways[i][2]].to, items |-> branches[ways[i][1]].items]
  BY <1>11, <1>13
<1>15. frames \in [1 .. N -> Frame]
  BY <1>11, <1>12, <1>13 DEF Frame
<1>16. frames \in Seq(Frame) /\ Len(frames) = N
  BY <1>10, <1>15
<1> QED BY <1>1, <1>9, <1>10, <1>13, <1>14, <1>16

LEMMA PushedItems ==
  ASSUME NEW w \in Workflow, NEW n \in Node, NEW branches \in Seq(Branch)
  PROVE  /\ Pushed(w, n, branches) \in Seq(Frame)
         /\ \A i \in 1 .. Len(Pushed(w, n, branches)) :
              \E k \in DOMAIN branches : Pushed(w, n, branches)[i].items = branches[k].items
<1>1. PICK P : P = Ways(w, n, branches)
  OBVIOUS
<1>2. PICK more : more = Pushed(w, n, branches)
  OBVIOUS
<1>3. /\ more \in Seq(Frame)
      /\ \E ways \in [1 .. Len(more) -> P] :
           \A i \in 1 .. Len(more) :
             more[i] = [node |-> w.out[n][ways[i][2]].to, items |-> branches[ways[i][1]].items]
  BY <1>1, <1>2, PushedFacts
<1>4. PICK ways \in [1 .. Len(more) -> P] :
        \A i \in 1 .. Len(more) :
          more[i] = [node |-> w.out[n][ways[i][2]].to, items |-> branches[ways[i][1]].items]
  BY <1>3
<1>5. \A p \in P : p[1] \in DOMAIN branches
  BY <1>1 DEF Ways
<1>6. ASSUME NEW i \in 1 .. Len(more)
      PROVE  \E k \in DOMAIN branches : more[i].items = branches[k].items
  <2>1. ways[i] \in P
    BY <1>4
  <2>2. more[i] = [node |-> w.out[n][ways[i][2]].to, items |-> branches[ways[i][1]].items]
    BY <1>4
  <2>3. more[i].items = branches[ways[i][1]].items
    BY <2>2
  <2> QED BY <1>5, <2>1, <2>3
<1> QED BY <1>2, <1>3, <1>6

LEMMA DataFacts == Data \subseteq Nat /\ IsFiniteSet(Data)
<1>1. Data \subseteq Nat
  BY WorkflowAssumption DEF Data, Blank
<1>2. IsFiniteSet(Data)
  BY WorkflowAssumption, FS_AddElement DEF Data
<1> QED BY <1>1, <1>2

\* A branch of the outcome for each label, with its share of the items.
Share(branches, items) ==
  /\ branches \in Seq(Branch)
  /\ \A b \in DOMAIN branches : branches[b].items \subseteq items
  /\ \A b, c \in DOMAIN branches : branches[b].label = branches[c].label => b = c

LEMMA AllShares == ASSUME NEW items \in SUBSET Data PROVE Share(All(items), items)
<1>1. PICK branch : branch = [label |-> Unlabelled, items |-> items]
  OBVIOUS
<1>2. branch \in Branch /\ branch.items = items
  BY <1>1 DEF Branch
<1>3. All(items) = <<branch>>
  BY <1>1 DEF All
<1> QED BY <1>2, <1>3 DEF Share

LEMMA BucketsShare ==
  ASSUME NEW items \in SUBSET Data, NEW case \in [Data -> Label \cup {Unlabelled}]
  PROVE  Share(Buckets(items, case), items)
<1>1. PICK F : F = Openers(items, case)
  OBVIOUS
<1>2. PICK before : before = [i \in F |-> {j \in F : j < i}]
  OBVIOUS
<1>3. F \subseteq Data /\ F \subseteq Nat /\ IsFiniteSet(F)
  BY <1>1, DataFacts, FS_Subset DEF Openers
<1>4. /\ before \in [F -> SUBSET F]
      /\ \A s \in F : s \notin before[s]
      /\ \A s, t \in F : s # t => s \in before[t] \/ t \in before[s]
      /\ \A s, t \in F : t \in before[s] => before[t] \subseteq before[s]
  <2>1. before \in [F -> SUBSET F]
    BY <1>2
  <2>2. \A s \in F : s \in Nat /\ \A t \in F : t \in before[s] <=> t < s
    BY <1>2, <1>3
  <2> QED BY <2>1, <2>2
<1>5. PICK first : first = Listed(F, before)
  OBVIOUS
<1>6. PICK N : N = Cardinality(F)
  OBVIOUS
<1>7. /\ N \in Nat /\ first \in [1 .. N -> F]
      /\ \A i, j \in 1 .. N : first[i] = first[j] => i = j
  <2>1. IsFiniteSet(F)
    BY <1>3
  <2>2. /\ Cardinality(F) \in Nat
        /\ Listed(F, before) \in [1 .. Cardinality(F) -> F]
        /\ \A i, j \in 1 .. Cardinality(F) :
             Listed(F, before)[i] = Listed(F, before)[j] => i = j
    BY <1>4, <2>1, ListedFacts
  <2> QED BY <1>5, <1>6, <2>2
<1>8. PICK branches : branches = Buckets(items, case)
  OBVIOUS
<1>9. branches = [k \in 1 .. N |-> [label |-> case[first[k]],
                                    items |-> {i \in items : case[i] = case[first[k]]}]]
  <2>1. branches = [k \in DOMAIN first |-> [label |-> case[first[k]],
                                           items |-> {i \in items : case[i] = case[first[k]]}]]
    BY <1>1, <1>2, <1>5, <1>8 DEF Buckets
  <2> QED BY <1>7, <2>1
<1>10. ASSUME NEW k \in 1 .. N
       PROVE  /\ branches[k] \in Branch /\ branches[k].items \subseteq items
              /\ branches[k].label = case[first[k]]
  <2>1. first[k] \in Data
    BY <1>3, <1>7
  <2>2. case[first[k]] \in Label \cup {Unlabelled}
    BY <2>1
  <2> QED BY <1>9, <2>2 DEF Branch
<1>11. branches \in Seq(Branch) /\ DOMAIN branches = 1 .. N
  BY <1>7, <1>9, <1>10
<1>12. \A b, c \in 1 .. N : branches[b].label = branches[c].label => b = c
  <2> SUFFICES ASSUME NEW b \in 1 .. N, NEW c \in 1 .. N, branches[b].label = branches[c].label
               PROVE  b = c
    OBVIOUS
  <2>1. first[b] \in F /\ first[c] \in F /\ case[first[b]] = case[first[c]]
    BY <1>7, <1>10
  <2>2. first[b] <= first[c] /\ first[c] <= first[b]
    BY <1>1, <2>1 DEF Openers
  <2>3. first[b] = first[c]
    <3>1. first[b] \in Nat /\ first[c] \in Nat
      BY <1>3, <2>1
    <3> QED BY <2>2, <3>1
  <2> QED BY <1>7, <2>3
<1> QED BY <1>8, <1>10, <1>11, <1>12 DEF Share

----------------------------------------------------------------------------
(* The steps of an execution, by what they do to its fields *)

\* Items are observations, or the trigger's one.
OneKind(items) == items \subseteq Item \/ items \subseteq {Blank}

Coherent(e) ==
  /\ e.pc # "idle" => e.workflow \in Workflow
  /\ e.pc = "idle" => e = NotStarted
  /\ \A i \in DOMAIN e.queue : OneKind(e.queue[i].items)
  /\ e.pc \in {"node", "send"} =>
       e.frame \in Frame /\ e.todo \subseteq e.frame.items /\ OneKind(e.frame.items)
  /\ e.pc = "send" => e.workflow.type[e.frame.node] = "notify" /\ ~e.dryRun

EngineInv ==
  /\ TypeOK
  /\ \A x \in Execution : Coherent(exec[x])
  /\ IsFiniteSet(tasks)

\* What runNode returns.
Outcome(x, status, branches, cost) ==
  LET w == exec[x].workflow
      f == exec[x].frame
  IN  \/ /\ w.type[f.node] \in Plain
         /\ status = "ok" /\ branches = All(f.items) /\ cost = 0
      \/ /\ w.type[f.node] = "source"
         /\ status = "ok" /\ cost = 0 /\ \E found \in SUBSET Item : branches = All(found)
      \/ /\ w.type[f.node] = "filter"
         /\ status = "ok" /\ branches = All(f.items \cap w.keeps[f.node]) /\ cost = 0
      \/ /\ w.type[f.node] = "branch"
         /\ status = "ok" /\ branches = Buckets(f.items, w.case[f.node]) /\ cost = 0
      \/ /\ w.type[f.node] \in Acting /\ exec[x].dryRun
         /\ status = "skipped" /\ branches = All(f.items) /\ cost = 0
      \/ /\ w.type[f.node] \in Acting /\ ~exec[x].dryRun /\ exec[x].todo = {}
         /\ status = "ok" /\ branches = All(f.items) /\ cost = exec[x].nodeCost

Logged(x, status, branches) ==
  [node |-> exec[x].frame.node, items |-> exec[x].frame.items, status |-> status,
   branches |-> branches]

Same(x) == exec'[x].workflow = exec[x].workflow /\ exec'[x].dryRun = exec[x].dryRun
Alone(x) == \A y \in Execution \ {x} : exec'[y] = exec[y]

HasBegun(x) ==
  /\ exec[x].pc = "idle" /\ exec'[x].pc = "turn" /\ exec'[x].workflow \in Workflow
  /\ exec'[x].queue = <<[node |-> Trigger, items |-> {Blank}]>>
  /\ exec'[x].cost = 0 /\ exec'[x].steps = <<>> /\ exec'[x].status = "none"
  /\ UNCHANGED <<tasks, notices>>
HasMoved(x) ==
  /\ exec[x].pc # "idle" /\ exec'[x].pc \in {"recorded", "dead", exec[x].pc} /\ Same(x)
  /\ exec'[x].pc = "recorded" => exec[x].pc = "record"
  /\ exec'[x].queue = exec[x].queue /\ exec'[x].cost = exec[x].cost
  /\ exec'[x].steps = exec[x].steps /\ exec'[x].frame = exec[x].frame
  /\ exec'[x].todo = exec[x].todo /\ exec'[x].nodeCost = exec[x].nodeCost
  /\ exec'[x].status = exec[x].status
  /\ UNCHANGED <<tasks, notices>>
HasFinished(x) ==
  /\ exec[x].pc = "turn" /\ exec'[x].pc = "record" /\ Same(x)
  /\ exec'[x].queue = exec[x].queue /\ exec'[x].cost = exec[x].cost
  /\ exec'[x].steps = exec[x].steps
  /\ exec'[x].status = "completed" => exec[x].queue = <<>>
  /\ UNCHANGED <<tasks, notices>>
HasTaken(x) ==
  /\ exec[x].pc = "turn" /\ exec'[x].pc = "node" /\ Same(x)
  /\ exec[x].queue # <<>> /\ exec[x].cost <= exec[x].workflow.maxCost
  /\ exec'[x].queue = Tail(exec[x].queue) /\ exec'[x].frame = Head(exec[x].queue)
  /\ exec'[x].todo = exec'[x].frame.items /\ exec'[x].nodeCost = 0
  /\ exec'[x].cost = exec[x].cost /\ exec'[x].steps = exec[x].steps
  /\ exec'[x].status = exec[x].status
  /\ UNCHANGED <<tasks, notices>>
HasProduced(x, status, branches, cost) ==
  /\ exec[x].pc = "node" /\ exec'[x].pc = "turn" /\ Same(x)
  /\ exec'[x].queue =
       exec[x].queue \o Pushed(exec[x].workflow, exec[x].frame.node, branches)
  /\ exec'[x].cost = exec[x].cost + cost
  /\ exec'[x].steps = Append(exec[x].steps, Logged(x, status, branches))
  /\ exec'[x].status = exec[x].status
  /\ UNCHANGED <<tasks, notices>>
HasDispatched(x, i) ==
  /\ exec[x].pc = "node" /\ exec'[x].pc = "node" /\ Same(x)
  /\ TypeAt(x) \in {"agent_task", "archive"} /\ ~exec[x].dryRun /\ i \in exec[x].todo
  /\ exec'[x].todo = exec[x].todo \ {i}
  /\ exec'[x].nodeCost =
       IF TypeAt(x) = "agent_task" THEN exec[x].nodeCost + Price ELSE exec[x].nodeCost
  /\ exec'[x].queue = exec[x].queue /\ exec'[x].cost = exec[x].cost
  /\ exec'[x].steps = exec[x].steps /\ exec'[x].frame = exec[x].frame
  /\ exec'[x].status = exec[x].status
  /\ tasks' = tasks \cup {Row(x, i)} /\ notices' = notices
HasLooked(x) ==
  /\ exec[x].pc = "node" /\ exec'[x].pc = "send" /\ Same(x)
  /\ TypeAt(x) = "notify" /\ ~exec[x].dryRun
  /\ exec'[x].queue = exec[x].queue /\ exec'[x].cost = exec[x].cost
  /\ exec'[x].steps = exec[x].steps /\ exec'[x].frame = exec[x].frame
  /\ exec'[x].todo = exec[x].todo /\ exec'[x].nodeCost = exec[x].nodeCost
  /\ exec'[x].status = exec[x].status
  /\ UNCHANGED <<tasks, notices>>
HasSent(x, i) ==
  /\ exec[x].pc = "send" /\ exec'[x].pc = "node" /\ Same(x)
  /\ i \in exec[x].todo /\ exec'[x].todo = exec[x].todo \ {i}
  /\ exec'[x].queue = exec[x].queue /\ exec'[x].cost = exec[x].cost
  /\ exec'[x].steps = exec[x].steps /\ exec'[x].frame = exec[x].frame
  /\ exec'[x].nodeCost = exec[x].nodeCost /\ exec'[x].status = exec[x].status
  /\ tasks' = tasks /\ \E n \in Notice : n.of = Row(x, i) /\ notices' = notices \cup {n}
HasFailed(x) ==
  /\ exec[x].pc \in {"node", "send"} /\ exec'[x].pc = "record" /\ Same(x)
  /\ TypeAt(x) \in Acting => ~exec[x].dryRun
  /\ exec'[x].steps = Append(exec[x].steps, Logged(x, "failed", <<>>))
  /\ exec'[x].status = "failed"
  /\ UNCHANGED <<tasks, notices>>

\* One step of the engine.
OneStep(x) ==
  \/ HasBegun(x) \/ HasMoved(x) \/ HasFinished(x) \/ HasTaken(x) \/ HasLooked(x) \/ HasFailed(x)
  \/ \E s \in {"ok", "skipped"}, b \in Seq(Branch), c \in Nat :
       Outcome(x, s, b, c) /\ HasProduced(x, s, b, c)
  \/ \E i \in Data : HasDispatched(x, i) \/ HasSent(x, i)

LEMMA BecomesFacts ==
  ASSUME EngineInv, NEW x \in Execution, NEW e \in ExecutionState, Coherent(e), Becomes(x, e),
         tasks' \subseteq Task, IsFiniteSet(tasks'), notices' \subseteq Notice, faults' \in Nat
  PROVE  EngineInv' /\ Alone(x) /\ exec'[x] = e
<1>1. exec \in [Execution -> ExecutionState]
  BY DEF EngineInv, TypeOK
<1>2. /\ exec' \in [Execution -> ExecutionState] /\ exec'[x] = e
      /\ \A y \in Execution \ {x} : exec'[y] = exec[y]
  BY <1>1 DEF Becomes
<1>3. \A y \in Execution : Coherent(exec'[y])
  BY <1>2 DEF EngineInv
<1>4. (\A y \in Execution : Coherent(exec[y]))'
  BY <1>3 DEF Coherent
<1> QED BY <1>2, <1>4 DEF EngineInv, TypeOK, Alone

LEMMA InitEngine == Init => EngineInv
<1> SUFFICES ASSUME Init PROVE EngineInv
  OBVIOUS
<1>1. NotStarted \in ExecutionState
  BY DEF NotStarted, ExecutionState, Pc, Status
<1>2. Coherent(NotStarted)
  <2>1. /\ NotStarted.pc = "idle" /\ NotStarted.queue = <<>>
    BY DEF NotStarted
  <2> QED BY <2>1 DEF Coherent
<1>3. TypeOK
  BY <1>1 DEF Init, TypeOK
<1>4. \A x \in Execution : Coherent(exec[x])
  BY <1>2 DEF Init
<1>5. IsFiniteSet(tasks)
  BY FS_EmptySet DEF Init
<1> QED BY <1>3, <1>4, <1>5 DEF EngineInv

\* An execution that has begun, and the node it is at.
LEMMA AtWork ==
  ASSUME EngineInv, NEW x \in Execution
  PROVE  /\ exec[x] \in ExecutionState /\ Coherent(exec[x])
         /\ exec[x].pc # "idle" => exec[x].workflow \in Workflow
         /\ exec[x].pc \in {"node", "send"} =>
              /\ exec[x].frame \in Frame /\ exec[x].frame.node \in Node
              /\ exec[x].frame.items \in SUBSET Data /\ OneKind(exec[x].frame.items)
              /\ exec[x].todo \subseteq exec[x].frame.items
              /\ exec[x].workflow.keeps[exec[x].frame.node] \in SUBSET Data
              /\ exec[x].workflow.case[exec[x].frame.node] \in [Data -> Label \cup {Unlabelled}]
<1>1. exec[x] \in ExecutionState /\ Coherent(exec[x])
  BY DEF EngineInv, TypeOK
<1>2. exec[x].pc # "idle" => exec[x].workflow \in Workflow
  BY <1>1 DEF Coherent
<1>3. ASSUME exec[x].pc \in {"node", "send"}
      PROVE  /\ exec[x].frame \in Frame /\ exec[x].frame.node \in Node
             /\ exec[x].frame.items \in SUBSET Data /\ OneKind(exec[x].frame.items)
             /\ exec[x].todo \subseteq exec[x].frame.items
  BY <1>1, <1>3 DEF Coherent, Frame
<1>4. ASSUME exec[x].pc \in {"node", "send"}
      PROVE  /\ exec[x].workflow.keeps[exec[x].frame.node] \in SUBSET Data
             /\ exec[x].workflow.case[exec[x].frame.node] \in [Data -> Label \cup {Unlabelled}]
  <2>1. exec[x].workflow \in Definition
    BY <1>2, <1>4, WorkflowAssumption
  <2> QED BY <1>3, <1>4, <2>1 DEF Definition
<1> QED BY <1>1, <1>2, <1>3, <1>4

LEMMA OutcomeFacts ==
  ASSUME EngineInv, NEW x \in Execution, exec[x].pc = "node",
         NEW s, NEW b, NEW c, Outcome(x, s, b, c)
  PROVE  /\ s \in {"ok", "skipped"} /\ c \in Nat /\ b \in Seq(Branch)
         /\ \A k \in DOMAIN b : OneKind(b[k].items)
         /\ \A k, l \in DOMAIN b : b[k].label = b[l].label => k = l
<1>1. PICK items : items = exec[x].frame.items
  OBVIOUS
<1>2. /\ items \in SUBSET Data /\ OneKind(items)
      /\ exec[x].workflow.case[exec[x].frame.node] \in [Data -> Label \cup {Unlabelled}]
      /\ exec[x].nodeCost \in Nat
  BY <1>1, AtWork DEF ExecutionState
<1>3. s \in {"ok", "skipped"} /\ c \in Nat
  BY <1>2 DEF Outcome
<1>4. \E j \in SUBSET Data : OneKind(j) /\ Share(b, j)
  <2>1. ASSUME NEW j \in SUBSET Data, b = All(j), OneKind(j)
        PROVE  \E k \in SUBSET Data : OneKind(k) /\ Share(b, k)
    BY <2>1, AllShares
  <2>2. CASE b = All(items)
    BY <1>2, <2>1, <2>2
  <2>3. CASE b = All(items \cap exec[x].workflow.keeps[exec[x].frame.node])
    <3>1. PICK j : j = items \cap exec[x].workflow.keeps[exec[x].frame.node]
      OBVIOUS
    <3>2. j \in SUBSET Data /\ OneKind(j)
      BY <1>2, <3>1 DEF OneKind
    <3> QED BY <2>1, <2>3, <3>1, <3>2
  <2>4. CASE \E found \in SUBSET Item : b = All(found)
    <3>1. PICK j \in SUBSET Item : b = All(j)
      BY <2>4
    <3>2. j \in SUBSET Data /\ OneKind(j)
      BY <3>1 DEF OneKind, Data
    <3> QED BY <2>1, <3>1, <3>2
  <2>5. CASE b = Buckets(items, exec[x].workflow.case[exec[x].frame.node])
    BY <1>2, <2>5, BucketsShare
  <2> QED BY <1>1, <2>2, <2>3, <2>4, <2>5 DEF Outcome
<1>5. PICK j \in SUBSET Data : OneKind(j) /\ Share(b, j)
  BY <1>4
<1>6. \A k \in DOMAIN b : OneKind(b[k].items)
  BY <1>5 DEF Share, OneKind
<1> QED BY <1>3, <1>5, <1>6 DEF Share

LEMMA BeginStep ==
  ASSUME EngineInv, NEW x \in Execution, Start(x) PROVE EngineInv' /\ Alone(x) /\ HasBegun(x)
<1>1. PICK w \in Workflow, dry \in BOOLEAN : Begin(x, w, dry)
  BY DEF Start
<1>2. PICK f : f = [node |-> Trigger, items |-> {Blank}]
  OBVIOUS
<1>3. PICK e : e = [NotStarted EXCEPT !.pc = "turn", !.workflow = w, !.dryRun = dry,
                                      !.queue = <<f>>] /\ Becomes(x, e)
  BY <1>1, <1>2 DEF Begin
<1>4. f \in Frame /\ OneKind(f.items)
  BY <1>2, WorkflowAssumption DEF Frame, Data, OneKind
<1>5. NotStarted \in ExecutionState
  BY DEF NotStarted, ExecutionState, Pc, Status
<1>6. /\ NotStarted.cost = 0 /\ NotStarted.steps = <<>> /\ NotStarted.status = "none"
  BY DEF NotStarted
<1>7. <<f>> \in Seq(Frame) /\ \A i \in DOMAIN <<f>> : <<f>>[i] = f
  BY <1>4
<1>8. /\ e \in ExecutionState /\ e.pc = "turn" /\ e.workflow = w /\ e.queue = <<f>>
      /\ e.cost = 0 /\ e.steps = <<>> /\ e.status = "none"
  BY <1>3, <1>5, <1>6, <1>7 DEF ExecutionState, Pc
<1>9. Coherent(e)
  BY <1>4, <1>7, <1>8 DEF Coherent
<1>10. exec[x].pc = "idle" /\ UNCHANGED <<tasks, notices, faults>>
  BY <1>1 DEF Begin
<1> QED BY <1>2, <1>3, <1>8, <1>9, <1>10, BecomesFacts DEF EngineInv, TypeOK, HasBegun

LEMMA MoveStep ==
  ASSUME EngineInv, NEW x \in Execution, Late(x) \/ Record(x) \/ Die(x)
  PROVE  EngineInv' /\ Alone(x) /\ HasMoved(x)
<1>1. PICK o : o = exec[x]
  OBVIOUS
<1>2. PICK pc, late : /\ pc \in {"recorded", "dead", o.pc} /\ (pc = "recorded" => o.pc = "record")
                      /\ late \in BOOLEAN /\ o.pc # "idle" /\ (pc = o.pc => pc = "turn")
                      /\ Becomes(x, [o EXCEPT !.pc = pc, !.late = late])
  <2>1. o \in ExecutionState
    BY <1>1, AtWork
  <2>2. o = [o EXCEPT !.pc = o.pc] /\ o = [o EXCEPT !.late = o.late] /\ o.late \in BOOLEAN
    BY <2>1 DEF ExecutionState
  <2>3. CASE Late(x)
    <3>1. o.pc = "turn" /\ [o EXCEPT !.pc = o.pc, !.late = TRUE] = [o EXCEPT !.late = TRUE]
      BY <1>1, <2>1, <2>3 DEF Late, ExecutionState
    <3>2. Becomes(x, [o EXCEPT !.pc = o.pc, !.late = TRUE])
      BY <1>1, <2>3, <3>1 DEF Late
    <3>3. o.pc # "idle" /\ o.pc # "recorded"
      BY <3>1
    <3> QED BY <3>1, <3>2, <3>3
  <2>4. CASE Record(x)
    <3>1. [o EXCEPT !.pc = "recorded", !.late = o.late] = [o EXCEPT !.pc = "recorded"]
      BY <2>1 DEF ExecutionState
    <3> QED BY <1>1, <2>2, <2>4, <3>1 DEF Record
  <2>5. CASE Die(x)
    <3>1. [o EXCEPT !.pc = "dead", !.late = o.late] = [o EXCEPT !.pc = "dead"]
      BY <2>1 DEF ExecutionState
    <3>2. Becomes(x, [o EXCEPT !.pc = "dead", !.late = o.late])
      BY <1>1, <2>5, <3>1 DEF Die
    <3>3. o.pc # "idle" /\ o.pc # "dead"
      BY <1>1, <2>5 DEF Die
    <3> QED BY <2>2, <3>2, <3>3
  <2> QED BY <2>3, <2>4, <2>5
<1>3. PICK e : e = [o EXCEPT !.pc = pc, !.late = late] /\ Becomes(x, e)
  BY <1>2
<1>4. o \in ExecutionState /\ Coherent(o)
  BY <1>1, AtWork
<1>5. /\ e \in ExecutionState /\ e.pc = pc /\ e.workflow = o.workflow /\ e.dryRun = o.dryRun
      /\ e.queue = o.queue /\ e.cost = o.cost /\ e.steps = o.steps /\ e.frame = o.frame
      /\ e.todo = o.todo /\ e.nodeCost = o.nodeCost /\ e.status = o.status
  BY <1>2, <1>3, <1>4 DEF ExecutionState, Pc
<1>6. Coherent(e)
  BY <1>2, <1>4, <1>5 DEF Coherent
<1>7. UNCHANGED <<tasks, notices>> /\ faults' \in Nat
  BY DEF Late, Record, Die, Fault, EngineInv, TypeOK
<1> QED BY <1>1, <1>2, <1>3, <1>5, <1>6, <1>7, BecomesFacts DEF EngineInv, TypeOK, HasMoved, Same

LEMMA FinishStep ==
  ASSUME EngineInv, NEW x \in Execution, Halt(x) \/ Complete(x)
  PROVE  EngineInv' /\ Alone(x) /\ HasFinished(x)
<1>1. PICK o : o = exec[x]
  OBVIOUS
<1>2. PICK s : /\ s \in {"completed", "halted_limits"} /\ (s = "completed" => o.queue = <<>>)
               /\ Becomes(x, [o EXCEPT !.pc = "record", !.status = s])
  BY <1>1 DEF Halt, Complete, Finish
<1>3. PICK e : e = [o EXCEPT !.pc = "record", !.status = s] /\ Becomes(x, e)
  BY <1>2
<1>4. o \in ExecutionState /\ Coherent(o) /\ o.pc = "turn"
  BY <1>1, AtWork DEF Halt, Complete
<1>5. /\ e \in ExecutionState /\ e.pc = "record" /\ e.workflow = o.workflow /\ e.dryRun = o.dryRun
      /\ e.queue = o.queue /\ e.cost = o.cost /\ e.steps = o.steps /\ e.status = s
  BY <1>2, <1>3, <1>4 DEF ExecutionState, Pc, Status
<1>6. Coherent(e)
  BY <1>4, <1>5 DEF Coherent
<1>7. UNCHANGED <<tasks, notices, faults>>
  BY DEF Halt, Complete
<1> QED BY <1>1, <1>2, <1>3, <1>4, <1>5, <1>6, <1>7, BecomesFacts
        DEF EngineInv, TypeOK, HasFinished, Same

LEMMA TakeStep ==
  ASSUME EngineInv, NEW x \in Execution, Take(x)
  PROVE  EngineInv' /\ Alone(x) /\ HasTaken(x)
<1>1. PICK o : o = exec[x]
  OBVIOUS
<1>2. PICK f : f = Head(o.queue)
  OBVIOUS
<1>3. PICK e : /\ e = [o EXCEPT !.pc = "node", !.frame = f, !.queue = Tail(o.queue),
                                !.todo = f.items, !.nodeCost = 0]
               /\ Becomes(x, e)
  BY <1>1, <1>2 DEF Take
<1>4. /\ o \in ExecutionState /\ Coherent(o) /\ o.pc = "turn" /\ o.queue # <<>>
      /\ ~(o.cost > o.workflow.maxCost)
  BY <1>1, AtWork DEF Take, Exhausted
<1>5. o.queue \in Seq(Frame) /\ o.workflow \in Workflow /\ o.cost \in Nat
  BY <1>4 DEF ExecutionState, Coherent
<1>6. o.workflow.maxCost \in Nat
  BY <1>5, WorkflowAssumption DEF Definition
<1>7. /\ f \in Frame /\ Tail(o.queue) \in Seq(Frame) /\ 1 \in DOMAIN o.queue /\ f = o.queue[1]
      /\ \A i \in DOMAIN Tail(o.queue) :
           i + 1 \in DOMAIN o.queue /\ Tail(o.queue)[i] = o.queue[i + 1]
  BY <1>2, <1>4, <1>5
<1>8. f.items \in SUBSET Data /\ OneKind(f.items)
  BY <1>4, <1>7 DEF Coherent, Frame
<1>9. \A i \in DOMAIN Tail(o.queue) : OneKind(Tail(o.queue)[i].items)
  BY <1>4, <1>7 DEF Coherent
<1>10. /\ e \in ExecutionState /\ e.pc = "node" /\ e.workflow = o.workflow /\ e.dryRun = o.dryRun
       /\ e.queue = Tail(o.queue) /\ e.cost = o.cost /\ e.steps = o.steps /\ e.frame = f
       /\ e.todo = f.items /\ e.nodeCost = 0 /\ e.status = o.status
  BY <1>3, <1>4, <1>7, <1>8 DEF ExecutionState, Pc
<1>11. Coherent(e)
  BY <1>5, <1>7, <1>8, <1>9, <1>10 DEF Coherent
<1>12. UNCHANGED <<tasks, notices, faults>>
  BY DEF Take
<1>13. o.cost <= o.workflow.maxCost
  BY <1>4, <1>5, <1>6
<1>14. EngineInv' /\ Alone(x) /\ exec'[x] = e
  BY <1>3, <1>10, <1>11, <1>12, BecomesFacts DEF EngineInv, TypeOK
<1> QED BY <1>1, <1>2, <1>4, <1>10, <1>12, <1>13, <1>14 DEF HasTaken, Same

LEMMA OutcomeComes ==
  ASSUME EngineInv, NEW x \in Execution,
         \/ PassOn(x) \/ Filter(x) \/ Divide(x) \/ Skip(x) \/ Acted(x)
         \/ \E found \in SUBSET Item : Fetch(x, found)
  PROVE  /\ exec[x].pc = "node" /\ UNCHANGED <<tasks, notices, faults>>
         /\ \E s, b, c : Outcome(x, s, b, c) /\ Produce(x, s, b, c)
<1>1. exec[x].pc = "node" /\ UNCHANGED <<tasks, notices, faults>>
  BY DEF PassOn, Filter, Divide, Skip, Acted, Fetch, AtNode
<1>2. CASE PassOn(x)
  BY <1>2 DEF PassOn, AtNode, TypeAt, Outcome
<1>3. CASE Filter(x)
  BY <1>3 DEF Filter, AtNode, TypeAt, Outcome
<1>4. CASE Divide(x)
  BY <1>4 DEF Divide, AtNode, TypeAt, Outcome
<1>5. CASE Skip(x)
  BY <1>5 DEF Skip, AtNode, TypeAt, Outcome
<1>6. CASE Acted(x)
  BY <1>6 DEF Acted, Acts, AtNode, TypeAt, Outcome
<1>7. CASE \E found \in SUBSET Item : Fetch(x, found)
  BY <1>7 DEF Fetch, AtNode, TypeAt, Outcome
<1> QED BY <1>1, <1>2, <1>3, <1>4, <1>5, <1>6, <1>7

LEMMA ProduceStep ==
  ASSUME EngineInv, NEW x \in Execution, exec[x].pc = "node",
         UNCHANGED <<tasks, notices, faults>>,
         NEW s, NEW b, NEW c, Outcome(x, s, b, c), Produce(x, s, b, c)
  PROVE  EngineInv' /\ Alone(x) /\ HasProduced(x, s, b, c)
<1>1. PICK o : o = exec[x]
  OBVIOUS
<1>2. PICK st : st = Logged(x, s, b)
  OBVIOUS
<1>3. PICK more : more = Pushed(o.workflow, o.frame.node, b)
  OBVIOUS
<1>4. PICK e : /\ e = [o EXCEPT !.pc = "turn", !.frame = NoFrame, !.todo = {}, !.nodeCost = 0,
                                !.cost = o.cost + c, !.steps = Append(o.steps, st),
                                !.queue = o.queue \o more]
               /\ Becomes(x, e)
  BY <1>1, <1>2, <1>3 DEF Produce, Logged
<1>5. /\ o \in ExecutionState /\ Coherent(o) /\ o.pc = "node"
      /\ o.workflow \in Workflow /\ o.frame.node \in Node /\ o.frame.items \in SUBSET Data
  BY <1>1, AtWork
<1>6. /\ s \in {"ok", "skipped"} /\ c \in Nat /\ b \in Seq(Branch)
      /\ \A k \in DOMAIN b : OneKind(b[k].items)
  BY OutcomeFacts
<1>7. st \in Step
  BY <1>1, <1>2, <1>5, <1>6 DEF Logged, Step
<1>8. o.queue \in Seq(Frame) /\ o.steps \in Seq(Step) /\ o.cost \in Nat
  BY <1>5 DEF ExecutionState
<1>9. /\ more \in Seq(Frame)
      /\ \A i \in 1 .. Len(more) : \E k \in DOMAIN b : more[i].items = b[k].items
  BY <1>3, <1>5, <1>6, PushedItems
<1>10. PICK queue : queue = o.queue \o more
  OBVIOUS
<1>11. queue \in Seq(Frame) /\ \A i \in DOMAIN queue : OneKind(queue[i].items)
  <2>1. ASSUME NEW i \in DOMAIN queue
        PROVE  \/ i \in DOMAIN o.queue /\ queue[i] = o.queue[i]
               \/ \E j \in 1 .. Len(more) : queue[i] = more[j]
    <3>1. /\ queue \in Seq(Frame) /\ Len(queue) = Len(o.queue) + Len(more)
          /\ \A k \in 1 .. Len(o.queue) + Len(more) :
               queue[k] = IF k <= Len(o.queue) THEN o.queue[k] ELSE more[k - Len(o.queue)]
      BY <1>8, <1>9, <1>10, ConcatProperties
    <3>2. Len(o.queue) \in Nat /\ Len(more) \in Nat
      BY <1>8, <1>9
    <3>3. /\ DOMAIN queue = 1 .. (Len(o.queue) + Len(more))
          /\ DOMAIN o.queue = 1 .. Len(o.queue)
      BY <1>8, <3>1
    <3>4. ~(i <= Len(o.queue)) =>
            i - Len(o.queue) \in 1 .. Len(more) /\ queue[i] = more[i - Len(o.queue)]
      BY <3>1, <3>2, <3>3
    <3>5. i <= Len(o.queue) => i \in DOMAIN o.queue /\ queue[i] = o.queue[i]
      BY <3>1, <3>2, <3>3
    <3> QED BY <3>4, <3>5
  <2>2. \A i \in DOMAIN o.queue : OneKind(o.queue[i].items)
    BY <1>5 DEF Coherent
  <2>3. \A j \in 1 .. Len(more) : OneKind(more[j].items)
    BY <1>6, <1>9
  <2> QED BY <1>8, <1>9, <1>10, <2>1, <2>2, <2>3
<1>12. Append(o.steps, st) \in Seq(Step) /\ o.cost + c \in Nat
  BY <1>6, <1>7, <1>8
<1>13. PICK steps : steps = Append(o.steps, st)
  OBVIOUS
<1>14. /\ e \in ExecutionState /\ e.pc = "turn" /\ e.workflow = o.workflow /\ e.dryRun = o.dryRun
       /\ e.queue = queue /\ e.cost = o.cost + c /\ e.steps = steps /\ e.status = o.status
  BY <1>4, <1>5, <1>10, <1>11, <1>12, <1>13 DEF ExecutionState, Pc
<1>15. Coherent(e)
  BY <1>5, <1>11, <1>14 DEF Coherent
<1>16. EngineInv' /\ Alone(x) /\ exec'[x] = e
  BY <1>4, <1>14, <1>15, BecomesFacts DEF EngineInv, TypeOK
<1> QED BY <1>1, <1>2, <1>3, <1>5, <1>10, <1>13, <1>14, <1>16 DEF HasProduced, Same

\* The execution is still at its node, some of its items done.
LEMMA WorkStep ==
  ASSUME EngineInv, NEW x \in Execution, exec[x].pc \in {"node", "send"},
         NEW pc \in {"node", "send"}, NEW todo, todo \subseteq exec[x].todo,
         NEW cost \in Nat, NEW repeated \in BOOLEAN,
         pc = "send" => TypeAt(x) = "notify" /\ ~exec[x].dryRun,
         Becomes(x, [exec[x] EXCEPT !.pc = pc, !.todo = todo, !.nodeCost = cost,
                                    !.repeated = repeated]),
         tasks' \subseteq Task, IsFiniteSet(tasks'), notices' \subseteq Notice, faults' = faults
  PROVE  /\ EngineInv' /\ Alone(x) /\ Same(x) /\ exec'[x].pc = pc
         /\ exec'[x].todo = todo /\ exec'[x].nodeCost = cost
         /\ exec'[x].queue = exec[x].queue /\ exec'[x].cost = exec[x].cost
         /\ exec'[x].steps = exec[x].steps /\ exec'[x].frame = exec[x].frame
         /\ exec'[x].status = exec[x].status
<1>1. PICK o : o = exec[x]
  OBVIOUS
<1>2. PICK e : /\ e = [o EXCEPT !.pc = pc, !.todo = todo, !.nodeCost = cost,
                                !.repeated = repeated]
               /\ Becomes(x, e)
  BY <1>1
<1>3. /\ o \in ExecutionState /\ Coherent(o) /\ o.pc \in {"node", "send"}
      /\ o.todo \subseteq o.frame.items /\ todo \in SUBSET Data
  BY <1>1, AtWork
<1>4. /\ e \in ExecutionState /\ e.pc = pc /\ e.workflow = o.workflow /\ e.dryRun = o.dryRun
      /\ e.queue = o.queue /\ e.cost = o.cost /\ e.steps = o.steps /\ e.frame = o.frame
      /\ e.todo = todo /\ e.nodeCost = cost /\ e.status = o.status
  BY <1>2, <1>3 DEF ExecutionState, Pc
<1>5. Coherent(e)
  BY <1>1, <1>3, <1>4 DEF Coherent, TypeAt
<1>6. EngineInv' /\ Alone(x) /\ exec'[x] = e
  BY <1>2, <1>4, <1>5, BecomesFacts DEF EngineInv, TypeOK
<1> QED BY <1>1, <1>4, <1>6 DEF Same

LEMMA RowIsTask ==
  ASSUME EngineInv, NEW x \in Execution, exec[x].pc \in {"node", "send"}, NEW i \in exec[x].todo
  PROVE  Row(x, i) \in Task /\ Len(exec[x].steps) \in Nat
<1>1. i \in Data /\ exec[x].frame.node \in Node
  BY AtWork
<1>2. Len(exec[x].steps) \in Nat
  <2>1. exec[x].steps \in Seq(Step)
    BY AtWork DEF ExecutionState
  <2> QED BY <2>1
<1> QED BY <1>1, <1>2 DEF Row, Task

LEMMA DispatchFacts ==
  ASSUME EngineInv, NEW x \in Execution, NEW i \in Data, Dispatch(x, i)
  PROVE  EngineInv' /\ Alone(x) /\ HasDispatched(x, i)
<1>1. PICK o : o = exec[x]
  OBVIOUS
<1>2. o \in ExecutionState /\ o.pc = "node" /\ i \in o.todo /\ ~o.dryRun
  BY <1>1, AtWork DEF Dispatch, AtNode, Acts, IsNext
<1>3. PICK cost : cost = IF TypeAt(x) = "agent_task" THEN o.nodeCost + Price ELSE o.nodeCost
  OBVIOUS
<1>4. PICK todo : todo = o.todo \ {i}
  OBVIOUS
<1>5. cost \in Nat /\ o.repeated \in BOOLEAN /\ todo \subseteq o.todo
  BY <1>2, <1>3, <1>4, WorkflowAssumption DEF ExecutionState
<1>6. Becomes(x, [o EXCEPT !.todo = todo, !.nodeCost = cost])
  BY <1>1, <1>3, <1>4 DEF Dispatch
<1>7. [o EXCEPT !.todo = todo, !.nodeCost = cost] =
        [o EXCEPT !.pc = "node", !.todo = todo, !.nodeCost = cost, !.repeated = o.repeated]
  BY <1>2 DEF ExecutionState
<1>8. Becomes(x, [o EXCEPT !.pc = "node", !.todo = todo, !.nodeCost = cost,
                           !.repeated = o.repeated])
  BY <1>6, <1>7
<1>9. tasks' = tasks \cup {Row(x, i)} /\ notices' = notices /\ faults' = faults
  BY DEF Dispatch
<1>10. Row(x, i) \in Task
  BY <1>1, <1>2, RowIsTask
<1>11. tasks' \subseteq Task /\ IsFiniteSet(tasks') /\ notices' \subseteq Notice /\ faults' = faults
  BY <1>9, <1>10, FS_AddElement DEF EngineInv, TypeOK
<1>12. TypeAt(x) \in {"agent_task", "archive"}
  BY DEF Dispatch, AtNode
<1>13. /\ EngineInv' /\ Alone(x) /\ Same(x) /\ exec'[x].pc = "node"
       /\ exec'[x].todo = todo /\ exec'[x].nodeCost = cost
       /\ exec'[x].queue = exec[x].queue /\ exec'[x].cost = exec[x].cost
       /\ exec'[x].steps = exec[x].steps /\ exec'[x].frame = exec[x].frame
       /\ exec'[x].status = exec[x].status
  BY <1>1, <1>2, <1>5, <1>8, <1>11, WorkStep
<1> QED BY <1>1, <1>2, <1>3, <1>4, <1>9, <1>12, <1>13 DEF HasDispatched

LEMMA LookFacts ==
  ASSUME EngineInv, NEW x \in Execution, NEW i \in Data, Look(x, i)
  PROVE  EngineInv' /\ Alone(x) /\ HasLooked(x)
<1>1. PICK o : o = exec[x]
  OBVIOUS
<1>2. o \in ExecutionState /\ o.pc = "node" /\ TypeAt(x) = "notify" /\ ~o.dryRun
  BY <1>1, AtWork DEF Look, AtNode, Acts
<1>3. PICK found \in BOOLEAN : Becomes(x, [o EXCEPT !.pc = "send", !.repeated = found])
  BY <1>1 DEF Look
<1>4. [o EXCEPT !.pc = "send", !.repeated = found] =
        [o EXCEPT !.pc = "send", !.todo = o.todo, !.nodeCost = o.nodeCost, !.repeated = found]
  BY <1>2 DEF ExecutionState
<1>5. Becomes(x, [o EXCEPT !.pc = "send", !.todo = o.todo, !.nodeCost = o.nodeCost,
                           !.repeated = found])
  BY <1>3, <1>4
<1>6. UNCHANGED <<tasks, notices, faults>>
  BY DEF Look
<1>7. tasks' \subseteq Task /\ IsFiniteSet(tasks') /\ notices' \subseteq Notice
  BY <1>6 DEF EngineInv, TypeOK
<1>8. o.nodeCost \in Nat
  BY <1>2 DEF ExecutionState
<1>9. /\ EngineInv' /\ Alone(x) /\ Same(x) /\ exec'[x].pc = "send"
      /\ exec'[x].todo = o.todo /\ exec'[x].nodeCost = o.nodeCost
      /\ exec'[x].queue = exec[x].queue /\ exec'[x].cost = exec[x].cost
      /\ exec'[x].steps = exec[x].steps /\ exec'[x].frame = exec[x].frame
      /\ exec'[x].status = exec[x].status
  BY <1>1, <1>2, <1>5, <1>6, <1>7, <1>8, WorkStep
<1> QED BY <1>1, <1>2, <1>6, <1>9 DEF HasLooked

LEMMA SendFacts ==
  ASSUME EngineInv, NEW x \in Execution, NEW i \in Data, Send(x, i)
  PROVE  EngineInv' /\ Alone(x) /\ HasSent(x, i)
<1>1. PICK o : o = exec[x]
  OBVIOUS
<1>2. o \in ExecutionState /\ o.pc = "send" /\ i \in o.todo
  BY <1>1, AtWork DEF Send, IsNext
<1>3. PICK todo : todo = o.todo \ {i}
  OBVIOUS
<1>4. PICK cost : cost = o.nodeCost
  OBVIOUS
<1>5. Becomes(x, [o EXCEPT !.pc = "node", !.todo = todo, !.repeated = FALSE])
  BY <1>1, <1>3 DEF Send
<1>6. [o EXCEPT !.pc = "node", !.todo = todo, !.repeated = FALSE] =
        [o EXCEPT !.pc = "node", !.todo = todo, !.nodeCost = cost, !.repeated = FALSE]
  BY <1>2, <1>4 DEF ExecutionState
<1>7. Becomes(x, [o EXCEPT !.pc = "node", !.todo = todo, !.nodeCost = cost, !.repeated = FALSE])
  BY <1>5, <1>6
<1>8. PICK n : n = NoticeRow(x, i)
  OBVIOUS
<1>9. notices' = notices \cup {n} /\ UNCHANGED <<tasks, faults>>
  BY <1>8 DEF Send
<1>10. n \in Notice /\ n.of = Row(x, i)
  <2>1. Row(x, i) \in Task
    BY <1>1, <1>2, RowIsTask
  <2> QED BY <1>8, <2>1 DEF NoticeRow, Notice
<1>11. tasks' \subseteq Task /\ IsFiniteSet(tasks') /\ notices' \subseteq Notice /\ faults' = faults
  BY <1>9, <1>10 DEF EngineInv, TypeOK
<1>12. cost \in Nat /\ todo \subseteq o.todo
  BY <1>2, <1>3, <1>4 DEF ExecutionState
<1>13. /\ EngineInv' /\ Alone(x) /\ Same(x) /\ exec'[x].pc = "node"
       /\ exec'[x].todo = todo /\ exec'[x].nodeCost = cost
       /\ exec'[x].queue = exec[x].queue /\ exec'[x].cost = exec[x].cost
       /\ exec'[x].steps = exec[x].steps /\ exec'[x].frame = exec[x].frame
       /\ exec'[x].status = exec[x].status
  BY <1>1, <1>2, <1>7, <1>11, <1>12, WorkStep
<1> QED BY <1>1, <1>2, <1>3, <1>4, <1>9, <1>10, <1>13 DEF HasSent

LEMMA FailFacts ==
  ASSUME EngineInv, NEW x \in Execution, NodeFails(x)
  PROVE  EngineInv' /\ Alone(x) /\ HasFailed(x)
<1>1. PICK o : o = exec[x]
  OBVIOUS
<1>2. PICK st : st = Logged(x, "failed", <<>>)
  OBVIOUS
<1>3. PICK e : /\ e = [o EXCEPT !.pc = "record", !.status = "failed", !.frame = NoFrame,
                                !.todo = {}, !.nodeCost = 0, !.repeated = FALSE,
                                !.steps = Append(o.steps, st)]
               /\ Becomes(x, e)
  BY <1>1, <1>2 DEF NodeFails, Logged
<1>4. /\ o \in ExecutionState /\ Coherent(o) /\ o.pc \in {"node", "send"}
      /\ o.frame.node \in Node /\ o.frame.items \in SUBSET Data
  BY <1>1, AtWork DEF NodeFails, MayThrow
<1>5. st \in Step
  <2>1. <<>> \in Seq(Branch)
    OBVIOUS
  <2> QED BY <1>1, <1>2, <1>4, <2>1 DEF Logged, Step
<1>6. PICK steps : steps = Append(o.steps, st)
  OBVIOUS
<1>7. steps \in Seq(Step)
  BY <1>4, <1>5, <1>6 DEF ExecutionState
<1>8. /\ e \in ExecutionState /\ e.pc = "record" /\ e.workflow = o.workflow
      /\ e.dryRun = o.dryRun /\ e.queue = o.queue /\ e.steps = steps /\ e.status = "failed"
  BY <1>3, <1>4, <1>6, <1>7 DEF ExecutionState, Pc, Status
<1>9. Coherent(e)
  BY <1>4, <1>8 DEF Coherent
<1>10. UNCHANGED <<tasks, notices>> /\ faults' \in Nat
  BY DEF NodeFails, Fault, EngineInv, TypeOK
<1>11. EngineInv' /\ Alone(x) /\ exec'[x] = e
  BY <1>3, <1>8, <1>9, <1>10, BecomesFacts DEF EngineInv, TypeOK
<1>12. TypeAt(x) \in Acting => ~exec[x].dryRun
  BY DEF NodeFails, MayThrow, Acts
<1> QED BY <1>1, <1>2, <1>4, <1>6, <1>8, <1>10, <1>11, <1>12 DEF HasFailed, Same

\* A step that no execution takes: what was sent stays sent.
Ages ==
  /\ UNCHANGED <<exec, tasks>>
  /\ \/ notices' = notices
     \/ \E r \in notices, n \in Notice : n.of = r.of /\ notices' = (notices \ {r}) \cup {n}

LEMMA AgeStep ==
  ASSUME EngineInv, UNCHANGED vars \/ \E r \in notices : WindowEnds(r)
  PROVE  EngineInv' /\ Ages
<1>1. CASE UNCHANGED vars
  <2>1. UNCHANGED <<exec, tasks, notices, faults>>
    BY <1>1 DEF vars
  <2>2. EngineInv'
    BY <2>1 DEF EngineInv, TypeOK, Coherent
  <2> QED BY <2>1, <2>2 DEF Ages
<1>2. CASE \E r \in notices : WindowEnds(r)
  <2>1. PICK r \in notices : WindowEnds(r)
    BY <1>2
  <2>2. PICK n : n = [r EXCEPT !.fresh = FALSE]
    OBVIOUS
  <2>3. r \in Notice
    BY DEF EngineInv, TypeOK
  <2>4. n \in Notice /\ n.of = r.of
    BY <2>2, <2>3 DEF Notice
  <2>5. notices' = (notices \ {r}) \cup {n} /\ UNCHANGED <<exec, tasks, faults>>
    BY <2>1, <2>2 DEF WindowEnds
  <2>6. notices' \subseteq Notice
    BY <2>4, <2>5 DEF EngineInv, TypeOK
  <2>7. EngineInv'
    BY <2>5, <2>6 DEF EngineInv, TypeOK, Coherent
  <2> QED BY <2>4, <2>5, <2>7 DEF Ages
<1> QED BY <1>1, <1>2

LEMMA EngineStep ==
  ASSUME EngineInv, [Next]_vars
  PROVE  EngineInv' /\ (Ages \/ \E x \in Execution : Alone(x) /\ OneStep(x))
<1>1. CASE UNCHANGED vars \/ \E r \in notices : WindowEnds(r)
  BY <1>1, AgeStep
<1>2. CASE \E x \in Execution : Start(x) \/ Late(x) \/ Proceed(x) \/ NodeFails(x) \/ Die(x)
  <2>1. PICK x \in Execution : Start(x) \/ Late(x) \/ Proceed(x) \/ NodeFails(x) \/ Die(x)
    BY <1>2
  <2>2. SUFFICES EngineInv' /\ Alone(x) /\ OneStep(x)
    OBVIOUS
  <2>3. CASE Start(x)
    BY <2>3, BeginStep DEF OneStep
  <2>4. CASE Late(x) \/ Record(x) \/ Die(x)
    BY <2>4, MoveStep DEF OneStep
  <2>5. CASE Halt(x) \/ Complete(x)
    BY <2>5, FinishStep DEF OneStep
  <2>6. CASE Take(x)
    BY <2>6, TakeStep DEF OneStep
  <2>7. CASE \/ PassOn(x) \/ Filter(x) \/ Divide(x) \/ Skip(x) \/ Acted(x)
             \/ \E found \in SUBSET Item : Fetch(x, found)
    <3>1. exec[x].pc = "node" /\ UNCHANGED <<tasks, notices, faults>>
      BY <2>7, OutcomeComes
    <3>2. PICK s, b, c : Outcome(x, s, b, c) /\ Produce(x, s, b, c)
      BY <2>7, OutcomeComes
    <3>3. EngineInv' /\ Alone(x) /\ HasProduced(x, s, b, c)
      BY <3>1, <3>2, ProduceStep
    <3>4. s \in {"ok", "skipped"} /\ c \in Nat /\ b \in Seq(Branch)
      BY <3>1, <3>2, OutcomeFacts
    <3> QED BY <3>2, <3>3, <3>4, Zenon DEF OneStep
  <2>8. CASE \E i \in Data : Dispatch(x, i) \/ Look(x, i) \/ Send(x, i)
    BY <2>8, DispatchFacts, LookFacts, SendFacts DEF OneStep
  <2>9. CASE NodeFails(x)
    BY <2>9, FailFacts DEF OneStep
  <2> QED BY <2>1, <2>3, <2>4, <2>5, <2>6, <2>7, <2>8, <2>9, Zenon DEF Proceed, RunNode
<1> QED BY <1>1, <1>2 DEF Next

\* Every step keeps the executions well-formed, whatever the workflows do.
THEOREM EngineTyped == Spec => []TypeOK
<1>1. EngineInv /\ [Next]_vars => EngineInv'
  BY EngineStep
<1>2. EngineInv => TypeOK
  BY DEF EngineInv
<1> QED BY InitEngine, <1>1, <1>2, PTL DEF Spec

----------------------------------------------------------------------------
(* The record accounts for the effects *)

LEMMA AppendFacts ==
  ASSUME NEW T, NEW s \in Seq(T), NEW t \in T
  PROVE  /\ Append(s, t) \in Seq(T) /\ Len(s) \in Nat /\ Len(Append(s, t)) = Len(s) + 1
         /\ DOMAIN s = 1 .. Len(s) /\ DOMAIN Append(s, t) = 1 .. (Len(s) + 1)
         /\ \A k \in 1 .. Len(s) : Append(s, t)[k] = s[k]
         /\ Append(s, t)[Len(s) + 1] = t
OBVIOUS

\* The effects of an execution, as rows.
Taken(r) == r \in tasks \/ \E n \in notices : n.of = r

\* A row is of a step that was logged so, or of what is in hand.
Logs(e, r, status) ==
  /\ r.step \in DOMAIN e.steps
  /\ e.steps[r.step].node = r.node /\ r.item \in e.steps[r.step].items
  /\ e.steps[r.step].status = status
HasInHand(e, r) ==
  /\ e.pc \in {"node", "send"} /\ e.workflow.type[e.frame.node] \in Acting /\ ~e.dryRun
  /\ r.step = Len(e.steps) + 1 /\ r.node = e.frame.node /\ r.item \in e.frame.items \ e.todo
Does(e, r) == (Logs(e, r, "ok") /\ e.workflow.type[r.node] \in Acting) \/ HasInHand(e, r)

Reported(x) ==
  exec[x].pc \notin {"idle", "dead"} =>
    \A r \in Task : r.exec = x =>
      /\ Does(exec[x], r) => Taken(r)
      /\ Taken(r) => Does(exec[x], r) \/ Logs(exec[x], r, "failed")

Once == \A r, q \in notices : r.of = q.of => r = q

ReportInv == EngineInv /\ NoticeInv /\ Once /\ \A x \in Execution : Reported(x)

\* The outcome's step is logged as done when its items were.
LEMMA ProducedDoes ==
  ASSUME EngineInv, NEW x \in Execution, NEW s \in {"ok", "skipped"}, NEW b \in Seq(Branch), NEW c \in Nat,
         Outcome(x, s, b, c), HasProduced(x, s, b, c), NEW r \in Task
  PROVE  /\ Does(exec'[x], r) <=> Does(exec[x], r)
         /\ Logs(exec'[x], r, "failed") <=> Logs(exec[x], r, "failed")
<1>1. PICK o, p : o = exec[x] /\ p = exec'[x]
  OBVIOUS
<1>2. PICK st : st = Logged(x, s, b)
  OBVIOUS
<1>3. PICK n : n = Len(o.steps)
  OBVIOUS
<1>4. /\ o \in ExecutionState /\ o.pc = "node" /\ o.workflow \in Workflow
      /\ o.frame.node \in Node /\ o.frame.items \in SUBSET Data
  BY <1>1, AtWork DEF HasProduced
<1>5. st.node = o.frame.node /\ st.items = o.frame.items /\ st.status = s /\ st \in Step
  BY <1>1, <1>2, <1>4 DEF Logged, Step
<1>6. p.pc = "turn" /\ p.workflow = o.workflow /\ p.dryRun = o.dryRun /\ p.steps = Append(o.steps, st)
  BY <1>1, <1>2 DEF HasProduced, Same
<1>7. /\ n \in Nat /\ DOMAIN o.steps = 1 .. n /\ DOMAIN p.steps = 1 .. (n + 1)
      /\ \A k \in 1 .. n : p.steps[k] = o.steps[k]
      /\ p.steps[n + 1] = st
  <2>1. o.steps \in Seq(Step)
    BY <1>4 DEF ExecutionState
  <2> QED BY <1>3, <1>5, <1>6, <2>1, AppendFacts
<1>8. \A t : Logs(p, r, t) <=> \/ Logs(o, r, t)
                              \/ /\ r.step = n + 1 /\ r.node = o.frame.node
                                 /\ r.item \in o.frame.items /\ s = t
  BY <1>5, <1>7 DEF Logs
<1>9. ~HasInHand(p, r)
  BY <1>6 DEF HasInHand
<1>10. r.step = n + 1 => ~Logs(o, r, "ok")
  BY <1>7 DEF Logs
<1>11. s = "ok" /\ o.workflow.type[o.frame.node] \in Acting => ~o.dryRun /\ o.todo = {}
  BY <1>1 DEF Outcome, Acting, Plain
<1>12. o.workflow.type[o.frame.node] \in Acting /\ ~o.dryRun => s = "ok" /\ o.todo = {}
  BY <1>1 DEF Outcome, Acting, Plain
<1>13. s # "failed"
  OBVIOUS
<1> QED BY <1>1, <1>3, <1>4, <1>6, <1>8, <1>9, <1>11, <1>12, <1>13 DEF Does, HasInHand

LEMMA StepReports ==
  ASSUME ReportInv, EngineInv', NoticeInv', NEW x \in Execution, Alone(x), OneStep(x)
  PROVE  Once' /\ Reported(x)'
<1>1. PICK o, p : o = exec[x] /\ p = exec'[x]
  OBVIOUS
<1>2. o \in ExecutionState /\ p \in ExecutionState
  BY <1>1 DEF ReportInv, EngineInv, TypeOK
<1>3. ASSUME UNCHANGED <<tasks, notices>>, o.pc \notin {"idle", "dead"},
             \A r \in Task : /\ Does(p, r) => Does(o, r)
                             /\ Does(o, r) => Does(p, r) \/ Logs(p, r, "failed")
                             /\ Logs(o, r, "failed") => Logs(p, r, "failed")
      PROVE  Once' /\ Reported(x)'
  <2>1. Once'
    BY <1>3 DEF ReportInv, Once
  <2>2. \A r : Taken(r)' <=> Taken(r)
    BY <1>3 DEF Taken
  <2>3. Reported(x)
    BY DEF ReportInv
  <2>4. \A r \in Task : r.exec = x => /\ Does(p, r) => Taken(r)
                                      /\ Taken(r) => Does(p, r) \/ Logs(p, r, "failed")
    BY <1>1, <1>3, <2>3, Zenon DEF Reported
  <2>5. \A r \in Task : r.exec = x => /\ Does(p, r) => Taken(r)'
                                      /\ Taken(r)' => Does(p, r) \/ Logs(p, r, "failed")
    BY <2>2, <2>4
  <2> QED BY <1>1, <2>1, <2>5 DEF Reported, Does, Logs, HasInHand
<1>4. CASE HasBegun(x)
  <2>1. p.pc = "turn" /\ p.steps = <<>> /\ UNCHANGED <<tasks, notices>> /\ o.pc = "idle"
    BY <1>1, <1>4 DEF HasBegun
  <2>2. \A r : ~Does(p, r)
    BY <2>1 DEF Does, Logs, HasInHand
  <2>3. \A r \in Task : r.exec = x => ~Taken(r)'
    BY <1>1, <2>1 DEF Taken, ReportInv, NoticeInv, RowsAreReal
  <2>4. Once'
    BY <2>1 DEF ReportInv, Once
  <2> QED BY <1>1, <2>2, <2>3, <2>4 DEF Reported, Does, Logs, HasInHand
<1>5. CASE HasMoved(x)
  <2>1. CASE p.pc = "dead"
    <3>1. UNCHANGED <<tasks, notices>>
      BY <1>5 DEF HasMoved
    <3> QED BY <1>1, <2>1, <3>1 DEF ReportInv, Once, Reported
  <2>2. CASE p.pc # "dead"
    <3>1. /\ p.pc = o.pc \/ (p.pc = "recorded" /\ o.pc = "record")
          /\ o.pc # "idle"
          /\ p.workflow = o.workflow /\ p.dryRun = o.dryRun /\ p.steps = o.steps
          /\ p.frame = o.frame /\ p.todo = o.todo /\ UNCHANGED <<tasks, notices>>
      BY <1>1, <1>5, <2>2 DEF HasMoved, Same
    <3>2. \A r : /\ Does(p, r) <=> Does(o, r)
                 /\ Logs(p, r, "failed") <=> Logs(o, r, "failed")
      BY <3>1 DEF Does, Logs, HasInHand
    <3> QED BY <1>3, <2>2, <3>1, <3>2
  <2> QED BY <2>1, <2>2
<1>6. CASE HasFinished(x) \/ HasTaken(x) \/ HasLooked(x)
  <2>1. /\ o.pc \in {"turn", "node"}
        /\ p.workflow = o.workflow /\ p.dryRun = o.dryRun /\ p.steps = o.steps
        /\ UNCHANGED <<tasks, notices>>
    BY <1>1, <1>6 DEF HasFinished, HasTaken, HasLooked, Same
  <2>2. \A r : HasInHand(p, r) <=> HasInHand(o, r)
    BY <1>1, <1>6 DEF HasFinished, HasTaken, HasLooked, HasInHand, Same
  <2>3. \A r : /\ Does(p, r) <=> Does(o, r)
               /\ Logs(p, r, "failed") <=> Logs(o, r, "failed")
    BY <2>1, <2>2 DEF Does, Logs
  <2> QED BY <1>3, <2>1, <2>3
<1>7. CASE \E s \in {"ok", "skipped"}, b \in Seq(Branch), c \in Nat :
             Outcome(x, s, b, c) /\ HasProduced(x, s, b, c)
  <2>1. PICK s \in {"ok", "skipped"}, b \in Seq(Branch), c \in Nat :
               Outcome(x, s, b, c) /\ HasProduced(x, s, b, c)
    BY <1>7
  <2>2. UNCHANGED <<tasks, notices>> /\ o.pc = "node"
    BY <1>1, <2>1 DEF HasProduced
  <2>3. \A r \in Task : /\ Does(p, r) <=> Does(o, r)
                        /\ Logs(p, r, "failed") <=> Logs(o, r, "failed")
    BY <1>1, <2>1, ProducedDoes DEF ReportInv
  <2> QED BY <1>3, <2>2, <2>3
<1>8. CASE HasFailed(x)
  <2>1. PICK st : st = Logged(x, "failed", <<>>)
    OBVIOUS
  <2>2. /\ o.pc \in {"node", "send"} /\ p.pc = "record"
        /\ p.workflow = o.workflow /\ p.steps = Append(o.steps, st)
        /\ UNCHANGED <<tasks, notices>>
    BY <1>1, <1>8, <2>1 DEF HasFailed, Same
  <2>3. st.node = o.frame.node /\ st.items = o.frame.items /\ st.status = "failed"
    BY <1>1, <2>1 DEF Logged
  <2>4. PICK n : n = Len(o.steps)
    OBVIOUS
  <2>5. /\ n \in Nat /\ DOMAIN o.steps = 1 .. n /\ DOMAIN p.steps = 1 .. (n + 1)
        /\ \A k \in 1 .. n : p.steps[k] = o.steps[k]
        /\ p.steps[n + 1] = st
    <3>1. o.steps \in Seq(Step)
      BY <1>2 DEF ExecutionState
    <3>2. st \in Step
      <4>1. o.frame.node \in Node /\ o.frame.items \in SUBSET Data
        BY <1>1, <2>2, AtWork DEF ReportInv
      <4>2. <<>> \in Seq(Branch)
        OBVIOUS
      <4> QED BY <1>1, <2>1, <4>1, <4>2 DEF Logged, Step
    <3> QED BY <2>2, <2>4, <3>1, <3>2, AppendFacts
  <2>6. \A r, t : Logs(p, r, t) <=> \/ Logs(o, r, t)
                                    \/ /\ r.step = n + 1 /\ r.node = o.frame.node
                                       /\ r.item \in o.frame.items /\ t = "failed"
    BY <2>3, <2>5 DEF Logs
  <2>7. \A r : ~HasInHand(p, r)
    BY <2>2 DEF HasInHand
  <2>8. \A r : HasInHand(o, r) => Logs(p, r, "failed")
    BY <2>4, <2>6 DEF HasInHand
  <2>9. \A r \in Task : /\ Does(p, r) => Does(o, r)
                        /\ Does(o, r) => Does(p, r) \/ Logs(p, r, "failed")
                        /\ Logs(o, r, "failed") => Logs(p, r, "failed")
    BY <2>2, <2>6, <2>7, <2>8 DEF Does
  <2> QED BY <1>3, <2>2, <2>9
<1>9. CASE \E i \in Data : HasDispatched(x, i) \/ HasSent(x, i)
  <2>1. PICK i \in Data : HasDispatched(x, i) \/ HasSent(x, i)
    BY <1>9
  <2>2. PICK row : row = Row(x, i)
    OBVIOUS
  <2>3. PICK n : n = Len(o.steps)
    OBVIOUS
  <2>4. /\ o.pc \in {"node", "send"} /\ p.pc = "node" /\ i \in o.todo /\ p.todo = o.todo \ {i}
        /\ p.workflow = o.workflow /\ p.dryRun = o.dryRun /\ p.steps = o.steps
        /\ p.frame = o.frame
    BY <1>1, <2>1 DEF HasDispatched, HasSent, Same
  <2>5. o.workflow.type[o.frame.node] \in Acting /\ ~o.dryRun
    BY <1>1, <2>1 DEF HasDispatched, HasSent, TypeAt, Acting, ReportInv, EngineInv, Coherent
  <2>6. /\ row.exec = x /\ row.step = n + 1 /\ row.node = o.frame.node /\ row.item = i
        /\ \A r \in Task : /\ r.exec = x /\ r.step = n + 1 /\ r.node = o.frame.node /\ r.item = i
                           => r = row
    BY <1>1, <2>2, <2>3 DEF Row, Task
  <2>7. n \in Nat /\ DOMAIN o.steps = 1 .. n /\ i \in o.frame.items /\ row \in Task
    <3>1. o.steps \in Seq(Step)
      BY <1>2 DEF ExecutionState
    <3> QED BY <1>1, <2>2, <2>3, <2>4, <3>1, AtWork, RowIsTask DEF ReportInv
  <2>8. \A r : Taken(r)' <=> Taken(r) \/ r = row
    BY <2>1, <2>2 DEF HasDispatched, HasSent, Taken
  <2>9. ~Does(o, row) /\ \A t : ~Logs(o, row, t)
    BY <2>3, <2>4, <2>6, <2>7 DEF Does, Logs, HasInHand
  <2>10. ~Taken(row)
    BY <1>1, <2>4, <2>6, <2>7, <2>9 DEF ReportInv, Reported
  <2>11. \A r \in Task : r.exec = x => (Does(p, r) <=> Does(o, r) \/ r = row)
    <3>1. \A r \in Task : r.exec = x => (HasInHand(p, r) <=> HasInHand(o, r) \/ r = row)
      BY <2>3, <2>4, <2>5, <2>6, <2>7 DEF HasInHand
    <3> QED BY <2>4, <3>1 DEF Does, Logs
  <2>12. \A r : Logs(p, r, "failed") <=> Logs(o, r, "failed")
    BY <2>4 DEF Logs
  <2>13. Once'
    <3>1. notices' = notices \/ \E q \in Notice : q.of = row /\ notices' = notices \cup {q}
      BY <2>1, <2>2 DEF HasDispatched, HasSent
    <3>2. \A r \in notices : r.of # row
      BY <2>10 DEF Taken
    <3> QED BY <3>1, <3>2 DEF ReportInv, Once
  <2>14. \A r \in Task : r.exec = x => /\ Does(p, r) => Taken(r)'
                                       /\ Taken(r)' => Does(p, r) \/ Logs(p, r, "failed")
    <3>1. \A r \in Task : r.exec = x => /\ Does(o, r) => Taken(r)
                                        /\ Taken(r) => Does(o, r) \/ Logs(o, r, "failed")
      BY <1>1, <2>4 DEF ReportInv, Reported
    <3> QED BY <2>8, <2>11, <2>12, <3>1
  <2>15. Reported(x)'
    BY <1>1, <2>14 DEF Reported, Does, Logs, HasInHand
  <2> QED BY <2>13, <2>15
<1> QED BY <1>4, <1>5, <1>6, <1>7, <1>8, <1>9 DEF OneStep

LEMMA OthersReport ==
  ASSUME ReportInv, NEW x \in Execution, Alone(x), OneStep(x), NEW y \in Execution, y # x
  PROVE  Reported(y)'
<1>1. exec'[y] = exec[y] /\ Reported(y)
  BY DEF Alone, ReportInv
<1>2. \A r \in Task : r.exec = y => (Taken(r)' <=> Taken(r))
  <2>1. CASE UNCHANGED <<tasks, notices>>
    BY <2>1 DEF Taken
  <2>2. CASE \E i \in Data : HasDispatched(x, i) \/ HasSent(x, i)
    <3>1. PICK i \in Data : HasDispatched(x, i) \/ HasSent(x, i)
      BY <2>2
    <3>2. PICK row : row = Row(x, i)
      OBVIOUS
    <3>3. \A r : Taken(r)' <=> Taken(r) \/ r = row
      BY <3>1, <3>2 DEF HasDispatched, HasSent, Taken
    <3>4. row.exec = x
      BY <3>2 DEF Row
    <3> QED BY <3>3, <3>4
  <2> QED BY <2>1, <2>2 DEF OneStep, HasBegun, HasMoved, HasFinished, HasTaken, HasLooked,
                            HasFailed, HasProduced
<1> QED BY <1>1, <1>2, Zenon DEF Reported

LEMMA NextReport == ReportInv /\ [Next]_vars => ReportInv'
<1> SUFFICES ASSUME ReportInv, [Next]_vars PROVE ReportInv'
  OBVIOUS
<1>1. EngineInv' /\ (Ages \/ \E x \in Execution : Alone(x) /\ OneStep(x))
  BY EngineStep DEF ReportInv
<1>2. NoticeInv'
  BY NextNotice DEF ReportInv
<1>3. CASE Ages
  <2>1. \A r : Taken(r)' <=> Taken(r)
    BY <1>3 DEF Ages, Taken
  <2>2. Once'
    BY <1>3 DEF Ages, ReportInv, Once
  <2>3. \A y \in Execution : Reported(y)'
    BY <1>3, <2>1 DEF Ages, ReportInv, Reported, Does, Logs, HasInHand
  <2> QED BY <1>1, <1>2, <2>2, <2>3 DEF ReportInv
<1>4. CASE \E x \in Execution : Alone(x) /\ OneStep(x)
  <2>1. PICK x \in Execution : Alone(x) /\ OneStep(x)
    BY <1>4
  <2>2. Once' /\ Reported(x)'
    BY <1>1, <1>2, <2>1, StepReports
  <2>3. \A y \in Execution : Reported(y)'
    BY <2>1, <2>2, OthersReport
  <2> QED BY <1>1, <1>2, <2>2, <2>3 DEF ReportInv
<1> QED BY <1>1, <1>3, <1>4

LEMMA ReportImplies == ReportInv => EffectsAreReported
<1> SUFFICES ASSUME ReportInv, NEW x \in Execution, exec[x].pc = "recorded"
             PROVE  LET s      == exec[x].steps
                        Rows(k) == {[exec |-> x, step |-> k, node |-> s[k].node, item |-> i] :
                                      i \in s[k].items}
                        acted  == {k \in DOMAIN s : /\ s[k].status = "ok"
                                     /\ exec[x].workflow.type[s[k].node] \in Acting}
                        failed == {k \in DOMAIN s : s[k].status = "failed"}
                        mine   == {r \in notices : r.of.exec = x}
                        rows   == {r \in tasks : r.exec = x} \cup {r.of : r \in mine}
                    IN  /\ UNION {Rows(k) : k \in acted} \subseteq rows
                        /\ rows \subseteq UNION {Rows(k) : k \in acted \cup failed}
                        /\ \A r, q \in mine : r.of = q.of => r = q
  BY DEF EffectsAreReported
<1> DEFINE s      == exec[x].steps
           RowAt(k, i) == [exec |-> x, step |-> k, node |-> s[k].node, item |-> i]
           Rows(k) == {RowAt(k, i) : i \in s[k].items}
           acted  == {k \in DOMAIN s : /\ s[k].status = "ok"
                                       /\ exec[x].workflow.type[s[k].node] \in Acting}
           failed == {k \in DOMAIN s : s[k].status = "failed"}
           mine   == {r \in notices : r.of.exec = x}
           rows   == {r \in tasks : r.exec = x} \cup {r.of : r \in mine}
<1>1. \A r \in Task : r.exec = x => /\ Does(exec[x], r) => Taken(r)
                                    /\ Taken(r) => Does(exec[x], r) \/ Logs(exec[x], r, "failed")
  BY DEF ReportInv, Reported
<1>2. \A r : ~HasInHand(exec[x], r)
  BY DEF HasInHand
<1>3. \A k \in DOMAIN s : k \in Nat /\ s[k].node \in Node /\ s[k].items \in SUBSET Data
  <2>1. exec[x].steps \in Seq(Step)
    BY AtWork DEF ReportInv, ExecutionState
  <2>2. \A k \in DOMAIN s : k \in Nat /\ s[k] \in Step
    BY <2>1, SeqFacts
  <2> QED BY <2>2 DEF Step
<1>4. \A r : r \in rows <=> r.exec = x /\ Taken(r)
  BY DEF Taken
<1>5. \A k \in DOMAIN s : \A i \in s[k].items : RowAt(k, i) \in Task
  BY <1>3 DEF Task
<1>6. ASSUME NEW k \in acted, NEW i \in s[k].items PROVE RowAt(k, i) \in rows
  <2>1. PICK r : r = RowAt(k, i)
    OBVIOUS
  <2>2. r \in Task /\ r.exec = x /\ r.step = k /\ r.node = s[k].node /\ r.item = i
    BY <1>5, <2>1
  <2>3. Does(exec[x], r)
    BY <2>2 DEF Does, Logs
  <2>4. Taken(r)
    BY <1>1, <2>2, <2>3
  <2>5. r \in rows
    BY <1>4, <2>2, <2>4
  <2> HIDE DEF rows, Rows
  <2> QED BY <2>1, <2>5
<1>7. ASSUME NEW r \in rows PROVE \E k \in acted \cup failed : r \in Rows(k)
  <2>1. r \in Task /\ r.exec = x /\ Taken(r)
    BY <1>4 DEF ReportInv, EngineInv, TypeOK, Taken, Notice
  <2>2. r.step \in DOMAIN s /\ r.node = s[r.step].node /\ r.item \in s[r.step].items
    BY <1>1, <1>2, <2>1 DEF Does, Logs
  <2>3. r.step \in acted \cup failed
    BY <1>1, <1>2, <2>1 DEF Does, Logs
  <2>4. r = RowAt(r.step, r.item)
    BY <2>1, <2>2 DEF Task
  <2> QED BY <2>2, <2>3, <2>4
<1>8. UNION {Rows(k) : k \in acted} \subseteq rows
  BY <1>6
<1>9. rows \subseteq UNION {Rows(k) : k \in acted \cup failed}
  BY <1>7
<1>10. \A r, q \in mine : r.of = q.of => r = q
  BY DEF ReportInv, Once
<1> QED BY <1>8, <1>9, <1>10

\* An execution's record accounts for what it did: each item of each acting node that has run
\* was dispatched or notified of once, and beyond that only the node that failed left rows.
THEOREM RecordIsTrue == Spec => []EffectsAreReported
<1>1. Init => ReportInv
  BY InitEngine, InitNotice DEF Init, ReportInv, Once, Reported, NotStarted
<1> QED BY <1>1, NextReport, ReportImplies, PTL DEF Spec

----------------------------------------------------------------------------
(* The rail on cost *)

LEMMA ItemsFit ==
  ASSUME NEW items \in SUBSET Data, OneKind(items)
  PROVE  /\ IsFiniteSet(items) /\ Cardinality(items) \in Nat /\ Cardinality(Item) \in Nat
         /\ Cardinality(items) <= Cardinality(Item)
<1>1. IsFiniteSet(items) /\ Cardinality(items) \in Nat /\ Cardinality(Item) \in Nat
  BY WorkflowAssumption, DataFacts, FS_Subset, FS_CardinalityType
<1>2. CASE items \subseteq Item
  BY <1>1, <1>2, WorkflowAssumption, FS_Subset
<1>3. CASE items \subseteq {Blank}
  <2>1. IsFiniteSet({Blank}) /\ Cardinality({Blank}) = 1
    BY FS_Singleton
  <2>2. Cardinality(items) <= 1
    BY <1>3, <2>1, FS_Subset
  <2>3. Cardinality(Item) # 0
    BY WorkflowAssumption, FS_EmptySet
  <2> QED BY <1>1, <2>2, <2>3
<1> QED BY <1>1, <1>2, <1>3 DEF OneKind

\* What n dispatched tasks may cost an execution.
Within(e, n) ==
  /\ e.pc # "idle" => Price * n <= e.workflow.maxCost + Price * Cardinality(Item)
  /\ e.pc = "turn" =>
       Price * n <= e.cost /\ e.cost <= e.workflow.maxCost + Price * Cardinality(Item)
  /\ e.pc \in {"node", "send"} =>
       /\ e.cost <= e.workflow.maxCost
       /\ Price * n <= e.cost + e.nodeCost
       /\ e.nodeCost + Price * Cardinality(e.todo) <= Price * Cardinality(Item)
       /\ e.nodeCost # 0 => e.workflow.type[e.frame.node] = "agent_task" /\ ~e.dryRun

SpendInv ==
  EngineInv /\ NoticeInv /\ \A x \in Execution : Within(exec[x], Cardinality(Dispatched(x)))

\* An item is dispatched at the price of one.
LEMMA OneMore ==
  ASSUME NEW n \in Nat, NEW m \in Nat, m <= n + 1
  PROVE  Price * m <= Price * n + Price
<1>1. Price \in Nat
  BY WorkflowAssumption
<1>2. Price * (n + 1) = Price * n + Price
  BY <1>1
<1>3. Price * m <= Price * (n + 1)
  BY <1>1
<1> QED BY <1>2, <1>3

LEMMA DispatchSpends ==
  ASSUME SpendInv, EngineInv', NEW x \in Execution, NEW i \in Data, HasDispatched(x, i)
  PROVE  Within(exec'[x], Cardinality(Dispatched(x)'))
<1>1. PICK o, p : o = exec[x] /\ p = exec'[x]
  OBVIOUS
<1>2. PICK D, E : D = Dispatched(x) /\ E = Dispatched(x)'
  OBVIOUS
<1>3. PICK m, n, d, e, k : /\ m = Cardinality(D) /\ n = Cardinality(E) /\ k = Cardinality(Item)
                           /\ d = Cardinality(o.todo) /\ e = Cardinality(p.todo)
  OBVIOUS
<1>4. /\ o.pc = "node" /\ p.pc = "node" /\ i \in o.todo /\ p.todo = o.todo \ {i}
      /\ p.workflow = o.workflow /\ p.cost = o.cost /\ p.frame = o.frame /\ p.dryRun = o.dryRun
      /\ ~o.dryRun /\ o.workflow.type[o.frame.node] \in {"agent_task", "archive"}
      /\ p.nodeCost = IF o.workflow.type[o.frame.node] = "agent_task"
                        THEN o.nodeCost + Price ELSE o.nodeCost
  BY <1>1 DEF HasDispatched, Same, TypeAt
<1>5. IsFiniteSet(D) /\ IsFiniteSet(E) /\ m \in Nat /\ n \in Nat
  <2>1. D \subseteq tasks /\ E \subseteq tasks' /\ IsFiniteSet(tasks) /\ IsFiniteSet(tasks')
    BY <1>2 DEF Dispatched, SpendInv, EngineInv
  <2> QED BY <1>3, <2>1, FS_Subset, FS_CardinalityType
<1>6. /\ IsFiniteSet(o.todo) /\ d \in Nat /\ e \in Nat /\ k \in Nat /\ d = e + 1
  <2>1. o.frame.items \in SUBSET Data /\ o.todo \subseteq o.frame.items
    BY <1>1, <1>4, AtWork DEF SpendInv
  <2>2. IsFiniteSet(o.todo)
    BY <2>1, DataFacts, FS_Subset
  <2>3. IsFiniteSet(p.todo) /\ e = d - 1
    BY <1>3, <1>4, <2>2, FS_RemoveElement
  <2>4. d \in Nat /\ e \in Nat /\ k \in Nat
    BY <1>3, <2>2, <2>3, WorkflowAssumption, FS_CardinalityType
  <2> QED BY <2>2, <2>3, <2>4
<1>7. /\ o.cost \in Nat /\ o.nodeCost \in Nat /\ Price \in Nat /\ o.workflow.maxCost \in Nat
  <2>1. o \in ExecutionState /\ o.workflow \in Workflow
    BY <1>1, <1>4, AtWork DEF SpendInv
  <2> QED BY <2>1, WorkflowAssumption DEF ExecutionState, Definition
<1>8. /\ o.cost <= o.workflow.maxCost
      /\ Price * m <= o.cost + o.nodeCost
      /\ o.nodeCost + Price * d <= Price * k
      /\ o.nodeCost # 0 => o.workflow.type[o.frame.node] = "agent_task"
  BY <1>1, <1>2, <1>3, <1>4 DEF SpendInv, Within
<1>9. Price * d = Price * e + Price
  BY <1>6, <1>7
<1>10. CASE o.workflow.type[o.frame.node] = "agent_task"
  <2>1. E \subseteq D \cup {Row(x, i)}
    BY <1>1, <1>2, <1>4 DEF Dispatched, HasDispatched
  <2>2. n <= m + 1
    <3>1. PICK F, j : F = D \cup {Row(x, i)} /\ j = Cardinality(F)
      OBVIOUS
    <3>2. IsFiniteSet(F) /\ (j = m \/ j = m + 1)
      BY <1>3, <1>5, <3>1, FS_AddElement
    <3>3. n <= j
      BY <1>3, <2>1, <3>1, <3>2, FS_Subset
    <3> QED BY <1>5, <3>2, <3>3
  <2>3. Price * n <= Price * m + Price
    BY <1>5, <2>2, OneMore
  <2>4. p.nodeCost = o.nodeCost + Price
    BY <1>4, <1>10
  <2>5. Price * n <= p.cost + p.nodeCost
    BY <1>4, <1>5, <1>7, <1>8, <2>3, <2>4
  <2>6. p.nodeCost + Price * e <= Price * k
    BY <1>6, <1>7, <1>8, <1>9, <2>4
  <2>7. Price * n <= o.workflow.maxCost + Price * k
    <3>1. Price * n \in Nat /\ Price * e \in Nat /\ Price * k \in Nat
      BY <1>5, <1>6, <1>7
    <3> QED BY <1>4, <1>7, <1>8, <2>4, <2>5, <2>6, <3>1
  <2> QED BY <1>1, <1>2, <1>3, <1>4, <1>8, <1>10, <2>5, <2>6, <2>7 DEF Within
<1>11. CASE o.workflow.type[o.frame.node] = "archive"
  <2>1. E = D
    <3>1. Row(x, i).node = o.frame.node
      BY <1>1 DEF Row
    <3>2. tasks' = tasks \cup {Row(x, i)}
      BY DEF HasDispatched
    <3>3. ~(o.workflow.type[Row(x, i).node] = "agent_task")
      BY <1>11, <3>1
    <3> QED BY <1>1, <1>2, <1>4, <3>2, <3>3 DEF Dispatched
  <2>2. p.nodeCost = o.nodeCost /\ n = m
    BY <1>3, <1>4, <1>11, <2>1
  <2>3. p.nodeCost + Price * e <= Price * k
    BY <1>6, <1>7, <1>8, <1>9, <2>2
  <2>4. Price * n <= o.workflow.maxCost + Price * k
    <3>1. Price * n \in Nat /\ Price * d \in Nat /\ Price * k \in Nat
      BY <1>5, <1>6, <1>7, <2>2
    <3> QED BY <1>7, <1>8, <2>2, <3>1
  <2> QED BY <1>1, <1>2, <1>3, <1>4, <1>8, <2>2, <2>3, <2>4 DEF Within
<1> QED BY <1>4, <1>10, <1>11

LEMMA StepSpends ==
  ASSUME SpendInv, EngineInv', NEW x \in Execution, OneStep(x)
  PROVE  Within(exec'[x], Cardinality(Dispatched(x)'))
<1>1. PICK o, p : o = exec[x] /\ p = exec'[x]
  OBVIOUS
<1>2. PICK D, n, k : D = Dispatched(x) /\ n = Cardinality(D) /\ k = Cardinality(Item)
  OBVIOUS
<1>3. o \in ExecutionState /\ p \in ExecutionState /\ Within(o, n)
  BY <1>1, <1>2 DEF SpendInv, EngineInv, TypeOK
<1>4. IsFiniteSet(D) /\ n \in Nat /\ k \in Nat /\ Price \in Nat
  <2>1. D \subseteq tasks /\ IsFiniteSet(tasks)
    BY <1>2 DEF Dispatched, SpendInv, EngineInv
  <2> QED BY <1>2, <2>1, FS_Subset, FS_CardinalityType, WorkflowAssumption
<1>5. o.pc # "idle" => o.workflow.maxCost \in Nat
  <2>1. o.pc # "idle" => o.workflow \in Workflow
    BY <1>1, AtWork DEF SpendInv
  <2> QED BY <2>1, WorkflowAssumption DEF Definition
<1>6. o.cost \in Nat /\ o.nodeCost \in Nat
  BY <1>3 DEF ExecutionState
<1>7. CASE HasBegun(x)
  <2>1. p.pc = "turn" /\ p.cost = 0 /\ p.workflow \in Workflow /\ tasks' = tasks /\ o.pc = "idle"
    BY <1>1, <1>7 DEF HasBegun
  <2>2. Dispatched(x)' = {}
    BY <1>1, <2>1 DEF Dispatched, SpendInv, NoticeInv, RowsAreReal
  <2>3. Cardinality(Dispatched(x)') = 0
    BY <2>2, FS_EmptySet
  <2>4. p.workflow.maxCost \in Nat /\ Price * k \in Nat /\ Price * 0 = 0
    BY <1>4, <2>1, WorkflowAssumption DEF Definition
  <2> QED BY <1>1, <1>2, <2>1, <2>3, <2>4 DEF Within
<1>8. ASSUME tasks' = tasks, p.workflow = o.workflow, o.pc # "idle" PROVE Dispatched(x)' = D
  BY <1>1, <1>2, <1>8 DEF Dispatched
<1>9. CASE HasMoved(x)
  <2>1. /\ p.pc \in {"recorded", "dead", o.pc} /\ o.pc # "idle" /\ p.cost = o.cost
        /\ p.workflow = o.workflow /\ p.frame = o.frame /\ p.todo = o.todo
        /\ p.nodeCost = o.nodeCost /\ p.dryRun = o.dryRun /\ tasks' = tasks
    BY <1>1, <1>9 DEF HasMoved, Same
  <2> QED BY <1>1, <1>2, <1>3, <1>8, <2>1 DEF Within
<1>10. CASE HasFinished(x) \/ HasFailed(x)
  <2>1. p.pc = "record" /\ o.pc # "idle" /\ p.workflow = o.workflow /\ tasks' = tasks
    BY <1>1, <1>10 DEF HasFinished, HasFailed, Same
  <2> QED BY <1>1, <1>2, <1>3, <1>8, <2>1 DEF Within
<1>11. CASE HasTaken(x)
  <2>1. /\ p.pc = "node" /\ o.pc = "turn" /\ o.cost <= o.workflow.maxCost
        /\ p.workflow = o.workflow /\ p.cost = o.cost /\ p.nodeCost = 0
        /\ p.todo = p.frame.items /\ tasks' = tasks
    BY <1>1, <1>11 DEF HasTaken, Same
  <2>2. PICK d : d = Cardinality(p.todo)
    OBVIOUS
  <2>3. d \in Nat /\ d <= k
    <3>1. p.frame \in Frame /\ OneKind(p.frame.items)
      BY <1>1, <2>1 DEF EngineInv, Coherent
    <3>2. p.frame.items \in SUBSET Data
      BY <3>1 DEF Frame
    <3> QED BY <1>2, <2>1, <2>2, <3>1, <3>2, ItemsFit
  <2>4. 0 + Price * d <= Price * k
    BY <1>4, <2>3
  <2>5. Price * n <= o.cost + 0 /\ Price * n <= o.workflow.maxCost + Price * k
    BY <1>2, <1>3, <1>4, <1>6, <2>1 DEF Within
  <2> QED BY <1>1, <1>2, <1>8, <2>1, <2>2, <2>4, <2>5 DEF Within
<1>12. CASE HasLooked(x) \/ \E i \in Data : HasSent(x, i)
  <2>1. /\ p.pc \in {"node", "send"} /\ o.pc \in {"node", "send"}
        /\ p.workflow = o.workflow /\ p.frame = o.frame /\ p.nodeCost = o.nodeCost
        /\ p.dryRun = o.dryRun /\ p.cost = o.cost /\ tasks' = tasks /\ p.todo \subseteq o.todo
    BY <1>1, <1>12 DEF HasLooked, HasSent, Same
  <2>2. PICK d, e : d = Cardinality(o.todo) /\ e = Cardinality(p.todo)
    OBVIOUS
  <2>3. d \in Nat /\ e \in Nat /\ e <= d
    <3>1. o.frame.items \in SUBSET Data /\ o.todo \subseteq o.frame.items
      BY <1>1, <2>1, AtWork DEF SpendInv
    <3>2. IsFiniteSet(o.todo)
      BY <3>1, DataFacts, FS_Subset
    <3> QED BY <2>1, <2>2, <3>2, FS_Subset, FS_CardinalityType
  <2>4. Price * e <= Price * d
    BY <1>4, <2>3
  <2>5. Price * e \in Nat /\ Price * d \in Nat /\ Price * k \in Nat
    BY <1>4, <2>3
  <2>6. o.nodeCost + Price * d <= Price * k
    BY <1>2, <1>3, <2>1, <2>2 DEF Within
  <2>7. o.nodeCost + Price * e <= Price * k
    BY <1>6, <2>4, <2>5, <2>6
  <2> QED BY <1>1, <1>2, <1>3, <1>8, <2>1, <2>2, <2>7 DEF Within
<1>13. CASE \E s \in {"ok", "skipped"}, b \in Seq(Branch), c \in Nat :
              Outcome(x, s, b, c) /\ HasProduced(x, s, b, c)
  <2>1. PICK s \in {"ok", "skipped"}, b \in Seq(Branch), c \in Nat :
               Outcome(x, s, b, c) /\ HasProduced(x, s, b, c)
    BY <1>13
  <2>2. /\ o.pc = "node" /\ p.pc = "turn" /\ p.workflow = o.workflow /\ p.cost = o.cost + c
        /\ tasks' = tasks
    BY <1>1, <2>1 DEF HasProduced, Same
  <2>3. /\ o.cost <= o.workflow.maxCost /\ Price * n <= o.cost + o.nodeCost
        /\ o.nodeCost + Price * Cardinality(o.todo) <= Price * k
        /\ o.nodeCost # 0 => o.workflow.type[o.frame.node] = "agent_task" /\ ~o.dryRun
        /\ Price * n <= o.workflow.maxCost + Price * k
    BY <1>2, <1>3, <2>2 DEF Within
  <2>4. c = o.nodeCost
    BY <1>1, <2>1, <2>3 DEF Outcome, Acting, Plain
  <2>5. Price * Cardinality(o.todo) \in Nat
    <3>1. o.frame.items \in SUBSET Data /\ o.todo \subseteq o.frame.items
      BY <1>1, <2>2, AtWork DEF SpendInv
    <3>2. Cardinality(o.todo) \in Nat
      BY <3>1, DataFacts, FS_Subset, FS_CardinalityType
    <3> QED BY <1>4, <3>2
  <2>6. o.cost + c <= o.workflow.maxCost + Price * k
    <3>1. Price * k \in Nat
      BY <1>4
    <3> QED BY <1>5, <1>6, <2>2, <2>3, <2>4, <2>5, <3>1
  <2> QED BY <1>1, <1>2, <1>8, <2>2, <2>3, <2>4, <2>6 DEF Within
<1>14. CASE \E i \in Data : HasDispatched(x, i)
  BY <1>14, DispatchSpends
<1> QED BY <1>7, <1>9, <1>10, <1>11, <1>12, <1>13, <1>14 DEF OneStep

LEMMA NextSpend == SpendInv /\ [Next]_vars => SpendInv'
<1> SUFFICES ASSUME SpendInv, [Next]_vars PROVE SpendInv'
  OBVIOUS
<1>1. EngineInv' /\ (Ages \/ \E x \in Execution : Alone(x) /\ OneStep(x))
  BY EngineStep DEF SpendInv
<1>2. NoticeInv'
  BY NextNotice DEF SpendInv
<1>3. ASSUME NEW y \in Execution PROVE Within(exec'[y], Cardinality(Dispatched(y)'))
  <2>1. CASE Ages
    <3>1. exec' = exec /\ Dispatched(y)' = Dispatched(y)
      BY <2>1 DEF Ages, Dispatched
    <3> QED BY <3>1 DEF SpendInv
  <2>2. ASSUME NEW x \in Execution, Alone(x), OneStep(x)
        PROVE  Within(exec'[y], Cardinality(Dispatched(y)'))
    <3>1. CASE y = x
      BY <1>1, <2>2, <3>1, StepSpends
    <3>2. CASE y # x
      <4>1. exec'[y] = exec[y]
        BY <2>2, <3>2 DEF Alone
      <4>2. \A r : r.exec = y => (r \in tasks' <=> r \in tasks)
        <5>1. tasks' = tasks \/ \E i \in Data : tasks' = tasks \cup {Row(x, i)}
          BY <2>2 DEF OneStep, HasBegun, HasMoved, HasFinished, HasTaken, HasLooked, HasFailed,
                      HasProduced, HasDispatched, HasSent
        <5>2. \A i : Row(x, i).exec = x
          BY DEF Row
        <5> QED BY <3>2, <5>1, <5>2
      <4>3. Dispatched(y)' = Dispatched(y)
        BY <4>1, <4>2 DEF Dispatched
      <4> QED BY <4>1, <4>3 DEF SpendInv
    <3> QED BY <3>1, <3>2
  <2> QED BY <1>1, <2>1, <2>2
<1> QED BY <1>1, <1>2, <1>3 DEF SpendInv, Within

\* What an execution dispatches may pass its budget by one node over all the items, and no
\* more: the rail is looked at between nodes.
THEOREM SpendKept == Spec => []SpendBounded
<1>1. Init => SpendInv
  <2>1. Init => \A x \in Execution : exec[x].pc = "idle"
    BY DEF Init, NotStarted
  <2> QED BY <2>1, InitEngine, InitNotice DEF SpendInv, Within
<1>2. SpendInv => SpendBounded
  BY DEF SpendInv, Within, SpendBounded
<1> QED BY <1>1, <1>2, NextSpend, PTL DEF Spec

----------------------------------------------------------------------------
(* The way an execution goes *)

\* What is still to be executed, the node at work first.
Pending(e) == IF e.pc \in {"node", "send"} THEN <<e.frame>> \o e.queue ELSE e.queue

LEMMA FirstFacts ==
  ASSUME NEW f \in Frame, NEW q \in Seq(Frame)
  PROVE  /\ <<f>> \o q \in Seq(Frame) /\ <<f>> \o q # <<>>
         /\ Head(<<f>> \o q) = f /\ Tail(<<f>> \o q) = q
<1>1. PICK s, t : s = <<f>> \o q /\ t = Tail(s)
  OBVIOUS
<1>2. /\ s \in Seq(Frame) /\ Len(s) = 1 + Len(q) /\ Len(q) \in Nat
      /\ \A i \in 1 .. 1 + Len(q) : s[i] = IF i <= 1 THEN f ELSE q[i - 1]
  <2>1. <<f>> \in Seq(Frame) /\ Len(<<f>>) = 1 /\ <<f>>[1] = f
    OBVIOUS
  <2> QED BY <1>1, <2>1, ConcatProperties
<1>3. s # <<>> /\ Head(s) = f
  BY <1>2
<1>4. /\ t \in Seq(Frame) /\ Len(t) = Len(q)
      /\ \A i \in 1 .. Len(q) : t[i] = q[i]
  BY <1>1, <1>2, <1>3, HeadTailProperties
<1>5. t = q
  BY <1>4, SeqEqual
<1> QED BY <1>1, <1>2, <1>3, <1>5

LEMMA TakenFirst ==
  ASSUME NEW q \in Seq(Frame), q # <<>>
  PROVE  <<Head(q)>> \o Tail(q) = q
<1>1. PICK f, t : f = Head(q) /\ t = Tail(q)
  OBVIOUS
<1>2. f \in Frame /\ t \in Seq(Frame) /\ Len(q) \in Nat
  BY <1>1, HeadTailProperties
<1>3. PICK s : s = <<f>> \o t
  OBVIOUS
<1>4. /\ s \in Seq(Frame) /\ Len(s) = Len(q)
      /\ \A i \in 1 .. Len(q) : s[i] = q[i]
  <2>1. /\ s \in Seq(Frame) /\ Len(s) = 1 + Len(t)
        /\ \A i \in 1 .. 1 + Len(t) : s[i] = IF i <= 1 THEN f ELSE t[i - 1]
    <3>1. <<f>> \in Seq(Frame) /\ Len(<<f>>) = 1 /\ <<f>>[1] = f
      BY <1>2
    <3> QED BY <1>2, <1>3, <3>1, ConcatProperties
  <2>2. Len(t) = Len(q) - 1 /\ \A i \in 1 .. Len(t) : t[i] = q[i + 1]
    BY <1>1, HeadTailProperties
  <2> QED BY <1>1, <1>2, <2>1, <2>2
<1>5. s = q
  BY <1>4, SeqEqual
<1> QED BY <1>1, <1>3, <1>5

\* Until a node has run, what is still to be executed stays the same.
LEMMA PendingStays ==
  ASSUME NEW x \in Execution, exec[x].queue \in Seq(Frame),
         \/ HasMoved(x) \/ HasFinished(x) \/ HasTaken(x) \/ HasLooked(x)
         \/ \E i \in Data : HasDispatched(x, i) \/ HasSent(x, i)
  PROVE  exec'[x].pc \in {"turn", "node", "send"} =>
           exec[x].pc \in {"turn", "node", "send"} /\ Pending(exec'[x]) = Pending(exec[x])
<1>1. PICK o, p : o = exec[x] /\ p = exec'[x]
  OBVIOUS
<1>2. CASE HasTaken(x)
  <2>1. /\ p.pc = "node" /\ o.pc = "turn" /\ o.queue # <<>>
        /\ p.queue = Tail(o.queue) /\ p.frame = Head(o.queue)
    BY <1>1, <1>2 DEF HasTaken
  <2>2. <<Head(o.queue)>> \o Tail(o.queue) = o.queue
    BY <1>1, <2>1, TakenFirst
  <2> QED BY <1>1, <2>1, <2>2 DEF Pending
<1>3. CASE HasFinished(x)
  BY <1>3 DEF HasFinished
<1>4. CASE HasMoved(x)
  <2>1. p.pc \in {"recorded", "dead", o.pc} /\ p.queue = o.queue /\ p.frame = o.frame
    BY <1>1, <1>4 DEF HasMoved
  <2> QED BY <1>1, <2>1 DEF Pending
<1>5. CASE HasLooked(x) \/ \E i \in Data : HasDispatched(x, i) \/ HasSent(x, i)
  <2>1. /\ p.pc \in {"node", "send"} /\ o.pc \in {"node", "send"}
        /\ p.queue = o.queue /\ p.frame = o.frame
    BY <1>1, <1>5 DEF HasLooked, HasDispatched, HasSent
  <2> QED BY <1>1, <2>1 DEF Pending
<1> QED BY <1>2, <1>3, <1>4, <1>5

\* What a node says of its items, unless it asks the database.
Follows(w, st) ==
  w.type[st.node] # "source" =>
    st.branches = IF w.type[st.node] = "filter" THEN All(st.items \cap w.keeps[st.node])
                  ELSE IF w.type[st.node] = "branch" THEN Buckets(st.items, w.case[st.node])
                  ELSE All(st.items)

\* The queues that steps went through, from the trigger on.
Replays(w, s, qs) ==
  /\ qs \in [0 .. Len(s) -> Seq(Frame)]
  /\ qs[0] = <<[node |-> Trigger, items |-> {Blank}]>>
  /\ \A k \in 1 .. Len(s) :
       /\ qs[k - 1] # <<>>
       /\ s[k].node = Head(qs[k - 1]).node /\ s[k].items = Head(qs[k - 1]).items
       /\ Follows(w, s[k])
       /\ qs[k] = Tail(qs[k - 1]) \o Pushed(w, s[k].node, s[k].branches)

Replayed(e) ==
  /\ e.pc \in {"turn", "node", "send"} => e.status = "none"
  /\ e.pc # "idle" /\ e.status # "failed" =>
       \E qs : /\ Replays(e.workflow, e.steps, qs)
               /\ e.pc \in {"turn", "node", "send"} => qs[Len(e.steps)] = Pending(e)
               /\ e.status = "completed" => qs[Len(e.steps)] = <<>>

ReplayInv == EngineInv /\ NoticeInv /\ \A x \in Execution : Replayed(exec[x])

LEMMA ReplayGrows ==
  ASSUME NEW w \in Workflow, NEW s \in Seq(Step), NEW qs, Replays(w, s, qs),
         NEW f \in Frame, NEW q \in Seq(Frame), qs[Len(s)] = <<f>> \o q,
         NEW st \in Step, st.node = f.node, st.items = f.items, Follows(w, st)
  PROVE  \E qt : /\ Replays(w, Append(s, st), qt)
                 /\ qt[Len(Append(s, st))] = q \o Pushed(w, st.node, st.branches)
<1>1. PICK n, t, more : /\ n = Len(s) /\ t = Append(s, st)
                        /\ more = Pushed(w, st.node, st.branches)
  OBVIOUS
<1>2. /\ n \in Nat /\ Len(t) = n + 1 /\ t[n + 1] = st
      /\ \A k \in 1 .. n : t[k] = s[k]
  BY <1>1, AppendFacts
<1>3. more \in Seq(Frame) /\ q \o more \in Seq(Frame)
  <2>1. st.node \in Node /\ st.branches \in Seq(Branch)
    BY DEF Step
  <2>2. more \in Seq(Frame)
    BY <1>1, <2>1, PushedItems
  <2> QED BY <2>2, ConcatProperties
<1>4. PICK qt : qt = [k \in 0 .. n + 1 |-> IF k <= n THEN qs[k] ELSE q \o more]
  OBVIOUS
<1>5. /\ qt \in [0 .. n + 1 -> Seq(Frame)] /\ qt[n + 1] = q \o more
      /\ \A k \in 0 .. n : qt[k] = qs[k]
  BY <1>1, <1>2, <1>3, <1>4 DEF Replays
<1>6. qt[0] = <<[node |-> Trigger, items |-> {Blank}]>>
  <2>1. qt[0] = qs[0]
    BY <1>2, <1>5
  <2> QED BY <2>1 DEF Replays
<1>7. ASSUME NEW k \in 1 .. n + 1
      PROVE  /\ qt[k - 1] # <<>>
             /\ t[k].node = Head(qt[k - 1]).node /\ t[k].items = Head(qt[k - 1]).items
             /\ Follows(w, t[k])
             /\ qt[k] = Tail(qt[k - 1]) \o Pushed(w, t[k].node, t[k].branches)
  <2>1. CASE k = n + 1
    <3>1. k - 1 = n /\ qt[n] = qs[n] /\ t[k] = st /\ qt[k] = q \o more
      BY <1>2, <1>5, <2>1
    <3>2. PICK r : r = <<f>> \o q
      OBVIOUS
    <3>3. r # <<>> /\ Head(r) = f /\ Tail(r) = q
      BY <3>2, FirstFacts
    <3>4. qt[k - 1] = r
      BY <1>1, <3>1, <3>2
    <3> QED BY <1>1, <3>1, <3>3, <3>4
  <2>2. CASE k \in 1 .. n
    <3>1. k \in 0 .. n /\ k - 1 \in 0 .. n /\ k \in 1 .. Len(s)
      <4>1. n \in Nat
        BY <1>2
      <4> QED BY <1>1, <2>2, <4>1
    <3>2. qt[k - 1] = qs[k - 1] /\ qt[k] = qs[k]
      BY <1>5, <3>1
    <3>3. t[k] = s[k]
      BY <1>2, <2>2
    <3>4. /\ qs[k - 1] # <<>>
          /\ s[k].node = Head(qs[k - 1]).node /\ s[k].items = Head(qs[k - 1]).items
          /\ Follows(w, s[k])
          /\ qs[k] = Tail(qs[k - 1]) \o Pushed(w, s[k].node, s[k].branches)
      BY <3>1 DEF Replays
    <3> QED BY <3>2, <3>3, <3>4
  <2>3. k = n + 1 \/ k \in 1 .. n
    <3>1. n \in Nat
      BY <1>2
    <3> QED BY <3>1
  <2> QED BY <2>1, <2>2, <2>3
<1>8. Replays(w, t, qt)
  BY <1>2, <1>5, <1>6, <1>7 DEF Replays
<1> QED BY <1>1, <1>2, <1>5, <1>8

LEMMA StepReplays ==
  ASSUME ReplayInv, EngineInv', NEW x \in Execution, OneStep(x)
  PROVE  Replayed(exec'[x])
<1>1. PICK o, p : o = exec[x] /\ p = exec'[x]
  OBVIOUS
<1>2. o \in ExecutionState /\ p \in ExecutionState /\ Replayed(o)
  BY <1>1 DEF ReplayInv, EngineInv, TypeOK
<1>3. o.queue \in Seq(Frame) /\ o.steps \in Seq(Step)
  BY <1>2 DEF ExecutionState
<1>4. CASE HasBegun(x)
  <2>1. PICK q : q = <<[node |-> Trigger, items |-> {Blank}]>>
    OBVIOUS
  <2>2. p.pc = "turn" /\ p.steps = <<>> /\ p.queue = q /\ p.status = "none"
    BY <1>1, <1>4, <2>1 DEF HasBegun
  <2>3. q \in Seq(Frame)
    <3>1. p.queue \in Seq(Frame)
      BY <1>2 DEF ExecutionState
    <3> QED BY <2>2, <3>1
  <2>4. PICK qs : qs = [k \in {0} |-> q]
    OBVIOUS
  <2>5. Len(p.steps) = 0 /\ qs \in [0 .. 0 -> Seq(Frame)] /\ qs[0] = q
    BY <2>2, <2>3, <2>4
  <2>6. Replays(p.workflow, p.steps, qs)
    BY <2>1, <2>5 DEF Replays
  <2>7. Pending(p) = q
    BY <2>2 DEF Pending
  <2> QED BY <1>1, <2>2, <2>5, <2>6, <2>7 DEF Replayed
<1>5. CASE HasFailed(x)
  BY <1>1, <1>5 DEF HasFailed, Replayed
<1>6. CASE HasMoved(x) \/ HasFinished(x) \/ HasTaken(x) \/ HasLooked(x)
           \/ \E i \in Data : HasDispatched(x, i) \/ HasSent(x, i)
  <2>1. /\ o.pc # "idle" /\ p.workflow = o.workflow /\ p.steps = o.steps
        /\ p.status = o.status \/ (o.pc = "turn" /\ p.pc = "record")
        /\ p.status = "completed" =>
             o.status = "completed" \/ (o.pc = "turn" /\ o.queue = <<>>)
    BY <1>1, <1>6 DEF HasMoved, HasFinished, HasTaken, HasLooked, HasDispatched, HasSent, Same
  <2>2. p.pc \in {"turn", "node", "send"} =>
          o.pc \in {"turn", "node", "send"} /\ p.status = o.status
    BY <1>1, <1>6 DEF HasMoved, HasFinished, HasTaken, HasLooked, HasDispatched, HasSent
  <2>3. p.pc \in {"turn", "node", "send"} => Pending(p) = Pending(o)
    BY <1>1, <1>3, <1>6, PendingStays
  <2>4. CASE o.status = "failed"
    <3>1. o.pc \notin {"turn", "node", "send"}
      BY <1>2, <2>4 DEF Replayed
    <3>2. p.status = "failed" /\ p.pc \notin {"turn", "node", "send"}
      BY <2>1, <2>2, <2>4, <3>1
    <3> QED BY <1>1, <3>2 DEF Replayed
  <2>5. CASE o.status # "failed"
    <3>1. PICK qs : /\ Replays(o.workflow, o.steps, qs)
                    /\ o.pc \in {"turn", "node", "send"} => qs[Len(o.steps)] = Pending(o)
                    /\ o.status = "completed" => qs[Len(o.steps)] = <<>>
      BY <1>2, <2>1, <2>5 DEF Replayed
    <3>2. o.pc = "turn" => Pending(o) = o.queue
      BY DEF Pending
    <3>3. /\ Replays(p.workflow, p.steps, qs)
          /\ p.pc \in {"turn", "node", "send"} => qs[Len(p.steps)] = Pending(p)
          /\ p.status = "completed" => qs[Len(p.steps)] = <<>>
      BY <2>1, <2>2, <2>3, <3>1, <3>2
    <3>4. p.pc \in {"turn", "node", "send"} => p.status = "none"
      BY <1>2, <2>2 DEF Replayed
    <3> QED BY <1>1, <3>3, <3>4 DEF Replayed
  <2> QED BY <2>4, <2>5
<1>7. CASE \E s \in {"ok", "skipped"}, b \in Seq(Branch), c \in Nat :
             Outcome(x, s, b, c) /\ HasProduced(x, s, b, c)
  <2>1. PICK s \in {"ok", "skipped"}, b \in Seq(Branch), c \in Nat :
               Outcome(x, s, b, c) /\ HasProduced(x, s, b, c)
    BY <1>7
  <2>2. PICK w, f, q, t, st : /\ w = o.workflow /\ f = o.frame /\ q = o.queue /\ t = o.steps
                              /\ st = Logged(x, s, b)
    OBVIOUS
  <2>3. /\ o.pc = "node" /\ p.pc = "turn" /\ p.workflow = w /\ p.status = o.status
        /\ p.steps = Append(t, st) /\ p.queue = q \o Pushed(w, f.node, b)
        /\ q \in Seq(Frame) /\ t \in Seq(Step)
    BY <1>1, <1>3, <2>1, <2>2 DEF HasProduced, Same
  <2>4. w \in Workflow /\ f \in Frame /\ f.node \in Node /\ f.items \in SUBSET Data
    BY <1>1, <2>2, <2>3, AtWork DEF ReplayInv
  <2>5. st \in Step /\ st.node = f.node /\ st.items = f.items /\ st.branches = b
    BY <1>1, <2>2, <2>4 DEF Logged, Step
  <2>6. Follows(w, st)
    BY <1>1, <2>1, <2>2, <2>5 DEF Outcome, Follows, Plain, Acting
  <2>7. o.status = "none"
    BY <1>2, <2>3 DEF Replayed
  <2>8. PICK qs : Replays(w, t, qs) /\ qs[Len(t)] = Pending(o)
    BY <1>2, <2>2, <2>3, <2>7 DEF Replayed
  <2>9. Pending(o) = <<f>> \o q
    BY <2>2, <2>3 DEF Pending
  <2>10. qs[Len(t)] = <<f>> \o q /\ st.node = f.node /\ st.items = f.items
    BY <2>5, <2>8, <2>9
  <2>11. PICK qt : /\ Replays(w, Append(t, st), qt)
                   /\ qt[Len(Append(t, st))] = q \o Pushed(w, st.node, st.branches)
    BY <2>3, <2>4, <2>5, <2>6, <2>8, <2>10, ReplayGrows
  <2>12. Pending(p) = p.queue
    BY <2>3 DEF Pending
  <2> QED BY <1>1, <2>3, <2>5, <2>7, <2>11, <2>12 DEF Replayed
<1> QED BY <1>4, <1>5, <1>6, <1>7 DEF OneStep

LEMMA NextReplay == ReplayInv /\ [Next]_vars => ReplayInv'
<1> SUFFICES ASSUME ReplayInv, [Next]_vars PROVE ReplayInv'
  OBVIOUS
<1>1. EngineInv' /\ (Ages \/ \E x \in Execution : Alone(x) /\ OneStep(x))
  BY EngineStep DEF ReplayInv
<1>2. NoticeInv'
  BY NextNotice DEF ReplayInv
<1>3. \A y \in Execution : Replayed(exec'[y])
  <2>1. CASE Ages
    BY <2>1 DEF Ages, ReplayInv
  <2>2. ASSUME NEW x \in Execution, Alone(x), OneStep(x), NEW y \in Execution
        PROVE  Replayed(exec'[y])
    BY <1>1, <2>2, StepReplays DEF Alone, ReplayInv
  <2> QED BY <1>1, <2>1, <2>2
<1>4. (\A y \in Execution : Replayed(exec[y]))'
  BY <1>3
<1> QED BY <1>1, <1>2, <1>4 DEF ReplayInv

\* Induction, over a set rather than a predicate.
LEMMA Induction ==
  ASSUME NEW S \in SUBSET Nat, 0 \in S, \A n \in S : n + 1 \in S
  PROVE  S = Nat
<1> SUFFICES ASSUME S # Nat PROVE FALSE
  OBVIOUS
<1> DEFINE M == Nat \ S
<1>1. M \subseteq Nat /\ M # {}
  OBVIOUS
<1>2. PICK m \in M : \A k \in M : m <= k
  <2>1. PICK R : R = {ss \in Nat \X Nat : ss[1] < ss[2]}
    OBVIOUS
  <2>2. IsWellFoundedOn(R, Nat)
    BY <2>1, NatLessThanWellFounded DEF OpToRel
  <2>3. PICK m \in M : \A k \in M : <<k, m>> \notin R
    <3> HIDE DEF M
    <3> QED BY <1>1, <2>2, WFMin
  <2>4. \A k \in M : ~(k < m)
    BY <2>1, <2>3
  <2> QED BY <2>3, <2>4
<1>3. m # 0 /\ m \in Nat
  BY <1>2
<1>4. m - 1 \in Nat /\ m - 1 \in S
  BY <1>2, <1>3
<1>5. (m - 1) + 1 \in S
  BY <1>4
<1> QED BY <1>2, <1>3, <1>5

\* Two replays go the same way as long as their sources find the same.
LEMMA ReplaysAgree ==
  ASSUME NEW w, NEW s \in Seq(Step), NEW t \in Seq(Step), NEW qs, NEW qt,
         Replays(w, s, qs), Replays(w, t, qt),
         qs[Len(s)] = <<>>, qt[Len(t)] = <<>>,
         \A k \in (DOMAIN s) \cap (DOMAIN t) :
           s[k].node = t[k].node /\ w.type[s[k].node] = "source" => s[k].branches = t[k].branches
  PROVE  /\ Len(s) = Len(t)
         /\ \A k \in 1 .. Len(s) : /\ s[k].node = t[k].node /\ s[k].items = t[k].items
                                   /\ s[k].branches = t[k].branches
<1>1. PICK m, n : m = Len(s) /\ n = Len(t)
  OBVIOUS
<1>2. m \in Nat /\ n \in Nat /\ DOMAIN s = 1 .. m /\ DOMAIN t = 1 .. n
  BY <1>1
<1>3. ASSUME NEW k \in 1 .. m, k \in 1 .. n, qs[k - 1] = qt[k - 1]
      PROVE  /\ s[k].node = t[k].node /\ s[k].items = t[k].items
             /\ s[k].branches = t[k].branches /\ qs[k] = qt[k]
  <2>1. /\ s[k].node = Head(qs[k - 1]).node /\ s[k].items = Head(qs[k - 1]).items
        /\ Follows(w, s[k])
        /\ qs[k] = Tail(qs[k - 1]) \o Pushed(w, s[k].node, s[k].branches)
    BY <1>1 DEF Replays
  <2>2. /\ t[k].node = Head(qt[k - 1]).node /\ t[k].items = Head(qt[k - 1]).items
        /\ Follows(w, t[k])
        /\ qt[k] = Tail(qt[k - 1]) \o Pushed(w, t[k].node, t[k].branches)
    BY <1>1, <1>3 DEF Replays
  <2>3. s[k].node = t[k].node /\ s[k].items = t[k].items
    BY <1>3, <2>1, <2>2
  <2>4. s[k].branches = t[k].branches
    <3>1. CASE w.type[s[k].node] = "source"
      BY <1>2, <1>3, <2>3, <3>1
    <3>2. CASE w.type[s[k].node] # "source"
      BY <2>1, <2>2, <2>3, <3>2 DEF Follows
    <3> QED BY <3>1, <3>2
  <2> QED BY <1>3, <2>1, <2>2, <2>3, <2>4
<1>4. PICK S : S = {k \in Nat : k <= m /\ k <= n => qs[k] = qt[k]}
  OBVIOUS
<1>5. S = Nat
  <2>1. S \in SUBSET Nat
    BY <1>4
  <2>2. 0 \in S
    BY <1>4 DEF Replays
  <2>3. ASSUME NEW k \in S PROVE k + 1 \in S
    <3>1. k \in Nat /\ (k <= m /\ k <= n => qs[k] = qt[k])
      BY <1>4
    <3>2. CASE k + 1 <= m /\ k + 1 <= n
      <4>1. k + 1 \in 1 .. m /\ k + 1 \in 1 .. n /\ (k + 1) - 1 = k /\ qs[k] = qt[k]
        BY <1>2, <3>1, <3>2
      <4>2. qs[k + 1] = qt[k + 1]
        BY <1>3, <4>1
      <4> QED BY <1>4, <3>1, <4>2
    <3> QED BY <1>4, <3>1, <3>2
  <2> QED BY <2>1, <2>2, <2>3, Induction
<1>6. \A k \in Nat : k <= m /\ k <= n => qs[k] = qt[k]
  BY <1>4, <1>5
<1>7. ~(m < n)
  <2> SUFFICES ASSUME m < n PROVE FALSE
    OBVIOUS
  <2>1. qt[m] = <<>>
    BY <1>1, <1>2, <1>6
  <2>2. m + 1 \in 1 .. Len(t) /\ (m + 1) - 1 = m
    BY <1>1, <1>2
  <2> QED BY <2>1, <2>2 DEF Replays
<1>8. ~(n < m)
  <2> SUFFICES ASSUME n < m PROVE FALSE
    OBVIOUS
  <2>1. qs[n] = <<>>
    BY <1>1, <1>2, <1>6
  <2>2. n + 1 \in 1 .. Len(s) /\ (n + 1) - 1 = n
    BY <1>1, <1>2
  <2> QED BY <2>1, <2>2 DEF Replays
<1>9. m = n
  BY <1>2, <1>7, <1>8
<1>10. \A k \in 1 .. m : qs[k - 1] = qt[k - 1]
  BY <1>2, <1>6, <1>9
<1> QED BY <1>1, <1>3, <1>9, <1>10

LEMMA ReplayForetells == ReplayInv => DryRunForetells
<1> SUFFICES ASSUME ReplayInv, NEW x \in Execution, exec[x].dryRun
             PROVE  /\ \A r \in tasks : r.exec # x
                    /\ \A r \in notices : r.of.exec # x
                    /\ \A y \in Execution :
                         /\ exec[x].status = "completed" /\ exec[y].status = "completed"
                         /\ exec[x].workflow = exec[y].workflow
                         /\ SameItemsFound(x, y)
                         => Way(x) = Way(y)
  BY DEF DryRunForetells
<1>1. /\ \A r \in tasks : r.exec # x
      /\ \A r \in notices : r.of.exec # x
  BY DEF ReplayInv, NoticeInv, RowsAreReal
<1>2. ASSUME NEW y \in Execution, exec[x].status = "completed", exec[y].status = "completed",
             exec[x].workflow = exec[y].workflow, SameItemsFound(x, y)
      PROVE  Way(x) = Way(y)
  <2>1. PICK w, s, t : w = exec[x].workflow /\ s = exec[x].steps /\ t = exec[y].steps
    OBVIOUS
  <2>2. ASSUME NEW z \in Execution, exec[z].status = "completed"
        PROVE  /\ exec[z].steps \in Seq(Step)
               /\ \E qs : /\ Replays(exec[z].workflow, exec[z].steps, qs)
                          /\ qs[Len(exec[z].steps)] = <<>>
    <3>1. exec[z] \in ExecutionState /\ Coherent(exec[z]) /\ Replayed(exec[z])
      BY DEF ReplayInv, EngineInv, TypeOK
    <3>2. exec[z].pc # "idle"
      <4>1. NotStarted.status = "none"
        BY DEF NotStarted
      <4> QED BY <2>2, <3>1, <4>1 DEF Coherent
    <3> QED BY <2>2, <3>1, <3>2 DEF Replayed, ExecutionState
  <2>3. s \in Seq(Step) /\ t \in Seq(Step)
    BY <1>2, <2>1, <2>2
  <2>4. PICK qs : Replays(w, s, qs) /\ qs[Len(s)] = <<>>
    BY <1>2, <2>1, <2>2
  <2>5. PICK qt : Replays(w, t, qt) /\ qt[Len(t)] = <<>>
    BY <1>2, <2>1, <2>2
  <2>6. \A k \in (DOMAIN s) \cap (DOMAIN t) :
          s[k].node = t[k].node /\ w.type[s[k].node] = "source" => s[k].branches = t[k].branches
    BY <1>2, <2>1 DEF SameItemsFound
  <2>7. /\ Len(s) = Len(t)
        /\ \A k \in 1 .. Len(s) : /\ s[k].node = t[k].node /\ s[k].items = t[k].items
                                  /\ s[k].branches = t[k].branches
    BY <2>3, <2>4, <2>5, <2>6, ReplaysAgree
  <2>8. DOMAIN s = 1 .. Len(s) /\ DOMAIN t = 1 .. Len(s)
    BY <2>3, <2>7
  <2>9. ASSUME NEW k \in 1 .. Len(s)
        PROVE  [s[k] EXCEPT !.status = "ok"] = [t[k] EXCEPT !.status = "ok"]
    <3>1. PICK a, b : a = s[k] /\ b = t[k]
      OBVIOUS
    <3>2. a \in Step /\ b \in Step
      BY <2>3, <2>7, <3>1, SeqFacts
    <3>3. a.node = b.node /\ a.items = b.items /\ a.branches = b.branches
      BY <2>7, <3>1
    <3> QED BY <3>1, <3>2, <3>3 DEF Step
  <2>10. Way(x) = [k \in 1 .. Len(s) |-> [s[k] EXCEPT !.status = "ok"]]
    BY <2>1, <2>8 DEF Way
  <2>11. Way(y) = [k \in 1 .. Len(s) |-> [t[k] EXCEPT !.status = "ok"]]
    BY <2>1, <2>8 DEF Way
  <2> QED BY <2>9, <2>10, <2>11
<1> QED BY <1>1, <1>2

\* A dry run does nothing and shows the way: an execution of the same workflow that completes
\* executes the same nodes with the same items, in the same order, given what sources find.
THEOREM DryRunTells == Spec => []DryRunForetells
<1>1. Init => ReplayInv
  <2>1. Init => \A x \in Execution : exec[x].pc = "idle"
    BY DEF Init, NotStarted
  <2> QED BY <2>1, InitEngine, InitNotice DEF ReplayInv, Replayed
<1> QED BY <1>1, NextReplay, ReplayForetells, PTL DEF Spec

----------------------------------------------------------------------------
(* Every branch is followed *)

Places(s, v) == {i \in DOMAIN s : s[i] = v}

LEMMA PlacesFinite ==
  ASSUME NEW T, NEW s \in Seq(T), NEW v
  PROVE  IsFiniteSet(Places(s, v)) /\ Cardinality(Places(s, v)) \in Nat
<1>1. Places(s, v) \subseteq 1 .. Len(s) /\ Len(s) \in Nat
  BY DEF Places
<1>2. IsFiniteSet(1 .. Len(s))
  BY <1>1, SegmentFinite
<1> QED BY <1>1, <1>2, FS_Subset, FS_CardinalityType

\* How often a value occurs in a sequence after another.
LEMMA PlacesAdd ==
  ASSUME NEW T, NEW s \in Seq(T), NEW t \in Seq(T), NEW v
  PROVE  Cardinality(Places(s \o t, v)) = Cardinality(Places(s, v)) + Cardinality(Places(t, v))
<1>1. PICK m, n, u : m = Len(s) /\ n = Len(t) /\ u = s \o t
  OBVIOUS
<1>2. /\ m \in Nat /\ n \in Nat /\ DOMAIN s = 1 .. m /\ DOMAIN t = 1 .. n
      /\ DOMAIN u = 1 .. (m + n)
      /\ \A i \in 1 .. (m + n) : u[i] = IF i <= m THEN s[i] ELSE t[i - m]
  <2>1. /\ u \in Seq(T) /\ Len(u) = m + n
        /\ \A i \in 1 .. m + n : u[i] = IF i <= m THEN s[i] ELSE t[i - m]
    BY <1>1, ConcatProperties
  <2> QED BY <1>1, <2>1
<1>3. PICK A, B, C : A = Places(s, v) /\ B = Places(t, v) /\ C = Places(u, v)
  OBVIOUS
<1>4. PICK f : f = [i \in B |-> i + m]
  OBVIOUS
<1>5. PICK D : D = {i \in (m + 1) .. (m + n) : t[i - m] = v}
  OBVIOUS
<1>6. B = {i \in 1 .. n : t[i] = v}
  BY <1>2, <1>3 DEF Places
<1>7. f \in Bijection(B, D)
  <2>1. f \in [B -> D]
    BY <1>2, <1>4, <1>5, <1>6
  <2>2. \A i, j \in B : f[i] = f[j] => i = j
    BY <1>2, <1>4, <1>6
  <2>3. ASSUME NEW d \in D PROVE \E i \in B : f[i] = d
    <3>1. d - m \in B /\ (d - m) + m = d
      BY <1>2, <1>5, <1>6
    <3> QED BY <1>4, <3>1
  <2> QED BY <2>1, <2>2, <2>3 DEF Bijection, Injection, Surjection, IsInjective
<1>8. IsFiniteSet(A) /\ IsFiniteSet(B)
  BY <1>3, PlacesFinite
<1>9. IsFiniteSet(D) /\ Cardinality(D) = Cardinality(B)
  BY <1>7, <1>8, FS_Bijection DEF ExistsBijection
<1>10. C = A \cup D /\ A \cap D = {}
  BY <1>2, <1>3, <1>5 DEF Places
<1>11. Cardinality(C) = Cardinality(A) + Cardinality(D) - Cardinality(A \cap D)
  BY <1>8, <1>9, <1>10, FS_Union
<1>12. Cardinality(A \cap D) = 0
  BY <1>10, FS_EmptySet
<1>13. Cardinality(A) \in Nat /\ Cardinality(D) \in Nat
  BY <1>8, <1>9, FS_CardinalityType
<1> QED BY <1>1, <1>3, <1>9, <1>11, <1>12, <1>13

LEMMA PlacesOfOne ==
  ASSUME NEW f, NEW v
  PROVE  Cardinality(Places(<<f>>, v)) = IF f = v THEN 1 ELSE 0
<1>1. Places(<<f>>, v) = IF f = v THEN {1} ELSE {}
  BY DEF Places
<1> QED BY <1>1, FS_Singleton, FS_EmptySet

Edges(w) == UNION {DOMAIN w.out[n] : n \in Node}

Runs(s, n, items) == {k \in DOMAIN s : s[k].node = n /\ s[k].items = items}

\* Ways that step k, which is of node m, hands items to n.
Hands(w, m, branches, k, n, items) ==
  {h \in {k} \X (Label \cup {Unlabelled}) \X Edges(w) :
     /\ \E b \in DOMAIN branches : branches[b] = [label |-> h[2], items |-> items]
     /\ h[3] \in DOMAIN w.out[m]
     /\ w.out[m][h[3]].to = n
     /\ h[2] \in {Unlabelled, w.out[m][h[3]].label}}

Handed(w, s, n, items) ==
  {h \in (DOMAIN s) \X (Label \cup {Unlabelled}) \X Edges(w) :
     h \in Hands(w, s[h[1]].node, s[h[1]].branches, h[1], n, items)}

\* As many as frames it pushes.
LEMMA HandsCount ==
  ASSUME NEW w \in Workflow, NEW m \in Node, NEW bs \in Seq(Branch), NEW k,
         NEW n \in Node, NEW items, items # {},
         \A b, c \in DOMAIN bs : bs[b].label = bs[c].label => b = c
  PROVE  /\ IsFiniteSet(Hands(w, m, bs, k, n, items))
         /\ Cardinality(Hands(w, m, bs, k, n, items)) =
              Cardinality(Places(Pushed(w, m, bs), [node |-> n, items |-> items]))
<1>1. PICK P, more : P = Ways(w, m, bs) /\ more = Pushed(w, m, bs)
  OBVIOUS
<1>2. PICK N : N = Len(more)
  OBVIOUS
<1>3. /\ more \in Seq(Frame) /\ N \in Nat
      /\ \E ways \in [1 .. N -> P] :
           /\ \A p \in P : \E i \in 1 .. N : ways[i] = p
           /\ \A i, j \in 1 .. N : ways[i] = ways[j] => i = j
           /\ \A i \in 1 .. N :
                more[i] = [node |-> w.out[m][ways[i][2]].to, items |-> bs[ways[i][1]].items]
  <2>1. P = Ways(w, m, bs)
    BY <1>1
  <2>2. more = Pushed(w, m, bs)
    BY <1>1
  <2> QED BY <1>2, <2>1, <2>2, PushedFacts
<1>4. PICK ways \in [1 .. N -> P] :
        /\ \A p \in P : \E i \in 1 .. N : ways[i] = p
        /\ \A i, j \in 1 .. N : ways[i] = ways[j] => i = j
        /\ \A i \in 1 .. N :
             more[i] = [node |-> w.out[m][ways[i][2]].to, items |-> bs[ways[i][1]].items]
  BY <1>3
<1>5. PICK A, H : A = Places(more, [node |-> n, items |-> items]) /\ H = Hands(w, m, bs, k, n, items)
  OBVIOUS
<1>6. A \subseteq 1 .. N
  BY <1>2, <1>3, <1>5 DEF Places
<1>7. \A i \in 1 .. N : i \in A <=>
        w.out[m][ways[i][2]].to = n /\ bs[ways[i][1]].items = items
  <2>1. DOMAIN more = 1 .. N
    BY <1>2, <1>3
  <2>2. \A i \in 1 .. N : i \in A <=> more[i] = [node |-> n, items |-> items]
    BY <1>5, <2>1 DEF Places
  <2>3. ASSUME NEW i \in 1 .. N
        PROVE  i \in A <=> w.out[m][ways[i][2]].to = n /\ bs[ways[i][1]].items = items
    <3>1. PICK a, b : a = w.out[m][ways[i][2]].to /\ b = bs[ways[i][1]].items
      OBVIOUS
    <3>2. more[i] = [node |-> a, items |-> b]
      BY <1>4, <3>1
    <3>3. [node |-> a, items |-> b] = [node |-> n, items |-> items] <=> a = n /\ b = items
      OBVIOUS
    <3> QED BY <2>2, <3>1, <3>2, <3>3
  <2> QED BY <2>3
<1>8. \A p \in P : /\ p[1] \in DOMAIN bs /\ p[2] \in DOMAIN w.out[m] /\ p = <<p[1], p[2]>>
                   /\ bs[p[1]].label \in {Unlabelled, w.out[m][p[2]].label}
  <2>1. P = Ways(w, m, bs)
    BY <1>1
  <2>2. P \subseteq (DOMAIN bs) \X (DOMAIN w.out[m])
    BY <2>1 DEF Ways
  <2>3. \A p \in P : p[2] \in Matching(w, m, bs[p[1]])
    BY <2>1 DEF Ways
  <2> QED BY <2>2, <2>3 DEF Matching
<1>9. \A b \in DOMAIN bs : /\ bs[b] = [label |-> bs[b].label, items |-> bs[b].items]
                           /\ bs[b].label \in Label \cup {Unlabelled}
  <2>1. \A b \in DOMAIN bs : bs[b] \in Branch
    BY SeqFacts
  <2> QED BY <2>1 DEF Branch
<1>10. PICK f : f = [i \in A |-> <<k, bs[ways[i][1]].label, ways[i][2]>>]
  OBVIOUS
<1>11. ASSUME NEW i \in A
       PROVE  /\ ways[i] \in P /\ f[i] = <<k, bs[ways[i][1]].label, ways[i][2]>> /\ f[i] \in H
  <2>1. i \in 1 .. N
    BY <1>6
  <2>2. PICK b, e : b = ways[i][1] /\ e = ways[i][2]
    OBVIOUS
  <2>3. /\ ways[i] \in P /\ b \in DOMAIN bs /\ e \in DOMAIN w.out[m]
        /\ w.out[m][e].to = n /\ bs[b].items = items
        /\ bs[b].label \in {Unlabelled, w.out[m][e].label}
    BY <1>4, <1>7, <1>8, <2>1, <2>2
  <2>4. PICK l : l = bs[b].label
    OBVIOUS
  <2>5. f[i] = <<k, l, e>>
    BY <1>10, <2>2, <2>4
  <2>6. bs[b] = [label |-> l, items |-> items] /\ l \in Label \cup {Unlabelled}
    BY <1>9, <2>3, <2>4
  <2>7. e \in Edges(w)
    BY <2>3 DEF Edges
  <2>8. <<k, l, e>> \in H
    BY <1>1, <1>5, <2>3, <2>4, <2>6, <2>7 DEF Hands
  <2> QED BY <1>10, <2>3, <2>5, <2>8
<1>12. f \in [A -> H]
  BY <1>10, <1>11
<1>13. ASSUME NEW i \in A, NEW j \in A, f[i] = f[j] PROVE i = j
  <2>1. bs[ways[i][1]].label = bs[ways[j][1]].label /\ ways[i][2] = ways[j][2]
    BY <1>11, <1>13
  <2>2. ways[i][1] \in DOMAIN bs /\ ways[j][1] \in DOMAIN bs
    BY <1>8, <1>11
  <2>3. ways[i][1] = ways[j][1]
    BY <2>1, <2>2
  <2>4. ways[i] = ways[j]
    BY <1>8, <1>11, <2>1, <2>3
  <2> QED BY <1>4, <1>6, <2>4
<1>14. ASSUME NEW h \in H PROVE \E i \in A : f[i] = h
  <2>1. PICK l, e : l = h[2] /\ e = h[3]
    OBVIOUS
  <2>2. /\ h = <<k, l, e>>
        /\ \E b \in DOMAIN bs : bs[b] = [label |-> l, items |-> items]
        /\ e \in DOMAIN w.out[m] /\ w.out[m][e].to = n
        /\ l \in {Unlabelled, w.out[m][e].label}
    BY <1>1, <1>5, <2>1 DEF Hands
  <2>3. PICK b \in DOMAIN bs : bs[b] = [label |-> l, items |-> items]
    BY <2>2
  <2>4. bs[b].label = l /\ bs[b].items = items
    BY <2>3
  <2>5. <<b, e>> \in P
    BY <1>1, <2>2, <2>4 DEF Ways, Matching
  <2>6. PICK i \in 1 .. N : ways[i] = <<b, e>>
    BY <1>4, <2>5
  <2>7. ways[i][1] = b /\ ways[i][2] = e
    BY <2>6
  <2>8. i \in A
    BY <1>7, <2>2, <2>4, <2>7
  <2> QED BY <1>10, <2>2, <2>4, <2>7, <2>8
<1>15. f \in Bijection(A, H)
  BY <1>12, <1>13, <1>14 DEF Bijection, Injection, Surjection, IsInjective
<1>16. IsFiniteSet(A)
  BY <1>3, <1>5, PlacesFinite
<1>17. IsFiniteSet(H) /\ Cardinality(H) = Cardinality(A)
  BY <1>15, <1>16, FS_Bijection DEF ExistsBijection
<1> QED BY <1>1, <1>5, <1>17

\* Runs and hand-overs of a node and its items, with the frames still to come.
FromStart(n, items) == IF n = Trigger /\ items = {Blank} THEN 1 ELSE 0

Balance(w, s, q, n, items) ==
  /\ IsFiniteSet(Handed(w, s, n, items))
  /\ Cardinality(Runs(s, n, items)) + Cardinality(Places(q, [node |-> n, items |-> items])) =
       Cardinality(Handed(w, s, n, items)) + FromStart(n, items)

LEMMA BalanceGrows ==
  ASSUME NEW w \in Workflow, NEW s \in Seq(Step), NEW st \in Step,
         NEW f \in Frame, NEW q \in Seq(Frame), st.node = f.node, st.items = f.items,
         \A b, c \in DOMAIN st.branches : st.branches[b].label = st.branches[c].label => b = c,
         NEW n \in Node, NEW items, items # {}, Balance(w, s, <<f>> \o q, n, items)
  PROVE  Balance(w, Append(s, st), q \o Pushed(w, st.node, st.branches), n, items)
<1>1. PICK t, more, v, m : /\ t = Append(s, st) /\ more = Pushed(w, st.node, st.branches)
                           /\ v = [node |-> n, items |-> items] /\ m = Len(s)
  OBVIOUS
<1>2. /\ m \in Nat /\ DOMAIN s = 1 .. m /\ DOMAIN t = 1 .. (m + 1) /\ t[m + 1] = st
      /\ \A k \in 1 .. m : t[k] = s[k]
  BY <1>1, AppendFacts
<1>3. st.node \in Node /\ st.branches \in Seq(Branch)
  BY DEF Step
<1>4. more \in Seq(Frame)
  BY <1>1, <1>3, PushedItems
<1>5. f = v <=> st.node = n /\ st.items = items
  BY <1>1 DEF Frame
<1>6. PICK one : one = IF f = v THEN 1 ELSE 0
  OBVIOUS
<1>7. PICK a, b, d : /\ a = Cardinality(Places(q, v)) /\ b = Cardinality(Places(more, v))
                     /\ d = Cardinality(Places(<<f>>, v))
  OBVIOUS
<1>8. a \in Nat /\ b \in Nat /\ d = one
  BY <1>4, <1>6, <1>7, PlacesFinite, PlacesOfOne
<1>9. Cardinality(Places(<<f>> \o q, v)) = one + a
  <2>1. PICK g : g = <<f>>
    OBVIOUS
  <2>2. g \in Seq(Frame)
    BY <2>1
  <2>3. Cardinality(Places(g \o q, v)) = Cardinality(Places(g, v)) + Cardinality(Places(q, v))
    BY <2>2, PlacesAdd
  <2> QED BY <1>7, <1>8, <2>1, <2>3
<1>10. Cardinality(Places(q \o more, v)) = a + b
  BY <1>4, <1>7, PlacesAdd
<1>11. PICK R, S : R = Runs(s, n, items) /\ S = Runs(t, n, items)
  OBVIOUS
<1>12. IsFiniteSet(R) /\ Cardinality(R) \in Nat /\ Cardinality(S) = Cardinality(R) + one
  <2>1. R \subseteq 1 .. m
    BY <1>2, <1>11 DEF Runs
  <2>2. IsFiniteSet(1 .. m)
    <3>1. m \in Nat
      BY <1>2
    <3> QED BY <3>1, SegmentFinite
  <2>3. IsFiniteSet(R) /\ Cardinality(R) \in Nat
    BY <2>1, <2>2, FS_Subset, FS_CardinalityType
  <2>4. CASE f = v
    <3>1. S = R \cup {m + 1} /\ m + 1 \notin R
      BY <1>2, <1>5, <1>11, <2>1, <2>4 DEF Runs
    <3> QED BY <1>6, <2>3, <2>4, <3>1, FS_AddElement
  <2>5. CASE f # v
    <3>1. S = R
      BY <1>2, <1>5, <1>11, <2>1, <2>5 DEF Runs
    <3> QED BY <1>6, <2>3, <2>5, <3>1
  <2> QED BY <2>3, <2>4, <2>5
<1>13. PICK H, I, J : /\ H = Handed(w, s, n, items) /\ I = Handed(w, t, n, items)
                      /\ J = Hands(w, st.node, st.branches, m + 1, n, items)
  OBVIOUS
<1>14. I = H \cup J /\ H \cap J = {}
  <2>1. \A h \in J : h[1] = m + 1 /\ h \in {m + 1} \X (Label \cup {Unlabelled}) \X Edges(w)
    BY <1>13 DEF Hands
  <2>2. \A h \in H : h[1] \in 1 .. m
    BY <1>2, <1>13 DEF Handed
  <2>3. ASSUME NEW h \in H PROVE h \in I
    <3>1. h \in (DOMAIN s) \X (Label \cup {Unlabelled}) \X Edges(w)
      BY <1>13 DEF Handed
    <3>2. h \in (DOMAIN t) \X (Label \cup {Unlabelled}) \X Edges(w)
      BY <1>2, <3>1
    <3>3. t[h[1]] = s[h[1]]
      BY <1>2, <2>2
    <3>4. h \in Hands(w, s[h[1]].node, s[h[1]].branches, h[1], n, items)
      BY <1>13 DEF Handed
    <3> QED BY <1>13, <3>2, <3>3, <3>4 DEF Handed
  <2>4. ASSUME NEW h \in J PROVE h \in I
    <3>1. h \in (DOMAIN t) \X (Label \cup {Unlabelled}) \X Edges(w)
      BY <1>2, <2>1
    <3>2. t[h[1]] = st /\ h[1] = m + 1
      BY <1>2, <2>1
    <3> QED BY <1>13, <3>1, <3>2 DEF Handed
  <2>5. ASSUME NEW h \in I PROVE h \in H \/ h \in J
    <3>1. /\ h \in (DOMAIN t) \X (Label \cup {Unlabelled}) \X Edges(w)
          /\ h \in Hands(w, t[h[1]].node, t[h[1]].branches, h[1], n, items)
      BY <1>13 DEF Handed
    <3>2. h[1] \in 1 .. (m + 1)
      BY <1>2, <3>1
    <3>3. CASE h[1] = m + 1
      BY <1>2, <1>13, <3>1, <3>3
    <3>4. CASE h[1] \in 1 .. m
      <4>1. t[h[1]] = s[h[1]]
        BY <1>2, <3>4
      <4>2. h \in (DOMAIN s) \X (Label \cup {Unlabelled}) \X Edges(w)
        BY <1>2, <3>1, <3>4
      <4> QED BY <1>13, <3>1, <4>1, <4>2 DEF Handed
    <3> QED BY <1>2, <3>2, <3>3, <3>4
  <2>6. m + 1 \notin 1 .. m
    BY <1>2
  <2> QED BY <2>1, <2>2, <2>3, <2>4, <2>5, <2>6
<1>15. IsFiniteSet(J) /\ Cardinality(J) = b
  <2>1. PICK l, bs : l = st.node /\ bs = st.branches
    OBVIOUS
  <2>2. l \in Node /\ bs \in Seq(Branch)
    BY <1>3, <2>1
  <2>3. \A k, j \in DOMAIN bs : bs[k].label = bs[j].label => k = j
    BY <2>1
  <2>4. /\ IsFiniteSet(Hands(w, l, bs, m + 1, n, items))
        /\ Cardinality(Hands(w, l, bs, m + 1, n, items)) =
             Cardinality(Places(Pushed(w, l, bs), [node |-> n, items |-> items]))
    BY <2>2, <2>3, HandsCount
  <2> QED BY <1>1, <1>7, <1>13, <2>1, <2>4
<1>16. /\ IsFiniteSet(H)
       /\ Cardinality(R) + Cardinality(Places(<<f>> \o q, v)) =
            Cardinality(H) + FromStart(n, items)
  BY <1>1, <1>11, <1>13 DEF Balance
<1>17. IsFiniteSet(I) /\ Cardinality(I) = Cardinality(H) + b /\ Cardinality(H) \in Nat
  <2>1. IsFiniteSet(I) /\ Cardinality(I) = Cardinality(H) + Cardinality(J) - Cardinality(H \cap J)
    BY <1>14, <1>15, <1>16, FS_Union
  <2>2. Cardinality(H \cap J) = 0 /\ Cardinality(H) \in Nat
    BY <1>14, <1>16, FS_EmptySet, FS_CardinalityType
  <2> QED BY <1>8, <1>15, <2>1, <2>2
<1>18. Cardinality(S) + Cardinality(Places(q \o more, v)) =
         Cardinality(I) + FromStart(n, items)
  <2>1. one \in Nat /\ FromStart(n, items) \in Nat
    BY <1>6 DEF FromStart
  <2>2. PICK r, h, g : r = Cardinality(R) /\ h = Cardinality(H) /\ g = FromStart(n, items)
    OBVIOUS
  <2>3. r \in Nat /\ h \in Nat /\ g \in Nat /\ r + (one + a) = h + g
    <3>1. r + (one + a) = h + g
      BY <1>9, <1>16, <2>2, Zenon
    <3>2. r \in Nat /\ h \in Nat /\ g \in Nat
      BY <1>12, <1>17, <2>1, <2>2, Zenon
    <3> QED BY <3>1, <3>2
  <2>4. (r + one) + (a + b) = (h + b) + g
    <3>1. a \in Nat /\ b \in Nat /\ one \in Nat
      BY <1>8, <2>1
    <3> QED BY <2>3, <3>1
  <2> QED BY <1>10, <1>12, <1>17, <2>2, <2>4
<1> QED BY <1>1, <1>11, <1>13, <1>17, <1>18 DEF Balance

Balanced(e) ==
  \A n \in Node, items \in (SUBSET Data) \ {{}} :
    /\ e.pc \in {"turn", "node", "send"} => Balance(e.workflow, e.steps, Pending(e), n, items)
    /\ e.status = "completed" => Balance(e.workflow, e.steps, <<>>, n, items)

FollowInv == ReplayInv /\ \A x \in Execution : Balanced(exec[x])

LEMMA StepFollows ==
  ASSUME FollowInv, EngineInv', NEW x \in Execution, OneStep(x)
  PROVE  Balanced(exec'[x])
<1>1. PICK o, p : o = exec[x] /\ p = exec'[x]
  OBVIOUS
<1>2. o \in ExecutionState /\ p \in ExecutionState /\ Replayed(o) /\ Balanced(o)
  BY <1>1 DEF FollowInv, ReplayInv, EngineInv, TypeOK
<1>3. o.queue \in Seq(Frame) /\ o.steps \in Seq(Step)
  BY <1>2 DEF ExecutionState
<1>4. CASE HasBegun(x)
  <2>1. PICK f : f = [node |-> Trigger, items |-> {Blank}]
    OBVIOUS
  <2>2. p.pc = "turn" /\ p.steps = <<>> /\ p.queue = <<f>> /\ p.status = "none"
    BY <1>1, <1>4, <2>1 DEF HasBegun
  <2>3. ASSUME NEW n \in Node, NEW items \in (SUBSET Data) \ {{}}
        PROVE  Balance(p.workflow, p.steps, <<f>>, n, items)
    <3>1. PICK v : v = [node |-> n, items |-> items]
      OBVIOUS
    <3>2. Runs(p.steps, n, items) = {} /\ Handed(p.workflow, p.steps, n, items) = {}
      BY <2>2 DEF Runs, Handed
    <3>3. f = v <=> n = Trigger /\ items = {Blank}
      BY <2>1, <3>1
    <3>4. Cardinality(Places(<<f>>, v)) = FromStart(n, items)
      BY <3>3, PlacesOfOne DEF FromStart
    <3>5. FromStart(n, items) \in Nat
      BY DEF FromStart
    <3> QED BY <3>1, <3>2, <3>4, <3>5, FS_EmptySet DEF Balance
  <2>4. Pending(p) = <<f>>
    BY <2>2 DEF Pending
  <2> QED BY <1>1, <2>2, <2>3, <2>4 DEF Balanced
<1>5. CASE HasFailed(x)
  BY <1>1, <1>5 DEF HasFailed, Balanced
<1>6. CASE HasMoved(x) \/ HasFinished(x) \/ HasTaken(x) \/ HasLooked(x)
           \/ \E i \in Data : HasDispatched(x, i) \/ HasSent(x, i)
  <2>1. /\ p.workflow = o.workflow /\ p.steps = o.steps
        /\ p.status = "completed" =>
             o.status = "completed" \/ (o.pc = "turn" /\ o.queue = <<>>)
    BY <1>1, <1>6 DEF HasMoved, HasFinished, HasTaken, HasLooked, HasDispatched, HasSent, Same
  <2>2. p.pc \in {"turn", "node", "send"} =>
          o.pc \in {"turn", "node", "send"} /\ Pending(p) = Pending(o)
    BY <1>1, <1>3, <1>6, PendingStays
  <2>3. o.pc = "turn" => Pending(o) = o.queue
    BY DEF Pending
  <2> QED BY <1>1, <1>2, <2>1, <2>2, <2>3 DEF Balanced
<1>7. CASE \E s \in {"ok", "skipped"}, b \in Seq(Branch), c \in Nat :
             Outcome(x, s, b, c) /\ HasProduced(x, s, b, c)
  <2>1. PICK s \in {"ok", "skipped"}, b \in Seq(Branch), c \in Nat :
               Outcome(x, s, b, c) /\ HasProduced(x, s, b, c)
    BY <1>7
  <2>2. PICK w, f, q, t, st : /\ w = o.workflow /\ f = o.frame /\ q = o.queue /\ t = o.steps
                              /\ st = Logged(x, s, b)
    OBVIOUS
  <2>3. /\ o.pc = "node" /\ p.pc = "turn" /\ p.workflow = w /\ p.status = o.status
        /\ p.steps = Append(t, st) /\ p.queue = q \o Pushed(w, f.node, b)
        /\ q \in Seq(Frame) /\ t \in Seq(Step)
    BY <1>1, <1>3, <2>1, <2>2 DEF HasProduced, Same
  <2>4. w \in Workflow /\ f \in Frame /\ f.node \in Node /\ f.items \in SUBSET Data
    BY <1>1, <2>2, <2>3, AtWork DEF FollowInv, ReplayInv
  <2>5. st \in Step /\ st.node = f.node /\ st.items = f.items /\ st.branches = b
    BY <1>1, <2>2, <2>4 DEF Logged, Step
  <2>6. \A k, l \in DOMAIN b : b[k].label = b[l].label => k = l
    BY <1>1, <2>1, <2>3, OutcomeFacts DEF FollowInv, ReplayInv
  <2>7. o.status = "none"
    BY <1>2, <2>3 DEF Replayed
  <2>8. Pending(o) = <<f>> \o q /\ Pending(p) = q \o Pushed(w, st.node, st.branches)
    BY <2>2, <2>3, <2>5 DEF Pending
  <2>9. ASSUME NEW n \in Node, NEW items \in (SUBSET Data) \ {{}}
        PROVE  Balance(p.workflow, p.steps, Pending(p), n, items)
    <3>1. Balance(w, t, <<f>> \o q, n, items)
      BY <1>2, <2>2, <2>3, <2>8 DEF Balanced
    <3>2. \A k, l \in DOMAIN st.branches : st.branches[k].label = st.branches[l].label => k = l
      BY <2>5, <2>6
    <3>3. items # {}
      OBVIOUS
    <3>4. Balance(w, Append(t, st), q \o Pushed(w, st.node, st.branches), n, items)
      BY <2>3, <2>4, <2>5, <3>1, <3>2, <3>3, BalanceGrows
    <3> QED BY <2>3, <2>8, <3>4
  <2> QED BY <1>1, <2>3, <2>7, <2>9 DEF Balanced
<1> QED BY <1>4, <1>5, <1>6, <1>7 DEF OneStep

LEMMA NextFollow == FollowInv /\ [Next]_vars => FollowInv'
<1> SUFFICES ASSUME FollowInv, [Next]_vars PROVE FollowInv'
  OBVIOUS
<1>1. EngineInv' /\ (Ages \/ \E x \in Execution : Alone(x) /\ OneStep(x))
  BY EngineStep DEF FollowInv, ReplayInv
<1>2. ReplayInv'
  BY NextReplay DEF FollowInv
<1>3. \A y \in Execution : Balanced(exec'[y])
  <2>1. CASE Ages
    BY <2>1 DEF Ages, FollowInv
  <2>2. ASSUME NEW x \in Execution, Alone(x), OneStep(x), NEW y \in Execution
        PROVE  Balanced(exec'[y])
    BY <1>1, <2>2, StepFollows DEF Alone, FollowInv
  <2> QED BY <1>1, <2>1, <2>2
<1>4. (\A y \in Execution : Balanced(exec[y]))'
  BY <1>3
<1> QED BY <1>2, <1>4 DEF FollowInv

LEMMA FollowImplies == FollowInv => EveryBranchFollowed
<1> SUFFICES ASSUME FollowInv, NEW x \in Execution, exec[x].status = "completed",
                    NEW n \in Node, NEW items \in (SUBSET Data) \ {{}}
             PROVE  LET s     == exec[x].steps
                        out   == exec[x].workflow.out
                        edges == UNION {DOMAIN out[m] : m \in Node}
                        runs   == {k \in DOMAIN s : s[k].node = n /\ s[k].items = items}
                        handed ==
                          {h \in (DOMAIN s) \X (Label \cup {Unlabelled}) \X edges :
                             LET k == h[1]  l == h[2]  e == h[3]
                             IN  /\ \E b \in DOMAIN s[k].branches :
                                      s[k].branches[b] = [label |-> l, items |-> items]
                                 /\ e \in DOMAIN out[s[k].node]
                                 /\ out[s[k].node][e].to = n
                                 /\ l \in {Unlabelled, out[s[k].node][e].label}}
                    IN  Cardinality(runs) =
                          Cardinality(handed) + (IF n = Trigger /\ items = {Blank} THEN 1 ELSE 0)
  BY Zenon DEF EveryBranchFollowed
<1>1. Balance(exec[x].workflow, exec[x].steps, <<>>, n, items)
  BY DEF FollowInv, Balanced
<1>2. PICK r, d : /\ r = Cardinality(Runs(exec[x].steps, n, items))
                  /\ d = Cardinality(Handed(exec[x].workflow, exec[x].steps, n, items))
  OBVIOUS
<1>3. r \in Nat /\ d \in Nat
  <2>1. PICK s : s = exec[x].steps
    OBVIOUS
  <2>2. s \in Seq(Step)
    BY <2>1 DEF FollowInv, ReplayInv, EngineInv, TypeOK, ExecutionState
  <2>3. Runs(s, n, items) \subseteq 1 .. Len(s) /\ Len(s) \in Nat
    BY <2>2 DEF Runs
  <2>4. IsFiniteSet(1 .. Len(s))
    <3>1. Len(s) \in Nat
      BY <2>3
    <3> QED BY <3>1, SegmentFinite
  <2>5. r \in Nat
    BY <1>2, <2>1, <2>3, <2>4, FS_Subset, FS_CardinalityType
  <2> QED BY <1>1, <1>2, <2>5, FS_CardinalityType DEF Balance
<1>4. Cardinality(Places(<<>>, [node |-> n, items |-> items])) = 0
  <2>1. Places(<<>>, [node |-> n, items |-> items]) = {}
    BY DEF Places
  <2> QED BY <2>1, FS_EmptySet
<1>5. r = d + FromStart(n, items)
  <2>1. r + 0 = d + FromStart(n, items)
    BY <1>1, <1>2, <1>4, Zenon DEF Balance
  <2> QED BY <1>3, <2>1
<1>6. Runs(exec[x].steps, n, items) =
        {k \in DOMAIN exec[x].steps :
           exec[x].steps[k].node = n /\ exec[x].steps[k].items = items}
  BY DEF Runs
<1>7. Handed(exec[x].workflow, exec[x].steps, n, items) =
        {h \in (DOMAIN exec[x].steps) \X (Label \cup {Unlabelled}) \X
                UNION {DOMAIN exec[x].workflow.out[m] : m \in Node} :
           LET k == h[1]  l == h[2]  e == h[3]
           IN  /\ \E b \in DOMAIN exec[x].steps[k].branches :
                    exec[x].steps[k].branches[b] = [label |-> l, items |-> items]
               /\ e \in DOMAIN exec[x].workflow.out[exec[x].steps[k].node]
               /\ exec[x].workflow.out[exec[x].steps[k].node][e].to = n
               /\ l \in {Unlabelled, exec[x].workflow.out[exec[x].steps[k].node][e].label}}
  BY DEF Handed, Hands, Edges
<1> QED BY <1>2, <1>5, <1>6, <1>7, Zenon DEF FromStart

\* An execution that completes has run each node, with each set of items, exactly as often as
\* the edges of its workflow handed them to it: no branch is lost and none is followed twice.
THEOREM BranchesFollowed == Spec => []EveryBranchFollowed
<1>1. Init => FollowInv
  <2>1. Init => \A x \in Execution : exec[x].pc = "idle" /\ exec[x].status = "none"
    BY DEF Init, NotStarted
  <2> QED BY <2>1, InitEngine, InitNotice DEF FollowInv, ReplayInv, Replayed, Balanced
<1> QED BY <1>1, NextFollow, FollowImplies, PTL DEF Spec
=============================================================================
