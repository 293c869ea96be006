-------------------------- MODULE MCWorkflowEngine --------------------------
(* Two executions of two workflows, over two observations of one source.     *)
EXTENDS WorkflowEngine, TLC

CONSTANTS x1, x2, s1, s2, hi, lo

To(n)          == [to |-> n, label |-> Unlabelled]
Case(label, n) == [to |-> n, label |-> label]
MCSourceOf     == [i \in Data |-> IF i = Blank THEN s2 ELSE s1]
NoCase         == [i \in Data |-> Unlabelled]

\* A branch of two cases; the items of one come to the notification along two ways.
Routed ==
  [type    |-> <<"trigger", "source", "branch", "filter", "notify">>,
   out     |-> << <<To(2)>>, <<To(3)>>, <<Case(hi, 4), Case(lo, 4), Case(lo, 5)>>, <<To(5)>>, <<>> >>,
   keeps   |-> [n \in 1 .. 5 |-> {2}],
   case    |-> [n \in 1 .. 5 |-> [i \in Data |-> IF i = 2 THEN hi ELSE lo]],
   dedupes |-> [n \in 1 .. 5 |-> TRUE],
   maxNodes |-> 100, maxCost |-> 5]

\* A diamond without a branch; its limits are close.
Doubled ==
  [type    |-> <<"trigger", "source", "archive", "agent_task", "agent_task">>,
   out     |-> << <<To(2)>>, <<To(3), To(4)>>, <<To(5)>>, <<To(5)>>, <<>> >>,
   keeps   |-> [n \in 1 .. 5 |-> {}],
   case    |-> [n \in 1 .. 5 |-> NoCase],
   dedupes |-> [n \in 1 .. 5 |-> FALSE],
   maxNodes |-> 5, maxCost |-> 3]

TwoWorkflows == {Routed, Doubled}
=============================================================================
