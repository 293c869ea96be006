--------------------------- MODULE WorkflowGraph ---------------------------
(***************************************************************************)
(* The graph checks of validateWorkflow                                    *)
(* (packages/workflow-engine/src/validate.ts): findCycle, an iterative     *)
(* depth-first search with colours, and after it reachableFrom.            *)
(*                                                                         *)
(* Each turn of a loop is one step.  The graph is what buildAdjacency      *)
(* makes of the edges: the targets of a node in the order of its edges,    *)
(* which may name an id that no node has.  The order in which starting     *)
(* points are tried is that of the canvas: any.                            *)
(***************************************************************************)
EXTENDS Naturals, Sequences

CONSTANTS
  Node,       \* the ids of wf.nodes
  Unknown,    \* ids an edge may name and no node has
  Nobody,     \* stands for undefined
  Trigger,    \* the id of the trigger node
  MaxDegree   \* bound: edges out of a node

Id == Node \cup Unknown

ASSUME GraphAssumption ==
  /\ Trigger \in Node
  /\ Nobody \notin Id
  /\ MaxDegree \in Nat

VARIABLES
  adjacency,  \* buildAdjacency(wf)
  phase,      \* what is running
  stack,      \* findCycle: the nodes being explored, with the next edge of each
  colour,     \* findCycle
  parent,     \* findCycle: from where a node was first reached
  cursor,     \* findCycle: where the walk back along parents stands
  path,       \* findCycle: the cycle, <<>> while there is none
  seen,       \* reachableFrom
  pending     \* reachableFrom: its stack, whose order makes no difference

vars == <<adjacency, phase, stack, colour, parent, cursor, path, seen, pending>>

Unvisited == 0
InStack   == 1
Finished  == 2

Phase == {"search", "trace", "reach", "done"}
Frame == [id : Id, iter : Nat \ {0}]

TypeOK ==
  /\ adjacency \in [Node -> Seq(Id)]
  /\ phase \in Phase
  /\ stack \in Seq(Frame)
  /\ colour \in [Id -> {Unvisited, InStack, Finished}]
  /\ parent \in [Id -> Id \cup {Nobody}]
  /\ cursor \in Id \cup {Nobody}
  /\ path \in Seq(Id)
  /\ seen \subseteq Id
  /\ pending \subseteq Id

Init ==
  /\ adjacency \in [Node -> UNION {[1 .. k -> Id] : k \in 0 .. MaxDegree}]
  /\ phase = "search"
  /\ stack = <<>>
  /\ colour = [n \in Id |-> Unvisited]
  /\ parent = [n \in Id |-> Nobody]
  /\ cursor = Nobody
  /\ path = <<>>
  /\ seen = {}
  /\ pending = {}

\* adjacency.get(id) ?? []
Neighbours(n) == IF n \in Node THEN adjacency[n] ELSE <<>>

Edge(m, n) == \E k \in DOMAIN Neighbours(m) : Neighbours(m)[k] = n

----------------------------------------------------------------------------
(* findCycle *)

Top == stack[Len(stack)]
Below == SubSeq(stack, 1, Len(stack) - 1)

\* The next node of the graph that has no colour yet.
Start(n) ==
  /\ phase = "search"
  /\ stack = <<>>
  /\ colour[n] = Unvisited
  /\ stack' = <<[id |-> n, iter |-> 1]>>
  /\ colour' = [colour EXCEPT ![n] = InStack]
  /\ UNCHANGED <<adjacency, phase, parent, cursor, path, seen, pending>>

\* Mutant: a node that is left stays in the stack's colour.
LeaveInColour ==
  /\ phase = "search"
  /\ stack # <<>>
  /\ Top.iter > Len(Neighbours(Top.id))
  /\ stack' = Below
  /\ UNCHANGED <<adjacency, phase, colour, parent, cursor, path, seen, pending>>

\* All edges of the node on top were followed.
Leave ==
  /\ phase = "search"
  /\ stack # <<>>
  /\ Top.iter > Len(Neighbours(Top.id))
  /\ colour' = [colour EXCEPT ![Top.id] = Finished]
  /\ stack' = Below
  /\ UNCHANGED <<adjacency, phase, parent, cursor, path, seen, pending>>

\* The edge frame.iter++ of the node on top, to a node of the given colour.
Follow(next, c) ==
  /\ phase = "search"
  /\ stack # <<>>
  /\ Top.iter <= Len(Neighbours(Top.id))
  /\ next = Neighbours(Top.id)[Top.iter]
  /\ colour[next] = c

Advanced == Append(Below, [Top EXCEPT !.iter = @ + 1])

Skip(next) ==
  /\ Follow(next, Finished)
  /\ stack' = Advanced
  /\ UNCHANGED <<adjacency, phase, colour, parent, cursor, path, seen, pending>>

\* Mutant: the node gets the colour of one that is finished.
EnterFinished(next) ==
  /\ Follow(next, Unvisited)
  /\ stack' = Append(Advanced, [id |-> next, iter |-> 1])
  /\ colour' = [colour EXCEPT ![next] = Finished]
  /\ parent' = [parent EXCEPT ![next] = Top.id]
  /\ UNCHANGED <<adjacency, phase, cursor, path, seen, pending>>

Enter(next) ==
  /\ Follow(next, Unvisited)
  /\ stack' = Append(Advanced, [id |-> next, iter |-> 1])
  /\ colour' = [colour EXCEPT ![next] = InStack]
  /\ parent' = [parent EXCEPT ![next] = Top.id]
  /\ UNCHANGED <<adjacency, phase, cursor, path, seen, pending>>

\* An edge back to a node of the stack: the cycle is read off the parents.
CloseCycle(next) ==
  /\ Follow(next, InStack)
  /\ stack' = Advanced
  /\ path' = <<next>>
  /\ cursor' = Top.id
  /\ phase' = "trace"
  /\ UNCHANGED <<adjacency, colour, parent, seen, pending>>

\* while (cursor && cursor !== next)
TraceBack ==
  /\ phase = "trace"
  /\ cursor \notin {Nobody, path[Len(path)]}
  /\ path' = <<cursor>> \o path
  /\ cursor' = parent[cursor]
  /\ UNCHANGED <<adjacency, phase, stack, colour, parent, seen, pending>>

Reach == phase' = "reach" /\ seen' = {Trigger} /\ pending' = {Trigger}

TraceEnds ==
  /\ phase = "trace"
  /\ cursor \in {Nobody, path[Len(path)]}
  /\ path' = <<path[Len(path)]>> \o path
  /\ Reach
  /\ UNCHANGED <<adjacency, stack, colour, parent, cursor>>

\* return null
NoCycle ==
  /\ phase = "search"
  /\ stack = <<>>
  /\ \A n \in Node : colour[n] # Unvisited
  /\ Reach
  /\ UNCHANGED <<adjacency, stack, colour, parent, cursor, path>>

FindCycle ==
  \/ \E n \in Node : Start(n)
  \/ Leave
  \/ \E next \in Id : Skip(next) \/ Enter(next) \/ CloseCycle(next)
  \/ TraceBack \/ TraceEnds \/ NoCycle

----------------------------------------------------------------------------
(* reachableFrom *)

\* Mutant: a node is dropped with its edges.
VisitFirst(n) ==
  LET next == {m \in Id \ seen : Neighbours(n) # <<>> /\ Neighbours(n)[1] = m}
  IN  /\ phase = "reach"
      /\ n \in pending
      /\ seen' = seen \cup next
      /\ pending' = (pending \ {n}) \cup next
      /\ UNCHANGED <<adjacency, phase, stack, colour, parent, cursor, path>>

Visit(n) ==
  LET next == {m \in Id \ seen : Edge(n, m)}
  IN  /\ phase = "reach"
      /\ n \in pending
      /\ seen' = seen \cup next
      /\ pending' = (pending \ {n}) \cup next
      /\ UNCHANGED <<adjacency, phase, stack, colour, parent, cursor, path>>

ReachEnds ==
  /\ phase = "reach"
  /\ pending = {}
  /\ phase' = "done"
  /\ UNCHANGED <<adjacency, stack, colour, parent, cursor, path, seen, pending>>

Next == FindCycle \/ (\E n \in Id : Visit(n)) \/ ReachEnds

Spec == Init /\ [][Next]_vars

----------------------------------------------------------------------------
(* Properties *)

Searched == phase \in {"reach", "done"}

\* Without a cycle: every set of nodes has one that no edge leaves for the set.
Acyclic == \A S \in SUBSET Node : S # {} => \E m \in S : \A n \in S : ~Edge(m, n)

\* The path CYCLE_DETECTED names is a cycle of the graph, node by node ("cycles are
\* rejected with the offending path", workflow.test.mjs): a diamond is not one.
CycleIsReal ==
  Searched /\ path # <<>> =>
    /\ Len(path) >= 2
    /\ path[1] = path[Len(path)]
    /\ \A k \in 1 .. Len(path) - 1 : Edge(path[k], path[k + 1])

\* A graph in which findCycle finds none has none, wherever it starts, and also through
\* nodes the trigger does not reach: nothing that is accepted runs for ever.
NoCycleMissed == Searched /\ path = <<>> => Acyclic

\* The nodes not reported as UNREACHABLE_NODE are those every set holds that holds the
\* trigger and is closed under the edges.
Closed(S) == \A m \in S, n \in Id : Edge(m, n) => n \in S

ReachableIsExact ==
  phase = "done" =>
    /\ Trigger \in seen /\ Closed(seen)
    /\ \A S \in SUBSET Id : Trigger \in S /\ Closed(S) => seen \subseteq S

=============================================================================
