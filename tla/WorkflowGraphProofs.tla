------------------------ MODULE WorkflowGraphProofs ------------------------
(***************************************************************************)
(* What findCycle and reachableFrom return, for graphs of any size.        *)
(***************************************************************************)
EXTENDS WorkflowGraph, SequenceTheorems, TLAPS

----------------------------------------------------------------------------
(* The stack *)

LEMMA BelowFacts ==
  ASSUME stack \in Seq(Frame), stack # <<>>
  PROVE  /\ Len(stack) \in Nat \ {0}
         /\ Top \in Frame
         /\ Below \in Seq(Frame)
         /\ Len(Below) = Len(stack) - 1
         /\ \A i \in 1 .. Len(stack) - 1 : Below[i] = stack[i]
<1>1. Len(stack) \in Nat \ {0}
  BY EmptySeq, LenProperties
<1>2. Top \in Frame
  BY <1>1, ElementOfSeq DEF Top
<1> DEFINE n == Len(stack) - 1
<1>3. n \in Int /\ \A i \in 1 .. n : stack[i] \in Frame
  BY <1>1, ElementOfSeq
<1>4. /\ SubSeq(stack, 1, n) \in Seq(Frame)
      /\ Len(SubSeq(stack, 1, n)) = IF 1 <= n THEN n - 1 + 1 ELSE 0
      /\ \A i \in 1 .. n - 1 + 1 : SubSeq(stack, 1, n)[i] = stack[1 + i - 1]
  <2> HIDE DEF n
  <2> QED
    BY <1>3, SubSeqProperties
<1>5. /\ Below \in Seq(Frame)
      /\ Len(Below) = Len(stack) - 1
      /\ \A i \in 1 .. Len(stack) - 1 : Below[i] = stack[i]
  <2>1. \A i \in 1 .. n : 1 + i - 1 = i
    BY <1>3
  <2>2. n - 1 + 1 = n /\ (IF 1 <= n THEN n - 1 + 1 ELSE 0) = n
    <3>1. n \in Nat
      BY <1>1
    <3> HIDE DEF n
    <3> QED
      BY <3>1
  <2>3. \A i \in 1 .. n : SubSeq(stack, 1, n)[i] = stack[i]
    BY <1>4, <2>1, <2>2
  <2> QED
    BY <1>4, <2>2, <2>3 DEF Below
<1> QED
  BY <1>1, <1>2, <1>5

LEMMA AdvancedFacts ==
  ASSUME stack \in Seq(Frame), stack # <<>>
  PROVE  /\ Advanced \in Seq(Frame)
         /\ Len(Advanced) = Len(stack)
         /\ \A i \in 1 .. Len(stack) - 1 : Advanced[i] = stack[i]
         /\ Advanced[Len(stack)] = [id |-> Top.id, iter |-> Top.iter + 1]
<1> DEFINE f == [Top EXCEPT !.iter = @ + 1]
<1>1. /\ Len(stack) \in Nat \ {0} /\ Top \in Frame
      /\ Below \in Seq(Frame) /\ Len(Below) = Len(stack) - 1
      /\ \A i \in 1 .. Len(stack) - 1 : Below[i] = stack[i]
  BY BelowFacts
<1>2. f \in Frame /\ f = [id |-> Top.id, iter |-> Top.iter + 1]
  <2>1. PICK a \in Id, k \in Nat \ {0} : Top = [id |-> a, iter |-> k]
    BY <1>1 DEF Frame
  <2> QED
    BY <2>1 DEF Frame
<1> QED
  BY <1>1, <1>2, AppendProperties DEF Advanced

LEMMA PushFacts ==
  ASSUME stack \in Seq(Frame), stack # <<>>, NEW n \in Id
  PROVE  LET pushed == Append(Advanced, [id |-> n, iter |-> 1])
         IN  /\ pushed \in Seq(Frame)
             /\ Len(pushed) = Len(stack) + 1
             /\ \A i \in 1 .. Len(stack) - 1 : pushed[i] = stack[i]
             /\ pushed[Len(stack)] = [id |-> Top.id, iter |-> Top.iter + 1]
             /\ pushed[Len(stack) + 1] = [id |-> n, iter |-> 1]
<1>1. [id |-> n, iter |-> 1] \in Frame
  BY DEF Frame
<1>2. Len(stack) \in Nat \ {0}
  BY BelowFacts
<1> QED
  BY <1>1, <1>2, AdvancedFacts, AppendProperties

----------------------------------------------------------------------------
(* Type correctness *)

LEMMA NeighboursType ==
  ASSUME TypeOK, NEW n
  PROVE  Neighbours(n) \in Seq(Id)
  BY EmptySeq DEF Neighbours, TypeOK

LEMMA FollowFacts ==
  ASSUME TypeOK, NEW next, NEW c, Follow(next, c)
  PROVE  /\ Len(stack) \in Nat \ {0} /\ Top \in Frame /\ Top = stack[Len(stack)]
         /\ Top.id \in Id /\ Top.iter \in Nat \ {0}
         /\ Top.iter \in 1 .. Len(Neighbours(Top.id))
         /\ Top.iter \in DOMAIN Neighbours(Top.id)
         /\ next \in Id
         /\ Edge(Top.id, next)
<1>1. Len(stack) \in Nat \ {0} /\ Top \in Frame
  BY BelowFacts DEF Follow, TypeOK
<1>2. Neighbours(Top.id) \in Seq(Id)
  BY NeighboursType
<1>3. Top.iter \in 1 .. Len(Neighbours(Top.id))
  BY <1>1, <1>2 DEF Follow, Frame
<1>4. Top.iter \in DOMAIN Neighbours(Top.id)
  BY <1>2, <1>3, LenProperties
<1>5. next \in Id
  BY <1>2, <1>3, ElementOfSeq DEF Follow
<1> QED
  BY <1>1, <1>3, <1>4, <1>5 DEF Frame, Edge, Follow, Top

TypeInv == TypeOK /\ (phase = "trace" => path # <<>>)

LEMMA Prepend ==
  ASSUME NEW n \in Id, path \in Seq(Id)
  PROVE  /\ <<n>> \o path \in Seq(Id)
         /\ Len(<<n>> \o path) = Len(path) + 1
         /\ (<<n>> \o path)[1] = n
         /\ \A k \in 1 .. Len(path) : (<<n>> \o path)[k + 1] = path[k]
         /\ <<n>> \o path # <<>>
<1>1. <<n>> \in Seq(Id) /\ Len(<<n>>) = 1 /\ <<n>>[1] = n
  OBVIOUS
<1>2. Len(path) \in Nat
  BY LenProperties
<1>3. /\ <<n>> \o path \in Seq(Id)
      /\ Len(<<n>> \o path) = 1 + Len(path)
      /\ \A i \in 1 .. 1 + Len(path) :
           (<<n>> \o path)[i] = IF i <= 1 THEN <<n>>[i] ELSE path[i - 1]
  BY <1>1, ConcatProperties
<1>4. (<<n>> \o path)[1] = n
  BY <1>1, <1>2, <1>3
<1>5. ASSUME NEW k \in 1 .. Len(path) PROVE (<<n>> \o path)[k + 1] = path[k]
  <2>1. k + 1 \in 1 .. 1 + Len(path) /\ ~(k + 1 <= 1) /\ k + 1 - 1 = k
    BY <1>2
  <2> QED
    BY <1>3, <2>1
<1>6. <<n>> \o path # <<>>
  BY <1>2, <1>3, EmptySeq
<1> QED
  BY <1>2, <1>3, <1>4, <1>5, <1>6

LEMMA PathEnd ==
  ASSUME TypeOK, path # <<>>
  PROVE  Len(path) \in Nat \ {0} /\ path[Len(path)] \in Id
<1>1. path \in Seq(Id)
  BY DEF TypeOK
<1>2. Len(path) \in Nat \ {0}
  BY <1>1, EmptySeq
<1> QED
  BY <1>1, <1>2, ElementOfSeq

LEMMA TypeStep == TypeInv /\ [Next]_vars => TypeInv'
<1> SUFFICES ASSUME TypeInv, [Next]_vars PROVE TypeInv'
  OBVIOUS
<1> TypeOK
  BY DEF TypeInv
<1> USE GraphAssumption DEF TypeInv
<1>1. ASSUME NEW n \in Node, Start(n) PROVE TypeInv'
  <2>1. n \in Id /\ [id |-> n, iter |-> 1] \in Frame
    BY DEF Id, Frame
  <2> QED
    BY <1>1, <2>1 DEF Start, TypeOK
<1>2. ASSUME Leave PROVE TypeInv'
  <2>1. Top.id \in Id
    BY <1>2, BelowFacts DEF Leave, TypeOK, Frame
  <2> QED
    BY <1>2, <2>1, BelowFacts DEF Leave, TypeOK
<1>3. ASSUME NEW next \in Id, Skip(next) PROVE TypeInv'
  BY <1>3, AdvancedFacts DEF Skip, Follow, TypeOK
<1>4. ASSUME NEW next \in Id, Enter(next) PROVE TypeInv'
  <2>1. Top.id \in Id
    BY <1>4, FollowFacts DEF Enter
  <2> QED
    BY <1>4, <2>1, PushFacts DEF Enter, Follow, TypeOK
<1>5. ASSUME NEW next \in Id, CloseCycle(next) PROVE TypeInv'
  <2>1. <<next>> \in Seq(Id) /\ <<next>> # <<>>
    OBVIOUS
  <2>2. Top.id \in Id
    BY <1>5, FollowFacts DEF CloseCycle
  <2> QED
    BY <1>5, <2>1, <2>2, AdvancedFacts DEF CloseCycle, Follow, TypeOK, Phase
<1>6. ASSUME TraceBack PROVE TypeInv'
  <2>1. cursor \in Id
    BY <1>6 DEF TraceBack, TypeOK
  <2>2. <<cursor>> \o path \in Seq(Id) /\ <<cursor>> \o path # <<>>
    BY <2>1, Prepend DEF TypeOK
  <2> QED
    BY <1>6, <2>1, <2>2 DEF TraceBack, TypeOK
<1>7. ASSUME TraceEnds PROVE TypeInv'
  <2>1. path[Len(path)] \in Id
    BY <1>7, PathEnd DEF TraceEnds
  <2>2. <<path[Len(path)]>> \o path \in Seq(Id)
    BY <2>1, Prepend DEF TypeOK
  <2> QED
    BY <1>7, <2>2 DEF TraceEnds, Reach, TypeOK, Phase, Id
<1>8. ASSUME NoCycle PROVE TypeInv'
  BY <1>8 DEF NoCycle, Reach, TypeOK, Phase, Id
<1>9. ASSUME NEW n \in Id, Visit(n) PROVE TypeInv'
  BY <1>9 DEF Visit, TypeOK
<1>10. ASSUME ReachEnds PROVE TypeInv'
  BY <1>10 DEF ReachEnds, TypeOK, Phase
<1>11. ASSUME UNCHANGED vars PROVE TypeInv'
  BY <1>11 DEF vars, TypeOK
<1> QED
  BY <1>1, <1>2, <1>3, <1>4, <1>5, <1>6, <1>7, <1>8, <1>9, <1>10, <1>11 DEF Next, FindCycle

LEMMA InitType == Init => TypeInv
<1> SUFFICES ASSUME Init PROVE TypeInv
  OBVIOUS
<1>1. adjacency \in [Node -> Seq(Id)]
  <2>1. \A n \in Node : \E k \in 0 .. MaxDegree : adjacency[n] \in [1 .. k -> Id]
    BY DEF Init
  <2>2. \A k \in 0 .. MaxDegree : [1 .. k -> Id] \subseteq Seq(Id)
    BY GraphAssumption, IsASeq
  <2> QED
    BY <2>1, <2>2 DEF Init
<1> QED
  BY <1>1 DEF Init, TypeInv, TypeOK, Phase

\* Every reachable state of the two searches is well typed.
THEOREM TypeCorrect == Spec => []TypeOK
<1>1. TypeInv => TypeOK
  BY DEF TypeInv
<1> QED
  BY <1>1, InitType, TypeStep, PTL DEF Spec
----------------------------------------------------------------------------
(* findCycle: the inductive invariant *)

Depth == 1 .. Len(stack)

\* The stack is a path of the graph: the edge each node followed last leads to the next
\* one, and that is also what the parents say.
StackIsPath ==
  \A i \in 1 .. Len(stack) - 1 :
    /\ stack[i].iter > 1
    /\ stack[i].iter - 1 \in DOMAIN Neighbours(stack[i].id)
    /\ Neighbours(stack[i].id)[stack[i].iter - 1] = stack[i + 1].id
    /\ parent[stack[i + 1].id] = stack[i].id

\* The nodes of the stack are those of its colour, and none is on it twice.
StackIsColoured ==
  /\ \A i \in Depth : colour[stack[i].id] = InStack
  /\ \A n \in Id : colour[n] = InStack => \E i \in Depth : stack[i].id = n
  /\ \A i, j \in Depth : stack[i].id = stack[j].id => i = j

\* The edges followed lead to finished nodes, but for the one to the next of the stack.
FollowedAreFinished ==
  phase = "search" =>
    \A i \in Depth : \A k \in DOMAIN Neighbours(stack[i].id) :
      /\ k < stack[i].iter - 1 => colour[Neighbours(stack[i].id)[k]] = Finished
      /\ i = Len(stack) /\ k < stack[i].iter => colour[Neighbours(stack[i].id)[k]] = Finished

FinishedIsClosed ==
  \A m, n \in Id : colour[m] = Finished /\ Edge(m, n) => colour[n] = Finished

FinishedIsAcyclic ==
  \A S \in SUBSET {m \in Id : colour[m] = Finished} :
    S # {} => \E m \in S : \A n \in S : ~Edge(m, n)

\* The walk back along the parents goes down the stack, from the node on top to the
\* one the closing edge leads to, which is the end of the path.
TraceFollowsStack ==
  phase = "trace" =>
    /\ Edge(cursor, path[1])
    /\ \A k \in 1 .. Len(path) - 1 : Edge(path[k], path[k + 1])
    /\ \E i, j \in Depth : i <= j /\ stack[i].id = path[Len(path)] /\ stack[j].id = cursor

SearchInv ==
  /\ StackIsPath
  /\ StackIsColoured
  /\ FollowedAreFinished
  /\ FinishedIsClosed
  /\ FinishedIsAcyclic
  /\ TraceFollowsStack
  /\ phase = "search" => path = <<>>
  /\ CycleIsReal
  /\ NoCycleMissed

LEMMA InitSearch == Init => SearchInv
<1> SUFFICES ASSUME Init PROVE SearchInv
  OBVIOUS
<1>1. Len(stack) = 0 /\ Depth = {} /\ 1 .. Len(stack) - 1 = {}
  BY DEF Init, Depth
<1>2. \A n \in Id : colour[n] = Unvisited
  BY DEF Init
<1>3. {m \in Id : colour[m] = Finished} = {}
  BY <1>2 DEF Unvisited, Finished
<1> QED
  BY <1>1, <1>2, <1>3 DEF Init, SearchInv, StackIsPath, StackIsColoured, FollowedAreFinished,
     FinishedIsClosed, FinishedIsAcyclic, TraceFollowsStack, CycleIsReal, NoCycleMissed,
     Searched, Unvisited, InStack, Finished

\* Nothing but the colours and the edges enters what is said of the finished nodes.
LEMMA FinishedUnchanged ==
  ASSUME FinishedIsClosed, FinishedIsAcyclic, UNCHANGED adjacency,
         \A n \in Id : colour'[n] = Finished <=> colour[n] = Finished
  PROVE  FinishedIsClosed' /\ FinishedIsAcyclic'
<1>1. \A m, n : Edge(m, n)' <=> Edge(m, n)
  BY DEF Edge, Neighbours
<1>2. {m \in Id : colour'[m] = Finished} = {m \in Id : colour[m] = Finished}
  OBVIOUS
<1>3. FinishedIsClosed'
  BY <1>1 DEF FinishedIsClosed
<1>4. FinishedIsAcyclic'
  BY <1>1, <1>2, Zenon DEF FinishedIsAcyclic
<1> QED
  BY <1>3, <1>4

\* The stack gets its first node.
LEMMA StartSearch ==
  ASSUME TypeInv, SearchInv, NEW n \in Node, Start(n)
  PROVE  SearchInv'
<1> USE DEF TypeInv
<1>1. n \in Id
  BY DEF Id
<1>2. /\ Len(stack') = 1 /\ stack'[1] = [id |-> n, iter |-> 1]
      /\ Depth' = {1} /\ (1 .. Len(stack) - 1)' = {}
  BY DEF Start, Depth
<1>3. Depth = {}
  BY DEF Start, Depth
<1>4. colour' = [colour EXCEPT ![n] = InStack] /\ colour \in [Id -> {Unvisited, InStack, Finished}]
  BY DEF Start, TypeOK
<1>5. \A m \in Id : colour'[m] = Finished <=> colour[m] = Finished
  BY <1>1, <1>4 DEF Start, Unvisited, InStack, Finished
<1>6. FinishedIsClosed' /\ FinishedIsAcyclic'
  BY <1>5, FinishedUnchanged DEF Start, SearchInv
<1>7. StackIsColoured'
  BY <1>1, <1>2, <1>3, <1>4 DEF StackIsColoured, SearchInv
<1>8. StackIsPath'
  BY <1>2 DEF StackIsPath
<1>9. FollowedAreFinished'
  <2>1. Neighbours(n) \in Seq(Id) /\ Neighbours(n)' = Neighbours(n)
    BY NeighboursType DEF Start, Neighbours
  <2>2. DOMAIN Neighbours(n)' \subseteq Nat \ {0}
    BY <2>1, LenProperties
  <2> QED
    BY <1>2, <2>2 DEF FollowedAreFinished
<1> QED
  BY <1>6, <1>7, <1>8, <1>9 DEF Start, SearchInv, TraceFollowsStack, CycleIsReal, NoCycleMissed, Searched

\* The node on top is finished and leaves the stack.
LEMMA LeaveSearch ==
  ASSUME TypeInv, SearchInv, Leave
  PROVE  SearchInv'
<1> USE DEF TypeInv
<1> DEFINE t == Top.id
           d == Len(stack)
<1>1. /\ d \in Nat \ {0} /\ Top \in Frame /\ Top = stack[d] /\ t \in Id
      /\ Len(stack') = d - 1
      /\ \A i \in 1 .. d - 1 : stack'[i] = stack[i]
  BY BelowFacts DEF Leave, TypeOK, Frame, Top
<1>2. /\ colour \in [Id -> {Unvisited, InStack, Finished}]
      /\ colour' = [colour EXCEPT ![t] = Finished]
  BY DEF Leave, TypeOK
<1>3. Depth = 1 .. d /\ Depth' = 1 .. d - 1 /\ d \in Depth
  BY <1>1 DEF Depth
<1>4. \A m : Neighbours(m)' = Neighbours(m)
  BY DEF Leave, Neighbours
<1>5. \A m, n : Edge(m, n)' <=> Edge(m, n)
  BY <1>4 DEF Edge
<1>6. \A i \in 1 .. d - 1 : stack[i].id # t
  BY <1>1, <1>3 DEF SearchInv, StackIsColoured
<1>7. StackIsPath'
  <2> SUFFICES ASSUME NEW i \in 1 .. d - 1 - 1
               PROVE  /\ stack[i].iter > 1
                      /\ stack[i].iter - 1 \in DOMAIN Neighbours(stack[i].id)
                      /\ Neighbours(stack[i].id)[stack[i].iter - 1] = stack[i + 1].id
                      /\ parent[stack[i + 1].id] = stack[i].id
    <3>1. \A i \in 1 .. d - 1 - 1 : stack'[i] = stack[i] /\ stack'[i + 1] = stack[i + 1]
      BY <1>1
    <3>2. parent' = parent /\ Len(stack') = d - 1
      BY <1>1 DEF Leave
    <3> HIDE DEF d
    <3> QED
      BY <1>4, <3>1, <3>2 DEF StackIsPath
  <2>1. i \in 1 .. d - 1
    BY <1>1
  <2> QED
    BY <2>1 DEF SearchInv, StackIsPath
<1>8. StackIsColoured'
  <2>1. \A i \in 1 .. d - 1 : colour'[stack'[i].id] = InStack
    BY <1>1, <1>2, <1>3, <1>6 DEF SearchInv, StackIsColoured
  <2>2. ASSUME NEW n \in Id, colour'[n] = InStack PROVE \E i \in 1 .. d - 1 : stack'[i].id = n
    <3>1. n # t /\ colour[n] = InStack
      BY <1>2, <2>2 DEF InStack, Finished
    <3>2. PICK i \in 1 .. d : stack[i].id = n
      BY <1>3, <3>1 DEF SearchInv, StackIsColoured
    <3>3. i \in 1 .. d - 1
      BY <1>1, <3>1, <3>2
    <3> QED
      BY <1>1, <3>2, <3>3
  <2>3. \A i, j \in 1 .. d - 1 : stack'[i].id = stack'[j].id => i = j
    BY <1>1, <1>3 DEF SearchInv, StackIsColoured
  <2> QED
    BY <1>3, <2>1, <2>2, <2>3 DEF StackIsColoured
<1>9. \A n \in Id : Edge(t, n) => colour[n] = Finished
  <2> SUFFICES ASSUME NEW n \in Id, Edge(t, n) PROVE colour[n] = Finished
    OBVIOUS
  <2>1. PICK k \in DOMAIN Neighbours(t) : Neighbours(t)[k] = n
    BY DEF Edge
  <2>2. Neighbours(t) \in Seq(Id) /\ DOMAIN Neighbours(t) = 1 .. Len(Neighbours(t))
    BY NeighboursType, LenProperties
  <2>3. k < Top.iter
    BY <1>1, <2>1, <2>2, LenProperties DEF Leave, Frame
  <2> QED
    BY <1>1, <1>3, <2>1, <2>3 DEF SearchInv, FollowedAreFinished, Leave
<1>10. FinishedIsClosed'
  BY <1>1, <1>2, <1>5, <1>9 DEF SearchInv, FinishedIsClosed
<1>11. FinishedIsAcyclic'
  <2> SUFFICES ASSUME NEW S \in SUBSET {m \in Id : colour'[m] = Finished}, S # {}
               PROVE  \E m \in S : \A n \in S : ~Edge(m, n)
    BY <1>5 DEF FinishedIsAcyclic
  <2>1. colour[t] # Finished
    BY <1>1, <1>3 DEF SearchInv, StackIsColoured, InStack, Finished
  <2>2. S \ {t} \in SUBSET {m \in Id : colour[m] = Finished}
    BY <1>2
  <2>3. CASE S \ {t} = {}
    <3>1. S = {t}
      BY <2>3
    <3> QED
      BY <1>1, <1>9, <2>1, <3>1
  <2>4. CASE S \ {t} # {}
    <3>1. PICK m \in S \ {t} : \A n \in S \ {t} : ~Edge(m, n)
      BY <2>2, <2>4 DEF SearchInv, FinishedIsAcyclic
    <3>2. ~Edge(m, t)
      BY <1>1, <2>1, <2>2, <3>1 DEF SearchInv, FinishedIsClosed
    <3> QED
      BY <3>1, <3>2
  <2> QED
    BY <2>3, <2>4
<1>12. FollowedAreFinished'
  <2>1. ASSUME NEW i \in 1 .. d - 1, NEW k \in DOMAIN Neighbours(stack[i].id),
               colour[Neighbours(stack[i].id)[k]] = Finished
        PROVE  colour'[Neighbours(stack[i].id)[k]] = Finished
    <3>1. Neighbours(stack[i].id) \in Seq(Id)
      BY NeighboursType
    <3>2. Neighbours(stack[i].id)[k] \in Id
      BY <3>1, LenProperties, ElementOfSeq
    <3> QED
      BY <1>2, <2>1, <3>2
  <2>2. ASSUME NEW i \in 1 .. d - 1, NEW k \in DOMAIN Neighbours(stack[i].id),
               k < stack[i].iter - 1
        PROVE  colour'[Neighbours(stack[i].id)[k]] = Finished
    BY <1>1, <1>3, <2>1, <2>2 DEF SearchInv, FollowedAreFinished, Leave
  <2>3. ASSUME NEW k \in DOMAIN Neighbours(stack[d - 1].id), d - 1 \in 1 .. d - 1,
               k < stack[d - 1].iter
        PROVE  colour'[Neighbours(stack[d - 1].id)[k]] = Finished
    <3>1. stack[d - 1] \in Frame /\ stack[d - 1].iter \in Nat \ {0}
      <4>1. d - 1 \in 1 .. Len(stack) /\ stack \in Seq(Frame)
        BY <1>1, <2>3 DEF TypeOK
      <4>2. stack[d - 1] \in Frame
        BY <4>1, ElementOfSeq
      <4> HIDE DEF d
      <4> QED
        BY <4>2 DEF Frame
    <3>2. Neighbours(stack[d - 1].id) \in Seq(Id)
      BY NeighboursType
    <3>3. k \in Nat
      BY <3>2, LenProperties
    <3>4. CASE k < stack[d - 1].iter - 1
      BY <2>2, <2>3, <3>4
    <3>5. CASE k = stack[d - 1].iter - 1
      <4>1. Neighbours(stack[d - 1].id)[stack[d - 1].iter - 1] = stack[d - 1 + 1].id
        BY <2>3 DEF SearchInv, StackIsPath
      <4>2. d - 1 + 1 = d
        BY <1>1
      <4>3. Neighbours(stack[d - 1].id)[k] = t
        BY <1>1, <3>5, <4>1, <4>2
      <4> QED
        BY <1>1, <1>2, <4>3
    <3> QED
      BY <2>3, <3>1, <3>3, <3>4, <3>5
  <2>4. \A i \in 1 .. d - 1 : i = Len(stack') <=> i = d - 1
    BY <1>1
  <2>5. phase = "search"
    BY DEF Leave
  <2> HIDE DEF d
  <2> QED
    BY <1>1, <1>3, <1>4, <2>2, <2>3, <2>4 DEF FollowedAreFinished
<1> QED
  BY <1>7, <1>8, <1>10, <1>11, <1>12
    DEF Leave, SearchInv, TraceFollowsStack, CycleIsReal, NoCycleMissed, Searched

\* Following an edge without entering its end leaves the stack's nodes as they are.
LEMMA AdvancedStack ==
  ASSUME TypeInv, SearchInv, NEW next, NEW c, Follow(next, c),
         stack' = Advanced, UNCHANGED <<adjacency, colour, parent>>
  PROVE  StackIsPath' /\ StackIsColoured' /\ FinishedIsClosed' /\ FinishedIsAcyclic'
<1> USE DEF TypeInv
<1> DEFINE d == Len(stack)
<1>1. /\ d \in Nat \ {0} /\ Top = stack[d] /\ Len(stack') = d
      /\ \A i \in 1 .. d - 1 : stack'[i] = stack[i]
      /\ stack'[d].id = stack[d].id
  BY FollowFacts, AdvancedFacts DEF Follow, TypeOK
<1>2. \A i \in 1 .. d : stack'[i].id = stack[i].id
  BY <1>1
<1>3. \A m : Neighbours(m)' = Neighbours(m)
  BY DEF Neighbours
<1>4. FinishedIsClosed' /\ FinishedIsAcyclic'
  BY FinishedUnchanged DEF SearchInv
<1>5. Depth' = Depth /\ Depth = 1 .. d
  BY <1>1 DEF Depth
<1>6. StackIsColoured'
  BY <1>2, <1>5 DEF SearchInv, StackIsColoured
<1>7. StackIsPath'
  <2> SUFFICES ASSUME NEW i \in 1 .. d - 1
               PROVE  /\ stack[i].iter > 1
                      /\ stack[i].iter - 1 \in DOMAIN Neighbours(stack[i].id)
                      /\ Neighbours(stack[i].id)[stack[i].iter - 1] = stack[i + 1].id
                      /\ parent[stack[i + 1].id] = stack[i].id
    <3>1. \A i \in 1 .. d - 1 : stack'[i] = stack[i] /\ stack'[i + 1].id = stack[i + 1].id
      <4>1. \A i \in 1 .. d - 1 : i + 1 \in 1 .. d
        BY <1>1
      <4> QED
        BY <1>1, <1>2, <4>1
    <3>2. parent' = parent /\ Len(stack') = d
      BY <1>1
    <3> HIDE DEF d
    <3> QED
      BY <1>3, <3>1, <3>2 DEF StackIsPath
  <2> QED
    BY DEF SearchInv, StackIsPath
<1> QED
  BY <1>4, <1>6, <1>7

\* An edge to a finished node.
LEMMA SkipSearch ==
  ASSUME TypeInv, SearchInv, NEW next \in Id, Skip(next)
  PROVE  SearchInv'
<1> USE DEF TypeInv
<1> DEFINE d == Len(stack)
<1>1. Follow(next, Finished)
  BY DEF Skip
<1>2. StackIsPath' /\ StackIsColoured' /\ FinishedIsClosed' /\ FinishedIsAcyclic'
  BY <1>1, AdvancedStack DEF Skip
<1>3. /\ d \in Nat \ {0} /\ Top = stack[d] /\ Len(stack') = d
      /\ \A i \in 1 .. d - 1 : stack'[i] = stack[i]
      /\ stack'[d] = [id |-> stack[d].id, iter |-> stack[d].iter + 1]
      /\ stack[d].iter \in Nat \ {0}
      /\ next = Neighbours(stack[d].id)[stack[d].iter]
  BY <1>1, FollowFacts, AdvancedFacts DEF Skip, Follow, TypeOK
<1>4. \A m : Neighbours(m)' = Neighbours(m)
  BY DEF Skip, Neighbours
<1>5. Depth' = Depth /\ Depth = 1 .. d /\ d \in Depth
  BY <1>3 DEF Depth
<1>6. FollowedAreFinished'
  <2>1. ASSUME NEW k \in DOMAIN Neighbours(stack[d].id), k < stack[d].iter + 1
        PROVE  colour[Neighbours(stack[d].id)[k]] = Finished
    <3>1. k \in Nat
      BY NeighboursType, LenProperties
    <3>2. CASE k < stack[d].iter
      BY <1>1, <1>5, <3>2 DEF Follow, SearchInv, FollowedAreFinished
    <3>3. CASE k = stack[d].iter
      BY <1>1, <1>3, <3>3 DEF Follow
    <3> QED
      BY <1>3, <2>1, <3>1, <3>2, <3>3
  <2>2. ASSUME NEW i \in 1 .. d - 1, NEW k \in DOMAIN Neighbours(stack[i].id),
               k < stack[i].iter - 1
        PROVE  colour[Neighbours(stack[i].id)[k]] = Finished
    <3>1. i \in Depth
      BY <1>3, <1>5
    <3> QED
      BY <1>1, <2>2, <3>1 DEF Follow, SearchInv, FollowedAreFinished
  <2>3. ASSUME NEW k \in DOMAIN Neighbours(stack[d].id), k < stack[d].iter + 1 - 1
        PROVE  k < stack[d].iter + 1
    <3>1. k \in Nat
      BY NeighboursType, LenProperties
    <3> QED
      BY <1>3, <2>3, <3>1
  <2>4. \A i \in Depth : i \in 1 .. d - 1 \/ i = d
    BY <1>3, <1>5
  <2>5. \A i \in 1 .. d - 1 : i # d
    BY <1>3
  <2>6. colour' = colour
    BY DEF Skip
  <2> HIDE DEF d
  <2> QED
    BY <1>3, <1>4, <1>5, <2>1, <2>2, <2>3, <2>4, <2>5, <2>6 DEF FollowedAreFinished
<1> QED
  BY <1>1, <1>2, <1>6
    DEF Follow, Skip, SearchInv, TraceFollowsStack, CycleIsReal, NoCycleMissed, Searched

\* An edge to a node that is new: it goes on the stack.
LEMMA EnterSearch ==
  ASSUME TypeInv, SearchInv, NEW next \in Id, Enter(next)
  PROVE  SearchInv'
<1> USE DEF TypeInv
<1> DEFINE d == Len(stack)
<1>1. Follow(next, Unvisited)
  BY DEF Enter
<1>2. /\ d \in Nat \ {0} /\ Top = stack[d] /\ Len(stack') = d + 1
      /\ \A i \in 1 .. d - 1 : stack'[i] = stack[i]
      /\ stack'[d] = [id |-> stack[d].id, iter |-> stack[d].iter + 1]
      /\ stack'[d + 1] = [id |-> next, iter |-> 1]
      /\ stack[d].iter \in Nat \ {0}
      /\ stack[d].iter \in DOMAIN Neighbours(stack[d].id)
      /\ next = Neighbours(stack[d].id)[stack[d].iter]
  BY <1>1, FollowFacts, PushFacts DEF Enter, Follow, TypeOK
<1>3. /\ colour \in [Id -> {Unvisited, InStack, Finished}] /\ colour[next] = Unvisited
      /\ colour' = [colour EXCEPT ![next] = InStack]
      /\ parent \in [Id -> Id \cup {Nobody}]
      /\ parent' = [parent EXCEPT ![next] = stack[d].id]
  BY <1>1, <1>2 DEF Enter, Follow, TypeOK
<1>4. \A m : Neighbours(m)' = Neighbours(m)
  BY DEF Enter, Neighbours
<1>5. Depth' = 1 .. d + 1 /\ Depth = 1 .. d /\ d \in Depth
  BY <1>2 DEF Depth
<1>6. \A m \in Id : colour'[m] = Finished <=> colour[m] = Finished
  BY <1>3 DEF Unvisited, InStack, Finished
<1>7. FinishedIsClosed' /\ FinishedIsAcyclic'
  BY <1>6, FinishedUnchanged DEF Enter, SearchInv
<1>8. \A i \in 1 .. d : stack'[i].id = stack[i].id /\ stack[i].id \in Id /\ stack[i].id # next
  <2>1. \A i \in 1 .. d : stack[i] \in Frame
    BY ElementOfSeq DEF TypeOK
  <2>2. \A i \in 1 .. d : stack[i].id \in Id
    BY <2>1 DEF Frame
  <2>3. \A i \in 1 .. d : stack[i].id # next
    BY <1>3, <1>5 DEF SearchInv, StackIsColoured, Unvisited, InStack
  <2> QED
    BY <1>2, <2>2, <2>3
<1>9. StackIsColoured'
  <2>1. \A i \in 1 .. d + 1 : i \in 1 .. d \/ i = d + 1
    BY <1>2
  <2>2. \A i \in 1 .. d + 1 : colour'[stack'[i].id] = InStack
    BY <1>2, <1>3, <1>5, <1>8, <2>1 DEF SearchInv, StackIsColoured
  <2>3. ASSUME NEW n \in Id, colour'[n] = InStack PROVE \E i \in 1 .. d + 1 : stack'[i].id = n
    <3>1. CASE n = next
      BY <1>2, <3>1
    <3>2. CASE n # next
      <4>1. PICK i \in 1 .. d : stack[i].id = n
        BY <1>3, <1>5, <2>3, <3>2 DEF SearchInv, StackIsColoured
      <4>2. i \in 1 .. d + 1
        BY <1>2
      <4> QED
        BY <1>8, <4>1, <4>2
    <3> QED
      BY <3>1, <3>2
  <2>4. \A i, j \in 1 .. d + 1 : stack'[i].id = stack'[j].id => i = j
    BY <1>2, <1>5, <1>8, <2>1 DEF SearchInv, StackIsColoured
  <2> QED
    BY <1>5, <2>2, <2>3, <2>4 DEF StackIsColoured
<1>10. StackIsPath'
  <2>1. ASSUME NEW i \in 1 .. d - 1
        PROVE  /\ stack'[i].iter > 1
               /\ stack'[i].iter - 1 \in DOMAIN Neighbours(stack'[i].id)
               /\ Neighbours(stack'[i].id)[stack'[i].iter - 1] = stack'[i + 1].id
               /\ parent'[stack'[i + 1].id] = stack'[i].id
    <3>1. i + 1 \in 1 .. d
      BY <1>2
    <3>2. stack'[i] = stack[i] /\ stack'[i + 1].id = stack[i + 1].id
      BY <1>2, <1>8, <3>1
    <3>3. parent'[stack[i + 1].id] = parent[stack[i + 1].id]
      BY <1>3, <1>8, <3>1
    <3> QED
      BY <3>2, <3>3 DEF SearchInv, StackIsPath
  <2>2. /\ stack'[d].iter > 1
        /\ stack'[d].iter - 1 \in DOMAIN Neighbours(stack'[d].id)
        /\ Neighbours(stack'[d].id)[stack'[d].iter - 1] = stack'[d + 1].id
        /\ parent'[stack'[d + 1].id] = stack'[d].id
    <3>1. stack'[d].iter - 1 = stack[d].iter /\ stack'[d].iter > 1
      BY <1>2
    <3> QED
      BY <1>2, <1>3, <3>1
  <2>3. \A i \in 1 .. d + 1 - 1 : i \in 1 .. d - 1 \/ i = d
    BY <1>2
  <2> HIDE DEF d
  <2> QED
    BY <1>2, <1>4, <2>1, <2>2, <2>3 DEF StackIsPath
<1>11. FollowedAreFinished'
  <2>1. ASSUME NEW i \in 1 .. d, NEW k \in DOMAIN Neighbours(stack[i].id),
               k < stack'[i].iter - 1
        PROVE  colour'[Neighbours(stack[i].id)[k]] = Finished
    <3>1. Neighbours(stack[i].id)[k] \in Id
      BY NeighboursType, LenProperties, ElementOfSeq
    <3>2. colour[Neighbours(stack[i].id)[k]] = Finished
      <4>1. CASE i = d
        <5>1. k < stack[d].iter
          BY <1>2, <2>1, <4>1
        <5> QED
          BY <1>1, <1>5, <4>1, <5>1 DEF SearchInv, FollowedAreFinished, Follow
      <4>2. CASE i # d
        <5>1. i \in 1 .. d - 1
          BY <1>2, <4>2
        <5> QED
          BY <1>1, <1>2, <1>5, <2>1, <5>1 DEF SearchInv, FollowedAreFinished, Follow
      <4> QED
        BY <4>1, <4>2
    <3> QED
      BY <1>6, <3>1, <3>2
  <2>2. ASSUME NEW k \in DOMAIN Neighbours(next) PROVE ~(k < 1) /\ ~(k < 1 - 1)
    <3>1. k \in Nat \ {0}
      BY NeighboursType, LenProperties
    <3> QED
      BY <3>1
  <2>3. \A i \in 1 .. d + 1 : i \in 1 .. d \/ i = d + 1
    BY <1>2
  <2>4. \A i \in 1 .. d : i # d + 1
    BY <1>2
  <2> HIDE DEF d
  <2> QED
    BY <1>2, <1>4, <1>5, <1>8, <2>1, <2>2, <2>3, <2>4 DEF FollowedAreFinished
<1> QED
  BY <1>1, <1>7, <1>9, <1>10, <1>11
    DEF Follow, Enter, SearchInv, TraceFollowsStack, CycleIsReal, NoCycleMissed, Searched

\* An edge back into the stack: the walk starts at its beginning.
LEMMA CloseCycleSearch ==
  ASSUME TypeInv, SearchInv, NEW next \in Id, CloseCycle(next)
  PROVE  SearchInv'
<1> USE DEF TypeInv
<1>1. Follow(next, InStack)
  BY DEF CloseCycle
<1>2. StackIsPath' /\ StackIsColoured' /\ FinishedIsClosed' /\ FinishedIsAcyclic'
  BY <1>1, AdvancedStack DEF CloseCycle
<1>3. FollowedAreFinished'
  BY DEF CloseCycle, FollowedAreFinished
<1>4. TraceFollowsStack'
  <2> DEFINE d == Len(stack)
  <2>1. /\ d \in Nat \ {0} /\ Top = stack[d] /\ Len(stack') = d
        /\ \A i \in 1 .. d - 1 : stack'[i] = stack[i]
        /\ stack'[d].id = Top.id
        /\ Edge(Top.id, next)
    BY <1>1, FollowFacts, AdvancedFacts DEF CloseCycle, Follow, TypeOK
  <2>2. Edge(Top.id, next)'
    BY <2>1 DEF CloseCycle, Edge, Neighbours, Top
  <2>3. path' = <<next>> /\ cursor' = Top.id
    BY DEF CloseCycle
  <2>4. Len(path') = 1 /\ path'[1] = next /\ (1 .. Len(path) - 1)' = {}
    BY <2>3
  <2>5. PICK i \in 1 .. d : stack[i].id = next
    BY <1>1 DEF SearchInv, StackIsColoured, Depth, Follow
  <2>6. stack'[i].id = next /\ i <= d /\ d \in 1 .. d
    BY <2>1, <2>5
  <2>7. Edge(cursor, path[1])'
    BY <2>1, <2>3, <2>4 DEF CloseCycle, Edge, Neighbours
  <2>8. \E ii, j \in Depth' : ii <= j /\ stack'[ii].id = path'[Len(path')] /\ stack'[j].id = cursor'
    BY <2>1, <2>3, <2>4, <2>5, <2>6 DEF Depth
  <2> QED
    BY <2>4, <2>7, <2>8 DEF TraceFollowsStack
<1> QED
  BY <1>1, <1>2, <1>3, <1>4
    DEF Follow, CloseCycle, SearchInv, CycleIsReal, NoCycleMissed, Searched

\* The walk back goes one node down the stack.
LEMMA TraceBackSearch ==
  ASSUME TypeInv, SearchInv, TraceBack
  PROVE  SearchInv'
<1> USE DEF TypeInv
<1>1. UNCHANGED <<adjacency, stack, colour, parent, phase>> /\ phase = "trace"
  BY DEF TraceBack
<1>2. \A m, n : Edge(m, n)' <=> Edge(m, n)
  BY <1>1 DEF Edge, Neighbours
<1>3. FinishedIsClosed' /\ FinishedIsAcyclic'
  BY <1>1, FinishedUnchanged DEF SearchInv
<1>4. StackIsPath' /\ StackIsColoured' /\ FollowedAreFinished'
  BY <1>1 DEF SearchInv, StackIsPath, StackIsColoured, FollowedAreFinished, Neighbours, Depth
<1>5. path \in Seq(Id) /\ Len(path) \in Nat \ {0} /\ cursor \in Id
  BY <1>1, PathEnd DEF TraceBack, TypeOK
<1>6. /\ Len(path') = Len(path) + 1 /\ path'[1] = cursor
      /\ \A k \in 1 .. Len(path) : path'[k + 1] = path[k]
  BY <1>5, Prepend DEF TraceBack
<1>7. TraceFollowsStack'
  <2>1. PICK i, j \in Depth : i <= j /\ stack[i].id = path[Len(path)] /\ stack[j].id = cursor
    BY <1>1 DEF SearchInv, TraceFollowsStack
  <2>2. i # j
    BY <2>1 DEF TraceBack
  <2>3. /\ i <= j - 1 /\ j - 1 \in Depth /\ j - 1 \in 1 .. Len(stack) - 1 /\ j - 1 + 1 = j
    <3>1. Len(stack) \in Nat
      BY LenProperties DEF TypeOK
    <3> QED
      BY <2>1, <2>2, <3>1 DEF Depth
  <2>4. stack[j - 1] \in Frame /\ stack[j - 1].id \in Id
    <3>1. stack[j - 1] \in Frame
      BY <2>3, ElementOfSeq DEF TypeOK, Depth
    <3> QED
      BY <3>1 DEF Frame
  <2>5. Edge(stack[j - 1].id, cursor) /\ parent[cursor] = stack[j - 1].id
    <3>1. /\ stack[j - 1].iter - 1 \in DOMAIN Neighbours(stack[j - 1].id)
          /\ Neighbours(stack[j - 1].id)[stack[j - 1].iter - 1] = stack[j - 1 + 1].id
          /\ parent[stack[j - 1 + 1].id] = stack[j - 1].id
      BY <2>3 DEF SearchInv, StackIsPath
    <3> QED
      BY <2>1, <2>3, <3>1 DEF Edge
  <2>6. cursor' = stack[j - 1].id
    BY <2>5 DEF TraceBack
  <2>7. Edge(cursor', path'[1])
    BY <1>6, <2>5, <2>6
  <2>8. \A k \in 1 .. Len(path') - 1 : Edge(path'[k], path'[k + 1])
    <3> SUFFICES ASSUME NEW k \in 1 .. Len(path) PROVE Edge(path'[k], path'[k + 1])
      BY <1>5, <1>6
    <3>1. path'[k + 1] = path[k]
      BY <1>6
    <3>2. CASE k = 1
      BY <1>1, <1>6, <3>1, <3>2 DEF SearchInv, TraceFollowsStack
    <3>3. CASE k # 1
      <4>1. k - 1 \in 1 .. Len(path) - 1 /\ k - 1 \in 1 .. Len(path) /\ k - 1 + 1 = k
        BY <1>5, <3>3
      <4>2. path'[k] = path[k - 1]
        BY <1>6, <4>1
      <4>3. Edge(path[k - 1], path[k - 1 + 1])
        BY <1>1, <4>1 DEF SearchInv, TraceFollowsStack
      <4> QED
        BY <3>1, <4>1, <4>2, <4>3
    <3> QED
      BY <3>2, <3>3
  <2>9. path'[Len(path')] = path[Len(path)]
    BY <1>5, <1>6
  <2>10. \E ii, jj \in Depth : ii <= jj /\ stack[ii].id = path'[Len(path')] /\ stack[jj].id = cursor'
    BY <2>1, <2>3, <2>6, <2>9
  <2>11. Depth' = Depth /\ stack' = stack
    BY <1>1 DEF Depth
  <2> QED
    BY <1>2, <2>7, <2>8, <2>10, <2>11 DEF TraceFollowsStack
<1> QED
  BY <1>1, <1>3, <1>4, <1>7 DEF SearchInv, CycleIsReal, NoCycleMissed, Searched

\* The walk is back where it began: the path is closed.
LEMMA TraceEndsSearch ==
  ASSUME TypeInv, SearchInv, TraceEnds
  PROVE  SearchInv'
<1> USE DEF TypeInv
<1>1. UNCHANGED <<adjacency, stack, colour, parent>> /\ phase = "trace" /\ phase' = "reach"
  BY DEF TraceEnds, Reach
<1>2. \A m, n : Edge(m, n)' <=> Edge(m, n)
  BY <1>1 DEF Edge, Neighbours
<1>3. FinishedIsClosed' /\ FinishedIsAcyclic'
  BY <1>1, FinishedUnchanged DEF SearchInv
<1>4. StackIsPath' /\ StackIsColoured' /\ FollowedAreFinished'
  BY <1>1 DEF SearchInv, StackIsPath, StackIsColoured, FollowedAreFinished, Neighbours, Depth
<1>5. path \in Seq(Id) /\ Len(path) \in Nat \ {0} /\ path[Len(path)] \in Id
  BY <1>1, PathEnd DEF TypeOK
<1>6. cursor = path[Len(path)]
  <2>1. PICK i, j \in Depth : i <= j /\ stack[i].id = path[Len(path)] /\ stack[j].id = cursor
    BY <1>1 DEF SearchInv, TraceFollowsStack
  <2>2. stack[j] \in Frame
    BY ElementOfSeq DEF TypeOK, Depth
  <2>3. cursor \in Id
    BY <2>1, <2>2 DEF Frame
  <2> QED
    BY <2>3, GraphAssumption DEF TraceEnds
<1>7. /\ Len(path') = Len(path) + 1 /\ path'[1] = path[Len(path)]
      /\ \A k \in 1 .. Len(path) : path'[k + 1] = path[k]
      /\ path' # <<>>
  BY <1>5, Prepend DEF TraceEnds
<1>8. CycleIsReal'
  <2>1. path'[Len(path')] = path[Len(path)] /\ Len(path') >= 2
    BY <1>5, <1>7
  <2>2. \A k \in 1 .. Len(path') - 1 : Edge(path'[k], path'[k + 1])
    <3> SUFFICES ASSUME NEW k \in 1 .. Len(path) PROVE Edge(path'[k], path'[k + 1])
      BY <1>5, <1>7
    <3>1. path'[k + 1] = path[k]
      BY <1>7
    <3>2. CASE k = 1
      BY <1>1, <1>6, <1>7, <3>1, <3>2 DEF SearchInv, TraceFollowsStack
    <3>3. CASE k # 1
      <4>1. k - 1 \in 1 .. Len(path) - 1 /\ k - 1 \in 1 .. Len(path) /\ k - 1 + 1 = k
        BY <1>5, <3>3
      <4>2. path'[k] = path[k - 1]
        BY <1>7, <4>1
      <4>3. Edge(path[k - 1], path[k - 1 + 1])
        BY <1>1, <4>1 DEF SearchInv, TraceFollowsStack
      <4> QED
        BY <3>1, <4>1, <4>2, <4>3
    <3> QED
      BY <3>2, <3>3
  <2> QED
    BY <1>2, <1>7, <2>1, <2>2 DEF CycleIsReal
<1>9. NoCycleMissed'
  BY <1>7 DEF NoCycleMissed
<1> QED
  BY <1>1, <1>3, <1>4, <1>8, <1>9 DEF SearchInv, TraceFollowsStack

\* No node is left without a colour, and none is on the stack: all are finished.
LEMMA NoCycleSearch ==
  ASSUME TypeInv, SearchInv, NoCycle
  PROVE  SearchInv'
<1> USE DEF TypeInv
<1>1. UNCHANGED <<adjacency, stack, colour, parent, path>> /\ phase = "search" /\ phase' = "reach"
  BY DEF NoCycle, Reach
<1>2. \A m, n : Edge(m, n)' <=> Edge(m, n)
  BY <1>1 DEF Edge, Neighbours
<1>3. FinishedIsClosed' /\ FinishedIsAcyclic'
  BY <1>1, FinishedUnchanged DEF SearchInv
<1>4. StackIsPath' /\ StackIsColoured' /\ FollowedAreFinished'
  BY <1>1 DEF SearchInv, StackIsPath, StackIsColoured, FollowedAreFinished, Neighbours, Depth
<1>5. path = <<>>
  BY <1>1 DEF SearchInv
<1>6. Acyclic
  <2>1. Depth = {}
    BY DEF NoCycle, Depth
  <2>2. \A n \in Node : colour[n] = Finished
    BY <2>1 DEF NoCycle, Id, TypeOK, SearchInv, StackIsColoured
  <2>3. Node \subseteq {m \in Id : colour[m] = Finished}
    BY <2>2 DEF Id
  <2> QED
    BY <2>3 DEF Acyclic, SearchInv, FinishedIsAcyclic
<1>7. Acyclic'
  BY <1>2, <1>6, Zenon DEF Acyclic
<1> QED
  BY <1>1, <1>3, <1>4, <1>5, <1>7
    DEF SearchInv, TraceFollowsStack, CycleIsReal, NoCycleMissed

\* The second search leaves what the first one found alone.
LEMMA ReachSearch ==
  ASSUME SearchInv, UNCHANGED <<adjacency, stack, colour, parent, path, cursor>>,
         phase' = phase \/ (phase = "reach" /\ phase' = "done")
  PROVE  SearchInv'
<1>1. \A m, n : Edge(m, n)' <=> Edge(m, n)
  BY DEF Edge, Neighbours
<1>2. FinishedIsClosed' /\ FinishedIsAcyclic'
  BY FinishedUnchanged DEF SearchInv
<1>3. StackIsPath' /\ StackIsColoured' /\ FollowedAreFinished'
  BY DEF SearchInv, StackIsPath, StackIsColoured, FollowedAreFinished, Neighbours, Depth
<1>4. Acyclic' <=> Acyclic
  BY <1>1, Zenon DEF Acyclic
<1>5. Searched' <=> Searched
  BY DEF Searched
<1>6. CycleIsReal' /\ NoCycleMissed'
  BY <1>1, <1>4, <1>5 DEF SearchInv, CycleIsReal, NoCycleMissed
<1>7. TraceFollowsStack'
  BY <1>1 DEF SearchInv, TraceFollowsStack, Depth
<1> QED
  BY <1>2, <1>3, <1>6, <1>7 DEF SearchInv

LEMMA SearchStep == TypeInv /\ SearchInv /\ [Next]_vars => SearchInv'
<1> SUFFICES ASSUME TypeInv, SearchInv, [Next]_vars PROVE SearchInv'
  OBVIOUS
<1>1. ASSUME FindCycle PROVE SearchInv'
  BY <1>1, StartSearch, LeaveSearch, SkipSearch, EnterSearch, CloseCycleSearch,
     TraceBackSearch, TraceEndsSearch, NoCycleSearch DEF FindCycle
<1>2. ASSUME NEW n \in Id, Visit(n) PROVE SearchInv'
  BY <1>2, ReachSearch DEF Visit
<1>3. ASSUME ReachEnds PROVE SearchInv'
  BY <1>3, ReachSearch DEF ReachEnds
<1>4. ASSUME UNCHANGED vars PROVE SearchInv'
  BY <1>4, ReachSearch DEF vars
<1> QED
  BY <1>1, <1>2, <1>3, <1>4 DEF Next

LEMMA SearchCorrect == Spec => [](TypeInv /\ SearchInv)
<1>1. Init => TypeInv /\ SearchInv
  BY InitType, InitSearch
<1>2. TypeInv /\ SearchInv /\ [Next]_vars => (TypeInv /\ SearchInv)'
  BY TypeStep, SearchStep
<1> QED
  BY <1>1, <1>2, PTL DEF Spec

\* The path findCycle returns is a cycle of the graph.
THEOREM CycleReported == Spec => []CycleIsReal
<1>1. SearchInv => CycleIsReal
  BY DEF SearchInv
<1> QED
  BY <1>1, SearchCorrect, PTL

\* A graph in which findCycle finds no cycle has none.
THEOREM AcceptedIsAcyclic == Spec => []NoCycleMissed
<1>1. SearchInv => NoCycleMissed
  BY DEF SearchInv
<1> QED
  BY <1>1, SearchCorrect, PTL

----------------------------------------------------------------------------
(* reachableFrom: the inductive invariant *)

\* What was seen and is not pending was visited: its edges stay among what was seen.
VisitedIsClosed == \A m \in seen \ pending, n \in Id : Edge(m, n) => n \in seen

\* Nothing is seen that some closed set with the trigger does not hold.
SeenIsLeast == \A S \in SUBSET Id : Trigger \in S /\ Closed(S) => seen \subseteq S

ReachInv ==
  /\ Searched => Trigger \in seen /\ pending \subseteq seen /\ VisitedIsClosed /\ SeenIsLeast
  /\ phase = "done" => pending = {}

LEMMA InitReach == Init => ReachInv
  BY DEF Init, ReachInv, Searched

\* The second search begins with the trigger alone.
LEMMA ReachBegins ==
  ASSUME TypeOK, Reach, UNCHANGED adjacency
  PROVE  ReachInv'
<1>1. seen' = {Trigger} /\ pending' = {Trigger} /\ phase' = "reach"
  BY DEF Reach
<1>2. VisitedIsClosed'
  BY <1>1 DEF VisitedIsClosed
<1>3. SeenIsLeast'
  BY <1>1 DEF SeenIsLeast
<1> QED
  BY <1>1, <1>2, <1>3 DEF ReachInv, Searched

LEMMA ReachStays ==
  ASSUME ReachInv, UNCHANGED <<adjacency, phase, seen, pending>>
  PROVE  ReachInv'
<1>1. \A m, n : Edge(m, n)' <=> Edge(m, n)
  BY DEF Edge, Neighbours
<1>2. \A S : Closed(S)' <=> Closed(S)
  BY <1>1 DEF Closed
<1>3. VisitedIsClosed' <=> VisitedIsClosed
  BY <1>1 DEF VisitedIsClosed
<1>4. SeenIsLeast' <=> SeenIsLeast
  BY <1>2 DEF SeenIsLeast
<1> QED
  BY <1>3, <1>4 DEF ReachInv, Searched

LEMMA VisitReach ==
  ASSUME TypeOK, ReachInv, NEW n \in Id, Visit(n)
  PROVE  ReachInv'
<1> DEFINE next == {m \in Id \ seen : Edge(n, m)}
<1>1. /\ phase = "reach" /\ phase' = phase /\ n \in pending
      /\ seen' = seen \cup next /\ pending' = (pending \ {n}) \cup next
  BY DEF Visit
<1>2. Trigger \in seen /\ pending \subseteq seen /\ VisitedIsClosed /\ SeenIsLeast
  BY <1>1 DEF ReachInv, Searched
<1>3. \A k, m : Edge(k, m)' <=> Edge(k, m)
  BY DEF Visit, Edge, Neighbours
<1>4. \A S : Closed(S)' <=> Closed(S)
  BY <1>3 DEF Closed
<1>5. VisitedIsClosed'
  BY <1>1, <1>2, <1>3 DEF VisitedIsClosed
<1>6. SeenIsLeast'
  <2> SUFFICES ASSUME NEW S \in SUBSET Id, Trigger \in S, Closed(S) PROVE seen' \subseteq S
    BY <1>4 DEF SeenIsLeast
  <2>1. seen \subseteq S
    BY <1>2 DEF SeenIsLeast
  <2>2. next \subseteq S
    BY <1>1, <1>2, <2>1 DEF Closed
  <2> QED
    BY <1>1, <2>1, <2>2
<1> QED
  BY <1>1, <1>2, <1>5, <1>6 DEF ReachInv, Searched

LEMMA ReachEndsReach ==
  ASSUME ReachInv, ReachEnds
  PROVE  ReachInv'
<1>1. UNCHANGED <<adjacency, seen, pending>> /\ phase = "reach" /\ pending = {}
  BY DEF ReachEnds
<1>2. \A m, n : Edge(m, n)' <=> Edge(m, n)
  BY <1>1 DEF Edge, Neighbours
<1>3. \A S : Closed(S)' <=> Closed(S)
  BY <1>2 DEF Closed
<1>4. VisitedIsClosed' <=> VisitedIsClosed
  BY <1>1, <1>2 DEF VisitedIsClosed
<1>5. SeenIsLeast' <=> SeenIsLeast
  BY <1>1, <1>3 DEF SeenIsLeast
<1> QED
  BY <1>1, <1>4, <1>5 DEF ReachInv, Searched

LEMMA ReachStep == TypeInv /\ ReachInv /\ [Next]_vars => ReachInv'
<1> SUFFICES ASSUME TypeInv, ReachInv, [Next]_vars PROVE ReachInv'
  OBVIOUS
<1> TypeOK
  BY DEF TypeInv
<1>1. ASSUME FindCycle PROVE ReachInv'
  <2>1. ASSUME NEW n \in Node, Start(n) PROVE ReachInv'
    BY <2>1, ReachStays DEF Start
  <2>2. ASSUME Leave PROVE ReachInv'
    BY <2>2, ReachStays DEF Leave
  <2>3. ASSUME NEW next \in Id, Skip(next) PROVE ReachInv'
    BY <2>3, ReachStays DEF Skip
  <2>4. ASSUME NEW next \in Id, Enter(next) PROVE ReachInv'
    BY <2>4, ReachStays DEF Enter
  <2>5. ASSUME NEW next \in Id, CloseCycle(next) PROVE ReachInv'
    BY <2>5 DEF CloseCycle, ReachInv, Searched
  <2>6. ASSUME TraceBack PROVE ReachInv'
    BY <2>6, ReachStays DEF TraceBack
  <2>7. ASSUME TraceEnds PROVE ReachInv'
    BY <2>7, ReachBegins DEF TraceEnds
  <2>8. ASSUME NoCycle PROVE ReachInv'
    BY <2>8, ReachBegins DEF NoCycle
  <2> QED
    BY <1>1, <2>1, <2>2, <2>3, <2>4, <2>5, <2>6, <2>7, <2>8 DEF FindCycle
<1>2. ASSUME UNCHANGED vars PROVE ReachInv'
  BY <1>2, ReachStays DEF vars
<1> QED
  BY <1>1, <1>2, VisitReach, ReachEndsReach DEF Next

\* When validation ends, what was seen is what an edge path from the trigger reaches.
THEOREM ReachableExact == Spec => []ReachableIsExact
<1>1. Init => TypeInv /\ ReachInv
  BY InitType, InitReach
<1>2. TypeInv /\ ReachInv /\ [Next]_vars => (TypeInv /\ ReachInv)'
  BY TypeStep, ReachStep
<1>3. TypeInv /\ ReachInv => ReachableIsExact
  <2> SUFFICES ASSUME TypeInv, ReachInv, phase = "done"
               PROVE  /\ Trigger \in seen /\ Closed(seen)
                      /\ \A S \in SUBSET Id : Trigger \in S /\ Closed(S) => seen \subseteq S
    BY DEF ReachableIsExact
  <2>1. Trigger \in seen /\ pending = {} /\ VisitedIsClosed /\ SeenIsLeast
    BY DEF ReachInv, Searched
  <2>2. Closed(seen)
    BY <2>1 DEF VisitedIsClosed, Closed
  <2> QED
    BY <2>1, <2>2 DEF SeenIsLeast
<1> QED
  BY <1>1, <1>2, <1>3, PTL DEF Spec
=============================================================================
