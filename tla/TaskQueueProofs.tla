-------------------------- MODULE TaskQueueProofs --------------------------
(***************************************************************************)
(* Theorems about the task queue, for any number of tasks, processes,      *)
(* attempts, lapses and faults.                                            *)
(***************************************************************************)
EXTENDS TaskQueue, FiniteSetTheorems, TLAPS

(***************************************************************************)
(* Type correctness.  That `deliveries` is finite is part of it: the       *)
(* capacity of a poll is computed from the number of running deliveries.   *)
(***************************************************************************)

TypeInv == TypeOK /\ IsFiniteSet(deliveries)

\* Least returns one of two numbers, and exceeds neither.
LEMMA LeastBound ==
  ASSUME NEW a \in Nat, NEW b \in Nat
  PROVE  Least(a, b) \in Nat /\ Least(a, b) <= a /\ Least(a, b) <= b
  BY DEF Least

\* Moving a delivery to another statement of runTask keeps the set well typed.
LEMMA MoveToType ==
  ASSUME TypeInv, NEW d \in deliveries, NEW pc \in DeliveryPc, MoveTo(d, pc)
  PROVE  deliveries' \subseteq Delivery /\ IsFiniteSet(deliveries')
  <1>1. d \in Delivery
    BY DEF TypeInv, TypeOK
  <1>2. [d EXCEPT !.pc = pc] \in Delivery
    BY <1>1 DEF Delivery
  <1>3. deliveries' \subseteq Delivery
    BY <1>2 DEF MoveTo, TypeInv, TypeOK
  <1>4. IsFiniteSet(deliveries \ {d})
    BY FS_RemoveElement DEF TypeInv
  <1>5. IsFiniteSet(deliveries')
    BY <1>4, FS_AddElement DEF MoveTo
  <1> QED BY <1>3, <1>5

\* So does its end.
LEMMA FinishType ==
  ASSUME TypeInv, NEW d \in deliveries, Finish(d)
  PROVE  deliveries' \subseteq Delivery /\ IsFiniteSet(deliveries')
  BY FS_RemoveElement DEF TypeInv, TypeOK, Finish

\* A branch of the catch block leads to a statement of runTask.
LEMMA AfterThrowType ==
  ASSUME NEW d, NEW retryable \in BOOLEAN
  PROVE  AfterThrow(d, retryable) \in DeliveryPc
  BY DEF AfterThrow, DeliveryPc

\* Whatever batch a claim takes, the table stays well typed.
LEMMA ClaimRowsType ==
  ASSUME TypeInv, NEW B, ClaimRows(B)
  PROVE  row' \in [Task -> Row]
  BY DEF TypeInv, TypeOK, ClaimRows, Claimed, Row, RowStatus

\* A claim starts at most as many deliveries as it takes rows, each of them well typed.
LEMMA NewDeliveries ==
  ASSUME TypeInv, NEW w \in Worker, NEW B \in SUBSET Task
  PROVE  LET new == {NewDelivery(t, w) : t \in B}
         IN  /\ new \subseteq Delivery
             /\ IsFiniteSet(new) /\ IsFiniteSet(B)
             /\ Cardinality(new) <= Cardinality(B)
  <1> DEFINE new == {NewDelivery(t, w) : t \in B}
             f == [t \in B |-> NewDelivery(t, w)]
  <1>1. IsFiniteSet(B)
    BY QueueAssumption, FS_Subset
  <1>2. f \in Surjection(B, new)
    BY DEF Surjection
  <1>3. IsFiniteSet(new) /\ Cardinality(new) <= Cardinality(B)
    BY <1>1, <1>2, FS_Surjection
  <1>4. \A t \in B : NewDelivery(t, w) \in Delivery
    BY DEF TypeInv, TypeOK, NewDelivery, Claimed, Delivery, DeliveryPc, Row
  <1> QED BY <1>1, <1>3, <1>4

\* The running deliveries of a process are finitely many.
LEMMA ActiveFinite ==
  ASSUME TypeInv, NEW w
  PROVE  IsFiniteSet(Active(w)) /\ Cardinality(Active(w)) \in Nat
  <1>1. Active(w) \in SUBSET deliveries
    BY DEF Active
  <1> QED BY <1>1, FS_Subset, FS_CardinalityType DEF TypeInv

\* Every step of the queue and of its processes keeps the types.
LEMMA TypeStep == TypeInv /\ [Next]_vars => TypeInv'
  <1> SUFFICES ASSUME TypeInv, [Next]_vars PROVE TypeInv'
    OBVIOUS
  <1> USE DEF TypeInv, TypeOK
  <1>1. ASSUME NEW t \in Task, Send(t) PROVE TypeInv'
    BY <1>1 DEF Send, Row, RowStatus
  <1>2. ASSUME NEW t \in Task, Expire(t) PROVE TypeInv'
    BY <1>2 DEF Expire
  <1>3. ASSUME NEW t \in Task, BackoffElapses(t) PROVE TypeInv'
    BY <1>3 DEF BackoffElapses, Row, RowStatus
  <1>4. ASSUME NEW t \in Task, LeaseLapses(t) PROVE TypeInv'
    <2>1. row' \in [Task -> Row]
      BY <1>4 DEF LeaseLapses, Row
    <2>2. lapses' \in [Task -> Nat]
      BY <1>4 DEF LeaseLapses
    <2> QED BY <1>4, <2>1, <2>2 DEF LeaseLapses
  <1>5. ASSUME NEW w \in Worker, Poll(w) PROVE TypeInv'
    <2>1. Concurrency - Cardinality(Active(w)) \in Nat
      BY <1>5, ActiveFinite, QueueAssumption DEF Poll
    <2>2. Least(Concurrency - Cardinality(Active(w)), MaxBatch) \in Nat
      BY <2>1, LeastBound, QueueAssumption
    <2> QED BY <1>5, <2>2 DEF Poll, LoopState
  <1>6. ASSUME NEW w \in Worker, Claim(w) PROVE TypeInv'
    <2>1. PICK B \in Batches(capacity[w]) :
            /\ ClaimRows(B)
            /\ deliveries' = deliveries \cup {NewDelivery(t, w) : t \in B}
      BY <1>6 DEF Claim
    <2>2. B \in SUBSET Task
      BY DEF Batches, Visible
    <2>3. deliveries' \subseteq Delivery /\ IsFiniteSet(deliveries')
      BY <2>1, <2>2, NewDeliveries, FS_Union
    <2>4. row' \in [Task -> Row]
      BY <2>1, ClaimRowsType
    <2> QED BY <1>6, <2>3, <2>4 DEF Claim, LoopState
  <1>7. ASSUME NEW w \in Worker, ReceiveEmpty(w) PROVE TypeInv'
    BY <1>7 DEF ReceiveEmpty, LoopState
  <1>8. ASSUME NEW w \in Worker, ReceiveFails(w) PROVE TypeInv'
    <2>1. row' \in [Task -> Row]
      BY <1>8, ClaimRowsType DEF ReceiveFails
    <2> QED BY <1>8, <2>1 DEF ReceiveFails, Fault, LoopState
  <1>9. ASSUME NEW w \in Worker, Lifecycle(w) PROVE TypeInv'
    <2>1. CASE Drain(w)
      BY <2>1 DEF Drain, Fault
    <2>2. CASE Stop(w)
      BY <2>2 DEF Stop, LoopState
    <2>3. CASE Crash(w)
      <3>1. IsFiniteSet(deliveries')
        BY <2>3, FS_Subset DEF Crash
      <3> QED BY <2>3, <3>1 DEF Crash, Fault, LoopState
    <2>4. CASE Restart(w)
      BY <2>4 DEF Restart, LoopState
    <2> QED BY <1>9, <2>1, <2>2, <2>3, <2>4 DEF Lifecycle
  <1>10. ASSUME NEW d \in deliveries, Begin(d) \/ HandleReturns(d) \/ HandleThrows(d)
         PROVE  TypeInv'
    <2>1. PICK pc \in DeliveryPc : MoveTo(d, pc)
      BY <1>10, AfterThrowType DEF Begin, HandleReturns, HandleThrows, DeliveryPc
    <2>2. deliveries' \subseteq Delivery /\ IsFiniteSet(deliveries')
      BY <2>1, MoveToType
    <2> QED BY <1>10, <2>2 DEF Begin, HandleReturns, HandleThrows
  <1>11. ASSUME NEW d \in deliveries, KeepAlive(d) PROVE TypeInv'
    BY <1>11 DEF KeepAlive, Row, Delivery
  <1>12. ASSUME NEW d \in deliveries, Ack(d) PROVE TypeInv'
    <2>1. PICK pc \in DeliveryPc : MoveTo(d, pc)
      BY <1>12 DEF Ack, DeliveryPc
    <2>2. deliveries' \subseteq Delivery /\ IsFiniteSet(deliveries')
      BY <2>1, MoveToType
    <2>3. row' \in [Task -> Row]
      BY <1>12 DEF Ack, Row, RowStatus, Delivery
    <2> QED BY <1>12, <2>2, <2>3 DEF Ack
  <1>13. ASSUME NEW d \in deliveries, Nack(d) PROVE TypeInv'
    <2>1. deliveries' \subseteq Delivery /\ IsFiniteSet(deliveries')
      BY <1>13, FinishType DEF Nack
    <2>2. row' \in [Task -> Row]
      BY <1>13 DEF Nack, Row, RowStatus, Delivery
    <2> QED BY <1>13, <2>1, <2>2 DEF Nack
  <1>14. ASSUME NEW d \in deliveries, Publish(d)
         PROVE  events' \in [Task -> [completed : Nat, failed : Nat]]
    BY <1>14 DEF Publish, Delivery
  <1>15. ASSUME NEW d \in deliveries, Report(d) PROVE TypeInv'
    <2>1. deliveries' \subseteq Delivery /\ IsFiniteSet(deliveries')
      BY <1>15, FinishType DEF Report
    <2> QED BY <1>14, <1>15, <2>1 DEF Report
  <1>16. ASSUME NEW d \in deliveries, SuccessPathThrows(d) PROVE TypeInv'
    <2>1. PICK pc \in DeliveryPc : MoveTo(d, pc)
      BY <1>16, AfterThrowType DEF SuccessPathThrows
    <2>2. deliveries' \subseteq Delivery /\ IsFiniteSet(deliveries')
      BY <2>1, MoveToType
    <2>3. events' \in [Task -> [completed : Nat, failed : Nat]]
      BY <1>14, <1>16 DEF SuccessPathThrows
    <2> QED BY <1>16, <2>2, <2>3 DEF SuccessPathThrows, Fault
  <1>17. CASE UNCHANGED vars
    BY <1>17 DEF vars
  <1> QED
    BY <1>1, <1>2, <1>3, <1>4, <1>5, <1>6, <1>7, <1>8, <1>9, <1>10, <1>11, <1>12, <1>13,
       <1>15, <1>16, <1>17
    DEF Next, Time, Receive, RunTask

\* The types hold in every reachable state of any instance of the queue.
THEOREM TypeCorrect == Spec => []TypeOK
  <1>1. Init => TypeInv
    BY FS_EmptySet, QueueAssumption
    DEF Init, TypeInv, TypeOK, Row, RowStatus, LoopState
  <1>2. TypeInv => TypeOK
    BY DEF TypeInv
  <1> QED BY <1>1, <1>2, TypeStep, PTL DEF Spec

(***************************************************************************)
(* Leases.  OneLeaseHolder and PendingHasAttemptsLeft are not inductive:   *)
(* they need that tokens number the claims of a row, that a delivery's     *)
(* token was handed out by a claim, and that only a delivery with attempts *)
(* left is about to nack.                                                  *)
(***************************************************************************)

\* Tokens number the claims of a row; a row that was never sent was never claimed.
TokensNumberClaims ==
  \A t \in Task :
    /\ row[t].leaseToken = row[t].receiveCount
    /\ row[t].status = "unsent" => row[t].receiveCount = 0

\* A delivery was started by one of the claims so far, and counts them as its attempts.
TokensWereIssued ==
  \A d \in deliveries :
    /\ d.attempt = d.token
    /\ 1 <= d.token /\ d.token <= row[d.task].receiveCount

\* Only a delivery with attempts left is about to put its task back.
NackHasAttemptsLeft ==
  \A d \in deliveries : d.pc = "nack" => d.attempt < MaxAttempts

LeaseInv ==
  /\ TokensNumberClaims
  /\ TokensWereIssued
  /\ NackHasAttemptsLeft
  /\ OneLeaseHolder
  /\ PendingHasAttemptsLeft

\* No two deliveries of a task hold the same token: the first half of OneLeaseHolder.
Unique == \A d, e \in deliveries : d.task = e.task /\ d.token = e.token => d = e

\* The deliveries of the next state are deliveries of this one, at this or another
\* statement: no step but a claim starts one.
Descends == \A e \in deliveries' : \E d \in deliveries :
              e.task = d.task /\ e.token = d.token /\ e.attempt = d.attempt

\* Moving one delivery to another statement starts none and merges none.
LEMMA MoveToDescends ==
  ASSUME TypeInv, Unique, NackHasAttemptsLeft, NEW d \in deliveries, NEW pc \in DeliveryPc,
         MoveTo(d, pc), pc = "nack" => d.attempt < MaxAttempts
  PROVE  Descends /\ Unique' /\ NackHasAttemptsLeft'
  <1> DEFINE n == [d EXCEPT !.pc = pc]
  <1>1. d \in Delivery
    BY DEF TypeInv, TypeOK
  <1>2. /\ n.task = d.task /\ n.token = d.token
        /\ n.attempt = d.attempt /\ n.pc = pc
    BY <1>1 DEF Delivery
  <1>3. deliveries' = (deliveries \ {d}) \cup {n}
    BY DEF MoveTo
  <1> HIDE DEF n
  <1>4. Descends
    BY <1>2, <1>3 DEF Descends
  <1>5. Unique'
    BY <1>2, <1>3 DEF Unique
  <1>6. NackHasAttemptsLeft'
    BY <1>2, <1>3 DEF NackHasAttemptsLeft
  <1> QED BY <1>4, <1>5, <1>6

\* Nor does the end of deliveries.
LEMMA SubsetDescends ==
  ASSUME Unique, NackHasAttemptsLeft, deliveries' \subseteq deliveries
  PROVE  Descends /\ Unique' /\ NackHasAttemptsLeft'
  BY DEF Descends, Unique, NackHasAttemptsLeft

\* A step that starts no delivery, claims no row and sends no row back keeps LeaseInv.
LEMMA QuietStep ==
  ASSUME TypeInv, LeaseInv, Descends, Unique', NackHasAttemptsLeft',
         \A t \in Task : /\ row'[t].leaseToken = row[t].leaseToken
                         /\ row'[t].receiveCount = row[t].receiveCount
                         /\ row'[t].status \in {row[t].status, "deleted"}
  PROVE  LeaseInv'
  <1>1. \A d \in deliveries : d \in Delivery /\ d.task \in Task
    BY DEF TypeInv, TypeOK, Delivery
  <1>2. \A e \in deliveries' : e.task \in Task
    BY <1>1 DEF Descends
  <1>3. TokensNumberClaims'
    BY DEF LeaseInv, TokensNumberClaims
  <1>4. TokensWereIssued'
    BY <1>1, <1>2 DEF LeaseInv, TokensWereIssued, Descends
  <1>5. ASSUME NEW e \in deliveries', Matches(e)' PROVE row'[e.task].status = "in_flight"
    <2>1. PICK d \in deliveries : e.task = d.task /\ e.token = d.token
      BY DEF Descends
    <2>2. row'[e.task].status = row[d.task].status
      BY <1>5, <2>1, <1>1 DEF Matches, Stored
    <2>3. Matches(d)
      BY <1>5, <2>1, <2>2, <1>1 DEF Matches, Stored
    <2> QED BY <2>2, <2>3 DEF LeaseInv, OneLeaseHolder
  <1>6. OneLeaseHolder'
    BY <1>5 DEF OneLeaseHolder, Unique
  <1>7. PendingHasAttemptsLeft'
    BY DEF LeaseInv, PendingHasAttemptsLeft
  <1> QED BY <1>3, <1>4, <1>6, <1>7 DEF LeaseInv

\* A claim: the rows it takes get tokens no delivery holds.
LEMMA ClaimStep ==
  ASSUME TypeInv, LeaseInv, NEW w \in Worker, NEW B \in SUBSET Visible, ClaimRows(B),
         \/ UNCHANGED deliveries
         \/ deliveries' = deliveries \cup {NewDelivery(t, w) : t \in B}
  PROVE  LeaseInv'
  <1>1. B \subseteq Task
    BY DEF Visible
  <1>2. \A t \in Task :
          /\ t \in B => /\ row'[t].status = "in_flight"
                        /\ row'[t].leaseToken = row[t].receiveCount + 1
                        /\ row'[t].receiveCount = row[t].receiveCount + 1
          /\ t \notin B => row'[t] = row[t]
    BY DEF ClaimRows, Claimed
  <1>3. \A t \in Task : row[t].receiveCount \in Nat
    BY DEF TypeInv, TypeOK, Row
  <1>4. ASSUME NEW e \in deliveries', e \notin deliveries
        PROVE  /\ e.task \in B /\ e.pc = "received" /\ e.attempt = e.token
               /\ e.token = row[e.task].receiveCount + 1
               /\ e = NewDelivery(e.task, w)
    BY <1>4 DEF NewDelivery, Claimed
  <1>5. \A d \in deliveries : /\ d \in deliveries' /\ d.task \in Task /\ d.token \in Nat
                              /\ 1 <= d.token /\ d.token <= row[d.task].receiveCount
    BY DEF TypeInv, TypeOK, Delivery, LeaseInv, TokensWereIssued
  <1>6. TokensNumberClaims'
    BY <1>2 DEF LeaseInv, TokensNumberClaims
  <1>7. TokensWereIssued'
    <2> SUFFICES ASSUME NEW e \in deliveries'
                 PROVE  /\ e.attempt = e.token
                        /\ 1 <= e.token /\ e.token <= row'[e.task].receiveCount
      BY DEF TokensWereIssued
    <2>1. CASE e \in deliveries
      BY <2>1, <1>2, <1>3, <1>5 DEF LeaseInv, TokensWereIssued
    <2>2. CASE e \notin deliveries
      BY <2>2, <1>1, <1>2, <1>3, <1>4
    <2> QED BY <2>1, <2>2
  <1>8. NackHasAttemptsLeft'
    BY <1>4 DEF LeaseInv, NackHasAttemptsLeft
  <1>9. Unique'
    <2> SUFFICES ASSUME NEW d \in deliveries', NEW e \in deliveries',
                        d.task = e.task, d.token = e.token
                 PROVE  d = e
      BY DEF Unique
    <2>1. CASE d \in deliveries /\ e \in deliveries
      BY <2>1 DEF LeaseInv, OneLeaseHolder
    <2>2. CASE d \in deliveries /\ e \notin deliveries
      BY <2>2, <1>3, <1>4, <1>5
    <2>3. CASE d \notin deliveries /\ e \in deliveries
      BY <2>3, <1>3, <1>4, <1>5
    <2>4. CASE d \notin deliveries /\ e \notin deliveries
      BY <2>4, <1>4
    <2> QED BY <2>1, <2>2, <2>3, <2>4
  <1>10. ASSUME NEW e \in deliveries', Matches(e)' PROVE row'[e.task].status = "in_flight"
    <2>1. CASE e.task \in B
      BY <2>1, <1>1, <1>2
    <2>2. CASE e.task \notin B
      <3>1. e \in deliveries /\ row'[e.task] = row[e.task]
        BY <2>2, <1>2, <1>4, <1>5
      <3>2. Matches(e)
        BY <1>10, <3>1 DEF Matches, Stored
      <3> QED BY <3>1, <3>2 DEF LeaseInv, OneLeaseHolder
    <2> QED BY <2>1, <2>2
  <1>11. OneLeaseHolder'
    BY <1>9, <1>10 DEF OneLeaseHolder, Unique
  <1>12. PendingHasAttemptsLeft'
    BY <1>2 DEF LeaseInv, PendingHasAttemptsLeft
  <1> QED BY <1>6, <1>7, <1>8, <1>11, <1>12 DEF LeaseInv

\* Every step of the queue and of its processes keeps LeaseInv.
LEMMA LeaseStep == TypeInv /\ LeaseInv /\ [Next]_vars => LeaseInv'
  <1> SUFFICES ASSUME TypeInv, LeaseInv, [Next]_vars PROVE LeaseInv'
    OBVIOUS
  <1>a. Unique /\ NackHasAttemptsLeft
    BY DEF LeaseInv, OneLeaseHolder, Unique
  <1>b. \A d \in deliveries : d \in Delivery /\ d.task \in Task
    BY DEF TypeInv, TypeOK, Delivery
  <1>c. row \in [Task -> Row]
    BY DEF TypeInv, TypeOK
  <1>d. ASSUME deliveries' \subseteq deliveries, row' = row PROVE LeaseInv'
    BY <1>a, <1>d, SubsetDescends, QuietStep
  <1>1. ASSUME NEW t \in Task, Send(t) PROVE LeaseInv'
    <2>1. /\ row' = [row EXCEPT ![t].status = "pending", ![t].visible = TRUE]
          /\ deliveries' = deliveries
          /\ row[t].status = "unsent" /\ row[t].receiveCount = 0
      BY <1>1 DEF Send, LeaseInv, TokensNumberClaims
    <2>2. /\ row'[t].status = "pending" /\ row'[t].receiveCount = 0
          /\ row'[t].leaseToken = row[t].leaseToken
          /\ \A u \in Task \ {t} : row'[u] = row[u]
      BY <2>1, <1>c DEF Row
    <2>3. \A d \in deliveries : d.task # t
      BY <2>1, <1>b DEF LeaseInv, TokensWereIssued, Delivery
    <2>4. TokensNumberClaims'
      BY <2>1, <2>2 DEF LeaseInv, TokensNumberClaims
    <2>5. TokensWereIssued'
      BY <2>1, <2>2, <2>3, <1>b DEF LeaseInv, TokensWereIssued
    <2>6. NackHasAttemptsLeft'
      BY <2>1 DEF LeaseInv, NackHasAttemptsLeft
    <2>7. OneLeaseHolder'
      BY <2>1, <2>2, <2>3, <1>b DEF LeaseInv, OneLeaseHolder, Matches, Stored
    <2>8. PendingHasAttemptsLeft'
      BY <2>2, QueueAssumption DEF LeaseInv, PendingHasAttemptsLeft
    <2> QED BY <2>4, <2>5, <2>6, <2>7, <2>8 DEF LeaseInv
  <1>2. ASSUME NEW t \in Task, Time(t) PROVE LeaseInv'
    <2>1. deliveries' = deliveries
      BY <1>2 DEF Time, Expire, BackoffElapses, LeaseLapses
    <2>2. row' = row \/ row' = [row EXCEPT ![t].visible = TRUE]
      BY <1>2 DEF Time, Expire, BackoffElapses, LeaseLapses
    <2>3. \A u \in Task : /\ row'[u].leaseToken = row[u].leaseToken
                          /\ row'[u].receiveCount = row[u].receiveCount
                          /\ row'[u].status = row[u].status
      BY <2>2, <1>c DEF Row
    <2> QED BY <2>1, <2>3, <1>a, SubsetDescends, QuietStep
  <1>3. ASSUME NEW w \in Worker, Poll(w) \/ ReceiveEmpty(w) PROVE LeaseInv'
    BY <1>3, <1>d DEF Poll, ReceiveEmpty
  <1>4. ASSUME NEW w \in Worker, Claim(w) PROVE LeaseInv'
    <2>1. PICK B \in Batches(capacity[w]) :
            /\ ClaimRows(B)
            /\ deliveries' = deliveries \cup {NewDelivery(t, w) : t \in B}
      BY <1>4 DEF Claim
    <2> QED BY <2>1, ClaimStep DEF Batches
  <1>5. ASSUME NEW w \in Worker, ReceiveFails(w) PROVE LeaseInv'
    <2>1. deliveries' = deliveries
      BY <1>5 DEF ReceiveFails
    <2>2. CASE row' = row
      BY <2>1, <2>2, <1>d
    <2>3. CASE \E B \in Batches(capacity[w]) : ClaimRows(B)
      BY <2>1, <2>3, ClaimStep DEF Batches
    <2> QED BY <1>5, <2>2, <2>3 DEF ReceiveFails
  <1>6. ASSUME NEW w \in Worker, Lifecycle(w) PROVE LeaseInv'
    BY <1>6, <1>d DEF Lifecycle, Drain, Stop, Crash, Restart
  <1>7. ASSUME NEW d \in deliveries, NEW pc \in DeliveryPc, MoveTo(d, pc), row' = row,
               pc = "nack" => d.attempt < MaxAttempts
        PROVE  LeaseInv'
    BY <1>7, <1>a, MoveToDescends, QuietStep
  <1>8. ASSUME NEW d \in deliveries,
               Begin(d) \/ HandleReturns(d) \/ HandleThrows(d) \/ SuccessPathThrows(d)
        PROVE  LeaseInv'
    <2>1. /\ row' = row
          /\ \E pc \in DeliveryPc : MoveTo(d, pc) /\ (pc = "nack" => d.attempt < MaxAttempts)
      BY <1>8 DEF Begin, HandleReturns, HandleThrows, SuccessPathThrows, AfterThrow, DeliveryPc
    <2> QED BY <2>1, <1>7
  <1>9. ASSUME NEW d \in deliveries, KeepAlive(d) PROVE LeaseInv'
    <2>1. /\ deliveries' = deliveries
          /\ row' = [row EXCEPT ![d.task].visible = FALSE]
      BY <1>9 DEF KeepAlive
    <2>2. \A u \in Task : /\ row'[u].leaseToken = row[u].leaseToken
                          /\ row'[u].receiveCount = row[u].receiveCount
                          /\ row'[u].status = row[u].status
      BY <2>1, <1>b, <1>c DEF Row
    <2> QED BY <2>1, <2>2, <1>a, SubsetDescends, QuietStep
  <1>10. ASSUME NEW d \in deliveries, Ack(d) PROVE LeaseInv'
    <2>1. PICK pc \in DeliveryPc : MoveTo(d, pc) /\ pc # "nack"
      BY <1>10 DEF Ack, DeliveryPc
    <2>2. \/ row' = row
          \/ row' = [row EXCEPT ![d.task].status = "deleted", ![d.task].visible = FALSE]
      BY <1>10 DEF Ack
    <2>3. \A u \in Task : /\ row'[u].leaseToken = row[u].leaseToken
                          /\ row'[u].receiveCount = row[u].receiveCount
                          /\ row'[u].status \in {row[u].status, "deleted"}
      BY <2>2, <1>b, <1>c DEF Row
    <2> QED BY <2>1, <2>3, <1>a, MoveToDescends, QuietStep
  <1>11. ASSUME NEW d \in deliveries, Report(d) PROVE LeaseInv'
    BY <1>11, <1>d DEF Report, Finish
  <1>12. ASSUME NEW d \in deliveries, Nack(d) PROVE LeaseInv'
    <2>1. deliveries' = deliveries \ {d} /\ d.attempt < MaxAttempts
      BY <1>12, <1>a DEF Nack, Finish, NackHasAttemptsLeft
    <2>2. CASE row' = row
      BY <2>1, <2>2, <1>d
    <2>3. CASE /\ Matches(d)
               /\ row' = [row EXCEPT ![d.task].status = "pending", ![d.task].visible = FALSE]
      <3>1. /\ row'[d.task].status = "pending"
            /\ \A u \in Task : /\ row'[u].leaseToken = row[u].leaseToken
                               /\ row'[u].receiveCount = row[u].receiveCount
                               /\ u # d.task => row'[u].status = row[u].status
        BY <2>3, <1>b, <1>c DEF Row
      <3>2. row[d.task].receiveCount = d.attempt
        BY <2>3, <1>b DEF Matches, LeaseInv, TokensNumberClaims, TokensWereIssued
      <3>3. TokensNumberClaims'
        BY <3>1, <2>3, <1>b DEF LeaseInv, TokensNumberClaims, Matches, Stored
      <3>4. TokensWereIssued'
        BY <3>1, <2>1, <1>b DEF LeaseInv, TokensWereIssued
      <3>5. NackHasAttemptsLeft'
        BY <2>1 DEF LeaseInv, NackHasAttemptsLeft
      <3>6. Unique'
        BY <2>1, <1>a DEF Unique
      <3>7. ASSUME NEW e \in deliveries', Matches(e)' PROVE row'[e.task].status = "in_flight"
        <4>1. e \in deliveries /\ e # d /\ e.task \in Task
          BY <2>1, <1>b
        <4>2. e.task # d.task
          BY <4>1, <3>1, <3>7, <2>3, <1>a, <1>b DEF Matches, Unique
        <4>3. Matches(e)
          BY <4>1, <4>2, <3>1, <3>7 DEF Matches, Stored
        <4> QED BY <4>1, <4>2, <4>3, <3>1 DEF LeaseInv, OneLeaseHolder
      <3>8. OneLeaseHolder'
        BY <3>6, <3>7 DEF OneLeaseHolder, Unique
      <3>9. PendingHasAttemptsLeft'
        BY <3>1, <3>2, <2>1, <1>b DEF LeaseInv, PendingHasAttemptsLeft
      <3> QED BY <3>3, <3>4, <3>5, <3>8, <3>9 DEF LeaseInv
    <2> QED BY <1>12, <2>2, <2>3 DEF Nack
  <1>13. CASE UNCHANGED vars
    BY <1>13, <1>d DEF vars
  <1> QED
    BY <1>1, <1>2, <1>3, <1>4, <1>5, <1>6, <1>8, <1>9, <1>10, <1>11, <1>12, <1>13
    DEF Next, Receive, RunTask

LEMMA Leases == Spec => [](TypeInv /\ LeaseInv)
  <1>1. Init => TypeInv
    BY FS_EmptySet, QueueAssumption DEF Init, TypeInv, TypeOK, Row, RowStatus, LoopState
  <1>2. Init => LeaseInv
    BY DEF Init, LeaseInv, TokensNumberClaims, TokensWereIssued, NackHasAttemptsLeft,
           OneLeaseHolder, PendingHasAttemptsLeft
  <1> QED BY <1>1, <1>2, TypeStep, LeaseStep, PTL DEF Spec

\* At any time at most one running delivery can ack, nack or extend a claimed row, and
\* none can touch a row that waits for its next claim.
THEOREM LeaseSafety == Spec => []OneLeaseHolder
  <1>1. LeaseInv => OneLeaseHolder
    BY DEF LeaseInv
  <1> QED BY <1>1, Leases, PTL

\* No stale report of an earlier attempt gives a task more attempts than it has.
THEOREM RetriesBounded == Spec => []PendingHasAttemptsLeft
  <1>1. LeaseInv => PendingHasAttemptsLeft
    BY DEF LeaseInv
  <1> QED BY <1>1, Leases, PTL

(***************************************************************************)
(* The concurrency ceiling.  `capacity` is computed before the await of    *)
(* receive() and used after it; nothing but the process's own loop starts  *)
(* deliveries, so the number it was computed from can only have shrunk.    *)
(***************************************************************************)

\* A process that starts no delivery has no more of them afterwards.
LEMMA FewerActive ==
  ASSUME TypeInv, NEW w, Active(w)' \subseteq Active(w)
  PROVE  /\ Cardinality(Active(w)') \in Nat
         /\ Cardinality(Active(w)') <= Cardinality(Active(w))
  BY ActiveFinite, FS_Subset, FS_CardinalityType

\* A delivery that moves to another statement still counts once.
LEMMA MoveToActive ==
  ASSUME TypeInv, NEW d \in deliveries, NEW pc \in DeliveryPc, MoveTo(d, pc), NEW w \in Worker
  PROVE  /\ Cardinality(Active(w)') \in Nat
         /\ Cardinality(Active(w)') <= Cardinality(Active(w))
  <1> DEFINE n == [d EXCEPT !.pc = pc]
  <1>1. d \in Delivery
    BY DEF TypeInv, TypeOK
  <1>2. n.worker = d.worker
    BY <1>1 DEF Delivery
  <1>3. deliveries' = (deliveries \ {d}) \cup {n}
    BY DEF MoveTo
  <1> HIDE DEF n
  <1>4. CASE d.worker # w
    <2>1. Active(w)' \subseteq Active(w)
      BY <1>2, <1>3, <1>4 DEF Active
    <2> QED BY <2>1, FewerActive
  <1>5. CASE d.worker = w
    <2>1. d \in Active(w)
      BY <1>5 DEF Active
    <2>2. Active(w)' = (Active(w) \ {d}) \cup {n}
      BY <1>2, <1>3, <1>5 DEF Active
    <2>3. /\ IsFiniteSet(Active(w) \ {d})
          /\ Cardinality(Active(w) \ {d}) = Cardinality(Active(w)) - 1
      BY <2>1, ActiveFinite, FS_RemoveElement
    <2>4. /\ IsFiniteSet(Active(w)')
          /\ Cardinality(Active(w)') <= Cardinality(Active(w) \ {d}) + 1
      BY <2>2, <2>3, FS_AddElement, ActiveFinite
    <2> QED BY <2>3, <2>4, ActiveFinite, FS_CardinalityType
  <1> QED BY <1>4, <1>5

\* Every step keeps the ceiling.
LEMMA CeilingStep == TypeInv /\ ConcurrencyCeiling /\ [Next]_vars => ConcurrencyCeiling'
  <1> SUFFICES ASSUME TypeInv, ConcurrencyCeiling, [Next]_vars, NEW v \in Worker
               PROVE  Cardinality(Active(v)') + capacity'[v] <= Concurrency
    BY DEF ConcurrencyCeiling
  <1>a. /\ Cardinality(Active(v)) \in Nat /\ capacity[v] \in Nat /\ Concurrency \in Nat
        /\ Cardinality(Active(v)) + capacity[v] <= Concurrency
        /\ capacity \in [Worker -> Nat]
    BY ActiveFinite, QueueAssumption DEF TypeInv, TypeOK, ConcurrencyCeiling
  <1>b. ASSUME deliveries' \subseteq deliveries, capacity'[v] \in Nat, capacity'[v] <= capacity[v]
        PROVE  Cardinality(Active(v)') + capacity'[v] <= Concurrency
    <2>1. Active(v)' \subseteq Active(v)
      BY <1>b DEF Active
    <2> QED BY <2>1, <1>a, <1>b, FewerActive
  <1>1. ASSUME NEW t \in Task, Send(t) \/ Time(t)
        PROVE  Cardinality(Active(v)') + capacity'[v] <= Concurrency
    BY <1>1, <1>a, <1>b DEF Send, Time, Expire, BackoffElapses, LeaseLapses
  <1>2. ASSUME NEW w \in Worker, Poll(w)
        PROVE  Cardinality(Active(v)') + capacity'[v] <= Concurrency
    <2>1. CASE v # w
      BY <1>2, <2>1, <1>a, <1>b DEF Poll
    <2>2. CASE v = w
      <3>1. Concurrency - Cardinality(Active(v)) \in Nat
        BY <1>2, <2>2, <1>a DEF Poll
      <3>2. capacity'[v] = Least(Concurrency - Cardinality(Active(v)), MaxBatch)
        BY <1>2, <2>2, <1>a DEF Poll
      <3>3. capacity'[v] \in Nat /\ capacity'[v] <= Concurrency - Cardinality(Active(v))
        BY <3>1, <3>2, LeastBound, QueueAssumption
      <3>4. Active(v)' = Active(v)
        BY <1>2 DEF Poll, Active
      <3> QED BY <3>3, <3>4, <1>a
    <2> QED BY <2>1, <2>2
  <1>3. ASSUME NEW w \in Worker, Claim(w)
        PROVE  Cardinality(Active(v)') + capacity'[v] <= Concurrency
    <2>1. PICK B \in Batches(capacity[w]) :
            deliveries' = deliveries \cup {NewDelivery(t, w) : t \in B}
      BY <1>3 DEF Claim
    <2>2. B \in SUBSET Task
      BY DEF Batches, Visible
    <2>3. CASE v # w
      <3>1. Active(v)' \subseteq Active(v)
        BY <2>1, <2>3 DEF Active, NewDelivery
      <3>2. capacity'[v] = capacity[v]
        BY <1>3, <2>3, <1>a DEF Claim
      <3> QED BY <3>1, <3>2, <1>a, FewerActive
    <2>4. CASE v = w
      <3> DEFINE new == {NewDelivery(t, w) : t \in B}
      <3>1. Active(v)' = Active(v) \cup new
        BY <2>1, <2>4 DEF Active, NewDelivery
      <3>2. Cardinality(B) <= capacity[v]
        <4>1. Visible \in SUBSET Task
          BY DEF Visible
        <4>2. Cardinality(Visible) \in Nat
          BY <4>1, QueueAssumption, FS_Subset, FS_CardinalityType
        <4>3. Cardinality(B) = Least(capacity[v], Cardinality(Visible))
          BY <2>4 DEF Batches
        <4> QED BY <4>2, <4>3, <1>a, LeastBound
      <3>3. IsFiniteSet(new) /\ Cardinality(new) <= Cardinality(B) /\ Cardinality(B) \in Nat
        BY <2>2, NewDeliveries, FS_CardinalityType
      <3>4. /\ Cardinality(new) \in Nat
            /\ Cardinality(Active(v) \cap new) \in Nat
            /\ Cardinality(Active(v) \cup new)
                 = Cardinality(Active(v)) + Cardinality(new) - Cardinality(Active(v) \cap new)
        <4>1. IsFiniteSet(Active(v) \cap new)
          BY <3>3, FS_Subset
        <4> QED BY <4>1, <3>3, ActiveFinite, FS_Union, FS_CardinalityType
      <3>5. capacity'[v] = 0
        BY <1>3, <2>4, <1>a DEF Claim
      <3> HIDE DEF new
      <3> QED BY <3>1, <3>2, <3>3, <3>4, <3>5, <1>a
    <2> QED BY <2>3, <2>4
  <1>4. ASSUME NEW w \in Worker, ReceiveEmpty(w) \/ ReceiveFails(w) \/ Lifecycle(w)
        PROVE  Cardinality(Active(v)') + capacity'[v] <= Concurrency
    <2>1. deliveries' \subseteq deliveries
      BY <1>4 DEF ReceiveEmpty, ReceiveFails, Lifecycle, Drain, Stop, Crash, Restart
    <2>2. capacity' = capacity \/ capacity' = [capacity EXCEPT ![w] = 0]
      BY <1>4 DEF ReceiveEmpty, ReceiveFails, Lifecycle, Drain, Stop, Crash, Restart
    <2> QED BY <2>1, <2>2, <1>a, <1>b
  <1>5. ASSUME NEW d \in deliveries, RunTask(d) \/ KeepAlive(d) \/ SuccessPathThrows(d)
        PROVE  Cardinality(Active(v)') + capacity'[v] <= Concurrency
    <2>1. capacity' = capacity
      BY <1>5 DEF RunTask, Begin, HandleReturns, HandleThrows, Ack, Nack, Report, KeepAlive,
                  SuccessPathThrows
    <2>2. deliveries' \subseteq deliveries \/ \E pc \in DeliveryPc : MoveTo(d, pc)
      BY <1>5, AfterThrowType
      DEF RunTask, Begin, HandleReturns, HandleThrows, Ack, Nack, Report, KeepAlive,
          SuccessPathThrows, Finish, DeliveryPc
    <2>3. CASE deliveries' \subseteq deliveries
      BY <2>1, <2>3, <1>a, <1>b
    <2>4. CASE \E pc \in DeliveryPc : MoveTo(d, pc)
      BY <2>1, <2>4, <1>a, MoveToActive
    <2> QED BY <2>2, <2>3, <2>4
  <1>6. CASE UNCHANGED vars
    BY <1>6, <1>a, <1>b DEF vars
  <1> QED BY <1>1, <1>2, <1>3, <1>4, <1>5, <1>6 DEF Next, Receive

\* No process ever runs more tasks at once than its concurrency allows, whatever the size
\* of the batches and however long a receive() takes.
THEOREM CeilingHolds == Spec => []ConcurrencyCeiling
  <1>1. Init => ConcurrencyCeiling
    <2> SUFFICES ASSUME Init, NEW w \in Worker
                 PROVE  Cardinality(Active(w)) + capacity[w] <= Concurrency
      BY DEF ConcurrencyCeiling
    <2>1. Active(w) = {} /\ capacity[w] = 0
      BY DEF Init, Active
    <2> QED BY <2>1, FS_EmptySet, QueueAssumption
  <1>2. TypeInv /\ ConcurrencyCeiling /\ [Next]_vars => ConcurrencyCeiling'
    BY CeilingStep
  <1> QED BY <1>1, <1>2, Leases, PTL DEF Spec

(***************************************************************************)
(* The queue implements Worklist.  What the simulation needs beyond        *)
(* LeaseInv is that each announced completion used up a claim of its own.  *)
(***************************************************************************)

\* The deliveries of a task that may still announce it as completed.
CompletingPc  == {"received", "handling", "ackSucceeded", "reportSucceeded"}
Completing(t) == {d \in deliveries : d.task = t /\ d.pc \in CompletingPc}

CompletionsBacked ==
  \A t \in Task : events[t].completed + Cardinality(Completing(t)) <= row[t].receiveCount

LEMMA CompletingFinite ==
  ASSUME TypeInv, NEW t
  PROVE  IsFiniteSet(Completing(t)) /\ Cardinality(Completing(t)) \in Nat
  <1>1. Completing(t) \in SUBSET deliveries
    BY DEF Completing
  <1> QED BY <1>1, FS_Subset, FS_CardinalityType DEF TypeInv

\* Where no delivery becomes able to complete its task, there are no more of them.
LEMMA FewerCompleting ==
  ASSUME TypeInv, NEW t, Completing(t)' \subseteq Completing(t)
  PROVE  /\ Cardinality(Completing(t)') \in Nat
         /\ Cardinality(Completing(t)') <= Cardinality(Completing(t))
  BY CompletingFinite, FS_Subset, FS_CardinalityType

LEMMA MoveToCompleting ==
  ASSUME TypeInv, NEW d \in deliveries, NEW pc \in DeliveryPc, MoveTo(d, pc), NEW t \in Task,
         pc \in CompletingPc => d.pc \in CompletingPc
  PROVE  /\ Cardinality(Completing(t)') \in Nat
         /\ Cardinality(Completing(t)') <= Cardinality(Completing(t))
         /\ (d.task = t /\ d.pc \in CompletingPc /\ pc \notin CompletingPc)
              => Cardinality(Completing(t)') <= Cardinality(Completing(t)) - 1
  <1> DEFINE n == [d EXCEPT !.pc = pc]
  <1>1. n.task = d.task /\ n.pc = pc
    BY DEF TypeInv, TypeOK, Delivery
  <1>2. deliveries' = (deliveries \ {d}) \cup {n}
    BY DEF MoveTo
  <1> HIDE DEF n
  <1>3. CASE d.task = t /\ d.pc \in CompletingPc
    <2>1. d \in Completing(t)
      BY <1>3 DEF Completing
    <2>2. /\ IsFiniteSet(Completing(t) \ {d})
          /\ Cardinality(Completing(t) \ {d}) = Cardinality(Completing(t)) - 1
      BY <2>1, CompletingFinite, FS_RemoveElement
    <2>3. CASE pc \in CompletingPc
      <3>1. Completing(t)' = (Completing(t) \ {d}) \cup {n}
        BY <1>1, <1>2, <1>3, <2>3 DEF Completing
      <3> DEFINE rest == Completing(t) \ {d}
      <3>2. IsFiniteSet(rest) /\ Cardinality(rest) \in Nat
        BY <2>2, FS_CardinalityType
      <3> HIDE DEF rest
      <3>3. /\ IsFiniteSet(rest \cup {n})
            /\ Cardinality(rest \cup {n})
                 = IF n \in rest THEN Cardinality(rest) ELSE Cardinality(rest) + 1
        BY <3>2, FS_AddElement, Zenon
      <3>4. /\ IsFiniteSet(Completing(t)')
            /\ Cardinality(Completing(t)') <= Cardinality(Completing(t) \ {d}) + 1
        BY <3>1, <3>2, <3>3 DEF rest
      <3> QED BY <2>2, <2>3, <3>4, CompletingFinite, FS_CardinalityType
    <2>4. CASE pc \notin CompletingPc
      <3>1. Completing(t)' = Completing(t) \ {d}
        BY <1>1, <1>2, <1>3, <2>4 DEF Completing
      <3> QED BY <2>2, <3>1, CompletingFinite, FS_CardinalityType
    <2> QED BY <2>3, <2>4
  <1>4. CASE d.task # t \/ d.pc \notin CompletingPc
    <2>1. Completing(t)' \subseteq Completing(t)
      BY <1>1, <1>2, <1>4 DEF Completing
    <2> QED BY <1>4, <2>1, FewerCompleting
  <1> QED BY <1>3, <1>4

\* The set a claim may take, and what it does to the count.
LEMMA ClaimBacked ==
  ASSUME TypeInv, CompletionsBacked, NEW w \in Worker, NEW B \in SUBSET Visible, ClaimRows(B),
         UNCHANGED events,
         \/ UNCHANGED deliveries
         \/ deliveries' = deliveries \cup {NewDelivery(t, w) : t \in B}
  PROVE  CompletionsBacked'
  <1> SUFFICES ASSUME NEW t \in Task
               PROVE  events[t].completed + Cardinality(Completing(t)') <= row'[t].receiveCount
    BY DEF CompletionsBacked
  <1>1. /\ events[t].completed \in Nat /\ row[t].receiveCount \in Nat
        /\ Cardinality(Completing(t)) \in Nat /\ IsFiniteSet(Completing(t))
        /\ events[t].completed + Cardinality(Completing(t)) <= row[t].receiveCount
    BY CompletingFinite DEF TypeInv, TypeOK, Row, CompletionsBacked
  <1>2. /\ t \in B => row'[t].receiveCount = row[t].receiveCount + 1
        /\ t \notin B => row'[t].receiveCount = row[t].receiveCount
    BY DEF ClaimRows, Claimed
  <1>3. Completing(t)' \subseteq Completing(t) \cup {NewDelivery(t, w)}
    BY DEF Completing, NewDelivery
  <1>4. t \notin B => Completing(t)' \subseteq Completing(t)
    BY DEF Completing, NewDelivery
  <1>5. /\ IsFiniteSet(Completing(t) \cup {NewDelivery(t, w)})
        /\ Cardinality(Completing(t) \cup {NewDelivery(t, w)}) <= Cardinality(Completing(t)) + 1
    <2>1. /\ IsFiniteSet(Completing(t) \cup {NewDelivery(t, w)})
          /\ Cardinality(Completing(t) \cup {NewDelivery(t, w)}) =
               IF NewDelivery(t, w) \in Completing(t) THEN Cardinality(Completing(t))
               ELSE Cardinality(Completing(t)) + 1
      BY <1>1, FS_AddElement, Zenon
    <2> QED BY <2>1, <1>1
  <1>6. /\ Cardinality(Completing(t)') \in Nat
        /\ Cardinality(Completing(t)') <= Cardinality(Completing(t) \cup {NewDelivery(t, w)})
        /\ Cardinality(Completing(t) \cup {NewDelivery(t, w)}) \in Nat
    BY <1>3, <1>5, FS_Subset, FS_CardinalityType
  <1>7. CASE t \in B
    BY <1>1, <1>2, <1>5, <1>6, <1>7
  <1>8. CASE t \notin B
    BY <1>1, <1>2, <1>4, <1>8, FewerCompleting
  <1> QED BY <1>7, <1>8

\* Every step keeps the completions backed by claims.
LEMMA BackedStep == TypeInv /\ CompletionsBacked /\ [Next]_vars => CompletionsBacked'
  <1> SUFFICES ASSUME TypeInv, CompletionsBacked, [Next]_vars PROVE CompletionsBacked'
    OBVIOUS
  <1>a. \A t \in Task :
          /\ events[t].completed \in Nat /\ row[t].receiveCount \in Nat
          /\ Cardinality(Completing(t)) \in Nat
          /\ events[t].completed + Cardinality(Completing(t)) <= row[t].receiveCount
    BY CompletingFinite DEF TypeInv, TypeOK, Row, CompletionsBacked
  <1>b. \A d \in deliveries : d.task \in Task
    BY DEF TypeInv, TypeOK, Delivery
  <1>c. row \in [Task -> Row] /\ events \in [Task -> [completed : Nat, failed : Nat]]
    BY DEF TypeInv, TypeOK
  <1>d. ASSUME deliveries' \subseteq deliveries,
               \A t \in Task : /\ row'[t].receiveCount = row[t].receiveCount
                               /\ events'[t].completed = events[t].completed
        PROVE  CompletionsBacked'
    <2> SUFFICES ASSUME NEW t \in Task
                 PROVE  events'[t].completed + Cardinality(Completing(t)') <= row'[t].receiveCount
      BY DEF CompletionsBacked
    <2>1. Completing(t)' \subseteq Completing(t)
      BY <1>d DEF Completing
    <2> QED BY <2>1, <1>a, <1>d, FewerCompleting
  <1>e. ASSUME NEW d \in deliveries, NEW pc \in DeliveryPc, MoveTo(d, pc),
               pc \in CompletingPc => d.pc \in CompletingPc,
               \A t \in Task : /\ row'[t].receiveCount = row[t].receiveCount
                               /\ events'[t].completed = events[t].completed
        PROVE  CompletionsBacked'
    <2> SUFFICES ASSUME NEW t \in Task
                 PROVE  events'[t].completed + Cardinality(Completing(t)') <= row'[t].receiveCount
      BY DEF CompletionsBacked
    <2> QED BY <1>a, <1>e, MoveToCompleting
  <1>f. ASSUME NEW d \in deliveries, Publish(d)
        PROVE  \A t \in Task :
                 events'[t].completed = IF t = d.task /\ d.pc = "reportSucceeded"
                                        THEN events[t].completed + 1 ELSE events[t].completed
    BY <1>f, <1>b, <1>c DEF Publish
  <1>1. ASSUME NEW t \in Task, Send(t) \/ Time(t) PROVE CompletionsBacked'
    <2>1. \A u \in Task : row'[u].receiveCount = row[u].receiveCount
      BY <1>1, <1>c DEF Send, Time, Expire, BackoffElapses, LeaseLapses, Row
    <2> QED BY <1>1, <1>d, <2>1 DEF Send, Time, Expire, BackoffElapses, LeaseLapses
  <1>2. ASSUME NEW w \in Worker, Claim(w) \/ ReceiveFails(w) PROVE CompletionsBacked'
    <2>1. UNCHANGED events
      BY <1>2 DEF Claim, ReceiveFails
    <2>2. CASE UNCHANGED <<row, deliveries>>
      BY <2>1, <2>2, <1>d
    <2>3. CASE \E B \in Batches(capacity[w]) :
                 /\ ClaimRows(B)
                 /\ \/ UNCHANGED deliveries
                    \/ deliveries' = deliveries \cup {NewDelivery(t, w) : t \in B}
      BY <2>1, <2>3, ClaimBacked DEF Batches
    <2> QED BY <1>2, <2>2, <2>3 DEF Claim, ReceiveFails
  <1>3. ASSUME NEW w \in Worker, Poll(w) \/ ReceiveEmpty(w) \/ Lifecycle(w)
        PROVE  CompletionsBacked'
    BY <1>3, <1>d DEF Poll, ReceiveEmpty, Lifecycle, Drain, Stop, Crash, Restart
  <1>4. ASSUME NEW d \in deliveries, Begin(d) \/ HandleReturns(d) \/ HandleThrows(d)
        PROVE  CompletionsBacked'
    <2>1. PICK pc \in DeliveryPc : MoveTo(d, pc) /\ d.pc \in CompletingPc
      BY <1>4, AfterThrowType
      DEF Begin, HandleReturns, HandleThrows, DeliveryPc, CompletingPc
    <2> QED BY <1>4, <2>1, <1>e DEF Begin, HandleReturns, HandleThrows
  <1>5. ASSUME NEW d \in deliveries, KeepAlive(d) PROVE CompletionsBacked'
    <2>1. \A u \in Task : row'[u].receiveCount = row[u].receiveCount
      BY <1>5, <1>b, <1>c DEF KeepAlive, Row
    <2> QED BY <1>5, <2>1, <1>d DEF KeepAlive
  <1>6. ASSUME NEW d \in deliveries, Ack(d) PROVE CompletionsBacked'
    <2>1. PICK pc \in DeliveryPc : MoveTo(d, pc) /\ (pc \in CompletingPc => d.pc \in CompletingPc)
      BY <1>6 DEF Ack, DeliveryPc, CompletingPc
    <2>2. \A u \in Task : row'[u].receiveCount = row[u].receiveCount
      BY <1>6, <1>b, <1>c DEF Ack, Row
    <2> QED BY <1>6, <2>1, <2>2, <1>e DEF Ack
  <1>7. ASSUME NEW d \in deliveries, Nack(d) PROVE CompletionsBacked'
    <2>1. \A u \in Task : row'[u].receiveCount = row[u].receiveCount
      BY <1>7, <1>b, <1>c DEF Nack, Row
    <2> QED BY <1>7, <2>1, <1>d DEF Nack, Finish
  <1>8. ASSUME NEW d \in deliveries, Report(d) PROVE CompletionsBacked'
    <2> SUFFICES ASSUME NEW t \in Task
                 PROVE  events'[t].completed + Cardinality(Completing(t)') <= row'[t].receiveCount
      BY DEF CompletionsBacked
    <2>1. row' = row /\ deliveries' = deliveries \ {d} /\ Publish(d)
      BY <1>8 DEF Report, Finish
    <2>2. CASE t = d.task /\ d.pc = "reportSucceeded"
      <3>1. Completing(t)' = Completing(t) \ {d} /\ d \in Completing(t)
        BY <2>1, <2>2 DEF Completing, CompletingPc
      <3>2. Cardinality(Completing(t)') = Cardinality(Completing(t)) - 1
        BY <3>1, CompletingFinite, FS_RemoveElement
      <3> QED BY <2>1, <2>2, <3>2, <1>a, <1>f
    <2>3. CASE ~(t = d.task /\ d.pc = "reportSucceeded")
      <3>1. Completing(t)' \subseteq Completing(t)
        BY <2>1 DEF Completing
      <3> QED BY <2>1, <2>3, <3>1, <1>a, <1>f, FewerCompleting
    <2> QED BY <2>2, <2>3
  <1>9. ASSUME NEW d \in deliveries, SuccessPathThrows(d) PROVE CompletionsBacked'
    <2>1. PICK pc \in DeliveryPc : MoveTo(d, pc) /\ pc \notin CompletingPc
      BY <1>9 DEF SuccessPathThrows, AfterThrow, DeliveryPc, CompletingPc
    <2>2. row' = row
      BY <1>9 DEF SuccessPathThrows
    <2>3. CASE UNCHANGED events
      BY <2>1, <2>2, <2>3, <1>e
    <2>4. CASE d.pc = "reportSucceeded" /\ Publish(d)
      <3> SUFFICES ASSUME NEW t \in Task
                   PROVE  events'[t].completed + Cardinality(Completing(t)') <= row'[t].receiveCount
        BY DEF CompletionsBacked
      <3>1. /\ Cardinality(Completing(t)') \in Nat
            /\ Cardinality(Completing(t)') <= Cardinality(Completing(t))
            /\ t = d.task => Cardinality(Completing(t)') <= Cardinality(Completing(t)) - 1
        BY <2>1, <2>4, MoveToCompleting DEF CompletingPc
      <3> QED BY <2>2, <2>4, <3>1, <1>a, <1>f
    <2> QED BY <1>9, <2>3, <2>4 DEF SuccessPathThrows
  <1>10. CASE UNCHANGED vars
    BY <1>10, <1>d DEF vars
  <1> QED
    BY <1>1, <1>2, <1>3, <1>4, <1>5, <1>6, <1>7, <1>8, <1>9, <1>10 DEF Next, Receive, RunTask

\* A step that leaves status, claims and completions alone is a stutter of Worklist.
LEMMA StutterStep ==
  ASSUME TypeInv,
         \A t \in Task : /\ row'[t].status = row[t].status
                         /\ row'[t].receiveCount = row[t].receiveCount
                         /\ events'[t].completed = events[t].completed
  PROVE  UNCHANGED Abstract!wvars
  <1>1. \A t \in Task : TaskState(t)' = TaskState(t)
    BY DEF TaskState
  <1> HIDE DEF TaskState
  <1>2. [t \in Task |-> TaskState(t)'] = [t \in Task |-> TaskState(t)]
    BY <1>1
  <1>3. [t \in Task |-> row'[t].receiveCount] = [t \in Task |-> row[t].receiveCount]
    OBVIOUS
  <1>4. [t \in Task |-> events'[t].completed] = [t \in Task |-> events[t].completed]
    OBVIOUS
  <1> QED BY <1>2, <1>3, <1>4 DEF Abstract!wvars

\* A step that changes the status of one row only changes the state of one task.
LEMMA OneTaskMoves ==
  ASSUME TypeInv, NEW t \in Task,
         \A u \in Task : /\ row'[u].receiveCount = row[u].receiveCount
                         /\ u # t => row'[u].status = row[u].status,
         UNCHANGED events
  PROVE  /\ [u \in Task |-> TaskState(u)'] = [[u \in Task |-> TaskState(u)] EXCEPT ![t] = TaskState(t)']
         /\ [u \in Task |-> row'[u].receiveCount] = [u \in Task |-> row[u].receiveCount]
         /\ [u \in Task |-> events'[u].completed] = [u \in Task |-> events[u].completed]
  <1>1. \A u \in Task \ {t} : TaskState(u)' = TaskState(u)
    BY DEF TaskState
  <1> HIDE DEF TaskState
  <1> QED BY <1>1

\* A claim is a Lease of its batch.
LEMMA ClaimLeases ==
  ASSUME TypeInv, NEW B \in SUBSET Visible, ClaimRows(B), UNCHANGED events
  PROVE  \E C \in SUBSET Task : Abstract!Lease(C)
  <1>1. B \in SUBSET Task /\ \A t \in B : Stored(t)
    BY DEF Visible
  <1>2. \A t \in B : TaskState(t) \in {"ready", "leased"}
    BY <1>1 DEF TaskState, Stored
  <1>3. \A t \in Task : /\ t \in B => row'[t].status = "in_flight"
                        /\ t \notin B => row'[t].status = row[t].status
                        /\ row'[t].receiveCount = IF t \in B THEN row[t].receiveCount + 1
                                                  ELSE row[t].receiveCount
    BY DEF ClaimRows, Claimed
  <1>4. \A t \in Task : TaskState(t)' = IF t \in B THEN "leased" ELSE TaskState(t)
    <2> SUFFICES ASSUME NEW t \in Task
                 PROVE  TaskState(t)' = IF t \in B THEN "leased" ELSE TaskState(t)
      OBVIOUS
    <2>1. CASE t \in B
      <3>1. TaskState(t)' = "leased"
        BY <1>3, <2>1 DEF TaskState
      <3> QED BY <2>1, <3>1
    <2>2. CASE t \notin B
      <3>1. TaskState(t)' = TaskState(t)
        BY <1>3, <2>2 DEF TaskState
      <3> QED BY <2>2, <3>1
    <2> QED BY <2>1, <2>2
  <1>5. [t \in Task |-> TaskState(t)']
          = [t \in Task |-> IF t \in B THEN "leased" ELSE [u \in Task |-> TaskState(u)][t]]
    BY <1>4, Zenon
  <1>6. [t \in Task |-> row'[t].receiveCount]
          = [t \in Task |-> IF t \in B THEN [u \in Task |-> row[u].receiveCount][t] + 1
                            ELSE [u \in Task |-> row[u].receiveCount][t]]
    BY <1>3
  <1>7. [t \in Task |-> events'[t].completed] = [t \in Task |-> events[t].completed]
    OBVIOUS
  <1>8. \A t \in B : [u \in Task |-> TaskState(u)][t] \in {"ready", "leased"}
    BY <1>1, <1>2, Zenon
  <1>9. Abstract!Lease(B)
    BY <1>5, <1>6, <1>7, <1>8, Zenon DEF Abstract!Lease
  <1> QED BY <1>1, <1>9

\* Announcing a completion is a Complete of the task.
LEMMA PublishCompletes ==
  ASSUME TypeInv, CompletionsBacked, NEW d \in deliveries, Publish(d), row' = row
  PROVE  Abstract!Complete(d.task) \/ UNCHANGED Abstract!wvars
  <1>1. d.task \in Task /\ events \in [Task -> [completed : Nat, failed : Nat]]
    BY DEF TypeInv, TypeOK, Delivery
  <1>2. CASE d.pc = "reportSucceeded"
    <2>1. d \in Completing(d.task)
      BY <1>2 DEF Completing, CompletingPc
    <2>2. Cardinality(Completing(d.task)) >= 1
      <3>1. Cardinality(Completing(d.task)) # 0
        BY <2>1, CompletingFinite, FS_EmptySet
      <3> QED BY <3>1, CompletingFinite
    <2>3. events[d.task].completed < row[d.task].receiveCount
      BY <1>1, <2>2, CompletingFinite DEF CompletionsBacked, TypeInv, TypeOK, Row
    <2>4. \A t \in Task : events'[t].completed = IF t = d.task THEN events[t].completed + 1
                                                 ELSE events[t].completed
      BY <1>1, <1>2 DEF Publish
    <2>5. [t \in Task |-> events'[t].completed]
            = [[t \in Task |-> events[t].completed] EXCEPT ![d.task] = @ + 1]
      BY <1>1, <2>4
    <2>6. [t \in Task |-> TaskState(t)'] = [t \in Task |-> TaskState(t)]
      BY DEF TaskState
    <2> QED BY <1>1, <2>3, <2>5, <2>6 DEF Abstract!Complete
  <1>3. CASE d.pc # "reportSucceeded"
    <2>1. \A t \in Task : events'[t].completed = events[t].completed
      BY <1>1, <1>3 DEF Publish
    <2> QED BY <2>1, StutterStep
  <1> QED BY <1>2, <1>3

\* Every step of the queue is a step of Worklist or a stutter.
LEMMA Simulation ==
  TypeInv /\ LeaseInv /\ CompletionsBacked /\ [Next]_vars => [Abstract!Next]_(Abstract!wvars)
  <1> SUFFICES ASSUME TypeInv, LeaseInv, CompletionsBacked, [Next]_vars
               PROVE  Abstract!Next \/ UNCHANGED Abstract!wvars
    OBVIOUS
  <1>a. row \in [Task -> Row] /\ \A d \in deliveries : d.task \in Task
    BY DEF TypeInv, TypeOK, Delivery
  <1>1. ASSUME NEW t \in Task, Send(t) PROVE Abstract!Next
    <2>1. \A u \in Task : /\ row'[u].receiveCount = row[u].receiveCount
                          /\ u # t => row'[u].status = row[u].status
      BY <1>1, <1>a DEF Send, Row
    <2>2. TaskState(t) = "unsent" /\ TaskState(t)' = "ready" /\ UNCHANGED events
      BY <1>1, <1>a DEF Send, TaskState, Row
    <2>3. Abstract!Submit(t)
      BY <2>1, <2>2, OneTaskMoves, Zenon DEF Abstract!Submit
    <2> QED BY <2>3 DEF Abstract!Next
  <1>2. ASSUME NEW t \in Task, Time(t) PROVE UNCHANGED Abstract!wvars
    <2>1. \A u \in Task : /\ row'[u].receiveCount = row[u].receiveCount
                          /\ row'[u].status = row[u].status
      BY <1>2, <1>a DEF Time, Expire, BackoffElapses, LeaseLapses, Row
    <2> QED BY <1>2, <2>1, StutterStep DEF Time, Expire, BackoffElapses, LeaseLapses
  <1>3. ASSUME NEW w \in Worker, Receive(w) PROVE Abstract!Next \/ UNCHANGED Abstract!wvars
    <2>1. UNCHANGED events
      BY <1>3 DEF Receive, Poll, Claim, ReceiveEmpty, ReceiveFails
    <2>2. CASE UNCHANGED row
      BY <2>1, <2>2, StutterStep
    <2>3. CASE \E B \in Batches(capacity[w]) : ClaimRows(B)
      BY <2>1, <2>3, ClaimLeases DEF Batches, Abstract!Next
    <2> QED BY <1>3, <2>2, <2>3 DEF Receive, Poll, Claim, ReceiveEmpty, ReceiveFails
  <1>4. ASSUME NEW w \in Worker, Lifecycle(w) PROVE UNCHANGED Abstract!wvars
    BY <1>4, StutterStep DEF Lifecycle, Drain, Stop, Crash, Restart
  <1>5. ASSUME NEW d \in deliveries, Begin(d) \/ HandleReturns(d) \/ HandleThrows(d)
        PROVE  UNCHANGED Abstract!wvars
    BY <1>5, StutterStep DEF Begin, HandleReturns, HandleThrows
  <1>6. ASSUME NEW d \in deliveries, KeepAlive(d) PROVE UNCHANGED Abstract!wvars
    <2>1. \A u \in Task : /\ row'[u].receiveCount = row[u].receiveCount
                          /\ row'[u].status = row[u].status
      BY <1>6, <1>a DEF KeepAlive, Row
    <2> QED BY <1>6, <2>1, StutterStep DEF KeepAlive
  <1>7. ASSUME NEW d \in deliveries, Ack(d) PROVE Abstract!Next \/ UNCHANGED Abstract!wvars
    <2>1. UNCHANGED events
      BY <1>7 DEF Ack
    <2>2. CASE ~Matches(d)
      BY <1>7, <2>1, <2>2, StutterStep DEF Ack
    <2>3. CASE Matches(d)
      <3>1. TaskState(d.task) = "leased"
        BY <2>3 DEF LeaseInv, OneLeaseHolder, TaskState
      <3>2. /\ \A u \in Task : /\ row'[u].receiveCount = row[u].receiveCount
                               /\ u # d.task => row'[u].status = row[u].status
            /\ row'[d.task].status = "deleted"
        BY <1>7, <2>3, <1>a DEF Ack, Row
      <3>3. TaskState(d.task)' = "closed"
        BY <3>2 DEF TaskState
      <3>4. Abstract!Close(d.task)
        BY <2>1, <3>1, <3>2, <3>3, <1>a, OneTaskMoves, Zenon DEF Abstract!Close
      <3> QED BY <3>4, <1>a DEF Abstract!Next
    <2> QED BY <2>2, <2>3
  <1>8. ASSUME NEW d \in deliveries, Nack(d) PROVE Abstract!Next \/ UNCHANGED Abstract!wvars
    <2>1. UNCHANGED events
      BY <1>8 DEF Nack
    <2>2. CASE ~Matches(d)
      BY <1>8, <2>1, <2>2, StutterStep DEF Nack
    <2>3. CASE Matches(d)
      <3>1. TaskState(d.task) = "leased"
        BY <2>3 DEF LeaseInv, OneLeaseHolder, TaskState
      <3>2. row[d.task].receiveCount < MaxAttempts
        BY <1>8, <2>3, <1>a DEF Nack, Matches, LeaseInv, TokensNumberClaims, TokensWereIssued,
                                NackHasAttemptsLeft
      <3>3. /\ \A u \in Task : /\ row'[u].receiveCount = row[u].receiveCount
                               /\ u # d.task => row'[u].status = row[u].status
            /\ row'[d.task].status = "pending"
        BY <1>8, <2>3, <1>a DEF Nack, Row
      <3>4. TaskState(d.task)' = "ready"
        BY <3>3 DEF TaskState
      <3>5. Abstract!Release(d.task)
        BY <2>1, <3>1, <3>2, <3>3, <3>4, <1>a, OneTaskMoves, Zenon DEF Abstract!Release
      <3> QED BY <3>5, <1>a DEF Abstract!Next
    <2> QED BY <2>2, <2>3
  <1>9. ASSUME NEW d \in deliveries, Report(d) \/ SuccessPathThrows(d)
        PROVE  Abstract!Next \/ UNCHANGED Abstract!wvars
    <2>1. row' = row /\ (UNCHANGED events \/ Publish(d))
      BY <1>9 DEF Report, SuccessPathThrows
    <2>2. CASE UNCHANGED events
      BY <2>1, <2>2, StutterStep
    <2>3. CASE Publish(d)
      BY <2>1, <2>3, <1>a, PublishCompletes DEF Abstract!Next
    <2> QED BY <2>1, <2>2, <2>3
  <1>10. CASE UNCHANGED vars
    BY <1>10, StutterStep DEF vars
  <1> QED
    BY <1>1, <1>2, <1>3, <1>4, <1>5, <1>6, <1>7, <1>8, <1>9, <1>10 DEF Next, RunTask

\* The queue keeps the promises of Worklist for any number of tasks, processes, attempts,
\* lapses and faults.
THEOREM QueueImplementsWorklist == Spec => ImplementsWorklist
  <1>1. Init => Abstract!Init
    BY DEF Init, Abstract!Init, TaskState
  <1>2. Init => CompletionsBacked
    <2> SUFFICES ASSUME Init, NEW t \in Task
                 PROVE  events[t].completed + Cardinality(Completing(t)) <= row[t].receiveCount
      BY DEF CompletionsBacked
    <2>1. Completing(t) = {}
      BY DEF Init, Completing
    <2> QED BY <2>1, FS_EmptySet DEF Init
  <1> QED BY <1>1, <1>2, Leases, BackedStep, Simulation, PTL
          DEF Spec, ImplementsWorklist, Abstract!Spec

(***************************************************************************)
(* Outcomes.  The count of completions is not inductive: what a task may   *)
(* still complete for free is one more claim, as long as the row is open - *)
(* not settled, and not leased to a delivery that may complete it before   *)
(* its lease lapses.                                                       *)
(***************************************************************************)

Completer(t) == \E d \in Completing(t) : Matches(d)
Open(t)      == row[t].status # "deleted" /\ (row[t].visible \/ ~Completer(t))
FreeClaim(t) == IF Open(t) THEN 1 ELSE 0

LapsesPay ==
  \A t \in Task :
    events[t].completed + Cardinality(Completing(t)) + FreeClaim(t) <= 1 + lapses[t]

\* A delivery that reports has settled its row, or lost it.
ReportsAreLast == \A d \in deliveries : d.pc \in {"reportSucceeded", "reportFailed"} => ~Matches(d)

OutcomeInv == LapsesPay /\ ReportsAreLast

\* A row once lost stays lost: it was deleted, or it has a later token.
LEMMA StaysLost ==
  ASSUME TypeInv, LeaseInv, [Next]_vars, NEW t \in Task, NEW token \in Nat,
         1 <= token, token <= row[t].receiveCount,
         ~(Stored(t) /\ row[t].leaseToken = token)
  PROVE  ~(Stored(t)' /\ row'[t].leaseToken = token)
  <1>r. row \in [Task -> Row]
    BY DEF TypeInv, TypeOK
  <1>0. /\ row[t].leaseToken = row[t].receiveCount
        /\ row[t].status = "unsent" => row[t].receiveCount = 0
    BY DEF LeaseInv, TokensNumberClaims
  <1>1. ASSUME row' = row PROVE ~(Stored(t)' /\ row'[t].leaseToken = token)
    BY <1>1 DEF Stored
  <1>2. ASSUME NEW u \in Task, Send(u) \/ Time(u)
        PROVE  ~(Stored(t)' /\ row'[t].leaseToken = token)
    <2>1. row'[t].leaseToken = row[t].leaseToken
      BY <1>r, <1>2 DEF Row, Send, Time, Expire, BackoffElapses, LeaseLapses
    <2>2. row'[t].status = row[t].status \/ row[t].status = "unsent"
      BY <1>r, <1>2 DEF Row, Send, Time, Expire, BackoffElapses, LeaseLapses
    <2>3. row[t].status # "unsent"
      BY <1>0
    <2> QED BY <2>1, <2>2, <2>3 DEF Stored
  <1>3. ASSUME NEW B \in SUBSET Visible, ClaimRows(B)
        PROVE  ~(Stored(t)' /\ row'[t].leaseToken = token)
    <2>1. CASE t \in B
      <3>1. row'[t].leaseToken = row[t].receiveCount + 1
        BY <1>3, <2>1 DEF ClaimRows, Claimed
      <3> QED BY <1>0, <1>r, <3>1 DEF Row
    <2>2. CASE t \notin B
      BY <1>3, <2>2 DEF ClaimRows, Stored
    <2> QED BY <2>1, <2>2
  <1>4. ASSUME NEW w \in Worker, Receive(w) \/ Lifecycle(w)
        PROVE  ~(Stored(t)' /\ row'[t].leaseToken = token)
    BY <1>1, <1>3, <1>4
       DEF Receive, Poll, Claim, ReceiveEmpty, ReceiveFails, Lifecycle, Drain, Stop, Crash,
           Restart, Batches
  <1>5. ASSUME NEW d \in deliveries, RunTask(d) \/ KeepAlive(d) \/ SuccessPathThrows(d)
        PROVE  ~(Stored(t)' /\ row'[t].leaseToken = token)
    <2>1. d.task \in Task
      BY DEF Delivery, TypeInv, TypeOK
    <2>2. CASE Ack(d) \/ Nack(d) \/ KeepAlive(d)
      <3>0. \/ row' = row
            \/ row' = [row EXCEPT ![d.task].status = "deleted", ![d.task].visible = FALSE]
            \/ row' = [row EXCEPT ![d.task].status = "pending", ![d.task].visible = FALSE]
            \/ row' = [row EXCEPT ![d.task].visible = FALSE]
        BY <2>2 DEF Ack, Nack, KeepAlive
      <3>1. row'[t].leaseToken = row[t].leaseToken
        BY <1>r, <2>1, <3>0 DEF Row
      <3>2. CASE d.task = t /\ Matches(d)
        BY <3>1, <3>2 DEF Matches
      <3>3. CASE ~(d.task = t /\ Matches(d))
        <4>1. row'[t] = row[t]
          BY <1>r, <2>1, <2>2, <3>3 DEF Ack, Nack, KeepAlive
        <4> QED BY <4>1 DEF Stored
      <3> QED BY <3>2, <3>3
    <2>3. CASE ~(Ack(d) \/ Nack(d) \/ KeepAlive(d))
      <3>1. row' = row
        BY <1>5, <2>3
           DEF RunTask, Begin, HandleReturns, HandleThrows, Report, SuccessPathThrows
      <3> QED BY <1>1, <3>1
    <2> QED BY <2>2, <2>3
  <1> QED BY <1>1, <1>2, <1>4, <1>5 DEF Next, vars

LEMMA ReportsStep ==
  TypeInv /\ LeaseInv /\ ReportsAreLast /\ [Next]_vars => ReportsAreLast'
  <1> SUFFICES ASSUME TypeInv, LeaseInv, ReportsAreLast, [Next]_vars, NEW e \in deliveries',
                      e.pc \in {"reportSucceeded", "reportFailed"}
               PROVE  ~Matches(e)'
    BY DEF ReportsAreLast
  <1>1. ASSUME NEW d \in deliveries, d.task = e.task, d.token = e.token, ~Matches(d)
        PROVE  ~Matches(e)'
    <2>1. d.task \in Task /\ d.token \in Nat /\ 1 <= d.token
          /\ d.token <= row[d.task].receiveCount
      BY DEF TypeInv, TypeOK, Delivery, LeaseInv, TokensWereIssued
    <2> QED BY <1>1, <2>1, StaysLost DEF Matches, Stored
  <1>2. CASE e \in deliveries
    BY <1>1, <1>2 DEF ReportsAreLast
  <1>3. CASE e \notin deliveries
    <2>1. ASSUME NEW t \in Task, Send(t) \/ Time(t) PROVE FALSE
      BY <1>3, <2>1 DEF Send, Time, Expire, BackoffElapses, LeaseLapses
    <2>2. ASSUME NEW w \in Worker, Receive(w) \/ Lifecycle(w) PROVE FALSE
      BY <1>3, <2>2
         DEF Receive, Poll, Claim, ReceiveEmpty, ReceiveFails, Lifecycle, Drain, Stop, Crash,
             Restart, NewDelivery
    <2>3. ASSUME NEW d \in deliveries, RunTask(d) \/ KeepAlive(d) \/ SuccessPathThrows(d)
          PROVE  ~Matches(e)'
      <3>1. ASSUME NEW pc \in DeliveryPc, MoveTo(d, pc)
            PROVE  e.task = d.task /\ e.token = d.token /\ e.pc = pc
        BY <1>3, <3>1 DEF MoveTo, TypeInv, TypeOK, Delivery
      <3>2. Ack(d)
        BY <1>3, <2>3, <3>1
           DEF RunTask, Begin, HandleReturns, HandleThrows, Nack, Report, KeepAlive,
               SuccessPathThrows, AfterThrow, Finish, DeliveryPc
      <3>3. e.task = d.task /\ e.token = d.token
        BY <3>1, <3>2 DEF Ack, DeliveryPc
      <3>4. CASE Matches(d)
        <4>1. row'[d.task].status = "deleted"
          BY <3>2, <3>4 DEF Ack, TypeInv, TypeOK, Delivery
        <4> QED BY <3>3, <4>1 DEF Matches, Stored
      <3>5. CASE ~Matches(d)
        BY <1>1, <3>3, <3>5
      <3> QED BY <3>4, <3>5
    <2> QED BY <1>3, <2>1, <2>2, <2>3 DEF Next, vars
  <1> QED BY <1>2, <1>3

\* Where the rows stay and no delivery that may complete is lost, no row opens.
LEMMA NoRowOpens ==
  ASSUME NEW t, row' = row,
         \A d \in Completing(t) : Matches(d) =>
           \E e \in Completing(t)' : e.task = d.task /\ e.token = d.token
  PROVE  FreeClaim(t)' <= FreeClaim(t)
  <1>1. Open(t)' => Open(t)
    BY DEF Open, Completer, Matches, Stored
  <1> QED BY <1>1 DEF FreeClaim

\* A delivery that goes on to another statement: none that may complete is lost but itself.
LEMMA MoveKeeps ==
  ASSUME TypeInv, NEW d \in deliveries, NEW pc \in DeliveryPc, MoveTo(d, pc), NEW t \in Task
  PROVE  /\ \A c \in Completing(t) : c # d => c \in Completing(t)'
         /\ d \in Completing(t) /\ pc \in CompletingPc =>
              \E e \in Completing(t)' : e.task = d.task /\ e.token = d.token
  <1> DEFINE n == [d EXCEPT !.pc = pc]
  <1>1. n.task = d.task /\ n.pc = pc /\ n.token = d.token
    BY DEF TypeInv, TypeOK, Delivery
  <1>2. deliveries' = (deliveries \ {d}) \cup {n}
    BY DEF MoveTo
  <1> HIDE DEF n
  <1>3. d \in Completing(t) /\ pc \in CompletingPc => n \in Completing(t)'
    BY <1>1, <1>2 DEF Completing
  <1>4. \A c \in Completing(t) : c # d => c \in Completing(t)'
    BY <1>2 DEF Completing
  <1> QED BY <1>1, <1>3, <1>4

LEMMA LapsesPayStep ==
  TypeInv /\ LeaseInv /\ OutcomeInv /\ [Next]_vars => LapsesPay'
  <1> SUFFICES ASSUME TypeInv, LeaseInv, OutcomeInv, [Next]_vars, NEW t \in Task
               PROVE  events'[t].completed + Cardinality(Completing(t)') + FreeClaim(t)'
                        <= 1 + lapses'[t]
    BY DEF LapsesPay
  <1> DEFINE Paid == events'[t].completed + Cardinality(Completing(t)') + FreeClaim(t)'
                       <= 1 + lapses'[t]
  <1>a. /\ events[t].completed \in Nat /\ lapses[t] \in Nat
        /\ Cardinality(Completing(t)) \in Nat /\ IsFiniteSet(Completing(t))
        /\ events[t].completed + Cardinality(Completing(t)) + FreeClaim(t) <= 1 + lapses[t]
    BY CompletingFinite DEF TypeInv, TypeOK, OutcomeInv, LapsesPay
  <1>b. FreeClaim(t) \in {0, 1} /\ FreeClaim(t)' \in {0, 1}
    BY DEF FreeClaim
  <1>c. \A d \in deliveries : d.task \in Task
    BY DEF TypeInv, TypeOK, Delivery
  <1>d. row \in [Task -> Row] /\ events \in [Task -> [completed : Nat, failed : Nat]]
    BY DEF TypeInv, TypeOK
  \* Nothing but the row changes.
  <1>e. ASSUME UNCHANGED <<deliveries, events, lapses>>, Open(t)' => Open(t) PROVE Paid
    <2>1. Completing(t)' = Completing(t)
      BY <1>e DEF Completing
    <2>2. FreeClaim(t)' <= FreeClaim(t)
      BY <1>e DEF FreeClaim
    <2> QED BY <1>a, <1>b, <1>e, <2>1, <2>2
  \* Another delivery than the completer goes on, or the completer stays one.
  <1>f. ASSUME NEW d \in deliveries, NEW pc \in DeliveryPc, MoveTo(d, pc), row' = row,
               UNCHANGED <<events, lapses>>, pc \in CompletingPc => d.pc \in CompletingPc
        PROVE  Paid
    <2>1. /\ Cardinality(Completing(t)') \in Nat
          /\ Cardinality(Completing(t)') <= Cardinality(Completing(t))
          /\ (d.task = t /\ d.pc \in CompletingPc /\ pc \notin CompletingPc)
               => Cardinality(Completing(t)') <= Cardinality(Completing(t)) - 1
      BY <1>f, MoveToCompleting
    <2>2. CASE d \in Completing(t) /\ pc \notin CompletingPc
      BY <1>a, <1>b, <1>f, <2>1, <2>2 DEF Completing
    <2>3. CASE ~(d \in Completing(t) /\ pc \notin CompletingPc)
      <3>1. FreeClaim(t)' <= FreeClaim(t)
        BY <1>f, <2>3, NoRowOpens, MoveKeeps
      <3> QED BY <1>a, <1>b, <1>f, <2>1, <3>1
    <2> QED BY <2>2, <2>3
  <1>1. ASSUME NEW u \in Task, Send(u) \/ Expire(u) \/ BackoffElapses(u) PROVE Paid
    <2>1. UNCHANGED <<deliveries, events, lapses>>
      BY <1>1 DEF Send, Expire, BackoffElapses
    <2>2. CASE row'[t] = row[t]
      BY <1>e, <2>1, <2>2 DEF Open, Completer, Completing, Matches, Stored
    <2>3. CASE row'[t] # row[t]
      <3>1. u = t /\ row[t].status \in {"unsent", "pending"}
        BY <1>1, <1>d, <2>3 DEF Send, Expire, BackoffElapses
      <3>2. Open(t)
        BY <3>1 DEF Open, Completer, Completing, Matches, Stored, LeaseInv, OneLeaseHolder
      <3> QED BY <1>e, <2>1, <3>2
    <2> QED BY <2>2, <2>3
  <1>2. ASSUME NEW u \in Task, LeaseLapses(u) PROVE Paid
    <2>0. /\ UNCHANGED <<deliveries, events>> /\ Completing(t)' = Completing(t)
          /\ Held(u) => lapses' = [lapses EXCEPT ![u] = @ + 1]
          /\ ~Held(u) => lapses' = lapses
          /\ row' = [row EXCEPT ![u].visible = TRUE]
          /\ row[u].status = "in_flight"
      BY <1>2 DEF LeaseLapses, Completing
    <2>1. CASE u # t
      <3>1. row'[t] = row[t] /\ lapses'[t] = lapses[t]
        BY <2>0, <2>1 DEF TypeInv, TypeOK
      <3>2. FreeClaim(t)' = FreeClaim(t)
        BY <2>0, <3>1 DEF FreeClaim, Open, Completer, Completing, Matches, Stored
      <3> QED BY <1>a, <2>0, <3>1, <3>2
    <2>2. CASE u = t /\ Completer(t)
      <3>1. Held(t)
        BY <2>2 DEF Completer, Completing, Held
      <3>2. lapses'[t] = lapses[t] + 1
        BY <2>0, <2>2, <3>1 DEF TypeInv, TypeOK
      <3> QED BY <1>a, <1>b, <2>0, <3>2
    <2>3. CASE u = t /\ ~Completer(t)
      <3>1. FreeClaim(t) = 1
        BY <2>0, <2>3 DEF FreeClaim, Open
      <3>2. lapses'[t] \in Nat /\ lapses'[t] >= lapses[t]
        BY <2>0 DEF TypeInv, TypeOK
      <3> QED BY <1>a, <1>b, <2>0, <3>1, <3>2
    <2> QED BY <2>1, <2>2, <2>3
  <1>3. ASSUME NEW w \in Worker, NEW B \in SUBSET Visible, ClaimRows(B),
               UNCHANGED <<events, lapses>>,
               \/ UNCHANGED deliveries
               \/ deliveries' = deliveries \cup {NewDelivery(u, w) : u \in B}
        PROVE  Paid
    <2>1. CASE t \notin B
      <3>1. Completing(t)' = Completing(t) /\ row'[t] = row[t]
        BY <1>3, <2>1 DEF Completing, NewDelivery, ClaimRows
      <3>2. FreeClaim(t)' = FreeClaim(t)
        BY <3>1 DEF FreeClaim, Open, Completer, Completing, Matches, Stored
      <3> QED BY <1>3, <1>a, <3>1, <3>2
    <2>2. CASE t \in B /\ UNCHANGED deliveries
      <3>1. Completing(t)' = Completing(t) /\ FreeClaim(t) = 1
        BY <2>2 DEF Completing, FreeClaim, Open, Visible, Stored
      <3> QED BY <1>3, <1>a, <1>b, <3>1
    <2>3. CASE t \in B /\ deliveries' = deliveries \cup {NewDelivery(u, w) : u \in B}
      <3> DEFINE n == NewDelivery(t, w)
      <3>1. FreeClaim(t) = 1
        BY <2>3 DEF FreeClaim, Open, Visible, Stored
      <3>2. n.task = t /\ n.pc = "received" /\ n.token = row'[t].leaseToken
            /\ row'[t].status = "in_flight" /\ row'[t].visible = FALSE
        BY <1>3, <2>3 DEF NewDelivery, ClaimRows, Claimed
      <3>3. Completing(t)' = Completing(t) \cup {n}
        BY <2>3 DEF Completing, NewDelivery, CompletingPc
      <3> HIDE DEF n
      <3>4. ~Open(t)'
        BY <3>2, <3>3 DEF Open, Completer, Matches, Stored
      <3>5. /\ IsFiniteSet(Completing(t) \cup {n})
            /\ Cardinality(Completing(t) \cup {n})
                 = IF n \in Completing(t) THEN Cardinality(Completing(t))
                   ELSE Cardinality(Completing(t)) + 1
        BY <1>a, FS_AddElement, Zenon
      <3>6. /\ Cardinality(Completing(t)') \in Nat
            /\ Cardinality(Completing(t)') <= Cardinality(Completing(t)) + 1
        BY <1>a, <3>3, <3>5, FS_CardinalityType
      <3>7. FreeClaim(t)' = 0
        BY <3>4 DEF FreeClaim
      <3> QED BY <1>3, <1>a, <3>1, <3>6, <3>7
    <2> QED BY <1>3, <2>1, <2>2, <2>3
  <1>4. ASSUME NEW w \in Worker, Claim(w) \/ ReceiveFails(w) PROVE Paid
    <2>1. UNCHANGED <<events, lapses>>
      BY <1>4 DEF Claim, ReceiveFails
    <2>2. CASE UNCHANGED <<row, deliveries>>
      BY <2>1, <2>2, <1>e DEF Open, Completer, Completing, Matches, Stored
    <2>3. CASE \E B \in Batches(capacity[w]) :
                 /\ ClaimRows(B)
                 /\ \/ UNCHANGED deliveries
                    \/ deliveries' = deliveries \cup {NewDelivery(u, w) : u \in B}
      BY <2>1, <2>3, <1>3 DEF Batches
    <2> QED BY <1>4, <2>2, <2>3 DEF Claim, ReceiveFails
  <1>5. ASSUME NEW w \in Worker, Crash(w) PROVE Paid
    <2>1. UNCHANGED <<row, events, lapses>> /\ deliveries' = deliveries \ Active(w)
      BY <1>5 DEF Crash
    <2>2. Completing(t)' \subseteq Completing(t)
      BY <2>1 DEF Completing
    <2>3. /\ Cardinality(Completing(t)') \in Nat
          /\ Cardinality(Completing(t)') <= Cardinality(Completing(t))
      BY <2>2, FewerCompleting
    <2>4. CASE Completing(t)' = Completing(t)
      <3>1. FreeClaim(t)' <= FreeClaim(t)
        BY <2>1, <2>4, NoRowOpens
      <3> QED BY <1>a, <1>b, <2>1, <2>3, <3>1
    <2>5. CASE Completing(t)' # Completing(t)
      <3>1. PICK d \in Completing(t) : d \notin Completing(t)'
        BY <2>2, <2>5
      <3>2. /\ IsFiniteSet(Completing(t) \ {d})
            /\ Cardinality(Completing(t) \ {d}) = Cardinality(Completing(t)) - 1
        BY <1>a, <3>1, FS_RemoveElement
      <3>3. Completing(t)' \subseteq Completing(t) \ {d}
        BY <2>2, <3>1
      <3>4. Cardinality(Completing(t)') <= Cardinality(Completing(t)) - 1
        BY <3>2, <3>3, FS_Subset
      <3> QED BY <1>a, <1>b, <2>1, <2>3, <3>4
    <2> QED BY <2>4, <2>5
  <1>6. ASSUME NEW w \in Worker,
               Poll(w) \/ ReceiveEmpty(w) \/ Drain(w) \/ Stop(w) \/ Restart(w)
        PROVE  Paid
    <2>1. UNCHANGED <<row, deliveries, events, lapses>>
      BY <1>6 DEF Poll, ReceiveEmpty, Drain, Stop, Restart
    <2> QED BY <1>e, <2>1 DEF Open, Completer, Completing, Matches, Stored
  <1>7. ASSUME NEW d \in deliveries, Begin(d) \/ HandleReturns(d) \/ HandleThrows(d) PROVE Paid
    <2>1. PICK pc \in DeliveryPc : MoveTo(d, pc) /\ d.pc \in CompletingPc
      BY <1>7, AfterThrowType
      DEF Begin, HandleReturns, HandleThrows, DeliveryPc, CompletingPc
    <2> QED BY <1>7, <2>1, <1>f DEF Begin, HandleReturns, HandleThrows
  <1>8. ASSUME NEW d \in deliveries, KeepAlive(d) PROVE Paid
    <2>1. UNCHANGED <<deliveries, events, lapses>> /\ Completing(t)' = Completing(t)
      BY <1>8 DEF KeepAlive, Completing
    <2>2. row' = [row EXCEPT ![d.task].visible = FALSE] /\ Matches(d) /\ d.pc = "handling"
      BY <1>8 DEF KeepAlive
    <2>3. Open(t)' => Open(t)
      BY <1>c, <1>d, <2>1, <2>2 DEF Open, Completer, Completing, Matches, Stored, CompletingPc, Row
    <2> QED BY <1>e, <2>1, <2>3
  <1>9. ASSUME NEW d \in deliveries, Ack(d) PROVE Paid
    <2>1. PICK pc \in DeliveryPc : MoveTo(d, pc) /\ (pc \in CompletingPc <=> d.pc \in CompletingPc)
      BY <1>9 DEF Ack, DeliveryPc, CompletingPc
    <2>2. UNCHANGED <<events, lapses>>
      BY <1>9 DEF Ack
    <2>3. CASE Matches(d) /\ d.task = t
      <3>1. row'[t].status = "deleted"
        BY <1>9, <1>d, <2>3 DEF Ack, Row
      <3>2. FreeClaim(t)' = 0
        BY <3>1 DEF FreeClaim, Open
      <3> QED BY <1>a, <1>b, <2>1, <2>2, <3>2, MoveToCompleting
    <2>4. CASE Matches(d) /\ d.task # t
      <3>1. row'[t] = row[t] /\ Completing(t)' = Completing(t)
        BY <1>9, <1>c, <1>d, <2>1, <2>4 DEF Ack, Completing, MoveTo, TypeInv, TypeOK, Delivery
      <3>2. FreeClaim(t)' = FreeClaim(t)
        BY <3>1 DEF FreeClaim, Open, Completer, Completing, Matches, Stored
      <3> QED BY <1>a, <1>b, <2>2, <3>1, <3>2
    <2>5. CASE ~Matches(d)
      <3>1. row' = row
        BY <1>9, <2>5 DEF Ack
      <3> QED BY <1>f, <2>1, <2>2, <3>1
    <2> QED BY <2>3, <2>4, <2>5
  <1>10. ASSUME NEW d \in deliveries, Nack(d) PROVE Paid
    <2>0. /\ UNCHANGED <<events, lapses>> /\ d.pc = "nack" /\ deliveries' = deliveries \ {d}
          /\ d.task \in Task
      BY <1>10, <1>c DEF Nack, Finish
    <2>1. Completing(t)' = Completing(t)
      BY <2>0 DEF Completing, CompletingPc
    <2>2. CASE Matches(d) /\ d.task = t
      <3>1. ~Completer(t)
        BY <2>0, <2>2 DEF Completer, Completing, CompletingPc, Matches, LeaseInv, OneLeaseHolder
      <3>2. Open(t)
        BY <2>2, <3>1 DEF Open, Matches, Stored
      <3>3. FreeClaim(t) = 1
        BY <3>2 DEF FreeClaim
      <3> QED BY <1>a, <1>b, <2>0, <2>1, <3>3
    <2>3. CASE ~(Matches(d) /\ d.task = t)
      <3>1. row'[t] = row[t]
        BY <1>10, <1>d, <2>0, <2>3 DEF Nack
      <3>2. FreeClaim(t)' = FreeClaim(t)
        BY <2>1, <3>1 DEF FreeClaim, Open, Completer, Completing, Matches, Stored
      <3> QED BY <1>a, <1>b, <2>0, <2>1, <3>2
    <2> QED BY <2>2, <2>3
  <1>p. ASSUME NEW d \in deliveries, Publish(d)
        PROVE  events'[t].completed = IF t = d.task /\ d.pc = "reportSucceeded"
                                      THEN events[t].completed + 1 ELSE events[t].completed
    BY <1>p, <1>c, <1>d DEF Publish
  <1>11. ASSUME NEW d \in deliveries, Report(d) PROVE Paid
    <2>1. UNCHANGED <<row, lapses>> /\ deliveries' = deliveries \ {d} /\ Publish(d)
          /\ d.pc \in {"reportSucceeded", "reportFailed"}
      BY <1>11 DEF Report, Finish
    <2>2. ~Matches(d)
      BY <2>1 DEF OutcomeInv, ReportsAreLast
    <2>3. FreeClaim(t)' <= FreeClaim(t)
      BY <2>1, <2>2, NoRowOpens DEF Completing
    <2>4. CASE t = d.task /\ d.pc = "reportSucceeded"
      <3>1. Completing(t)' = Completing(t) \ {d} /\ d \in Completing(t)
        BY <2>1, <2>4 DEF Completing, CompletingPc
      <3>2. Cardinality(Completing(t)') = Cardinality(Completing(t)) - 1
        BY <1>a, <3>1, FS_RemoveElement
      <3> QED BY <2>1, <2>3, <2>4, <3>2, <1>a, <1>b, <1>p
    <2>5. CASE ~(t = d.task /\ d.pc = "reportSucceeded")
      <3>1. Completing(t)' \subseteq Completing(t)
        BY <2>1 DEF Completing
      <3> QED BY <2>1, <2>3, <2>5, <3>1, <1>a, <1>b, <1>p, FewerCompleting
    <2> QED BY <2>4, <2>5
  <1>12. ASSUME NEW d \in deliveries, SuccessPathThrows(d) PROVE Paid
    <2>1. PICK pc \in DeliveryPc : MoveTo(d, pc) /\ pc \notin CompletingPc
      BY <1>12 DEF SuccessPathThrows, AfterThrow, DeliveryPc, CompletingPc
    <2>2. UNCHANGED <<row, lapses>>
      BY <1>12 DEF SuccessPathThrows
    <2>3. CASE UNCHANGED events
      BY <2>1, <2>2, <2>3, <1>f
    <2>4. CASE d.pc = "reportSucceeded" /\ Publish(d)
      <3>1. /\ Cardinality(Completing(t)') \in Nat
            /\ Cardinality(Completing(t)') <= Cardinality(Completing(t))
            /\ t = d.task => Cardinality(Completing(t)') <= Cardinality(Completing(t)) - 1
        BY <2>1, <2>4, MoveToCompleting DEF CompletingPc
      <3>2. ~Matches(d)
        BY <2>4 DEF OutcomeInv, ReportsAreLast
      <3>3. FreeClaim(t)' <= FreeClaim(t)
        BY <2>1, <2>2, <3>2, NoRowOpens, MoveKeeps
      <3> QED BY <2>2, <2>4, <3>1, <3>3, <1>a, <1>b, <1>p
    <2> QED BY <1>12, <2>3, <2>4 DEF SuccessPathThrows
  <1>13. CASE UNCHANGED vars
    BY <1>e, <1>13 DEF vars, Open, Completer, Completing, Matches, Stored
  <1> QED
    BY <1>1, <1>2, <1>4, <1>5, <1>6, <1>7, <1>8, <1>9, <1>10, <1>11, <1>12, <1>13
       DEF Next, Time, Receive, Lifecycle, RunTask

\* Without a fault a delivery that settles its row lives on until it has reported.
LEMMA SettlementTold ==
  ASSUME TypeInv, [Next]_vars, faults' = faults
  PROVE  Unannounced' \subseteq Unannounced
  <1> SUFFICES ASSUME NEW t \in Task, row'[t].status = "deleted", t \notin Unannounced
               PROVE  \/ events'[t].completed + events'[t].failed > 0
                      \/ \E d \in deliveries' :
                           d.task = t /\ d.pc \in {"reportSucceeded", "reportFailed"}
    BY DEF Unannounced, Announced
  <1> DEFINE Told == \/ events'[t].completed + events'[t].failed > 0
                     \/ \E d \in deliveries' :
                          d.task = t /\ d.pc \in {"reportSucceeded", "reportFailed"}
  <1>a. /\ row \in [Task -> Row] /\ events \in [Task -> [completed : Nat, failed : Nat]]
        /\ faults \in Nat /\ \A d \in deliveries : d.task \in Task /\ d \in Delivery
    BY DEF TypeInv, TypeOK, Delivery
  <1>b. ASSUME row[t].status = "deleted"
        PROVE  \/ events[t].completed + events[t].failed > 0
               \/ \E d \in deliveries :
                    d.task = t /\ d.pc \in {"reportSucceeded", "reportFailed"}
    BY <1>b DEF Unannounced, Announced
  <1>c. ASSUME row[t].status = "deleted", faults' = faults, deliveries \subseteq deliveries',
               events' = events
        PROVE  Told
    BY <1>b, <1>c
  <1>d. ASSUME NEW d \in deliveries, NEW pc \in DeliveryPc, MoveTo(d, pc), faults' = faults,
               d.pc \notin {"reportSucceeded", "reportFailed"}, row[t].status = "deleted",
               events' = events
        PROVE  Told
    BY <1>b, <1>d DEF MoveTo
  <1>1. ASSUME NEW u \in Task, Send(u) \/ Time(u) PROVE Told
    <2>1. row'[t].status = row[t].status \/ row'[t].status = "pending"
      BY <1>1, <1>a DEF Send, Time, Expire, BackoffElapses, LeaseLapses, Row
    <2>2. row[t].status = "deleted"
      BY <2>1
    <2> QED BY <1>1, <1>c, <2>2 DEF Send, Time, Expire, BackoffElapses, LeaseLapses
  <1>2. ASSUME NEW w \in Worker, Receive(w) \/ Lifecycle(w) PROVE Told
    <2>1. faults' = faults
      OBVIOUS
    <2>2. ~ReceiveFails(w) /\ ~Crash(w)
      BY <1>a DEF ReceiveFails, Crash, Fault
    <2>3. deliveries \subseteq deliveries' /\ events' = events
      BY <1>2, <2>2 DEF Receive, Poll, Claim, ReceiveEmpty, Lifecycle, Drain, Stop, Restart
    <2>4. row[t].status = "deleted"
      <3>1. CASE Claim(w)
        <4>1. PICK B : ClaimRows(B)
          BY <3>1 DEF Claim
        <4>2. t \notin B
          BY <4>1 DEF ClaimRows, Claimed
        <4> QED BY <4>1, <4>2 DEF ClaimRows
      <3>2. CASE ~Claim(w)
        <4>1. row' = row
          BY <1>2, <2>2, <3>2 DEF Receive, Poll, ReceiveEmpty, Lifecycle, Drain, Stop, Restart
        <4> QED BY <4>1
      <3> QED BY <3>1, <3>2
    <2> QED BY <1>c, <2>1, <2>3, <2>4
  <1>3. ASSUME NEW d \in deliveries, Begin(d) \/ HandleReturns(d) \/ HandleThrows(d) PROVE Told
    <2>1. PICK pc \in DeliveryPc : MoveTo(d, pc)
      BY <1>3, AfterThrowType DEF Begin, HandleReturns, HandleThrows, DeliveryPc
    <2> QED BY <1>3, <2>1, <1>d DEF Begin, HandleReturns, HandleThrows
  <1>4. ASSUME NEW d \in deliveries, KeepAlive(d) PROVE Told
    <2>1. row[t].status = "deleted"
      BY <1>4, <1>a DEF KeepAlive
    <2> QED BY <1>4, <1>c, <2>1 DEF KeepAlive
  <1>5. ASSUME NEW d \in deliveries, Ack(d) PROVE Told
    <2>1. PICK pc \in {"reportSucceeded", "reportFailed"} : MoveTo(d, pc)
      BY <1>5 DEF Ack
    <2>2. CASE d.task = t
      <3>1. [d EXCEPT !.pc = pc].task = t /\ [d EXCEPT !.pc = pc].pc = pc
        BY <1>a, <2>2 DEF Delivery
      <3> QED BY <2>1, <3>1 DEF MoveTo
    <2>3. CASE d.task # t
      <3>1. row'[t] = row[t]
        BY <1>5, <1>a, <2>3 DEF Ack
      <3> QED BY <1>5, <1>d, <2>1, <3>1 DEF Ack, DeliveryPc
    <2> QED BY <2>2, <2>3
  <1>6. ASSUME NEW d \in deliveries, Nack(d) PROVE Told
    <2>1. row[t].status = "deleted"
      BY <1>6, <1>a DEF Nack
    <2> QED BY <1>6, <1>b, <2>1 DEF Nack, Finish
  <1>7. ASSUME NEW d \in deliveries, Report(d) PROVE Told
    <2>1. /\ UNCHANGED <<row, faults>> /\ deliveries' = deliveries \ {d}
          /\ d.pc \in {"reportSucceeded", "reportFailed"}
          /\ Publish(d)
      BY <1>7 DEF Report, Finish
    <2>2. CASE d.task = t
      BY <1>a, <2>1, <2>2 DEF Publish
    <2>3. CASE d.task # t
      <3>1. events'[t] = events[t]
        BY <1>a, <2>1, <2>3 DEF Publish
      <3> QED BY <1>b, <2>1, <2>3, <3>1
    <2> QED BY <2>2, <2>3
  <1>8. ASSUME NEW d \in deliveries, SuccessPathThrows(d) PROVE FALSE
    BY <1>8, <1>a DEF SuccessPathThrows, Fault
  <1>9. CASE UNCHANGED vars
    BY <1>9, <1>c DEF vars
  <1> QED BY <1>1, <1>2, <1>3, <1>4, <1>5, <1>6, <1>7, <1>8, <1>9 DEF Next, RunTask

\* A fault keeps the announcements of one process at most from being published.
LEMMA FaultSilences ==
  ASSUME TypeInv, ConcurrencyCeiling, [Next]_vars, faults' # faults
  PROVE  /\ faults' = faults + 1
         /\ \E S \in SUBSET Task : /\ Unannounced' \subseteq Unannounced \cup S
                                   /\ Cardinality(S) <= Concurrency
  <1> DEFINE Few == \E S \in SUBSET Task : /\ Unannounced' \subseteq Unannounced \cup S
                                           /\ Cardinality(S) <= Concurrency
  <1>a. /\ Concurrency \in Nat \ {0} /\ faults \in Nat /\ deliveries \subseteq Delivery
        /\ row \in [Task -> Row]
    BY QueueAssumption DEF TypeInv, TypeOK
  <1>b. ASSUME Unannounced' \subseteq Unannounced PROVE Few
    <2>1. Cardinality({}) = 0 /\ {} \in SUBSET Task
      BY FS_EmptySet
    <2>2. Cardinality({}) <= Concurrency
      BY <1>a, <2>1
    <2> QED BY <1>b, <2>1, <2>2
  <1>c. ASSUME NEW w \in Worker, Crash(w) PROVE Few
    <2> DEFINE Lost == {d.task : d \in Active(w)}
               taskOf == [d \in Active(w) |-> d.task]
    <2>1. Lost \in SUBSET Task
      BY <1>a DEF Active, Delivery
    <2>2. taskOf \in Surjection(Active(w), Lost)
      BY DEF Surjection
    <2>3. Cardinality(Lost) <= Cardinality(Active(w)) /\ IsFiniteSet(Lost)
      BY <2>2, ActiveFinite, FS_Surjection
    <2>4. Cardinality(Active(w)) + capacity[w] <= Concurrency /\ capacity[w] \in Nat
      BY DEF ConcurrencyCeiling, TypeInv, TypeOK
    <2>5. Cardinality(Lost) <= Concurrency
      BY <1>a, <2>3, <2>4, ActiveFinite, FS_CardinalityType
    <2>6. Unannounced' \subseteq Unannounced \cup Lost
      <3>1. row' = row /\ events' = events /\ deliveries' = deliveries \ Active(w)
        BY <1>c DEF Crash
      <3>2. ASSUME NEW t \in Unannounced', t \notin Unannounced PROVE t \in Lost
        <4>1. t \in Task /\ row[t].status = "deleted" /\ ~Announced(t)' /\ Announced(t)
          BY <3>1, <3>2 DEF Unannounced
        <4>2. PICK d \in deliveries : d.task = t /\ d.pc \in {"reportSucceeded", "reportFailed"}
          BY <3>1, <4>1 DEF Announced
        <4>3. d \notin deliveries'
          BY <4>1, <4>2 DEF Announced
        <4> QED BY <3>1, <4>2, <4>3
      <3> QED BY <3>2
    <2> HIDE DEF Lost
    <2> QED BY <2>1, <2>5, <2>6
  <1>d. ASSUME NEW d \in deliveries, SuccessPathThrows(d) PROVE Few
    <2>1. PICK pc \in DeliveryPc : MoveTo(d, pc)
      BY <1>d, AfterThrowType DEF SuccessPathThrows
    <2>2. row' = row /\ d.task \in Task
      BY <1>a, <1>d DEF SuccessPathThrows, Delivery
    <2>3. \A t \in Task \ {d.task} : events'[t] = events[t]
      BY <1>d DEF SuccessPathThrows, Publish, TypeInv, TypeOK
    <2>4. Unannounced' \subseteq Unannounced \cup {d.task}
      <3>1. ASSUME NEW t \in Task \ {d.task}, Announced(t) PROVE Announced(t)'
        BY <2>1, <2>3, <3>1 DEF Announced, MoveTo
      <3> QED BY <2>2, <3>1 DEF Unannounced
    <2>5. Cardinality({d.task}) = 1
      BY FS_Singleton
    <2>6. Cardinality({d.task}) <= Concurrency
      BY <1>a, <2>5
    <2> QED BY <2>2, <2>4, <2>6
  <1>e. ASSUME NEW w \in Worker, ReceiveFails(w) \/ Drain(w) PROVE Few
    <2>1. UNCHANGED <<deliveries, events>>
      BY <1>e DEF ReceiveFails, Drain
    <2>2. \A t \in Task : row'[t].status = "deleted" => row[t].status = "deleted"
      BY <1>e DEF ReceiveFails, Drain, ClaimRows, Claimed
    <2>3. Unannounced' \subseteq Unannounced
      BY <2>1, <2>2 DEF Unannounced, Announced
    <2> QED BY <1>b, <2>3
  <1>1. ASSUME NEW t \in Task, Send(t) \/ Time(t) PROVE FALSE
    BY <1>1 DEF Send, Time, Expire, BackoffElapses, LeaseLapses
  <1>2. ASSUME NEW w \in Worker, Receive(w) \/ Lifecycle(w) PROVE Few /\ faults' = faults + 1
    <2>1. ReceiveFails(w) \/ Drain(w) \/ Crash(w)
      BY <1>2 DEF Receive, Poll, Claim, ReceiveEmpty, Lifecycle, Stop, Restart
    <2>2. faults' = faults + 1
      BY <2>1 DEF ReceiveFails, Drain, Crash, Fault
    <2> QED BY <1>c, <1>e, <2>1, <2>2
  <1>3. ASSUME NEW d \in deliveries, RunTask(d) \/ KeepAlive(d) \/ SuccessPathThrows(d)
        PROVE  Few /\ faults' = faults + 1
    <2>1. SuccessPathThrows(d)
      BY <1>3 DEF RunTask, Begin, HandleReturns, HandleThrows, Ack, Nack, Report, KeepAlive
    <2>2. faults' = faults + 1
      BY <2>1 DEF SuccessPathThrows, Fault
    <2> QED BY <1>d, <2>1, <2>2
  <1>4. ASSUME UNCHANGED vars PROVE FALSE
    BY <1>4 DEF vars
  <1> HIDE DEF Few
  <1>5. Few /\ faults' = faults + 1
    BY <1>1, <1>2, <1>3, <1>4 DEF Next
  <1> QED BY <1>5 DEF Few

LEMMA SettlementStep ==
  TypeInv /\ ConcurrencyCeiling /\ NoSilentSettlement /\ [Next]_vars => NoSilentSettlement'
  <1> SUFFICES ASSUME TypeInv, ConcurrencyCeiling, NoSilentSettlement, [Next]_vars
               PROVE  Cardinality(Unannounced') <= Concurrency * faults'
    BY DEF NoSilentSettlement
  <1>1. /\ IsFiniteSet(Unannounced) /\ Cardinality(Unannounced) \in Nat
        /\ Concurrency \in Nat /\ faults \in Nat
    <2>1. Unannounced \in SUBSET Task
      BY DEF Unannounced
    <2> QED BY <2>1, QueueAssumption, FS_Subset, FS_CardinalityType DEF TypeInv, TypeOK
  <1>2. Cardinality(Unannounced) <= Concurrency * faults
    BY DEF NoSilentSettlement
  <1>3. CASE faults' = faults
    <2>1. Cardinality(Unannounced') <= Cardinality(Unannounced) /\ IsFiniteSet(Unannounced')
      BY <1>1, <1>3, SettlementTold, FS_Subset
    <2>2. Cardinality(Unannounced') \in Nat
      BY <2>1, FS_CardinalityType
    <2>3. Concurrency * faults \in Nat
      BY <1>1
    <2> QED BY <1>1, <1>2, <1>3, <2>1, <2>2, <2>3
  <1>4. CASE faults' # faults
    <2>1. PICK S \in SUBSET Task : /\ Unannounced' \subseteq Unannounced \cup S
                                   /\ Cardinality(S) <= Concurrency
      BY <1>4, FaultSilences
    <2>2. IsFiniteSet(S) /\ Cardinality(S) \in Nat
      BY QueueAssumption, FS_Subset, FS_CardinalityType
    <2>3. /\ IsFiniteSet(Unannounced \cup S)
          /\ Cardinality(Unannounced \cup S) <= Cardinality(Unannounced) + Cardinality(S)
      <3>1. Cardinality(Unannounced \cup S) = Cardinality(Unannounced) + Cardinality(S)
                                                - Cardinality(Unannounced \cap S)
        BY <1>1, <2>2, FS_Union
      <3>2. IsFiniteSet(Unannounced \cap S) /\ Cardinality(Unannounced \cap S) \in Nat
        BY <1>1, FS_Intersection, FS_CardinalityType
      <3> QED BY <1>1, <2>2, <3>1, <3>2, FS_Union
    <2>4. Cardinality(Unannounced') <= Cardinality(Unannounced \cup S)
      BY <2>1, <2>3, FS_Subset
    <2>5. Cardinality(Unannounced') \in Nat /\ Cardinality(Unannounced \cup S) \in Nat
      BY <2>1, <2>3, FS_Subset, FS_CardinalityType
    <2>6. Concurrency * faults' = Concurrency * faults + Concurrency
      <3>1. faults' = faults + 1
        BY <1>4, FaultSilences
      <3> QED BY <1>1, <3>1
    <2>7. Concurrency * faults \in Nat
      BY <1>1
    <2> HIDE DEF Unannounced
    <2> QED BY <1>1, <1>2, <2>1, <2>2, <2>3, <2>4, <2>5, <2>6, <2>7
  <1> QED BY <1>3, <1>4

\* However many processes, lapses and faults: the completions announced of a task and the
\* work on it never exceed one and its lapses, and the settlements that are not announced
\* never exceed what the faults took.
THEOREM OutcomesAgree == Spec => []OutcomesAccounted
  <1>1. Init => OutcomeInv /\ NoSilentSettlement
    <2> SUFFICES ASSUME Init PROVE OutcomeInv /\ NoSilentSettlement
      OBVIOUS
    <2>1. ASSUME NEW t \in Task
          PROVE  events[t].completed + Cardinality(Completing(t)) + FreeClaim(t) <= 1 + lapses[t]
      <3>1. Completing(t) = {}
        BY DEF Init, Completing
      <3>2. events[t].completed = 0 /\ lapses[t] = 0 /\ FreeClaim(t) \in {0, 1}
        BY DEF Init, FreeClaim
      <3> QED BY <3>1, <3>2, FS_EmptySet
    <2>2. NoSilentSettlement
      <3>1. Unannounced = {}
        BY DEF Init, Unannounced
      <3>2. Concurrency * faults = 0
        BY QueueAssumption DEF Init
      <3>3. Cardinality(Unannounced) = 0
        BY <3>1, FS_EmptySet
      <3> QED BY <3>2, <3>3 DEF NoSilentSettlement
    <2> QED BY <2>1, <2>2 DEF Init, OutcomeInv, LapsesPay, ReportsAreLast
  <1>2. TypeInv /\ OutcomeInv => CompletionsNeedLapses
    <2> SUFFICES ASSUME TypeInv, OutcomeInv, NEW t \in Task
                 PROVE  events[t].completed
                          + Cardinality({d \in deliveries : d.task = t /\ d.pc \in
                                           {"received", "handling", "ackSucceeded"}})
                          <= 1 + lapses[t]
      BY DEF CompletionsNeedLapses
    <2> DEFINE some == {d \in deliveries : d.task = t /\ d.pc \in
                          {"received", "handling", "ackSucceeded"}}
    <2>1. some \subseteq Completing(t)
      BY DEF Completing, CompletingPc
    <2> HIDE DEF some
    <2>2. Cardinality(some) \in Nat /\ Cardinality(some) <= Cardinality(Completing(t))
      BY <2>1, CompletingFinite, FS_Subset, FS_CardinalityType
    <2>3. events[t].completed + Cardinality(Completing(t)) + FreeClaim(t) <= 1 + lapses[t]
      BY DEF OutcomeInv, LapsesPay
    <2>4. FreeClaim(t) \in {0, 1} /\ events[t].completed \in Nat /\ lapses[t] \in Nat
          /\ Cardinality(Completing(t)) \in Nat
      BY CompletingFinite DEF FreeClaim, TypeInv, TypeOK
    <2> QED BY <2>2, <2>3, <2>4 DEF some
  <1>3. TypeInv /\ LeaseInv /\ OutcomeInv /\ [Next]_vars => OutcomeInv'
    BY LapsesPayStep, ReportsStep DEF OutcomeInv
  <1> QED BY <1>1, <1>2, <1>3, Leases, CeilingHolds, SettlementStep, PTL
         DEF Spec, OutcomesAccounted
=============================================================================
