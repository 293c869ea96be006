------------------------------- MODULE Progress ------------------------------
(***************************************************************************)
(* What must happen in the end: components under fairness, for any values  *)
(* of their constants.  They share no state, so a behaviour is one of      *)
(* `part` and all others stand still.  The audit ledger is extended, the   *)
(* others are instances with variables of their own.                       *)
(***************************************************************************)
EXTENDS AuditLedger, FiniteSets

VARIABLE part

----------------------------------------------------------------------------
(* The task queue, in several settings over the same variables *)

VARIABLES qRow, qExpired, qDeliveries, qLoop, qCapacity, qDraining, qEvents, qLapses, qFaults
CONSTANTS Task, Priority, MaxAttempts, Concurrency, MaxBatch, MaxLapses,
          Queues,   \* the settings; of each the processes and the failures
          WorkersOf, FailuresOf
qVars == <<qRow, qExpired, qDeliveries, qLoop, qCapacity, qDraining, qEvents, qLapses, qFaults>>
Queue(p) == INSTANCE TaskQueue WITH
  Worker <- WorkersOf[p], MaxFaults <- FailuresOf[p],
  row <- qRow, expired <- qExpired, deliveries <- qDeliveries, loop <- qLoop,
  capacity <- qCapacity, draining <- qDraining, events <- qEvents, lapses <- qLapses,
  faults <- qFaults

----------------------------------------------------------------------------
(* Archivist *)

VARIABLES eDetected, eCapture, eWork, eOrders, eFaults
CONSTANTS Anomaly, NoAnomaly, Archivist, RefusedContent, BatchLimit, MaxOrders
eVars == <<eDetected, eCapture, eWork, eOrders, eFaults>>
Evidence == INSTANCE EvidencePipeline WITH
  Worker <- Archivist, Refused <- RefusedContent, Limit <- BatchLimit,
  detected <- eDetected, capture <- eCapture, work <- eWork, orders <- eOrders,
  faults <- eFaults

----------------------------------------------------------------------------
(* One watch of a stream *)

VARIABLES sNow, sSession, sBuffered, sReceived, sStored, sUnstored, sDropped
CONSTANTS WatchUntil, SegmentSize, GiveUpAfter, MaxBackoff, MaxChunks, MaxDrops
sVars == <<sNow, sSession, sBuffered, sReceived, sStored, sUnstored, sDropped>>
Stream == INSTANCE StreamSession WITH
  Target <- SegmentSize,
  now <- sNow, session <- sSession, buffered <- sBuffered,
  received <- sReceived, stored <- sStored, unstored <- sUnstored, dropped <- sDropped

\* A batch takes one anomaly at least, a segment holds one chunk at least, and tasks are
\* finitely many.
ASSUME ProgressAssumption ==
  /\ Queues \cap {"audit", "evidence", "stream"} = {}
  /\ IsFiniteSet(Archivist) /\ NoAnomaly \notin Anomaly
  /\ BatchLimit \in Nat \ {0}
  /\ SegmentSize \in Nat \ {0}

----------------------------------------------------------------------------
(* One of them *)

Parts == {"audit", "evidence", "stream"} \cup Queues

\* The setting of the queue; one is as good as another where it stands still.
OneInit ==
  /\ part \in Parts
  /\ Init /\ Evidence!Init /\ Stream!Init
  /\ \E p \in Queues : /\ p = IF part \in Queues THEN part ELSE CHOOSE q \in Queues : TRUE
                       /\ Queue(p)!Init

OneNext ==
  /\ UNCHANGED part
  /\ IF part = "audit" THEN Next ELSE UNCHANGED vars
  /\ IF part \in Queues THEN \E p \in Queues : part = p /\ Queue(p)!Next ELSE UNCHANGED qVars
  /\ IF part = "evidence" THEN Evidence!Next ELSE UNCHANGED eVars
  /\ IF part = "stream" THEN Stream!Next ELSE UNCHANGED sVars

\* Time passes, a process takes its next step, and the platform replaces one that ended
\* (see Fairness in TaskQueue).
Elapses(p, t) == part = p /\ Queue(p)!BackoffElapses(t)
Lapses(p, t) ==
  /\ part = p
  /\ ~Queue(p)!Held(t) /\ Queue(p)!LeaseLapses(t)
Polls(p, w) == part = p /\ Queue(p)!Poll(w)
Claims(p, w) == part = p /\ Queue(p)!Claim(w)
Receives(p, w) == part = p /\ Queue(p)!ReceiveEmpty(w)
Stops(p, w) == part = p /\ Queue(p)!Stop(w)
Restarts(p, w) == part = p /\ Queue(p)!Restart(w)
Runs(p, w, t) ==
  /\ part = p
  /\ \E d \in Queue(p)!Active(w) :
       d.task = t /\ Queue(p)!RunTask(d)
QueueFairness ==
  \A p \in Queues :
    /\ \A t \in Task : WF_qVars(Elapses(p, t)) /\ WF_qVars(Lapses(p, t))
    /\ \A w \in WorkersOf[p] :
         /\ WF_qVars(Polls(p, w)) /\ WF_qVars(Claims(p, w)) /\ WF_qVars(Receives(p, w))
         /\ WF_qVars(Stops(p, w)) /\ WF_qVars(Restarts(p, w))
         /\ \A t \in Task : WF_qVars(Runs(p, w, t))

\* A task that runs goes on.  Nothing promises another: a sweep is dispatched when an operator
\* activates Beast mode, an order when somebody runs a workflow.
EvidenceFairness ==
  \A w \in Archivist : WF_eVars(part = "evidence" /\ Evidence!Step(w))

StreamFairness ==
  WF_sVars(part = "stream" /\ Stream!Tick) /\ WF_sVars(part = "stream" /\ Stream!Step)

oneVars == <<part, vars, qVars, eVars, sVars>>

OneSpec ==
  /\ OneInit /\ [][OneNext]_oneVars
  /\ QueueFairness /\ EvidenceFairness /\ StreamFairness

----------------------------------------------------------------------------
(* What each of them promises: see the modules *)

\* Every task that is sent leaves the queue (TaskQueue).
EventuallySettled == \A p \in Queues : part = p => Queue(p)!EventuallySettled

\* Evidence is whole, locked, on record, and not archived over and over (EvidencePipeline).
CustodyComplete == Evidence!CustodyComplete

\* What a task of Archivist took on is archived in the end (EvidencePipeline).
TakenIsArchived == Evidence!TakenIsArchived

\* All audio is stored, counted as unstored, or in the buffer (StreamSession).
AudioAccounted == Stream!AudioAccounted

\* A watch ends however the stream behaves (StreamSession).
SessionEnds == part = "stream" => Stream!SessionEnds
=============================================================================
