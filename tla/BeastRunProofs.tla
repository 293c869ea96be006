--------------------------- MODULE BeastRunProofs ---------------------------
(***************************************************************************)
(* Theorems about Beast runs, for any number of runs, operators, readers   *)
(* of results, agents and faults, and for any budget.                      *)
(***************************************************************************)
EXTENDS BeastRun, FiniteSetTheorems, TLAPS

(***************************************************************************)
(* Type correctness                                                        *)
(***************************************************************************)

\* A call that stands at a statement has a run.
LEMMA BusyCall ==
  ASSUME TypeOK, NEW c \in Call, call[c].pc # "idle"
  PROVE  call[c] \in Busy /\ call[c].run \in Run
  BY DEF TypeOK, Busy, Idle

\* Going on to the next statement keeps the calls well typed.
LEMMA GotoType ==
  ASSUME TypeOK, NEW c \in Call, call[c].pc # "idle", NEW pc \in CallPc, Goto(c, pc)
  PROVE  call' \in [Call -> Busy \cup {Idle}]
  <1>1. [call[c] EXCEPT !.pc = pc] \in Busy
    BY BusyCall DEF Busy
  <1> QED BY <1>1 DEF Goto, TypeOK

\* So does the end of a call, and the start of one.
LEMMA ReturnType ==
  ASSUME TypeOK, NEW c \in Call, Return(c)
  PROVE  call' \in [Call -> Busy \cup {Idle}]
  BY DEF Return, TypeOK

LEMMA StartType ==
  ASSUME TypeOK, NEW c \in Call, NEW b \in Busy, call' = [call EXCEPT ![c] = b]
  PROVE  call' \in [Call -> Busy \cup {Idle}]
  BY DEF TypeOK

\* A plan is a set of slots.
LEMMA PlanType == ASSUME NEW sources PROVE Plan(sources) \in SUBSET Slot
  BY BeastAssumption DEF Plan, Slot

\* The steps of activate keep the types.
LEMMA ActivateType ==
  ASSUME TypeOK, NEW c \in Operator, Activate(c)
  PROVE  TypeOK'
  <1>0. c \in Call
    BY DEF Call
  <1>1. CASE Preflight(c)
    <2>1. PICK r \in Run, sources \in SourceCounts :
            call' = [call EXCEPT ![c] = [pc |-> "insert", run |-> r,
                                         slots |-> Plan(sources), sent |-> 0]]
      BY <1>1 DEF Preflight
    <2>2. [pc |-> "insert", run |-> r, slots |-> Plan(sources), sent |-> 0] \in Busy
      BY PlanType DEF Busy, CallPc
    <2>3. call' \in [Call -> Busy \cup {Idle}]
      BY <1>0, <2>1, <2>2, StartType
    <2> QED BY <1>1, <2>3 DEF Preflight, TypeOK
  <1>2. CASE Insert(c)
    <2>1. call' \in [Call -> Busy \cup {Idle}]
      BY <1>0, <1>2, GotoType, ReturnType DEF Insert, CallPc
    <2>2. run' \in [Run -> Row]
      BY <1>0, <1>2, BusyCall DEF Insert, TypeOK, Row, RunStatus
    <2> QED BY <1>2, <2>1, <2>2 DEF Insert, TypeOK
  <1>3. CASE Dispatch(c)
    <2>1. call[c] \in Busy /\ call[c].run \in Run
      BY <1>0, <1>3, BusyCall DEF Dispatch
    <2> DEFINE next == CHOOSE s \in call[c].slots : TRUE
    <2>2. call' = [call EXCEPT ![c].slots = @ \ {next}, ![c].sent = @ + 1]
      BY <1>0, <1>3 DEF Dispatch
    <2> HIDE DEF next
    <2>3. call'[c] \in Busy /\ \A d \in Call \ {c} : call'[d] = call[d]
      BY <1>0, <2>1, <2>2 DEF TypeOK, Busy
    <2>5. call' \in [Call -> Busy \cup {Idle}]
      BY <2>2, <2>3 DEF TypeOK
    <2>4. tasks' \in [Run -> Tasks]
      BY <1>3, <2>1 DEF Dispatch, TypeOK, Tasks
    <2> QED BY <1>3, <2>4, <2>5 DEF Dispatch, TypeOK
  <1>4. CASE DispatchEnds(c)
    <2>1. call' \in [Call -> Busy \cup {Idle}]
      BY <1>0, <1>4, GotoType DEF DispatchEnds, CallPc
    <2> QED BY <1>4, <2>1 DEF DispatchEnds, TypeOK
  <1>5. CASE RecordDispatched(c)
    <2>1. call' \in [Call -> Busy \cup {Idle}]
      BY <1>0, <1>5, GotoType DEF RecordDispatched, CallPc
    <2>2. call[c].run \in Run /\ call[c].sent \in Nat
      BY <1>0, <1>5, BusyCall DEF RecordDispatched, Busy
    <2>3. run' \in [Run -> Row]
      BY <1>5, <2>2 DEF RecordDispatched, TypeOK, Row
    <2> QED BY <1>5, <2>1, <2>3 DEF RecordDispatched, TypeOK
  <1>6. CASE AuditActivated(c)
    <2>1. call' \in [Call -> Busy \cup {Idle}]
      BY <1>0, <1>6, GotoType DEF AuditActivated, CallPc
    <2> QED BY <1>6, <2>1 DEF AuditActivated, TypeOK, Audit
  <1>7. CASE AnnounceActivated(c)
    <2>1. call' \in [Call -> Busy \cup {Idle}]
      BY <1>0, <1>7, ReturnType DEF AnnounceActivated
    <2> QED BY <1>7, <2>1 DEF AnnounceActivated, TypeOK
  <1> QED BY <1>1, <1>2, <1>3, <1>4, <1>5, <1>6, <1>7 DEF Activate

\* The steps of deactivate keep the types.
LEMMA DeactivateType ==
  ASSUME TypeOK, NEW c \in Operator, Deactivate(c)
  PROVE  TypeOK'
  <1>0. c \in Call
    BY DEF Call
  <1>1. CASE ReadRun(c)
    <2>1. PICK r \in Active :
            call' = [call EXCEPT ![c] = [pc |-> "cancel", run |-> r, slots |-> {}, sent |-> 0]]
      BY <1>1 DEF ReadRun
    <2>2. [pc |-> "cancel", run |-> r, slots |-> {}, sent |-> 0] \in Busy
      BY DEF Busy, CallPc, Active
    <2>3. call' \in [Call -> Busy \cup {Idle}]
      BY <1>0, <2>1, <2>2, StartType
    <2> QED BY <1>1, <2>3 DEF ReadRun, TypeOK
  <1>2. CASE Cancel(c)
    <2>1. call' \in [Call -> Busy \cup {Idle}]
      BY <1>0, <1>2, GotoType DEF Cancel, CallPc
    <2>2. run' \in [Run -> Row]
      BY <1>0, <1>2, BusyCall DEF Cancel, TypeOK, Row, RunStatus, Ended
    <2> QED BY <1>2, <2>1, <2>2 DEF Cancel, TypeOK
  <1>3. CASE AuditCancelled(c)
    <2>1. call' \in [Call -> Busy \cup {Idle}]
      BY <1>0, <1>3, GotoType DEF AuditCancelled, CallPc
    <2> QED BY <1>3, <2>1 DEF AuditCancelled, TypeOK, Audit
  <1>4. CASE AnnounceCancelled(c)
    <2>1. call' \in [Call -> Busy \cup {Idle}]
      BY <1>0, <1>4, ReturnType DEF AnnounceCancelled
    <2> QED BY <1>4, <2>1 DEF AnnounceCancelled, TypeOK
  <1> QED BY <1>1, <1>2, <1>3, <1>4 DEF Deactivate

\* accrue halts a run, warns of it, or does nothing.
LEMMA VerdictType ==
  ASSUME NEW status, NEW before, NEW accrued, NEW pc \in Verdicts(status, before, accrued)
  PROVE  pc \in {"idle", "halt", "warn"}
  BY DEF Verdicts

\* The steps of accrue keep the types.
LEMMA ApplyResultType ==
  ASSUME TypeOK, NEW c \in Consumer, ApplyResult(c)
  PROVE  TypeOK'
  <1>0. c \in Call
    BY DEF Call
  <1>1. CASE Accrue(c)
    <2>1. PICK r \in Run, cost \in Cost :
            /\ tasks' = [tasks EXCEPT ![r].reported = @ - 1]
            /\ tasks[r].reported > 0
            /\ Adds(r, cost)
            /\ \E pc \in Verdicts(run[r].status, run[r].accrued, run[r].accrued + cost) :
                 call' = IF pc = "idle" THEN call
                         ELSE [call EXCEPT ![c] = [pc |-> pc, run |-> r,
                                                   slots |-> {}, sent |-> 0]]
      BY <1>1 DEF Accrue
    <2>2. PICK pc \in {"idle", "halt", "warn"} :
            call' = IF pc = "idle" THEN call
                    ELSE [call EXCEPT ![c] = [pc |-> pc, run |-> r, slots |-> {}, sent |-> 0]]
      BY <2>1, VerdictType
    <2>3. pc # "idle" => [pc |-> pc, run |-> r, slots |-> {}, sent |-> 0] \in Busy
      BY <2>2 DEF Busy, CallPc
    <2>4. call' \in [Call -> Busy \cup {Idle}]
      BY <1>0, <2>2, <2>3, StartType DEF TypeOK
    <2>5. cost \in Nat /\ Limit \in Nat
      BY BeastAssumption
    <2>6. run' \in [Run -> Row]
      BY <2>1, <2>5 DEF TypeOK, Row, Adds
    <2>8. spent' \in [Run -> Spent]
      <3> DEFINE mark == spent[r].onMark \/ 10 * (run[r].accrued + cost) = 8 * Limit
      <3> DEFINE next == [cost |-> spent[r].cost + cost, onMark |-> mark]
      <3>1. spent' = [spent EXCEPT ![r] = next]
        BY <2>1 DEF Adds
      <3>2. mark \in BOOLEAN /\ spent \in [Run -> Spent] /\ spent[r].cost \in Nat
        BY DEF TypeOK, Spent
      <3> HIDE DEF mark
      <3>3. next \in Spent
        BY <2>5, <3>2 DEF Spent
      <3> HIDE DEF next
      <3> QED BY <3>1, <3>2, <3>3
    <2>7. tasks' \in [Run -> Tasks]
      BY <2>1 DEF TypeOK, Tasks
    <2> QED BY <1>1, <2>4, <2>6, <2>7, <2>8 DEF Accrue, TypeOK
  <1>2. CASE Halt(c)
    <2>1. call' \in [Call -> Busy \cup {Idle}]
      BY <1>0, <1>2, GotoType DEF Halt, CallPc
    <2>2. run' \in [Run -> Row]
      BY <1>0, <1>2, BusyCall DEF Halt, TypeOK, Row, RunStatus, Ended
    <2> QED BY <1>2, <2>1, <2>2 DEF Halt, TypeOK
  <1>3. CASE AuditHalted(c)
    <2>1. call' \in [Call -> Busy \cup {Idle}]
      BY <1>0, <1>3, GotoType DEF AuditHalted, CallPc
    <2> QED BY <1>3, <2>1 DEF AuditHalted, TypeOK, Audit
  <1>4. CASE AnnounceExhausted(c)
    <2>1. call' \in [Call -> Busy \cup {Idle}]
      BY <1>0, <1>4, ReturnType DEF AnnounceExhausted
    <2> QED BY <1>4, <2>1 DEF AnnounceExhausted, TypeOK
  <1>5. CASE Warn(c)
    <2>1. call' \in [Call -> Busy \cup {Idle}]
      BY <1>0, <1>5, ReturnType DEF Warn
    <2>2. warnings' \in [Run -> Nat]
      <3>1. call[c].run \in Run
        BY <1>0, <1>5, BusyCall DEF Warn
      <3> QED BY <1>5, <3>1 DEF Warn, TypeOK
    <2>3. UNCHANGED <<run, tasks, spent, swept, audits, announced, faults>>
      BY <1>5 DEF Warn
    <2> QED BY <2>1, <2>2, <2>3 DEF TypeOK
  <1> QED BY <1>1, <1>2, <1>3, <1>4, <1>5 DEF ApplyResult

\* The sweep, the agents, time and the failures keep the types.
LEMMA SweepType == TypeOK /\ ExpireOverdueRuns => TypeOK'
  <1> SUFFICES ASSUME TypeOK, ExpireOverdueRuns PROVE TypeOK'
    OBVIOUS
  <1>1. CASE Sweep
    <2>1. run' \in [Run -> Row]
      BY <1>1 DEF Sweep, TypeOK, Row, RunStatus, Ended
    <2>2. swept' \subseteq Run
      BY <1>1 DEF Sweep, TypeOK, OverdueRuns, Active
    <2> QED BY <1>1, <2>1, <2>2 DEF Sweep, TypeOK
  <1>2. CASE SweepFails
    BY <1>2 DEF SweepFails, TypeOK, Fault
  <1>3. ASSUME NEW r \in Run, SweepAudits(r) PROVE TypeOK'
    BY <1>3 DEF SweepAudits, TypeOK, Audit
  <1> QED BY <1>1, <1>2, <1>3 DEF ExpireOverdueRuns

LEMMA WorldType ==
  ASSUME TypeOK, NEW r \in Run, WindowCloses(r) \/ TaskStarts(r) \/ TaskDropped(r) \/ TaskEnds(r)
  PROVE  TypeOK'
  <1>1. CASE WindowCloses(r)
    BY <1>1 DEF WindowCloses, TypeOK, Row
  <1>2. CASE TaskStarts(r)
    <2>1. tasks' \in [Run -> Tasks]
      BY <1>2 DEF TaskStarts, TypeOK, Tasks
    <2> QED BY <1>2, <2>1 DEF TaskStarts, TypeOK
  <1>3. CASE TaskEnds(r)
    <2>1. tasks' \in [Run -> Tasks]
      BY <1>3 DEF TaskEnds, TypeOK, Tasks
    <2> QED BY <1>3, <2>1 DEF TaskEnds, TypeOK
  <1>4. CASE TaskDropped(r)
    <2>1. tasks' \in [Run -> Tasks]
      BY <1>4 DEF TaskDropped, TypeOK, Tasks
    <2> QED BY <1>4, <2>1 DEF TaskDropped, TypeOK
  <1> QED BY <1>1, <1>2, <1>3, <1>4

\* Every step keeps the types.
LEMMA TypeStep == TypeOK /\ [Next]_vars => TypeOK'
  <1> SUFFICES ASSUME TypeOK, [Next]_vars PROVE TypeOK'
    OBVIOUS
  <1>1. ASSUME NEW c \in Call, CallFails(c) PROVE TypeOK'
    BY <1>1, ReturnType DEF CallFails, Fault, TypeOK
  <1>2. CASE Crash
    BY <1>2 DEF Crash, Fault, TypeOK
  <1>3. CASE UNCHANGED vars
    BY <1>3 DEF vars, TypeOK
  <1> QED BY <1>1, <1>2, <1>3, ActivateType, DeactivateType, ApplyResultType, SweepType,
             WorldType DEF Next

\* TypeOK holds in every state of every run of the controller.
THEOREM TypeCorrect == Spec => []TypeOK
  <1>1. Init => TypeOK
    BY DEF Init, TypeOK, Row, RunStatus, Tasks, Spent
  <1> QED BY <1>1, TypeStep, PTL DEF Spec

(***************************************************************************)
(* Single-flight.  Only Insert makes a run active, and only when none is.  *)
(***************************************************************************)

OneActive == \A r, s \in Active : r = s

LEMMA OneActiveIsSingleFlight == OneActive => SingleFlight
  <1> SUFFICES ASSUME OneActive PROVE SingleFlight
    OBVIOUS
  <1>1. CASE Active = {}
    BY <1>1, FS_EmptySet DEF SingleFlight
  <1>2. CASE Active # {}
    <2>1. PICK r \in Active : Active = {r}
      BY <1>2 DEF OneActive
    <2>2. Cardinality({r}) = 1
      BY FS_Singleton
    <2> QED BY <2>1, <2>2 DEF SingleFlight
  <1> QED BY <1>1, <1>2

\* Any other step leaves a run's status as it is, or ends the run.
LEMMA StatusStep ==
  ASSUME TypeOK, [Next]_vars, \A c \in Operator : ~Insert(c)
  PROVE  \A r \in Run : run'[r].status = run[r].status \/ run'[r].status \in Ended
  <1> USE DEF TypeOK, Row, Ended
  <1>1. ASSUME NEW c \in Operator, Activate(c)
        PROVE  \A r \in Run : run'[r].status = run[r].status
    BY <1>1 DEF Activate, Preflight, Dispatch, DispatchEnds, RecordDispatched, AuditActivated,
                AnnounceActivated
  <1>2. ASSUME NEW c \in Operator, Deactivate(c)
        PROVE  \A r \in Run : run'[r].status = run[r].status \/ run'[r].status = "cancelled"
    BY <1>2 DEF Deactivate, ReadRun, Cancel, AuditCancelled, AnnounceCancelled
  <1>3. ASSUME NEW c \in Consumer, ApplyResult(c)
        PROVE  \A r \in Run : run'[r].status = run[r].status \/ run'[r].status = "budget_halted"
    <2>1. CASE Accrue(c)
      BY <2>1 DEF Accrue, Adds
    <2>2. CASE ~Accrue(c)
      BY <1>3, <2>2 DEF ApplyResult, Halt, AuditHalted, AnnounceExhausted, Warn
    <2> QED BY <2>1, <2>2
  <1>4. ASSUME ExpireOverdueRuns
        PROVE  \A r \in Run : run'[r].status = run[r].status \/ run'[r].status = "expired"
    BY <1>4 DEF ExpireOverdueRuns, Sweep, SweepFails, SweepAudits
  <1>5. ASSUME NEW r \in Run,
               WindowCloses(r) \/ TaskStarts(r) \/ TaskDropped(r) \/ TaskEnds(r)
        PROVE  \A s \in Run : run'[s].status = run[s].status
    BY <1>5 DEF WindowCloses, TaskStarts, TaskDropped, TaskEnds
  <1>6. CASE Crash \/ UNCHANGED vars \/ \E c \in Call : CallFails(c)
    BY <1>6 DEF Crash, vars, CallFails
  <1> QED BY <1>1, <1>2, <1>3, <1>4, <1>5, <1>6 DEF Next

\* Insert touches the status of one run.
LEMMA InsertStatus ==
  ASSUME TypeOK, NEW c \in Operator, Insert(c)
  PROVE  /\ Active = {} => /\ run'[call[c].run].status = "running"
                           /\ \A r \in Run \ {call[c].run} : run'[r] = run[r]
         /\ Active # {} => run' = run
  BY BusyCall DEF Insert, TypeOK, Call, Row

LEMMA OneActiveStep == TypeOK /\ OneActive /\ [Next]_vars => OneActive'
  <1> SUFFICES ASSUME TypeOK, OneActive, [Next]_vars PROVE OneActive'
    OBVIOUS
  <1>1. ASSUME NEW c \in Operator, Insert(c) PROVE OneActive'
    <2>1. CASE Active = {}
      BY <1>1, <2>1, InsertStatus DEF OneActive, Active
    <2>2. CASE Active # {}
      BY <1>1, <2>2, InsertStatus DEF OneActive, Active
    <2> QED BY <2>1, <2>2
  <1>2. CASE \A c \in Operator : ~Insert(c)
    BY <1>2, StatusStep DEF OneActive, Active, Ended
  <1> QED BY <1>1, <1>2

\* At most one run is active, in every state.
THEOREM SingleFlightHolds == Spec => []SingleFlight
  <1>1. Init => OneActive
    BY DEF Init, OneActive, Active
  <1> QED BY <1>1, OneActiveStep, OneActiveIsSingleFlight, TypeCorrect, PTL DEF Spec

(***************************************************************************)
(* Nothing reopens a run.  The run a call is about to insert is its own    *)
(* and not in the table yet; any other call, task or result is of a run    *)
(* that is.                                                                *)
(***************************************************************************)

Exists(r) == run[r].status # "none"

FreshRuns ==
  /\ \A c \in Call :
       /\ call[c].pc = "insert" => /\ ~Exists(call[c].run)
                                   /\ \A d \in Call : call[d].run = call[c].run => d = c
       /\ call[c].pc \notin {"idle", "insert"} => Exists(call[c].run)
  /\ \A r \in Run :
       tasks[r].queued > 0 \/ tasks[r].working > 0 \/ tasks[r].reported > 0 => Exists(r)

\* A step that gives the run of no other call away, and no run to the table, keeps it.
LEMMA FreshFrame ==
  ASSUME TypeOK, FreshRuns, NEW c \in Call,
         \A d \in Call \ {c} : call'[d] = call[d],
         \/ call'[c] = Idle
         \/ call'[c].pc # "insert" /\ call'[c].run \in Run /\ Exists(call'[c].run),
         \A r \in Run : Exists(r)' = Exists(r),
         \A r \in Run : tasks'[r].queued > 0 \/ tasks'[r].working > 0 \/ tasks'[r].reported > 0
                          => Exists(r)
  PROVE  FreshRuns'
  <1>1. \A d \in Call : call[d].pc = "insert" => call[d].run \in Run
    BY BusyCall
  <1>2. \A d \in Call : call[d].pc \notin {"idle", "insert"} => call[d].run \in Run
    BY BusyCall
  <1>3. NoRun \notin Run
    BY BeastAssumption
  <1> QED BY <1>1, <1>2, <1>3 DEF FreshRuns, Idle

\* The next statement of a call is of the same run.
LEMMA GotoRun ==
  ASSUME TypeOK, NEW c \in Call, NEW pc, Goto(c, pc)
  PROVE  /\ \A d \in Call \ {c} : call'[d] = call[d]
         /\ call[c].pc # "idle" => call'[c].pc = pc /\ call'[c].run = call[c].run
                                   /\ call[c].run \in Run
  <1>1. call[c].pc # "idle" => call[c] \in Busy
    BY BusyCall
  <1> QED BY <1>1 DEF Goto, TypeOK, Busy

LEMMA ReturnRun ==
  ASSUME TypeOK, NEW c \in Call, Return(c)
  PROVE  call'[c] = Idle /\ \A d \in Call \ {c} : call'[d] = call[d]
  BY DEF Return, TypeOK

LEMMA FreshActivate ==
  ASSUME TypeOK, FreshRuns, NEW c \in Operator, Activate(c)
  PROVE  FreshRuns'
  <1>0. c \in Call
    BY DEF Call
  <1>1. CASE Preflight(c)
    <2>1. PICK r \in Run, sources \in SourceCounts :
            /\ run[r].status = "none"
            /\ \A d \in Call : call[d].run # r
            /\ call' = [call EXCEPT ![c] = [pc |-> "insert", run |-> r,
                                            slots |-> Plan(sources), sent |-> 0]]
      BY <1>1 DEF Preflight
    <2>2. call'[c].pc = "insert" /\ call'[c].run = r /\ \A d \in Call \ {c} : call'[d] = call[d]
      BY <1>0, <2>1 DEF TypeOK
    <2>3. run' = run /\ tasks' = tasks
      BY <1>1 DEF Preflight
    <2> QED BY <2>1, <2>2, <2>3 DEF FreshRuns, Exists
  <1>2. CASE Insert(c)
    <2>1. CASE Active = {}
      <3>1. call'[c].pc = "dispatch" /\ call'[c].run = call[c].run /\ call[c].run \in Run
            /\ \A d \in Call \ {c} : call'[d] = call[d]
        BY <1>0, <1>2, <2>1, GotoRun DEF Insert
      <3>2. run'[call[c].run].status # "none" /\ \A r \in Run \ {call[c].run} : Exists(r)' = Exists(r)
        BY <1>2, <2>1, InsertStatus DEF Exists
      <3>3. \A d \in Call \ {c} : call[d].run # call[c].run
        BY <1>0, <1>2 DEF Insert, FreshRuns
      <3>4. \A d \in Call : call[d].pc # "idle" => call[d].run \in Run
        BY BusyCall
      <3>5. tasks' = tasks
        BY <1>2 DEF Insert
      <3> QED BY <3>1, <3>2, <3>3, <3>4, <3>5 DEF FreshRuns, Exists
    <2>2. CASE Active # {}
      <3>1. call'[c] = Idle /\ \A d \in Call \ {c} : call'[d] = call[d]
        BY <1>0, <1>2, <2>2, ReturnRun DEF Insert
      <3>2. run' = run /\ tasks' = tasks
        BY <1>2, <2>2 DEF Insert
      <3> QED BY <1>0, <3>1, <3>2, FreshFrame DEF FreshRuns, Exists
    <2> QED BY <2>1, <2>2
  <1>3. CASE Dispatch(c)
    <2>1. call[c].run \in Run /\ Exists(call[c].run)
      BY <1>0, <1>3, BusyCall DEF Dispatch, FreshRuns
    <2>2. call'[c].pc = "dispatch" /\ call'[c].run = call[c].run
          /\ \A d \in Call \ {c} : call'[d] = call[d]
      <3>1. call[c] \in Busy
        BY <1>0, <1>3, BusyCall DEF Dispatch
      <3> QED BY <1>0, <1>3, <3>1 DEF Dispatch, TypeOK, Busy
    <2>3. \A r \in Run \ {call[c].run} : tasks'[r] = tasks[r]
      BY <1>3 DEF Dispatch, TypeOK
    <2>4. run' = run
      BY <1>3 DEF Dispatch
    <2>5. \A r \in Run : tasks'[r].queued > 0 \/ tasks'[r].working > 0 \/ tasks'[r].reported > 0
                           => Exists(r)
      BY <2>1, <2>3 DEF FreshRuns
    <2> QED BY <1>0, <2>1, <2>2, <2>4, <2>5, FreshFrame DEF Exists
  <1>4. CASE DispatchEnds(c) \/ RecordDispatched(c) \/ AuditActivated(c)
    <2>1. PICK pc \in CallPc \ {"insert"} : Goto(c, pc)
      BY <1>4 DEF DispatchEnds, RecordDispatched, AuditActivated, CallPc
    <2>2. call[c].pc \notin {"idle", "insert"}
      BY <1>4 DEF DispatchEnds, RecordDispatched, AuditActivated
    <2>3. tasks' = tasks /\ \A r \in Run : run'[r].status = run[r].status
      BY <1>4 DEF DispatchEnds, RecordDispatched, AuditActivated, TypeOK, Row
    <2>4. call[c].run \in Run /\ Exists(call[c].run)
      BY <1>0, <2>2, BusyCall DEF FreshRuns
    <2> QED BY <1>0, <2>1, <2>2, <2>3, <2>4, GotoRun, FreshFrame DEF FreshRuns, Exists
  <1>5. CASE AnnounceActivated(c)
    <2>1. tasks' = tasks /\ run' = run /\ Return(c)
      BY <1>5 DEF AnnounceActivated
    <2> QED BY <1>0, <2>1, ReturnRun, FreshFrame DEF FreshRuns, Exists
  <1> QED BY <1>1, <1>2, <1>3, <1>4, <1>5 DEF Activate

LEMMA FreshDeactivate ==
  ASSUME TypeOK, FreshRuns, NEW c \in Operator, Deactivate(c)
  PROVE  FreshRuns'
  <1>0. c \in Call
    BY DEF Call
  <1>1. CASE ReadRun(c)
    <2>1. PICK r \in Active :
            call' = [call EXCEPT ![c] = [pc |-> "cancel", run |-> r, slots |-> {}, sent |-> 0]]
      BY <1>1 DEF ReadRun
    <2>2. call'[c].pc = "cancel" /\ call'[c].run = r /\ \A d \in Call \ {c} : call'[d] = call[d]
      BY <1>0, <2>1 DEF TypeOK
    <2>3. r \in Run /\ Exists(r) /\ run' = run /\ tasks' = tasks
      BY <1>1 DEF ReadRun, Active, Exists
    <2> QED BY <1>0, <2>2, <2>3, FreshFrame DEF FreshRuns, Exists
  <1>2. CASE Cancel(c)
    <2>1. call[c].run \in Run /\ Exists(call[c].run)
      BY <1>0, <1>2, BusyCall DEF Cancel, FreshRuns
    <2>2. \A r \in Run : Exists(r)' = Exists(r)
      BY <1>2, <2>1 DEF Cancel, TypeOK, Row, Exists
    <2>3. tasks' = tasks /\ Goto(c, "auditCancelled") /\ call[c].pc # "idle"
      BY <1>2 DEF Cancel
    <2> QED BY <1>0, <2>1, <2>2, <2>3, GotoRun, FreshFrame DEF FreshRuns
  <1>3. CASE AuditCancelled(c)
    <2>1. call[c].run \in Run /\ Exists(call[c].run)
      BY <1>0, <1>3, BusyCall DEF AuditCancelled, FreshRuns
    <2>2. tasks' = tasks /\ run' = run /\ Goto(c, "announceCancelled") /\ call[c].pc # "idle"
      BY <1>3 DEF AuditCancelled
    <2> QED BY <1>0, <2>1, <2>2, GotoRun, FreshFrame DEF FreshRuns, Exists
  <1>4. CASE AnnounceCancelled(c)
    <2>1. tasks' = tasks /\ run' = run /\ Return(c)
      BY <1>4 DEF AnnounceCancelled
    <2> QED BY <1>0, <2>1, ReturnRun, FreshFrame DEF FreshRuns, Exists
  <1> QED BY <1>1, <1>2, <1>3, <1>4 DEF Deactivate

\* What a result that is applied changes.
LEMMA AccrueRun ==
  ASSUME TypeOK, NEW c \in Consumer, Accrue(c)
  PROVE  \E r \in Run, cost \in Cost :
         \E pc \in Verdicts(run[r].status, run[r].accrued, run[r].accrued + cost) :
           /\ tasks[r].reported > 0
           /\ tasks'[r].queued = tasks[r].queued /\ tasks'[r].working = tasks[r].working
           /\ Adds(r, cost)
           /\ run' = [run EXCEPT ![r].accrued = @ + cost]
           /\ \A s \in Run \ {r} : tasks'[s] = tasks[s]
           /\ \A d \in Call \ {c} : call'[d] = call[d]
           /\ \/ pc = "idle" /\ call' = call
              \/ pc # "idle" /\ call'[c].pc = pc /\ call'[c].run = r
  <1>0. c \in Call
    BY DEF Call
  <1>1. PICK r \in Run, cost \in Cost :
          /\ tasks[r].reported > 0
          /\ tasks' = [tasks EXCEPT ![r].reported = @ - 1]
          /\ Adds(r, cost)
          /\ \E pc \in Verdicts(run[r].status, run[r].accrued, run[r].accrued + cost) :
               call' = IF pc = "idle" THEN call
                       ELSE [call EXCEPT ![c] = [pc |-> pc, run |-> r, slots |-> {}, sent |-> 0]]
    BY DEF Accrue
  <1>2. PICK pc \in Verdicts(run[r].status, run[r].accrued, run[r].accrued + cost) :
          call' = IF pc = "idle" THEN call
                  ELSE [call EXCEPT ![c] = [pc |-> pc, run |-> r, slots |-> {}, sent |-> 0]]
    BY <1>1
  <1>3. /\ tasks'[r].queued = tasks[r].queued /\ tasks'[r].working = tasks[r].working
        /\ \A s \in Run \ {r} : tasks'[s] = tasks[s]
    BY <1>1 DEF TypeOK, Tasks
  <1>4. \A d \in Call \ {c} : call'[d] = call[d]
    BY <1>2 DEF TypeOK
  <1>5. pc # "idle" => call'[c].pc = pc /\ call'[c].run = r
    BY <1>0, <1>2 DEF TypeOK
  <1>6. run' = [run EXCEPT ![r].accrued = @ + cost]
    BY <1>1 DEF Adds
  <1>7. pc = "idle" => call' = call
    BY <1>2
  <1> QED BY <1>1, <1>3, <1>4, <1>5, <1>6, <1>7

LEMMA FreshApplyResult ==
  ASSUME TypeOK, FreshRuns, NEW c \in Consumer, ApplyResult(c)
  PROVE  FreshRuns'
  <1>0. c \in Call
    BY DEF Call
  <1>1. CASE Accrue(c)
    <2>1. call[c] = Idle
      BY <1>1 DEF Accrue
    <2>2. PICK r \in Run, cost \in Cost :
           /\ tasks[r].reported > 0
           /\ tasks'[r].queued = tasks[r].queued /\ tasks'[r].working = tasks[r].working
           /\ run' = [run EXCEPT ![r].accrued = @ + cost]
           /\ \A s \in Run \ {r} : tasks'[s] = tasks[s]
           /\ \A d \in Call \ {c} : call'[d] = call[d]
           /\ \/ call' = call
              \/ call'[c].pc \in {"halt", "warn"} /\ call'[c].run = r
      BY <1>1, AccrueRun, VerdictType
    <2>3. Exists(r)
      BY <2>2 DEF FreshRuns
    <2>4. \A s \in Run : Exists(s)' = Exists(s)
      BY <2>2 DEF TypeOK, Row, Exists
    <2>5. \A s \in Run : tasks'[s].queued > 0 \/ tasks'[s].working > 0 \/ tasks'[s].reported > 0
                           => Exists(s)
      BY <2>2, <2>3 DEF FreshRuns
    <2> QED BY <1>0, <2>1, <2>2, <2>3, <2>4, <2>5, FreshFrame
  <1>2. CASE Halt(c)
    <2>1. call[c].run \in Run /\ Exists(call[c].run)
      BY <1>0, <1>2, BusyCall DEF Halt, FreshRuns
    <2>2. \A r \in Run : Exists(r)' = Exists(r)
      BY <1>2, <2>1 DEF Halt, TypeOK, Row, Exists
    <2>3. tasks' = tasks /\ Goto(c, "auditHalted") /\ call[c].pc # "idle"
      BY <1>2 DEF Halt
    <2> QED BY <1>0, <2>1, <2>2, <2>3, GotoRun, FreshFrame DEF FreshRuns
  <1>3. CASE AuditHalted(c)
    <2>1. call[c].run \in Run /\ Exists(call[c].run)
      BY <1>0, <1>3, BusyCall DEF AuditHalted, FreshRuns
    <2>2. tasks' = tasks /\ run' = run /\ Goto(c, "announceExhausted") /\ call[c].pc # "idle"
      BY <1>3 DEF AuditHalted
    <2> QED BY <1>0, <2>1, <2>2, GotoRun, FreshFrame DEF FreshRuns, Exists
  <1>4. CASE AnnounceExhausted(c) \/ Warn(c)
    <2>1. tasks' = tasks /\ run' = run /\ Return(c)
      BY <1>4 DEF AnnounceExhausted, Warn
    <2> QED BY <1>0, <2>1, ReturnRun, FreshFrame DEF FreshRuns, Exists
  <1> QED BY <1>1, <1>2, <1>3, <1>4 DEF ApplyResult

LEMMA FreshStep == TypeOK /\ FreshRuns /\ [Next]_vars => FreshRuns'
  <1> SUFFICES ASSUME TypeOK, FreshRuns, [Next]_vars PROVE FreshRuns'
    OBVIOUS
  <1>1. CASE ExpireOverdueRuns
    <2>1. call' = call /\ tasks' = tasks
      BY <1>1 DEF ExpireOverdueRuns, Sweep, SweepFails, SweepAudits
    <2>2. \A r \in Run : Exists(r)' = Exists(r)
      BY <1>1 DEF ExpireOverdueRuns, Sweep, SweepFails, SweepAudits, OverdueRuns, Active,
                  TypeOK, Row, Exists
    <2>3. \A c \in Call : call[c].pc # "idle" => call[c].run \in Run
      BY BusyCall
    <2> QED BY <2>1, <2>2, <2>3 DEF FreshRuns
  <1>2. ASSUME NEW r \in Run,
               WindowCloses(r) \/ TaskStarts(r) \/ TaskDropped(r) \/ TaskEnds(r)
        PROVE  FreshRuns'
    <2>1. call' = call
      BY <1>2 DEF WindowCloses, TaskStarts, TaskDropped, TaskEnds
    <2>2. \A s \in Run : run'[s].status = run[s].status
      BY <1>2 DEF WindowCloses, TaskStarts, TaskDropped, TaskEnds, TypeOK, Row
    <2>3. \A s \in Run : tasks'[s].queued > 0 \/ tasks'[s].working > 0 \/ tasks'[s].reported > 0
                           => tasks[s].queued > 0 \/ tasks[s].working > 0
                              \/ tasks[s].reported > 0
      BY <1>2 DEF WindowCloses, TaskStarts, TaskDropped, TaskEnds, TypeOK, Tasks
    <2>4. \A c \in Call : call[c].pc # "idle" => call[c].run \in Run
      BY BusyCall
    <2> QED BY <2>1, <2>2, <2>3, <2>4 DEF FreshRuns, Exists
  <1>3. ASSUME NEW c \in Call, CallFails(c) PROVE FreshRuns'
    <2>1. tasks' = tasks /\ run' = run /\ Return(c)
      BY <1>3 DEF CallFails
    <2> QED BY <2>1, ReturnRun, FreshFrame DEF FreshRuns, Exists
  <1>4. CASE Crash
    BY <1>4 DEF Crash, FreshRuns, Exists, Idle
  <1>5. CASE UNCHANGED vars
    BY <1>5 DEF vars, FreshRuns, Exists
  <1> QED BY <1>1, <1>2, <1>3, <1>4, <1>5, FreshActivate, FreshDeactivate, FreshApplyResult
          DEF Next

\* A step of the controller leaves an ended run ended.
LEMMA EndedStep ==
  TypeOK /\ FreshRuns /\ [Next]_vars
    => \A r \in Run : run[r].status \in Ended => run'[r].status \in Ended
  <1> SUFFICES ASSUME TypeOK, FreshRuns, [Next]_vars,
                      NEW r \in Run, run[r].status \in Ended
               PROVE  run'[r].status \in Ended
    OBVIOUS
  <1>1. ASSUME NEW c \in Operator, Insert(c) PROVE run'[r].status \in Ended
    <2>1. ~Exists(call[c].run)
      BY <1>1 DEF Insert, FreshRuns, Call
    <2>2. call[c].run # r
      BY <2>1 DEF Exists, Ended
    <2> QED BY <1>1, <2>2, InsertStatus
  <1>2. CASE \A c \in Operator : ~Insert(c)
    BY <1>2, StatusStep
  <1> QED BY <1>1, <1>2

\* No run that is over is ever active again.
THEOREM EndsAreFinal == Spec => NeverReopened
  <1>1. Init => FreshRuns
    BY DEF Init, FreshRuns, Idle
  <1>2. TypeOK /\ FreshRuns /\ [Next]_vars
          => [\A r \in Run : run[r].status \in Ended => run'[r].status \in Ended]_vars
    BY EndedStep
  <1> QED BY <1>1, <1>2, FreshStep, TypeCorrect, PTL DEF Spec, NeverReopened

(***************************************************************************)
(* The budget column.  Only accrue changes the accrued cost, and it adds.  *)
(***************************************************************************)

LEMMA AccruedFrame ==
  ASSUME TypeOK, [Next]_vars, \A c \in Consumer : ~Accrue(c)
  PROVE  spent' = spent /\ \A r \in Run : run'[r].accrued = run[r].accrued
  <1> USE DEF TypeOK, Row
  <1>1. ASSUME NEW c \in Operator, Activate(c)
        PROVE  spent' = spent /\ \A r \in Run : run'[r].accrued = run[r].accrued
    <2>1. CASE Insert(c)
      BY <2>1 DEF Insert
    <2>2. CASE ~Insert(c)
      BY <1>1, <2>2 DEF Activate, Preflight, Dispatch, DispatchEnds, RecordDispatched,
                        AuditActivated, AnnounceActivated
    <2> QED BY <2>1, <2>2
  <1>2. ASSUME NEW c \in Operator, Deactivate(c)
        PROVE  spent' = spent /\ \A r \in Run : run'[r].accrued = run[r].accrued
    BY <1>2 DEF Deactivate, ReadRun, Cancel, AuditCancelled, AnnounceCancelled
  <1>3. ASSUME NEW c \in Consumer, ApplyResult(c)
        PROVE  spent' = spent /\ \A r \in Run : run'[r].accrued = run[r].accrued
    BY <1>3 DEF ApplyResult, Halt, AuditHalted, AnnounceExhausted, Warn
  <1>4. CASE ExpireOverdueRuns
    BY <1>4 DEF ExpireOverdueRuns, Sweep, SweepFails, SweepAudits
  <1>5. ASSUME NEW r \in Run,
               WindowCloses(r) \/ TaskStarts(r) \/ TaskDropped(r) \/ TaskEnds(r)
        PROVE  spent' = spent /\ \A s \in Run : run'[s].accrued = run[s].accrued
    BY <1>5 DEF WindowCloses, TaskStarts, TaskDropped, TaskEnds
  <1>6. CASE Crash \/ UNCHANGED vars \/ \E c \in Call : CallFails(c)
    BY <1>6 DEF Crash, vars, CallFails
  <1> QED BY <1>1, <1>2, <1>3, <1>4, <1>5, <1>6 DEF Next

LEMMA CostStep == TypeOK /\ CostConserved /\ [Next]_vars => CostConserved'
  <1> SUFFICES ASSUME TypeOK, CostConserved, [Next]_vars PROVE CostConserved'
    OBVIOUS
  <1>1. ASSUME NEW c \in Consumer, Accrue(c) PROVE CostConserved'
    <2>1. PICK r \in Run, cost \in Cost :
            Adds(r, cost)
      BY <1>1, AccrueRun
    <2> QED BY <2>1 DEF Adds, CostConserved, TypeOK, Row, Spent
  <1>2. CASE \A c \in Consumer : ~Accrue(c)
    BY <1>2, AccruedFrame DEF CostConserved
  <1> QED BY <1>1, <1>2

\* No cost that was given to accrue is ever lost from the row.
THEOREM NoCostLost == Spec => []CostConserved
  <1>1. Init => CostConserved
    BY DEF Init, CostConserved
  <1> QED BY <1>1, CostStep, TypeCorrect, PTL DEF Spec

(***************************************************************************)
(* The cost ceiling.  A run that is not in the table has no cost yet, so   *)
(* it is accrue that takes a run over its limit, and it is about to halt   *)
(* the run from then on.                                                   *)
(***************************************************************************)

NoCostBefore == \A r \in Run : ~Exists(r) => run[r].accrued = 0

LEMMA NoCostStep == TypeOK /\ FreshRuns /\ NoCostBefore /\ [Next]_vars => NoCostBefore'
  <1> SUFFICES ASSUME TypeOK, FreshRuns, NoCostBefore, [Next]_vars,
                      NEW r \in Run, run'[r].status = "none"
               PROVE  run'[r].accrued = 0
    BY DEF NoCostBefore, Exists
  <1>1. ~Exists(r)
    <2>1. ASSUME NEW c \in Operator, Insert(c) PROVE ~Exists(r)
      BY <2>1, InsertStatus DEF Exists
    <2>2. CASE \A c \in Operator : ~Insert(c)
      BY <2>2, StatusStep DEF Exists, Ended
    <2> QED BY <2>1, <2>2
  <1>2. ASSUME NEW c \in Consumer, Accrue(c) PROVE run'[r].accrued = 0
    <2>1. PICK s \in Run, cost \in Cost :
            tasks[s].reported > 0 /\ run' = [run EXCEPT ![s].accrued = @ + cost]
      BY <1>2, AccrueRun
    <2>2. s # r
      BY <1>1, <2>1 DEF FreshRuns
    <2> QED BY <1>1, <2>1, <2>2 DEF NoCostBefore, TypeOK
  <1>3. CASE \A c \in Consumer : ~Accrue(c)
    BY <1>1, <1>3, AccruedFrame DEF NoCostBefore
  <1> QED BY <1>2, <1>3

\* The halt of a run is pending until its call runs it or is lost.
Halting(r) == \E c \in Consumer : call[c].run = r /\ call[c].pc = "halt"

LEMMA HaltingStep ==
  ASSUME TypeOK, [Next]_vars, NEW r \in Run, Halting(r), run'[r].status = "running"
  PROVE  Halting(r)' \/ faults' > 0
  <1>1. PICK c \in Consumer : call[c].run = r /\ call[c].pc = "halt"
    BY DEF Halting
  <1>2. c \in Call /\ c \in Consumer /\ call[c] # Idle
    BY <1>1 DEF Call, Idle
  <1>3. SUFFICES call'[c] = call[c] \/ faults' > 0
    BY <1>1 DEF Halting
  <1>4. ASSUME NEW d \in Operator, Activate(d) \/ Deactivate(d) PROVE call'[c] = call[c]
    <2>1. d # c => call'[c] = call[c]
      BY <1>2, <1>4 DEF Activate, Preflight, Insert, Dispatch, DispatchEnds, RecordDispatched,
                        AuditActivated, AnnounceActivated, Deactivate, ReadRun, Cancel,
                        AuditCancelled, AnnounceCancelled, Goto, Return, TypeOK
    <2>2. d # c
      BY <1>1, <1>2, <1>4 DEF Activate, Preflight, Insert, Dispatch, DispatchEnds,
                        RecordDispatched, AuditActivated, AnnounceActivated, Deactivate,
                        ReadRun, Cancel, AuditCancelled, AnnounceCancelled
    <2> QED BY <2>1, <2>2
  <1>5. ASSUME NEW d \in Consumer, ApplyResult(d) PROVE call'[c] = call[c]
    <2>1. CASE Halt(d)
      <3>1. d # c
        BY <1>1, <2>1 DEF Halt, TypeOK, Row
      <3> QED BY <1>2, <2>1, <3>1 DEF Halt, Goto, TypeOK
    <2>2. CASE Accrue(d)
      <3>1. d # c
        BY <1>2, <2>2 DEF Accrue
      <3> QED BY <1>2, <2>2, <3>1, AccrueRun
    <2>3. CASE AuditHalted(d) \/ AnnounceExhausted(d) \/ Warn(d)
      <3>1. d # c
        BY <1>1, <2>3 DEF AuditHalted, AnnounceExhausted, Warn
      <3> QED BY <1>2, <2>3, <3>1 DEF AuditHalted, AnnounceExhausted, Warn, Goto, Return, TypeOK
    <2> QED BY <1>5, <2>1, <2>2, <2>3 DEF ApplyResult
  <1>6. CASE ExpireOverdueRuns
    BY <1>6 DEF ExpireOverdueRuns, Sweep, SweepFails, SweepAudits
  <1>7. ASSUME NEW s \in Run,
               WindowCloses(s) \/ TaskStarts(s) \/ TaskDropped(s) \/ TaskEnds(s)
        PROVE  call'[c] = call[c]
    BY <1>7 DEF WindowCloses, TaskStarts, TaskDropped, TaskEnds
  <1>8. CASE Crash \/ \E d \in Call : CallFails(d)
    BY <1>8 DEF Crash, CallFails, Fault, TypeOK
  <1>9. CASE UNCHANGED vars
    BY <1>9 DEF vars
  <1> QED BY <1>4, <1>5, <1>6, <1>7, <1>8, <1>9 DEF Next

LEMMA FaultsGrow == TypeOK /\ [Next]_vars => (faults > 0 => faults' > 0)
  <1> SUFFICES ASSUME TypeOK, [Next]_vars PROVE faults' = faults \/ faults' = faults + 1
    BY DEF TypeOK
  <1>1. ASSUME NEW c \in Operator, Activate(c) \/ Deactivate(c) PROVE faults' = faults
    BY <1>1 DEF Activate, Preflight, Insert, Dispatch, DispatchEnds, RecordDispatched,
                AuditActivated, AnnounceActivated, Deactivate, ReadRun, Cancel,
                AuditCancelled, AnnounceCancelled
  <1>2. ASSUME NEW c \in Consumer, ApplyResult(c) PROVE faults' = faults
    BY <1>2 DEF ApplyResult, Accrue, Halt, AuditHalted, AnnounceExhausted, Warn
  <1>3. CASE ExpireOverdueRuns
    BY <1>3 DEF ExpireOverdueRuns, Sweep, SweepFails, SweepAudits, Fault
  <1>4. ASSUME NEW r \in Run,
               WindowCloses(r) \/ TaskStarts(r) \/ TaskDropped(r) \/ TaskEnds(r)
        PROVE  faults' = faults
    BY <1>4 DEF WindowCloses, TaskStarts, TaskDropped, TaskEnds
  <1>5. CASE Crash \/ UNCHANGED vars \/ \E c \in Call : CallFails(c)
    BY <1>5 DEF Crash, vars, CallFails, Fault
  <1> QED BY <1>1, <1>2, <1>3, <1>4, <1>5 DEF Next

LEMMA OverBudgetStep ==
  TypeOK /\ FreshRuns /\ NoCostBefore /\ OverBudgetRunIsHalting /\ [Next]_vars
    => OverBudgetRunIsHalting'
  <1> SUFFICES ASSUME TypeOK, FreshRuns, NoCostBefore, OverBudgetRunIsHalting, [Next]_vars,
                      NEW r \in Run, run'[r].status = "running", run'[r].accrued >= Limit
               PROVE  faults' > 0 \/ Halting(r)'
    BY DEF OverBudgetRunIsHalting, Active, Halting
  <1>1. ASSUME r \in Active, run[r].accrued >= Limit PROVE faults' > 0 \/ Halting(r)'
    BY <1>1, HaltingStep, FaultsGrow DEF OverBudgetRunIsHalting, Halting
  <1>2. ASSUME NEW c \in Operator, Insert(c) PROVE faults' > 0 \/ Halting(r)'
    <2>1. CASE Active = {}
      <3>1. r = call[c].run
        BY <1>2, <2>1, InsertStatus DEF Active
      <3>2. run[r].accrued = 0
        BY <1>2, <3>1 DEF Insert, FreshRuns, NoCostBefore, Call
      <3>3. run'[r].accrued = 0
        <4>1. run' = [run EXCEPT ![r].status = "running"]
          BY <1>2, <2>1, <3>1 DEF Insert
        <4> QED BY <3>2, <4>1 DEF TypeOK, Row
      <3> QED BY <3>3, BeastAssumption
    <2>2. CASE Active # {}
      BY <1>1, <1>2, <2>2, InsertStatus DEF Active
    <2> QED BY <2>1, <2>2
  <1>3. ASSUME NEW c \in Consumer, Accrue(c) PROVE faults' > 0 \/ Halting(r)'
    <2>1. PICK s \in Run, cost \in Cost :
          \E pc \in Verdicts(run[s].status, run[s].accrued, run[s].accrued + cost) :
           /\ run' = [run EXCEPT ![s].accrued = @ + cost]
           /\ \/ pc = "idle"
              \/ call'[c].pc = pc /\ call'[c].run = s
      BY <1>3, AccrueRun
    <2>2. CASE s = r
      <3>1. run[r].status = "running" /\ run[r].accrued + cost >= Limit
        BY <2>1, <2>2 DEF TypeOK, Row
      <3>2. Verdicts(run[r].status, run[r].accrued, run[r].accrued + cost) = {"halt"}
        BY <3>1 DEF Verdicts, Exhausted
      <3>3. call'[c].pc = "halt" /\ call'[c].run = r
        BY <2>1, <2>2, <3>2
      <3> QED BY <3>3 DEF Halting
    <2>3. CASE s # r
      <3>1. run'[r] = run[r]
        BY <2>1, <2>3 DEF TypeOK
      <3> QED BY <1>1, <3>1 DEF Active
    <2> QED BY <2>2, <2>3
  <1>4. CASE (\A c \in Operator : ~Insert(c)) /\ (\A c \in Consumer : ~Accrue(c))
    BY <1>1, <1>4, StatusStep, AccruedFrame DEF Active, Ended
  <1> QED BY <1>2, <1>3, <1>4

\* A run over its limit is halted by the call that saw it, unless that call is lost.
THEOREM BudgetHalts == Spec => []OverBudgetRunIsHalting
  <1>1. Init => FreshRuns /\ NoCostBefore /\ OverBudgetRunIsHalting
    BY DEF Init, FreshRuns, NoCostBefore, OverBudgetRunIsHalting, Active, Idle
  <1> QED BY <1>1, FreshStep, NoCostStep, OverBudgetStep, TypeCorrect, PTL DEF Spec

(***************************************************************************)
(* The early warning.  A result warns when it takes the cost over the mark *)
(* of 80%, and the cost never comes down again.  The answers of accrue are *)
(* settled everywhere but at the mark itself.                              *)
(***************************************************************************)

Warning(r) == {c \in Consumer : call[c].run = r /\ call[c].pc = "warn"}
At(r)      == 10 * run[r].accrued = 8 * Limit
Past(r)    == 10 * run[r].accrued > 8 * Limit

WarnedAt(r) ==
  /\ IsFiniteSet(Warning(r))
  /\ At(r) => spent[r].onMark
  /\ Told(r) > 0 => At(r) \/ Past(r)
  /\ Told(r) <= IF spent[r].onMark THEN 2 ELSE 1
  /\ Told(r) > 1 => Past(r)
  /\ r \in Active /\ ~Exhausted(run[r].accrued) /\ Past(r) /\ ~spent[r].onMark
       => Told(r) = 1 \/ faults > 0

WarnedInv == \A r \in Run : WarnedAt(r)

LEMMA WarnedInvIsAtMark == TypeOK /\ WarnedInv => WarnedAtMark
  <1> SUFFICES ASSUME TypeOK, WarnedInv, NEW r \in Run
               PROVE  /\ Told(r) > 0 => 10 * run[r].accrued >= 8 * Limit
                      /\ Told(r) <= IF spent[r].onMark THEN 2 ELSE 1
                      /\ /\ r \in Active /\ ~Exhausted(run[r].accrued)
                         /\ 10 * run[r].accrued >= 8 * Limit /\ ~spent[r].onMark
                         => Told(r) = 1 \/ faults > 0
    BY DEF WarnedAtMark
  <1>1. 10 * run[r].accrued \in Nat /\ 8 * Limit \in Nat
    BY BeastAssumption DEF TypeOK, Row
  <1> QED BY <1>1 DEF WarnedInv, WarnedAt, At, Past

\* The warnings of a run, in terms of the calls about to send one.
LEMMA ToldSum ==
  ASSUME TypeOK, NEW r \in Run, IsFiniteSet(Warning(r))
  PROVE  /\ Told(r) = warnings[r] + Cardinality(Warning(r))
         /\ warnings[r] \in Nat /\ Cardinality(Warning(r)) \in Nat /\ Told(r) \in Nat
  <1>1. Told(r) = warnings[r] + Cardinality(Warning(r))
    BY DEF Told, Warning
  <1>2. warnings[r] \in Nat /\ Cardinality(Warning(r)) \in Nat
    BY FS_CardinalityType DEF TypeOK
  <1> QED BY <1>1, <1>2

\* What accrue finds of the mark: it warns only of a result that takes the cost to the mark
\* or past it from below or from the mark, and always of one that takes it past from below.
LEMMA MarkSeen ==
  ASSUME NEW before \in Nat, NEW cost \in Nat,
         NEW pc \in Verdicts("running", before, before + cost)
  PROVE  /\ pc = "warn" => /\ cost > 0 /\ 10 * before <= 8 * Limit
                           /\ 10 * (before + cost) >= 8 * Limit
         /\ pc = "idle" => ~(10 * before < 8 * Limit /\ 10 * (before + cost) > 8 * Limit)
         /\ pc = "halt" <=> Exhausted(before + cost)
  <1>0. Limit \in Nat
    BY BeastAssumption
  <1>1. CASE Exhausted(before + cost)
    BY <1>1 DEF Verdicts
  <1>2. CASE ~Exhausted(before + cost)
    <2>1. PICK near \in NearlyExhausted(before, before + cost) :
            pc = IF near THEN "warn" ELSE "idle"
      BY <1>2 DEF Verdicts
    <2>2. CASE cost = 0
      BY <1>0, <1>2, <2>1, <2>2 DEF NearlyExhausted
    <2>3. CASE cost > 0
      <3>1. PICK past \in Reaches(before + cost), was \in Reaches(before) :
              near <=> before # before + cost /\ past /\ ~was
        BY <2>1 DEF NearlyExhausted
      <3>2. past \in BOOLEAN /\ was \in BOOLEAN
        BY <3>1 DEF Reaches
      <3>3. /\ past => 10 * (before + cost) >= 8 * Limit
            /\ ~past => 10 * (before + cost) <= 8 * Limit
            /\ was => 10 * before >= 8 * Limit
            /\ ~was => 10 * before <= 8 * Limit
        BY <3>1 DEF Reaches
      <3>4. pc = "warn" <=> past /\ ~was
        <4>1. before # before + cost
          BY <2>3
        <4> QED BY <2>1, <3>1, <4>1
      <3> HIDE DEF Reaches
      <3>5. pc = "warn" => 10 * before <= 8 * Limit /\ 10 * (before + cost) >= 8 * Limit
        BY <3>3, <3>4
      <3>6. 10 * before < 8 * Limit /\ 10 * (before + cost) > 8 * Limit => past /\ ~was
        BY <1>0, <3>2, <3>3
      <3>7. pc \in {"warn", "idle"}
        BY <2>1
      <3> QED BY <1>2, <2>3, <3>4, <3>5, <3>6, <3>7
    <2> QED BY <2>2, <2>3
  <1> QED BY <1>1, <1>2

\* Nothing but accrue sends a call to warn, and nothing but Warn counts a warning.
LEMMA WarnFrame ==
  ASSUME TypeOK, [Next]_vars, \A c \in Consumer : ~Accrue(c) /\ ~Warn(c)
  PROVE  /\ warnings' = warnings
         /\ \A c \in Consumer : call'[c] = call[c] \/ call'[c].pc # "warn"
  <1> DEFINE Quiet == /\ warnings' = warnings
                      /\ \A c \in Consumer : call'[c] = call[c] \/ call'[c].pc # "warn"
  <1>0. Consumer \subseteq Call /\ Operator \subseteq Call
    BY DEF Call
  <1>1. ASSUME NEW c \in Operator, Activate(c) PROVE Quiet
    <2>1. CASE Insert(c) \/ DispatchEnds(c) \/ RecordDispatched(c) \/ AuditActivated(c)
               \/ AnnounceActivated(c)
      <3>1. warnings' = warnings
        BY <2>1 DEF Insert, DispatchEnds, RecordDispatched, AuditActivated, AnnounceActivated
      <3>2. Return(c) \/ \E pc \in CallPc \ {"warn"} : Goto(c, pc) /\ call[c].pc # "idle"
        BY <2>1 DEF Insert, DispatchEnds, RecordDispatched, AuditActivated, AnnounceActivated,
                    CallPc
      <3> QED BY <1>0, <3>1, <3>2, GotoRun, ReturnRun DEF Idle
    <2>2. CASE Preflight(c)
      BY <1>0, <2>2 DEF Preflight, TypeOK
    <2>3. CASE Dispatch(c)
      <3>1. call[c] \in Busy
        BY <1>0, <2>3, BusyCall DEF Dispatch
      <3> QED BY <1>0, <2>3, <3>1 DEF Dispatch, TypeOK, Busy
    <2> QED BY <1>1, <2>1, <2>2, <2>3 DEF Activate
  <1>2. ASSUME NEW c \in Operator, Deactivate(c) PROVE Quiet
    <2>1. CASE ReadRun(c)
      BY <1>0, <2>1 DEF ReadRun, TypeOK
    <2>2. CASE ~ReadRun(c)
      <3>1. warnings' = warnings
        BY <1>2, <2>2 DEF Deactivate, Cancel, AuditCancelled, AnnounceCancelled
      <3>2. Return(c) \/ \E pc \in CallPc \ {"warn"} : Goto(c, pc) /\ call[c].pc # "idle"
        BY <1>2, <2>2 DEF Deactivate, Cancel, AuditCancelled, AnnounceCancelled, CallPc
      <3> QED BY <1>0, <3>1, <3>2, GotoRun, ReturnRun DEF Idle
    <2> QED BY <2>1, <2>2
  <1>3. ASSUME NEW c \in Consumer, ApplyResult(c) PROVE Quiet
    <2>1. warnings' = warnings
      BY <1>3 DEF ApplyResult, Halt, AuditHalted, AnnounceExhausted
    <2>2. Return(c) \/ \E pc \in CallPc \ {"warn"} : Goto(c, pc) /\ call[c].pc # "idle"
      BY <1>3 DEF ApplyResult, Halt, AuditHalted, AnnounceExhausted, CallPc
    <2> QED BY <1>0, <2>1, <2>2, GotoRun, ReturnRun DEF Idle
  <1>4. CASE ExpireOverdueRuns
    BY <1>4 DEF ExpireOverdueRuns, Sweep, SweepFails, SweepAudits
  <1>5. ASSUME NEW r \in Run,
               WindowCloses(r) \/ TaskStarts(r) \/ TaskDropped(r) \/ TaskEnds(r)
        PROVE  Quiet
    BY <1>5 DEF WindowCloses, TaskStarts, TaskDropped, TaskEnds
  <1>6. ASSUME NEW c \in Call, CallFails(c) PROVE Quiet
    BY <1>0, <1>6, ReturnRun DEF CallFails, Idle
  <1>7. CASE Crash \/ UNCHANGED vars
    BY <1>0, <1>7 DEF Crash, vars, Idle
  <1> QED BY <1>1, <1>2, <1>3, <1>4, <1>5, <1>6, <1>7 DEF Next

\* A call about to warn stays there until it warns or is lost by a fault.
LEMMA WarningStays ==
  ASSUME TypeOK, [Next]_vars, NEW c \in Consumer, call[c].pc = "warn", ~Warn(c)
  PROVE  call'[c] = call[c] \/ faults' > 0
  <1>0. c \in Call /\ call[c] # Idle /\ Operator \subseteq Call /\ Consumer \subseteq Call
    BY DEF Call, Idle
  <1>1. ASSUME NEW d \in Operator, Activate(d) \/ Deactivate(d) PROVE call'[c] = call[c]
    <2>1. d # c
      BY <1>0, <1>1 DEF Activate, Preflight, Insert, Dispatch, DispatchEnds, RecordDispatched,
                        AuditActivated, AnnounceActivated, Deactivate, ReadRun, Cancel,
                        AuditCancelled, AnnounceCancelled
    <2> QED BY <1>0, <1>1, <2>1
               DEF Activate, Preflight, Insert, Dispatch, DispatchEnds, RecordDispatched,
                   AuditActivated, AnnounceActivated, Deactivate, ReadRun, Cancel,
                   AuditCancelled, AnnounceCancelled, Goto, Return, TypeOK
  <1>2. ASSUME NEW d \in Consumer, ApplyResult(d) PROVE call'[c] = call[c]
    <2>1. CASE Accrue(d)
      <3>1. d # c
        BY <1>0, <2>1 DEF Accrue
      <3> QED BY <1>0, <2>1, <3>1, AccrueRun
    <2>2. CASE Halt(d) \/ AuditHalted(d) \/ AnnounceExhausted(d) \/ Warn(d)
      <3>1. d # c
        BY <2>2 DEF Halt, AuditHalted, AnnounceExhausted
      <3> QED BY <1>0, <2>2, <3>1 DEF Halt, AuditHalted, AnnounceExhausted, Warn, Goto, Return,
                                      TypeOK
    <2> QED BY <1>2, <2>1, <2>2 DEF ApplyResult
  <1>3. CASE ExpireOverdueRuns
    BY <1>3 DEF ExpireOverdueRuns, Sweep, SweepFails, SweepAudits
  <1>4. ASSUME NEW s \in Run,
               WindowCloses(s) \/ TaskStarts(s) \/ TaskDropped(s) \/ TaskEnds(s)
        PROVE  call'[c] = call[c]
    BY <1>4 DEF WindowCloses, TaskStarts, TaskDropped, TaskEnds
  <1>5. CASE Crash \/ \E d \in Call : CallFails(d)
    BY <1>5 DEF Crash, CallFails, Fault, TypeOK
  <1>6. CASE UNCHANGED vars
    BY <1>6 DEF vars
  <1> QED BY <1>1, <1>2, <1>3, <1>4, <1>5, <1>6 DEF Next

\* A result applied: the cost grows, and the call may be about to warn.
LEMMA WarnedAccrue ==
  ASSUME TypeOK, TypeOK', WarnedInv, NEW c \in Consumer, Accrue(c), NEW r \in Run
  PROVE  WarnedAt(r)'
  <1>0. /\ run[r].accrued \in Nat /\ Limit \in Nat /\ Cost \subseteq Nat
        /\ faults' = faults /\ warnings' = warnings /\ call[c] = Idle /\ Consumer \subseteq Call
    BY BeastAssumption DEF TypeOK, Row, Accrue, Call
  <1>1. WarnedAt(r) /\ IsFiniteSet(Warning(r))
    BY DEF WarnedInv, WarnedAt
  <1>2. PICK s \in Run, cost \in Cost :
        \E pc \in Verdicts(run[s].status, run[s].accrued, run[s].accrued + cost) :
         /\ Adds(s, cost)
         /\ \A d \in Call \ {c} : call'[d] = call[d]
         /\ \/ pc = "idle" /\ call' = call
            \/ pc # "idle" /\ call'[c].pc = pc /\ call'[c].run = s
    BY AccrueRun
  <1>3. PICK pc \in Verdicts(run[s].status, run[s].accrued, run[s].accrued + cost) :
         /\ \A d \in Call \ {c} : call'[d] = call[d]
         /\ \/ pc = "idle" /\ call' = call
            \/ pc # "idle" /\ call'[c].pc = pc /\ call'[c].run = s
    BY <1>2
  <1>4. c \notin Warning(r) /\ cost \in Nat
    BY <1>0, <1>2 DEF Warning, Idle
  <1>5. c \in Warning(r)' <=> s = r /\ pc = "warn"
    BY <1>0, <1>3 DEF Warning, Idle
  <1>6. Warning(r)' = IF s = r /\ pc = "warn" THEN Warning(r) \cup {c} ELSE Warning(r)
    BY <1>0, <1>3, <1>4, <1>5 DEF Warning
  <1>7. IsFiniteSet(Warning(r)') /\ Told(r)' = Told(r) + (IF s = r /\ pc = "warn" THEN 1 ELSE 0)
    <2>1. /\ IsFiniteSet(Warning(r)')
          /\ Cardinality(Warning(r)') = Cardinality(Warning(r))
                                          + (IF s = r /\ pc = "warn" THEN 1 ELSE 0)
      BY <1>1, <1>4, <1>6, FS_AddElement, FS_CardinalityType
    <2>2. Told(r) = warnings[r] + Cardinality(Warning(r)) /\ warnings[r] \in Nat
          /\ Cardinality(Warning(r)) \in Nat
      BY <1>1, ToldSum
    <2>3. Told(r)' = warnings'[r] + Cardinality(Warning(r)')
      BY DEF Told, Warning
    <2> QED BY <1>0, <2>1, <2>2, <2>3
  <1>8. Told(r) \in Nat
    BY <1>1, ToldSum
  <1>9. CASE s # r
    <2>1. run'[r] = run[r] /\ spent'[r] = spent[r]
      BY <1>2, <1>9 DEF Adds, TypeOK
    <2>2. Told(r)' = Told(r)
      BY <1>7, <1>8, <1>9
    <2> QED BY <1>0, <1>1, <1>7, <2>1, <2>2 DEF WarnedAt, At, Past, Active, Exhausted
  <1>10. CASE s = r
    <2>1. /\ run'[r].accrued = run[r].accrued + cost /\ run'[r].status = run[r].status
          /\ spent'[r].onMark = (spent[r].onMark \/ 10 * (run[r].accrued + cost) = 8 * Limit)
          /\ spent[r].onMark \in BOOLEAN
      BY <1>2, <1>10 DEF Adds, TypeOK, Row, Spent
    <2>2. CASE run[r].status # "running"
      <3>1. pc = "idle"
        BY <1>3, <1>10, <2>2 DEF Verdicts
      <3>2. Told(r)' = Told(r) /\ r \notin Active'
        BY <1>7, <1>8, <2>1, <2>2, <3>1 DEF Active
      <3>3. /\ At(r)' => spent'[r].onMark
            /\ spent[r].onMark => spent'[r].onMark
        BY <2>1 DEF At
      <3>4. (At(r) \/ Past(r) => At(r)' \/ Past(r)') /\ (Past(r) => Past(r)')
        BY <1>0, <1>4, <2>1 DEF At, Past
      <3> QED BY <1>1, <1>7, <1>8, <3>2, <3>3, <3>4 DEF WarnedAt
    <2>3. CASE run[r].status = "running"
      <3>1. /\ pc = "warn" => /\ cost > 0 /\ 10 * run[r].accrued <= 8 * Limit
                              /\ 10 * (run[r].accrued + cost) >= 8 * Limit
            /\ pc = "idle" => ~(/\ 10 * run[r].accrued < 8 * Limit
                                /\ 10 * (run[r].accrued + cost) > 8 * Limit)
            /\ pc = "halt" <=> Exhausted(run[r].accrued + cost)
        BY <1>0, <1>3, <1>4, <1>10, <2>3, MarkSeen
      <3>2. pc \in {"idle", "halt", "warn"}
        BY <1>3, VerdictType
      <3>3. CASE pc = "warn"
        <4>1. Told(r)' = Told(r) + 1 /\ Told(r) <= 1 /\ (Told(r) > 0 => At(r))
          BY <1>0, <1>1, <1>7, <1>8, <1>10, <3>1, <3>3 DEF WarnedAt, At, Past
        <4>2. Told(r) > 0 => spent[r].onMark /\ Past(r)'
          BY <1>0, <1>1, <1>4, <2>1, <3>1, <3>3, <4>1 DEF WarnedAt, At, Past
        <4>3. At(r)' \/ Past(r)'
          BY <1>0, <1>4, <2>1, <3>1, <3>3 DEF At, Past
        <4>4. At(r)' => spent'[r].onMark
          BY <2>1 DEF At
        <4>5. spent[r].onMark => spent'[r].onMark
          BY <2>1
        <4> QED BY <1>7, <1>8, <4>1, <4>2, <4>3, <4>4, <4>5 DEF WarnedAt
      <3>4. CASE pc # "warn"
        <4>1. Told(r)' = Told(r)
          BY <1>7, <1>8, <3>4
        <4>2. /\ At(r)' => spent'[r].onMark
              /\ spent[r].onMark => spent'[r].onMark
          BY <2>1 DEF At
        <4>4. (At(r) \/ Past(r) => At(r)' \/ Past(r)') /\ (Past(r) => Past(r)')
          BY <1>0, <1>4, <2>1 DEF At, Past
        <4>3. ASSUME ~Exhausted(run'[r].accrued), Past(r)', ~spent'[r].onMark
              PROVE  Told(r) = 1 \/ faults > 0
          <5>1. pc = "idle"
            BY <2>1, <3>1, <3>2, <3>4, <4>3
          <5>2. ~spent[r].onMark /\ ~At(r)
            BY <1>1, <2>1, <4>3 DEF WarnedAt
          <5>3. Past(r) /\ ~Exhausted(run[r].accrued)
            BY <1>0, <1>4, <2>1, <3>1, <4>3, <5>1, <5>2 DEF At, Past, Exhausted
          <5> QED BY <1>1, <2>3, <5>2, <5>3 DEF WarnedAt, Active
        <4> QED BY <1>0, <1>1, <1>7, <1>8, <2>1, <2>3, <4>1, <4>2, <4>3, <4>4 DEF WarnedAt
      <3> QED BY <3>3, <3>4
    <2> QED BY <2>2, <2>3
  <1> QED BY <1>9, <1>10

\* A warning sent: the call that was about to send it is done.
LEMMA WarnedWarn ==
  ASSUME TypeOK, TypeOK', WarnedInv, NEW c \in Consumer, Warn(c), NEW r \in Run
  PROVE  WarnedAt(r)'
  <1>1. c \in Call /\ call[c].run \in Run /\ Consumer \subseteq Call
    BY BusyCall DEF Warn, Call
  <1>2. call'[c] = Idle /\ \A d \in Call \ {c} : call'[d] = call[d]
    BY <1>1, ReturnRun DEF Warn
  <1>3. Warning(r)' = Warning(r) \ {c} /\ (c \in Warning(r) <=> r = call[c].run)
    BY <1>1, <1>2 DEF Warning, Idle, Warn
  <1>4. WarnedAt(r) /\ IsFiniteSet(Warning(r))
    BY DEF WarnedInv, WarnedAt
  <1>5. warnings'[r] = warnings[r] + (IF r = call[c].run THEN 1 ELSE 0)
    BY <1>1 DEF Warn, TypeOK
  <1>6. /\ IsFiniteSet(Warning(r)')
        /\ Cardinality(Warning(r)')
             = Cardinality(Warning(r)) - (IF r = call[c].run THEN 1 ELSE 0)
    <2>1. CASE c \in Warning(r)
      BY <1>3, <1>4, <2>1, FS_RemoveElement, FS_CardinalityType
    <2>2. CASE c \notin Warning(r)
      <3>1. Warning(r)' = Warning(r) /\ r # call[c].run
        BY <1>3, <2>2
      <3>2. Cardinality(Warning(r)) \in Nat
        BY <1>4, FS_CardinalityType
      <3> QED BY <1>4, <3>1, <3>2
    <2> QED BY <2>1, <2>2
  <1>7. Told(r)' = Told(r)
    <2>1. Told(r) = warnings[r] + Cardinality(Warning(r)) /\ warnings[r] \in Nat
          /\ Cardinality(Warning(r)) \in Nat
      BY <1>4, ToldSum
    <2>2. Told(r)' = warnings'[r] + Cardinality(Warning(r)')
      BY DEF Told, Warning
    <2> QED BY <1>5, <1>6, <2>1, <2>2
  <1>8. run' = run /\ spent' = spent /\ faults' = faults
    BY DEF Warn
  <1> QED BY <1>4, <1>6, <1>7, <1>8 DEF WarnedAt, At, Past, Active, Exhausted

\* Any other step: nobody is told more, and only a fault takes a warning away.
LEMMA WarnedOther ==
  ASSUME TypeOK, TypeOK', FreshRuns, NoCostBefore, WarnedInv, [Next]_vars,
         \A c \in Consumer : ~Accrue(c) /\ ~Warn(c), NEW r \in Run
  PROVE  WarnedAt(r)'
  <1>1. warnings' = warnings /\ \A c \in Consumer : call'[c] = call[c] \/ call'[c].pc # "warn"
    BY WarnFrame
  <1>2. spent' = spent /\ run'[r].accrued = run[r].accrued
    BY AccruedFrame
  <1>3. WarnedAt(r) /\ IsFiniteSet(Warning(r))
    BY DEF WarnedInv, WarnedAt
  <1>4. Warning(r)' \subseteq Warning(r)
    BY <1>1 DEF Warning
  <1>5. Warning(r)' = Warning(r) \/ faults' > 0
    <2>1. \A c \in Warning(r) : call'[c] = call[c] \/ faults' > 0
      BY WarningStays DEF Warning
    <2> QED BY <1>4, <2>1 DEF Warning
  <1>6. IsFiniteSet(Warning(r)') /\ Cardinality(Warning(r)') <= Cardinality(Warning(r))
    BY <1>3, <1>4, FS_Subset
  <1>7. /\ Told(r) = warnings[r] + Cardinality(Warning(r))
        /\ Told(r)' = warnings[r] + Cardinality(Warning(r)')
        /\ Told(r) \in Nat /\ warnings[r] \in Nat
        /\ Cardinality(Warning(r)) \in Nat /\ Cardinality(Warning(r)') \in Nat
    <2>1. Told(r)' = warnings'[r] + Cardinality(Warning(r)')
      BY DEF Told, Warning
    <2> QED BY <1>1, <1>3, <1>6, <2>1, ToldSum, FS_CardinalityType
  <1>8. Told(r)' <= Told(r) /\ Told(r)' \in Nat /\ (Told(r)' = Told(r) \/ faults' > 0)
    BY <1>5, <1>6, <1>7
  <1>9. ASSUME r \in Active', Past(r)' PROVE r \in Active
    <2>1. ASSUME NEW c \in Operator, Insert(c) PROVE r \in Active
      <3>1. CASE r \notin Active
        <4>1. r = call[c].run /\ call[c].pc = "insert" /\ c \in Call
          BY <1>9, <2>1, <3>1, InsertStatus DEF Active, Insert, Call
        <4>2. run[r].accrued = 0
          BY <4>1 DEF FreshRuns, NoCostBefore
        <4> QED BY <1>2, <1>9, <4>2, BeastAssumption DEF Past
      <3> QED BY <3>1
    <2>2. CASE \A c \in Operator : ~Insert(c)
      BY <1>9, <2>2, StatusStep DEF Active, Ended
    <2> QED BY <2>1, <2>2
  <1>10. (At(r) <=> At(r)') /\ (Past(r) <=> Past(r)')
         /\ (Exhausted(run[r].accrued) <=> Exhausted(run'[r].accrued))
    BY <1>2 DEF At, Past
  <1>11. faults > 0 => faults' > 0
    BY FaultsGrow
  <1> QED BY <1>2, <1>3, <1>6, <1>7, <1>8, <1>9, <1>10, <1>11 DEF WarnedAt

LEMMA WarnedStep ==
  TypeOK /\ TypeOK' /\ FreshRuns /\ NoCostBefore /\ WarnedInv /\ [Next]_vars => WarnedInv'
  <1> SUFFICES ASSUME TypeOK, TypeOK', FreshRuns, NoCostBefore, WarnedInv, [Next]_vars,
                      NEW r \in Run
               PROVE  WarnedAt(r)'
    BY DEF WarnedInv
  <1> QED BY WarnedAccrue, WarnedWarn, WarnedOther

\* A run is never warned of below 80%; past it, it is warned of once and only once while it
\* has budget left, however its results are applied; a cost of 80% exactly leaves two
\* warnings at most, whatever the doubles of accrue answer there.
THEOREM EarlyWarning == Spec => []WarnedAtMark
  <1>1. Init => FreshRuns /\ NoCostBefore /\ WarnedInv
    <2> SUFFICES ASSUME Init PROVE FreshRuns /\ NoCostBefore /\ WarnedInv
      OBVIOUS
    <2>1. FreshRuns /\ NoCostBefore
      BY DEF Init, FreshRuns, NoCostBefore, Idle
    <2>2. ASSUME NEW r \in Run PROVE WarnedAt(r)
      <3>1. Warning(r) = {} /\ warnings[r] = 0 /\ run[r].accrued = 0 /\ Limit \in Nat \ {0}
        BY BeastAssumption DEF Init, Warning, Idle, Call
      <3>2. Told(r) = 0 /\ IsFiniteSet(Warning(r))
        <4>1. Told(r) = warnings[r] + Cardinality(Warning(r))
          BY DEF Told, Warning
        <4> QED BY <3>1, <4>1, FS_EmptySet
      <3>3. ~At(r) /\ ~Past(r)
        BY <3>1 DEF At, Past
      <3> QED BY <3>2, <3>3 DEF WarnedAt
    <2> QED BY <2>1, <2>2 DEF WarnedInv
  <1> QED BY <1>1, FreshStep, NoCostStep, WarnedStep, WarnedInvIsAtMark, TypeCorrect, PTL DEF Spec

(***************************************************************************)
(* The ledger of the runs.  Entries are only added; whoever ends a run     *)
(* stands before its entry until the entry is written or the call is lost; *)
(* and a call stands before an announcement only behind the entry.         *)
(***************************************************************************)

Ending(r) == \E c \in Call : call[c].run = r /\ call[c].pc \in {"auditCancelled", "auditHalted"}

Accounted(r) ==
  \/ audits[r] \cap {"cancelled", "halted"} # {}
  \/ r \in swept
  \/ Ending(r)
  \/ faults > 0

AnnouncedAudited(r) ==
  /\ "running" \in announced[r] => "activated" \in audits[r]
  /\ "cancelled" \in announced[r] => "cancelled" \in audits[r]
  /\ "exhausted" \in announced[r] => "halted" \in audits[r]

AuditedFirst(c) ==
  /\ call[c].pc = "announceActivated" => "activated" \in audits[call[c].run]
  /\ call[c].pc = "announceCancelled" => "cancelled" \in audits[call[c].run]
  /\ call[c].pc = "announceExhausted" => "halted" \in audits[call[c].run]

AuditInv ==
  /\ \A r \in Run : run[r].status \in Ended => Accounted(r)
  /\ \A r \in Run : AnnouncedAudited(r)
  /\ \A c \in Call : AuditedFirst(c)

LEMMA AuditsGrow ==
  ASSUME TypeOK, [Next]_vars
  PROVE  \A r \in Run : audits[r] \subseteq audits'[r]
  <1> USE DEF TypeOK
  <1>1. ASSUME NEW c \in Operator, Activate(c) \/ Deactivate(c)
        PROVE  \A r \in Run : audits[r] \subseteq audits'[r]
    BY <1>1 DEF Activate, Preflight, Insert, Dispatch, DispatchEnds, RecordDispatched,
                AuditActivated, AnnounceActivated, Deactivate, ReadRun, Cancel,
                AuditCancelled, AnnounceCancelled
  <1>2. ASSUME NEW c \in Consumer, ApplyResult(c)
        PROVE  \A r \in Run : audits[r] \subseteq audits'[r]
    BY <1>2 DEF ApplyResult, Accrue, Halt, AuditHalted, AnnounceExhausted, Warn
  <1>3. CASE ExpireOverdueRuns
    BY <1>3 DEF ExpireOverdueRuns, Sweep, SweepFails, SweepAudits
  <1>4. ASSUME NEW r \in Run,
               WindowCloses(r) \/ TaskStarts(r) \/ TaskDropped(r) \/ TaskEnds(r)
        PROVE  audits' = audits
    BY <1>4 DEF WindowCloses, TaskStarts, TaskDropped, TaskEnds
  <1>5. CASE Crash \/ UNCHANGED vars \/ \E c \in Call : CallFails(c)
    BY <1>5 DEF Crash, vars, CallFails
  <1> QED BY <1>1, <1>2, <1>3, <1>4, <1>5 DEF Next

\* Who ends a run goes on to write its end, or leaves it to the sweep.
LEMMA EndIsPending ==
  ASSUME TypeOK, [Next]_vars, NEW r \in Run,
         run[r].status \notin Ended, run'[r].status \in Ended
  PROVE  r \in swept' \/ Ending(r)'
  <1>0. Operator \subseteq Call /\ Consumer \subseteq Call
    BY DEF Call
  <1>1. ASSUME NEW c \in Operator, Activate(c) PROVE FALSE
    <2>1. CASE Insert(c)
      BY <1>1, <2>1, InsertStatus DEF Ended
    <2>2. CASE ~Insert(c)
      <3>1. run'[r].status = run[r].status
        BY <1>1, <2>2 DEF Activate, Preflight, Dispatch, DispatchEnds, RecordDispatched,
                          AuditActivated, AnnounceActivated, TypeOK, Row
      <3> QED BY <3>1
    <2> QED BY <2>1, <2>2
  <1>2. ASSUME NEW c \in Operator, Deactivate(c) PROVE Ending(r)'
    <2>1. Cancel(c)
      BY <1>2 DEF Deactivate, ReadRun, AuditCancelled, AnnounceCancelled
    <2>2. call[c].run = r
      BY <2>1 DEF Cancel, TypeOK, Row
    <2>3. call'[c].run = r /\ call'[c].pc = "auditCancelled"
      BY <1>0, <2>1, <2>2, GotoRun DEF Cancel
    <2> QED BY <1>0, <2>3 DEF Ending
  <1>3. ASSUME NEW c \in Consumer, ApplyResult(c) PROVE Ending(r)'
    <2>0. ASSUME Accrue(c) PROVE FALSE
      <3>1. run'[r].status = run[r].status
        BY <2>0 DEF Accrue, Adds, TypeOK, Row
      <3> QED BY <3>1
    <2>1. Halt(c)
      BY <1>3, <2>0 DEF ApplyResult, AuditHalted, AnnounceExhausted, Warn
    <2>2. call[c].run = r
      BY <2>1 DEF Halt, TypeOK, Row
    <2>3. call'[c].run = r /\ call'[c].pc = "auditHalted"
      BY <1>0, <2>1, <2>2, GotoRun DEF Halt
    <2> QED BY <1>0, <2>3 DEF Ending
  <1>4. CASE ExpireOverdueRuns
    <2>1. Sweep
      BY <1>4 DEF ExpireOverdueRuns, SweepFails, SweepAudits
    <2>2. r \in OverdueRuns
      BY <2>1 DEF Sweep
    <2> QED BY <2>1, <2>2 DEF Sweep
  <1>5. ASSUME NEW s \in Run,
               WindowCloses(s) \/ TaskStarts(s) \/ TaskDropped(s) \/ TaskEnds(s)
        PROVE  FALSE
    BY <1>5 DEF WindowCloses, TaskStarts, TaskDropped, TaskEnds, TypeOK, Row
  <1>6. CASE Crash \/ UNCHANGED vars \/ \E c \in Call : CallFails(c)
    BY <1>6 DEF Crash, vars, CallFails
  <1> QED BY <1>1, <1>2, <1>3, <1>4, <1>5, <1>6 DEF Next

\* A call before the entry of an end writes it, stays, or is lost by a fault.
LEMMA EndingStep ==
  ASSUME TypeOK, [Next]_vars, NEW r \in Run, Ending(r)
  PROVE  Accounted(r)'
  <1>1. PICK c \in Call : call[c].run = r /\ call[c].pc \in {"auditCancelled", "auditHalted"}
    BY DEF Ending
  <1>2. call[c] # Idle /\ call[c].pc # "idle"
    BY <1>1 DEF Idle
  <1>3. call'[c] = call[c] => Accounted(r)'
    BY <1>1 DEF Accounted, Ending
  <1>4. faults' > 0 => Accounted(r)'
    BY DEF Accounted
  <1>5. ASSUME NEW d \in Operator, Activate(d) \/ Deactivate(d) PROVE Accounted(r)'
    <2>1. CASE AuditCancelled(d) /\ d = c
      BY <1>1, <2>1 DEF AuditCancelled, Accounted, TypeOK
    <2>2. CASE AuditCancelled(d) /\ d # c
      BY <1>3, <2>2 DEF AuditCancelled, Goto, TypeOK
    <2>3. CASE ~AuditCancelled(d)
      <3>1. d # c
        BY <1>1, <1>2, <1>5, <2>3
           DEF Activate, Preflight, Insert, Dispatch, DispatchEnds, RecordDispatched,
               AuditActivated, AnnounceActivated, Deactivate, ReadRun, Cancel, AnnounceCancelled
      <3>2. call'[c] = call[c]
        BY <1>5, <3>1
           DEF Activate, Preflight, Insert, Dispatch, DispatchEnds, RecordDispatched,
               AuditActivated, AnnounceActivated, Deactivate, ReadRun, Cancel,
               AuditCancelled, AnnounceCancelled, Goto, Return, TypeOK
      <3> QED BY <1>3, <3>2
    <2> QED BY <2>1, <2>2, <2>3
  <1>6. ASSUME NEW d \in Consumer, ApplyResult(d) PROVE Accounted(r)'
    <2>1. CASE AuditHalted(d) /\ d = c
      BY <1>1, <2>1 DEF AuditHalted, Accounted, TypeOK
    <2>2. CASE AuditHalted(d) /\ d # c
      BY <1>3, <2>2 DEF AuditHalted, Goto, TypeOK
    <2>3. CASE Accrue(d)
      <3>1. d # c
        BY <1>2, <2>3 DEF Accrue
      <3> QED BY <1>3, <2>3, <3>1, AccrueRun
    <2>4. CASE Halt(d) \/ AnnounceExhausted(d) \/ Warn(d)
      <3>1. d # c
        BY <1>1, <2>4 DEF Halt, AnnounceExhausted, Warn
      <3>2. call'[c] = call[c]
        BY <2>4, <3>1 DEF Halt, AnnounceExhausted, Warn, Goto, Return, TypeOK
      <3> QED BY <1>3, <3>2
    <2> QED BY <1>6, <2>1, <2>2, <2>3, <2>4 DEF ApplyResult
  <1>7. CASE ExpireOverdueRuns
    <2>1. call' = call
      BY <1>7 DEF ExpireOverdueRuns, Sweep, SweepFails, SweepAudits
    <2> QED BY <1>3, <2>1
  <1>8. ASSUME NEW s \in Run,
               WindowCloses(s) \/ TaskStarts(s) \/ TaskDropped(s) \/ TaskEnds(s)
        PROVE  Accounted(r)'
    <2>1. call' = call
      BY <1>8 DEF WindowCloses, TaskStarts, TaskDropped, TaskEnds
    <2> QED BY <1>3, <2>1
  <1>9. CASE Crash \/ \E d \in Call : CallFails(d)
    <2>1. faults' > 0
      BY <1>9 DEF Crash, CallFails, Fault, TypeOK
    <2> QED BY <1>4, <2>1
  <1>10. CASE UNCHANGED vars
    BY <1>3, <1>10 DEF vars
  <1> QED BY <1>5, <1>6, <1>7, <1>8, <1>9, <1>10 DEF Next

\* So does the sweep.
LEMMA SweptStep ==
  ASSUME TypeOK, [Next]_vars, NEW r \in Run, r \in swept
  PROVE  Accounted(r)'
  <1>1. SUFFICES r \in swept' \/ faults' > 0 \/ "halted" \in audits'[r]
    BY DEF Accounted
  <1>2. ASSUME NEW c \in Operator, Activate(c) \/ Deactivate(c) PROVE swept' = swept
    BY <1>2 DEF Activate, Preflight, Insert, Dispatch, DispatchEnds, RecordDispatched,
                AuditActivated, AnnounceActivated, Deactivate, ReadRun, Cancel,
                AuditCancelled, AnnounceCancelled
  <1>3. ASSUME NEW c \in Consumer, ApplyResult(c) PROVE swept' = swept
    BY <1>3 DEF ApplyResult, Accrue, Halt, AuditHalted, AnnounceExhausted, Warn
  <1>4. CASE ExpireOverdueRuns
    BY <1>4 DEF ExpireOverdueRuns, Sweep, SweepFails, SweepAudits, Fault, TypeOK
  <1>5. ASSUME NEW s \in Run,
               WindowCloses(s) \/ TaskStarts(s) \/ TaskDropped(s) \/ TaskEnds(s)
        PROVE  swept' = swept
    BY <1>5 DEF WindowCloses, TaskStarts, TaskDropped, TaskEnds
  <1>6. CASE Crash
    BY <1>6 DEF Crash, Fault, TypeOK
  <1>7. CASE UNCHANGED vars \/ \E c \in Call : CallFails(c)
    BY <1>7 DEF vars, CallFails
  <1> QED BY <1>2, <1>3, <1>4, <1>5, <1>6, <1>7 DEF Next

LEMMA AccountedStep ==
  ASSUME TypeOK, [Next]_vars, NEW r \in Run, run[r].status \in Ended => Accounted(r),
         run'[r].status \in Ended
  PROVE  Accounted(r)'
  <1>1. CASE run[r].status \notin Ended
    BY <1>1, EndIsPending DEF Accounted
  <1>2. CASE run[r].status \in Ended
    <2>1. CASE audits[r] \cap {"cancelled", "halted"} # {}
      BY <2>1, AuditsGrow DEF Accounted
    <2>2. CASE faults > 0
      BY <2>2, FaultsGrow DEF Accounted
    <2> QED BY <1>2, <2>1, <2>2, EndingStep, SweptStep DEF Accounted
  <1> QED BY <1>1, <1>2

\* A call comes to an announcement from the entry before it.
LEMMA AuditedFirstStep ==
  ASSUME TypeOK, [Next]_vars, NEW c \in Call, AuditedFirst(c)
  PROVE  AuditedFirst(c)'
  <1> DEFINE Announcing == {"announceActivated", "announceCancelled", "announceExhausted"}
  <1>0. /\ Operator \subseteq Call /\ Consumer \subseteq Call
        /\ call[c].pc # "idle" => call[c].run \in Run
    BY BusyCall DEF Call
  <1>1. CASE call'[c] = call[c]
    <2>1. call[c].pc \in Announcing => audits[call[c].run] \subseteq audits'[call[c].run]
      BY <1>0, AuditsGrow
    <2> QED BY <1>1, <2>1 DEF AuditedFirst
  <1>2. CASE call'[c].pc \notin Announcing
    BY <1>2 DEF AuditedFirst
  <1>3. ASSUME NEW d \in Operator, Activate(d) \/ Deactivate(d) PROVE AuditedFirst(c)'
    <2>1. CASE d # c
      <3>1. call'[c] = call[c]
        BY <1>3, <2>1
           DEF Activate, Preflight, Insert, Dispatch, DispatchEnds, RecordDispatched,
               AuditActivated, AnnounceActivated, Deactivate, ReadRun, Cancel,
               AuditCancelled, AnnounceCancelled, Goto, Return, TypeOK
      <3> QED BY <1>1, <3>1
    <2>2. CASE d = c /\ AuditActivated(c)
      <3>1. call'[c].pc = "announceActivated" /\ call'[c].run = call[c].run /\ call[c].run \in Run
        BY <2>2, GotoRun DEF AuditActivated
      <3>2. "activated" \in audits'[call[c].run]
        BY <2>2, <3>1 DEF AuditActivated, TypeOK
      <3> QED BY <3>1, <3>2 DEF AuditedFirst
    <2>3. CASE d = c /\ AuditCancelled(c)
      <3>1. call'[c].pc = "announceCancelled" /\ call'[c].run = call[c].run /\ call[c].run \in Run
        BY <2>3, GotoRun DEF AuditCancelled
      <3>2. "cancelled" \in audits'[call[c].run]
        BY <2>3, <3>1 DEF AuditCancelled, TypeOK
      <3> QED BY <3>1, <3>2 DEF AuditedFirst
    <2>4. CASE d = c /\ ~AuditActivated(c) /\ ~AuditCancelled(c)
      <3>1. CASE Preflight(c) \/ ReadRun(c)
        BY <1>2, <3>1 DEF Preflight, ReadRun, TypeOK
      <3>2. CASE Dispatch(c)
        <4>1. call[c] \in Busy
          BY <3>2, BusyCall DEF Dispatch
        <4>2. call'[c].pc = "dispatch"
          BY <3>2, <4>1 DEF Dispatch, TypeOK, Busy
        <4> QED BY <1>2, <4>2
      <3>3. CASE ~Preflight(c) /\ ~ReadRun(c) /\ ~Dispatch(c)
        <4>1. Return(c) \/ \E pc \in CallPc \ Announcing : Goto(c, pc) /\ call[c].pc # "idle"
          BY <1>3, <2>4, <3>3
             DEF Activate, Insert, DispatchEnds, RecordDispatched, AnnounceActivated,
                 Deactivate, Cancel, AnnounceCancelled, CallPc
        <4> QED BY <1>2, <4>1, GotoRun, ReturnRun DEF Idle
      <3> QED BY <3>1, <3>2, <3>3
    <2> QED BY <2>1, <2>2, <2>3, <2>4
  <1>4. ASSUME NEW d \in Consumer, ApplyResult(d) PROVE AuditedFirst(c)'
    <2>1. CASE Accrue(d)
      <3>1. call'[c] = call[c] \/ call'[c].pc \in {"idle", "halt", "warn"}
        BY <1>0, <2>1, AccrueRun, VerdictType DEF Idle
      <3> QED BY <1>1, <1>2, <3>1
    <2>2. CASE d # c /\ ~Accrue(d)
      <3>1. call'[c] = call[c]
        BY <1>4, <2>2 DEF ApplyResult, Halt, AuditHalted, AnnounceExhausted, Warn, Goto, Return,
                          TypeOK
      <3> QED BY <1>1, <3>1
    <2>3. CASE d = c /\ AuditHalted(c)
      <3>1. call'[c].pc = "announceExhausted" /\ call'[c].run = call[c].run /\ call[c].run \in Run
        BY <2>3, GotoRun DEF AuditHalted
      <3>2. "halted" \in audits'[call[c].run]
        BY <2>3, <3>1 DEF AuditHalted, TypeOK
      <3> QED BY <3>1, <3>2 DEF AuditedFirst
    <2>4. CASE d = c /\ ~Accrue(c) /\ ~AuditHalted(c)
      <3>1. Return(c) \/ (Goto(c, "auditHalted") /\ call[c].pc # "idle")
        BY <1>4, <2>4 DEF ApplyResult, Halt, AnnounceExhausted, Warn
      <3> QED BY <1>2, <3>1, GotoRun, ReturnRun DEF Idle
    <2> QED BY <2>1, <2>2, <2>3, <2>4
  <1>5. CASE ExpireOverdueRuns
    <2>1. call' = call
      BY <1>5 DEF ExpireOverdueRuns, Sweep, SweepFails, SweepAudits
    <2> QED BY <1>1, <2>1
  <1>6. ASSUME NEW s \in Run,
               WindowCloses(s) \/ TaskStarts(s) \/ TaskDropped(s) \/ TaskEnds(s)
        PROVE  AuditedFirst(c)'
    <2>1. call' = call
      BY <1>6 DEF WindowCloses, TaskStarts, TaskDropped, TaskEnds
    <2> QED BY <1>1, <2>1
  <1>7. CASE Crash \/ \E d \in Call : CallFails(d)
    <2>1. call'[c] = call[c] \/ call'[c].pc = "idle"
      BY <1>7, ReturnRun DEF Crash, CallFails, Idle
    <2> QED BY <1>1, <1>2, <2>1
  <1>8. CASE UNCHANGED vars
    BY <1>1, <1>8 DEF vars
  <1> QED BY <1>3, <1>4, <1>5, <1>6, <1>7, <1>8 DEF Next

\* What is announced is announced by a call behind its entry.
LEMMA AnnouncedStep ==
  ASSUME TypeOK, [Next]_vars, NEW r \in Run, AnnouncedAudited(r), \A c \in Call : AuditedFirst(c)
  PROVE  AnnouncedAudited(r)'
  <1>0. audits[r] \subseteq audits'[r] /\ Operator \subseteq Call /\ Consumer \subseteq Call
    BY AuditsGrow DEF Call
  <1>1. CASE announced' = announced
    BY <1>0, <1>1 DEF AnnouncedAudited
  <1>2. ASSUME NEW c \in Operator, Activate(c) \/ Deactivate(c) PROVE AnnouncedAudited(r)'
    <2>1. CASE AnnounceActivated(c)
      BY <1>0, <2>1 DEF AnnounceActivated, AnnouncedAudited, AuditedFirst, TypeOK
    <2>2. CASE AnnounceCancelled(c)
      BY <1>0, <2>2 DEF AnnounceCancelled, AnnouncedAudited, AuditedFirst, TypeOK
    <2>3. CASE ~AnnounceActivated(c) /\ ~AnnounceCancelled(c)
      BY <1>1, <1>2, <2>3
         DEF Activate, Preflight, Insert, Dispatch, DispatchEnds, RecordDispatched,
             AuditActivated, Deactivate, ReadRun, Cancel, AuditCancelled
    <2> QED BY <2>1, <2>2, <2>3
  <1>3. ASSUME NEW c \in Consumer, ApplyResult(c) PROVE AnnouncedAudited(r)'
    <2>1. CASE AnnounceExhausted(c)
      BY <1>0, <2>1 DEF AnnounceExhausted, AnnouncedAudited, AuditedFirst, TypeOK
    <2>2. CASE ~AnnounceExhausted(c)
      BY <1>1, <1>3, <2>2 DEF ApplyResult, Accrue, Halt, AuditHalted, Warn
    <2> QED BY <2>1, <2>2
  <1>4. CASE ExpireOverdueRuns
    BY <1>1, <1>4 DEF ExpireOverdueRuns, Sweep, SweepFails, SweepAudits
  <1>5. ASSUME NEW s \in Run,
               WindowCloses(s) \/ TaskStarts(s) \/ TaskDropped(s) \/ TaskEnds(s)
        PROVE  announced' = announced
    BY <1>5 DEF WindowCloses, TaskStarts, TaskDropped, TaskEnds
  <1>6. CASE Crash \/ UNCHANGED vars \/ \E c \in Call : CallFails(c)
    BY <1>1, <1>6 DEF Crash, vars, CallFails
  <1> QED BY <1>1, <1>2, <1>3, <1>4, <1>5, <1>6 DEF Next

\* The end of every run is in the ledger, or still on its way unless a call was lost, and
\* nothing is announced that the ledger lacks.
THEOREM EndsAreAudited == Spec => []EndedRunsAudited
  <1>1. Init => AuditInv
    BY DEF Init, AuditInv, AnnouncedAudited, AuditedFirst, Ended, Idle
  <1>2. TypeOK /\ AuditInv /\ [Next]_vars => AuditInv'
    <2> SUFFICES ASSUME TypeOK, AuditInv, [Next]_vars PROVE AuditInv'
      OBVIOUS
    <2>1. ASSUME NEW r \in Run, run'[r].status \in Ended PROVE Accounted(r)'
      BY <2>1, AccountedStep DEF AuditInv
    <2>2. ASSUME NEW r \in Run PROVE AnnouncedAudited(r)'
      BY AnnouncedStep DEF AuditInv
    <2>3. ASSUME NEW c \in Call PROVE AuditedFirst(c)'
      BY AuditedFirstStep DEF AuditInv
    <2> QED BY <2>1, <2>2, <2>3 DEF AuditInv
  <1>3. AuditInv => EndedRunsAudited
    BY DEF AuditInv, EndedRunsAudited, Accounted, Ending, AnnouncedAudited
  <1> QED BY <1>1, <1>2, <1>3, TypeCorrect, PTL DEF Spec
=============================================================================
