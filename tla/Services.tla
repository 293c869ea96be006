------------------------------- MODULE Services ------------------------------
(***************************************************************************)
(* Components that share no state with one another, for any values of      *)
(* their constants: a behaviour is one of `part`, and all others stand     *)
(* still.  The validation of workflows is extended, the others are         *)
(* instances with variables of their own.  Collectors and Warden come in   *)
(* several settings, which share their variables.                          *)
(***************************************************************************)
EXTENDS WorkflowGraph, FiniteSets

CONSTANT MaxFaults

VARIABLE part

----------------------------------------------------------------------------
(* The collecting agents *)

VARIABLES cObserved, cFlagged, cAnomalies, cMemory, cSamples, cDue, cWork, cPolls, cFaults
CONSTANTS Source, Content, NoContent, Feed, Bucket, CollectTask,
          Collecting,   \* the settings; of each the agent, the payloads of its tasks, the bound
          AgentOf, PayloadOf, PollsOf
cVars == <<cObserved, cFlagged, cAnomalies, cMemory, cSamples, cDue, cWork, cPolls, cFaults>>
Collect(p) == INSTANCE Collectors WITH
  Owner <- [s \in Source |-> AgentOf[p]], Task <- CollectTask, Payload <- PayloadOf[p],
  MaxPolls <- PollsOf[p],
  observed <- cObserved, flagged <- cFlagged, anomalies <- cAnomalies, memory <- cMemory,
  samples <- cSamples, due <- cDue, work <- cWork, polls <- cPolls, faults <- cFaults

----------------------------------------------------------------------------
(* Warden *)

VARIABLES pPosted, pLive, pComments, pCursor, pGrant, pRejected, pLastError, pWork,
          pBroadcasts, pFaults
CONSTANTS Staff, PageSize, MaxBroadcasts, MaxMessages,
          Polling,   \* the settings; of each the processes, the sources and the grants
          WardensOf, KindsOf, GrantsOf
pVars == <<pPosted, pLive, pComments, pCursor, pGrant, pRejected, pLastError, pWork,
           pBroadcasts, pFaults>>
Poll(p) == INSTANCE WardenPolling WITH
  Worker <- WardensOf[p], Kinds <- KindsOf[p], MaxGrants <- GrantsOf[p],
  posted <- pPosted, live <- pLive, comments <- pComments, cursor <- pCursor,
  grant <- pGrant, rejected <- pRejected, lastError <- pLastError, work <- pWork,
  broadcasts <- pBroadcasts, faults <- pFaults

----------------------------------------------------------------------------
(* Watches on demand, deploys, requests and scores *)

VARIABLES lStarted, lRunning, lRequest, lAudited, lMisnamed, lFaults
CONSTANTS Request, MaxExecutions
lVars == <<lStarted, lRunning, lRequest, lAudited, lMisnamed, lFaults>>
Launcher == INSTANCE SentinelLauncher WITH
  started <- lStarted, running <- lRunning, request <- lRequest, audited <- lAudited,
  misnamed <- lMisnamed, faults <- lFaults

VARIABLES mRecorded, mSchema, mLock, mRun, mRuns
CONSTANTS Runner, NoRunner, Files, MaxRuns
mVars == <<mRecorded, mSchema, mLock, mRun, mRuns>>
Deploys == INSTANCE Migrations WITH
  recorded <- mRecorded, schema <- mSchema, lock <- mLock, run <- mRun, runs <- mRuns

VARIABLES dClaims, dToken, dRequest, dActs, dEntries, dRefusals, dRequests, dFaults
CONSTANTS Operator, Claims, Served, MaxRequests
dVars == <<dClaims, dToken, dRequest, dActs, dEntries, dRefusals, dRequests, dFaults>>
Requests == INSTANCE AccessControl WITH
  claims <- dClaims, token <- dToken, request <- dRequest, acts <- dActs,
  entries <- dEntries, refusals <- dRefusals, requests <- dRequests, faults <- dFaults

VARIABLES gObservations, gContribution, gScore, gBand
CONSTANTS Measured, Normalized
gVars == <<gObservations, gContribution, gScore, gBand>>
Scores == INSTANCE Scoring WITH
  observations <- gObservations, contribution <- gContribution, score <- gScore, band <- gBand

\* A setting is of one component; requests, operators and tasks are finitely many, and an
\* operator is provisioned with a claim; the slots of a fan-out are numbered; a runner is not
\* NoRunner, and a directory has no two files of one name.
ASSUME ServicesAssumption ==
  /\ Collecting \cap Polling = {}
  /\ IsFiniteSet(CollectTask) /\ IsFiniteSet(Request) /\ IsFiniteSet(Operator)
  /\ Claims # {}
  /\ MaxFaults \in Nat /\ PageSize \in Nat /\ MaxBroadcasts \in Nat
  /\ NoContent \notin Content /\ Feed \subseteq Seq(Content)
  /\ \A p \in Collecting : Collect(p)!SlotsNumbered
  /\ Deploys!FilesNumbered /\ NoRunner \notin Runner

\* A normalizer clamps what it yields.
ASSUME NormalizedAssumption == Normalized \subseteq 0 .. 10000

----------------------------------------------------------------------------
(* One of them *)

Parts == Collecting \cup Polling \cup {"graph", "launcher", "deploys", "requests", "scores"}

\* The setting of a component: what a part that is another component leaves it in is any.
In(settings, p) == p = IF part \in settings THEN part ELSE CHOOSE q \in settings : TRUE

\* Every graph, or none.
OneInit ==
  /\ part \in Parts
  /\ Init /\ (part # "graph" => adjacency = [n \in Node |-> <<>>])
  /\ \E p \in Collecting : In(Collecting, p) /\ Collect(p)!Init
  /\ \E p \in Polling : In(Polling, p) /\ Poll(p)!Init
  /\ Launcher!Init /\ Deploys!Init /\ Requests!Init /\ Scores!Init

OneNext ==
  /\ UNCHANGED part
  /\ IF part = "graph" THEN Next ELSE UNCHANGED vars
  /\ IF part \in Collecting
     THEN \E p \in Collecting : part = p /\ Collect(p)!Next ELSE UNCHANGED cVars
  /\ IF part \in Polling THEN \E p \in Polling : part = p /\ Poll(p)!Next ELSE UNCHANGED pVars
  /\ IF part = "launcher" THEN Launcher!Next ELSE UNCHANGED lVars
  /\ IF part = "deploys" THEN Deploys!Next ELSE UNCHANGED mVars
  /\ IF part = "requests" THEN Requests!Next ELSE UNCHANGED dVars
  /\ IF part = "scores" THEN Scores!Next ELSE UNCHANGED gVars

oneVars == <<part, vars, cVars, pVars, lVars, mVars, dVars, gVars>>

OneSpec == OneInit /\ [][OneNext]_oneVars

----------------------------------------------------------------------------
(* What each of them promises: see the modules *)

\* What was flagged is reported once, or lost to a failure (Collectors).
FlaggedIsReported == \A p \in Collecting : part = p => Collect(p)!FlaggedIsReported

\* Tasks of one fan-out lose no update of a baseline (Collectors).
SamplesCounted == \A p \in Collecting : part = p => Collect(p)!SamplesCounted

\* No message before the cursor was skipped (WardenPolling).
NoCommentSkipped == \A p \in Polling : part = p => Poll(p)!NoCommentSkipped

\* The ceiling on executions, and their entries (SentinelLauncher).
CeilingHeld == Launcher!CeilingHeld

\* The schema is what the files say, in their order, once (Migrations).
SchemaInOrder == Deploys!SchemaInOrder

\* Requests act within their roles, and are on record (AccessControl).
AccessAccounted == Requests!AccessAccounted

\* The score is the mean of what was measured, and its counterfactuals agree (Scoring).
ScoreExplained == Scores!ScoreExplained
=============================================================================
