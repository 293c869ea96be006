---------------------------- MODULE ServicesProofs ----------------------------
(***************************************************************************)
(* The services, for any values of their constants.  A behaviour of        *)
(* Services is one component that runs and others that stand still, so     *)
(* what is proved of OneSpec is proved of each component by itself: a      *)
(* section for each has its inductive invariant, its steps and its         *)
(* theorem.                                                                *)
(***************************************************************************)
EXTENDS Services, FiniteSetTheorems, WellFoundedInduction, TLAPS

----------------------------------------------------------------------------
(* Deploys.  The advisory lock is what the proof rests on: while a runner  *)
(* reads, compares and applies, schema_migrations is what it has read and  *)
(* what it has added itself.                                               *)

\* What is known of a runner, here and below written out.
RunOf == [pc : Deploys!Pc, applied : SUBSET Deploys!File, i : Nat \ {0}]
USE DEF RunOf

RunShapes ==
  /\ mSchema \in Seq(Deploys!File)
  /\ mRun \in [Runner -> RunOf]

\* Who reads, compares or applies holds the lock.
LockIsHeld == \A r \in Runner : mRun[r].pc \in {"read", "next", "apply"} => mLock = r

\* Until it has read, a runner is at its first file.
AtFirstFile == \A r \in Runner : mRun[r].pc \in {"idle", "lock", "read"} => mRun[r].i = 1

\* The files a runner has come past.
Past(r) == {Files[r][k] : k \in 1 .. (mRun[r].i - 1)}

\* schema_migrations is what the runner read of it and what it came past.
KnowsRecord ==
  \A r \in Runner : mRun[r].pc \in {"next", "apply"} =>
    /\ mRecorded = mRun[r].applied \cup Past(r)
    /\ mRun[r].i - 1 <= Len(Files[r])

\* The file to apply was not in what the runner read.
NewFile ==
  \A r \in Runner : mRun[r].pc = "apply" =>
    /\ mRun[r].i \in DOMAIN Files[r]
    /\ \A f \in mRun[r].applied : f.file # Deploys!Current(r).file

DeployInv ==
  /\ RunShapes /\ LockIsHeld /\ AtFirstFile /\ KnowsRecord /\ NewFile
  /\ Deploys!CommittedOnce

----------------------------------------------------------------------------
LEMMA DeploysInitially == Deploys!Init => DeployInv
BY DEF Deploys!Init, DeployInv, RunShapes, LockIsHeld, AtFirstFile, KnowsRecord, NewFile,
       Deploys!CommittedOnce, Deploys!Idle, Deploys!Pc

\* The invariant has what is promised of a runner that applies a file.
LEMMA DeploysOrdered == ASSUME Deploys!FilesNumbered, DeployInv PROVE Deploys!AppliedInOrder
<1> SUFFICES ASSUME NEW r \in Runner, Deploys!At(r, "apply")
             PROVE  /\ \A f \in mRecorded : f.file # Deploys!Current(r).file
                    /\ \A k \in 1 .. (mRun[r].i - 1) : Files[r][k] \in mRecorded
  BY DEF Deploys!AppliedInOrder
<1>1. /\ mRecorded = mRun[r].applied \cup Past(r)
      /\ mRun[r].i \in DOMAIN Files[r]
      /\ \A f \in mRun[r].applied : f.file # Deploys!Current(r).file
  BY DEF DeployInv, KnowsRecord, NewFile, Deploys!At
<1>2. /\ Files[r] \in Seq(Deploys!File)
      /\ \A j, k \in DOMAIN Files[r] : Files[r][j].file = Files[r][k].file => j = k
  BY DEF Deploys!FilesNumbered
<1>3. ASSUME NEW k \in 1 .. (mRun[r].i - 1)
      PROVE  Files[r][k] \in mRecorded /\ Files[r][k].file # Deploys!Current(r).file
  <2>1. k \in DOMAIN Files[r] /\ k # mRun[r].i
    BY <1>1, <1>2
  <2> QED BY <1>1, <1>2, <2>1 DEF Past, Deploys!Current
<1> QED BY <1>1, <1>3 DEF Past

----------------------------------------------------------------------------
(* Steps *)

\* A step of a runner that writes nothing: the schema stays what it is.
LEMMA NothingCommitted ==
  ASSUME Deploys!CommittedOnce, UNCHANGED <<mRecorded, mSchema>>
  PROVE  Deploys!CommittedOnce'
BY DEF Deploys!CommittedOnce

\* Others keep what they know while nobody writes.
LEMMA DeployQuietStep ==
  ASSUME DeployInv, NEW r \in Runner, UNCHANGED <<mRecorded, mSchema>>,
         NEW s \in RunOf, Deploys!Becomes(r, s),
         s.pc \in {"read", "next", "apply"} => mLock' = r,
         \A q \in Runner \ {r} : mLock = q => mLock' = q,
         s.pc \in {"idle", "lock", "read"} => s.i = 1,
         s.pc \in {"next", "apply"} =>
           /\ mRecorded = s.applied \cup {Files[r][k] : k \in 1 .. (s.i - 1)}
           /\ s.i - 1 <= Len(Files[r]),
         s.pc = "apply" =>
           /\ s.i \in DOMAIN Files[r]
           /\ \A f \in s.applied : f.file # Files[r][s.i].file
  PROVE  DeployInv'
<1>1. /\ mRun' \in [Runner -> RunOf]
      /\ mRun'[r] = s
      /\ \A q \in Runner \ {r} : mRun'[q] = mRun[q]
  BY DEF Deploys!Becomes, DeployInv, RunShapes
<1>2. RunShapes'
  BY <1>1 DEF DeployInv, RunShapes
<1>3. LockIsHeld'
  BY <1>1 DEF DeployInv, LockIsHeld
<1>4. AtFirstFile'
  BY <1>1 DEF DeployInv, AtFirstFile
<1>5. KnowsRecord'
  <2> SUFFICES ASSUME NEW q \in Runner, mRun'[q].pc \in {"next", "apply"}
               PROVE  /\ mRecorded' = mRun'[q].applied \cup Past(q)'
                      /\ mRun'[q].i - 1 <= Len(Files[q])
    BY DEF KnowsRecord
  <2>1. CASE q = r BY <1>1, <2>1 DEF Past
  <2>2. CASE q # r BY <1>1, <2>2 DEF Past, DeployInv, KnowsRecord
  <2> QED BY <2>1, <2>2
<1>6. NewFile'
  <2> SUFFICES ASSUME NEW q \in Runner, mRun'[q].pc = "apply"
               PROVE  /\ mRun'[q].i \in DOMAIN Files[q]
                      /\ \A f \in mRun'[q].applied : f.file # Deploys!Current(q)'.file
    BY DEF NewFile
  <2>1. CASE q = r BY <1>1, <2>1 DEF Deploys!Current
  <2>2. CASE q # r BY <1>1, <2>2 DEF Deploys!Current, DeployInv, NewFile
  <2> QED BY <2>1, <2>2
<1>7. Deploys!CommittedOnce'
  BY NothingCommitted DEF DeployInv
<1> QED BY <1>2, <1>3, <1>4, <1>5, <1>6, <1>7 DEF DeployInv

\* The transaction of a file: nobody else is past its lock, and what is appended is new.
LEMMA ApplyStep ==
  ASSUME Deploys!FilesNumbered, DeployInv, NEW r \in Runner, Deploys!Apply(r) PROVE DeployInv'
<1>1. Deploys!At(r, "apply") /\ mRun[r] \in RunOf
  BY DEF Deploys!Apply, DeployInv, RunShapes
<1>2. \A f \in mRecorded : f.file # Deploys!Current(r).file
  BY <1>1, DeploysOrdered DEF Deploys!AppliedInOrder
<1>3. /\ mRecorded = mRun[r].applied \cup Past(r)
      /\ mRun[r].i \in DOMAIN Files[r]
      /\ mLock = r
  BY <1>1 DEF Deploys!At, DeployInv, KnowsRecord, NewFile, LockIsHeld
<1>4. Files[r] \in Seq(Deploys!File) /\ Deploys!Current(r) \in Deploys!File
  BY <1>3 DEF Deploys!FilesNumbered, Deploys!Current
<1>5. /\ mSchema' = Append(mSchema, Deploys!Current(r))
      /\ mRecorded' = mRecorded \cup {Deploys!Current(r)}
      /\ UNCHANGED mLock
      /\ \/ Deploys!Becomes(r, [mRun[r] EXCEPT !.pc = "next", !.i = @ + 1])
         \/ Deploys!Becomes(r, [mRun[r] EXCEPT !.pc = "unlock"])
  <2>1. ~ \E f \in mRecorded : f.file = Deploys!Current(r).file
    BY <1>2
  <2> QED BY <2>1 DEF Deploys!Apply, Deploys!GoTo
<1>6. PICK s : /\ mRun' = [mRun EXCEPT ![r] = s]
               /\ \/ s = [mRun[r] EXCEPT !.pc = "next", !.i = @ + 1]
                  \/ s = [mRun[r] EXCEPT !.pc = "unlock"]
  BY <1>5, Zenon DEF Deploys!Becomes
<1>7. /\ s \in RunOf
      /\ s.pc \in {"next", "unlock"}
      /\ s.pc = "next" => s.i = mRun[r].i + 1 /\ s.applied = mRun[r].applied
  <2>1. CASE s = [mRun[r] EXCEPT !.pc = "next", !.i = @ + 1]
    <3> DEFINE e == mRun[r]
               n == e.i + 1
    <3>1. /\ e \in RunOf
          /\ n \in Nat \ {0}
          /\ s = [e EXCEPT !.pc = "next", !.i = n]
          /\ "next" \in Deploys!Pc
      BY <1>1, <2>1 DEF Deploys!Pc
    <3> HIDE DEF e, n
    <3>2. /\ s \in RunOf
          /\ s.pc = "next" /\ s.i = n /\ s.applied = e.applied
      BY <3>1
    <3> QED BY <3>2 DEF e, n
  <2>2. CASE s = [mRun[r] EXCEPT !.pc = "unlock"]
    BY <1>1, <2>2 DEF Deploys!Pc
  <2> QED BY <1>6, <2>1, <2>2
<1>8. /\ mRun' \in [Runner -> RunOf]
      /\ mRun'[r] = s
      /\ \A q \in Runner \ {r} : mRun'[q] = mRun[q]
  BY <1>6, <1>7 DEF DeployInv, RunShapes
<1>9. \A q \in Runner \ {r} : mRun'[q].pc \notin {"read", "next", "apply"}
  BY <1>3, <1>8 DEF DeployInv, LockIsHeld
<1>10. RunShapes'
  BY <1>4, <1>5, <1>8 DEF DeployInv, RunShapes
<1>11. LockIsHeld' /\ NewFile' /\ AtFirstFile'
  BY <1>3, <1>5, <1>7, <1>8, <1>9 DEF LockIsHeld, NewFile, AtFirstFile, DeployInv
<1>12. KnowsRecord'
  <2> SUFFICES ASSUME s.pc = "next"
               PROVE  /\ mRecorded' = s.applied \cup Past(r)'
                      /\ s.i - 1 <= Len(Files[r])
    BY <1>7, <1>8, <1>9 DEF KnowsRecord
  <2>1. Past(r)' = Past(r) \cup {Deploys!Current(r)}
    <3>1. 1 .. (mRun'[r].i - 1) = 1 .. (mRun[r].i - 1) \cup {mRun[r].i}
      BY <1>1, <1>7, <1>8
    <3> QED BY <3>1 DEF Past, Deploys!Current
  <2> QED BY <1>3, <1>4, <1>5, <1>7, <2>1
<1>13. Deploys!CommittedOnce'
  <2>1. mSchema \in Seq(Deploys!File) /\ Deploys!CommittedOnce
    BY DEF DeployInv, RunShapes
  <2>2. /\ DOMAIN mSchema' = DOMAIN mSchema \cup {Len(mSchema) + 1}
        /\ Len(mSchema) + 1 \notin DOMAIN mSchema
        /\ \A k \in DOMAIN mSchema : mSchema'[k] = mSchema[k]
        /\ mSchema'[Len(mSchema) + 1] = Deploys!Current(r)
    BY <1>4, <1>5, <2>1
  <2>3. \A k \in DOMAIN mSchema : mSchema[k].file # Deploys!Current(r).file
    BY <1>2, <2>1 DEF Deploys!CommittedOnce
  <2>4. \A j, k \in DOMAIN mSchema' : mSchema'[j].file = mSchema'[k].file => j = k
    BY <2>1, <2>2, <2>3 DEF Deploys!CommittedOnce
  <2>5. mRecorded' = {mSchema'[k] : k \in DOMAIN mSchema'}
    BY <1>5, <2>1, <2>2 DEF Deploys!CommittedOnce
  <2> QED BY <2>4, <2>5 DEF Deploys!CommittedOnce
<1> QED BY <1>10, <1>11, <1>12, <1>13 DEF DeployInv

----------------------------------------------------------------------------

LEMMA DeployInductive ==
  ASSUME Deploys!FilesNumbered, NoRunner \notin Runner, DeployInv, [Deploys!Next]_mVars
  PROVE  DeployInv'
<1>1. CASE UNCHANGED mVars
  BY <1>1 DEF mVars, DeployInv, RunShapes, LockIsHeld, AtFirstFile, KnowsRecord, NewFile,
              Deploys!CommittedOnce, Past, Deploys!Current
<1>2. ASSUME NEW r \in Runner, Deploys!Migrate(r) PROVE DeployInv'
  <2> DEFINE e == mRun[r]
  <2>1. /\ e \in RunOf
        /\ Files[r] \in Seq(Deploys!File)
    BY DEF DeployInv, RunShapes, Deploys!FilesNumbered
  <2>2. CASE Deploys!Start(r)
    <3>1. e.i = 1 BY <2>2 DEF Deploys!Start, Deploys!At, DeployInv, AtFirstFile
    <3> DEFINE s == [e EXCEPT !.pc = "lock"]
    <3>2. s \in RunOf /\ s.pc = "lock" /\ s.i = 1
      BY <2>1, <3>1 DEF Deploys!Pc
    <3>3. Deploys!Becomes(r, s) /\ UNCHANGED <<mRecorded, mSchema, mLock>>
      BY <2>2 DEF Deploys!Start, Deploys!GoTo
    <3> HIDE DEF s
    <3> QED BY <3>2, <3>3, DeployQuietStep
  <2>3. CASE Deploys!Lock(r)
    <3>1. e.i = 1 BY <2>3 DEF Deploys!Lock, Deploys!At, DeployInv, AtFirstFile
    <3> DEFINE s == [e EXCEPT !.pc = "read"]
    <3>2. s \in RunOf /\ s.pc = "read" /\ s.i = 1
      BY <2>1, <3>1 DEF Deploys!Pc
    <3>3. /\ Deploys!Becomes(r, s) /\ UNCHANGED <<mRecorded, mSchema>>
          /\ mLock = NoRunner /\ mLock' = r
      BY <2>3 DEF Deploys!Lock, Deploys!GoTo
    <3> HIDE DEF s
    <3> QED BY <3>2, <3>3, DeployQuietStep
  <2>4. CASE Deploys!Read(r)
    <3>1. e.i = 1 /\ mLock = r
      BY <2>4 DEF Deploys!Read, Deploys!At, DeployInv, AtFirstFile, LockIsHeld
    <3> DEFINE s == [e EXCEPT !.applied = mRecorded, !.pc = "next"]
    <3>2. mRecorded \subseteq Deploys!File
      BY DEF DeployInv, Deploys!CommittedOnce, RunShapes
    <3>3. /\ s \in RunOf
          /\ s.pc = "next" /\ s.i = 1 /\ s.applied = mRecorded
      BY <2>1, <3>1, <3>2 DEF Deploys!Pc
    <3>4. Deploys!Becomes(r, s) /\ UNCHANGED <<mRecorded, mSchema, mLock>>
      BY <2>4 DEF Deploys!Read
    <3> HIDE DEF s
    <3>5. /\ mRecorded = s.applied \cup {Files[r][k] : k \in 1 .. (s.i - 1)}
          /\ s.i - 1 <= Len(Files[r])
      BY <2>1, <3>3
    <3> QED BY <3>1, <3>3, <3>4, <3>5, DeployQuietStep
  <2>5. CASE Deploys!Compare(r)
    <3>1. /\ e.pc = "next" /\ mLock = r
          /\ mRecorded = e.applied \cup {Files[r][k] : k \in 1 .. (e.i - 1)}
          /\ e.i - 1 <= Len(Files[r]) /\ e.i \in DOMAIN Files[r]
      BY <2>1, <2>5 DEF Deploys!Compare, Deploys!At, DeployInv, LockIsHeld, KnowsRecord, Past
    <3>2. UNCHANGED <<mRecorded, mSchema, mLock>> BY <2>5 DEF Deploys!Compare
    <3>3. CASE Deploys!Applied(r, Deploys!Current(r).file) = {}
      <4> DEFINE s == [e EXCEPT !.pc = "apply"]
      <4>1. /\ s \in RunOf
            /\ s.pc = "apply" /\ s.i = e.i /\ s.applied = e.applied
        BY <2>1 DEF Deploys!Pc
      <4>2. Deploys!Becomes(r, s) BY <2>5, <3>3 DEF Deploys!Compare, Deploys!GoTo
      <4>3. \A f \in e.applied : f.file # Files[r][e.i].file
        BY <3>3 DEF Deploys!Applied, Deploys!Current
      <4> HIDE DEF s
      <4> QED BY <3>1, <3>2, <4>1, <4>2, <4>3, DeployQuietStep
    <3>4. CASE Deploys!Applied(r, Deploys!Current(r).file) = {Deploys!Current(r)}
      <4> DEFINE s == [e EXCEPT !.i = @ + 1]
      <4>1. /\ s \in RunOf
            /\ s.pc = "next" /\ s.i = e.i + 1 /\ s.applied = e.applied
        BY <2>1, <3>1
      <4>2. Deploys!Becomes(r, s) BY <2>5, <3>4 DEF Deploys!Compare
      <4>3. Files[r][e.i] \in e.applied
        BY <3>4 DEF Deploys!Applied, Deploys!Current
      <4>4. 1 .. e.i = 1 .. (e.i - 1) \cup {e.i} /\ s.i - 1 = e.i
        BY <2>1, <4>1
      <4> HIDE DEF s
      <4>5. mRecorded = s.applied \cup {Files[r][k] : k \in 1 .. (s.i - 1)}
        BY <3>1, <4>1, <4>3, <4>4
      <4>6. s.i - 1 <= Len(Files[r])
        BY <2>1, <3>1, <4>4
      <4> QED BY <3>1, <3>2, <4>1, <4>2, <4>5, <4>6, DeployQuietStep
    <3>5. CASE Deploys!Applied(r, Deploys!Current(r).file) \notin {{}, {Deploys!Current(r)}}
      <4> DEFINE s == [e EXCEPT !.pc = "unlock"]
      <4>1. s \in RunOf /\ s.pc = "unlock"
        BY <2>1 DEF Deploys!Pc
      <4>2. Deploys!Becomes(r, s) BY <2>5, <3>5 DEF Deploys!Compare, Deploys!GoTo
      <4> HIDE DEF s
      <4> QED BY <3>2, <4>1, <4>2, DeployQuietStep
    <3> QED BY <3>3, <3>4, <3>5
  <2>6. CASE Deploys!Apply(r)
    BY <2>6, ApplyStep
  <2>7. CASE Deploys!Complete(r) \/ Deploys!Fail(r)
    <3> DEFINE s == [e EXCEPT !.pc = "unlock"]
    <3>1. s \in RunOf /\ s.pc = "unlock"
      BY <2>1 DEF Deploys!Pc
    <3>2. Deploys!Becomes(r, s) /\ UNCHANGED <<mRecorded, mSchema, mLock>>
      BY <2>7 DEF Deploys!Complete, Deploys!Fail, Deploys!GoTo
    <3> HIDE DEF s
    <3> QED BY <3>1, <3>2, DeployQuietStep
  <2>8. CASE Deploys!Unlock(r) \/ Deploys!Crash(r)
    <3>1. Deploys!Idle \in RunOf /\ Deploys!Idle.pc = "idle" /\ Deploys!Idle.i = 1
      BY DEF Deploys!Idle, Deploys!Pc
    <3>2. /\ Deploys!Becomes(r, Deploys!Idle) /\ UNCHANGED <<mRecorded, mSchema>>
          /\ \A q \in Runner \ {r} : mLock = q => mLock' = q
      BY <2>8 DEF Deploys!Unlock, Deploys!Crash, Deploys!Release
    <3> QED BY <3>1, <3>2, DeployQuietStep
  <2> QED BY <1>2, <2>2, <2>3, <2>4, <2>5, <2>6, <2>7, <2>8 DEF Deploys!Migrate
<1> QED BY <1>1, <1>2 DEF Deploys!Next

\* Whatever deploys overlap, wait, fail or die, with whatever versions of the files: what is
\* committed is what is recorded, once, and a runner applies a file to the schema it was
\* written for (migrate.ts: the advisory lock, and one transaction per file).
THEOREM SchemaKept == OneSpec => []SchemaInOrder
<1>1. OneInit => DeployInv
  BY DeploysInitially DEF OneInit
<1>2. DeployInv /\ [OneNext]_oneVars => DeployInv'
  <2>1. [OneNext]_oneVars => [Deploys!Next]_mVars
    BY DEF OneNext, oneVars
  <2> QED BY <2>1, DeployInductive, ServicesAssumption
<1>3. DeployInv => SchemaInOrder
  BY DeploysOrdered, ServicesAssumption DEF DeployInv, SchemaInOrder, Deploys!SchemaInOrder
<1> QED BY <1>1, <1>2, <1>3, PTL DEF OneSpec

----------------------------------------------------------------------------
(* Watches on demand.  A request that was let through counts before its    *)
(* execution runs, and an execution that nobody names cost a failure.      *)

\* An instance has a copy of the module FiniteSets, which counts alike.
LEMMA LauncherCounts == ASSUME NEW S PROVE Launcher!Cardinality(S) = Cardinality(S)
BY DEF Cardinality, Launcher!Cardinality

LaunchShapes ==
  /\ lStarted \in Nat
  /\ lRunning \subseteq 1 .. lStarted
  /\ lRequest \in [Request -> [pc : Launcher!Pc, execution : Nat]]
  /\ lFaults \in Nat

\* A request has no execution until it ran its job.
NotRunYet == \A q \in Request : lRequest[q].pc \in {"idle", "run"} => lRequest[q].execution = 0

Launching == {q \in Request : lRequest[q].pc = "run"}
Admitted == Cardinality(lRunning) + Cardinality(Launching) <= 1 + Cardinality(Request)

InService == {lRequest[q].execution : q \in {r \in Request : ~Launcher!At(r, "idle")}}
Unnamed == (1 .. lStarted) \ (lAudited \cup InService \cup lMisnamed)
LostToFaults == Cardinality(Unnamed) <= lFaults

LaunchInv == LaunchShapes /\ NotRunYet /\ Admitted /\ LostToFaults

\* The sets that are counted can be.
LEMMA ExecutionsFinite ==
  ASSUME NEW n \in Nat, NEW A \in SUBSET (1 .. n)
  PROVE  IsFiniteSet(A) /\ Cardinality(A) \in Nat
<1>1. IsFiniteSet(1 .. n)
  BY FS_Interval
<1>2. IsFiniteSet(A)
  BY <1>1, FS_Subset
<1> QED BY <1>2, FS_CardinalityType

LEMMA RequestsFinite ==
  ASSUME NEW A \in SUBSET Request
  PROVE  /\ IsFiniteSet(A) /\ Cardinality(A) \in Nat
         /\ Cardinality(Request) \in Nat /\ Cardinality(A) <= Cardinality(Request)
BY FS_Subset, FS_CardinalityType, ServicesAssumption

Counted ==
  /\ IsFiniteSet(lRunning) /\ Cardinality(lRunning) \in Nat
  /\ IsFiniteSet(Unnamed) /\ Cardinality(Unnamed) \in Nat
  /\ IsFiniteSet(Launching) /\ Cardinality(Launching) \in Nat
  /\ Cardinality(Request) \in Nat /\ Cardinality(Launching) <= Cardinality(Request)

LEMMA LaunchFinite == LaunchShapes => Counted
<1> SUFFICES ASSUME LaunchShapes PROVE Counted
  OBVIOUS
<1>1. lRunning \in SUBSET (1 .. lStarted) /\ Unnamed \in SUBSET (1 .. lStarted)
  BY DEF LaunchShapes, Unnamed
<1>2. Launching \in SUBSET Request
  BY DEF Launching
<1> QED BY <1>1, <1>2, ExecutionsFinite, RequestsFinite DEF LaunchShapes, Counted

LEMMA LaunchFiniteNext == LaunchShapes' => Counted'
<1> SUFFICES ASSUME LaunchShapes' PROVE Counted'
  OBVIOUS
<1>1. lRunning' \in SUBSET (1 .. lStarted') /\ Unnamed' \in SUBSET (1 .. lStarted')
  BY DEF LaunchShapes, Unnamed
<1>2. Launching' \in SUBSET Request
  BY DEF Launching
<1> QED BY <1>1, <1>2, ExecutionsFinite, RequestsFinite DEF LaunchShapes, Counted

LEMMA LaunchInitially == Launcher!Init => LaunchInv
<1> SUFFICES ASSUME Launcher!Init PROVE LaunchInv
  OBVIOUS
<1>1. LaunchShapes /\ NotRunYet
  BY DEF Launcher!Init, LaunchShapes, NotRunYet, Launcher!Idle, Launcher!Pc
<1>2. lRunning = {} /\ Launching = {} /\ Unnamed = {}
  BY DEF Launcher!Init, Launching, Unnamed, Launcher!Idle
<1>3. Admitted
  BY <1>1, <1>2, FS_EmptySet, LaunchFinite DEF Counted, Admitted
<1>4. LostToFaults
  BY <1>2, FS_EmptySet DEF LostToFaults, Launcher!Init
<1> QED BY <1>1, <1>3, <1>4 DEF LaunchInv

\* The request of a step becomes r, and all others stay what they are.
LEMMA RequestBecomes ==
  ASSUME LaunchInv, NEW q \in Request, NEW r \in [pc : Launcher!Pc, execution : Nat],
         Launcher!Becomes(q, r), r.pc \in {"idle", "run"} => r.execution = 0
  PROVE  /\ lRequest' \in [Request -> [pc : Launcher!Pc, execution : Nat]]
         /\ lRequest'[q] = r
         /\ \A p \in Request \ {q} : lRequest'[p] = lRequest[p]
         /\ NotRunYet'
         /\ r.pc # "run" => Launching' = Launching \ {q}
         /\ r.pc = "run" => Launching' = Launching \cup {q}
<1>1. /\ lRequest' \in [Request -> [pc : Launcher!Pc, execution : Nat]]
      /\ lRequest'[q] = r
      /\ \A p \in Request \ {q} : lRequest'[p] = lRequest[p]
  BY DEF LaunchInv, LaunchShapes, Launcher!Becomes
<1>2. NotRunYet'
  BY <1>1 DEF NotRunYet, LaunchInv
<1>3. /\ r.pc # "run" => Launching' = Launching \ {q}
      /\ r.pc = "run" => Launching' = Launching \cup {q}
  BY <1>1 DEF Launching
<1> QED BY <1>1, <1>2, <1>3

\* A step that names what it lets go of, or counts a failure, keeps the account.
LEMMA NothingLost ==
  ASSUME LaunchInv, LaunchShapes', lFaults' >= lFaults, Unnamed' \subseteq Unnamed
  PROVE  LostToFaults'
<1>1. Cardinality(Unnamed') <= Cardinality(Unnamed)
  BY LaunchFinite, FS_Subset DEF Counted, LaunchInv
<1> QED BY <1>1, LaunchFinite, LaunchFiniteNext
        DEF Counted, LaunchInv, LostToFaults, LaunchShapes

\* A step that starts nothing and lets nothing through keeps the ceiling.
LEMMA NothingAdmitted ==
  ASSUME LaunchInv, LaunchShapes', lRunning' \subseteq lRunning, Launching' \subseteq Launching
  PROVE  Admitted'
<1>1. Cardinality(lRunning') <= Cardinality(lRunning)
  BY LaunchFinite, FS_Subset DEF Counted, LaunchInv
<1>2. Cardinality(Launching') <= Cardinality(Launching)
  BY LaunchFinite, FS_Subset DEF Counted, LaunchInv
<1> QED BY <1>1, <1>2, LaunchFinite, LaunchFiniteNext DEF Counted, LaunchInv, Admitted

LEMMA LaunchInductive == ASSUME LaunchInv, [Launcher!Next]_lVars PROVE LaunchInv'
<1>1. CASE UNCHANGED lVars
  <2>1. UNCHANGED <<lStarted, lRunning, lRequest, lAudited, lMisnamed, lFaults>>
    BY <1>1 DEF lVars
  <2>2. Launching' = Launching /\ Unnamed' = Unnamed
    BY <2>1 DEF Launching, Unnamed, InService, Launcher!At
  <2> QED BY <2>1, <2>2 DEF LaunchInv, LaunchShapes, NotRunYet, Admitted, LostToFaults
<1>2. ASSUME NEW q \in Request, Launcher!Count(q) PROVE LaunchInv'
  <2> DEFINE r == [pc |-> "run", execution |-> 0]
  <2>1. /\ lRequest[q].pc = "idle" /\ Cardinality(lRunning) < 2
        /\ UNCHANGED <<lStarted, lRunning, lAudited, lMisnamed, lFaults>>
        /\ Launcher!Becomes(q, r)
    <3>1. Launcher!Becomes(q, [Launcher!Idle EXCEPT !.pc = "run"])
      BY <1>2, Zenon DEF Launcher!Count
    <3>2. [Launcher!Idle EXCEPT !.pc = "run"] = r
      BY DEF Launcher!Idle
    <3>3. /\ lRequest[q].pc = "idle" /\ Cardinality(lRunning) < 2
          /\ UNCHANGED <<lStarted, lRunning, lAudited, lMisnamed, lFaults>>
      BY <1>2, LauncherCounts DEF Launcher!Count, Launcher!At
    <3> QED BY <3>1, <3>2, <3>3, Zenon
  <2>2. r \in [pc : Launcher!Pc, execution : Nat] /\ r.pc = "run" /\ r.execution = 0
    BY DEF Launcher!Pc
  <2> HIDE DEF r
  <2>3. /\ lRequest' \in [Request -> [pc : Launcher!Pc, execution : Nat]] /\ lRequest'[q] = r
        /\ \A p \in Request \ {q} : lRequest'[p] = lRequest[p]
        /\ NotRunYet'
    BY <2>1, <2>2, RequestBecomes
  <2>4. LaunchShapes'
    BY <2>1, <2>3 DEF LaunchInv, LaunchShapes
  <2>5. Admitted'
    BY <2>1, <2>4, LaunchFinite, LaunchFiniteNext DEF Counted, Admitted, LaunchInv
  <2>6. Unnamed' \subseteq Unnamed
    BY <2>1, <2>2, <2>3 DEF Unnamed, InService, Launcher!At
  <2>7. LostToFaults'
    BY <2>1, <2>4, <2>6, NothingLost DEF LaunchInv, LaunchShapes
  <2> QED BY <2>3, <2>4, <2>5, <2>7 DEF LaunchInv
<1>3. ASSUME NEW q \in Request, Launcher!Run(q) PROVE LaunchInv'
  <2>1. /\ lRequest[q].pc = "run" /\ lRequest[q].execution = 0
        /\ lStarted' = lStarted + 1 /\ lRunning' = lRunning \cup {lStarted + 1}
        /\ UNCHANGED <<lAudited, lMisnamed, lFaults>>
    BY <1>3 DEF Launcher!Run, Launcher!At, LaunchInv, NotRunYet
  <2>2. PICK r \in [pc : Launcher!Pc, execution : Nat] :
             /\ Launcher!Becomes(q, r)
             /\ r.pc \in {"audit", "newest"} /\ r.execution = lStarted + 1
    <3>1. lStarted + 1 \in Nat
      BY DEF LaunchInv, LaunchShapes
    <3>2. \A pc \in {"audit", "newest"} :
            [pc |-> pc, execution |-> lStarted + 1] \in [pc : Launcher!Pc, execution : Nat]
      BY <3>1 DEF Launcher!Pc
    <3> QED BY <1>3, <2>1, <3>2 DEF Launcher!Run
  <2>3. /\ lRequest' \in [Request -> [pc : Launcher!Pc, execution : Nat]] /\ lRequest'[q] = r
        /\ \A p \in Request \ {q} : lRequest'[p] = lRequest[p]
        /\ NotRunYet' /\ Launching' = Launching \ {q}
    BY <2>2, RequestBecomes
  <2>4. LaunchShapes'
    BY <2>1, <2>3 DEF LaunchInv, LaunchShapes
  <2>5. Admitted'
    <3>1. Cardinality(lRunning') = Cardinality(lRunning) + 1
      <4>1. lStarted + 1 \notin lRunning
        BY DEF LaunchInv, LaunchShapes
      <4> QED BY <2>1, <4>1, LaunchFinite, FS_AddElement DEF Counted, LaunchInv
    <3>2. Cardinality(Launching') = Cardinality(Launching) - 1
      <4>1. q \in Launching
        BY <2>1 DEF Launching
      <4> QED BY <2>3, <4>1, LaunchFinite, FS_RemoveElement DEF Counted, LaunchInv
    <3> QED BY <3>1, <3>2, LaunchFinite DEF Counted, Admitted, LaunchInv
  <2>6. Unnamed' \subseteq Unnamed
    <3>1. 1 .. lStarted' = 1 .. lStarted \cup {lStarted + 1}
      BY <2>1 DEF LaunchInv, LaunchShapes
    <3>2. lStarted + 1 \in InService' /\ InService \subseteq InService' \cup {0}
      BY <2>1, <2>2, <2>3 DEF InService, Launcher!At
    <3>3. 0 \notin 1 .. lStarted
      BY DEF LaunchInv, LaunchShapes
    <3> QED BY <2>1, <3>1, <3>2, <3>3 DEF Unnamed
  <2>7. LostToFaults'
    BY <2>1, <2>4, <2>6, NothingLost DEF LaunchInv, LaunchShapes
  <2> QED BY <2>3, <2>4, <2>5, <2>7 DEF LaunchInv
<1>4. ASSUME NEW q \in Request, Launcher!Newest(q) PROVE LaunchInv'
  <2> DEFINE r == [pc |-> "audit", execution |-> lStarted]
  <2>1. /\ lRequest[q].pc = "newest"
        /\ UNCHANGED <<lStarted, lRunning, lAudited, lFaults>>
        /\ lMisnamed' = lMisnamed \cup ({lRequest[q].execution} \ {lStarted})
        /\ Launcher!Becomes(q, r)
    BY <1>4 DEF Launcher!Newest, Launcher!At
  <2>2. r \in [pc : Launcher!Pc, execution : Nat] /\ r.pc = "audit" /\ r.execution = lStarted
    BY DEF Launcher!Pc, LaunchInv, LaunchShapes
  <2> HIDE DEF r
  <2>3. /\ lRequest' \in [Request -> [pc : Launcher!Pc, execution : Nat]] /\ lRequest'[q] = r
        /\ \A p \in Request \ {q} : lRequest'[p] = lRequest[p]
        /\ NotRunYet' /\ Launching' = Launching \ {q}
    BY <2>1, <2>2, RequestBecomes
  <2>4. LaunchShapes'
    BY <2>1, <2>3 DEF LaunchInv, LaunchShapes
  <2>5. Admitted'
    BY <2>1, <2>3, <2>4, NothingAdmitted
  <2>6. Unnamed' \subseteq Unnamed
    <3>1. InService \subseteq InService' \cup {lRequest[q].execution} /\ lStarted \in InService'
      BY <2>1, <2>2, <2>3 DEF InService, Launcher!At
    <3> QED BY <2>1, <3>1 DEF Unnamed
  <2>7. LostToFaults'
    BY <2>1, <2>4, <2>6, NothingLost DEF LaunchInv, LaunchShapes
  <2> QED BY <2>3, <2>4, <2>5, <2>7 DEF LaunchInv
<1>5. ASSUME NEW q \in Request, Launcher!Audit(q) \/ Launcher!Fail(q) PROVE LaunchInv'
  <2>1. /\ lRequest[q].pc # "idle" /\ Launcher!Becomes(q, Launcher!Idle)
        /\ UNCHANGED <<lStarted, lRunning, lMisnamed>>
        /\ \/ lAudited' = lAudited \cup {lRequest[q].execution} /\ lFaults' = lFaults
           \/ lAudited' = lAudited /\ lFaults' = lFaults + 1
    BY <1>5 DEF Launcher!Audit, Launcher!Fail, Launcher!At
  <2>2. /\ Launcher!Idle \in [pc : Launcher!Pc, execution : Nat]
        /\ Launcher!Idle.pc = "idle" /\ Launcher!Idle.execution = 0
    BY DEF Launcher!Idle, Launcher!Pc
  <2>3. /\ lRequest' \in [Request -> [pc : Launcher!Pc, execution : Nat]]
        /\ lRequest'[q] = Launcher!Idle
        /\ \A p \in Request \ {q} : lRequest'[p] = lRequest[p]
        /\ NotRunYet' /\ Launching' = Launching \ {q}
    BY <2>1, <2>2, RequestBecomes
  <2>4. LaunchShapes'
    BY <2>1, <2>3 DEF LaunchInv, LaunchShapes
  <2>5. Admitted'
    BY <2>1, <2>3, <2>4, NothingAdmitted
  <2>6. InService \subseteq InService' \cup {lRequest[q].execution}
    BY <2>1, <2>2, <2>3 DEF InService, Launcher!At
  <2>7. CASE lAudited' = lAudited \cup {lRequest[q].execution} /\ lFaults' = lFaults
    <3>1. Unnamed' \subseteq Unnamed
      BY <2>1, <2>6, <2>7 DEF Unnamed
    <3>2. LostToFaults'
      BY <2>7, <2>4, <3>1, NothingLost DEF LaunchInv, LaunchShapes
    <3> QED BY <2>3, <2>4, <2>5, <3>2 DEF LaunchInv
  <2>8. CASE lAudited' = lAudited /\ lFaults' = lFaults + 1
    <3>1. Unnamed' \subseteq Unnamed \cup {lRequest[q].execution}
      BY <2>1, <2>6, <2>8 DEF Unnamed
    <3>2. /\ IsFiniteSet(Unnamed \cup {lRequest[q].execution})
          /\ Cardinality(Unnamed \cup {lRequest[q].execution}) <= Cardinality(Unnamed) + 1
      <4>1. IsFiniteSet(Unnamed) /\ Cardinality(Unnamed) \in Nat
        BY LaunchFinite DEF Counted, LaunchInv
      <4> QED BY <4>1, FS_AddElement
    <3>3. Cardinality(Unnamed') <= Cardinality(Unnamed \cup {lRequest[q].execution})
      BY <3>1, <3>2, FS_Subset
    <3>4. LostToFaults'
      <4>1. /\ Cardinality(Unnamed) \in Nat /\ Cardinality(Unnamed') \in Nat
            /\ Cardinality(Unnamed) <= lFaults /\ lFaults \in Nat
        BY <2>4, LaunchFinite, LaunchFiniteNext
           DEF Counted, LaunchInv, LaunchShapes, LostToFaults
      <4>2. Cardinality(Unnamed \cup {lRequest[q].execution}) \in Nat
        BY <3>2, FS_CardinalityType
      <4> QED BY <2>8, <3>2, <3>3, <4>1, <4>2 DEF LostToFaults
    <3> QED BY <2>3, <2>4, <2>5, <3>4 DEF LaunchInv
  <2> QED BY <2>1, <2>7, <2>8
<1>6. ASSUME NEW e, Launcher!End(e) PROVE LaunchInv'
  <2>1. /\ lRunning' = lRunning \ {e}
        /\ UNCHANGED <<lStarted, lRequest, lAudited, lMisnamed, lFaults>>
    BY <1>6 DEF Launcher!End
  <2>2. Launching' = Launching /\ Unnamed' = Unnamed
    BY <2>1 DEF Launching, Unnamed, InService, Launcher!At
  <2>3. LaunchShapes' /\ NotRunYet'
    BY <2>1 DEF LaunchInv, LaunchShapes, NotRunYet
  <2>4. Admitted'
    BY <2>1, <2>2, <2>3, NothingAdmitted
  <2>5. LostToFaults'
    BY <2>1, <2>2 DEF LaunchInv, LostToFaults
  <2> QED BY <2>3, <2>4, <2>5 DEF LaunchInv
<1> QED BY <1>1, <1>2, <1>3, <1>4, <1>5, <1>6 DEF Launcher!Next

\* However many watches are asked for at the same time, whoever else's name a request
\* reports and whatever call fails: the ceiling is passed by one execution per request at
\* most, and an execution without an entry cost a failure (sentinel.ts: launch counts, then
\* starts; routes/index.ts: POST /api/watches writes agent.dispatched last).
THEOREM CeilingKept == OneSpec => []CeilingHeld
<1>1. OneInit => LaunchInv
  BY LaunchInitially DEF OneInit
<1>2. LaunchInv /\ [OneNext]_oneVars => LaunchInv'
  <2>1. [OneNext]_oneVars => [Launcher!Next]_lVars
    BY DEF OneNext, oneVars
  <2> QED BY <2>1, LaunchInductive
<1>3. LaunchInv => CeilingHeld
  <2> SUFFICES ASSUME LaunchInv PROVE CeilingHeld
    OBVIOUS
  <2>1. Cardinality(lRunning) <= 1 + Cardinality(Request)
    BY LaunchFinite DEF Counted, LaunchInv, Admitted
  <2>2. Cardinality(Unnamed) <= lFaults
    BY DEF LaunchInv, LostToFaults
  <2> QED BY <2>1, <2>2, LauncherCounts, Zenon
          DEF Unnamed, InService, CeilingHeld, Launcher!CeilingHeld
<1> QED BY <1>1, <1>2, <1>3, PTL DEF OneSpec

----------------------------------------------------------------------------
(* Warden.  Whatever a process has read of a chat up to the message it     *)
(* inserts next is stored, and so is what a cursor it resumed from stood   *)
(* for: comments are only ever added.                                      *)

\* The viewers' messages first + 1 .. last of a chat are among those stored.
Stored(chat, first, last, stored) ==
  \A i \in first + 1 .. last : i \notin Staff => <<chat, i>> \in stored

WardenPc == {"idle", "source", "join", "readPage", "insert", "writeCursor", "clearCursor",
             "readVideo", "markPolled", "markFailed", "recordError", "triage"}
WardenRow(p) ==
  [pc : WardenPc, client : Nat, todo : SUBSET KindsOf[p], resumed : BOOLEAN, chat : Nat,
   token : Nat, from : Nat, next : Nat, upto : Nat, denied : BOOLEAN]
CursorRow == [chat : Nat, token : Nat, from : Nat, due : BOOLEAN]

\* What is stored of the chat a process is at.
RowBacked(r, stored) ==
  /\ r.pc = "join" => ~r.resumed
  /\ r.pc = "readVideo" => r.chat = 0
  /\ r.pc = "readPage" /\ r.resumed => Stored(r.chat, r.from, r.token, stored)
  /\ r.pc = "insert" /\ r.chat # 0 => Stored(r.chat, r.from, r.next - 1, stored)
  /\ r.pc = "writeCursor" => Stored(r.chat, r.from, r.upto, stored)

PollShapes(p) ==
  /\ pPosted \in [0 .. MaxBroadcasts -> Nat]
  /\ pLive \in 0 .. MaxBroadcasts /\ pBroadcasts \in 0 .. MaxBroadcasts
  /\ pGrant \in Nat
  /\ pCursor \in CursorRow
  /\ pWork \in [WardensOf[p] -> WardenRow(p)]
CursorBacked == Stored(pCursor.chat, pCursor.from, pCursor.token, pComments)

PollInv(p) ==
  /\ PollShapes(p)
  /\ CursorBacked
  /\ \A w \in WardensOf[p] : RowBacked(pWork[w], pComments)

LEMMA PollInitially == ASSUME NEW p \in Polling, Poll(p)!Init PROVE PollInv(p)
<1>1. Poll(p)!Resting(0) \in WardenRow(p) /\ Poll(p)!Resting(0).pc = "idle"
  BY DEF Poll!Resting, WardenRow, WardenPc
<1>2. pWork = [w \in WardensOf[p] |-> Poll(p)!Resting(0)]
  BY DEF Poll!Init
<1>3. pCursor \in CursorRow /\ CursorBacked
  BY DEF Poll!Init, Poll!NoCursor, CursorRow, CursorBacked, Stored
<1>4. PollShapes(p)
  BY <1>1, <1>2, <1>3, ServicesAssumption DEF Poll!Init, Poll!Thread, PollShapes
<1>5. \A w \in WardensOf[p] : RowBacked(pWork[w], pComments)
  BY <1>1, <1>2 DEF RowBacked
<1> QED BY <1>3, <1>4, <1>5 DEF PollInv

\* What is stored stays stored.
LEMMA StoredStays ==
  ASSUME NEW c, NEW i \in Nat, NEW j \in Int, NEW A, NEW B, A \subseteq B, Stored(c, i, j, A)
  PROVE  Stored(c, i, j, B)
BY DEF Stored

LEMMA RowStaysBacked ==
  ASSUME NEW p \in Polling, NEW r \in WardenRow(p), NEW A, NEW B, A \subseteq B, RowBacked(r, A)
  PROVE  RowBacked(r, B)
BY DEF RowBacked, Stored

\* A step of one process that leaves it with what is stored, and the cursor too.
LEMMA WardenStep ==
  ASSUME NEW p \in Polling, PollInv(p), NEW w \in WardensOf[p],
         NEW r \in WardenRow(p), pWork' = [pWork EXCEPT ![w] = r],
         pComments \subseteq pComments', RowBacked(r, pComments'),
         UNCHANGED <<pPosted, pLive, pBroadcasts, pGrant>>,
         pCursor' \in CursorRow, CursorBacked'
  PROVE  PollInv(p)'
<1>1. pWork' \in [WardensOf[p] -> WardenRow(p)]
  BY DEF PollInv, PollShapes
<1>2. \A v \in WardensOf[p] : RowBacked(pWork'[v], pComments')
  <2> SUFFICES ASSUME NEW v \in WardensOf[p] PROVE RowBacked(pWork'[v], pComments')
    OBVIOUS
  <2>1. CASE v = w
    BY <2>1 DEF PollInv, PollShapes
  <2>2. CASE v # w
    <3>1. pWork'[v] = pWork[v] /\ pWork[v] \in WardenRow(p) /\ RowBacked(pWork[v], pComments)
      BY <2>2 DEF PollInv, PollShapes
    <3> QED BY <3>1, RowStaysBacked
  <2> QED BY <2>1, <2>2
<1> QED BY <1>1, <1>2 DEF PollInv, PollShapes

\* The same of a step that stores nothing and leaves the cursor: what counts is the row.
LEMMA WardenQuietStep ==
  ASSUME NEW p \in Polling, PollInv(p), NEW w \in WardensOf[p],
         NEW r \in WardenRow(p), Poll(p)!Becomes(w, r), RowBacked(r, pComments),
         UNCHANGED <<pPosted, pLive, pBroadcasts, pGrant, pCursor, pComments>>
  PROVE  PollInv(p)'
<1>1. pCursor' \in CursorRow /\ CursorBacked'
  BY DEF PollInv, PollShapes, CursorBacked
<1>2. pWork' = [pWork EXCEPT ![w] = r]
  BY DEF Poll!Becomes
<1> QED BY <1>1, <1>2, WardenStep

\* Deliver: what comes before the page is stored.
Delivered(r, first, last, from) ==
  [r EXCEPT !.next = first, !.upto = last, !.from = from,
            !.pc = IF first <= last THEN "insert"
                   ELSE IF r.chat = 0 THEN "markPolled" ELSE "writeCursor"]

LEMMA DeliveredIsBacked ==
  ASSUME NEW p \in Polling, NEW r \in WardenRow(p), NEW first \in Nat, NEW last \in Nat,
         NEW from \in Nat, NEW stored, r.chat # 0 => Stored(r.chat, from, first - 1, stored)
  PROVE  /\ Delivered(r, first, last, from) \in WardenRow(p)
         /\ RowBacked(Delivered(r, first, last, from), stored)
<1> DEFINE to == IF first <= last THEN "insert"
                 ELSE IF r.chat = 0 THEN "markPolled" ELSE "writeCursor"
           d == [r EXCEPT !.next = first, !.upto = last, !.from = from, !.pc = to]
<1>1. to \in WardenPc /\ Delivered(r, first, last, from) = d
  BY DEF WardenPc, Delivered
<1>2. to \notin {"join", "readVideo", "readPage"}
  OBVIOUS
<1>3. to = "writeCursor" => r.chat # 0 /\ ~(first <= last)
  OBVIOUS
<1> HIDE DEF to
<1>4. /\ d \in WardenRow(p)
      /\ d.pc = to /\ d.next = first /\ d.upto = last /\ d.from = from /\ d.chat = r.chat
  BY <1>1 DEF WardenRow
<1> HIDE DEF d
<1>5. to = "writeCursor" => Stored(r.chat, from, last, stored)
  BY <1>3 DEF Stored
<1>6. RowBacked(d, stored)
  BY <1>2, <1>4, <1>5 DEF RowBacked
<1> QED BY <1>1, <1>4, <1>6

\* A process that moves on to where nothing is claimed of it.
LEMMA WardenMovesOn ==
  ASSUME NEW p \in Polling, PollInv(p), NEW w \in WardensOf[p],
         NEW pc \in WardenPc \ {"join", "readVideo", "readPage", "insert", "writeCursor"},
         Poll(p)!GoTo(w, pc),
         UNCHANGED <<pPosted, pLive, pBroadcasts, pGrant, pCursor, pComments>>
  PROVE  PollInv(p)'
<1> DEFINE e == pWork[w]
           r == [e EXCEPT !.pc = pc]
<1>1. e \in WardenRow(p)
  BY DEF PollInv, PollShapes
<1> HIDE DEF e
<1>2. r \in WardenRow(p) /\ r.pc = pc
  BY <1>1 DEF WardenRow
<1>3. RowBacked(r, pComments)
  BY <1>2 DEF RowBacked
<1>4. Poll(p)!Becomes(w, r)
  BY DEF Poll!GoTo, e
<1> HIDE DEF r
<1> QED BY <1>2, <1>3, <1>4, WardenQuietStep

\* A process that rests, or starts over.
Rested(p, g, todo, pc) == [Poll(p)!Resting(g) EXCEPT !.todo = todo, !.pc = pc]

LEMMA WardenRests ==
  ASSUME NEW p \in Polling, PollInv(p), NEW w \in WardensOf[p], NEW g \in Nat,
         NEW todo \in SUBSET KindsOf[p],
         NEW pc \in WardenPc \ {"join", "readVideo", "readPage", "insert", "writeCursor"},
         Poll(p)!Becomes(w, Rested(p, g, todo, pc)),
         UNCHANGED <<pPosted, pLive, pBroadcasts, pGrant, pCursor, pComments>>
  PROVE  PollInv(p)'
<1> DEFINE e == Poll(p)!Resting(g)
           r == [e EXCEPT !.todo = todo, !.pc = pc]
<1>1. e \in WardenRow(p)
  BY DEF Poll!Resting, WardenRow, WardenPc
<1> HIDE DEF e
<1>2. r \in WardenRow(p) /\ r.pc = pc
  BY <1>1 DEF WardenRow
<1>3. RowBacked(r, pComments)
  BY <1>2 DEF RowBacked
<1>4. Poll(p)!Becomes(w, r)
  BY DEF e, Rested
<1> HIDE DEF r
<1> QED BY <1>2, <1>3, <1>4, WardenQuietStep

\* A page is taken over: what is before it is stored.
LEMMA WardenDelivers ==
  ASSUME NEW p \in Polling, PollInv(p), NEW w \in WardensOf[p], NEW first \in Nat,
         NEW last \in Nat, NEW from \in Nat,
         pWork[w].chat # 0 => Stored(pWork[w].chat, from, first - 1, pComments'),
         Poll(p)!Deliver(w, first, last, from), pComments \subseteq pComments',
         UNCHANGED <<pPosted, pLive, pBroadcasts, pGrant, pCursor>>
  PROVE  PollInv(p)'
<1> DEFINE r == Delivered(pWork[w], first, last, from)
<1>1. pWork[w] \in WardenRow(p)
  BY DEF PollInv, PollShapes
<1>2. r \in WardenRow(p) /\ RowBacked(r, pComments')
  BY <1>1, DeliveredIsBacked
<1>3. pWork' = [pWork EXCEPT ![w] = r]
  BY DEF Poll!Deliver, Poll!Becomes, Delivered
<1>4. pCursor' \in CursorRow /\ CursorBacked'
  BY DEF PollInv, PollShapes, CursorBacked, CursorRow, Stored
<1> HIDE DEF r
<1> QED BY <1>2, <1>3, <1>4, WardenStep

LEMMA LeastIsNat == ASSUME NEW p, NEW a \in Nat, NEW b \in Nat PROVE Poll(p)!Least(a, b) \in Nat
BY DEF Poll!Least

\* The steps of a process.
LEMMA WardenSteps ==
  ASSUME NEW p \in Polling, PollInv(p), NEW w \in WardensOf[p],
         Poll(p)!Poll(w) \/ Poll(p)!Throw(w) \/ Poll(p)!Crash(w)
  PROVE  PollInv(p)'
<1> DEFINE e == pWork[w]
<1>1. /\ e \in WardenRow(p) /\ RowBacked(e, pComments)
      /\ pCursor \in CursorRow /\ CursorBacked /\ pGrant \in Nat
      /\ pLive \in 0 .. MaxBroadcasts /\ pPosted \in [0 .. MaxBroadcasts -> Nat]
      /\ MaxBroadcasts \in Nat /\ PageSize \in Nat
  BY ServicesAssumption DEF PollInv, PollShapes
<1>2. /\ e.client \in Nat /\ e.todo \in SUBSET KindsOf[p] /\ e.chat \in Nat
      /\ e.token \in Nat /\ e.from \in Nat /\ e.next \in Nat /\ e.upto \in Nat
      /\ pPosted[pLive] \in Nat /\ pPosted[0] \in Nat /\ pLive \in Nat
  BY <1>1 DEF WardenRow
<1>2a. \A n \in Nat : n + PageSize \in Nat /\ n + 1 \in Nat /\ (n + 1) - 1 = n
  BY ServicesAssumption
<1>3. CASE Poll(p)!Begin(w)
  <2> DEFINE g == IF e.client # 0 THEN e.client ELSE pGrant
             r == [Poll(p)!Resting(g) EXCEPT !.pc = "source", !.todo = KindsOf[p]]
  <2>1. /\ Poll(p)!Becomes(w, r)
        /\ UNCHANGED <<pPosted, pLive, pBroadcasts, pGrant, pCursor, pComments>>
    BY <1>3 DEF Poll!Begin, Poll!platform, Poll!credential
  <2>2. g \in Nat
    BY <1>1, <1>2
  <2> HIDE DEF g
  <2>3. r \in WardenRow(p) /\ r.pc = "source"
    <3> DEFINE rest == Poll(p)!Resting(g)
    <3>1. rest \in WardenRow(p)
      BY <2>2 DEF Poll!Resting, WardenRow, WardenPc
    <3> HIDE DEF rest
    <3>2. /\ [rest EXCEPT !.pc = "source", !.todo = KindsOf[p]] \in WardenRow(p)
          /\ [rest EXCEPT !.pc = "source", !.todo = KindsOf[p]].pc = "source"
      BY <3>1 DEF WardenRow, WardenPc
    <3> QED BY <3>2 DEF rest
  <2> HIDE DEF r
  <2>4. RowBacked(r, pComments)
    BY <2>3 DEF RowBacked
  <2> QED BY <2>1, <2>3, <2>4, WardenQuietStep
<1>4. CASE Poll(p)!NextSource(w)
  <2>1. UNCHANGED <<pPosted, pLive, pBroadcasts, pGrant, pCursor, pComments>>
    BY <1>4 DEF Poll!NextSource, Poll!platform, Poll!credential
  <2> DEFINE to == IF pCursor = Poll(p)!NoCursor THEN "join"
                   ELSE IF ~pCursor.due THEN "markPolled" ELSE "readPage"
             c == [e EXCEPT !.todo = @ \ {"chat"}, !.resumed = pCursor # Poll(p)!NoCursor,
                     !.chat = pCursor.chat, !.token = pCursor.token, !.from = pCursor.from,
                     !.pc = to]
             v == [e EXCEPT !.todo = @ \ {"video"}, !.chat = 0, !.pc = "readVideo"]
  <2>2. Poll(p)!Becomes(w, c) \/ Poll(p)!Becomes(w, v)
    BY <1>4, Zenon DEF Poll!NextSource
  <2>3. c \in WardenRow(p) /\ RowBacked(c, pComments)
    <3>1. to \in WardenPc /\ to \in {"join", "markPolled", "readPage"}
      BY DEF WardenPc
    <3>2. to = "join" <=> pCursor = Poll(p)!NoCursor
      OBVIOUS
    <3> DEFINE resumed == pCursor # Poll(p)!NoCursor
    <3>3. resumed \in BOOLEAN /\ (to = "join" => ~resumed)
      BY <3>2
    <3> HIDE DEF to, resumed
    <3>4. /\ c \in WardenRow(p)
          /\ c.pc = to /\ c.resumed = resumed
          /\ c.chat = pCursor.chat /\ c.token = pCursor.token /\ c.from = pCursor.from
      BY <1>1, <3>1, <3>3 DEF WardenRow, CursorRow, resumed
    <3> HIDE DEF c
    <3> QED BY <1>1, <3>1, <3>3, <3>4 DEF RowBacked, CursorBacked
  <2>4. v \in WardenRow(p) /\ RowBacked(v, pComments)
    <3>1. v \in WardenRow(p) /\ v.pc = "readVideo" /\ v.chat = 0
      BY <1>1 DEF WardenRow, WardenPc
    <3> HIDE DEF v
    <3> QED BY <3>1 DEF RowBacked
  <2> HIDE DEF c, v
  <2> QED BY <2>1, <2>2, <2>3, <2>4, WardenQuietStep
<1>5. CASE Poll(p)!RefreshFails(w)
  <2> DEFINE r == [e EXCEPT !.pc = "markFailed", !.denied = TRUE]
  <2>1. r \in WardenRow(p) /\ r.pc = "markFailed"
    BY <1>1 DEF WardenRow, WardenPc
  <2>2. /\ Poll(p)!Becomes(w, r)
        /\ UNCHANGED <<pPosted, pLive, pBroadcasts, pGrant, pCursor, pComments>>
    BY <1>5 DEF Poll!RefreshFails, Poll!platform, Poll!credential
  <2> HIDE DEF r
  <2>3. RowBacked(r, pComments)
    BY <2>1 DEF RowBacked
  <2> QED BY <2>1, <2>2, <2>3, WardenQuietStep
<1>6. CASE Poll(p)!Join(w)
  <2> DEFINE to == IF pLive = 0 THEN "markPolled" ELSE "readPage"
             r == [e EXCEPT !.chat = pLive, !.pc = to]
  <2>1. /\ Poll(p)!Becomes(w, r)
        /\ UNCHANGED <<pPosted, pLive, pBroadcasts, pGrant, pCursor, pComments>>
        /\ e.pc = "join"
    BY <1>6 DEF Poll!Join, Poll!At, Poll!platform, Poll!credential
  <2>2. ~e.resumed
    BY <1>1, <2>1 DEF RowBacked
  <2>3. to \in WardenPc /\ to \in {"markPolled", "readPage"}
    BY DEF WardenPc
  <2> HIDE DEF to
  <2>4. r \in WardenRow(p) /\ r.pc = to /\ ~r.resumed
    BY <1>1, <1>2, <2>2, <2>3 DEF WardenRow
  <2> HIDE DEF r
  <2>5. RowBacked(r, pComments)
    BY <2>3, <2>4 DEF RowBacked
  <2> QED BY <2>1, <2>4, <2>5, WardenQuietStep
<1>7. CASE Poll(p)!ReadPage(w)
  <2>1. /\ UNCHANGED <<pPosted, pLive, pBroadcasts, pGrant, pCursor, pComments>>
        /\ e.pc = "readPage"
    BY <1>7 DEF Poll!ReadPage, Poll!At, Poll!platform, Poll!credential
  <2>2. CASE e.resumed
    <3> DEFINE last == Poll(p)!Least(pPosted[pLive], e.token + PageSize)
    <3>1. Poll(p)!Deliver(w, e.token + 1, last, e.from)
      BY <1>7, <2>2, Zenon DEF Poll!ReadPage
    <3>2. last \in Nat /\ e.token + 1 \in Nat
      <4>1. e.token + PageSize \in Nat /\ e.token + 1 \in Nat
        BY <1>2, <1>2a
      <4> QED BY <1>2, <4>1, LeastIsNat
    <3>3. Stored(e.chat, e.from, (e.token + 1) - 1, pComments')
      <4>1. (e.token + 1) - 1 = e.token
        BY <1>2, <1>2a
      <4> QED BY <1>1, <2>1, <2>2, <4>1 DEF RowBacked
    <3> HIDE DEF last
    <3> QED BY <1>2, <2>1, <3>1, <3>2, <3>3, WardenDelivers
  <2>3. CASE ~e.resumed
    <3>1. PICK j \in 0 .. pPosted[pLive] :
            Poll(p)!Deliver(w, j + 1, Poll(p)!Least(pPosted[pLive], j + PageSize), j)
      BY <1>7, <2>3 DEF Poll!ReadPage
    <3>2. j \in Nat /\ j + 1 \in Nat /\ Poll(p)!Least(pPosted[pLive], j + PageSize) \in Nat
      BY <1>1, <1>2, LeastIsNat
    <3>3. Stored(e.chat, j, (j + 1) - 1, pComments')
      BY <3>2 DEF Stored
    <3> QED BY <2>1, <3>1, <3>2, <3>3, WardenDelivers
  <2> QED BY <2>2, <2>3
<1>8. CASE Poll(p)!ChatGone(w)
  <2>1. /\ Poll(p)!GoTo(w, "clearCursor")
        /\ UNCHANGED <<pPosted, pLive, pBroadcasts, pGrant, pCursor, pComments>>
    BY <1>8 DEF Poll!ChatGone, Poll!platform, Poll!credential
  <2> QED BY <2>1, WardenMovesOn DEF WardenPc
<1>9. CASE Poll(p)!ClearCursor(w)
  <2> DEFINE r == [e EXCEPT !.pc = "markPolled"]
  <2>1. /\ pWork' = [pWork EXCEPT ![w] = r] /\ pCursor' = Poll(p)!NoCursor
        /\ UNCHANGED <<pPosted, pLive, pBroadcasts, pGrant, pComments>>
    BY <1>9 DEF Poll!ClearCursor, Poll!GoTo, Poll!Becomes, Poll!platform, Poll!credential
  <2>2. r \in WardenRow(p) /\ r.pc = "markPolled"
    BY <1>1 DEF WardenRow, WardenPc
  <2> HIDE DEF r
  <2>3. RowBacked(r, pComments')
    BY <2>2 DEF RowBacked
  <2>4. pCursor' \in CursorRow /\ CursorBacked'
    BY <2>1 DEF Poll!NoCursor, CursorRow, CursorBacked, Stored
  <2> QED BY <2>1, <2>2, <2>3, <2>4, WardenStep
<1>10. CASE Poll(p)!ReadVideo(w)
  <2> DEFINE first == IF pPosted[0] > PageSize THEN pPosted[0] - PageSize + 1 ELSE 1
  <2>1. /\ UNCHANGED <<pPosted, pLive, pBroadcasts, pGrant, pCursor, pComments>>
        /\ e.pc = "readVideo"
        /\ Poll(p)!Deliver(w, first, pPosted[0], 0)
    BY <1>10 DEF Poll!ReadVideo, Poll!At, Poll!platform, Poll!credential
  <2>2. first \in Nat /\ e.chat = 0
    BY <1>1, <1>2, <2>1 DEF RowBacked
  <2> HIDE DEF first
  <2> QED BY <1>2, <2>1, <2>2, WardenDelivers
<1>11. CASE Poll(p)!Insert(w)
  <2>1. /\ UNCHANGED <<pPosted, pLive, pBroadcasts, pGrant, pCursor>>
        /\ e.pc = "insert"
        /\ Poll(p)!Deliver(w, e.next + 1, e.upto, e.from)
        /\ pComments' = IF e.chat # 0 /\ e.next \in Staff THEN pComments
                        ELSE pComments \cup {<<e.chat, e.next>>}
    BY <1>11 DEF Poll!Insert, Poll!At, Poll!platform, Poll!credential
  <2>2. pComments \subseteq pComments'
    BY <2>1
  <2>3. ASSUME e.chat # 0 PROVE Stored(e.chat, e.from, (e.next + 1) - 1, pComments')
    <3>1. Stored(e.chat, e.from, e.next - 1, pComments')
      BY <1>1, <1>2, <2>1, <2>2, <2>3, StoredStays DEF RowBacked
    <3>2. e.next \in Staff \/ <<e.chat, e.next>> \in pComments'
      BY <2>1
    <3> QED BY <1>2, <3>1, <3>2 DEF Stored
  <2>4. e.next + 1 \in Nat /\ e.upto \in Nat /\ e.from \in Nat
    BY <1>2, <1>2a
  <2> DEFINE first == e.next + 1
             last == e.upto
             from == e.from
  <2>5. /\ first \in Nat /\ last \in Nat /\ from \in Nat
        /\ pWork[w].chat # 0 => Stored(pWork[w].chat, from, first - 1, pComments')
    BY <2>3, <2>4
  <2>6. Poll(p)!Deliver(w, first, last, from)
    BY <2>1
  <2> HIDE DEF first, last, from
  <2> QED BY <2>1, <2>2, <2>5, <2>6, WardenDelivers
<1>12. CASE Poll(p)!WriteCursor(w)
  <2> DEFINE r == [e EXCEPT !.pc = "markPolled"]
  <2>1. /\ pWork' = [pWork EXCEPT ![w] = r] /\ e.pc = "writeCursor"
        /\ pCursor' = [chat |-> e.chat, token |-> e.upto, from |-> e.from, due |-> FALSE]
        /\ UNCHANGED <<pPosted, pLive, pBroadcasts, pGrant, pComments>>
    BY <1>12
       DEF Poll!WriteCursor, Poll!At, Poll!GoTo, Poll!Becomes, Poll!platform, Poll!credential
  <2>2. r \in WardenRow(p) /\ r.pc = "markPolled"
    BY <1>1 DEF WardenRow, WardenPc
  <2> HIDE DEF r
  <2>3. RowBacked(r, pComments')
    BY <2>2 DEF RowBacked
  <2>4. pCursor' \in CursorRow
    BY <1>2, <2>1 DEF CursorRow
  <2>5. CursorBacked'
    BY <1>1, <2>1 DEF CursorBacked, RowBacked
  <2> QED BY <2>1, <2>2, <2>3, <2>4, <2>5, WardenStep
<1>13. CASE Poll(p)!MarkPolled(w)
  <2> DEFINE to == IF e.denied THEN "recordError"
                   ELSE IF e.todo = {} THEN "triage" ELSE "source"
  <2>1. /\ Poll(p)!Becomes(w, Rested(p, e.client, e.todo, to))
        /\ UNCHANGED <<pPosted, pLive, pBroadcasts, pGrant, pCursor, pComments>>
    BY <1>13 DEF Poll!MarkPolled, Poll!platform, Poll!credential, Rested
  <2>2. to \in WardenPc \ {"join", "readVideo", "readPage", "insert", "writeCursor"}
    BY DEF WardenPc
  <2> HIDE DEF to
  <2> QED BY <1>2, <2>1, <2>2, WardenRests
<1>14. ASSUME NEW g \in Nat, Poll(p)!Becomes(w, Poll(p)!Resting(g)),
              UNCHANGED <<pPosted, pLive, pBroadcasts, pGrant, pCursor, pComments>>
       PROVE  PollInv(p)'
  <2> DEFINE r == Poll(p)!Resting(g)
  <2>1. r \in WardenRow(p) /\ r.pc = "idle"
    BY DEF Poll!Resting, WardenRow, WardenPc
  <2> HIDE DEF r
  <2>2. RowBacked(r, pComments)
    BY <2>1 DEF RowBacked
  <2> QED BY <1>14, <2>1, <2>2, WardenQuietStep DEF r
<1>15. CASE Poll(p)!RecordError(w)
  <2>1. /\ Poll(p)!Becomes(w, Poll(p)!Resting(e.client))
        /\ UNCHANGED <<pPosted, pLive, pBroadcasts, pGrant, pCursor, pComments>>
    BY <1>15 DEF Poll!RecordError, Poll!platform
  <2> QED BY <1>2, <1>14, <2>1
<1>16. CASE Poll(p)!Triage(w)
  <2>1. UNCHANGED <<pPosted, pLive, pBroadcasts, pGrant, pCursor, pComments>>
    BY <1>16 DEF Poll!Triage, Poll!platform, Poll!credential
  <2> DEFINE r == [e EXCEPT !.pc = "source", !.todo = KindsOf[p]]
  <2>2. Poll(p)!Becomes(w, Poll(p)!Resting(e.client)) \/ Poll(p)!Becomes(w, r)
    BY <1>16, Zenon DEF Poll!Triage
  <2>3. r \in WardenRow(p) /\ r.pc = "source"
    BY <1>1 DEF WardenRow, WardenPc
  <2> HIDE DEF r
  <2>4. RowBacked(r, pComments)
    BY <2>3 DEF RowBacked
  <2> QED BY <1>2, <1>14, <2>1, <2>2, <2>3, <2>4, WardenQuietStep
<1>17. CASE Poll(p)!Throw(w)
  <2>1. /\ Poll(p)!GoTo(w, "markFailed")
        /\ UNCHANGED <<pPosted, pLive, pBroadcasts, pGrant, pCursor, pComments>>
    BY <1>17 DEF Poll!Throw, Poll!platform, Poll!credential
  <2> QED BY <2>1, WardenMovesOn DEF WardenPc
<1>18. CASE Poll(p)!Crash(w)
  <2>1. /\ Poll(p)!Becomes(w, Poll(p)!Resting(0))
        /\ UNCHANGED <<pPosted, pLive, pBroadcasts, pGrant, pCursor, pComments>>
    BY <1>18 DEF Poll!Crash, Poll!platform, Poll!credential
  <2> QED BY <1>14, <2>1
<1> QED BY <1>3, <1>4, <1>5, <1>6, <1>7, <1>8, <1>9, <1>10, <1>11, <1>12, <1>13, <1>15, <1>16,
           <1>17, <1>18 DEF Poll!Poll

\* The channel, its operator and time change nothing of what is read or stored.
LEMMA PollInductive ==
  ASSUME NEW p \in Polling, PollInv(p), [Poll(p)!Next]_pVars PROVE PollInv(p)'
<1>1. ASSUME UNCHANGED <<pWork, pComments>>, pCursor' \in CursorRow,
             pCursor'.chat = pCursor.chat, pCursor'.token = pCursor.token,
             pCursor'.from = pCursor.from,
             pPosted' \in [0 .. MaxBroadcasts -> Nat], pLive' \in 0 .. MaxBroadcasts,
             pBroadcasts' \in 0 .. MaxBroadcasts, pGrant' \in Nat
      PROVE  PollInv(p)'
  BY <1>1 DEF PollInv, PollShapes, CursorBacked
<1>2. /\ pCursor \in CursorRow /\ pGrant \in Nat /\ MaxBroadcasts \in Nat
      /\ pLive \in 0 .. MaxBroadcasts /\ pPosted \in [0 .. MaxBroadcasts -> Nat]
      /\ pBroadcasts \in 0 .. MaxBroadcasts
  BY ServicesAssumption DEF PollInv, PollShapes
<1>3. CASE UNCHANGED pVars
  BY <1>1, <1>2, <1>3 DEF pVars
<1>4. CASE Poll(p)!Broadcast
  BY <1>1, <1>2, <1>4 DEF Poll!Broadcast, Poll!credential
<1>5. CASE Poll(p)!EndBroadcast
  BY <1>1, <1>2, <1>5 DEF Poll!EndBroadcast, Poll!credential
<1>6. ASSUME NEW thread \in Poll(p)!Thread, Poll(p)!Post(thread) PROVE PollInv(p)'
  <2>1. /\ thread \in 0 .. MaxBroadcasts
        /\ pPosted' = [pPosted EXCEPT ![thread] = @ + 1]
        /\ UNCHANGED <<pWork, pComments, pCursor, pLive, pBroadcasts, pGrant>>
    BY <1>6 DEF Poll!Post, Poll!Thread, Poll!credential
  <2>2. pPosted' \in [0 .. MaxBroadcasts -> Nat]
    BY <1>2, <2>1
  <2> QED BY <1>1, <1>2, <2>1, <2>2
<1>7. CASE Poll(p)!Connect
  BY <1>1, <1>2, <1>7 DEF Poll!Connect, Poll!platform
<1>8. CASE Poll(p)!RevokeGrant
  BY <1>1, <1>2, <1>8 DEF Poll!RevokeGrant, Poll!platform
<1>9. CASE Poll(p)!PollAfter
  <2>1. /\ pCursor' = [pCursor EXCEPT !.due = TRUE]
        /\ UNCHANGED <<pWork, pComments, pPosted, pLive, pBroadcasts, pGrant>>
    BY <1>9 DEF Poll!PollAfter, Poll!platform, Poll!credential
  <2>2. /\ pCursor' \in CursorRow /\ pCursor'.chat = pCursor.chat
        /\ pCursor'.token = pCursor.token /\ pCursor'.from = pCursor.from
    BY <1>2, <2>1 DEF CursorRow
  <2> QED BY <1>1, <1>2, <2>1, <2>2
<1> QED BY <1>3, <1>4, <1>5, <1>6, <1>7, <1>8, <1>9, WardenSteps DEF Poll!Next

\* Whatever processes poll one chat with snapshots of one cursor, whatever page fails half-way
\* and however often the chat is joined again: no viewer's message between the one a chat was
\* joined at and its cursor is missing (agent-warden index.ts: pollLiveChat inserts the page
\* before store.ts: writeCursor).
THEOREM CommentsKept == OneSpec => []NoCommentSkipped
<1> DEFINE Inv == \A p \in Polling : part = p => PollInv(p)
<1>1. OneInit => Inv
  <2> SUFFICES ASSUME OneInit, NEW p \in Polling, part = p PROVE PollInv(p)
    OBVIOUS
  <2>1. Poll(p)!Init
    BY DEF OneInit, In
  <2> QED BY <2>1, PollInitially
<1>2. Inv /\ [OneNext]_oneVars => Inv'
  <2> SUFFICES ASSUME Inv, [OneNext]_oneVars, NEW p \in Polling, part' = p PROVE PollInv(p)'
    OBVIOUS
  <2>1. part = p /\ [Poll(p)!Next]_pVars
    BY DEF OneNext, oneVars
  <2> QED BY <2>1, PollInductive
<1>3. Inv => NoCommentSkipped
  BY DEF PollInv, CursorBacked, Stored, NoCommentSkipped, Poll!NoCommentSkipped
<1> QED BY <1>1, <1>2, <1>3, PTL DEF OneSpec

----------------------------------------------------------------------------
(* The collecting agents.  Between the read and the write of a baseline no *)
(* other task of the fan-out is at the source, for the shards divide the   *)
(* sources.  An anomaly is owed by the task that stored its observation,   *)
(* and by no other, for it is stored once.                                 *)

CollectPc == {"idle", "fetch", "item", "read", "write", "latest", "save", "saveAnomaly",
              "publish", "markPolled", "markFailed"}
CollectRow ==
  [pc : CollectPc, claimed : SUBSET Source, todo : SUBSET Source, items : Seq(Content),
   keys : Seq({"velocity", "hours", "wpm"}), prior : Nat, previous : Content \cup {NoContent},
   alarm : BOOLEAN, stored : BOOLEAN]

\* The source, the item and the key a row is at.
SourceOf(r) == CHOOSE s \in r.todo : TRUE
ItemOf(r) == [source |-> SourceOf(r), content |-> Head(r.items)]
KeyOf(r) == <<SourceOf(r), Head(r.keys)>>

\* Where a task has an item before it.
WithItem == {"item", "read", "write", "latest", "save", "saveAnomaly", "publish"}

\* What is known of the row of a task: its sources are its own, and it has what it works on.
RowFits(p, t, r) ==
  /\ r \in CollectRow
  /\ r.todo \subseteq r.claimed
  /\ \A s \in r.claimed : Collect(p)!Mine(t, s)
  /\ r.pc # "idle" => r.todo # {}
  /\ r.pc \in WithItem => r.items # <<>>
  /\ r.pc \in {"read", "write"} => r.keys # <<>>

Sighting == [source : Source, content : Content]
Baseline == Source \X {"velocity", "hours", "wpm"}

CollectShapes(p) ==
  /\ cObserved \in Seq(Sighting)
  /\ cFlagged \subseteq Sighting /\ IsFiniteSet(cFlagged)
  /\ cAnomalies \in [Sighting -> Nat]
  /\ cMemory \in [Baseline -> Nat] /\ cSamples \in [Baseline -> Nat]
  /\ cFaults \in Nat /\ cDue \subseteq Source
  /\ cWork \in [CollectTask -> CollectRow]
  /\ \A t \in CollectTask : RowFits(p, t, cWork[t])

\* Who is to write a baseline of a source of one fan-out has read what it is.
PriorIsLatest(p) ==
  /\ Collect(p)!SamplesCounted
  /\ \A t \in CollectTask : cWork[t].pc = "write" /\ Collect(p)!OneFanOut(SourceOf(cWork[t])) =>
       cWork[t].prior = cMemory[KeyOf(cWork[t])]

\* The tasks that owe an anomaly, and what was flagged and nobody reports.
Owing == {t \in CollectTask : cWork[t].pc = "saveAnomaly" /\ cWork[t].stored}
Unreported ==
  {o \in cFlagged : cAnomalies[o] = 0 /\ \A t \in Owing : ItemOf(cWork[t]) # o}
Seen(o, sightings) == \E i \in DOMAIN sightings : sightings[i] = o
OneReport ==
  /\ \A o \in cFlagged : Seen(o, cObserved)
  /\ \A o \in Sighting : cAnomalies[o] <= IF o \in cFlagged THEN 1 ELSE 0
  /\ \A t \in Owing : ItemOf(cWork[t]) \in cFlagged /\ cAnomalies[ItemOf(cWork[t])] = 0
  /\ \A t, u \in Owing : ItemOf(cWork[t]) = ItemOf(cWork[u]) => t = u
  /\ Cardinality(Unreported) <= cFaults

CollectInv(p) == CollectShapes(p) /\ PriorIsLatest(p) /\ OneReport

\* The source, the item and the key of a row are what they should be.
LEMMA RowItems ==
  ASSUME NEW p \in Collecting, NEW t \in CollectTask, NEW r, RowFits(p, t, r)
  PROVE  /\ r.pc # "idle" => SourceOf(r) \in r.todo /\ SourceOf(r) \in Source
                             /\ Collect(p)!Mine(t, SourceOf(r))
         /\ r.pc \in WithItem => Head(r.items) \in Content /\ ItemOf(r) \in Sighting
         /\ r.pc \in {"read", "write"} => KeyOf(r) \in Baseline
<1>1. /\ r.todo \in SUBSET Source /\ r.items \in Seq(Content)
      /\ r.keys \in Seq({"velocity", "hours", "wpm"})
  BY DEF RowFits, CollectRow
<1>2. r.pc # "idle" => SourceOf(r) \in r.todo /\ SourceOf(r) \in Source
  BY <1>1 DEF RowFits, SourceOf
<1>3. r.pc # "idle" => Collect(p)!Mine(t, SourceOf(r))
  BY <1>2 DEF RowFits
<1>4. r.pc \in WithItem => Head(r.items) \in Content /\ ItemOf(r) \in Sighting
  <2>1. r.items # <<>> => Head(r.items) \in Content
    BY <1>1
  <2> QED BY <1>2, <2>1 DEF RowFits, WithItem, ItemOf, Sighting
<1>5. r.pc \in {"read", "write"} => KeyOf(r) \in Baseline
  <2>1. r.keys # <<>> => Head(r.keys) \in {"velocity", "hours", "wpm"}
    BY <1>1
  <2> QED BY <1>2, <2>1 DEF RowFits, KeyOf, Baseline
<1> QED BY <1>2, <1>3, <1>4, <1>5

\* The shards divide the sources of a fan-out: two of its tasks are never at one source.
LEMMA ShardsApart ==
  ASSUME NEW p \in Collecting, NEW s \in Source, Collect(p)!OneFanOut(s),
         NEW t \in CollectTask, NEW u \in CollectTask,
         Collect(p)!Mine(t, s), Collect(p)!Mine(u, s)
  PROVE  t = u
<1> SUFFICES ASSUME t # u PROVE FALSE
  OBVIOUS
<1>1. /\ PayloadOf[p][t].slotCount = PayloadOf[p][u].slotCount
      /\ PayloadOf[p][t].slot # PayloadOf[p][u].slot
  BY DEF Collect!OneFanOut, Collect!Mine, Collect!Agent
<1>2. /\ PayloadOf[p][t].slotCount \in Nat \ {0}
      /\ PayloadOf[p][t].slot \in 0 .. PayloadOf[p][t].slotCount - 1
      /\ PayloadOf[p][u].slot \in 0 .. PayloadOf[p][u].slotCount - 1
  BY ServicesAssumption DEF Collect!SlotsNumbered
<1>3. CASE PayloadOf[p][t].slotCount = 1
  <2>1. PayloadOf[p][t].slot \in 0 .. 0 /\ PayloadOf[p][u].slot \in 0 .. 0
    BY <1>1, <1>2, <1>3
  <2> QED BY <1>1, <2>1
<1>4. CASE PayloadOf[p][t].slotCount # 1
  BY <1>1, <1>4 DEF Collect!Mine
<1> QED BY <1>3, <1>4

LEMMA CollectInitially == ASSUME NEW p \in Collecting, Collect(p)!Init PROVE CollectInv(p)
<1>1. /\ Collect(p)!Idle \in CollectRow /\ Collect(p)!Idle.pc = "idle"
      /\ Collect(p)!Idle.todo = {} /\ Collect(p)!Idle.claimed = {}
  BY DEF Collect!Idle, CollectRow, CollectPc
<1>2. cWork \in [CollectTask -> CollectRow] /\ \A t \in CollectTask : cWork[t] = Collect(p)!Idle
  BY <1>1 DEF Collect!Init
<1>3. /\ cObserved = <<>> /\ cFlagged = {} /\ cFaults = 0 /\ cDue = Source
      /\ cAnomalies = [o \in Sighting |-> 0]
      /\ cMemory = [k \in Baseline |-> 0] /\ cSamples = [k \in Baseline |-> 0]
  BY DEF Collect!Init, Collect!Observation, Collect!Key, Sighting, Baseline
<1>4. \A t \in CollectTask : RowFits(p, t, cWork[t])
  BY <1>1, <1>2 DEF RowFits, WithItem
<1>5. CollectShapes(p)
  <2>1. IsFiniteSet(cFlagged)
    BY <1>3, FS_EmptySet
  <2> QED BY <1>2, <1>3, <1>4, <2>1 DEF CollectShapes
<1>6. PriorIsLatest(p)
  BY <1>1, <1>2, <1>3 DEF PriorIsLatest, Collect!SamplesCounted, Collect!Key, Baseline
<1>7. OneReport
  <2>1. Owing = {} /\ Unreported = {}
    BY <1>1, <1>2, <1>3 DEF Owing, Unreported
  <2>2. Cardinality(Unreported) <= cFaults
    BY <1>3, <2>1, FS_EmptySet
  <2> QED BY <1>3, <2>1, <2>2 DEF OneReport
<1> QED BY <1>5, <1>6, <1>7 DEF CollectInv

\* A step of a task replaces its row by one that fits.
LEMMA CollectRows ==
  ASSUME NEW p \in Collecting, CollectShapes(p), NEW t \in CollectTask,
         NEW r, RowFits(p, t, r), Collect(p)!Becomes(t, r)
  PROVE  /\ cWork' \in [CollectTask -> CollectRow]
         /\ cWork'[t] = r
         /\ \A u \in CollectTask \ {t} : cWork'[u] = cWork[u]
         /\ \A u \in CollectTask : RowFits(p, u, cWork'[u])
<1>1. r \in CollectRow
  BY DEF RowFits
<1>2. /\ cWork' \in [CollectTask -> CollectRow]
      /\ cWork'[t] = r
      /\ \A u \in CollectTask \ {t} : cWork'[u] = cWork[u]
  BY <1>1 DEF CollectShapes, Collect!Becomes
<1>3. ASSUME NEW u \in CollectTask PROVE RowFits(p, u, cWork'[u])
  BY <1>2 DEF CollectShapes
<1> QED BY <1>2, <1>3

\* What others know of baselines stays what it is, unless the step is a write.
LEMMA PriorStays ==
  ASSUME NEW p \in Collecting, CollectShapes(p), PriorIsLatest(p), NEW t \in CollectTask,
         NEW r, RowFits(p, t, r), Collect(p)!Becomes(t, r),
         UNCHANGED <<cMemory, cSamples>>,
         r.pc = "write" => r.prior = cMemory[KeyOf(r)]
  PROVE  PriorIsLatest(p)'
<1>1. /\ cWork'[t] = r
      /\ \A u \in CollectTask \ {t} : cWork'[u] = cWork[u]
  BY CollectRows
<1>2. Collect(p)!SamplesCounted'
  BY DEF PriorIsLatest, Collect!SamplesCounted, Collect!OneFanOut, Collect!Agent
<1>3. ASSUME NEW u \in CollectTask, cWork'[u].pc = "write",
             Collect(p)!OneFanOut(SourceOf(cWork'[u]))
      PROVE  cWork'[u].prior = cMemory'[KeyOf(cWork'[u])]
  BY <1>1, <1>3 DEF PriorIsLatest
<1>4. \A s : Collect(p)!OneFanOut(s)' <=> Collect(p)!OneFanOut(s)
  BY DEF Collect!OneFanOut, Collect!Agent
<1> QED BY <1>2, <1>3, <1>4 DEF PriorIsLatest

\* A step that stores nothing, of a task that owes nothing before or after it.
LEMMA ReportStays ==
  ASSUME NEW p \in Collecting, CollectShapes(p), OneReport, NEW t \in CollectTask,
         NEW r, RowFits(p, t, r), Collect(p)!Becomes(t, r),
         UNCHANGED <<cObserved, cFlagged, cAnomalies, cFaults>>,
         t \notin Owing, ~(r.pc = "saveAnomaly" /\ r.stored)
  PROVE  OneReport'
<1>1. /\ cWork'[t] = r
      /\ \A u \in CollectTask \ {t} : cWork'[u] = cWork[u]
  BY CollectRows
<1>2. Owing' = Owing
  BY <1>1 DEF Owing
<1>3. \A u \in Owing : cWork'[u] = cWork[u]
  BY <1>1 DEF Owing
<1>4. Unreported' = Unreported
  BY <1>2, <1>3 DEF Unreported
<1> QED BY <1>2, <1>3, <1>4 DEF OneReport

\* Most steps are of this kind: they move a task on, and neither write nor store.
LEMMA CollectQuiet ==
  ASSUME NEW p \in Collecting, CollectInv(p), NEW t \in CollectTask,
         NEW r, RowFits(p, t, r), Collect(p)!Becomes(t, r),
         UNCHANGED <<cObserved, cFlagged, cAnomalies, cMemory, cSamples, cFaults>>,
         cDue' \subseteq cDue, t \notin Owing, r.pc # "saveAnomaly",
         r.pc = "write" => r.prior = cMemory[KeyOf(r)]
  PROVE  CollectInv(p)'
<1>1. CollectShapes(p)'
  BY CollectRows DEF CollectInv, CollectShapes
<1>2. PriorIsLatest(p)'
  BY PriorStays DEF CollectInv
<1>3. OneReport'
  BY ReportStays DEF CollectInv
<1> QED BY <1>1, <1>2, <1>3 DEF CollectInv

\* A row that only moves on still fits.
LEMMA RowMoves ==
  ASSUME NEW p \in Collecting, NEW t \in CollectTask, NEW e, RowFits(p, t, e), e.pc # "idle",
         NEW to \in CollectPc,
         to \in WithItem => e.pc \in WithItem,
         to \in {"read", "write"} => e.pc \in {"read", "write"}
  PROVE  RowFits(p, t, [e EXCEPT !.pc = to])
<1> DEFINE r == [e EXCEPT !.pc = to]
<1>1. /\ r \in CollectRow /\ r.pc = to
      /\ r.claimed = e.claimed /\ r.todo = e.todo /\ r.items = e.items /\ r.keys = e.keys
  BY DEF RowFits, CollectRow
<1> HIDE DEF r
<1>2. RowFits(p, t, r)
  BY <1>1 DEF RowFits
<1> QED BY <1>2 DEF r

\* NextItem: the next of the feed, or the mark.
LEMMA ItemDone ==
  ASSUME NEW p \in Collecting, CollectInv(p), NEW t \in CollectTask, t \notin Owing,
         cWork[t].pc \in {"item", "publish"}, Collect(p)!NextItem(t),
         UNCHANGED <<cObserved, cFlagged, cAnomalies, cMemory, cSamples, cDue, cFaults>>
  PROVE  CollectInv(p)'
<1> DEFINE e == cWork[t]
           rest == Tail(e.items)
           to == IF rest = <<>> THEN "markPolled" ELSE "item"
           r == [e EXCEPT !.items = rest, !.stored = FALSE, !.alarm = FALSE, !.pc = to]
<1>1. RowFits(p, t, e) /\ e.items \in Seq(Content) /\ e.items # <<>> /\ e.pc # "idle"
  BY DEF CollectInv, CollectShapes, RowFits, WithItem, CollectRow
<1>2. rest \in Seq(Content)
  BY <1>1
<1>3. Collect(p)!Becomes(t, r)
  BY DEF Collect!NextItem
<1>4. to \in CollectPc /\ to \in {"markPolled", "item"} /\ (to = "item" => rest # <<>>)
  BY DEF CollectPc
<1> HIDE DEF e, rest, to
<1>5. /\ r \in CollectRow /\ r.pc = to /\ r.items = rest
      /\ r.claimed = e.claimed /\ r.todo = e.todo
  BY <1>1, <1>2, <1>4 DEF RowFits, CollectRow
<1> HIDE DEF r
<1>6. RowFits(p, t, r)
  BY <1>1, <1>4, <1>5 DEF RowFits, WithItem
<1> QED BY <1>3, <1>4, <1>5, <1>6, CollectQuiet

\* The rows a sweep starts with, a reading leaves and a comparison leaves.
LEMMA Swept ==
  ASSUME NEW p \in Collecting, NEW t \in CollectTask,
         NEW claimed \in SUBSET Source, NEW todo \in SUBSET claimed, todo # {},
         \A s \in claimed : Collect(p)!Mine(t, s)
  PROVE  LET r == Collect(p)!Sweep(claimed, todo) IN RowFits(p, t, r) /\ r.pc = "fetch"
<1> DEFINE idle == Collect(p)!Idle
           r == [idle EXCEPT !.pc = "fetch", !.claimed = claimed, !.todo = todo]
<1>1. idle \in CollectRow
  BY DEF Collect!Idle, CollectRow, CollectPc
<1>2. Collect(p)!Sweep(claimed, todo) = r
  BY DEF Collect!Sweep
<1> HIDE DEF idle
<1>3. r \in CollectRow /\ r.pc = "fetch" /\ r.claimed = claimed /\ r.todo = todo
  BY <1>1 DEF CollectRow, CollectPc
<1> HIDE DEF r
<1>4. RowFits(p, t, r)
  BY <1>3 DEF RowFits, WithItem
<1> QED BY <1>2, <1>3, <1>4

LEMMA Held ==
  ASSUME NEW p \in Collecting, NEW t \in CollectTask, RowFits(p, t, cWork[t]),
         cWork[t].pc = "fetch", NEW items \in Seq(Content),
         NEW to \in {"markPolled", "item", "latest"}, to # "markPolled" => items # <<>>
  PROVE  LET r == Collect(p)!Holding(t, items, to) IN RowFits(p, t, r) /\ r.pc = to
<1> DEFINE e == cWork[t]
           r == [e EXCEPT !.items = items, !.pc = to]
<1>1. Collect(p)!Holding(t, items, to) = r
  BY DEF Collect!Holding
<1>2. /\ r \in CollectRow /\ r.pc = to /\ r.items = items
      /\ r.claimed = e.claimed /\ r.todo = e.todo
  BY DEF RowFits, CollectRow, CollectPc
<1> HIDE DEF r
<1>3. RowFits(p, t, r)
  BY <1>2 DEF RowFits, WithItem
<1> QED BY <1>1, <1>2, <1>3

LEMMA Compared ==
  ASSUME NEW p \in Collecting, NEW t \in CollectTask, RowFits(p, t, cWork[t]),
         cWork[t].pc = "latest", NEW c \in Content \cup {NoContent}
  PROVE  LET r == Collect(p)!ComparedWith(t, c) IN RowFits(p, t, r) /\ r.pc = "save"
<1> DEFINE e == cWork[t]
           r == [e EXCEPT !.pc = "save", !.previous = c]
<1>1. Collect(p)!ComparedWith(t, c) = r
  BY DEF Collect!ComparedWith
<1>2. /\ r \in CollectRow /\ r.pc = "save" /\ r.items = e.items
      /\ r.claimed = e.claimed /\ r.todo = e.todo
  BY DEF RowFits, CollectRow, CollectPc
<1> HIDE DEF r
<1>3. RowFits(p, t, r)
  BY <1>2 DEF RowFits, WithItem
<1> QED BY <1>1, <1>2, <1>3

\* What a task that does not owe an anomaly leaves alone in most of its steps.
StoreStands == UNCHANGED <<cObserved, cFlagged, cAnomalies, cMemory, cSamples, cFaults>>

LEMMA QuietClaim ==
  ASSUME NEW p \in Collecting, CollectInv(p), NEW t \in CollectTask, Collect(p)!Claim(t)
  PROVE  CollectInv(p)'
<1>1. cWork[t].pc = "idle" /\ t \notin Owing /\ StoreStands /\ cDue' = cDue
  BY DEF Collect!Claim, Collect!At, Collect!store, Collect!remembered, Owing, StoreStands
<1>2. PICK todo \in SUBSET {s \in cDue : Collect(p)!Mine(t, s)} :
        todo # {} /\ Collect(p)!Becomes(t, Collect(p)!Sweep(todo, todo))
  BY DEF Collect!Claim
<1>3. todo \in SUBSET Source /\ \A s \in todo : Collect(p)!Mine(t, s)
  BY <1>2 DEF CollectInv, CollectShapes
<1> DEFINE r == Collect(p)!Sweep(todo, todo)
<1>4. RowFits(p, t, r) /\ r.pc = "fetch"
  BY <1>2, <1>3, Swept
<1> HIDE DEF r
<1>5. Collect(p)!Becomes(t, r)
  BY <1>2 DEF r
<1> QED BY <1>1, <1>4, <1>5, CollectQuiet DEF StoreStands

LEMMA QuietFetch ==
  ASSUME NEW p \in Collecting, CollectInv(p), NEW t \in CollectTask, Collect(p)!Fetch(t)
  PROVE  CollectInv(p)'
<1>1. cWork[t].pc = "fetch" /\ t \notin Owing /\ StoreStands /\ cDue' = cDue
  BY DEF Collect!Fetch, Collect!At, Collect!store, Collect!remembered, Owing, StoreStands
<1>2. RowFits(p, t, cWork[t])
  BY DEF CollectInv, CollectShapes
<1>3. ASSUME NEW items \in Seq(Content), NEW to \in {"markPolled", "item", "latest"},
             to # "markPolled" => items # <<>>,
             Collect(p)!Becomes(t, Collect(p)!Holding(t, items, to))
      PROVE  CollectInv(p)'
  <2> DEFINE r == Collect(p)!Holding(t, items, to)
  <2>1. RowFits(p, t, r) /\ r.pc = to
    BY <1>1, <1>2, <1>3, Held
  <2>2. Collect(p)!Becomes(t, r)
    BY <1>3
  <2> HIDE DEF r
  <2> QED BY <1>1, <2>1, <2>2, CollectQuiet DEF StoreStands
<1>4. ASSUME NEW items \in Feed,
             Collect(p)!Becomes(t, Collect(p)!Holding(t, items,
                                     IF items = <<>> THEN "markPolled" ELSE "item"))
      PROVE  CollectInv(p)'
  <2>1. items \in Seq(Content)
    BY ServicesAssumption
  <2> DEFINE to == IF items = <<>> THEN "markPolled" ELSE "item"
  <2>2. to \in {"markPolled", "item", "latest"} /\ (to # "markPolled" => items # <<>>)
    OBVIOUS
  <2>3. Collect(p)!Becomes(t, Collect(p)!Holding(t, items, to))
    BY <1>4
  <2> HIDE DEF to
  <2> QED BY <1>3, <2>1, <2>2, <2>3
<1>5. ASSUME NEW c \in Content,
             Collect(p)!Becomes(t, Collect(p)!Holding(t, <<c>>, "latest"))
      PROVE  CollectInv(p)'
  <2>1. <<c>> \in Seq(Content) /\ <<c>> # <<>>
    OBVIOUS
  <2> DEFINE items == <<c>>
  <2>2. Collect(p)!Becomes(t, Collect(p)!Holding(t, items, "latest"))
    BY <1>5
  <2>3. items \in Seq(Content) /\ items # <<>>
    BY <2>1
  <2> HIDE DEF items
  <2> QED BY <1>3, <2>2, <2>3
<1>6. CASE Collect(p)!GoTo(t, "markFailed")
  <2>1. RowFits(p, t, [cWork[t] EXCEPT !.pc = "markFailed"])
    BY <1>1, <1>2, RowMoves DEF CollectPc, WithItem
  <2>2. [cWork[t] EXCEPT !.pc = "markFailed"].pc = "markFailed"
    BY <1>2 DEF RowFits, CollectRow
  <2> QED BY <1>1, <1>6, <2>1, <2>2, CollectQuiet DEF Collect!GoTo, StoreStands
<1> QED BY <1>4, <1>5, <1>6 DEF Collect!Fetch

LEMMA QuietItem ==
  ASSUME NEW p \in Collecting, CollectInv(p), NEW t \in CollectTask,
         Collect(p)!StartItem(t) \/ Collect(p)!Publish(t)
  PROVE  CollectInv(p)'
<1>1. cWork[t].pc \in {"item", "publish"} /\ t \notin Owing /\ StoreStands /\ cDue' = cDue
  BY DEF Collect!StartItem, Collect!Publish, Collect!At, Collect!store, Collect!remembered,
         Owing, StoreStands
<1> DEFINE e == cWork[t]
           keys == Collect(p)!KeysOf(t)
           r == [e EXCEPT !.pc = "read", !.keys = keys]
<1>2. CASE Collect(p)!NextItem(t)
  BY <1>1, <1>2, ItemDone DEF StoreStands
<1>3. CASE e.pc = "item" /\ Collect(p)!Becomes(t, r)
  <2>1. keys \in Seq({"velocity", "hours", "wpm"}) /\ keys # <<>>
    <3>1. CASE Collect(p)!Agent(t) = "aria"
      <4>1. keys = <<"velocity", "hours">>
        BY <3>1 DEF Collect!KeysOf
      <4> QED BY <4>1
    <3>2. CASE Collect(p)!Agent(t) # "aria"
      <4>1. keys = <<"wpm">>
        BY <3>2 DEF Collect!KeysOf
      <4> QED BY <4>1
    <3> QED BY <3>1, <3>2
  <2>2. RowFits(p, t, e) /\ e \in CollectRow
    BY DEF CollectInv, CollectShapes, RowFits
  <2>3. Collect(p)!Becomes(t, r)
    BY <1>3
  <2> HIDE DEF keys, e
  <2>4. /\ r \in CollectRow /\ r.pc = "read" /\ r.keys = keys
        /\ r.claimed = e.claimed /\ r.todo = e.todo /\ r.items = e.items
    BY <2>1, <2>2 DEF CollectRow, CollectPc
  <2> HIDE DEF r
  <2>5. RowFits(p, t, r)
    BY <1>3, <2>1, <2>2, <2>4 DEF RowFits, WithItem
  <2> QED BY <1>1, <2>3, <2>4, <2>5, CollectQuiet DEF StoreStands
<1>4. Collect(p)!NextItem(t) \/ (e.pc = "item" /\ Collect(p)!Becomes(t, r))
  BY DEF Collect!StartItem, Collect!Publish, Collect!At
<1> QED BY <1>2, <1>3, <1>4

LEMMA QuietRead ==
  ASSUME NEW p \in Collecting, CollectInv(p), NEW t \in CollectTask,
         Collect(p)!ReadMemory(t) \/ Collect(p)!ReadLatest(t)
  PROVE  CollectInv(p)'
<1>1. /\ cWork[t].pc \in {"read", "latest"} /\ t \notin Owing /\ StoreStands /\ cDue' = cDue
      /\ RowFits(p, t, cWork[t]) /\ cWork[t] \in CollectRow
  BY DEF Collect!ReadMemory, Collect!ReadLatest, Collect!At, Collect!store, Collect!remembered,
         Owing, StoreStands, CollectInv, CollectShapes, RowFits
<1>2. CASE Collect(p)!ReadMemory(t)
  <2> DEFINE e == cWork[t]
             prior == cMemory[KeyOf(e)]
             r == [e EXCEPT !.pc = "write", !.prior = prior]
  <2>1. e.pc = "read" /\ Collect(p)!Becomes(t, r)
    BY <1>2 DEF Collect!ReadMemory, Collect!At, Collect!Current, KeyOf, SourceOf
  <2>2. prior \in Nat
    <3>1. KeyOf(e) \in Baseline
      BY <1>1, <2>1, RowItems
    <3> QED BY <3>1 DEF CollectInv, CollectShapes
  <2>3. prior = cMemory[KeyOf(e)] /\ e = cWork[t]
    OBVIOUS
  <2> HIDE DEF prior, e
  <2>4. /\ r \in CollectRow /\ r.pc = "write" /\ r.prior = prior /\ r.keys = e.keys
        /\ r.claimed = e.claimed /\ r.todo = e.todo /\ r.items = e.items
    BY <1>1, <2>2, <2>3 DEF CollectRow, CollectPc
  <2> HIDE DEF r
  <2>5. RowFits(p, t, r)
    BY <1>1, <2>1, <2>3, <2>4 DEF RowFits, WithItem
  <2>6. r.prior = cMemory[KeyOf(r)]
    BY <2>3, <2>4 DEF KeyOf, SourceOf
  <2> QED BY <1>1, <2>1, <2>4, <2>5, <2>6, CollectQuiet DEF StoreStands
<1>3. CASE Collect(p)!ReadLatest(t)
  <2>1. cWork[t].pc = "latest"
    BY <1>3 DEF Collect!ReadLatest, Collect!At
  <2>2. PICK c \in Content \cup {NoContent} :
          Collect(p)!Becomes(t, Collect(p)!ComparedWith(t, c))
    BY <1>3 DEF Collect!ReadLatest
  <2> DEFINE r == Collect(p)!ComparedWith(t, c)
  <2>3. RowFits(p, t, r) /\ r.pc = "save"
    BY <1>1, <2>1, Compared
  <2>4. Collect(p)!Becomes(t, r)
    BY <2>2
  <2> HIDE DEF r
  <2> QED BY <1>1, <2>3, <2>4, CollectQuiet DEF StoreStands
<1> QED BY <1>2, <1>3

LEMMA QuietMark ==
  ASSUME NEW p \in Collecting, CollectInv(p), NEW t \in CollectTask, Collect(p)!MarkPolled(t)
  PROVE  CollectInv(p)'
<1>1. /\ cWork[t].pc \in {"markPolled", "markFailed"} /\ t \notin Owing /\ StoreStands
      /\ cDue' \subseteq cDue
  BY DEF Collect!MarkPolled, Collect!store, Collect!remembered, Owing, StoreStands
<1>2. CASE Collect(p)!Becomes(t, Collect(p)!Idle)
  <2> DEFINE r == Collect(p)!Idle
  <2>1. r \in CollectRow /\ r.pc = "idle" /\ r.todo = {} /\ r.claimed = {}
    BY DEF Collect!Idle, CollectRow, CollectPc
  <2>2. Collect(p)!Becomes(t, r)
    BY <1>2
  <2> HIDE DEF r
  <2>3. RowFits(p, t, r)
    BY <2>1 DEF RowFits, WithItem
  <2> QED BY <1>1, <2>1, <2>2, <2>3, CollectQuiet DEF StoreStands
<1> DEFINE claimed == cWork[t].claimed
<1>3. ASSUME NEW todo \in SUBSET claimed, todo # {},
             Collect(p)!Becomes(t, Collect(p)!Sweep(claimed, todo))
      PROVE  CollectInv(p)'
  <2>1. claimed \in SUBSET Source /\ \A s \in claimed : Collect(p)!Mine(t, s)
    BY DEF CollectInv, CollectShapes, RowFits, CollectRow
  <2> DEFINE r == Collect(p)!Sweep(claimed, todo)
  <2>2. RowFits(p, t, r) /\ r.pc = "fetch"
    BY <1>3, <2>1, Swept
  <2>3. Collect(p)!Becomes(t, r)
    BY <1>3
  <2> HIDE DEF r
  <2> QED BY <1>1, <2>2, <2>3, CollectQuiet DEF StoreStands
<1>4. cWork[t].todo \subseteq claimed /\ cWork[t].todo # {}
  BY <1>1 DEF CollectInv, CollectShapes, RowFits
<1> QED BY <1>2, <1>3, <1>4 DEF Collect!MarkPolled

\* A write adds one sample to what is known: no other task of the fan-out was between its
\* read and its write.
LEMMA CollectWrite ==
  ASSUME NEW p \in Collecting, CollectInv(p), NEW t \in CollectTask, Collect(p)!WriteMemory(t)
  PROVE  CollectInv(p)'
<1> DEFINE e == cWork[t]
           k == KeyOf(e)
           rest == Tail(e.keys)
           to == IF rest = <<>> THEN "save" ELSE "read"
           r == [e EXCEPT !.keys = rest, !.prior = 0, !.pc = to]
<1>1. /\ e.pc = "write" /\ t \notin Owing /\ RowFits(p, t, e)
      /\ UNCHANGED <<cObserved, cFlagged, cAnomalies, cDue, cFaults>>
  BY DEF Collect!WriteMemory, Collect!At, Collect!store, Owing, CollectInv, CollectShapes
<1>2. /\ cMemory' = [cMemory EXCEPT ![k] = e.prior + 1]
      /\ cSamples' = [cSamples EXCEPT ![k] = @ + 1]
      /\ Collect(p)!Becomes(t, r)
  BY DEF Collect!WriteMemory, Collect!Current, KeyOf, SourceOf
<1>3. /\ k \in Baseline /\ SourceOf(e) \in Source /\ Collect(p)!Mine(t, SourceOf(e))
      /\ k[1] = SourceOf(e)
  BY <1>1, RowItems DEF KeyOf
<1>4. e.prior \in Nat /\ rest \in Seq({"velocity", "hours", "wpm"})
  BY <1>1 DEF RowFits, CollectRow
<1>5. to \in {"save", "read"} /\ (to = "read" => rest # <<>>) /\ e.pc = "write"
  BY <1>1
<1>6. e = cWork[t] /\ k = KeyOf(e)
  OBVIOUS
<1> HIDE DEF e, rest, to, k
<1>7. /\ r \in CollectRow /\ r.pc = to /\ r.keys = rest
      /\ r.claimed = e.claimed /\ r.todo = e.todo /\ r.items = e.items
  BY <1>1, <1>4, <1>5 DEF RowFits, CollectRow, CollectPc
<1> HIDE DEF r
<1>8. RowFits(p, t, r)
  BY <1>1, <1>5, <1>7 DEF RowFits, WithItem
<1>9. /\ cWork' \in [CollectTask -> CollectRow] /\ cWork'[t] = r
      /\ \A u \in CollectTask \ {t} : cWork'[u] = cWork[u]
      /\ \A u \in CollectTask : RowFits(p, u, cWork'[u])
  BY <1>2, <1>8, CollectRows DEF CollectInv
<1>10. /\ cMemory \in [Baseline -> Nat] /\ cSamples \in [Baseline -> Nat]
  BY DEF CollectInv, CollectShapes
<1>11. /\ cMemory' \in [Baseline -> Nat] /\ cSamples' \in [Baseline -> Nat]
       /\ cMemory'[k] = e.prior + 1 /\ cSamples'[k] = cSamples[k] + 1
       /\ \A j \in Baseline : j # k => cMemory'[j] = cMemory[j] /\ cSamples'[j] = cSamples[j]
  BY <1>2, <1>3, <1>4, <1>10
<1>12. CollectShapes(p)'
  BY <1>1, <1>9, <1>11 DEF CollectInv, CollectShapes
<1>13. \A s : Collect(p)!OneFanOut(s)' <=> Collect(p)!OneFanOut(s)
  BY DEF Collect!OneFanOut, Collect!Agent
<1>14. \A s \in Source : Collect(p)!OneFanOut(s) =>
         \A j \in Baseline : j[1] = s => cMemory'[j] = cSamples'[j]
  <2> SUFFICES ASSUME NEW s \in Source, Collect(p)!OneFanOut(s), NEW j \in Baseline, j[1] = s
               PROVE  cMemory'[j] = cSamples'[j]
    OBVIOUS
  <2>1. cMemory[j] = cSamples[j]
    BY DEF CollectInv, PriorIsLatest, Collect!SamplesCounted, Collect!Key, Baseline
  <2>2. CASE j # k
    BY <1>11, <2>1, <2>2
  <2>3. CASE j = k
    <3>1. e.prior = cMemory[k]
      BY <1>1, <1>3, <1>6, <2>3 DEF CollectInv, PriorIsLatest
    <3> QED BY <1>11, <2>1, <2>3, <3>1
  <2> QED BY <2>2, <2>3
<1>15. ASSUME NEW u \in CollectTask, cWork'[u].pc = "write",
              Collect(p)!OneFanOut(SourceOf(cWork'[u]))
       PROVE  cWork'[u].prior = cMemory'[KeyOf(cWork'[u])]
  <2>1. u # t /\ cWork'[u] = cWork[u]
    BY <1>5, <1>7, <1>9, <1>15
  <2>2. /\ cWork[u].prior = cMemory[KeyOf(cWork[u])]
        /\ KeyOf(cWork[u]) \in Baseline /\ SourceOf(cWork[u]) \in Source
        /\ Collect(p)!Mine(u, SourceOf(cWork[u]))
    BY <1>15, <2>1, RowItems DEF CollectInv, CollectShapes, PriorIsLatest
  <2>3. KeyOf(cWork[u]) # k
    <3> SUFFICES ASSUME KeyOf(cWork[u]) = k PROVE FALSE
      OBVIOUS
    <3>1. SourceOf(cWork[u]) = SourceOf(e)
      BY <1>6 DEF KeyOf
    <3> QED BY <1>3, <1>15, <2>1, <2>2, <3>1, ShardsApart
  <2> QED BY <1>11, <2>1, <2>2, <2>3
<1>16. PriorIsLatest(p)'
  BY <1>13, <1>14, <1>15 DEF PriorIsLatest, Collect!SamplesCounted, Collect!Key, Baseline
<1>17. OneReport'
  BY <1>1, <1>2, <1>5, <1>7, <1>8, ReportStays DEF CollectInv
<1> QED BY <1>12, <1>16, <1>17 DEF CollectInv

\* An observation that is new was flagged by nobody before; whoever flags it owes its anomaly.
LEMMA CollectSave ==
  ASSUME NEW p \in Collecting, CollectInv(p), NEW t \in CollectTask,
         Collect(p)!SaveObservation(t)
  PROVE  CollectInv(p)'
<1> DEFINE e == cWork[t]
           o == ItemOf(e)
<1>1. /\ e.pc = "save" /\ t \notin Owing /\ RowFits(p, t, e)
      /\ UNCHANGED <<cAnomalies, cMemory, cSamples, cDue, cFaults>>
  BY DEF Collect!SaveObservation, Collect!At, Collect!remembered, Owing, CollectInv,
         CollectShapes
<1>2. Collect(p)!Item(t) = o /\ (Collect(p)!Observed(o) <=> Seen(o, cObserved))
  BY DEF Collect!Item, Collect!Current, ItemOf, SourceOf, Collect!Observed, Seen
<1> DEFINE fresh == ~Seen(o, cObserved)
<1>3. PICK alarm \in BOOLEAN :
        /\ IF fresh
           THEN /\ cObserved' = Append(cObserved, o)
                /\ cFlagged' = IF alarm THEN cFlagged \cup {o} ELSE cFlagged
           ELSE UNCHANGED <<cObserved, cFlagged>>
        /\ Collect(p)!Becomes(t, Collect(p)!Judged(t, alarm, fresh))
  <2>1. Collect(p)!Verdict(t) \subseteq BOOLEAN
    BY DEF Collect!Verdict
  <2> QED BY <1>2, <2>1 DEF Collect!SaveObservation
<1> DEFINE to == IF alarm /\ (fresh \/ Collect(p)!Agent(t) # "sentinel")
                 THEN "saveAnomaly" ELSE "publish"
           r == [e EXCEPT !.alarm = alarm, !.stored = fresh, !.pc = to]
<1>4. Collect(p)!Becomes(t, r)
  BY <1>3 DEF Collect!Judged
<1>5. fresh \in BOOLEAN /\ to \in {"saveAnomaly", "publish"} /\ (fresh => (to = "saveAnomaly" <=> alarm))
  OBVIOUS
<1>6. e = cWork[t] /\ o = ItemOf(e) /\ (fresh <=> ~Seen(o, cObserved))
  OBVIOUS
<1>7. o \in Sighting
  BY <1>1, RowItems DEF WithItem
<1> HIDE DEF to, e, o, fresh
<1>8. /\ r \in CollectRow /\ r.pc = to /\ r.stored = fresh
      /\ r.claimed = e.claimed /\ r.todo = e.todo /\ r.items = e.items
  BY <1>1, <1>5 DEF RowFits, CollectRow, CollectPc
<1> HIDE DEF r
<1>9. RowFits(p, t, r) /\ ItemOf(r) = o
  BY <1>1, <1>5, <1>6, <1>8 DEF RowFits, WithItem, ItemOf, SourceOf
<1>10. PriorIsLatest(p)'
  BY <1>1, <1>4, <1>5, <1>8, <1>9, PriorStays DEF CollectInv
<1>11. /\ cWork' \in [CollectTask -> CollectRow] /\ cWork'[t] = r
       /\ \A u \in CollectTask \ {t} : cWork'[u] = cWork[u]
       /\ \A u \in CollectTask : RowFits(p, u, cWork'[u])
  BY <1>4, <1>9, CollectRows DEF CollectInv
<1>12. CASE ~fresh
  <2>1. UNCHANGED <<cObserved, cFlagged>>
    BY <1>3, <1>12
  <2>2. OneReport'
    BY <1>1, <1>4, <1>8, <1>9, <1>12, <2>1, ReportStays DEF CollectInv
  <2>3. CollectShapes(p)'
    BY <1>1, <1>11, <2>1 DEF CollectInv, CollectShapes
  <2> QED BY <1>10, <2>2, <2>3 DEF CollectInv
<1>13. CASE fresh
  <2>1. /\ cObserved' = Append(cObserved, o)
        /\ cFlagged' = IF alarm THEN cFlagged \cup {o} ELSE cFlagged
    BY <1>3, <1>13
  <2>2. /\ cObserved \in Seq(Sighting) /\ cFlagged \subseteq Sighting /\ IsFiniteSet(cFlagged)
        /\ cAnomalies \in [Sighting -> Nat] /\ cFaults \in Nat
        /\ OneReport
    BY DEF CollectInv, CollectShapes
  <2>3. cObserved' \in Seq(Sighting)
    BY <1>7, <2>1, <2>2
  <2>4. /\ Seen(o, cObserved')
        /\ \A q : Seen(q, cObserved) => Seen(q, cObserved')
    <3>1. /\ Len(cObserved') = Len(cObserved) + 1 /\ cObserved'[Len(cObserved) + 1] = o
          /\ \A i \in DOMAIN cObserved : i \in DOMAIN cObserved' /\ cObserved'[i] = cObserved[i]
      BY <1>7, <2>1, <2>2
    <3>2. Len(cObserved) + 1 \in DOMAIN cObserved'
      BY <2>2, <2>3, <3>1
    <3> QED BY <3>1, <3>2 DEF Seen
  <2>5. o \notin cFlagged
    BY <1>6, <1>13, <2>2 DEF OneReport
  <2>6. cAnomalies[o] = 0
    BY <1>7, <2>2, <2>5 DEF OneReport
  <2>7. IsFiniteSet(cFlagged')
    BY <2>1, <2>2, FS_AddElement
  <2>8. CollectShapes(p)'
    BY <1>1, <1>7, <1>11, <2>1, <2>2, <2>3, <2>7 DEF CollectInv, CollectShapes
  <2>9. CASE alarm
    <3>1. cFlagged' = cFlagged \cup {o} /\ r.pc = "saveAnomaly" /\ r.stored
      BY <1>5, <1>8, <1>13, <2>1, <2>9
    <3>2. Owing' = Owing \cup {t}
      BY <1>11, <3>1 DEF Owing
    <3>3. \A u \in Owing : /\ cWork'[u] = cWork[u] /\ ItemOf(cWork[u]) # o /\ u # t
      BY <1>1, <1>11, <2>2, <2>5 DEF OneReport, Owing
    <3>4. Unreported' = Unreported
      <4>1. \A q : q \in Unreported' <=> q \in Unreported
        BY <1>1, <1>9, <1>11, <2>5, <3>1, <3>2, <3>3 DEF Unreported
      <4> QED BY <4>1
    <3>5. /\ \A q \in cFlagged' : Seen(q, cObserved')
          /\ \A q \in Sighting : cAnomalies'[q] <= IF q \in cFlagged' THEN 1 ELSE 0
      BY <1>1, <2>2, <2>4, <2>6, <3>1 DEF OneReport
    <3>6. \A u \in Owing' : /\ ItemOf(cWork'[u]) \in cFlagged'
                            /\ cAnomalies'[ItemOf(cWork'[u])] = 0
      BY <1>1, <1>9, <1>11, <2>2, <2>6, <3>1, <3>2, <3>3 DEF OneReport
    <3>7. \A u, v \in Owing' : ItemOf(cWork'[u]) = ItemOf(cWork'[v]) => u = v
      BY <1>9, <1>11, <2>2, <3>2, <3>3 DEF OneReport
    <3>8. Cardinality(Unreported') <= cFaults'
      BY <1>1, <2>2, <3>4 DEF OneReport
    <3>9. OneReport'
      BY <3>5, <3>6, <3>7, <3>8 DEF OneReport
    <3> QED BY <1>10, <2>8, <3>9 DEF CollectInv
  <2>10. CASE ~alarm
    <3>1. cFlagged' = cFlagged /\ r.pc = "publish"
      BY <1>5, <1>8, <1>13, <2>1, <2>10
    <3>2. Owing' = Owing
      BY <1>1, <1>11, <3>1 DEF Owing
    <3>3. \A u \in Owing : cWork'[u] = cWork[u]
      BY <1>1, <1>11 DEF Owing
    <3>4. Unreported' = Unreported
      BY <1>1, <3>1, <3>2, <3>3 DEF Unreported
    <3>5. OneReport'
      BY <1>1, <2>2, <2>4, <3>1, <3>2, <3>3, <3>4 DEF OneReport
    <3> QED BY <1>10, <2>8, <3>5 DEF CollectInv
  <2> QED BY <2>9, <2>10
<1> QED BY <1>12, <1>13

\* Whoever owes an anomaly saves it, once; without an observation the source is failed.
LEMMA CollectReport ==
  ASSUME NEW p \in Collecting, CollectInv(p), NEW t \in CollectTask, Collect(p)!SaveAnomaly(t)
  PROVE  CollectInv(p)'
<1> DEFINE e == cWork[t]
           o == ItemOf(e)
<1>1. /\ e.pc = "saveAnomaly" /\ RowFits(p, t, e) /\ e \in CollectRow
      /\ UNCHANGED <<cObserved, cFlagged, cMemory, cSamples, cDue, cFaults>>
  BY DEF Collect!SaveAnomaly, Collect!At, Collect!remembered, CollectInv, CollectShapes, RowFits
<1>2. Collect(p)!Item(t) = o
  BY DEF Collect!Item, Collect!Current, ItemOf, SourceOf
<1>3. ASSUME NEW to \in {"publish", "markFailed"}
      PROVE  LET r == [e EXCEPT !.pc = to] IN RowFits(p, t, r) /\ r.pc = to
  <2>1. RowFits(p, t, [e EXCEPT !.pc = to])
    BY <1>1, RowMoves DEF CollectPc, WithItem
  <2>2. [e EXCEPT !.pc = to].pc = to
    BY <1>1 DEF CollectRow
  <2> QED BY <2>1, <2>2
<1>4. CASE ~e.stored
  <2> DEFINE r == [e EXCEPT !.pc = "markFailed"]
  <2>1. cAnomalies' = cAnomalies /\ Collect(p)!Becomes(t, r)
    BY <1>4 DEF Collect!SaveAnomaly, Collect!GoTo
  <2>2. t \notin Owing
    BY <1>4 DEF Owing
  <2>3. RowFits(p, t, r) /\ r.pc = "markFailed"
    BY <1>3
  <2> HIDE DEF r
  <2> QED BY <1>1, <2>1, <2>2, <2>3, CollectQuiet
<1>5. CASE e.stored
  <2> DEFINE r == [e EXCEPT !.pc = "publish"]
  <2>1. /\ cAnomalies' = [cAnomalies EXCEPT ![o] = @ + 1] /\ Collect(p)!Becomes(t, r)
    BY <1>2, <1>5 DEF Collect!SaveAnomaly, Collect!GoTo
  <2>2. t \in Owing
    BY <1>1, <1>5 DEF Owing
  <2>3. RowFits(p, t, r) /\ r.pc = "publish"
    BY <1>3
  <2>4. o \in Sighting
    BY <1>1, RowItems DEF WithItem
  <2>5. o = ItemOf(cWork[t])
    OBVIOUS
  <2> HIDE DEF r, o, e
  <2>6. /\ cWork' \in [CollectTask -> CollectRow] /\ cWork'[t] = r
        /\ \A u \in CollectTask \ {t} : cWork'[u] = cWork[u]
        /\ \A u \in CollectTask : RowFits(p, u, cWork'[u])
    BY <2>1, <2>3, CollectRows DEF CollectInv
  <2>7. PriorIsLatest(p)'
    BY <1>1, <2>1, <2>3, PriorStays DEF CollectInv
  <2>8. /\ cAnomalies \in [Sighting -> Nat] /\ cFaults \in Nat /\ OneReport
        /\ cFlagged \subseteq Sighting
    BY DEF CollectInv, CollectShapes
  <2>9. o \in cFlagged /\ cAnomalies[o] = 0
    BY <2>2, <2>5, <2>8 DEF OneReport
  <2>10. /\ cAnomalies' \in [Sighting -> Nat] /\ cAnomalies'[o] = 1
         /\ \A q \in Sighting : q # o => cAnomalies'[q] = cAnomalies[q]
    BY <2>1, <2>4, <2>8, <2>9
  <2>11. CollectShapes(p)'
    BY <1>1, <2>6, <2>10 DEF CollectInv, CollectShapes
  <2>12. Owing' = Owing \ {t}
    BY <2>2, <2>3, <2>6 DEF Owing
  <2>13. \A u \in Owing \ {t} :
           cWork'[u] = cWork[u] /\ ItemOf(cWork[u]) # o /\ ItemOf(cWork[u]) \in Sighting
    BY <2>2, <2>5, <2>6, <2>8 DEF OneReport, Owing
  <2>14. Unreported' = Unreported
    <3>1. ASSUME NEW q PROVE q \in Unreported' <=> q \in Unreported
      <4>1. CASE q = o
        BY <1>1, <2>2, <2>5, <2>10, <4>1 DEF Unreported
      <4>2. CASE q # o /\ q \in cFlagged
        <5>1. cAnomalies'[q] = cAnomalies[q]
          BY <2>8, <2>10, <4>2
        <5> QED BY <1>1, <2>2, <2>5, <2>12, <2>13, <4>2, <5>1 DEF Unreported
      <4>3. CASE q \notin cFlagged
        BY <1>1, <4>3 DEF Unreported
      <4> QED BY <4>1, <4>2, <4>3
    <3> QED BY <3>1
  <2>15. /\ \A q \in cFlagged' : Seen(q, cObserved')
         /\ \A q \in Sighting : cAnomalies'[q] <= IF q \in cFlagged' THEN 1 ELSE 0
    BY <1>1, <2>8, <2>9, <2>10 DEF OneReport
  <2>16. \A u \in Owing' : /\ ItemOf(cWork'[u]) \in cFlagged'
                           /\ cAnomalies'[ItemOf(cWork'[u])] = 0
    BY <1>1, <2>8, <2>10, <2>12, <2>13 DEF OneReport
  <2>17. \A u, v \in Owing' : ItemOf(cWork'[u]) = ItemOf(cWork'[v]) => u = v
    BY <2>8, <2>12, <2>13 DEF OneReport
  <2>18. Cardinality(Unreported') <= cFaults'
    BY <1>1, <2>8, <2>14 DEF OneReport
  <2>19. OneReport'
    BY <2>15, <2>16, <2>17, <2>18 DEF OneReport
  <2> QED BY <2>7, <2>11, <2>19 DEF CollectInv
<1> QED BY <1>4, <1>5

\* A task that is dropped may owe one anomaly: it is lost, and so is one failure more.
LEMMA CollectDropped ==
  ASSUME NEW p \in Collecting, CollectInv(p), NEW t \in CollectTask,
         NEW r, RowFits(p, t, r), r.pc \in {"idle", "markFailed"}, Collect(p)!Becomes(t, r),
         UNCHANGED <<cObserved, cFlagged, cAnomalies, cMemory, cSamples, cDue>>,
         cFaults' = cFaults + 1
  PROVE  CollectInv(p)'
<1>1. /\ cWork' \in [CollectTask -> CollectRow] /\ cWork'[t] = r
      /\ \A u \in CollectTask \ {t} : cWork'[u] = cWork[u]
      /\ \A u \in CollectTask : RowFits(p, u, cWork'[u])
  BY CollectRows DEF CollectInv
<1>2. CollectShapes(p)'
  BY <1>1 DEF CollectInv, CollectShapes
<1>3. PriorIsLatest(p)'
  BY PriorStays DEF CollectInv
<1>4. Owing' = Owing \ {t} /\ \A u \in Owing \ {t} : cWork'[u] = cWork[u]
  BY <1>1 DEF Owing
<1> DEFINE o == ItemOf(cWork[t])
<1>5. Unreported' \subseteq Unreported \cup {o}
  BY <1>4 DEF Unreported
<1>6. Cardinality(Unreported') <= cFaults'
  <2>1. IsFiniteSet(Unreported) /\ cFaults \in Nat /\ Cardinality(Unreported) <= cFaults
    <3>1. Unreported \subseteq cFlagged
      BY DEF Unreported
    <3> QED BY <3>1, FS_Subset DEF CollectInv, CollectShapes, OneReport
  <2>2. /\ IsFiniteSet(Unreported \cup {o})
        /\ Cardinality(Unreported \cup {o}) \in {Cardinality(Unreported), Cardinality(Unreported) + 1}
    BY <2>1, FS_AddElement
  <2>3. Cardinality(Unreported) \in Nat
    BY <2>1, FS_CardinalityType
  <2>4. /\ Cardinality(Unreported') <= Cardinality(Unreported \cup {o})
        /\ Cardinality(Unreported') \in Nat
    BY <1>5, <2>2, FS_Subset, FS_CardinalityType
  <2> QED BY <2>1, <2>2, <2>3, <2>4
<1>7. OneReport'
  BY <1>4, <1>6 DEF CollectInv, OneReport
<1> QED BY <1>2, <1>3, <1>7 DEF CollectInv

LEMMA CollectFails ==
  ASSUME NEW p \in Collecting, CollectInv(p), NEW t \in CollectTask,
         Collect(p)!Throw(t) \/ Collect(p)!Crash(t)
  PROVE  CollectInv(p)'
<1>1. /\ UNCHANGED <<cObserved, cFlagged, cAnomalies, cMemory, cSamples, cDue>>
      /\ cFaults' = cFaults + 1 /\ RowFits(p, t, cWork[t]) /\ cWork[t] \in CollectRow
      /\ cWork[t].pc # "idle"
  BY DEF Collect!Throw, Collect!Crash, Collect!At, Collect!store, Collect!remembered,
         CollectInv, CollectShapes, RowFits
<1>2. CASE Collect(p)!Throw(t)
  <2> DEFINE r == [cWork[t] EXCEPT !.pc = "markFailed"]
  <2>1. Collect(p)!Becomes(t, r)
    BY <1>2 DEF Collect!Throw, Collect!GoTo
  <2>2. RowFits(p, t, r)
    BY <1>1, RowMoves DEF CollectPc, WithItem
  <2>3. r.pc = "markFailed"
    BY <1>1 DEF CollectRow
  <2> HIDE DEF r
  <2> QED BY <1>1, <2>1, <2>2, <2>3, CollectDropped
<1>3. CASE Collect(p)!Crash(t)
  <2> DEFINE r == Collect(p)!Idle
  <2>1. r \in CollectRow /\ r.pc = "idle" /\ r.todo = {} /\ r.claimed = {}
    BY DEF Collect!Idle, CollectRow, CollectPc
  <2>2. Collect(p)!Becomes(t, r)
    BY <1>3 DEF Collect!Crash
  <2> HIDE DEF r
  <2>3. RowFits(p, t, r)
    BY <2>1 DEF RowFits, WithItem
  <2> QED BY <1>1, <2>1, <2>2, <2>3, CollectDropped
<1> QED BY <1>2, <1>3

\* Nothing of the invariant changes but what is due.
LEMMA CollectStands ==
  ASSUME NEW p \in Collecting, CollectInv(p), cDue' \subseteq Source,
         UNCHANGED <<cObserved, cFlagged, cAnomalies, cMemory, cSamples, cWork, cFaults>>
  PROVE  CollectInv(p)'
<1>1. CollectShapes(p)'
  BY DEF CollectInv, CollectShapes, RowFits
<1>2. PriorIsLatest(p)'
  <2>1. \A s : Collect(p)!OneFanOut(s)' <=> Collect(p)!OneFanOut(s)
    BY DEF Collect!OneFanOut, Collect!Agent
  <2>2. Collect(p)!SamplesCounted'
    BY <2>1 DEF CollectInv, PriorIsLatest, Collect!SamplesCounted
  <2> QED BY <2>1, <2>2 DEF CollectInv, PriorIsLatest
<1>3. OneReport'
  BY DEF CollectInv, OneReport, Owing, Unreported
<1> QED BY <1>1, <1>2, <1>3 DEF CollectInv

LEMMA CollectInductive ==
  ASSUME NEW p \in Collecting, CollectInv(p), [Collect(p)!Next]_cVars
  PROVE  CollectInv(p)'
<1>1. CASE UNCHANGED cVars
  BY <1>1, CollectStands DEF cVars, CollectInv, CollectShapes
<1>2. CASE \E s \in Source : Collect(p)!IntervalPasses(s)
  BY <1>2, CollectStands
  DEF Collect!IntervalPasses, Collect!store, Collect!remembered, CollectInv, CollectShapes
<1>3. CASE \E t \in CollectTask : Collect(p)!Collect(t)
  BY <1>3, QuietClaim, QuietFetch, QuietItem, QuietRead, QuietMark, CollectWrite, CollectSave,
     CollectReport DEF Collect!Collect
<1>4. CASE \E t \in CollectTask : Collect(p)!Throw(t) \/ Collect(p)!Crash(t)
  BY <1>4, CollectFails
<1> QED BY <1>1, <1>2, <1>3, <1>4 DEF Collect!Next

\* The invariant of the setting the behaviour is of.
CollectedInv == \A p \in Collecting : part = p => CollectInv(p)

LEMMA CollectedAlways == OneSpec => []CollectedInv
<1>1. OneInit => CollectedInv
  BY CollectInitially DEF OneInit, In, CollectedInv
<1>2. CollectedInv /\ [OneNext]_oneVars => CollectedInv'
  <2> SUFFICES ASSUME CollectedInv, [OneNext]_oneVars, NEW p \in Collecting, part' = p
               PROVE  CollectInv(p)'
    BY DEF CollectedInv
  <2>1. part = p /\ [Collect(p)!Next]_cVars
    BY DEF OneNext, oneVars
  <2> QED BY <2>1, CollectInductive DEF CollectedInv
<1> QED BY <1>1, <1>2, PTL DEF OneSpec

\* No sample of a baseline is lost among the tasks of one fan-out: each claims the sources of
\* its shard alone (claimSources), and a get and a put of agent_memory are two statements.
THEOREM SamplesKept == OneSpec => []SamplesCounted
<1>1. CollectedInv => SamplesCounted
  BY DEF CollectedInv, CollectInv, PriorIsLatest, SamplesCounted
<1> QED BY <1>1, CollectedAlways, PTL

LEMMA CollectCounts ==
  ASSUME NEW p \in Collecting, NEW S PROVE Collect(p)!Cardinality(S) = Cardinality(S)
BY DEF Cardinality, Collect!Cardinality

\* Whatever was flagged has one anomaly at most, and of those that have none each is owed by
\* a task that is about to save it, or was lost to a failure: no two tasks store one
\* observation (saveObservation, ON CONFLICT DO NOTHING).
THEOREM FlaggedKept == OneSpec => []FlaggedIsReported
<1>1. CollectedInv => FlaggedIsReported
  <2> SUFFICES ASSUME NEW p \in Collecting, CollectInv(p)
               PROVE  Collect(p)!FlaggedIsReported
    BY DEF CollectedInv, FlaggedIsReported
  <2> DEFINE coming == {Collect(p)!Item(t) : t \in {u \in CollectTask :
                          Collect(p)!At(u, "saveAnomaly") /\ cWork[u].stored}}
             lost == {o \in cFlagged : cAnomalies[o] = 0} \ coming
  <2>1. lost = Unreported
    BY DEF Unreported, Owing, Collect!Item, Collect!At, Collect!Current, ItemOf, SourceOf
  <2>2. Collect(p)!Cardinality(lost) <= cFaults
    BY <2>1, CollectCounts DEF CollectInv, OneReport
  <2>3. \A o \in Collect(p)!Observation : cAnomalies[o] <= IF o \in cFlagged THEN 1 ELSE 0
    BY DEF CollectInv, OneReport, Sighting, Collect!Observation
  <2> QED BY <2>2, <2>3 DEF Collect!FlaggedIsReported
<1> QED BY <1>1, CollectedAlways, PTL

----------------------------------------------------------------------------
(* Access control.  What a handler is to do was decided for the roles its  *)
(* request arrived with, whatever becomes of the token meanwhile.  Of what *)
(* was recorded and answered only the number of entries of a kind matters. *)

LEMMA AccessCounts == ASSUME NEW S PROVE Requests!Cardinality(S) = Cardinality(S)
BY DEF Cardinality, Requests!Cardinality

\* What Authenticator.verify makes of a claim; an operator may have no token yet.
Carried == Claims \cup {<<>>}
Roles == {Requests!Recognized(c) : c \in Carried} \cup {<<>>}
AccessRow == [pc : Requests!Pc, route : Served \cup {"none"}, roles : Roles]
Act == [by : Operator, route : Served, roles : Roles]
Entry == [by : Operator, route : Served, outcome : {"allowed", "denied"}]
Refusal == [by : Operator, route : Served]

AccessShapes ==
  /\ dClaims \in [Operator -> Claims] /\ dToken \in [Operator -> Carried]
  /\ dRequest \in [Operator -> AccessRow]
  /\ \A o \in Operator : dRequest[o].pc # "idle" => dRequest[o].route \in Served
  /\ dActs \in Seq(Act) /\ dEntries \in Seq(Entry) /\ dRefusals \in Seq(Refusal)
  /\ dFaults \in Nat

\* The guard decided for the roles and the route the handler is called with.
DecidedFirst ==
  /\ \A o \in Operator : dRequest[o].pc = "handler" =>
       Requests!Decide(dRequest[o].roles, Requests!Permission[dRequest[o].route])
  /\ \A i \in DOMAIN dActs :
       Requests!Decide(dActs[i].roles, Requests!Permission[dActs[i].route])

\* The positions of a sequence that hold a member of T.
Hits(s, T) == {i \in DOMAIN s : s[i] \in T}
Refusing(o, r) == {[by |-> o, route |-> r]}
Denying(o, r) == {[by |-> o, route |-> r, outcome |-> "denied"]}
Acting == {a \in Act : a.route \in Requests!Audited}
Allowing == {e \in Entry : e.outcome = "allowed"}
Auditing == {o \in Operator : dRequest[o].pc = "audit"}

\* A denial that is about to be answered is on record, and so are the answers before it.
DenialsFirst ==
  \A o \in Operator, r \in Served :
    Cardinality(Hits(dRefusals, Refusing(o, r)))
      + (IF dRequest[o].pc = "refuse" /\ dRequest[o].route = r THEN 1 ELSE 0)
    <= Cardinality(Hits(dEntries, Denying(o, r)))
ActsRecorded ==
  Cardinality(Hits(dActs, Acting))
    <= Cardinality(Hits(dEntries, Allowing)) + Cardinality(Auditing) + dFaults

AccessInv == AccessShapes /\ DecidedFirst /\ DenialsFirst /\ ActsRecorded

\* How many positions hold a member of T, after one more element.
LEMMA HitsCount ==
  ASSUME NEW S, NEW s \in Seq(S), NEW T PROVE Cardinality(Hits(s, T)) \in Nat
<1>1. IsFiniteSet(1 .. Len(s))
  BY FS_Interval
<1>2. Hits(s, T) \subseteq 1 .. Len(s)
  BY DEF Hits
<1> QED BY <1>1, <1>2, FS_Subset, FS_CardinalityType

LEMMA HitsAppend ==
  ASSUME NEW S, NEW s \in Seq(S), NEW e \in S, NEW T
  PROVE  Cardinality(Hits(Append(s, e), T))
           = Cardinality(Hits(s, T)) + (IF e \in T THEN 1 ELSE 0)
<1> DEFINE n == Len(s) + 1
<1>1. IsFiniteSet(Hits(s, T))
  <2>1. IsFiniteSet(1 .. Len(s))
    BY FS_Interval
  <2>2. Hits(s, T) \subseteq 1 .. Len(s)
    BY DEF Hits
  <2> QED BY <2>1, <2>2, FS_Subset
<1>2. n \notin Hits(s, T)
  BY DEF Hits
<1>3. Hits(Append(s, e), T) = Hits(s, T) \cup (IF e \in T THEN {n} ELSE {})
  <2>1. /\ DOMAIN Append(s, e) = 1 .. n /\ DOMAIN s = 1 .. Len(s)
        /\ Append(s, e)[n] = e /\ \A i \in 1 .. Len(s) : Append(s, e)[i] = s[i]
    OBVIOUS
  <2>2. 1 .. n = (1 .. Len(s)) \cup {n}
    OBVIOUS
  <2> QED BY <2>1, <2>2, <1>2 DEF Hits
<1>4. CASE e \in T
  <2>1. Cardinality(Hits(s, T) \cup {n}) = Cardinality(Hits(s, T)) + 1
    BY <1>1, <1>2, FS_AddElement
  <2> QED BY <1>3, <1>4, <2>1
<1>5. CASE e \notin T
  <2>1. Cardinality(Hits(s, T)) \in Nat
    BY <1>1, FS_CardinalityType
  <2> QED BY <1>3, <1>5, <2>1
<1> QED BY <1>4, <1>5

LEMMA AccessInitially == Requests!Init => AccessInv
<1> SUFFICES ASSUME Requests!Init PROVE AccessInv
  OBVIOUS
<1>1. /\ dRequest \in [Operator -> AccessRow] /\ \A o \in Operator : dRequest[o].pc = "idle"
  <2>1. Requests!Idle \in AccessRow /\ Requests!Idle.pc = "idle"
    BY DEF Requests!Idle, AccessRow, Requests!Pc, Roles
  <2> QED BY <2>1 DEF Requests!Init
<1>2. dActs = <<>> /\ dEntries = <<>> /\ dRefusals = <<>> /\ dFaults = 0
  BY DEF Requests!Init
<1>3. AccessShapes
  <2>1. dClaims \in [Operator -> Claims] /\ dToken \in [Operator -> Carried]
    BY ServicesAssumption DEF Requests!Init, Carried
  <2> QED BY <1>1, <1>2, <2>1 DEF AccessShapes
<1>4. \A T : Hits(<<>>, T) = {}
  BY DEF Hits
<1>5. Auditing = {}
  BY <1>1 DEF Auditing
<1>6. DenialsFirst
  <2>1. Cardinality({}) = 0
    BY FS_EmptySet
  <2>2. ASSUME NEW o \in Operator, NEW r \in Served
        PROVE  /\ Hits(dRefusals, Refusing(o, r)) = {} /\ Hits(dEntries, Denying(o, r)) = {}
               /\ dRequest[o].pc # "refuse"
    BY <1>1, <1>2, <1>4
  <2> QED BY <2>1, <2>2 DEF DenialsFirst
<1>7. ActsRecorded
  BY <1>2, <1>4, <1>5, FS_EmptySet DEF ActsRecorded
<1> QED BY <1>1, <1>2, <1>3, <1>6, <1>7 DEF AccessInv, DecidedFirst

\* A step of an operator replaces the row of its request.
LEMMA AccessRows ==
  ASSUME AccessShapes, NEW o \in Operator, NEW r \in AccessRow,
         r.pc # "idle" => r.route \in Served, Requests!Becomes(o, r)
  PROVE  /\ dRequest' \in [Operator -> AccessRow] /\ dRequest'[o] = r
         /\ \A q \in Operator \ {o} : dRequest'[q] = dRequest[q]
         /\ \A q \in Operator : dRequest'[q].pc # "idle" => dRequest'[q].route \in Served
BY DEF AccessShapes, Requests!Becomes

LEMMA RequestMoves ==
  ASSUME AccessShapes, NEW o \in Operator, dRequest[o].pc # "idle", NEW to \in Requests!Pc,
         Requests!GoTo(o, to)
  PROVE  /\ dRequest' \in [Operator -> AccessRow]
         /\ dRequest'[o].pc = to /\ dRequest'[o].route = dRequest[o].route
         /\ dRequest'[o].roles = dRequest[o].roles
         /\ \A q \in Operator \ {o} : dRequest'[q] = dRequest[q]
         /\ \A q \in Operator : dRequest'[q].pc # "idle" => dRequest'[q].route \in Served
<1> DEFINE e == dRequest[o]
           r == [e EXCEPT !.pc = to]
<1>1. e \in AccessRow /\ e.route \in Served
  BY DEF AccessShapes
<1>2. Requests!Becomes(o, r)
  BY DEF Requests!GoTo
<1> HIDE DEF e
<1>3. r \in AccessRow /\ r.pc = to /\ r.route = e.route /\ r.roles = e.roles
  BY <1>1 DEF AccessRow
<1> HIDE DEF r
<1> QED BY <1>1, <1>2, <1>3, AccessRows DEF e

LEMMA RequestEnds ==
  ASSUME AccessShapes, NEW o \in Operator, Requests!Becomes(o, Requests!Idle)
  PROVE  /\ dRequest' \in [Operator -> AccessRow] /\ dRequest'[o].pc = "idle"
         /\ \A q \in Operator \ {o} : dRequest'[q] = dRequest[q]
         /\ \A q \in Operator : dRequest'[q].pc # "idle" => dRequest'[q].route \in Served
<1>1. Requests!Idle \in AccessRow /\ Requests!Idle.pc = "idle"
  BY DEF Requests!Idle, AccessRow, Requests!Pc, Roles
<1> QED BY <1>1, AccessRows

\* Auditing loses or gains at most the operator of the step.
LEMMA AuditingCount ==
  ASSUME NEW o \in Operator,
         \A q \in Operator \ {o} : dRequest'[q] = dRequest[q]
  PROVE  /\ Cardinality(Auditing) \in Nat /\ Cardinality(Auditing') \in Nat
         /\ Cardinality(Auditing') + (IF dRequest[o].pc = "audit" THEN 1 ELSE 0)
              = Cardinality(Auditing) + (IF dRequest'[o].pc = "audit" THEN 1 ELSE 0)
<1> DEFINE others == Auditing \ {o}
<1>1. IsFiniteSet(others) /\ IsFiniteSet(Auditing) /\ IsFiniteSet(Auditing')
  <2>1. others \subseteq Operator /\ Auditing \subseteq Operator /\ Auditing' \subseteq Operator
    BY DEF Auditing
  <2> QED BY <2>1, ServicesAssumption, FS_Subset
<1>2. o \notin others
  OBVIOUS
<1>3. Auditing = others \cup (IF dRequest[o].pc = "audit" THEN {o} ELSE {})
  BY DEF Auditing
<1>4. Auditing' = others \cup (IF dRequest'[o].pc = "audit" THEN {o} ELSE {})
  BY DEF Auditing
<1>5. Cardinality(others) \in Nat /\ Cardinality(others \cup {o}) = Cardinality(others) + 1
  BY <1>1, <1>2, FS_AddElement, FS_CardinalityType
<1> HIDE DEF others
<1>6. Cardinality(Auditing) = Cardinality(others) + (IF dRequest[o].pc = "audit" THEN 1 ELSE 0)
  <2>1. CASE dRequest[o].pc = "audit"
    BY <1>3, <1>5, <2>1
  <2>2. CASE dRequest[o].pc # "audit"
    <3>1. Auditing = others
      BY <1>3, <2>2
    <3> QED BY <1>5, <2>2, <3>1
  <2> QED BY <2>1, <2>2
<1>7. Cardinality(Auditing') = Cardinality(others) + (IF dRequest'[o].pc = "audit" THEN 1 ELSE 0)
  <2>1. CASE dRequest'[o].pc = "audit"
    BY <1>4, <1>5, <2>1
  <2>2. CASE dRequest'[o].pc # "audit"
    <3>1. Auditing' = others
      BY <1>4, <2>2
    <3> QED BY <1>5, <2>2, <3>1
  <2> QED BY <2>1, <2>2
<1> QED BY <1>1, <1>5, <1>6, <1>7, FS_CardinalityType

\* The steps that record nothing, answer nothing and do nothing, of a request that neither
\* was nor will be at its entry or its answer, unless a failure ends it.
LEMMA AccessQuiet ==
  ASSUME AccessInv, NEW o \in Operator,
         dRequest' \in [Operator -> AccessRow],
         \A q \in Operator \ {o} : dRequest'[q] = dRequest[q],
         \A q \in Operator : dRequest'[q].pc # "idle" => dRequest'[q].route \in Served,
         dRequest'[o].pc \notin {"refuse", "audit"},
         dRequest'[o].pc = "handler" =>
           Requests!Decide(dRequest'[o].roles, Requests!Permission[dRequest'[o].route]),
         dRequest[o].pc = "audit" => dFaults' = dFaults + 1,
         dFaults' \in {dFaults, dFaults + 1},
         UNCHANGED <<dClaims, dToken, dActs, dEntries, dRefusals>>
  PROVE  AccessInv'
<1>1. AccessShapes'
  BY DEF AccessInv, AccessShapes
<1>2. DecidedFirst'
  BY DEF AccessInv, DecidedFirst
<1>3. DenialsFirst'
  <2> SUFFICES ASSUME NEW q \in Operator, NEW r \in Served
               PROVE  Cardinality(Hits(dRefusals, Refusing(q, r)))
                        + (IF dRequest'[q].pc = "refuse" /\ dRequest'[q].route = r THEN 1 ELSE 0)
                      <= Cardinality(Hits(dEntries, Denying(q, r)))
    BY DEF DenialsFirst, Hits
  <2>1. /\ Cardinality(Hits(dRefusals, Refusing(q, r))) \in Nat
        /\ Cardinality(Hits(dEntries, Denying(q, r))) \in Nat
    BY HitsCount DEF AccessInv, AccessShapes
  <2>2. Cardinality(Hits(dRefusals, Refusing(q, r)))
          + (IF dRequest[q].pc = "refuse" /\ dRequest[q].route = r THEN 1 ELSE 0)
        <= Cardinality(Hits(dEntries, Denying(q, r)))
    BY DEF AccessInv, DenialsFirst
  <2>3. CASE q = o
    BY <2>1, <2>2, <2>3
  <2>4. CASE q # o
    BY <2>2, <2>4
  <2> QED BY <2>3, <2>4
<1>4. ActsRecorded'
  <2>1. /\ Cardinality(Hits(dActs, Acting)) \in Nat
        /\ Cardinality(Hits(dEntries, Allowing)) \in Nat /\ dFaults \in Nat
    BY HitsCount DEF AccessInv, AccessShapes
  <2>2. Hits(dActs', Acting) = Hits(dActs, Acting) /\ Hits(dEntries', Allowing) = Hits(dEntries, Allowing)
    OBVIOUS
  <2>3. Cardinality(Hits(dActs, Acting))
          <= Cardinality(Hits(dEntries, Allowing)) + Cardinality(Auditing) + dFaults
    BY DEF AccessInv, ActsRecorded
  <2>4. /\ Cardinality(Auditing) \in Nat /\ Cardinality(Auditing') \in Nat
        /\ Cardinality(Auditing') + (IF dRequest[o].pc = "audit" THEN 1 ELSE 0)
             = Cardinality(Auditing) + (IF dRequest'[o].pc = "audit" THEN 1 ELSE 0)
    BY AuditingCount
  <2>5. Cardinality(Auditing) + dFaults <= Cardinality(Auditing') + dFaults'
    BY <2>1, <2>4
  <2>6. Cardinality(Hits(dActs, Acting))
          <= Cardinality(Hits(dEntries, Allowing)) + Cardinality(Auditing') + dFaults'
    BY <2>1, <2>3, <2>4, <2>5
  <2> QED BY <2>2, <2>6 DEF ActsRecorded, Acting, Allowing, Act, Entry, Roles, Carried
<1> QED BY <1>1, <1>2, <1>3, <1>4 DEF AccessInv

\* The entry of a denial is written before the answer to it.
LEMMA AccessDenied ==
  ASSUME AccessInv, NEW o \in Operator, Requests!RecordDenial(o) \/ Requests!Refuse(o)
  PROVE  AccessInv'
<1> USE DEF Requests!At
<1> DEFINE route == dRequest[o].route
<1>1. /\ dRequest[o].pc \in {"denial", "refuse"} /\ route \in Served
      /\ UNCHANGED <<dClaims, dToken, dActs, dFaults>>
  BY DEF Requests!RecordDenial, Requests!Refuse, Requests!identity, AccessInv, AccessShapes
<1>2. /\ dRequest' \in [Operator -> AccessRow] /\ dRequest'[o].pc \in {"idle", "refuse"}
      /\ \A q \in Operator \ {o} : dRequest'[q] = dRequest[q]
      /\ \A q \in Operator : dRequest'[q].pc # "idle" => dRequest'[q].route \in Served
  <2>1. CASE Requests!RecordDenial(o)
    <3>1. dRequest[o].pc # "idle" /\ Requests!GoTo(o, "refuse") /\ "refuse" \in Requests!Pc
      BY <2>1 DEF Requests!RecordDenial, Requests!Pc
    <3> QED BY <3>1, RequestMoves DEF AccessInv
  <2>2. CASE Requests!Refuse(o)
    BY <2>2, RequestEnds DEF Requests!Refuse, AccessInv
  <2> QED BY <2>1, <2>2
<1>3. /\ dEntries \in Seq(Entry) /\ dRefusals \in Seq(Refusal) /\ dActs \in Seq(Act)
      /\ dFaults \in Nat
  BY DEF AccessInv, AccessShapes
<1> DEFINE entry == [by |-> o, route |-> route, outcome |-> "denied"]
           answer == [by |-> o, route |-> route]
<1>4. entry \in Entry /\ answer \in Refusal /\ entry \notin Allowing
  BY <1>1 DEF Entry, Refusal, Allowing
<1>5. \/ /\ dRequest[o].pc = "denial" /\ dEntries' = Append(dEntries, entry)
         /\ dRefusals' = dRefusals /\ dRequest'[o].pc = "refuse" /\ dRequest'[o].route = route
      \/ /\ dRequest[o].pc = "refuse" /\ dEntries' = dEntries
         /\ dRefusals' = Append(dRefusals, answer) /\ dRequest'[o].pc = "idle"
  <2>1. CASE Requests!RecordDenial(o)
    <3>1. dRequest[o].pc # "idle" /\ Requests!GoTo(o, "refuse") /\ "refuse" \in Requests!Pc
      BY <2>1 DEF Requests!RecordDenial, Requests!Pc
    <3>2. dRequest'[o].pc = "refuse" /\ dRequest'[o].route = route
      BY <3>1, RequestMoves DEF AccessInv
    <3> QED BY <2>1, <3>2 DEF Requests!RecordDenial, Requests!Entry
  <2>2. CASE Requests!Refuse(o)
    BY <2>2, RequestEnds DEF Requests!Refuse, AccessInv
  <2> QED BY <2>1, <2>2
<1>6. AccessShapes'
  <2>1. dEntries' \in Seq(Entry) /\ dRefusals' \in Seq(Refusal)
    <3>1. Append(dEntries, entry) \in Seq(Entry) /\ Append(dRefusals, answer) \in Seq(Refusal)
      <4> HIDE DEF entry, answer
      <4> QED BY <1>3, <1>4
    <3> QED BY <1>3, <1>5, <3>1
  <2> QED BY <1>1, <1>2, <2>1 DEF AccessInv, AccessShapes
<1>7. DecidedFirst'
  BY <1>1, <1>2 DEF AccessInv, DecidedFirst
<1>8. ASSUME NEW q \in Operator, NEW r \in Served
      PROVE  Cardinality(Hits(dRefusals', Refusing(q, r)))
               + (IF dRequest'[q].pc = "refuse" /\ dRequest'[q].route = r THEN 1 ELSE 0)
             <= Cardinality(Hits(dEntries', Denying(q, r)))
  <2> DEFINE a == Cardinality(Hits(dRefusals, Refusing(q, r)))
             b == Cardinality(Hits(dEntries, Denying(q, r)))
             due == IF dRequest[q].pc = "refuse" /\ dRequest[q].route = r THEN 1 ELSE 0
             mine == IF q = o /\ route = r THEN 1 ELSE 0
  <2>1. a \in Nat /\ b \in Nat /\ a + due <= b
    BY <1>3, HitsCount DEF AccessInv, DenialsFirst
  <2>2. /\ Cardinality(Hits(Append(dRefusals, answer), Refusing(q, r))) = a + mine
        /\ Cardinality(Hits(Append(dEntries, entry), Denying(q, r))) = b + mine
    <3>1. (answer \in Refusing(q, r) <=> q = o /\ route = r)
          /\ (entry \in Denying(q, r) <=> q = o /\ route = r)
      BY DEF Refusing, Denying
    <3>2. /\ Cardinality(Hits(Append(dRefusals, answer), Refusing(q, r)))
               = a + (IF answer \in Refusing(q, r) THEN 1 ELSE 0)
          /\ Cardinality(Hits(Append(dEntries, entry), Denying(q, r)))
               = b + (IF entry \in Denying(q, r) THEN 1 ELSE 0)
      BY <1>3, <1>4, HitsAppend
    <3> HIDE DEF a, b, answer, entry
    <3> QED BY <3>1, <3>2
  <2>3. CASE dRequest[o].pc = "denial"
    <3>1. /\ Cardinality(Hits(dRefusals', Refusing(q, r))) = a
          /\ Cardinality(Hits(dEntries', Denying(q, r))) = b + mine
      BY <1>5, <2>2, <2>3
    <3>2. (IF dRequest'[q].pc = "refuse" /\ dRequest'[q].route = r THEN 1 ELSE 0) = due + mine
      BY <1>2, <1>5, <2>3
    <3>3. due \in Nat /\ mine \in Nat
      OBVIOUS
    <3> HIDE DEF a, b, due, mine
    <3> QED BY <2>1, <3>1, <3>2, <3>3
  <2>4. CASE dRequest[o].pc = "refuse"
    <3>1. /\ Cardinality(Hits(dRefusals', Refusing(q, r))) = a + mine
          /\ Cardinality(Hits(dEntries', Denying(q, r))) = b
      BY <1>5, <2>2, <2>4
    <3>2. (IF dRequest'[q].pc = "refuse" /\ dRequest'[q].route = r THEN 1 ELSE 0) + mine = due
      BY <1>2, <1>5, <2>4
    <3>3. due \in Nat /\ mine \in Nat
      OBVIOUS
    <3> HIDE DEF a, b, due, mine
    <3> QED BY <2>1, <3>1, <3>2, <3>3
  <2> QED BY <1>1, <2>3, <2>4
<1>9. DenialsFirst'
  BY <1>8 DEF DenialsFirst, Hits
<1>10. ActsRecorded'
  <2>1. Cardinality(Hits(dEntries', Allowing)) = Cardinality(Hits(dEntries, Allowing))
    <3>1. Cardinality(Hits(Append(dEntries, entry), Allowing)) = Cardinality(Hits(dEntries, Allowing))
      <4>1. Cardinality(Hits(dEntries, Allowing)) \in Nat
        BY <1>3, HitsCount
      <4>2. Cardinality(Hits(Append(dEntries, entry), Allowing))
              = Cardinality(Hits(dEntries, Allowing)) + (IF entry \in Allowing THEN 1 ELSE 0)
        BY <1>3, <1>4, HitsAppend
      <4> HIDE DEF entry
      <4> QED BY <1>4, <4>1, <4>2
    <3> QED BY <1>5, <3>1
  <2>2. Auditing' = Auditing
    BY <1>1, <1>2 DEF Auditing
  <2>3. dActs' = dActs /\ dFaults' = dFaults
    BY <1>1
  <2> QED BY <2>1, <2>2, <2>3 DEF AccessInv, ActsRecorded, Acting, Allowing, Act, Entry, Roles,
                                  Carried
<1> QED BY <1>6, <1>7, <1>9, <1>10 DEF AccessInv

\* An audited handler leaves its entry to be written.
LEMMA AccessActed ==
  ASSUME AccessInv, NEW o \in Operator, Requests!Handle(o) \/ Requests!RecordAct(o)
  PROVE  AccessInv'
<1> USE DEF Requests!At
<1> DEFINE route == dRequest[o].route
           roles == dRequest[o].roles
<1>1. /\ dRequest[o].pc \in {"handler", "audit"} /\ route \in Served /\ roles \in Roles
      /\ UNCHANGED <<dClaims, dToken, dRefusals, dFaults>>
  BY DEF Requests!Handle, Requests!RecordAct, Requests!identity, AccessInv, AccessShapes,
         AccessRow
<1>2. /\ dEntries \in Seq(Entry) /\ dRefusals \in Seq(Refusal) /\ dActs \in Seq(Act)
      /\ dFaults \in Nat
  BY DEF AccessInv, AccessShapes
<1> DEFINE act == [by |-> o, route |-> route, roles |-> roles]
           entry == [by |-> o, route |-> route, outcome |-> "allowed"]
<1>3. /\ act \in Act /\ (act \in Acting <=> route \in Requests!Audited)
      /\ entry \in Entry /\ entry \in Allowing /\ act.roles = roles /\ act.route = route
  BY <1>1 DEF Act, Acting, Entry, Allowing
<1>4. /\ dRequest' \in [Operator -> AccessRow] /\ dRequest'[o].pc \in {"idle", "audit"}
      /\ \A q \in Operator \ {o} : dRequest'[q] = dRequest[q]
      /\ \A q \in Operator : dRequest'[q].pc # "idle" => dRequest'[q].route \in Served
      /\ \/ /\ dRequest[o].pc = "handler" /\ dActs' = Append(dActs, act)
            /\ dEntries' = dEntries /\ (dRequest'[o].pc = "audit" <=> route \in Requests!Audited)
         \/ /\ dRequest[o].pc = "audit" /\ dActs' = dActs
            /\ dEntries' = Append(dEntries, entry) /\ dRequest'[o].pc = "idle"
  <2>1. CASE Requests!Handle(o) /\ route \in Requests!Audited
    <3>1. dRequest[o].pc = "handler" /\ Requests!GoTo(o, "audit") /\ "audit" \in Requests!Pc
      BY <2>1 DEF Requests!Handle, Requests!Pc
    <3> QED BY <2>1, <3>1, RequestMoves DEF AccessInv, Requests!Handle
  <2>2. CASE Requests!Handle(o) /\ route \notin Requests!Audited
    BY <2>2, RequestEnds DEF AccessInv, Requests!Handle
  <2>3. CASE Requests!RecordAct(o)
    BY <2>3, RequestEnds DEF AccessInv, Requests!RecordAct, Requests!Entry
  <2> QED BY <2>1, <2>2, <2>3
<1> HIDE DEF act, entry, roles
<1>5. AccessShapes'
  <2>1. dEntries' \in Seq(Entry) /\ dActs' \in Seq(Act)
    <3>1. Append(dEntries, entry) \in Seq(Entry) /\ Append(dActs, act) \in Seq(Act)
      BY <1>2, <1>3
    <3> QED BY <1>2, <1>4, <3>1
  <2> QED BY <1>1, <1>4, <2>1 DEF AccessInv, AccessShapes
<1>6. DecidedFirst'
  <2>1. \A q \in Operator : dRequest'[q].pc = "handler" =>
          Requests!Decide(dRequest'[q].roles, Requests!Permission[dRequest'[q].route])
    BY <1>4 DEF AccessInv, DecidedFirst
  <2>2. CASE dActs' = dActs
    BY <2>1, <2>2 DEF AccessInv, DecidedFirst
  <2>3. CASE dRequest[o].pc = "handler" /\ dActs' = Append(dActs, act)
    <3>1. Requests!Decide(act.roles, Requests!Permission[act.route])
      BY <1>3, <2>3 DEF AccessInv, DecidedFirst, roles
    <3>2. \A i \in DOMAIN dActs' : dActs'[i] = act \/ (i \in DOMAIN dActs /\ dActs'[i] = dActs[i])
      BY <1>2, <1>3, <2>3
    <3>3. \A i \in DOMAIN dActs' :
            Requests!Decide(dActs'[i].roles, Requests!Permission[dActs'[i].route])
      BY <3>1, <3>2 DEF AccessInv, DecidedFirst
    <3> QED BY <2>1, <3>3 DEF DecidedFirst
  <2> QED BY <1>4, <2>2, <2>3
<1>7. DenialsFirst'
  <2> SUFFICES ASSUME NEW q \in Operator, NEW r \in Served
               PROVE  Cardinality(Hits(dRefusals', Refusing(q, r)))
                        + (IF dRequest'[q].pc = "refuse" /\ dRequest'[q].route = r THEN 1 ELSE 0)
                      <= Cardinality(Hits(dEntries', Denying(q, r)))
    BY DEF DenialsFirst, Hits
  <2>1. Cardinality(Hits(dRefusals, Refusing(q, r)))
          + (IF dRequest[q].pc = "refuse" /\ dRequest[q].route = r THEN 1 ELSE 0)
        <= Cardinality(Hits(dEntries, Denying(q, r)))
    BY DEF AccessInv, DenialsFirst
  <2>2. Cardinality(Hits(dEntries', Denying(q, r))) = Cardinality(Hits(dEntries, Denying(q, r)))
    <3>1. Cardinality(Hits(dEntries, Denying(q, r))) \in Nat
      BY <1>2, HitsCount
    <3>2. Cardinality(Hits(Append(dEntries, entry), Denying(q, r)))
            = Cardinality(Hits(dEntries, Denying(q, r)))
                + (IF entry \in Denying(q, r) THEN 1 ELSE 0)
      BY <1>2, <1>3, HitsAppend
    <3>3. entry \notin Denying(q, r)
      BY DEF entry, Denying
    <3>4. Cardinality(Hits(Append(dEntries, entry), Denying(q, r)))
            = Cardinality(Hits(dEntries, Denying(q, r)))
      <4> DEFINE b == Cardinality(Hits(dEntries, Denying(q, r)))
      <4>1. /\ b \in Nat
            /\ Cardinality(Hits(Append(dEntries, entry), Denying(q, r))) = b + 0
        BY <3>1, <3>2, <3>3
      <4> HIDE DEF b
      <4>2. Cardinality(Hits(Append(dEntries, entry), Denying(q, r))) = b
        BY <4>1
      <4> QED BY <4>2 DEF b
    <3> QED BY <1>4, <3>4
  <2>3. (IF dRequest'[q].pc = "refuse" /\ dRequest'[q].route = r THEN 1 ELSE 0)
          = (IF dRequest[q].pc = "refuse" /\ dRequest[q].route = r THEN 1 ELSE 0)
    BY <1>1, <1>4
  <2> QED BY <1>1, <2>1, <2>2, <2>3
<1>8. ActsRecorded'
  <2> DEFINE a == Cardinality(Hits(dActs, Acting))
             b == Cardinality(Hits(dEntries, Allowing))
             c == Cardinality(Auditing)
             d == Cardinality(Auditing')
             acted == IF route \in Requests!Audited THEN 1 ELSE 0
  <2>1. a \in Nat /\ b \in Nat /\ dFaults \in Nat /\ a <= b + c + dFaults
    BY <1>2, HitsCount DEF AccessInv, ActsRecorded
  <2>2. /\ c \in Nat /\ d \in Nat
        /\ d + (IF dRequest[o].pc = "audit" THEN 1 ELSE 0)
             = c + (IF dRequest'[o].pc = "audit" THEN 1 ELSE 0)
    BY <1>4, AuditingCount
  <2>3. /\ Cardinality(Hits(Append(dActs, act), Acting)) = a + acted
        /\ Cardinality(Hits(Append(dEntries, entry), Allowing)) = b + 1
    <3>1. /\ Cardinality(Hits(Append(dActs, act), Acting))
               = a + (IF act \in Acting THEN 1 ELSE 0)
          /\ Cardinality(Hits(Append(dEntries, entry), Allowing))
               = b + (IF entry \in Allowing THEN 1 ELSE 0)
      BY <1>2, <1>3, HitsAppend
    <3> HIDE DEF a, b
    <3> QED BY <1>3, <3>1
  <2> HIDE DEF a, b, c, d
  <2>4. Cardinality(Hits(dActs', Acting)) <= Cardinality(Hits(dEntries', Allowing)) + d + dFaults
    <3>1. CASE dRequest[o].pc = "handler"
      <4>1. d = c + acted
        BY <1>4, <2>2, <3>1
      <4>2. /\ Cardinality(Hits(dActs', Acting)) = a + acted
            /\ Cardinality(Hits(dEntries', Allowing)) = b
        BY <1>4, <2>3, <3>1 DEF b
      <4>3. acted \in Nat
        OBVIOUS
      <4> HIDE DEF acted
      <4> QED BY <2>1, <2>2, <4>1, <4>2, <4>3
    <3>2. CASE dRequest[o].pc = "audit"
      <4>1. d + 1 = c
        BY <1>4, <2>2, <3>2
      <4>2. /\ Cardinality(Hits(dActs', Acting)) = a
            /\ Cardinality(Hits(dEntries', Allowing)) = b + 1
        BY <1>4, <2>3, <3>2 DEF a
      <4> QED BY <2>1, <2>2, <4>1, <4>2
    <3> QED BY <1>1, <3>1, <3>2
  <2> QED BY <1>1, <2>4 DEF ActsRecorded, Acting, Allowing, Act, Entry, Roles, Carried, d
<1> QED BY <1>5, <1>6, <1>7, <1>8 DEF AccessInv

LEMMA AccessInductive == ASSUME AccessInv, [Requests!Next]_dVars PROVE AccessInv'
<1> USE DEF Requests!At
<1>1. CASE UNCHANGED dVars
  BY <1>1 DEF dVars, AccessInv, AccessShapes, DecidedFirst, DenialsFirst, ActsRecorded, Hits,
              Auditing, Refusing, Denying, Acting, Allowing
<1>2. ASSUME NEW o \in Operator, Requests!Provision(o) \/ Requests!SignIn(o) PROVE AccessInv'
  <2>1. /\ UNCHANGED <<dRequest, dActs, dEntries, dRefusals, dFaults>>
        /\ dClaims' \in [Operator -> Claims] /\ dToken' \in [Operator -> Carried]
    BY <1>2 DEF Requests!Provision, Requests!SignIn, AccessInv, AccessShapes, Carried
  <2>2. AccessShapes'
    BY <2>1 DEF AccessInv, AccessShapes
  <2> QED BY <2>1, <2>2 DEF AccessInv, DecidedFirst, DenialsFirst, ActsRecorded, Hits, Auditing,
                            Refusing, Denying, Acting, Allowing
<1>3. ASSUME NEW o \in Operator, NEW route \in Served, Requests!Arrive(o, route)
      PROVE  AccessInv'
  <2> DEFINE roles == Requests!Recognized(dToken[o])
             r == [pc |-> "guard", route |-> route, roles |-> roles]
  <2>1. /\ dRequest[o].pc = "idle" /\ Requests!Becomes(o, r)
        /\ UNCHANGED <<dClaims, dToken, dActs, dEntries, dRefusals, dFaults>>
    BY <1>3 DEF Requests!Arrive, Requests!identity
  <2>2. roles \in Roles
    BY DEF AccessInv, AccessShapes, Roles
  <2> HIDE DEF roles
  <2>3. r \in AccessRow /\ r.pc = "guard" /\ r.route \in Served
    BY <2>2 DEF AccessRow, Requests!Pc
  <2> HIDE DEF r
  <2> QED BY <2>1, <2>3, AccessRows, AccessQuiet DEF AccessInv
<1>4. ASSUME NEW o \in Operator, Requests!Guard(o) PROVE AccessInv'
  <2> DEFINE ok == Requests!Decide(dRequest[o].roles, Requests!Permission[dRequest[o].route])
             to == IF ok THEN "handler" ELSE "denial"
  <2>1. /\ dRequest[o].pc = "guard" /\ Requests!GoTo(o, to)
        /\ UNCHANGED <<dClaims, dToken, dActs, dEntries, dRefusals, dFaults>>
    BY <1>4 DEF Requests!Guard, Requests!identity
  <2>2. to \in Requests!Pc /\ to \in {"handler", "denial"} /\ (to = "handler" => ok)
    BY DEF Requests!Pc
  <2> HIDE DEF to
  <2>3. /\ dRequest' \in [Operator -> AccessRow]
        /\ dRequest'[o].pc = to /\ dRequest'[o].route = dRequest[o].route
        /\ dRequest'[o].roles = dRequest[o].roles
        /\ \A q \in Operator \ {o} : dRequest'[q] = dRequest[q]
        /\ \A q \in Operator : dRequest'[q].pc # "idle" => dRequest'[q].route \in Served
    BY <2>1, <2>2, RequestMoves DEF AccessInv
  <2> QED BY <2>1, <2>2, <2>3, AccessQuiet
<1>5. ASSUME NEW o \in Operator, Requests!Fail(o) PROVE AccessInv'
  <2>1. /\ Requests!Becomes(o, Requests!Idle) /\ dFaults' = dFaults + 1
        /\ UNCHANGED <<dClaims, dToken, dActs, dEntries, dRefusals>>
    BY <1>5 DEF Requests!Fail, Requests!identity
  <2> QED BY <2>1, RequestEnds, AccessQuiet DEF AccessInv
<1> QED
  BY <1>1, <1>2, <1>3, <1>4, <1>5, AccessDenied, AccessActed DEF Requests!Next, Requests!Serve

\* What a handler did was allowed by the roles of its token, every answer 403 is on record, and
\* an audited act that is not on record is still to be written or was lost to a failure
\* (requirePermission and the routes of routes/index.ts).
THEOREM AccessKept == OneSpec => []AccessAccounted
<1>1. OneInit => AccessInv
  BY AccessInitially DEF OneInit
<1>2. AccessInv /\ [OneNext]_oneVars => AccessInv'
  <2> SUFFICES ASSUME AccessInv, [OneNext]_oneVars PROVE AccessInv'
    OBVIOUS
  <2>1. [Requests!Next]_dVars
    BY DEF OneNext, oneVars
  <2> QED BY <2>1, AccessInductive
<1>3. AccessInv => AccessAccounted
  <2> SUFFICES ASSUME AccessInv PROVE Requests!AccessAccounted
    BY DEF AccessAccounted
  <2>1. ASSUME NEW i \in DOMAIN dActs, NEW table,
               NEW permission, NEW some,
               some = UNION {table[dActs[i].roles[k]] : k \in DOMAIN dActs[i].roles}
        PROVE  Requests!Matched(some, permission) <=>
                 \E k \in DOMAIN dActs[i].roles :
                   Requests!Matched(table[dActs[i].roles[k]], permission)
    BY <2>1 DEF Requests!Matched
  <2>2. ASSUME NEW i \in DOMAIN dActs
        PROVE  LET rules(table) ==
                     UNION {table[dActs[i].roles[k]] : k \in DOMAIN dActs[i].roles}
               IN /\ Requests!Matched(rules(Requests!Grants), Requests!Permission[dActs[i].route])
                  /\ ~Requests!Matched(rules(Requests!Denies),
                                       Requests!Permission[dActs[i].route])
    <3>1. Requests!Decide(dActs[i].roles, Requests!Permission[dActs[i].route])
      BY DEF AccessInv, DecidedFirst
    <3> QED BY <2>1, <3>1 DEF Requests!Decide
  <2>3. ASSUME NEW o \in Operator, NEW r \in Served
        PROVE  Cardinality({i \in DOMAIN dRefusals : dRefusals[i] = [by |-> o, route |-> r]})
                 <= Cardinality({i \in DOMAIN dEntries :
                      dEntries[i] = [by |-> o, route |-> r, outcome |-> "denied"]})
    <3>1. /\ {i \in DOMAIN dRefusals : dRefusals[i] = [by |-> o, route |-> r]}
               = Hits(dRefusals, Refusing(o, r))
          /\ {i \in DOMAIN dEntries : dEntries[i] = [by |-> o, route |-> r, outcome |-> "denied"]}
               = Hits(dEntries, Denying(o, r))
      BY DEF Hits, Refusing, Denying
    <3>2. /\ Cardinality(Hits(dRefusals, Refusing(o, r))) \in Nat
          /\ Cardinality(Hits(dEntries, Denying(o, r))) \in Nat
      BY HitsCount DEF AccessInv, AccessShapes
    <3>3. Cardinality(Hits(dRefusals, Refusing(o, r)))
            + (IF dRequest[o].pc = "refuse" /\ dRequest[o].route = r THEN 1 ELSE 0)
          <= Cardinality(Hits(dEntries, Denying(o, r)))
      BY DEF AccessInv, DenialsFirst
    <3> DEFINE a == Cardinality(Hits(dRefusals, Refusing(o, r)))
               b == Cardinality(Hits(dEntries, Denying(o, r)))
               due == IF dRequest[o].pc = "refuse" /\ dRequest[o].route = r THEN 1 ELSE 0
    <3>4. a \in Nat /\ b \in Nat /\ due \in Nat /\ a + due <= b
      BY <3>2, <3>3
    <3> HIDE DEF a, b, due
    <3>5. a <= b
      BY <3>4
    <3> QED BY <3>1, <3>5 DEF a, b
  <2>4. Cardinality({i \in DOMAIN dActs : dActs[i].route \in Requests!Audited})
          <= Cardinality({i \in DOMAIN dEntries : dEntries[i].outcome = "allowed"})
               + Cardinality({o \in Operator : Requests!At(o, "audit")}) + dFaults
    <3>1. {i \in DOMAIN dActs : dActs[i].route \in Requests!Audited} = Hits(dActs, Acting)
      BY DEF Hits, Acting, AccessInv, AccessShapes
    <3>2. {i \in DOMAIN dEntries : dEntries[i].outcome = "allowed"} = Hits(dEntries, Allowing)
      BY DEF Hits, Allowing, AccessInv, AccessShapes
    <3>3. {o \in Operator : Requests!At(o, "audit")} = Auditing
      BY DEF Auditing, Requests!At
    <3> QED BY <3>1, <3>2, <3>3 DEF AccessInv, ActsRecorded
  <2> QED BY <2>2, <2>3, <2>4, AccessCounts DEF Requests!AccessAccounted
<1> QED BY <1>1, <1>2, <1>3, PTL DEF OneSpec

----------------------------------------------------------------------------
(* Scores.  The sum of the library is a fold, of which no theorem of the   *)
(* library speaks, so that a sum is one term and the rest is by induction  *)
(* on the size of its set.  A score is then the mean up to two roundings   *)
(* for each signal, and a counterfactual is up to one.                     *)

\* Induction, over a set of numbers rather than a predicate of them.
LEMMA Induction ==
  ASSUME NEW S \in SUBSET Nat, 0 \in S, \A n \in S : n + 1 \in S
  PROVE  S = Nat
<1> SUFFICES ASSUME S # Nat PROVE FALSE
  OBVIOUS
<1> DEFINE M == Nat \ S
<1>1. M \subseteq Nat /\ M # {}
  OBVIOUS
<1>2. PICK m \in M : \A k \in M : m <= k
  <2>1. PICK R : R = {ss \in Nat \X Nat : ss[1] < ss[2]}
    OBVIOUS
  <2>2. IsWellFoundedOn(R, Nat)
    BY <2>1, NatLessThanWellFounded DEF OpToRel
  <2>3. PICK m \in M : \A k \in M : <<k, m>> \notin R
    <3> HIDE DEF M
    <3> QED BY <1>1, <2>2, WFMin
  <2>4. \A k \in M : ~(k < m)
    BY <2>1, <2>3
  <2> QED BY <2>3, <2>4
<1>3. m # 0 /\ m \in Nat
  BY <1>2
<1>4. m - 1 \in Nat /\ m - 1 \in S
  BY <1>2, <1>3
<1>5. (m - 1) + 1 \in S
  BY <1>4
<1> QED BY <1>2, <1>3, <1>5

\* Induction over the subsets of a finite set.
LEMMA SetInduction ==
  ASSUME NEW U, IsFiniteSet(U), NEW Good \in SUBSET (SUBSET U),
         \A S \in SUBSET U : (\A x \in S : S \ {x} \in Good) => S \in Good
  PROVE  Good = SUBSET U
<1> DEFINE Of(n) == \A S \in SUBSET U : Cardinality(S) = n => S \in Good
           Sizes == {n \in Nat : Of(n)}
<1>1. 0 \in Sizes
  <2> SUFFICES ASSUME NEW S \in SUBSET U, Cardinality(S) = 0 PROVE S \in Good
    OBVIOUS
  <2>1. S = {}
    BY FS_Subset, FS_EmptySet
  <2> QED BY <2>1
<1>2. ASSUME NEW n \in Sizes PROVE n + 1 \in Sizes
  <2> SUFFICES ASSUME NEW S \in SUBSET U, Cardinality(S) = n + 1 PROVE S \in Good
    OBVIOUS
  <2>1. ASSUME NEW x \in S PROVE S \ {x} \in Good
    <3>1. IsFiniteSet(S)
      BY FS_Subset
    <3>2. Cardinality(S \ {x}) = Cardinality(S) - 1
      BY <3>1, FS_RemoveElement
    <3>3. Cardinality(S \ {x}) = n
      BY <3>2
    <3> QED BY <3>3
  <2> QED BY <2>1
<1>3. Sizes = Nat
  <2> HIDE DEF Sizes
  <2>1. Sizes \in SUBSET Nat
    BY DEF Sizes
  <2> QED BY <1>1, <1>2, <2>1, Induction
<1> SUFFICES ASSUME NEW S \in SUBSET U PROVE S \in Good
  OBVIOUS
<1>4. Cardinality(S) \in Nat
  BY FS_Subset, FS_CardinalityType
<1> QED BY <1>3, <1>4

\* What the library sums first.
Pick(s) == CHOOSE x \in s : TRUE
LEMMA Picked == \A s : s # {} => Pick(s) \in s
BY DEF Pick

\* A sum over s is the one over s without its first element, and that element.
Adds(f, g, s) == g[s] = IF s = {} THEN 0 ELSE f[Pick(s)] + g[s \ {Pick(s)}]
SumsOver(f, g, S) == \A s \in SUBSET S : Adds(f, g, s)
TotalsOf(f, g, S) == \A s \in SUBSET S : Scores!Total(f, s) = g[s]
Summands(f, S) == \A s \in S : f[s] \in Int

\* The recursion has a solution.
LEMMA SumExists ==
  ASSUME NEW S, IsFiniteSet(S), NEW f, Summands(f, S)
  PROVE  \E g \in [SUBSET S -> Int] : SumsOver(f, g, S)
<1> DEFINE Upto(n) == \E g \in [SUBSET S -> Int] :
                        \A s \in SUBSET S : Cardinality(s) <= n => Adds(f, g, s)
           Sizes == {n \in Nat : Upto(n)}
<1>1. ASSUME NEW s \in SUBSET S
      PROVE  /\ IsFiniteSet(s) /\ Cardinality(s) \in Nat
             /\ Cardinality(s) = 0 <=> s = {}
             /\ s # {} => /\ Pick(s) \in s /\ s \ {Pick(s)} \in SUBSET S
                          /\ Cardinality(s \ {Pick(s)}) = Cardinality(s) - 1
  <2>1. IsFiniteSet(s)
    BY FS_Subset
  <2>2. Cardinality(s) \in Nat /\ (Cardinality(s) = 0 <=> s = {})
    BY <2>1, FS_CardinalityType, FS_EmptySet
  <2>3. ASSUME s # {} PROVE Cardinality(s \ {Pick(s)}) = Cardinality(s) - 1
    BY <2>1, <2>3, Picked, FS_RemoveElement
  <2> QED BY <2>1, <2>2, <2>3, Picked
<1>2. 0 \in Sizes
  <2>1. [s \in SUBSET S |-> 0] \in [SUBSET S -> Int]
    OBVIOUS
  <2>2. ASSUME NEW s \in SUBSET S, Cardinality(s) <= 0 PROVE Adds(f, [r \in SUBSET S |-> 0], s)
    <3>1. Cardinality(s) = 0
      <4>1. Cardinality(s) \in Nat
        BY <1>1
      <4> QED BY <2>2, <4>1
    <3>2. s = {}
      BY <1>1, <3>1
    <3> QED BY <3>2 DEF Adds
  <2> QED BY <2>1, <2>2
<1>3. ASSUME NEW n \in Sizes PROVE n + 1 \in Sizes
  <2>0. n \in Nat
    OBVIOUS
  <2>1. PICK g \in [SUBSET S -> Int] :
          \A s \in SUBSET S : Cardinality(s) <= n => Adds(f, g, s)
    OBVIOUS
  <2>2. PICK h : h = [s \in SUBSET S |->
                        IF Cardinality(s) = n + 1 THEN f[Pick(s)] + g[s \ {Pick(s)}] ELSE g[s]]
    OBVIOUS
  <2>3. ASSUME NEW s \in SUBSET S PROVE h[s] \in Int
    <3>1. CASE Cardinality(s) = n + 1
      <4>1. s # {}
        <5>1. Cardinality(s) # 0
          BY <2>0, <3>1
        <5> QED BY <1>1, <5>1
      <4>2. f[Pick(s)] \in Int /\ g[s \ {Pick(s)}] \in Int
        BY <1>1, <4>1 DEF Summands
      <4> QED BY <2>2, <3>1, <4>2
    <3> QED BY <2>2, <3>1
  <2>4. h \in [SUBSET S -> Int]
    BY <2>2, <2>3
  <2>5. ASSUME NEW s \in SUBSET S, Cardinality(s) <= n + 1 PROVE Adds(f, h, s)
    <3>1. \A r \in SUBSET S : Cardinality(r) <= n => h[r] = g[r]
      BY <1>1, <2>2
    <3>2. CASE Cardinality(s) = n + 1
      <4>1. s # {} /\ h[s] = f[Pick(s)] + g[s \ {Pick(s)}]
        <5>1. Cardinality(s) # 0
          BY <2>0, <3>2
        <5> QED BY <1>1, <2>2, <3>2, <5>1
      <4>2. s \ {Pick(s)} \in SUBSET S /\ Cardinality(s \ {Pick(s)}) = n
        BY <1>1, <3>2, <4>1
      <4> QED BY <3>1, <4>1, <4>2 DEF Adds
    <3>3. CASE Cardinality(s) <= n
      <4>1. h[s] = g[s] /\ Adds(f, g, s)
        BY <2>1, <3>1, <3>3
      <4>2. ASSUME s # {} PROVE h[s \ {Pick(s)}] = g[s \ {Pick(s)}]
        <5>1. s \ {Pick(s)} \in SUBSET S /\ Cardinality(s \ {Pick(s)}) <= n
          BY <1>1, <3>3, <4>2
        <5> QED BY <3>1, <5>1
      <4> QED BY <4>1, <4>2 DEF Adds
    <3>4. Cardinality(s) = n + 1 \/ Cardinality(s) <= n
      <4>1. Cardinality(s) \in Nat
        BY <1>1
      <4> QED BY <2>0, <2>5, <4>1
    <3> QED BY <3>2, <3>3, <3>4
  <2> QED BY <2>4, <2>5
<1>4. Sizes = Nat
  <2> HIDE DEF Sizes
  <2>1. Sizes \in SUBSET Nat
    BY DEF Sizes
  <2> QED BY <1>2, <1>3, <2>1, Induction
<1>5. Cardinality(S) \in Sizes
  BY <1>1, <1>4
<1>6. PICK g \in [SUBSET S -> Int] :
        \A s \in SUBSET S : Cardinality(s) <= Cardinality(S) => Adds(f, g, s)
  BY <1>5
<1>7. \A s \in SUBSET S : Cardinality(s) <= Cardinality(S)
  BY FS_Subset
<1> QED BY <1>6, <1>7 DEF SumsOver

\* It has one.
LEMMA SumUnique ==
  ASSUME NEW U, IsFiniteSet(U), NEW S \in SUBSET U, NEW f, NEW g, NEW h,
         SumsOver(f, g, U), SumsOver(f, h, S)
  PROVE  \A s \in SUBSET S : g[s] = h[s]
<1> DEFINE Good == {s \in SUBSET S : g[s] = h[s]}
<1>1. IsFiniteSet(S)
  BY FS_Subset
<1>2. ASSUME NEW s \in SUBSET S, \A x \in s : s \ {x} \in Good PROVE s \in Good
  <2>1. s # {} => g[s \ {Pick(s)}] = h[s \ {Pick(s)}]
    BY <1>2, Picked
  <2> QED BY <2>1 DEF Adds, SumsOver
<1>3. Good = SUBSET S
  <2> HIDE DEF Good
  <2>1. Good \in SUBSET (SUBSET S)
    BY DEF Good
  <2> QED BY <1>1, <1>2, <2>1, SetInduction
<1> QED BY <1>3

\* The sum of the library is what it is said to be.
LEMMA TotalAdds ==
  ASSUME NEW U, IsFiniteSet(U), NEW f, Summands(f, U)
  PROVE  \E g \in [SUBSET U -> Int] :
           SumsOver(f, g, U) /\ TotalsOf(f, g, U)
<1>1. PICK g \in [SUBSET U -> Int] : SumsOver(f, g, U)
  BY SumExists
<1>2. ASSUME NEW S \in SUBSET U PROVE Scores!Total(f, S) = g[S]
  <2> DEFINE Solves(it) ==
        it = [s \in SUBSET S |-> IF s = {} THEN 0 ELSE f[Pick(s)] + it[s \ {Pick(s)}]]
  <2>1. PICK it : Scores!Total(f, S) = it[S] /\ it = CHOOSE h : Solves(h)
    BY DEF Scores!Total, Scores!MapThenSumSet, Scores!MapThenFoldSet, Pick
  <2>2. PICK h \in [SUBSET S -> Int] : SumsOver(f, h, S)
    <3>1. IsFiniteSet(S) /\ Summands(f, S)
      BY FS_Subset DEF Summands
    <3> QED BY <3>1, SumExists
  <2>3. Solves(h)
    BY <2>2 DEF Adds, SumsOver
  <2>4. Solves(it)
    <3> HIDE DEF Solves
    <3> QED BY <2>1, <2>3
  <2>5. SumsOver(f, it, S)
    BY <2>4 DEF Adds, SumsOver
  <2>6. \A s \in SUBSET S : g[s] = it[s]
    BY <1>1, <2>5, SumUnique
  <2> QED BY <2>1, <2>6
<1> QED BY <1>1, <1>2 DEF TotalsOf

\* A sum is the sum without an element, and that element, whichever it is.
LEMMA TotalSplits ==
  ASSUME NEW U, IsFiniteSet(U), NEW f, Summands(f, U)
  PROVE  /\ Scores!Total(f, {}) = 0
         /\ \A S \in SUBSET U : Scores!Total(f, S) \in Int
         /\ \A S \in SUBSET U : \A x \in S :
              Scores!Total(f, S) = f[x] + Scores!Total(f, S \ {x})
<1>1. PICK g \in [SUBSET U -> Int] :
        SumsOver(f, g, U) /\ TotalsOf(f, g, U)
  BY TotalAdds
<1> DEFINE Splits(S) == \A x \in S : g[S] = f[x] + g[S \ {x}]
           Good == {S \in SUBSET U : Splits(S)}
<1>2. ASSUME NEW S \in SUBSET U, \A x \in S : S \ {x} \in Good PROVE S \in Good
  <2> SUFFICES ASSUME NEW x \in S PROVE g[S] = f[x] + g[S \ {x}]
    OBVIOUS
  <2>1. PICK p \in S : g[S] = f[p] + g[S \ {p}]
    BY <1>1, Picked DEF Adds, SumsOver
  <2>2. CASE p = x
    BY <2>1, <2>2
  <2>3. CASE p # x
    <3>1. g[S \ {p}] = f[x] + g[(S \ {p}) \ {x}]
      BY <1>2, <2>3
    <3>2. g[S \ {x}] = f[p] + g[(S \ {x}) \ {p}]
      BY <1>2, <2>3
    <3>3. (S \ {p}) \ {x} = (S \ {x}) \ {p}
      OBVIOUS
    <3>4. PICK rest, a, b : rest = g[(S \ {p}) \ {x}] /\ a = f[x] /\ b = f[p]
      OBVIOUS
    <3>5. a \in Int /\ b \in Int /\ rest \in Int
      <4>1. (S \ {p}) \ {x} \in SUBSET U
        OBVIOUS
      <4> QED BY <1>1, <3>4, <4>1 DEF Summands
    <3>6. g[S] = b + (a + rest)
      BY <2>1, <3>1, <3>4
    <3>7. g[S \ {x}] = b + rest
      BY <3>2, <3>3, <3>4
    <3> QED BY <3>4, <3>5, <3>6, <3>7
  <2> QED BY <2>2, <2>3
<1>3. Good = SUBSET U
  <2> HIDE DEF Good
  <2>1. Good \in SUBSET (SUBSET U)
    BY DEF Good
  <2> QED BY <1>2, <2>1, SetInduction
<1>4. \A S \in SUBSET U : Scores!Total(f, S) \in Int
  BY <1>1 DEF TotalsOf
<1>5. Scores!Total(f, {}) = 0
  BY <1>1 DEF Adds, SumsOver, TotalsOf
<1>6. ASSUME NEW S \in SUBSET U, NEW x \in S
      PROVE  Scores!Total(f, S) = f[x] + Scores!Total(f, S \ {x})
  <2>1. Splits(S)
    BY <1>3
  <2>2. S \ {x} \in SUBSET U
    OBVIOUS
  <2> QED BY <1>1, <2>1, <2>2 DEF TotalsOf
<1> QED BY <1>4, <1>5, <1>6

\* A bound of each term of a combination of two sums bounds the combination.
Combined(f, g, a, b, k, S) == \A s \in S : a * f[s] + b * g[s] <= k
LEMMA Distributes ==
  ASSUME NEW a \in Int, NEW p \in Int, NEW q \in Int
  PROVE  a * (p + q) = a * p + a * q /\ a * p \in Int /\ a * q \in Int
OBVIOUS

LEMMA TotalsCombine ==
  ASSUME NEW U, IsFiniteSet(U), NEW f, Summands(f, U), NEW g, Summands(g, U),
         NEW a \in Int, NEW b \in Int, NEW k \in Int, Combined(f, g, a, b, k, U)
  PROVE  a * Scores!Total(f, U) + b * Scores!Total(g, U) <= k * Cardinality(U)
<1> DEFINE Kept(S) == a * Scores!Total(f, S) + b * Scores!Total(g, S) <= k * Cardinality(S)
           Good == {S \in SUBSET U : Kept(S)}
<1>1. ASSUME NEW S \in SUBSET U
      PROVE  /\ IsFiniteSet(S) /\ Cardinality(S) \in Nat
             /\ Scores!Total(f, S) \in Int /\ Scores!Total(g, S) \in Int
  <2>1. IsFiniteSet(S) /\ Cardinality(S) \in Nat
    BY FS_Subset, FS_CardinalityType
  <2> QED BY <2>1, TotalSplits
<1>2. {} \in Good
  <2>1. Cardinality({}) = 0 /\ Scores!Total(f, {}) = 0 /\ Scores!Total(g, {}) = 0
    BY FS_EmptySet, TotalSplits
  <2> QED BY <2>1
<1>3. ASSUME NEW S \in SUBSET U, NEW x \in S, S \ {x} \in Good PROVE S \in Good
  <2>1. PICK F, G, n : /\ F = Scores!Total(f, S \ {x}) /\ G = Scores!Total(g, S \ {x})
                       /\ n = Cardinality(S \ {x})
    OBVIOUS
  <2>2. F \in Int /\ G \in Int /\ n \in Nat /\ a * F + b * G <= k * n
    <3>1. S \ {x} \in SUBSET U
      OBVIOUS
    <3> QED BY <1>1, <1>3, <2>1, <3>1
  <2>3. PICK p, q : p = f[x] /\ q = g[x]
    OBVIOUS
  <2>4. p \in Int /\ q \in Int /\ a * p + b * q <= k
    BY <2>3 DEF Summands, Combined
  <2>5. Scores!Total(f, S) = p + F
    BY <2>1, <2>3, TotalSplits
  <2>6. Scores!Total(g, S) = q + G
    BY <2>1, <2>3, TotalSplits
  <2>7. Cardinality(S) = n + 1
    <3>1. IsFiniteSet(S) /\ Cardinality(S) \in Nat
      BY <1>1
    <3>2. Cardinality(S \ {x}) = Cardinality(S) - 1
      BY <3>1, FS_RemoveElement
    <3> QED BY <2>1, <3>1, <3>2
  <2>8. a * (p + F) + b * (q + G) <= k * (n + 1)
    <3>1. a * (p + F) = a * p + a * F /\ a * p \in Int /\ a * F \in Int
      BY <2>2, <2>4, Distributes
    <3>2. b * (q + G) = b * q + b * G /\ b * q \in Int /\ b * G \in Int
      BY <2>2, <2>4, Distributes
    <3>3. k * (n + 1) = k * n + k /\ k * n \in Int
      BY <2>2
    <3> QED BY <2>2, <2>4, <3>1, <3>2, <3>3
  <2> QED BY <2>5, <2>6, <2>7, <2>8
<1>4. ASSUME NEW S \in SUBSET U, \A x \in S : S \ {x} \in Good PROVE S \in Good
  <2> HIDE DEF Good
  <2>1. CASE S = {}
    BY <1>2, <2>1
  <2>2. CASE S # {}
    BY <1>3, <1>4, <2>2
  <2> QED BY <2>1, <2>2
<1>5. Good = SUBSET U
  <2> HIDE DEF Good
  <2>1. Good \in SUBSET (SUBSET U)
    BY DEF Good
  <2> QED BY <1>4, <2>1, SetInduction
<1>6. U \in Good
  BY <1>5
<1> QED BY <1>6

\* What is nothing adds nothing.
LEMMA TotalSupport ==
  ASSUME NEW U, IsFiniteSet(U), NEW f, Summands(f, U), NEW S \in SUBSET U,
         \A s \in U \ S : f[s] = 0
  PROVE  Scores!Total(f, U) = Scores!Total(f, S)
<1> DEFINE Good == {R \in SUBSET U : Scores!Total(f, R) = Scores!Total(f, R \cap S)}
<1>1. ASSUME NEW R \in SUBSET U, NEW x \in R, R \ {x} \in Good PROVE R \in Good
  <2>1. Scores!Total(f, R \ {x}) = Scores!Total(f, (R \ {x}) \cap S)
    BY <1>1
  <2>2. Scores!Total(f, R) = f[x] + Scores!Total(f, R \ {x})
    BY TotalSplits
  <2>3. CASE x \in S
    <3>1. (R \ {x}) \cap S = (R \cap S) \ {x} /\ R \cap S \in SUBSET U /\ x \in R \cap S
      BY <2>3
    <3>2. Scores!Total(f, R \cap S) = f[x] + Scores!Total(f, (R \cap S) \ {x})
      BY <3>1, TotalSplits
    <3> QED BY <2>1, <2>2, <3>1, <3>2
  <2>4. CASE x \notin S
    <3>1. (R \ {x}) \cap S = R \cap S /\ f[x] = 0
      BY <2>4
    <3>2. Scores!Total(f, R \ {x}) \in Int
      BY TotalSplits
    <3>3. Scores!Total(f, R) = Scores!Total(f, R \ {x})
      BY <2>2, <3>1, <3>2
    <3> QED BY <2>1, <3>1, <3>3
  <2> QED BY <2>3, <2>4
<1>2. ASSUME NEW R \in SUBSET U, \A x \in R : R \ {x} \in Good PROVE R \in Good
  <2>1. CASE R = {}
    <3>1. R \cap S = R
      BY <2>1
    <3> QED BY <3>1
  <2>2. CASE R # {}
    <3> HIDE DEF Good
    <3> QED BY <1>1, <1>2, <2>2
  <2> QED BY <2>1, <2>2
<1>3. Good = SUBSET U
  <2> HIDE DEF Good
  <2>1. Good \in SUBSET (SUBSET U)
    BY DEF Good
  <2> QED BY <1>2, <2>1, SetInduction
<1>4. U \in Good /\ U \cap S = S
  BY <1>3
<1> QED BY <1>4

\* A finite set of integers has a least and a greatest member.
LEMMA EndsInside ==
  ASSUME NEW S, IsFiniteSet(S), S \subseteq Int, S # {}
  PROVE  Scores!Min(S) \in S /\ Scores!Max(S) \in S
<1> DEFINE Least(R) == \E x \in R : \A y \in R : x <= y
           Most(R) == \E x \in R : \A y \in R : y <= x
           Good == {R \in SUBSET S : R = {} \/ (Least(R) /\ Most(R))}
<1>1. ASSUME NEW R \in SUBSET S, \A x \in R : R \ {x} \in Good PROVE R \in Good
  <2> SUFFICES ASSUME NEW x \in R PROVE Least(R) /\ Most(R)
    OBVIOUS
  <2>1. CASE R \ {x} = {}
    <3>1. \A y \in R : y = x
      BY <2>1
    <3>2. x \in Int
      OBVIOUS
    <3> QED BY <3>1, <3>2
  <2>2. CASE R \ {x} # {}
    <3>1. PICK a \in R \ {x} : \A y \in R \ {x} : a <= y
      BY <1>1, <2>2
    <3>2. PICK b \in R \ {x} : \A y \in R \ {x} : y <= b
      BY <1>1, <2>2
    <3>3. a \in Int /\ b \in Int /\ x \in Int /\ R \subseteq Int
      OBVIOUS
    <3>4. Least(R)
      <4>1. CASE a <= x
        BY <3>1, <3>3, <4>1
      <4>2. CASE x <= a
        <5>1. \A y \in R : x <= y
          BY <3>1, <3>3, <4>2
        <5> QED BY <5>1
      <4> QED BY <3>3, <4>1, <4>2
    <3>5. Most(R)
      <4>1. CASE x <= b
        BY <3>2, <3>3, <4>1
      <4>2. CASE b <= x
        <5>1. \A y \in R : y <= x
          BY <3>2, <3>3, <4>2
        <5> QED BY <5>1
      <4> QED BY <3>3, <4>1, <4>2
    <3> QED BY <3>4, <3>5
  <2> QED BY <2>1, <2>2
<1>2. Good = SUBSET S
  <2> HIDE DEF Good
  <2>1. Good \in SUBSET (SUBSET S)
    BY DEF Good
  <2> QED BY <1>1, <2>1, SetInduction
<1>3. Least(S) /\ Most(S)
  BY <1>2
<1>4. \E x \in S : \A y \in S : x >= y
  BY <1>3
<1> QED BY <1>3, <1>4 DEF Scores!Min, Scores!Max

LEMMA Quotient ==
  ASSUME NEW a \in Int, NEW d \in Int, d > 0
  PROVE  a \div d \in Int /\ d * (a \div d) <= a /\ a < d * (a \div d) + d
OBVIOUS

LEMMA Remainder ==
  ASSUME NEW a \in Int, NEW d \in Int, d > 0
  PROVE  a = d * (a \div d) + (a % d)
OBVIOUS

LEMMA Product == ASSUME NEW a \in Int, NEW b \in Int PROVE a * b \in Int
OBVIOUS

LEMMA Grows ==
  ASSUME NEW a \in Int, NEW b \in Int, NEW c \in Int, a <= b, c >= 0
  PROVE  c * a <= c * b
OBVIOUS

LEMMA WholeBelow ==
  ASSUME NEW r \in Int, NEW m \in Int, NEW w \in Int, w > 0, 2 * (w * r) <= 2 * (w * m) + w
  PROVE  r <= m
OBVIOUS
LEMMA WholeAbove ==
  ASSUME NEW r \in Int, NEW m \in Int, NEW w \in Int, w > 0, 2 * (w * r) + w > 2 * (w * m) 
  PROVE  r >= m
<1> SUFFICES ASSUME r + 1 <= m PROVE FALSE
  OBVIOUS
<1>1. w * (r + 1) <= w * m
  BY Grows
<1>2. w * (r + 1) = w * r + w
  OBVIOUS
<1> QED BY <1>1, <1>2, Product

\* A rounded quotient is half a unit from the quotient, at most.
LEMMA RoundedNear ==
  ASSUME NEW a \in Int, NEW b \in Int, b > 0
  PROVE  /\ Scores!Rounded(a, b) \in Int
         /\ 2 * (b * Scores!Rounded(a, b)) <= 2 * a + b
         /\ 2 * a < 2 * (b * Scores!Rounded(a, b)) + b
<1> DEFINE q == (2 * a + b) \div (2 * b)
<1>1. 2 * a + b \in Int /\ 2 * b \in Int /\ 2 * b > 0
  OBVIOUS
<1>2. q \in Int /\ (2 * b) * q <= 2 * a + b /\ 2 * a + b < (2 * b) * q + 2 * b
  <2> HIDE DEF q
  <2> QED BY <1>1, Quotient DEF q
<1>3. (2 * b) * q = 2 * (b * q) /\ b * q \in Int
  <2> HIDE DEF q
  <2> QED BY <1>2
<1> HIDE DEF q
<1>4. Scores!Rounded(a, b) = q
  BY DEF Scores!Rounded, q
<1> QED BY <1>2, <1>3, <1>4

LEMMA RoundingNear ==
  ASSUME NEW a \in Int, NEW b \in Int, b > 0, NEW v \in Scores!Roundings(a, b)
  PROVE  v \in Int /\ 2 * (b * v) <= 2 * a + b /\ 2 * a <= 2 * (b * v) + b
<1>1. PICK q : q = Scores!Rounded(a, b)
  OBVIOUS
<1>2. q \in Int /\ 2 * (b * q) <= 2 * a + b /\ 2 * a < 2 * (b * q) + b /\ b * q \in Int
  BY <1>1, RoundedNear, Product
<1>3. CASE v = q
  BY <1>2, <1>3
<1>4. CASE Scores!HalfWay(a, b) /\ v = q - 1
  <2>1. PICK m : m = (2 * a) \div (2 * b)
    OBVIOUS
  <2>2. 2 * a \in Int /\ 2 * b \in Int /\ 2 * b > 0
    OBVIOUS
  <2>3. m \in Int /\ 2 * a = (2 * b) * m + b
    BY <1>4, <2>1, <2>2, Quotient, Remainder DEF Scores!HalfWay
  <2>4. (2 * b) * m = 2 * (b * m) /\ b * m \in Int /\ b * (m + 1) = b * m + b
    BY <2>3
  <2>5. b * v = b * q - b
    BY <1>2, <1>4
  <2>6. b * m < b * q /\ b * q <= b * m + b
    BY <1>2, <2>3, <2>4
  <2> QED BY <1>2, <1>4, <2>3, <2>4, <2>5, <2>6
<1> QED BY <1>1, <1>3, <1>4 DEF Scores!Roundings

LEMMA RoundingsFinite ==
  ASSUME NEW a, NEW b
  PROVE  IsFiniteSet(Scores!Roundings(a, b)) /\ Scores!Roundings(a, b) # {}
<1>1. PICK q : q = Scores!Rounded(a, b)
  OBVIOUS
<1>2. IsFiniteSet({q}) /\ IsFiniteSet({q - 1}) /\ IsFiniteSet({})
  BY FS_Singleton, FS_EmptySet
<1>3. IsFiniteSet({q} \cup {q - 1}) /\ IsFiniteSet({q} \cup {})
  BY <1>2, FS_Union
<1> QED BY <1>1, <1>3 DEF Scores!Roundings

\* Two roundings, one of the weight and one of the points, cost a unit of the total weight.
LEMMA Near ==
  ASSUME NEW n \in Int, 0 <= n, n <= 10000, NEW wt \in Int, NEW W \in Int, W > 0,
         NEW w \in Scores!Roundings(wt * 10000, W),
         NEW p \in Scores!Roundings(n * w, 10000)
  PROVE  p \in Int /\ W * p - wt * n <= W /\ wt * n - W * p <= W
<1>1. w \in Int /\ 2 * (W * w) <= 2 * (wt * 10000) + W /\ 2 * (wt * 10000) <= 2 * (W * w) + W
  BY RoundingNear
<1>2. n * w \in Int /\ 10000 \in Int /\ 10000 > 0
  BY <1>1
<1>3. p \in Int /\ 2 * (10000 * p) <= 2 * (n * w) + 10000 /\ 2 * (n * w) <= 2 * (10000 * p) + 10000
  <2> HIDE <1>1
  <2> QED BY <1>2, RoundingNear
<1>4. PICK x, y, z, nW : x = W * w /\ y = n * w /\ z = wt * n /\ nW = n * W
  OBVIOUS
<1>5. PICK u, v : u = W * p /\ v = n * x
  OBVIOUS
<1>6. x \in Int /\ y \in Int /\ z \in Int /\ nW \in Int /\ u \in Int /\ v \in Int
  BY <1>1, <1>3, <1>4, <1>5, Product
\* the weight's error, n times
<1>7. 2 * v <= 20000 * z + nW /\ 20000 * z <= 2 * v + nW
  <2>1. n * (2 * x) <= n * (20000 * wt + W) /\ n * (20000 * wt) <= n * (2 * x + W)
    <3>1. 2 * x <= 20000 * wt + W /\ 20000 * wt <= 2 * x + W
      BY <1>1, <1>4
    <3> QED BY <1>6, <3>1, Grows
  <2>2. n * (2 * x) = 2 * v
    BY <1>5, <1>6
  <2>3. n * (20000 * wt + W) = 20000 * z + nW /\ n * (20000 * wt) = 20000 * z
    BY <1>4
  <2>4. n * (2 * x + W) = 2 * v + nW
    BY <1>4, <1>5, <1>6
  <2> QED BY <2>1, <2>2, <2>3, <2>4
<1>8. nW <= 10000 * W
  BY <1>4, Grows
\* the points' error, W times
<1>9. 20000 * u <= 2 * (W * y) + 10000 * W /\ 2 * (W * y) <= 20000 * u + 10000 * W
  <2>1. W * (20000 * p) <= W * (2 * y + 10000) /\ W * (2 * y) <= W * (20000 * p + 10000)
    <3>1. 20000 * p <= 2 * y + 10000 /\ 2 * y <= 20000 * p + 10000
      BY <1>3, <1>4
    <3> QED BY <1>3, <1>6, <3>1, Grows
  <2>2. W * (20000 * p) = 20000 * u /\ W * (20000 * p + 10000) = 20000 * u + 10000 * W
    BY <1>3, <1>5
  <2>3. W * (2 * y) = 2 * (W * y) /\ W * (2 * y + 10000) = 2 * (W * y) + 10000 * W
    BY <1>6
  <2> QED BY <2>1, <2>2, <2>3
<1>10. W * y = v
  BY <1>1, <1>4, <1>5
<1>11. 20000 * u <= 20000 * z + 20000 * W /\ 20000 * z <= 20000 * u + 20000 * W
  <2> HIDE <1>5
  <2> QED BY <1>6, <1>7, <1>8, <1>9, <1>10
<1> QED BY <1>3, <1>4, <1>5, <1>6, <1>11

\* The eight signals, each with a weight.
LEMMA SignalsWeigh ==
  /\ IsFiniteSet(Scores!Signal)
  /\ \A s \in Scores!Signal : Scores!Weight[s] \in Int /\ Scores!Weight[s] >= 1
<1>1. Scores!Signal = {"velocity_burst", "content_novelty", "silent_edit", "source_divergence"}
                        \cup {"watchlist_match", "amplification_asymmetry", "sentiment_shift",
                              "temporal_anomaly"}
  BY DEF Scores!Signal, Scores!Weight
<1>2. ASSUME NEW a, NEW b, NEW c, NEW d PROVE IsFiniteSet({a, b, c, d})
  <2>1. IsFiniteSet({} \cup {a}) /\ IsFiniteSet({})
    BY FS_EmptySet, FS_AddElement
  <2>2. IsFiniteSet(({} \cup {a}) \cup {b})
    BY <2>1, FS_AddElement
  <2>3. IsFiniteSet((({} \cup {a}) \cup {b}) \cup {c})
    BY <2>2, FS_AddElement
  <2>4. IsFiniteSet(((({} \cup {a}) \cup {b}) \cup {c}) \cup {d})
    BY <2>3, FS_AddElement
  <2>5. (((({} \cup {a}) \cup {b}) \cup {c}) \cup {d}) = {a, b, c, d}
    OBVIOUS
  <2> QED BY <2>4, <2>5
<1>3. IsFiniteSet(Scores!Signal)
  <2> DEFINE A == {"velocity_burst", "content_novelty", "silent_edit", "source_divergence"}
             B == {"watchlist_match", "amplification_asymmetry", "sentiment_shift",
                   "temporal_anomaly"}
  <2>1. IsFiniteSet(A) /\ IsFiniteSet(B) /\ Scores!Signal = A \cup B
    BY <1>1, <1>2
  <2> HIDE DEF A, B
  <2> QED BY <2>1, FS_Union
<1>4. \A s \in Scores!Signal : Scores!Weight[s] \in Int /\ Scores!Weight[s] >= 1
  BY <1>1 DEF Scores!Weight
<1> QED BY <1>3, <1>4

\* Some signals have some weight.
LEMMA SignalsOutweigh ==
  ASSUME NEW S \in SUBSET Scores!Signal
  PROVE  /\ IsFiniteSet(S) /\ Cardinality(S) \in Nat /\ Summands(Scores!Weight, S)
         /\ Scores!WeightOf(S) \in Int
         /\ S # {} => Scores!WeightOf(S) > 0
<1>1. IsFiniteSet(S) /\ Cardinality(S) \in Nat /\ Summands(Scores!Weight, S)
  BY SignalsWeigh, FS_Subset, FS_CardinalityType DEF Summands
<1>2. PICK f : f = Scores!Weight
  OBVIOUS
<1>3. PICK W : W = Scores!Total(f, S) /\ Scores!WeightOf(S) = W
  BY <1>2 DEF Scores!WeightOf
<1>4. W \in Int
  BY <1>1, <1>2, <1>3, TotalSplits
<1>5. Combined(f, f, -1, 0, -1, S)
  BY <1>2, SignalsWeigh DEF Combined
<1>6. (-1) * W + 0 * W <= (-1) * Cardinality(S)
  BY <1>1, <1>2, <1>3, <1>5, TotalsCombine
<1>7. ASSUME S # {} PROVE Cardinality(S) > 0
  <2>1. Cardinality(S) # 0
    BY <1>1, <1>7, FS_EmptySet
  <2> QED BY <1>1, <2>1
<1> QED BY <1>1, <1>3, <1>4, <1>6, <1>7

\* The points a signal may be given are finitely many, and there are some.
LEMMA PointsFinite ==
  ASSUME NEW s
  PROVE  IsFiniteSet(Scores!Points(s)) /\ Scores!Points(s) # {}
<1>1. PICK q, n : /\ q = Scores!Rounded(Scores!Weight[s] * 10000, Scores!WeightOf(Scores!Included))
                  /\ n = gObservations[s].normalized
  OBVIOUS
<1>2. q \in Scores!Effective(s) /\ Scores!Effective(s) \subseteq {q, q - 1}
  BY <1>1 DEF Scores!Effective, Scores!Roundings
<1>3. Scores!Points(s) \subseteq Scores!Roundings(n * q, 10000)
                                   \cup Scores!Roundings(n * (q - 1), 10000)
  BY <1>1, <1>2 DEF Scores!Points
<1>4. IsFiniteSet(Scores!Roundings(n * q, 10000) \cup Scores!Roundings(n * (q - 1), 10000))
  <2>1. PICK A, B : A = Scores!Roundings(n * q, 10000) /\ B = Scores!Roundings(n * (q - 1), 10000)
    OBVIOUS
  <2>2. IsFiniteSet(A) /\ IsFiniteSet(B)
    BY <2>1, RoundingsFinite
  <2>3. IsFiniteSet(A \cup B)
    BY <2>2, FS_Union
  <2> QED BY <2>1, <2>3
<1>5. Scores!Roundings(n * q, 10000) \subseteq Scores!Points(s)
  BY <1>1, <1>2 DEF Scores!Points
<1>6. IsFiniteSet(Scores!Points(s))
  BY <1>3, <1>4, FS_Subset
<1>7. Scores!Points(s) # {}
  BY <1>5, RoundingsFinite
<1> QED BY <1>6, <1>7

----------------------------------------------------------------------------
\* What was measured, and, of a score, that its terms are near what they stand for.
Readings == gObservations \in [Scores!Signal -> Scores!Reading \cup {Scores!NoReading}]
TermNear(s) ==
  LET W == Scores!WeightOf(Scores!Included)
      term == Scores!Weight[s] * gObservations[s].normalized
  IN W * gContribution[s] - term <= W /\ term - W * gContribution[s] <= W
Scored ==
  /\ \A s \in Scores!Signal : gContribution[s] \in Int
  /\ \A s \in Scores!Signal \ Scores!Included : gContribution[s] = 0
  /\ \A s \in Scores!Included : TermNear(s)
  /\ gScore = Scores!Total(gContribution, Scores!Signal)
ScoreInv == Readings /\ (gBand # "none" => Scored)

LEMMA ReadingsTyped ==
  ASSUME Readings, NEW s \in Scores!Signal
  PROVE  /\ gObservations[s].normalized \in Int
         /\ 0 <= gObservations[s].normalized /\ gObservations[s].normalized <= 10000
<1>1. gObservations[s] \in Scores!Reading \cup {Scores!NoReading}
  BY DEF Readings
<1>2. Normalized \subseteq 0 .. 10000
  BY NormalizedAssumption
<1>3. PICK r, n : r = gObservations[s] /\ n = r.normalized
  OBVIOUS
<1>4. n \in 0 .. 10000
  <2>1. CASE r \in Scores!Reading
    <3>1. n \in Normalized
      BY <1>3, <2>1 DEF Scores!Reading
    <3> QED BY <1>2, <3>1
  <2>2. CASE r = Scores!NoReading
    BY <1>3, <2>2 DEF Scores!NoReading
  <2>3. r \in Scores!Reading \/ r = Scores!NoReading
    BY <1>1, <1>3
  <2> QED BY <2>1, <2>2, <2>3
<1>5. n \in Int /\ 0 <= n /\ n <= 10000
  BY <1>4
<1> QED BY <1>3, <1>5

LEMMA IncludedWeighs ==
  /\ Scores!Included \in SUBSET Scores!Signal
  /\ Scores!WeightOf(Scores!Included) \in Int
  /\ Scores!Included # {} => Scores!WeightOf(Scores!Included) > 0
<1>1. Scores!Included \in SUBSET Scores!Signal
  BY DEF Scores!Included
<1> QED BY <1>1, SignalsOutweigh

LEMMA PointsNear ==
  ASSUME Readings, NEW s \in Scores!Included, NEW p \in Scores!Points(s)
  PROVE  LET W == Scores!WeightOf(Scores!Included)
             term == Scores!Weight[s] * gObservations[s].normalized
         IN p \in Int /\ W * p - term <= W /\ term - W * p <= W
<1>1. PICK W, wt, n : /\ W = Scores!WeightOf(Scores!Included)
                      /\ wt = Scores!Weight[s] /\ n = gObservations[s].normalized
  OBVIOUS
<1>2. W \in Int /\ W > 0 /\ wt \in Int /\ n \in Int /\ 0 <= n /\ n <= 10000
  BY <1>1, IncludedWeighs, SignalsWeigh, ReadingsTyped
<1>3. PICK w \in Scores!Roundings(wt * 10000, W) : p \in Scores!Roundings(n * w, 10000)
  BY <1>1 DEF Scores!Points, Scores!Effective
<1> QED BY <1>1, <1>2, <1>3, Near

LEMMA ScoreInductive == ASSUME ScoreInv, [Scores!Next]_gVars PROVE ScoreInv'
<1>1. CASE UNCHANGED gVars
  <2>1. UNCHANGED <<gObservations, gContribution, gScore, gBand>>
    BY <1>1 DEF gVars
  <2>2. Scores!Included' = Scores!Included
    BY <2>1 DEF Scores!Included
  <2> QED BY <2>1, <2>2 DEF ScoreInv, Readings, Scored, TermNear
<1>2. CASE Scores!Observe
  <2>1. gBand' = "none" /\ gBand = "none"
    BY <1>2 DEF Scores!Observe
  <2>2. PICK s \in Measured, r \in Scores!Reading : gObservations' = [gObservations EXCEPT ![s] = r]
    BY <1>2 DEF Scores!Observe
  <2>3. Readings'
    BY <2>2 DEF ScoreInv, Readings
  <2> QED BY <2>1, <2>3 DEF ScoreInv
<1>3. CASE Scores!Score
  <2>1. Readings /\ gObservations' = gObservations
    BY <1>3 DEF Scores!Score, ScoreInv
  <2>2. PICK down : gContribution' = [s \in Scores!Signal |->
          IF s \notin Scores!Included THEN 0
          ELSE IF s \in down THEN Scores!Min(Scores!Points(s)) ELSE Scores!Max(Scores!Points(s))]
    BY <1>3 DEF Scores!Score
  <2>3. gScore' = Scores!Total(gContribution', Scores!Signal)
    BY <1>3 DEF Scores!Score
  <2>4. ASSUME NEW s \in Scores!Included
        PROVE  gContribution'[s] \in Scores!Points(s)
    <3>1. Scores!Points(s) \subseteq Int
      BY <2>1, PointsNear
    <3>2. Scores!Min(Scores!Points(s)) \in Scores!Points(s)
          /\ Scores!Max(Scores!Points(s)) \in Scores!Points(s)
      BY <3>1, PointsFinite, EndsInside
    <3>3. s \in Scores!Signal
      BY IncludedWeighs
    <3> QED BY <2>2, <3>2, <3>3
  <2>5. Scores!Included' = Scores!Included
    BY <2>1 DEF Scores!Included
  <2>6. ASSUME NEW s \in Scores!Included PROVE gContribution'[s] \in Int /\ TermNear(s)'
    BY <2>1, <2>4, <2>5, PointsNear DEF TermNear
  <2>7. ASSUME NEW s \in Scores!Signal \ Scores!Included PROVE gContribution'[s] = 0
    BY <2>2
  <2>8. Scored'
    BY <2>3, <2>5, <2>6, <2>7 DEF Scored
  <2>9. Readings'
    BY <2>1 DEF Readings
  <2> QED BY <2>8, <2>9 DEF ScoreInv
<1> QED BY <1>1, <1>2, <1>3 DEF Scores!Next

LEMMA ScoresCount == ASSUME NEW S PROVE Scores!Cardinality(S) = Cardinality(S)
BY DEF Cardinality, Scores!Cardinality

\* A sum is of the values on its set.
LEMMA TotalSame ==
  ASSUME NEW U, IsFiniteSet(U), NEW f, NEW g, Summands(f, U), \A s \in U : f[s] = g[s]
  PROVE  Scores!Total(f, U) = Scores!Total(g, U)
<1>1. Summands(g, U)
  BY DEF Summands
<1>2. PICK F, G : F = Scores!Total(f, U) /\ G = Scores!Total(g, U)
  OBVIOUS
<1>3. F \in Int /\ G \in Int /\ Cardinality(U) \in Nat
  BY <1>1, <1>2, TotalSplits, FS_CardinalityType
<1>4. \A s \in U : f[s] \in Int /\ g[s] \in Int
  BY <1>1 DEF Summands
<1>5. Combined(f, g, 1, -1, 0, U) /\ Combined(f, g, -1, 1, 0, U)
  BY <1>4 DEF Combined
<1>6. 1 * F + (-1) * G <= 0 * Cardinality(U) /\ (-1) * F + 1 * G <= 0 * Cardinality(U)
  BY <1>1, <1>2, <1>5, TotalsCombine
<1> QED BY <1>2, <1>3, <1>6

----------------------------------------------------------------------------
\* A mean that is at least, or at most, m, up to the rounding, rounds to at least, or at most, m.
LEMMA RoundsAbove ==
  ASSUME NEW t \in Int, NEW v \in Int, v > 0, NEW m \in Int, v * m <= t
  PROVE  Scores!Rounded(t, v) \in Int /\ Scores!Rounded(t, v) >= m
<1>1. PICK r : r = Scores!Rounded(t, v)
  OBVIOUS
<1>2. r \in Int /\ 2 * t < 2 * (v * r) + v
  BY <1>1, RoundedNear
<1>3. v * r \in Int /\ v * m \in Int
  BY <1>2, Product
<1>4. 2 * (v * r) + v > 2 * (v * m)
  BY <1>2, <1>3
<1> QED BY <1>1, <1>2, <1>4, WholeAbove

LEMMA RoundsBelow ==
  ASSUME NEW t \in Int, NEW v \in Int, v > 0, NEW m \in Int, t <= v * m
  PROVE  Scores!Rounded(t, v) \in Int /\ Scores!Rounded(t, v) <= m
<1>1. PICK r : r = Scores!Rounded(t, v)
  OBVIOUS
<1>2. r \in Int /\ 2 * (v * r) <= 2 * t + v
  BY <1>1, RoundedNear
<1>3. v * r \in Int /\ v * m \in Int
  BY <1>2, Product
<1>4. 2 * (v * r) <= 2 * (v * m) + v
  BY <1>2, <1>3
<1> QED BY <1>1, <1>2, <1>4, WholeBelow

\* What the measured signals weigh in the mean.
Terms == [s \in Scores!Included |-> Scores!Values[s] * Scores!Weight[s]]

LEMMA TermsAre ==
  ASSUME Readings
  PROVE  /\ IsFiniteSet(Scores!Included)
         /\ \A s \in Scores!Included :
              /\ Terms[s] = Scores!Weight[s] * gObservations[s].normalized
              /\ Scores!Values[s] = gObservations[s].normalized
              /\ Terms[s] \in Int
<1>1. IsFiniteSet(Scores!Included)
  BY IncludedWeighs, SignalsOutweigh
<1>2. ASSUME NEW s \in Scores!Included
      PROVE  /\ Terms[s] = Scores!Weight[s] * gObservations[s].normalized
             /\ Scores!Values[s] = gObservations[s].normalized
             /\ Terms[s] \in Int
  <2>1. PICK wt, n : wt = Scores!Weight[s] /\ n = gObservations[s].normalized
    OBVIOUS
  <2>2. s \in Scores!Signal
    BY IncludedWeighs
  <2>3. wt \in Int /\ n \in Int
    BY <2>1, <2>2, SignalsWeigh, ReadingsTyped
  <2>4. Scores!Values[s] = n
    BY <2>1, <2>2 DEF Scores!Values
  <2>5. Terms[s] = n * wt
    BY <2>1, <2>4 DEF Terms
  <2>6. n * wt = wt * n /\ n * wt \in Int
    BY <2>3
  <2> QED BY <2>1, <2>4, <2>5, <2>6
<1> QED BY <1>1, <1>2

\* The score is the mean of the terms, up to a unit of the weight for each.
LEMMA ScoreIsMean ==
  ASSUME Readings, Scored
  PROVE  LET I == Scores!Included
             W == Scores!WeightOf(I)
             K == Cardinality(I)
             sum == Scores!Total(Terms, I)
         IN /\ gScore \in Int /\ sum \in Int /\ K \in Nat
            /\ W * gScore - sum <= W * K /\ sum - W * gScore <= W * K
            /\ I = {} => gScore = 0
<1>1. PICK I : I = Scores!Included
  OBVIOUS
<1>2. PICK W, K, sum : W = Scores!WeightOf(I) /\ K = Cardinality(I) /\ sum = Scores!Total(Terms, I)
  OBVIOUS
<1>3. IsFiniteSet(I) /\ W \in Int /\ K \in Nat /\ I \in SUBSET Scores!Signal
  BY <1>1, <1>2, IncludedWeighs, SignalsOutweigh
<1>4. Summands(gContribution, Scores!Signal) /\ Summands(gContribution, I)
  BY <1>3 DEF Scored, Summands
<1>5. gScore = Scores!Total(gContribution, I)
  <2>1. \A s \in Scores!Signal \ I : gContribution[s] = 0
    BY <1>1 DEF Scored
  <2>2. Scores!Total(gContribution, Scores!Signal) = Scores!Total(gContribution, I)
    BY <1>3, <1>4, <2>1, SignalsWeigh, TotalSupport
  <2> QED BY <2>2 DEF Scored
<1>6. Summands(Terms, I)
  BY <1>1, TermsAre DEF Summands
<1>7. gScore \in Int /\ sum \in Int
  BY <1>2, <1>3, <1>4, <1>5, <1>6, TotalSplits
<1>8. ASSUME NEW s \in I
      PROVE  W * gContribution[s] + (-1) * Terms[s] <= W /\ (-W) * gContribution[s] + 1 * Terms[s] <= W
  <2>1. PICK c, term : c = gContribution[s] /\ term = Terms[s]
    OBVIOUS
  <2>2. c \in Int /\ term \in Int
    BY <1>4, <1>6, <2>1 DEF Summands
  <2>3. W * c - term <= W /\ term - W * c <= W
    <3>1. TermNear(s)
      BY <1>1 DEF Scored
    <3> QED BY <1>1, <1>2, <2>1, <3>1, TermsAre DEF TermNear
  <2>4. W * c \in Int /\ (-W) * c = -(W * c)
    BY <1>3, <2>2
  <2>5. W * c + (-1) * term <= W /\ (-W) * c + 1 * term <= W
    BY <1>3, <2>2, <2>3, <2>4
  <2> QED BY <2>1, <2>5
<1>9. Combined(gContribution, Terms, W, -1, W, I) /\ Combined(gContribution, Terms, -W, 1, W, I)
  BY <1>8 DEF Combined
<1>10. -W \in Int /\ -1 \in Int /\ 1 \in Int
  BY <1>3
<1>11. W * gScore + (-1) * sum <= W * K
  BY <1>2, <1>3, <1>4, <1>5, <1>6, <1>9, <1>10, TotalsCombine
<1>12. (-W) * gScore + 1 * sum <= W * K
  BY <1>2, <1>3, <1>4, <1>5, <1>6, <1>9, <1>10, TotalsCombine
<1>13. W * gScore \in Int /\ (-W) * gScore = -(W * gScore) /\ W * K \in Int
  BY <1>3, <1>7
<1>14. W * gScore - sum <= W * K /\ sum - W * gScore <= W * K
  BY <1>7, <1>11, <1>12, <1>13
<1>15. I = {} => gScore = 0
  BY <1>3, <1>4, <1>5, TotalSplits
<1> QED BY <1>1, <1>2, <1>3, <1>7, <1>14, <1>15

\* A signal at its maximum leaves the mean where it is, or raises it.
LEMMA MaximalRaises ==
  ASSUME Readings, Scored, NEW t \in Scores!Included
  PROVE  Scores!ScoreIfMaximal(t) >= gScore - Cardinality(Scores!Included)
<1>1. PICK I : I = Scores!Included
  OBVIOUS
<1>2. PICK W, K, sum : W = Scores!WeightOf(I) /\ K = Cardinality(I) /\ sum = Scores!Total(Terms, I)
  OBVIOUS
<1>3. PICK most : most = [Scores!Values EXCEPT ![t] = 10000]
  <2> DEFINE top == [Scores!Values EXCEPT ![t] = 10000]
  <2>1. \E most : most = top
    <3> HIDE DEF top
    <3> QED OBVIOUS
  <2> QED BY <2>1
<1>4. PICK up : up = [s \in I |-> most[s] * Scores!Weight[s]]
  OBVIOUS
<1>5. IsFiniteSet(I) /\ W \in Int /\ W > 0
  <2>1. I # {} /\ I \in SUBSET Scores!Signal
    BY <1>1, IncludedWeighs
  <2> QED BY <1>2, <2>1, SignalsOutweigh
<1>6. /\ gScore \in Int /\ sum \in Int /\ K \in Nat
      /\ W * gScore - sum <= W * K
  BY <1>1, <1>2, ScoreIsMean
<1>7. ASSUME NEW s \in I PROVE up[s] \in Int /\ Terms[s] \in Int /\ Terms[s] <= up[s]
  <2>1. PICK wt, n, x : wt = Scores!Weight[s] /\ n = gObservations[s].normalized /\ x = most[s]
    OBVIOUS
  <2>2. s \in Scores!Signal
    BY <1>1, IncludedWeighs
  <2>3. wt \in Int /\ wt >= 0 /\ n \in Int /\ n <= 10000
    <3>1. wt \in Int /\ wt >= 1
      BY <2>1, <2>2, SignalsWeigh
    <3>2. n \in Int /\ n <= 10000
      BY <2>1, <2>2, ReadingsTyped
    <3> QED BY <3>1, <3>2
  <2>4. x = n \/ x = 10000
    <3>1. Scores!Values[s] = n /\ Scores!Values = [q \in Scores!Signal |-> gObservations[q].normalized]
      BY <2>1, <2>2 DEF Scores!Values
    <3> QED BY <1>3, <2>1, <2>2, <3>1
  <2>5. x \in Int /\ n <= x
    BY <2>3, <2>4
  <2>6. wt * n <= wt * x
    BY <2>3, <2>5, Grows
  <2>7. up[s] = x * wt
    BY <1>4, <2>1
  <2>8. x * wt = wt * x /\ wt * x \in Int /\ wt * n \in Int
    BY <2>3, <2>5
  <2>9. Terms[s] = wt * n
    BY <1>1, <2>1, TermsAre
  <2> QED BY <2>6, <2>7, <2>8, <2>9
<1>8. Summands(Terms, I) /\ Summands(up, I)
  BY <1>7 DEF Summands
<1>9. Combined(Terms, up, 1, -1, 0, I)
  BY <1>7 DEF Combined
<1>10. PICK T : T = Scores!Total(up, I)
  OBVIOUS
<1>11. T \in Int /\ 1 * sum + (-1) * T <= 0 * Cardinality(I)
  <2>1. T \in Int
    BY <1>5, <1>8, <1>10, TotalSplits
  <2>2. 1 * sum + (-1) * T <= 0 * Cardinality(I)
    BY <1>2, <1>5, <1>8, <1>9, <1>10, TotalsCombine
  <2> QED BY <2>1, <2>2
<1>12. sum <= T
  BY <1>2, <1>6, <1>11
<1>13. PICK m : m = gScore - K
  OBVIOUS
<1>14. m \in Int /\ W * m <= T
  <2>1. m \in Int /\ W * m = W * gScore - W * K /\ W * gScore \in Int /\ W * K \in Int
    BY <1>5, <1>6, <1>13
  <2> QED BY <1>6, <1>11, <1>12, <2>1
<1>15. Scores!Rounded(T, W) >= m
  BY <1>5, <1>11, <1>14, RoundsAbove
<1>16. Scores!ScoreIfMaximal(t) = Scores!Rounded(T, W)
  <2>1. I # {}
    BY <1>1
  <2>2. Scores!ScoreIfMaximal(t) = Scores!Mean(I, most)
    BY <1>1, <1>3 DEF Scores!ScoreIfMaximal
  <2>3. Scores!Mean(I, most)
          = Scores!Rounded(Scores!Total([s \in I |-> most[s] * Scores!Weight[s]], I),
                           Scores!WeightOf(I))
    BY <2>1 DEF Scores!Mean
  <2> QED BY <1>2, <1>4, <1>10, <2>2, <2>3
<1> QED BY <1>1, <1>2, <1>13, <1>15, <1>16

\* What is left of the mean without a signal.
LEMMA RemovedIs ==
  ASSUME Readings, NEW t \in Scores!Included, Scores!Included # {t}
  PROVE  LET W == Scores!WeightOf(Scores!Included)
             wt == Scores!Weight[t]
             term == Scores!Weight[t] * gObservations[t].normalized
             sum == Scores!Total(Terms, Scores!Included)
         IN /\ W - wt > 0 /\ sum - term \in Int
            /\ Scores!ScoreIfRemoved(t) = Scores!Rounded(sum - term, W - wt)
<1>1. PICK I : I = Scores!Included
  OBVIOUS
<1>2. PICK J : J = I \ {t}
  OBVIOUS
<1>3. PICK rest : rest = [s \in J |-> Scores!Values[s] * Scores!Weight[s]]
  OBVIOUS
<1>4. PICK f : f = Scores!Weight
  OBVIOUS
<1>5. J \in SUBSET I /\ J # {} /\ I \in SUBSET Scores!Signal /\ J \in SUBSET Scores!Signal
  BY <1>1, <1>2, IncludedWeighs
<1>6. /\ IsFiniteSet(I) /\ IsFiniteSet(J)
      /\ Summands(f, I)
      /\ Scores!WeightOf(J) \in Int /\ Scores!WeightOf(J) > 0
  BY <1>4, <1>5, SignalsOutweigh
<1>7. /\ Scores!WeightOf(I) = Scores!Total(f, I) /\ Scores!WeightOf(J) = Scores!Total(f, J)
  BY <1>4 DEF Scores!WeightOf
<1>8. Scores!Total(f, I) = f[t] + Scores!Total(f, J)
  BY <1>1, <1>2, <1>6, TotalSplits
<1>9. f[t] \in Int /\ Terms[t] \in Int
  BY <1>1, <1>6, TermsAre DEF Summands
<1>10. Scores!WeightOf(J) = Scores!WeightOf(I) - f[t]
  BY <1>6, <1>7, <1>8, <1>9
<1>11. Summands(Terms, I) /\ Summands(Terms, J)
  BY <1>1, <1>5, TermsAre DEF Summands
<1>12. Scores!Total(Terms, I) = Terms[t] + Scores!Total(Terms, J)
  BY <1>1, <1>2, <1>6, <1>11, TotalSplits
<1>13. Scores!Total(Terms, J) \in Int
  BY <1>6, <1>11, TotalSplits
<1>14. Scores!Total(rest, J) = Scores!Total(Terms, J)
  <2>1. \A s \in J : Terms[s] = rest[s]
    BY <1>1, <1>3, <1>5 DEF Terms
  <2> QED BY <1>6, <1>11, <2>1, TotalSame
<1>15. Scores!Total(Terms, J) = Scores!Total(Terms, I) - Terms[t]
  BY <1>9, <1>12, <1>13
<1>16. Scores!ScoreIfRemoved(t) = Scores!Rounded(Scores!Total(rest, J), Scores!WeightOf(J))
  <2>1. Scores!ScoreIfRemoved(t) = Scores!Mean(J, Scores!Values)
    BY <1>1, <1>2 DEF Scores!ScoreIfRemoved
  <2>2. Scores!Mean(J, Scores!Values)
          = Scores!Rounded(Scores!Total([s \in J |-> Scores!Values[s] * Scores!Weight[s]], J),
                           Scores!WeightOf(J))
    BY <1>5 DEF Scores!Mean
  <2> QED BY <1>3, <2>1, <2>2
<1>17. Terms[t] = Scores!Weight[t] * gObservations[t].normalized
  BY TermsAre
<1> QED BY <1>1, <1>4, <1>6, <1>10, <1>13, <1>14, <1>15, <1>16, <1>17

\* Without a signal above the score the mean does not rise, without one below it, not fall.
LEMMA RemovedMoves ==
  ASSUME Readings, Scored, NEW t \in Scores!Included, Scores!Included # {t}
  PROVE  LET n == gObservations[t].normalized
             K == Cardinality(Scores!Included)
         IN /\ n >= gScore + K => Scores!ScoreIfRemoved(t) <= gScore + K
            /\ n <= gScore - K => Scores!ScoreIfRemoved(t) >= gScore - K
<1>1. PICK W, K, sum : /\ W = Scores!WeightOf(Scores!Included)
                       /\ K = Cardinality(Scores!Included)
                       /\ sum = Scores!Total(Terms, Scores!Included)
  OBVIOUS
<1>2. PICK wt, n : wt = Scores!Weight[t] /\ n = gObservations[t].normalized
  OBVIOUS
<1>3. PICK V, T, r : V = W - wt /\ T = sum - wt * n /\ r = Scores!ScoreIfRemoved(t)
  OBVIOUS
<1>4. V > 0 /\ T \in Int /\ r = Scores!Rounded(T, V)
  BY <1>1, <1>2, <1>3, RemovedIs
<1>5. t \in Scores!Signal /\ W \in Int
  BY <1>1, IncludedWeighs
<1>6. wt \in Int /\ wt >= 1 /\ n \in Int
  BY <1>2, <1>5, SignalsWeigh, ReadingsTyped
<1>7. /\ gScore \in Int /\ sum \in Int /\ K \in Nat
      /\ W * gScore - sum <= W * K /\ sum - W * gScore <= W * K
  BY <1>1, ScoreIsMean
<1>8. V \in Int
  BY <1>3, <1>5, <1>6
<1>9. ASSUME NEW m \in Int
      PROVE  /\ V * m = W * m - wt * m
             /\ W * m \in Int /\ wt * m \in Int /\ wt * n \in Int
             /\ m <= n => wt * m <= wt * n
             /\ n <= m => wt * n <= wt * m
  <2>1. V * m = W * m - wt * m /\ W * m \in Int /\ wt * m \in Int /\ wt * n \in Int
    BY <1>3, <1>5, <1>6
  <2>2. wt >= 0
    BY <1>6
  <2>3. m <= n => wt * m <= wt * n
    BY <1>6, <2>2, Grows
  <2>4. n <= m => wt * n <= wt * m
    BY <1>6, <2>2, Grows
  <2> QED BY <2>1, <2>3, <2>4
<1>10. ASSUME n >= gScore + K PROVE r <= gScore + K
  <2>1. PICK m : m = gScore + K
    OBVIOUS
  <2>2. m \in Int /\ m <= n
    BY <1>6, <1>7, <1>10, <2>1
  <2>3. W * m = W * gScore + W * K /\ W * gScore \in Int /\ W * K \in Int
    BY <1>5, <1>7, <2>1
  <2>4. sum <= W * m
    BY <1>7, <2>3
  <2>5. V * m = W * m - wt * m /\ wt * m <= wt * n /\ W * m \in Int /\ wt * m \in Int /\ wt * n \in Int
    BY <1>9, <2>2
  <2>6. T <= V * m
    BY <1>3, <1>7, <2>4, <2>5
  <2>7. Scores!Rounded(T, V) <= m
    BY <1>4, <1>8, <2>2, <2>6, RoundsBelow
  <2> QED BY <1>4, <2>1, <2>7
<1>11. ASSUME n <= gScore - K PROVE r >= gScore - K
  <2>1. PICK m : m = gScore - K
    OBVIOUS
  <2>2. m \in Int /\ n <= m
    BY <1>6, <1>7, <1>11, <2>1
  <2>3. W * m = W * gScore - W * K /\ W * gScore \in Int /\ W * K \in Int
    BY <1>5, <1>7, <2>1
  <2>4. W * m <= sum
    BY <1>7, <2>3
  <2>5. V * m = W * m - wt * m /\ wt * n <= wt * m /\ W * m \in Int /\ wt * m \in Int /\ wt * n \in Int
    BY <1>9, <2>2
  <2>6. V * m <= T
    BY <1>3, <1>7, <2>4, <2>5
  <2>7. Scores!Rounded(T, V) >= m
    BY <1>4, <1>8, <2>2, <2>6, RoundsAbove
  <2> QED BY <1>4, <2>1, <2>7
<1> QED BY <1>1, <1>2, <1>3, <1>10, <1>11

LEMMA ScoreAlways == OneSpec => []ScoreInv
<1>1. OneInit => ScoreInv
  <2>1. Scores!Init => ScoreInv
    BY DEF Scores!Init, ScoreInv, Readings
  <2> QED BY <2>1 DEF OneInit
<1>2. ScoreInv /\ [OneNext]_oneVars => ScoreInv'
  <2> SUFFICES ASSUME ScoreInv, [OneNext]_oneVars PROVE ScoreInv'
    OBVIOUS
  <2>1. [Scores!Next]_gVars
    BY DEF OneNext, oneVars
  <2> QED BY <2>1, ScoreInductive
<1> QED BY <1>1, <1>2, PTL DEF OneSpec

\* A score is the weighted mean of the signals measured with enough samples, as if the others
\* were not in the profile, and its counterfactuals tell which way each signal pulls it, all up
\* to the rounding (scoreObservation, recomputeWithout and recomputeWith of engine.ts).
THEOREM ScoreKept == OneSpec => []ScoreExplained
<1>1. ScoreInv => ScoreExplained
  <2> SUFFICES ASSUME ScoreInv, gBand # "none" PROVE ScoreExplained
    BY DEF ScoreExplained, Scores!ScoreExplained
  <2>1. Readings /\ Scored
    BY DEF ScoreInv
  <2>2. PICK W, K, sum, off : /\ W = Scores!WeightOf(Scores!Included)
                              /\ K = Cardinality(Scores!Included)
                              /\ sum = Scores!Total(Terms, Scores!Included)
                              /\ off = gScore * W - sum
    OBVIOUS
  <2>3. /\ gScore \in Int /\ sum \in Int /\ K \in Nat /\ W \in Int
        /\ W * gScore - sum <= W * K /\ sum - W * gScore <= W * K
        /\ Scores!Included = {} => gScore = 0
    BY <2>1, <2>2, ScoreIsMean, IncludedWeighs
  <2>4. off <= K * W /\ -off <= K * W
    <3>1. gScore * W = W * gScore /\ K * W = W * K /\ W * gScore \in Int /\ W * K \in Int
      BY <2>3
    <3> QED BY <2>2, <2>3, <3>1
  <2>5. Scores!Slack = K
    BY <2>2, ScoresCount DEF Scores!Slack
  <2>6. ASSUME NEW s \in Scores!Included
        PROVE  /\ Scores!ScoreIfMaximal(s) >= gScore - K
               /\ Scores!Included # {s} =>
                    /\ gObservations[s].normalized >= gScore + K
                         => Scores!ScoreIfRemoved(s) <= gScore + K
                    /\ gObservations[s].normalized <= gScore - K
                         => Scores!ScoreIfRemoved(s) >= gScore - K
    BY <2>1, <2>2, MaximalRaises, RemovedMoves
  <2>7. Scores!Total([s \in Scores!Included |-> Scores!Values[s] * Scores!Weight[s]],
                     Scores!Included) = sum
    BY <2>2 DEF Terms
  <2> HIDE DEF ScoreInv
  <2> QED BY <2>2, <2>3, <2>4, <2>5, <2>6, <2>7 DEF ScoreExplained, Scores!ScoreExplained
<1> QED BY <1>1, ScoreAlways, PTL

\* "the final 0..100 score" (engine.ts:22): a score may pass 100 (the run ScoreRange), by no
\* more than a hundredth for each signal that was included.
ScoreNearScale == gBand # "none" => gScore <= 10000 + Scores!Slack

\* The roundings of scoreObservation never carry a score further above its scale than that.
THEOREM ScoreNearlyScaled == OneSpec => []ScoreNearScale
<1>1. ScoreInv => ScoreNearScale
  <2> SUFFICES ASSUME ScoreInv, gBand # "none" PROVE gScore <= 10000 + Scores!Slack
    BY DEF ScoreNearScale
  <2>1. Readings /\ Scored
    BY DEF ScoreInv
  <2>2. PICK I, f : I = Scores!Included /\ f = Scores!Weight
    OBVIOUS
  <2>3. PICK W, K, sum : /\ W = Scores!WeightOf(I) /\ K = Cardinality(I)
                         /\ sum = Scores!Total(Terms, I)
    OBVIOUS
  <2>4. /\ gScore \in Int /\ sum \in Int /\ K \in Nat /\ W \in Int
        /\ W * gScore - sum <= W * K
        /\ I = {} => gScore = 0
    BY <2>1, <2>2, <2>3, ScoreIsMean, IncludedWeighs
  <2>5. Scores!Slack = K
    BY <2>2, <2>3, ScoresCount DEF Scores!Slack
  <2>6. CASE I = {}
    BY <2>4, <2>5, <2>6
  <2>7. CASE I # {}
    <3>1. W > 0 /\ IsFiniteSet(I) /\ Summands(f, I) /\ I \in SUBSET Scores!Signal
      <4>1. I \in SUBSET Scores!Signal
        BY <2>2, IncludedWeighs
      <4> QED BY <2>2, <2>3, <2>7, <4>1, SignalsOutweigh
    <3>2. Summands(Terms, I)
      BY <2>1, <2>2, TermsAre DEF Summands
    <3>3. ASSUME NEW s \in I PROVE 1 * Terms[s] + (-10000) * f[s] <= 0
      <4>1. PICK wt, n, term : wt = f[s] /\ n = gObservations[s].normalized /\ term = Terms[s]
        OBVIOUS
      <4>2. wt \in Int /\ wt >= 1
        BY <2>2, <3>1, <4>1, SignalsWeigh
      <4>3. n \in Int /\ n <= 10000
        BY <2>1, <3>1, <4>1, ReadingsTyped
      <4>4. term = wt * n
        BY <2>1, <2>2, <4>1, TermsAre
      <4>5. wt * n <= wt * 10000
        BY <4>2, <4>3, Grows
      <4> QED BY <4>1, <4>2, <4>3, <4>4, <4>5
    <3>4. Combined(Terms, f, 1, -10000, 0, I)
      BY <3>3 DEF Combined
    <3>5. Scores!Total(f, I) = W
      BY <2>2, <2>3 DEF Scores!WeightOf
    <3>6. 1 * sum + (-10000) * W <= 0 * K
      BY <2>3, <3>1, <3>2, <3>4, <3>5, TotalsCombine
    <3>7. sum <= 10000 * W
      BY <2>4, <3>6
    <3>8. PICK m : m = 10000 + K
      OBVIOUS
    <3>9. m \in Int /\ W * m = 10000 * W + W * K /\ W * K \in Int /\ W * gScore \in Int
      BY <2>4, <3>8
    <3>10. 2 * (W * gScore) <= 2 * (W * m) + W
      BY <2>4, <3>1, <3>7, <3>9
    <3>11. gScore <= m
      BY <2>4, <3>1, <3>9, <3>10, WholeBelow
    <3> QED BY <2>5, <3>8, <3>11
  <2> QED BY <2>6, <2>7
<1> QED BY <1>1, ScoreAlways, PTL
=============================================================================
