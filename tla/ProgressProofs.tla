--------------------------- MODULE ProgressProofs ---------------------------
(***************************************************************************)
(* The safety of the components of Progress whose proofs are not in a      *)
(* module of their own: the watch of a stream and the evidence.            *)
(***************************************************************************)
EXTENDS Progress, Sequences, SequenceTheorems, FiniteSetTheorems, TLAPS

----------------------------------------------------------------------------
(* The watch of a stream.  No audio goes missing but what a connection     *)
(* that ended had in its buffer.  The promise is not inductive by itself:  *)
(* that a drop takes less than one segment needs to know that the buffer   *)
(* holds less than one whenever the session reads, and exactly one when it *)
(* is stored.                                                              *)

AudioCounters ==
  /\ sBuffered \in Nat /\ sReceived \in Nat /\ sStored \in Nat /\ sUnstored \in Nat
  /\ sDropped \in Nat

\* The buffer is full exactly while its segment is about to be stored.
BufferCut == IF Stream!At("persist") THEN sBuffered = SegmentSize ELSE sBuffered < SegmentSize

\* The session is a record with these fields, which the updates of them need; what a delay
\* may be does not matter here.
SessionShape == \E d : sSession \in [pc : Stream!Pc, failures : Nat, wakeAt : {d}]

AudioInv == AudioCounters /\ SessionShape /\ BufferCut /\ Stream!AudioAccounted

\* Audio in k segments and a buffer, after one more segment.
LEMMA OneSegmentMore ==
  ASSUME NEW a \in Nat, NEW b \in Nat, SegmentSize \in Nat \ {0}
  PROVE  /\ SegmentSize * (a + 1 + b) = SegmentSize * (a + b) + SegmentSize
         /\ SegmentSize * (a + (b + 1)) = SegmentSize * (a + b) + SegmentSize
         /\ SegmentSize * (a + b) \in Nat
  OBVIOUS

\* What one more dropped connection may cost.
LEMMA OneDropMore ==
  ASSUME NEW k \in Nat, SegmentSize \in Nat \ {0}
  PROVE  /\ (SegmentSize - 1) * (k + 1) = (SegmentSize - 1) * k + (SegmentSize - 1)
         /\ (SegmentSize - 1) * k \in Nat
  OBVIOUS

\* A connection ends with less than a segment in the buffer.
LEMMA DropAccounted ==
  ASSUME SegmentSize \in Nat \ {0}, AudioInv, ~Stream!At("persist"),
         sDropped' = sDropped + 1, sBuffered' = 0, UNCHANGED <<sReceived, sStored, sUnstored>>
  PROVE  Stream!AudioAccounted'
<1> DEFINE whole == SegmentSize * (sStored + sUnstored)
           lost == (SegmentSize - 1) * sDropped
<1>1. whole \in Nat /\ lost \in Nat
  BY OneSegmentMore, OneDropMore DEF AudioInv, AudioCounters
<1>2. (SegmentSize - 1) * sDropped' = lost + (SegmentSize - 1)
  BY OneDropMore DEF AudioInv, AudioCounters
<1>3. SegmentSize * (sStored' + sUnstored') = whole
  OBVIOUS
<1>4. whole + sBuffered <= sReceived /\ sReceived - (whole + sBuffered) <= lost
  BY DEF AudioInv, Stream!AudioAccounted
<1>5. sBuffered \in Nat /\ sBuffered <= SegmentSize - 1 /\ sReceived \in Nat /\ sReceived' = sReceived
  BY DEF AudioInv, AudioCounters, BufferCut
<1> HIDE DEF whole, lost
<1>6. whole + 0 <= sReceived /\ sReceived - (whole + 0) <= lost + (SegmentSize - 1)
  BY <1>1, <1>4, <1>5
<1> QED BY <1>2, <1>3, <1>5, <1>6 DEF Stream!AudioAccounted

LEMMA AudioInitially == ASSUME SegmentSize \in Nat \ {0} PROVE Stream!Init => AudioInv
  BY DEF Stream!Init, AudioInv, AudioCounters, SessionShape, BufferCut, Stream!AudioAccounted,
         Stream!At, Stream!Pc

LEMMA ChunkKept ==
  ASSUME SegmentSize \in Nat \ {0}, AudioInv, Stream!Chunk
  PROVE  AudioInv'
<1> DEFINE whole == SegmentSize * (sStored + sUnstored)
           lost == (SegmentSize - 1) * sDropped
<1>1. whole \in Nat /\ lost \in Nat
  BY OneSegmentMore, OneDropMore DEF AudioInv, AudioCounters
<1>2. /\ sBuffered' = sBuffered + 1 /\ sReceived' = sReceived + 1
      /\ sBuffered \in Nat /\ sReceived \in Nat /\ sBuffered < SegmentSize
  BY DEF AudioInv, AudioCounters, BufferCut, Stream!Chunk, Stream!At
<1>3. AudioCounters'
  BY <1>2 DEF AudioInv, AudioCounters, Stream!Chunk
<1>4. SessionShape' /\ sSession'.pc = IF sBuffered' = SegmentSize THEN "persist" ELSE "read"
  BY DEF AudioInv, SessionShape, Stream!Chunk, Stream!GoTo, Stream!At, Stream!Pc
<1>5. BufferCut'
  BY <1>2, <1>4 DEF BufferCut, Stream!At
<1>6. whole + sBuffered <= sReceived /\ sReceived - (whole + sBuffered) <= lost
  BY DEF AudioInv, Stream!AudioAccounted
<1>7. SegmentSize * (sStored' + sUnstored') = whole /\ (SegmentSize - 1) * sDropped' = lost
  BY DEF Stream!Chunk
<1> HIDE DEF whole, lost
<1>8. /\ whole + (sBuffered + 1) <= sReceived + 1
      /\ (sReceived + 1) - (whole + (sBuffered + 1)) <= lost
  BY <1>1, <1>2, <1>6
<1>9. Stream!AudioAccounted'
  BY <1>2, <1>7, <1>8 DEF Stream!AudioAccounted
<1> QED BY <1>3, <1>4, <1>5, <1>9 DEF AudioInv

LEMMA SegmentStored ==
  ASSUME SegmentSize \in Nat \ {0}, AudioInv, Stream!Persist
  PROVE  AudioInv'
<1> DEFINE whole == SegmentSize * (sStored + sUnstored)
           lost == (SegmentSize - 1) * sDropped
<1>1. whole \in Nat /\ lost \in Nat
  BY OneSegmentMore, OneDropMore DEF AudioInv, AudioCounters
<1>2. AudioCounters'
  BY DEF AudioInv, AudioCounters, Stream!Persist
<1>3. SessionShape' /\ sSession'.pc = "yield"
  BY DEF AudioInv, SessionShape, Stream!Persist, Stream!GoTo, Stream!Pc
<1>4. sBuffered = SegmentSize /\ sBuffered' = 0 /\ sReceived' = sReceived /\ sReceived \in Nat
  BY DEF AudioInv, AudioCounters, BufferCut, Stream!Persist, Stream!At
<1>5. SegmentSize * (sStored' + sUnstored') = whole + SegmentSize
  BY OneSegmentMore DEF AudioInv, AudioCounters, Stream!Persist
<1>6. whole + sBuffered <= sReceived /\ sReceived - (whole + sBuffered) <= lost
  BY DEF AudioInv, Stream!AudioAccounted
<1>7. (SegmentSize - 1) * sDropped' = lost
  BY DEF Stream!Persist
<1> HIDE DEF whole, lost
<1>8. /\ (whole + SegmentSize) + 0 <= sReceived
      /\ sReceived - ((whole + SegmentSize) + 0) <= lost
  BY <1>1, <1>4, <1>6
<1>9. Stream!AudioAccounted'
  BY <1>4, <1>5, <1>7, <1>8 DEF Stream!AudioAccounted
<1>10. BufferCut'
  BY <1>3, <1>4 DEF BufferCut, Stream!At
<1> QED BY <1>2, <1>3, <1>9, <1>10 DEF AudioInv

\* A failed connection changes the record of the session, and never to a segment that waits.
LEMMA CaughtShape ==
  ASSUME SessionShape, Stream!Caught
  PROVE  SessionShape' /\ sSession'.pc \in {"closed", "backoff"}
<1> DEFINE wait == sNow + Stream!Least(MaxBackoff, 2 ^ (sSession.failures + 1))
<1>1. PICK d : sSession \in [pc : Stream!Pc, failures : Nat, wakeAt : {d}]
  BY DEF SessionShape
<1> DEFINE n == sSession.failures + 1
           f == IF Stream!Closing THEN sSession.failures ELSE n
<1>a. n \in Nat /\ f \in Nat
  BY <1>1
<1>b. \/ sSession' = [sSession EXCEPT !.pc = "closed", !.failures = f]
      \/ sSession' = [pc |-> "backoff", failures |-> n, wakeAt |-> wait]
  BY DEF Stream!Caught
<1> HIDE DEF n, f, wait
<1>2. \/ sSession' \in [pc : Stream!Pc, failures : Nat, wakeAt : {d}] /\ sSession'.pc = "closed"
      \/ sSession' = [pc |-> "backoff", failures |-> n, wakeAt |-> wait]
  BY <1>1, <1>a, <1>b DEF Stream!Pc
<1>3. CASE sSession'.pc = "closed"
  BY <1>2, <1>3 DEF SessionShape
<1>4. CASE sSession' = [pc |-> "backoff", failures |-> n, wakeAt |-> wait]
  <2>1. sSession' \in [pc : Stream!Pc, failures : Nat, wakeAt : {wait}]
    BY <1>a, <1>4 DEF Stream!Pc
  <2> QED BY <1>4, <2>1 DEF SessionShape
<1> QED BY <1>2, <1>3, <1>4

\* The steps that leave the audio alone, from and to a session that stores nothing.
LEMMA AudioQuiet ==
  ASSUME AudioInv, UNCHANGED Stream!audio, SessionShape',
         ~Stream!At("persist"), ~Stream!At("persist")'
  PROVE  AudioInv'
  BY DEF AudioInv, Stream!audio, AudioCounters, BufferCut, Stream!AudioAccounted

LEMMA AudioInductive ==
  ASSUME SegmentSize \in Nat \ {0}, AudioInv, [Stream!Next]_sVars
  PROVE  AudioInv'
<1>1. CASE Stream!Tick
  BY <1>1 DEF Stream!Tick, AudioInv, Stream!audio, AudioCounters, SessionShape, BufferCut,
              Stream!AudioAccounted, Stream!At
<1>2. CASE Stream!Answered
  BY <1>2, AudioQuiet DEF Stream!Answered, AudioInv, SessionShape, Stream!At, Stream!Pc
<1>3. CASE Stream!LoopEnds
  BY <1>3, AudioQuiet DEF Stream!LoopEnds, Stream!GoTo, AudioInv, SessionShape, Stream!At,
                          Stream!Pc
<1>4. CASE Stream!Refused
  BY <1>4, AudioQuiet, CaughtShape DEF Stream!Refused, AudioInv, Stream!At
<1>5. CASE Stream!WakeUp
  BY <1>5, AudioQuiet DEF Stream!WakeUp, Stream!GoTo, AudioInv, SessionShape, Stream!At,
                          Stream!Pc
<1>6. CASE Stream!Chunk
  BY <1>6, ChunkKept
<1>7. CASE Stream!Persist
  BY <1>7, SegmentStored
<1>8. CASE Stream!Yield
  BY <1>8, AudioQuiet DEF Stream!Yield, Stream!GoTo, AudioInv, SessionShape, Stream!At,
                          Stream!Pc
<1>9. CASE Stream!EndOfBody
  <2>1. Stream!AudioAccounted'
    BY <1>9, DropAccounted DEF Stream!EndOfBody, Stream!At
  <2>2. SessionShape' /\ sSession'.pc = "connect"
    BY <1>9 DEF Stream!EndOfBody, Stream!GoTo, AudioInv, SessionShape, Stream!Pc
  <2>3. AudioCounters' /\ sBuffered' = 0
    BY <1>9 DEF Stream!EndOfBody, AudioInv, AudioCounters
  <2> QED BY <2>1, <2>2, <2>3 DEF AudioInv, BufferCut, Stream!At
<1>10. CASE Stream!Broken
  <2>1. Stream!AudioAccounted'
    BY <1>10, DropAccounted DEF Stream!Broken, Stream!At
  <2>2. SessionShape' /\ sSession'.pc \in {"closed", "backoff"}
    BY <1>10, CaughtShape DEF Stream!Broken, AudioInv
  <2>3. AudioCounters' /\ sBuffered' = 0
    BY <1>10 DEF Stream!Broken, AudioInv, AudioCounters
  <2> QED BY <2>1, <2>2, <2>3 DEF AudioInv, BufferCut, Stream!At
<1>11. CASE UNCHANGED sVars
  BY <1>11 DEF sVars, AudioInv, AudioCounters, SessionShape, BufferCut, Stream!AudioAccounted,
               Stream!At
<1> QED BY <1>1, <1>2, <1>3, <1>4, <1>5, <1>6, <1>7, <1>8, <1>9, <1>10, <1>11
        DEF Stream!Next, Stream!Step

\* Whatever the stream does and however large a segment is, all audio that was received is in a
\* stored segment, in one whose upload failed, or in the buffer, but for less than one segment
\* for each connection that ended (StreamSession.segments).
THEOREM AudioKept == OneSpec => []AudioAccounted
<1>1. OneInit => AudioInv
  BY AudioInitially, ProgressAssumption DEF OneInit
<1>2. AudioInv /\ [OneNext]_oneVars => AudioInv'
  <2> SUFFICES ASSUME AudioInv, [OneNext]_oneVars PROVE AudioInv'
    OBVIOUS
  <2>1. [Stream!Next]_sVars
    BY DEF OneNext, oneVars
  <2> QED BY <2>1, AudioInductive, ProgressAssumption
<1>3. AudioInv => AudioAccounted
  BY DEF AudioInv, AudioAccounted
<1> QED BY <1>1, <1>2, <1>3, PTL DEF OneSpec

----------------------------------------------------------------------------
(* The evidence.  The row of a task says how far its capture has come, and *)
(* no two tasks hold one capture.  A task is due for an anomaly while it   *)
(* has the target of it before it and has not named it yet; each row that  *)
(* names the anomaly takes one of those tasks away, and a sweep adds them  *)
(* only where no row does.                                                 *)

LEMMA EvidenceCounts == ASSUME NEW S PROVE Evidence!Cardinality(S) = Cardinality(S)
BY DEF Cardinality, Evidence!Cardinality

FullCustody == <<"captured", "hashed", "stored", "locked">>
CaptureRow ==
  [target : Evidence!Target, content : Evidence!Object, manifest : Evidence!Object,
   custody : {<<"captured", "hashed">>, FullCustody}, named : BOOLEAN, announced : BOOLEAN]
ArchiveRow ==
  [pc : Evidence!Pc, target : Evidence!Target \cup {Evidence!NoTarget},
   todo : SUBSET Evidence!Target, capture : Nat]

\* A target of a sweep is an anomaly and its observation; that of an order names no anomaly.
Proper(target) == target.anomaly \in {target.observation, NoAnomaly}

\* What a capture has left when its task is at pc.
Stage(c, pc) ==
  /\ ~c.announced /\ (c.named <=> pc = "publish")
  /\ c.content = (IF pc = "lockContent" THEN "stored" ELSE "locked")
  /\ c.custody = (IF pc = "lockContent" THEN <<"captured", "hashed">> ELSE FullCustody)
  /\ c.manifest = IF pc \in {"lockContent", "storeManifest"} THEN "absent"
                  ELSE IF pc = "lockManifest" THEN "stored" ELSE "locked"

Capturing == {"lockContent", "storeManifest", "lockManifest", "saveEvidence", "publish"}
RowStands(r) ==
  /\ r \in ArchiveRow
  /\ r.pc = "idle" => r.todo = {}
  /\ r.pc # "idle" => r.target \in Evidence!Target /\ Proper(r.target) /\ r.target \notin r.todo
  /\ \A t \in r.todo : Proper(t)
  /\ IF r.pc \in Capturing
     THEN /\ r.capture \in DOMAIN eCapture /\ eCapture[r.capture].target = r.target
          /\ Stage(eCapture[r.capture], r.pc)
     ELSE r.capture = 0

EvidenceShapes ==
  /\ eCapture \in Seq(CaptureRow)
  /\ eWork \in [Archivist -> ArchiveRow]
  /\ eFaults \in Nat
  /\ eDetected \in Seq([id : Anomaly, flagged : BOOLEAN])
  /\ \A w \in Archivist : RowStands(eWork[w])
  /\ \A w, v \in Archivist : w # v /\ eWork[w].capture # 0 => eWork[w].capture # eWork[v].capture

\* Whatever a row names is whole, and a manifest is written after its content is locked.
CaptureWhole(c) ==
  /\ c.announced => c.named
  /\ c.named => c.content = "locked" /\ c.manifest = "locked" /\ c.custody = FullCustody
  /\ c.manifest # "absent" => c.content = "locked"
AllWhole == \A i \in DOMAIN eCapture : CaptureWhole(eCapture[i])

\* Captures that no row names and no task holds.
Orphans ==
  {i \in DOMAIN eCapture : ~eCapture[i].named /\ \A w \in Archivist : eWork[w].capture # i}
OrphansLost == Cardinality(Orphans) <= eFaults

Sole(a) == [observation |-> a, anomaly |-> a]
DueFor(r, a) ==
  Sole(a) \in r.todo \/ (r.target = Sole(a) /\ r.pc \notin {"idle", "publish"})
Due(a) == {w \in Archivist : DueFor(eWork[w], a)}
RowsOf(a) == {i \in DOMAIN eCapture : eCapture[i].named /\ eCapture[i].target.anomaly = a}
OncePerTask ==
  \A a \in Anomaly : Cardinality(RowsOf(a)) + Cardinality(Due(a)) <= Cardinality(Archivist)

EvidenceInv == EvidenceShapes /\ AllWhole /\ OrphansLost /\ OncePerTask

LEMMA EvidenceInitially == Evidence!Init => EvidenceInv
<1> SUFFICES ASSUME Evidence!Init PROVE EvidenceInv
  OBVIOUS
<1>1. /\ Evidence!Idle \in ArchiveRow /\ Evidence!Idle.pc = "idle" /\ Evidence!Idle.todo = {}
      /\ Evidence!Idle.capture = 0 /\ Evidence!Idle.target.observation = NoAnomaly
  BY DEF Evidence!Idle, ArchiveRow, Evidence!Pc, Evidence!NoTarget
<1>2. /\ eCapture = <<>> /\ eDetected = <<>> /\ eFaults = 0 /\ eWork \in [Archivist -> ArchiveRow]
      /\ \A w \in Archivist : eWork[w] = Evidence!Idle
  BY <1>1 DEF Evidence!Init
<1>3. EvidenceShapes
  BY <1>1, <1>2 DEF EvidenceShapes, RowStands, Capturing
<1>4. AllWhole
  BY <1>2 DEF AllWhole
<1>5. OrphansLost
  <2>1. Orphans = {}
    BY <1>2 DEF Orphans
  <2> QED BY <1>2, <2>1, FS_EmptySet DEF OrphansLost
<1>6. OncePerTask
  <2>1. ASSUME NEW a \in Anomaly PROVE RowsOf(a) = {} /\ Due(a) = {}
    BY <1>1, <1>2 DEF RowsOf, Due, DueFor
  <2>2. Cardinality(Archivist) \in Nat /\ Cardinality({}) = 0
    BY ProgressAssumption, FS_CardinalityType, FS_EmptySet
  <2> QED BY <2>1, <2>2 DEF OncePerTask
<1> QED BY <1>3, <1>4, <1>5, <1>6 DEF EvidenceInv

\* What the counts are of is finite.
LEMMA OrphansFinite == EvidenceShapes => IsFiniteSet(Orphans)
<1> SUFFICES ASSUME EvidenceShapes PROVE IsFiniteSet(Orphans)
  OBVIOUS
<1>1. IsFiniteSet(1 .. Len(eCapture)) /\ DOMAIN eCapture = 1 .. Len(eCapture)
  BY FS_Interval DEF EvidenceShapes
<1>2. Orphans \subseteq 1 .. Len(eCapture)
  BY <1>1 DEF Orphans
<1> QED BY <1>1, <1>2, FS_Subset

LEMMA EvidenceFinite ==
  ASSUME EvidenceShapes, NEW a \in Anomaly
  PROVE  /\ IsFiniteSet(Orphans) /\ IsFiniteSet(RowsOf(a)) /\ IsFiniteSet(Due(a))
         /\ Cardinality(Orphans) \in Nat /\ Cardinality(RowsOf(a)) \in Nat
         /\ Cardinality(Due(a)) \in Nat /\ Cardinality(Archivist) \in Nat
         /\ IsFiniteSet(Archivist)
<1>1. IsFiniteSet(1 .. Len(eCapture)) /\ DOMAIN eCapture = 1 .. Len(eCapture)
  BY FS_Interval DEF EvidenceShapes
<1>2. Orphans \subseteq 1 .. Len(eCapture) /\ RowsOf(a) \subseteq 1 .. Len(eCapture)
  BY <1>1 DEF Orphans, RowsOf
<1>3. IsFiniteSet(Archivist) /\ Due(a) \subseteq Archivist
  BY ProgressAssumption DEF Due
<1> QED BY <1>1, <1>2, <1>3, FS_Subset, FS_CardinalityType

\* The next target of a batch, if there is one.
LEMMA TargetTaken ==
  ASSUME NEW w \in Archivist, NEW targets \in SUBSET Evidence!Target,
         \A t \in targets : Proper(t), Evidence!TakeFrom(w, targets)
  PROVE  \E r : /\ RowStands(r) /\ r.pc = "read" /\ r.capture = 0
                /\ \A a : DueFor(r, a) <=> Sole(a) \in targets
                /\ Evidence!Becomes(w, r)
<1>1. PICK t \in targets :
        Evidence!Becomes(w, [pc |-> "read", target |-> t, todo |-> targets \ {t}, capture |-> 0])
  BY DEF Evidence!TakeFrom, Evidence!Oldest
<1> DEFINE r == [pc |-> "read", target |-> t, todo |-> targets \ {t}, capture |-> 0]
<1>2. /\ r \in ArchiveRow /\ r.pc = "read" /\ r.target = t /\ r.todo = targets \ {t}
      /\ r.capture = 0
  BY DEF ArchiveRow, Evidence!Pc
<1>3. Evidence!Becomes(w, r)
  BY <1>1
<1> HIDE DEF r
<1>4. RowStands(r)
  BY <1>2 DEF RowStands, Capturing
<1>5. \A a : DueFor(r, a) <=> Sole(a) \in targets
  BY <1>2 DEF DueFor
<1> QED BY <1>2, <1>3, <1>4, <1>5

\* A step of a task changes at most the capture it holds, and holds that one, a new one or none.
LEMMA ShapesKept ==
  ASSUME EvidenceShapes, NEW w \in Archivist, NEW r, RowStands(r)', Evidence!Becomes(w, r),
         eCapture' \in Seq(CaptureRow), eFaults' \in Nat, eDetected' = eDetected,
         \A i \in DOMAIN eCapture : /\ i \in DOMAIN eCapture'
                                    /\ i # eWork[w].capture => eCapture'[i] = eCapture[i],
         r.capture \in {0, eWork[w].capture} \/ r.capture \notin DOMAIN eCapture
  PROVE  /\ EvidenceShapes' /\ eWork'[w] = r
         /\ \A v \in Archivist \ {w} : eWork'[v] = eWork[v]
<1>1. r \in ArchiveRow
  BY DEF RowStands, ArchiveRow
<1>2. /\ eWork' \in [Archivist -> ArchiveRow] /\ eWork'[w] = r
      /\ \A v \in Archivist \ {w} : eWork'[v] = eWork[v]
  BY <1>1 DEF Evidence!Becomes, EvidenceShapes
<1>3. ASSUME NEW v \in Archivist \ {w} PROVE RowStands(eWork[v])'
  <2>1. RowStands(eWork[v]) /\ eWork'[v] = eWork[v]
    BY <1>2 DEF EvidenceShapes
  <2>2. CASE eWork[v].pc \in Capturing
    <3>1. /\ eWork[v].capture \in DOMAIN eCapture
          /\ eWork[v].capture # 0
      BY <2>1, <2>2 DEF RowStands, EvidenceShapes
    <3>2. eWork[v].capture # eWork[w].capture
      BY <3>1 DEF EvidenceShapes
    <3>3. /\ eWork[v].capture \in DOMAIN eCapture'
          /\ eCapture'[eWork[v].capture] = eCapture[eWork[v].capture]
      BY <3>1, <3>2
    <3> QED BY <2>1, <2>2, <3>3 DEF RowStands, ArchiveRow
  <2>3. CASE eWork[v].pc \notin Capturing
    BY <2>1, <2>3 DEF RowStands, ArchiveRow
  <2> QED BY <2>2, <2>3
<1>4. \A v \in Archivist : RowStands(eWork[v])'
  BY <1>2, <1>3
<1>5. \A v \in Archivist \ {w} :
        /\ eWork'[v].capture = eWork[v].capture
        /\ eWork[v].capture = 0 \/ eWork[v].capture \in DOMAIN eCapture
        /\ eWork[v].capture # 0 => eWork[v].capture # eWork[w].capture
  BY <1>2 DEF EvidenceShapes, RowStands
<1>6. \A v \in Archivist \ {w} : eWork'[v].capture # 0 => eWork'[v].capture # r.capture
  BY <1>5
<1>7. ASSUME NEW v \in Archivist, NEW u \in Archivist, v # u, eWork'[v].capture # 0
      PROVE  eWork'[v].capture # eWork'[u].capture
  <2>1. CASE v # w /\ u # w
    BY <1>2, <1>7, <2>1 DEF EvidenceShapes
  <2>2. CASE v = w
    BY <1>2, <1>6, <1>7, <2>2
  <2>3. CASE u = w
    BY <1>2, <1>6, <1>7, <2>3
  <2> QED BY <2>1, <2>2, <2>3
<1> QED BY <1>2, <1>4, <1>7 DEF EvidenceShapes

\* A step that names nothing new: what it leaves without a task is named, or lost to a failure;
\* what it makes the task due for is named by no row.
LEMMA CountsKept ==
  ASSUME EvidenceInv, EvidenceShapes', NEW w \in Archivist,
         \A v \in Archivist \ {w} : eWork'[v] = eWork[v],
         DOMAIN eCapture' = DOMAIN eCapture,
         \A i \in DOMAIN eCapture : /\ eCapture'[i].named = eCapture[i].named
                                    /\ eCapture'[i].target = eCapture[i].target,
         \/ eWork'[w].capture = eWork[w].capture /\ eFaults' = eFaults
         \/ /\ eWork[w].capture # 0 => eCapture[eWork[w].capture].named
            /\ eFaults' = eFaults
         \/ eFaults' = eFaults + 1,
         \A a \in Anomaly :
           DueFor(eWork'[w], a) => DueFor(eWork[w], a) \/ RowsOf(a) = {}
  PROVE  OrphansLost' /\ OncePerTask'
<1>1. EvidenceShapes /\ eFaults \in Nat /\ Cardinality(Orphans) <= eFaults
  BY DEF EvidenceInv, EvidenceShapes, OrphansLost
<1>2. \A i \in DOMAIN eCapture : i # 0
  BY <1>1 DEF EvidenceShapes
<1> DEFINE left == eWork[w].capture
<1>3. OrphansLost'
  <2>1. Orphans' \subseteq Orphans \cup {left}
    BY DEF Orphans
  <2>2. CASE eFaults' = eFaults + 1
    <3>1. IsFiniteSet(Orphans) /\ Cardinality(Orphans) \in Nat
      BY <1>1, OrphansFinite, FS_CardinalityType
    <3>2. /\ IsFiniteSet(Orphans \cup {left})
          /\ Cardinality(Orphans \cup {left}) \in {Cardinality(Orphans), Cardinality(Orphans) + 1}
      BY <3>1, FS_AddElement
    <3>3. /\ Cardinality(Orphans') <= Cardinality(Orphans \cup {left})
          /\ Cardinality(Orphans') \in Nat
      BY <2>1, <3>2, FS_Subset, FS_CardinalityType
    <3> QED BY <1>1, <2>2, <3>1, <3>2, <3>3 DEF OrphansLost
  <2>3. CASE eFaults' = eFaults /\ eWork'[w].capture = eWork[w].capture
    <3>1. Orphans' = Orphans
      BY <2>3 DEF Orphans
    <3> QED BY <1>1, <2>3, <3>1 DEF OrphansLost
  <2>4. CASE eFaults' = eFaults /\ (left # 0 => eCapture[left].named)
    <3>1. left \notin Orphans' /\ Orphans' \subseteq Orphans
      BY <1>2, <2>1, <2>4 DEF Orphans
    <3>2. IsFiniteSet(Orphans)
      BY <1>1, OrphansFinite
    <3>3. /\ Cardinality(Orphans') <= Cardinality(Orphans)
          /\ Cardinality(Orphans') \in Nat /\ Cardinality(Orphans) \in Nat
      BY <3>1, <3>2, FS_Subset, FS_CardinalityType
    <3> QED BY <1>1, <2>4, <3>3 DEF OrphansLost
  <2> QED BY <2>2, <2>3, <2>4
<1>4. ASSUME NEW a \in Anomaly
      PROVE  Cardinality(RowsOf(a)') + Cardinality(Due(a)') <= Cardinality(Archivist)
  <2>1. RowsOf(a)' = RowsOf(a)
    BY DEF RowsOf
  <2>2. /\ IsFiniteSet(Due(a)) /\ IsFiniteSet(Archivist)
        /\ Cardinality(RowsOf(a)) \in Nat /\ Cardinality(Archivist) \in Nat
        /\ Cardinality(RowsOf(a)) + Cardinality(Due(a)) <= Cardinality(Archivist)
    BY <1>1, EvidenceFinite DEF EvidenceInv, OncePerTask
  <2>3. CASE RowsOf(a) = {}
    <3>1. Due(a)' \subseteq Archivist
      BY DEF Due
    <3>2. /\ Cardinality(Due(a)') <= Cardinality(Archivist) /\ Cardinality(Due(a)') \in Nat
      BY <2>2, <3>1, FS_Subset, FS_CardinalityType
    <3>3. Cardinality(RowsOf(a)') = 0
      BY <2>1, <2>3, FS_EmptySet
    <3> QED BY <2>2, <3>2, <3>3
  <2>4. CASE RowsOf(a) # {}
    <3>1. Due(a)' \subseteq Due(a)
      BY <2>4 DEF Due, DueFor
    <3>2. /\ Cardinality(Due(a)') <= Cardinality(Due(a)) /\ Cardinality(Due(a)') \in Nat
          /\ Cardinality(Due(a)) \in Nat
      BY <2>2, <3>1, FS_Subset, FS_CardinalityType
    <3> QED BY <2>1, <2>2, <3>2
  <2> QED BY <2>3, <2>4
<1> QED BY <1>3, <1>4 DEF OncePerTask

\* The steps that leave every capture alone.
LEMMA EvidenceQuiet ==
  ASSUME EvidenceInv, NEW w \in Archivist, NEW r, RowStands(r), Evidence!Becomes(w, r),
         r.capture = 0, UNCHANGED <<eDetected, eCapture>>,
         \/ eWork[w].capture = 0 /\ eFaults' = eFaults
         \/ eFaults' = eFaults + 1,
         \A a \in Anomaly : DueFor(r, a) => DueFor(eWork[w], a) \/ RowsOf(a) = {}
  PROVE  EvidenceInv'
<1>1. EvidenceShapes /\ AllWhole /\ eFaults' \in Nat
  BY DEF EvidenceInv, EvidenceShapes
<1>2. RowStands(r)'
  BY DEF RowStands, ArchiveRow
<1>3. /\ EvidenceShapes' /\ eWork'[w] = r
      /\ \A v \in Archivist \ {w} : eWork'[v] = eWork[v]
  <2>1. eCapture' \in Seq(CaptureRow)
    BY <1>1 DEF EvidenceShapes
  <2> QED BY <1>1, <1>2, <2>1, ShapesKept
<1>4. AllWhole'
  BY <1>1 DEF AllWhole
<1>5. OrphansLost' /\ OncePerTask'
  BY <1>3, CountsKept
<1> QED BY <1>3, <1>4, <1>5 DEF EvidenceInv

\* The custody is completed.
LEMMA PairsJoined ==
  ASSUME NEW a, NEW b, NEW c, NEW d
  PROVE  <<a, b>> \o <<c, d>> = <<a, b, c, d>>
<1>1. PICK S : S = {a, b, c, d}
  OBVIOUS
<1>2. PICK s : s = <<a, b>>
  OBVIOUS
<1>3. PICK t : t = <<c, d>>
  OBVIOUS
<1>4. PICK u : u = <<a, b, c, d>>
  OBVIOUS
<1>5. s \in Seq(S) /\ Len(s) = 2 /\ s[1] = a /\ s[2] = b
  BY <1>1, <1>2
<1>6. t \in Seq(S) /\ Len(t) = 2 /\ t[1] = c /\ t[2] = d
  BY <1>1, <1>3
<1>7. u \in Seq(S) /\ Len(u) = 4 /\ u[1] = a /\ u[2] = b /\ u[3] = c /\ u[4] = d
  BY <1>1, <1>4
<1>8. /\ s \o t \in Seq(S) /\ Len(s \o t) = 4
      /\ \A i \in 1 .. 4 : (s \o t)[i] = IF i <= 2 THEN s[i] ELSE t[i - 2]
  <2>1. /\ s \o t \in Seq(S) /\ Len(s \o t) = Len(s) + Len(t)
        /\ \A i \in 1 .. Len(s) + Len(t) :
             (s \o t)[i] = IF i <= Len(s) THEN s[i] ELSE t[i - Len(s)]
    BY <1>5, <1>6, ConcatProperties
  <2> QED BY <1>5, <1>6, <2>1
<1>9. \A i \in 1 .. 4 : (s \o t)[i] = u[i]
  BY <1>5, <1>6, <1>7, <1>8
<1>10. s \o t = u
  <2>1. s \o t \in [1 .. 4 -> S] /\ u \in [1 .. 4 -> S]
    BY <1>7, <1>8, LenProperties
  <2>2. PICK st : st = s \o t
    OBVIOUS
  <2>3. st = u
    <3>1. st \in [1 .. 4 -> S] /\ u \in [1 .. 4 -> S] /\ \A i \in 1 .. 4 : st[i] = u[i]
      BY <2>1, <2>2, <1>9
    <3> QED BY <3>1
  <2> QED BY <2>2, <2>3
<1> QED BY <1>10, <1>2, <1>3, <1>4

\* A task goes on within its capture, which names nothing yet.
LEMMA CaptureGoesOn ==
  ASSUME EvidenceInv, NEW w \in Archivist, NEW c, NEW pc,
         eWork[w].pc \in {"lockContent", "storeManifest", "lockManifest"},
         pc \in {"storeManifest", "lockManifest", "saveEvidence"},
         c \in CaptureRow, c.target = eCapture[eWork[w].capture].target, Stage(c, pc),
         Evidence!Leaves(w, c), Evidence!GoTo(w, pc), UNCHANGED <<eDetected, eFaults>>
  PROVE  EvidenceInv'
<1> DEFINE e == eWork[w]
<1>1. /\ EvidenceShapes /\ AllWhole /\ eFaults' \in Nat /\ RowStands(e) /\ e \in ArchiveRow
      /\ e.capture \in DOMAIN eCapture /\ ~eCapture[e.capture].named
  BY DEF EvidenceInv, EvidenceShapes, RowStands, Capturing, Stage
<1>2. PICK r : r = [e EXCEPT !.pc = pc] /\ Evidence!Becomes(w, r)
  BY DEF Evidence!GoTo
<1>3. e = eWork[w]
  OBVIOUS
<1> HIDE DEF e
<1>4. /\ r \in ArchiveRow /\ r.pc = pc /\ r.target = e.target /\ r.todo = e.todo
      /\ r.capture = e.capture
  BY <1>1, <1>2 DEF ArchiveRow, Evidence!Pc
<1>5. /\ eCapture' \in Seq(CaptureRow) /\ DOMAIN eCapture' = DOMAIN eCapture
      /\ eCapture'[e.capture] = c
      /\ \A i \in DOMAIN eCapture : i # e.capture => eCapture'[i] = eCapture[i]
  BY <1>1, <1>3 DEF Evidence!Leaves, Evidence!Mine, EvidenceShapes
<1>6. RowStands(r)'
  <2>1. /\ r.pc \in Capturing /\ r.pc # "idle"
        /\ e.pc \in Capturing /\ e.pc # "idle"
    BY <1>3, <1>4 DEF Capturing
  <2>2. /\ r.target \in Evidence!Target /\ Proper(r.target) /\ r.target \notin r.todo
        /\ \A t \in r.todo : Proper(t)
        /\ eCapture[e.capture].target = r.target
    BY <1>1, <1>4, <2>1 DEF RowStands
  <2>3. /\ r.capture \in DOMAIN eCapture' /\ eCapture'[r.capture].target = r.target
        /\ Stage(eCapture'[r.capture], r.pc)
    BY <1>1, <1>3, <1>4, <1>5, <2>2
  <2> QED BY <1>4, <2>1, <2>2, <2>3 DEF RowStands, ArchiveRow, Stage, Proper
<1>7. /\ EvidenceShapes' /\ eWork'[w] = r
      /\ \A v \in Archivist \ {w} : eWork'[v] = eWork[v]
  BY <1>1, <1>2, <1>3, <1>4, <1>5, <1>6, ShapesKept
<1>8. ~c.named /\ CaptureWhole(c)
  BY DEF Stage, CaptureWhole
<1>9. AllWhole'
  BY <1>1, <1>5, <1>8 DEF AllWhole
<1>10. OrphansLost' /\ OncePerTask'
  <2>1. \A i \in DOMAIN eCapture : /\ eCapture'[i].named = eCapture[i].named
                                   /\ eCapture'[i].target = eCapture[i].target
    <3>1. c.named = FALSE /\ eCapture[e.capture].named = FALSE
      BY <1>1, <1>8 DEF CaptureRow, EvidenceShapes
    <3> QED BY <1>3, <1>5, <3>1
  <2>2. \A a \in Anomaly : DueFor(r, a) => DueFor(eWork[w], a)
    BY <1>3, <1>4 DEF DueFor
  <2> QED BY <1>3, <1>4, <1>5, <1>7, <2>1, <2>2, CountsKept
<1> QED BY <1>7, <1>9, <1>10 DEF EvidenceInv

LEMMA EvidenceCaptures ==
  ASSUME EvidenceInv, NEW w \in Archivist,
         \/ Evidence!LockContent(w) \/ Evidence!StoreManifest(w) \/ Evidence!LockManifest(w)
  PROVE  EvidenceInv'
<1> DEFINE e == eWork[w]
           c == eCapture[e.capture]
<1>1. /\ e.pc \in {"lockContent", "storeManifest", "lockManifest"}
      /\ UNCHANGED <<eDetected, eFaults>>
  BY DEF Evidence!LockContent, Evidence!StoreManifest, Evidence!LockManifest, Evidence!At
<1>2. c \in CaptureRow /\ Stage(c, e.pc)
  BY <1>1 DEF EvidenceInv, EvidenceShapes, RowStands, Capturing
<1>3. c = eCapture[eWork[w].capture] /\ e = eWork[w] /\ c = eCapture[Evidence!Mine(w)]
  BY DEF Evidence!Mine
<1>4. CASE Evidence!LockContent(w)
  <2> DEFINE k == c.custody \o <<"stored", "locked">>
             d == [c EXCEPT !.content = "locked", !.custody = k]
  <2>1. e.pc = "lockContent" /\ Evidence!GoTo(w, "storeManifest")
    BY <1>4 DEF Evidence!LockContent, Evidence!At
  <2>2. Evidence!Leaves(w, d)
    BY <1>4, <1>3 DEF Evidence!LockContent
  <2>3. c.custody = <<"captured", "hashed">>
    BY <1>2, <2>1 DEF Stage
  <2>4. k = FullCustody
    <3>1. <<"captured", "hashed">> \o <<"stored", "locked">> = FullCustody
      BY PairsJoined, Zenon DEF FullCustody
    <3> QED BY <2>3, <3>1
  <2> HIDE DEF k, c, e
  <2>5. /\ d \in CaptureRow /\ d.target = c.target /\ d.content = "locked"
        /\ d.custody = FullCustody /\ d.manifest = c.manifest /\ d.named = c.named
        /\ d.announced = c.announced
    BY <1>2, <2>4 DEF CaptureRow, Evidence!Object
  <2> HIDE DEF d
  <2>6. Stage(d, "storeManifest")
    BY <1>2, <2>1, <2>5 DEF Stage
  <2> QED BY <1>1, <1>3, <2>1, <2>2, <2>5, <2>6, CaptureGoesOn
<1>5. CASE Evidence!StoreManifest(w)
  <2> DEFINE d == [c EXCEPT !.manifest = "stored"]
  <2>1. e.pc = "storeManifest" /\ Evidence!GoTo(w, "lockManifest")
    BY <1>5 DEF Evidence!StoreManifest, Evidence!At
  <2>2. Evidence!Leaves(w, d)
    BY <1>5, <1>3 DEF Evidence!StoreManifest
  <2> HIDE DEF c, e
  <2>3. /\ d \in CaptureRow /\ d.target = c.target /\ d.content = c.content
        /\ d.custody = c.custody /\ d.manifest = "stored" /\ d.named = c.named
        /\ d.announced = c.announced
    BY <1>2 DEF CaptureRow, Evidence!Object
  <2> HIDE DEF d
  <2>4. Stage(d, "lockManifest")
    BY <1>2, <2>1, <2>3 DEF Stage
  <2> QED BY <1>1, <1>3, <2>1, <2>2, <2>3, <2>4, CaptureGoesOn
<1>6. CASE Evidence!LockManifest(w)
  <2> DEFINE d == [c EXCEPT !.manifest = "locked"]
  <2>1. e.pc = "lockManifest" /\ Evidence!GoTo(w, "saveEvidence")
    BY <1>6 DEF Evidence!LockManifest, Evidence!At
  <2>2. Evidence!Leaves(w, d)
    BY <1>6, <1>3 DEF Evidence!LockManifest
  <2> HIDE DEF c, e
  <2>3. /\ d \in CaptureRow /\ d.target = c.target /\ d.content = c.content
        /\ d.custody = c.custody /\ d.manifest = "locked" /\ d.named = c.named
        /\ d.announced = c.announced
    BY <1>2 DEF CaptureRow, Evidence!Object
  <2> HIDE DEF d
  <2>4. Stage(d, "saveEvidence")
    BY <1>2, <2>1, <2>3 DEF Stage
  <2>5. /\ eWork[w].pc \in {"lockContent", "storeManifest", "lockManifest"}
        /\ d.target = eCapture[eWork[w].capture].target
    BY <1>1, <1>3, <2>3
  <2> QED BY <1>1, <2>1, <2>2, <2>3, <2>4, <2>5, CaptureGoesOn
<1> QED BY <1>4, <1>5, <1>6

\* The row that is saved names the anomaly its task was due for.
LEMMA EvidenceSaves ==
  ASSUME EvidenceInv, NEW w \in Archivist, Evidence!SaveEvidence(w)
  PROVE  EvidenceInv'
<1>1. PICK e : e = eWork[w]
  OBVIOUS
<1>2. PICK c : c = eCapture[e.capture]
  OBVIOUS
<1>3. PICK d : d = [c EXCEPT !.named = TRUE] /\ Evidence!Leaves(w, d)
  BY <1>1, <1>2 DEF Evidence!SaveEvidence, Evidence!Mine
<1>4. PICK r : r = [e EXCEPT !.pc = "publish"] /\ Evidence!Becomes(w, r)
  BY <1>1 DEF Evidence!SaveEvidence, Evidence!GoTo
<1>5. /\ EvidenceShapes /\ AllWhole /\ OrphansLost /\ OncePerTask
      /\ UNCHANGED <<eDetected, eFaults>> /\ eFaults' \in Nat
      /\ e.pc = "saveEvidence" /\ e \in ArchiveRow /\ RowStands(e)
  BY <1>1 DEF EvidenceInv, EvidenceShapes, Evidence!SaveEvidence, Evidence!At
<1>6. /\ e.capture \in DOMAIN eCapture /\ c.target = e.target /\ Stage(c, "saveEvidence")
      /\ c \in CaptureRow /\ e.target \in Evidence!Target /\ Proper(e.target)
      /\ e.target \notin e.todo /\ \A t \in e.todo : Proper(t)
  BY <1>2, <1>5 DEF EvidenceShapes, RowStands, Capturing
<1>7. /\ d \in CaptureRow /\ d.target = c.target /\ d.content = c.content
      /\ d.custody = c.custody /\ d.manifest = c.manifest /\ d.named = TRUE
      /\ d.announced = c.announced
  BY <1>3, <1>6 DEF CaptureRow
<1>8. /\ r \in ArchiveRow /\ r.pc = "publish" /\ r.target = e.target /\ r.todo = e.todo
      /\ r.capture = e.capture
  BY <1>4, <1>5 DEF ArchiveRow, Evidence!Pc
<1>9. /\ eCapture' \in Seq(CaptureRow) /\ DOMAIN eCapture' = DOMAIN eCapture
      /\ eCapture'[e.capture] = d
      /\ \A i \in DOMAIN eCapture : i # e.capture => eCapture'[i] = eCapture[i]
  BY <1>1, <1>3, <1>5, <1>6, <1>7 DEF Evidence!Leaves, Evidence!Mine, EvidenceShapes
<1>10. RowStands(r)'
  <2>1. Stage(d, "publish")
    BY <1>6, <1>7 DEF Stage
  <2>2. r.pc \in Capturing /\ r.pc # "idle"
    BY <1>8 DEF Capturing
  <2>3. /\ r.capture \in DOMAIN eCapture' /\ eCapture'[r.capture].target = r.target
        /\ Stage(eCapture'[r.capture], r.pc)
    BY <1>6, <1>7, <1>8, <1>9, <2>1
  <2> QED BY <1>6, <1>8, <2>2, <2>3 DEF RowStands, ArchiveRow, Stage, Proper
<1>11. /\ EvidenceShapes' /\ eWork'[w] = r
       /\ \A v \in Archivist \ {w} : eWork'[v] = eWork[v]
  <2>1. \A i \in DOMAIN eCapture : /\ i \in DOMAIN eCapture'
                                   /\ i # eWork[w].capture => eCapture'[i] = eCapture[i]
    BY <1>1, <1>9
  <2>2. r.capture \in {0, eWork[w].capture}
    BY <1>1, <1>8
  <2> QED BY <1>4, <1>5, <1>9, <1>10, <2>1, <2>2, ShapesKept
<1>12. AllWhole'
  <2>1. CaptureWhole(d)
    BY <1>6, <1>7 DEF Stage, CaptureWhole
  <2> QED BY <1>5, <1>9, <2>1 DEF AllWhole
<1>13. OrphansLost'
  <2>1. Orphans' = Orphans
    BY <1>1, <1>8, <1>9, <1>11 DEF Orphans
  <2> QED BY <1>5, <2>1 DEF OrphansLost
<1>14. ASSUME NEW a \in Anomaly
       PROVE  Cardinality(RowsOf(a)') + Cardinality(Due(a)') <= Cardinality(Archivist)
  <2>1. /\ IsFiniteSet(RowsOf(a)) /\ IsFiniteSet(Due(a))
        /\ Cardinality(RowsOf(a)) \in Nat /\ Cardinality(Due(a)) \in Nat
        /\ Cardinality(Archivist) \in Nat
        /\ Cardinality(RowsOf(a)) + Cardinality(Due(a)) <= Cardinality(Archivist)
    BY <1>5, EvidenceFinite DEF OncePerTask
  <2>2. DueFor(r, a) => DueFor(e, a)
    BY <1>5, <1>8 DEF DueFor
  <2>3. CASE c.target.anomaly = a
    <3>1. e.target = Sole(a)
      BY <1>6, <2>3, ProgressAssumption DEF Proper, Evidence!Target, Sole
    <3>2. DueFor(e, a) /\ ~DueFor(r, a)
      BY <1>5, <1>6, <1>8, <3>1 DEF DueFor
    <3>3. Due(a)' = Due(a) \ {w} /\ w \in Due(a)
      BY <1>1, <1>11, <3>2 DEF Due, DueFor
    <3>4. RowsOf(a)' = RowsOf(a) \cup {e.capture} /\ e.capture \notin RowsOf(a)
      <4>1. ~c.named /\ d.named /\ d.target.anomaly = a
        BY <1>6, <1>7, <2>3 DEF Stage
      <4> QED BY <1>2, <1>6, <1>9, <4>1 DEF RowsOf
    <3>5. Cardinality(RowsOf(a)') = Cardinality(RowsOf(a)) + 1
      BY <2>1, <3>4, FS_AddElement
    <3>6. Cardinality(Due(a)') = Cardinality(Due(a)) - 1
      BY <2>1, <3>3, FS_RemoveElement
    <3> QED BY <2>1, <3>5, <3>6
  <2>4. CASE c.target.anomaly # a
    <3>1. RowsOf(a)' = RowsOf(a)
      BY <1>2, <1>6, <1>7, <1>9, <2>4 DEF RowsOf
    <3>2. Due(a)' \subseteq Due(a)
      BY <1>1, <1>11, <2>2 DEF Due, DueFor
    <3>3. Cardinality(Due(a)') <= Cardinality(Due(a)) /\ Cardinality(Due(a)') \in Nat
      BY <2>1, <3>2, FS_Subset, FS_CardinalityType
    <3> QED BY <2>1, <3>1, <3>3
  <2> QED BY <2>3, <2>4
<1> QED BY <1>11, <1>12, <1>13, <1>14 DEF EvidenceInv, OncePerTask

\* A new capture is held from the start, and names nothing yet.
LEMMA EvidenceStores ==
  ASSUME EvidenceInv, NEW w \in Archivist, Evidence!StoreContent(w)
  PROVE  EvidenceInv'
<1>1. PICK e : e = eWork[w]
  OBVIOUS
<1>2. PICK c : c = Evidence!Stored(e.target) /\ eCapture' = Append(eCapture, c)
  BY <1>1 DEF Evidence!StoreContent
<1>3. PICK n : n = Len(eCapture) + 1
  OBVIOUS
<1>4. /\ EvidenceShapes /\ AllWhole /\ OrphansLost /\ OncePerTask
      /\ UNCHANGED <<eDetected, eFaults>> /\ eFaults' \in Nat
      /\ e.pc = "storeContent" /\ e \in ArchiveRow /\ RowStands(e)
  BY <1>1 DEF EvidenceInv, EvidenceShapes, Evidence!StoreContent, Evidence!At
<1>5. /\ e.capture = 0 /\ e.target \in Evidence!Target /\ Proper(e.target)
      /\ e.target \notin e.todo /\ \A t \in e.todo : Proper(t)
  BY <1>4 DEF RowStands, Capturing
<1>6. /\ c \in CaptureRow /\ c.target = e.target /\ c.content = "stored"
      /\ c.custody = <<"captured", "hashed">> /\ c.manifest = "absent" /\ c.named = FALSE
      /\ c.announced = FALSE
  BY <1>2, <1>5 DEF CaptureRow, Evidence!Object, Evidence!Stored
<1>7. /\ eCapture' \in Seq(CaptureRow) /\ Len(eCapture') = n /\ n \in Nat /\ n # 0
      /\ DOMAIN eCapture' = DOMAIN eCapture \cup {n} /\ n \notin DOMAIN eCapture
      /\ eCapture'[n] = c
      /\ \A i \in DOMAIN eCapture : eCapture'[i] = eCapture[i]
  <2>1. eCapture \in Seq(CaptureRow)
    BY <1>4 DEF EvidenceShapes
  <2> QED BY <1>2, <1>3, <1>6, <2>1
<1>8. PICK r : r = [e EXCEPT !.pc = "lockContent", !.capture = n] /\ Evidence!Becomes(w, r)
  BY <1>1, <1>7 DEF Evidence!StoreContent
<1>9. /\ r \in ArchiveRow /\ r.pc = "lockContent" /\ r.target = e.target /\ r.todo = e.todo
      /\ r.capture = n
  BY <1>4, <1>7, <1>8 DEF ArchiveRow, Evidence!Pc
<1>10. RowStands(r)'
  <2>1. Stage(c, "lockContent")
    BY <1>6 DEF Stage
  <2>2. r.pc \in Capturing /\ r.pc # "idle"
    BY <1>9 DEF Capturing
  <2>3. /\ r.capture \in DOMAIN eCapture' /\ eCapture'[r.capture].target = r.target
        /\ Stage(eCapture'[r.capture], r.pc)
    BY <1>6, <1>7, <1>9, <2>1
  <2> QED BY <1>5, <1>9, <2>2, <2>3 DEF RowStands, ArchiveRow, Stage, Proper
<1>11. /\ EvidenceShapes' /\ eWork'[w] = r
       /\ \A v \in Archivist \ {w} : eWork'[v] = eWork[v]
  <2>1. \A i \in DOMAIN eCapture : /\ i \in DOMAIN eCapture'
                                   /\ i # eWork[w].capture => eCapture'[i] = eCapture[i]
    BY <1>7
  <2>2. r.capture \notin DOMAIN eCapture
    BY <1>7, <1>9
  <2> QED BY <1>4, <1>7, <1>8, <1>10, <2>1, <2>2, ShapesKept
<1>12. AllWhole'
  <2>1. CaptureWhole(c)
    BY <1>6 DEF CaptureWhole
  <2> QED BY <1>4, <1>7, <2>1 DEF AllWhole
<1>13. OrphansLost'
  <2>1. \A i \in DOMAIN eCapture : i # 0 /\ i # n
    BY <1>4, <1>7 DEF EvidenceShapes
  <2>2. Orphans' = Orphans
    BY <1>1, <1>5, <1>7, <1>9, <1>11, <2>1 DEF Orphans
  <2> QED BY <1>4, <2>2 DEF OrphansLost
<1>14. OncePerTask'
  <2>1. ASSUME NEW a \in Anomaly PROVE RowsOf(a)' = RowsOf(a) /\ Due(a)' = Due(a)
    <3>1. RowsOf(a)' = RowsOf(a)
      BY <1>6, <1>7 DEF RowsOf
    <3>2. DueFor(r, a) <=> DueFor(e, a)
      BY <1>4, <1>9 DEF DueFor
    <3>3. Due(a)' = Due(a)
      BY <1>1, <1>11, <3>2 DEF Due, DueFor
    <3> QED BY <3>1, <3>3
  <2> QED BY <1>4, <2>1 DEF OncePerTask
<1> QED BY <1>11, <1>12, <1>13, <1>14 DEF EvidenceInv

\* A task that stops, and a task that goes on to the next target of its batch.
LEMMA IdleStands ==
  /\ RowStands(Evidence!Idle) /\ Evidence!Idle.capture = 0
  /\ \A a \in Anomaly : ~DueFor(Evidence!Idle, a)
<1>1. /\ Evidence!Idle \in ArchiveRow /\ Evidence!Idle.pc = "idle" /\ Evidence!Idle.todo = {}
      /\ Evidence!Idle.capture = 0
  BY DEF Evidence!Idle, ArchiveRow, Evidence!Pc, Evidence!NoTarget
<1> QED BY <1>1 DEF RowStands, Capturing, DueFor

LEMMA EvidencePublishes ==
  ASSUME EvidenceInv, NEW w \in Archivist, Evidence!Publish(w)
  PROVE  EvidenceInv'
<1>1. PICK e : e = eWork[w]
  OBVIOUS
<1>2. PICK c : c = eCapture[e.capture]
  OBVIOUS
<1>3. PICK d : d = [c EXCEPT !.announced = TRUE] /\ Evidence!Leaves(w, d)
  BY <1>1, <1>2 DEF Evidence!Publish, Evidence!Mine
<1>4. /\ EvidenceShapes /\ AllWhole /\ UNCHANGED <<eDetected, eFaults>> /\ eFaults' \in Nat
      /\ e.pc = "publish" /\ e \in ArchiveRow /\ RowStands(e)
  BY <1>1 DEF EvidenceInv, EvidenceShapes, Evidence!Publish, Evidence!At
<1>5. /\ e.capture \in DOMAIN eCapture /\ Stage(c, "publish") /\ c \in CaptureRow
      /\ e.todo \in SUBSET Evidence!Target /\ \A t \in e.todo : Proper(t)
  BY <1>2, <1>4 DEF EvidenceShapes, RowStands, Capturing, ArchiveRow
<1>6. PICK r : /\ RowStands(r) /\ r.capture = 0 /\ Evidence!Becomes(w, r)
               /\ \A a \in Anomaly : DueFor(r, a) => Sole(a) \in e.todo
  <2>1. CASE e.todo = {}
    <3>1. Evidence!Becomes(w, Evidence!Idle)
      BY <1>1, <2>1 DEF Evidence!Publish
    <3> QED BY <3>1, IdleStands
  <2>2. CASE e.todo # {}
    <3>1. Evidence!TakeFrom(w, e.todo)
      BY <1>1, <2>2 DEF Evidence!Publish
    <3> QED BY <1>5, <3>1, TargetTaken
  <2> QED BY <2>1, <2>2
<1>7. /\ d \in CaptureRow /\ d.target = c.target /\ d.content = c.content
      /\ d.custody = c.custody /\ d.manifest = c.manifest /\ d.named = c.named
      /\ d.announced = TRUE
  BY <1>3, <1>5 DEF CaptureRow
<1>8. /\ eCapture' \in Seq(CaptureRow) /\ DOMAIN eCapture' = DOMAIN eCapture
      /\ eCapture'[e.capture] = d
      /\ \A i \in DOMAIN eCapture : i # e.capture => eCapture'[i] = eCapture[i]
  BY <1>1, <1>3, <1>4, <1>5, <1>7 DEF Evidence!Leaves, Evidence!Mine, EvidenceShapes
<1>9. RowStands(r)'
  <2>1. r.pc \notin Capturing
    BY <1>4, <1>6 DEF RowStands, EvidenceShapes
  <2> QED BY <1>6, <2>1 DEF RowStands, ArchiveRow, Stage, Proper
<1>10. /\ EvidenceShapes' /\ eWork'[w] = r
       /\ \A v \in Archivist \ {w} : eWork'[v] = eWork[v]
  <2>1. \A i \in DOMAIN eCapture : /\ i \in DOMAIN eCapture'
                                   /\ i # eWork[w].capture => eCapture'[i] = eCapture[i]
    BY <1>1, <1>8
  <2> QED BY <1>4, <1>6, <1>8, <1>9, <2>1, ShapesKept
<1>11. AllWhole'
  <2>1. CaptureWhole(d)
    BY <1>5, <1>7 DEF Stage, CaptureWhole
  <2> QED BY <1>4, <1>8, <2>1 DEF AllWhole
<1>12. OrphansLost' /\ OncePerTask'
  <2>1. \A i \in DOMAIN eCapture : /\ eCapture'[i].named = eCapture[i].named
                                   /\ eCapture'[i].target = eCapture[i].target
    BY <1>2, <1>7, <1>8
  <2>2. eCapture[eWork[w].capture].named
    BY <1>1, <1>2, <1>5 DEF Stage
  <2>3. \A a \in Anomaly : DueFor(r, a) => DueFor(eWork[w], a)
    BY <1>1, <1>6 DEF DueFor
  <2> QED BY <1>4, <1>8, <1>10, <2>1, <2>2, <2>3, CountsKept
<1> QED BY <1>10, <1>11, <1>12 DEF EvidenceInv

\* The steps that only move a task: to the next statement, or off its work.
LEMMA EvidenceMoves ==
  ASSUME EvidenceInv, NEW w \in Archivist,
         Evidence!Read(w) \/ Evidence!Refuse(w) \/ Evidence!Fail(w)
  PROVE  EvidenceInv'
<1>1. PICK e : e = eWork[w]
  OBVIOUS
<1>2. RowStands(e) /\ e \in ArchiveRow /\ EvidenceShapes
  BY <1>1 DEF EvidenceInv, EvidenceShapes
<1>3. CASE Evidence!Read(w)
  <2>1. PICK r : r = [e EXCEPT !.pc = "storeContent"] /\ Evidence!Becomes(w, r)
    BY <1>1, <1>3 DEF Evidence!Read, Evidence!GoTo
  <2>2. e.pc = "read" /\ UNCHANGED <<eDetected, eCapture, eFaults>>
    BY <1>1, <1>3 DEF Evidence!Read, Evidence!At
  <2>3. /\ r \in ArchiveRow /\ r.pc = "storeContent" /\ r.target = e.target
        /\ r.todo = e.todo /\ r.capture = e.capture
    BY <1>2, <2>1 DEF ArchiveRow, Evidence!Pc
  <2>4. e.capture = 0 /\ RowStands(r)
    BY <1>2, <2>2, <2>3 DEF RowStands, Capturing
  <2>5. \A a \in Anomaly : DueFor(r, a) => DueFor(e, a)
    BY <2>2, <2>3 DEF DueFor
  <2> QED BY <1>1, <2>1, <2>2, <2>3, <2>4, <2>5, EvidenceQuiet
<1>4. CASE Evidence!Refuse(w)
  <2>1. /\ e.pc = "storeContent" /\ UNCHANGED <<eDetected, eCapture, eFaults>>
        /\ Evidence!Becomes(w, Evidence!Idle)
    BY <1>1, <1>4 DEF Evidence!Refuse, Evidence!At
  <2>2. eWork[w].capture = 0
    BY <1>1, <1>2, <2>1 DEF RowStands, Capturing
  <2> QED BY <2>1, <2>2, IdleStands, EvidenceQuiet
<1>5. CASE Evidence!Fail(w)
  <2>1. /\ UNCHANGED <<eDetected, eCapture>> /\ eFaults' = eFaults + 1
        /\ Evidence!Becomes(w, Evidence!Idle)
    BY <1>5 DEF Evidence!Fail
  <2> QED BY <2>1, IdleStands, EvidenceQuiet
<1> QED BY <1>3, <1>4, <1>5

\* An idle task is given its targets.
LEMMA EvidenceStarts ==
  ASSUME EvidenceInv, NEW w \in Archivist, Evidence!Sweep(w) \/ Evidence!Order(w)
  PROVE  EvidenceInv'
<1>1. PICK e : e = eWork[w]
  OBVIOUS
<1>2. /\ RowStands(e) /\ EvidenceShapes /\ e.pc = "idle"
      /\ UNCHANGED <<eDetected, eCapture, eFaults>>
  BY <1>1 DEF EvidenceInv, EvidenceShapes, Evidence!Sweep, Evidence!Order
<1>3. eWork[w].capture = 0
  BY <1>1, <1>2 DEF RowStands, Capturing
<1>4. \A i \in DOMAIN eDetected : eDetected[i].id \in Anomaly
  <2>1. eDetected \in Seq([id : Anomaly, flagged : BOOLEAN])
    BY <1>2 DEF EvidenceShapes
  <2>2. \A i \in DOMAIN eDetected : eDetected[i] \in [id : Anomaly, flagged : BOOLEAN]
    BY <2>1, ElementOfSeq, LenProperties
  <2> QED BY <2>2
<1>5. CASE Evidence!Sweep(w)
  <2>1. PICK targets : targets = Evidence!Pending /\ Evidence!TakeFrom(w, targets)
    BY <1>5 DEF Evidence!Sweep
  <2>2. \A t \in targets :
          \E i \in DOMAIN eDetected : /\ t = Evidence!Whole(eDetected[i])
                                      /\ Evidence!Rows(eDetected[i].id) = {}
    BY <2>1 DEF Evidence!Pending, Evidence!Unarchived
  <2>3. targets \in SUBSET Evidence!Target /\ \A t \in targets : Proper(t)
    BY <1>4, <2>2 DEF Evidence!Whole, Evidence!Target, Proper
  <2>4. \A a \in Anomaly : Sole(a) \in targets => RowsOf(a) = {}
    <3>1. \A a \in Anomaly : Evidence!Rows(a) = RowsOf(a)
      BY DEF Evidence!Rows, RowsOf
    <3> QED BY <2>2, <3>1 DEF Evidence!Whole, Sole
  <2>5. PICK r : /\ RowStands(r) /\ r.capture = 0 /\ Evidence!Becomes(w, r)
                 /\ \A a : DueFor(r, a) <=> Sole(a) \in targets
    BY <2>1, <2>3, TargetTaken
  <2> QED BY <1>2, <1>3, <2>4, <2>5, EvidenceQuiet
<1>6. CASE Evidence!Order(w)
  <2>1. PICK b \in Evidence!Known :
          Evidence!TakeFrom(w, {[observation |-> b, anomaly |-> NoAnomaly]})
    BY <1>6 DEF Evidence!Order
  <2>2. PICK t : t = [observation |-> b, anomaly |-> NoAnomaly]
    OBVIOUS
  <2>3. b \in Anomaly
    BY <1>4, <2>1 DEF Evidence!Known
  <2>4. t \in Evidence!Target /\ Proper(t) /\ t.anomaly = NoAnomaly
    BY <2>2, <2>3 DEF Evidence!Target, Proper
  <2>5. PICK r : /\ RowStands(r) /\ r.capture = 0 /\ Evidence!Becomes(w, r)
                 /\ \A a : DueFor(r, a) <=> Sole(a) \in {t}
    BY <2>1, <2>2, <2>4, TargetTaken
  <2>6. \A a \in Anomaly : ~DueFor(r, a)
    BY <2>4, <2>5, ProgressAssumption DEF Sole
  <2> QED BY <1>2, <1>3, <2>5, <2>6, EvidenceQuiet
<1> QED BY <1>5, <1>6

LEMMA EvidenceDetects == ASSUME EvidenceInv, Evidence!Detect PROVE EvidenceInv'
<1>1. UNCHANGED <<eCapture, eWork, eFaults>>
  BY DEF Evidence!Detect
<1>2. EvidenceShapes'
  <2>1. eDetected' \in Seq([id : Anomaly, flagged : BOOLEAN])
    BY DEF Evidence!Detect, EvidenceInv, EvidenceShapes
  <2>2. \A v \in Archivist : RowStands(eWork[v])'
    BY <1>1 DEF EvidenceInv, EvidenceShapes, RowStands, ArchiveRow, Stage, Proper
  <2> QED BY <1>1, <2>1, <2>2 DEF EvidenceInv, EvidenceShapes
<1>3. Orphans' = Orphans
  BY <1>1 DEF Orphans
<1>4. \A a \in Anomaly : RowsOf(a)' = RowsOf(a) /\ Due(a)' = Due(a)
  BY <1>1 DEF RowsOf, Due, DueFor
<1>5. AllWhole' /\ OrphansLost' /\ OncePerTask'
  BY <1>1, <1>3, <1>4 DEF EvidenceInv, AllWhole, OrphansLost, OncePerTask
<1> QED BY <1>2, <1>5 DEF EvidenceInv

LEMMA EvidenceStands == ASSUME EvidenceInv, UNCHANGED eVars PROVE EvidenceInv'
<1>1. UNCHANGED <<eDetected, eCapture, eWork, eFaults>>
  BY DEF eVars
<1>2. EvidenceShapes'
  <2>1. \A v \in Archivist : RowStands(eWork[v])'
    BY <1>1 DEF EvidenceInv, EvidenceShapes, RowStands, ArchiveRow, Stage, Proper
  <2> QED BY <1>1, <2>1 DEF EvidenceInv, EvidenceShapes
<1>3. Orphans' = Orphans
  BY <1>1 DEF Orphans
<1>4. \A a \in Anomaly : RowsOf(a)' = RowsOf(a) /\ Due(a)' = Due(a)
  BY <1>1 DEF RowsOf, Due, DueFor
<1>5. AllWhole' /\ OrphansLost' /\ OncePerTask'
  BY <1>1, <1>3, <1>4 DEF EvidenceInv, AllWhole, OrphansLost, OncePerTask
<1> QED BY <1>2, <1>5 DEF EvidenceInv

LEMMA EvidenceInductive == EvidenceInv /\ [Evidence!Next]_eVars => EvidenceInv'
<1> SUFFICES ASSUME EvidenceInv, [Evidence!Next]_eVars PROVE EvidenceInv'
  OBVIOUS
<1>1. CASE UNCHANGED eVars
  BY <1>1, EvidenceStands
<1>2. CASE Evidence!Detect
  BY <1>2, EvidenceDetects
<1>3. ASSUME NEW w \in Archivist, Evidence!Sweep(w) \/ Evidence!Order(w) PROVE EvidenceInv'
  BY <1>3, EvidenceStarts
<1>4. ASSUME NEW w \in Archivist, Evidence!Fail(w) PROVE EvidenceInv'
  BY <1>4, EvidenceMoves
<1>5. ASSUME NEW w \in Archivist, Evidence!Step(w) PROVE EvidenceInv'
  <2>1. CASE Evidence!Read(w) \/ Evidence!Refuse(w)
    BY <2>1, EvidenceMoves
  <2>2. CASE Evidence!StoreContent(w)
    BY <2>2, EvidenceStores
  <2>3. CASE Evidence!LockContent(w) \/ Evidence!StoreManifest(w) \/ Evidence!LockManifest(w)
    BY <2>3, EvidenceCaptures
  <2>4. CASE Evidence!SaveEvidence(w)
    BY <2>4, EvidenceSaves
  <2>5. CASE Evidence!Publish(w)
    BY <2>5, EvidencePublishes
  <2> QED BY <1>5, <2>1, <2>2, <2>3, <2>4, <2>5 DEF Evidence!Step
<1> QED BY <1>1, <1>2, <1>3, <1>4, <1>5 DEF Evidence!Next

\* Whatever a row of evidence names is under retention lock with a full custody, a capture is
\* left without its row only by a failure, and however sweeps overlap an anomaly gets at most
\* one row from each task of Archivist (Archivist.handle, EvidenceVault.capture).
THEOREM CustodyKept == OneSpec => []CustodyComplete
<1>1. OneInit => EvidenceInv
  BY EvidenceInitially DEF OneInit
<1>2. EvidenceInv /\ [OneNext]_oneVars => EvidenceInv'
  <2> SUFFICES ASSUME EvidenceInv, [OneNext]_oneVars PROVE EvidenceInv'
    OBVIOUS
  <2>1. [Evidence!Next]_eVars
    BY DEF OneNext, oneVars
  <2> QED BY <2>1, EvidenceInductive
<1>3. EvidenceInv => CustodyComplete
  <2> SUFFICES ASSUME EvidenceInv PROVE Evidence!CustodyComplete
    BY DEF CustodyComplete
  <2> DEFINE held == {Evidence!Mine(w) : w \in Archivist}
             orphans == {i \in DOMAIN eCapture \ held : ~eCapture[i].named}
  <2>1. \A i \in DOMAIN eCapture : CaptureWhole(eCapture[i])
    BY DEF EvidenceInv, AllWhole
  <2>2. Evidence!Cardinality(orphans) <= eFaults
    <3>1. orphans = Orphans
      BY DEF Orphans, Evidence!Mine
    <3> QED BY <3>1, EvidenceCounts DEF EvidenceInv, OrphansLost
  <2>3. ASSUME NEW a \in Anomaly
        PROVE  Evidence!Cardinality(Evidence!Rows(a)) <= Evidence!Cardinality(Archivist)
    <3>1. Evidence!Rows(a) = RowsOf(a)
      BY DEF Evidence!Rows, RowsOf
    <3>2. /\ Cardinality(RowsOf(a)) \in Nat /\ Cardinality(Due(a)) \in Nat
          /\ Cardinality(Archivist) \in Nat
          /\ Cardinality(RowsOf(a)) + Cardinality(Due(a)) <= Cardinality(Archivist)
      BY EvidenceFinite DEF EvidenceInv, OncePerTask
    <3>3. Cardinality(RowsOf(a)) <= Cardinality(Archivist)
      BY <3>2
    <3> QED BY <3>1, <3>3, EvidenceCounts
  <2> QED BY <2>1, <2>2, <2>3 DEF Evidence!CustodyComplete, CaptureWhole, FullCustody
<1> QED BY <1>1, <1>2, <1>3, PTL DEF OneSpec
=============================================================================
