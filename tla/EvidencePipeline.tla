-------------------------- MODULE EvidencePipeline --------------------------
(***************************************************************************)
(* From a flagged anomaly to a row of evidence: Archivist's tasks          *)
(* (services/agent-archivist/src/agent.ts) capture an observation into     *)
(* the vault (vault.ts) and store the row that names the captured object   *)
(* (agent-runtime/src/store.ts).                                           *)
(*                                                                         *)
(* Each statement and each call of the bucket is one step, so that a       *)
(* process may die, or a call fail, between any two of them.  An anomaly   *)
(* stands for its observation as well: an anomaly has exactly one.         *)
(***************************************************************************)
EXTENDS Naturals, FiniteSets, Sequences

CONSTANTS
  Anomaly, NoAnomaly,
  Worker,        \* the tasks of Archivist that may run at the same time
  Refused,       \* anomalies whose content the bucket refuses every time
  Limit,         \* pendingArchival(limit)
  MaxOrders,     \* bound: deliveries of tasks for one observation
  MaxFaults      \* bound: failed calls and crashes, in all

VARIABLES
  detected,      \* anomalies, by detected_at: [id, flagged], flagged when band <> 'info'
  capture,       \* what the calls of EvidenceVault.capture have left, in order
  work,          \* where each task stands
  orders, faults

vars == <<detected, capture, work, orders, faults>>

Target == [observation : Anomaly, anomaly : Anomaly \cup {NoAnomaly}]
Object == {"absent", "stored", "locked"}

\* capture[i].named: a row of evidence names the object.
Capture == [target : Target, content : Object, manifest : Object,
            custody : Seq({"captured", "hashed", "stored", "locked"}),
            named : BOOLEAN, announced : BOOLEAN]

Pc == {"idle", "read", "storeContent", "lockContent", "storeManifest", "lockManifest",
       "saveEvidence", "publish"}
NoTarget == [observation |-> NoAnomaly, anomaly |-> NoAnomaly]
Idle == [pc |-> "idle", target |-> NoTarget, todo |-> {}, capture |-> 0]

TypeOK ==
  /\ detected \in Seq([id : Anomaly, flagged : BOOLEAN])
  /\ capture \in Seq(Capture)
  /\ work \in [Worker -> [pc : Pc, target : Target \cup {NoTarget}, todo : SUBSET Target,
                          capture : 0..Len(capture)]]
  /\ orders \in 0..MaxOrders
  /\ faults \in 0..MaxFaults

Init ==
  /\ detected = <<>>
  /\ capture = <<>>
  /\ work = [w \in Worker |-> Idle]
  /\ orders = 0
  /\ faults = 0

Known   == {detected[i].id : i \in DOMAIN detected}
Rows(a) == {i \in DOMAIN capture : capture[i].named /\ capture[i].target.anomaly = a}
Place(a) == CHOOSE i \in DOMAIN detected : detected[i].id = a

----------------------------------------------------------------------------
(* What the tasks are given *)

\* A collector stores an anomaly, in the band its score falls in.
Detect ==
  /\ \E a \in Anomaly \ Known, f \in BOOLEAN :
       detected' = Append(detected, [id |-> a, flagged |-> f])
  /\ UNCHANGED <<capture, work, orders, faults>>

\* What pendingArchival finds: flagged, and named by no row of evidence.
Unarchived == {i \in DOMAIN detected : detected[i].flagged /\ Rows(detected[i].id) = {}}
Whole(d) == [observation |-> d.id, anomaly |-> d.id]

\* pendingArchival: the oldest of them, up to the limit.
Pending ==
  {Whole(detected[i]) :
     i \in {j \in Unarchived : Cardinality({k \in Unarchived : k < j}) < Limit}}

Becomes(w, r) == work' = [work EXCEPT ![w] = r]

\* Mutant: newest first, as the lists of the dashboard are ordered.
Newest(targets) ==
  {t \in targets : \A u \in targets : Place(t.observation) >= Place(u.observation)}

\* for (const target of targets): the oldest first.
Oldest(targets) ==
  {t \in targets : \A u \in targets : Place(t.observation) <= Place(u.observation)}
TakeFrom(w, targets) ==
  \E t \in Oldest(targets) :
    Becomes(w, [pc |-> "read", target |-> t, todo |-> targets \ {t}, capture |-> 0])

\* A task without a target, as Beast mode dispatches it.
Sweep(w) ==
  /\ work[w].pc = "idle"
  /\ TakeFrom(w, Pending)
  /\ UNCHANGED <<detected, capture, orders, faults>>

\* A task for one observation, as an archive node of a workflow dispatches it: its payload
\* has no anomalyId.
Order(w) ==
  /\ work[w].pc = "idle"
  /\ orders < MaxOrders
  /\ orders' = orders + 1
  /\ \E a \in Known : TakeFrom(w, {[observation |-> a, anomaly |-> NoAnomaly]})
  /\ UNCHANGED <<detected, capture, faults>>

----------------------------------------------------------------------------
(* Archivist.handle and EvidenceVault.capture *)

At(w, pc) == work[w].pc = pc
GoTo(w, pc) == Becomes(w, [work[w] EXCEPT !.pc = pc])
Mine(w) == work[w].capture

\* What the capture of a task has left changes to c.
Leaves(w, c) == capture' = [capture EXCEPT ![Mine(w)] = c]

\* getObservation: the observation is there, no statement of the repository deletes one.
Read(w) ==
  /\ At(w, "read")
  /\ GoTo(w, "storeContent")
  /\ UNCHANGED <<detected, capture, orders, faults>>

Stored(target) ==
  [target |-> target, content |-> "stored", manifest |-> "absent", named |-> FALSE,
   announced |-> FALSE, custody |-> <<"captured", "hashed">>]

\* The first two entries of the custody, and putLocked of the content: file.save, then
\* file.setMetadata.
StoreContent(w) ==
  /\ At(w, "storeContent")
  /\ work[w].target.observation \notin Refused
  /\ capture' = Append(capture, Stored(work[w].target))
  /\ Becomes(w, [work[w] EXCEPT !.pc = "lockContent", !.capture = Len(capture')])
  /\ UNCHANGED <<detected, orders, faults>>

LockContent(w) ==
  /\ At(w, "lockContent")
  /\ Leaves(w, [capture[Mine(w)] EXCEPT !.content = "locked",
                                        !.custody = @ \o <<"stored", "locked">>])
  /\ GoTo(w, "storeManifest")
  /\ UNCHANGED <<detected, orders, faults>>

StoreManifest(w) ==
  /\ At(w, "storeManifest")
  /\ Leaves(w, [capture[Mine(w)] EXCEPT !.manifest = "stored"])
  /\ GoTo(w, "lockManifest")
  /\ UNCHANGED <<detected, orders, faults>>

\* Mutant: the lock of the manifest is not awaited.
LockManifestLater(w) ==
  /\ At(w, "lockManifest")
  /\ GoTo(w, "saveEvidence")
  /\ UNCHANGED <<detected, capture, orders, faults>>

LockManifest(w) ==
  /\ At(w, "lockManifest")
  /\ Leaves(w, [capture[Mine(w)] EXCEPT !.manifest = "locked"])
  /\ GoTo(w, "saveEvidence")
  /\ UNCHANGED <<detected, orders, faults>>

\* INSERT INTO evidence: the id is new, so ON CONFLICT never applies.
SaveEvidence(w) ==
  /\ At(w, "saveEvidence")
  /\ Leaves(w, [capture[Mine(w)] EXCEPT !.named = TRUE])
  /\ GoTo(w, "publish")
  /\ UNCHANGED <<detected, orders, faults>>

\* evidence.archived, and on to the next target.
Publish(w) ==
  /\ At(w, "publish")
  /\ Leaves(w, [capture[Mine(w)] EXCEPT !.announced = TRUE])
  /\ IF work[w].todo = {} THEN Becomes(w, Idle) ELSE TakeFrom(w, work[w].todo)
  /\ UNCHANGED <<detected, orders, faults>>

\* A target the bucket refuses ends the whole batch: handle rethrows.
Refuse(w) ==
  /\ At(w, "storeContent")
  /\ work[w].target.observation \in Refused
  /\ Becomes(w, Idle)
  /\ UNCHANGED <<detected, capture, orders, faults>>

\* A call throws or the process dies: the rest of the batch is left to a later sweep.
Fail(w) ==
  /\ work[w].pc # "idle"
  /\ faults < MaxFaults
  /\ faults' = faults + 1
  /\ Becomes(w, Idle)
  /\ UNCHANGED <<detected, capture, orders>>

Step(w) ==
  \/ Read(w)
  \/ StoreContent(w) \/ LockContent(w) \/ StoreManifest(w) \/ LockManifest(w)
  \/ SaveEvidence(w) \/ Publish(w) \/ Refuse(w)

Next ==
  \/ Detect
  \/ \E w \in Worker : Sweep(w) \/ Order(w) \/ Step(w) \/ Fail(w)

Spec == Init /\ [][Next]_vars

----------------------------------------------------------------------------
(* What the vault promises *)

\* A row of evidence names a content and a manifest that are both under retention lock, and
\* a custody that says so in this order; the event follows the row.  What a capture leaves
\* without a row is the leftover of a failure: two tasks never take each other's.  However
\* often sweeps fail and are repeated, an anomaly is archived at most once by each of the
\* tasks that swept it together: a later sweep sees the row and leaves it alone.
CustodyComplete ==
  /\ \A i \in DOMAIN capture :
       /\ capture[i].announced => capture[i].named
       /\ capture[i].named =>
            /\ capture[i].content = "locked" /\ capture[i].manifest = "locked"
            /\ capture[i].custody = <<"captured", "hashed", "stored", "locked">>
       /\ capture[i].manifest # "absent" => capture[i].content = "locked"
  /\ LET held == {Mine(w) : w \in Worker}
         orphans == {i \in DOMAIN capture \ held : ~capture[i].named}
     IN Cardinality(orphans) <= faults
  /\ \A a \in Anomaly : Cardinality(Rows(a)) <= Cardinality(Worker)

\* What a task took on is archived in the end - every target of a sweep's batch as well as
\* the one of an order, by that task or by one that got there first - however the tasks
\* interleave.  Two things may prevent it: a failure, and a target the bucket refuses, which
\* ends the batch at its turn: what is older than that one is archived all the same.
Batch(w) == IF At(w, "idle") THEN {} ELSE {work[w].target} \cup work[w].todo
HasTurn(w, t) ==
  /\ t \in Batch(w)
  /\ \A u \in Batch(w) : Place(u.observation) <= Place(t.observation)
                           => u.observation \notin Refused
Acceptable == {t \in Target : /\ t.observation \notin Refused
                             /\ t.anomaly \in {t.observation, NoAnomaly}}
Archived(t) == \E i \in DOMAIN capture : capture[i].named /\ capture[i].target = t
TakenIsArchived ==
  \A t \in Acceptable, n \in 0..MaxFaults :
    ((\E w \in Worker : HasTurn(w, t)) /\ faults = n) ~> (Archived(t) \/ faults > n)
=============================================================================
