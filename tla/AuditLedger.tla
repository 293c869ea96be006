----------------------------- MODULE AuditLedger -----------------------------
(***************************************************************************)
(* The audit ledger: services/orchestrator/src/db.ts (AuditWriter),        *)
(* packages/core/src/audit/ledger.ts (sealEntry, verifyChain) and the      *)
(* table audit_log of db/migrations/001.                                   *)
(*                                                                         *)
(* Writers are concurrent calls of append, in one orchestrator or several. *)
(* Each statement of the transaction is a step; an advisory lock that the  *)
(* transaction holds to its end serialises them.  A row becomes visible    *)
(* when its transaction commits.                                           *)
(*                                                                         *)
(* SHA-256 is taken to be free of collisions: a hash is the tuple of what  *)
(* is hashed.  The content of an entry is the part computeEntryHash reads; *)
(* ip_address and user_agent, which it does not read, are left out.        *)
(***************************************************************************)
EXTENDS Integers, FiniteSets

CONSTANTS
  Writer, NoWriter,
  Content,     \* what an entry may say
  PageLimit,   \* the rows one verification reads: 2000
  MaxRows,     \* bound: rows written
  MaxFaults    \* bound: statements and connections that fail

ASSUME LedgerAssumption ==
  /\ NoWriter \notin Writer
  /\ PageLimit \in Nat \ {0}
  /\ MaxRows \in Nat
  /\ MaxFaults \in Nat

VARIABLES
  log,       \* audit_log, by its primary key
  lock,      \* the transaction that holds advisory lock 847211
  writer,    \* where each append stands
  returned,  \* the entries append has returned to its callers
  report,    \* what /api/audit/verify last answered
  tampered,  \* the row altered or deleted behind the program's back, if any
  faults

vars == <<log, lock, writer, returned, report, tampered, faults>>

Null == -1      \* stands for null where a sequence number is expected
Genesis == <<>>

\* Mutant: prevHash is left out of what is hashed.
HashWithoutPrev(sequence, content, prevHash) == <<sequence, content>>

\* computeEntryHash
Hash(sequence, content, prevHash) == <<sequence, content, prevHash>>

\* sealEntry, once the head is known
Seal(sequence, content, prevHash) ==
  [content |-> content, prevHash |-> prevHash,
   entryHash |-> Hash(sequence, content, prevHash)]

Rows == DOMAIN log

Idle == [pc |-> "idle"]
Entry == [sequence : Nat, content : Content]

InState(w, pc) == writer[w].pc = pc

TypeOK ==
  /\ Rows \subseteq Nat
  /\ \A s \in Rows : log[s].content \in Content
  /\ lock \in Writer \cup {NoWriter}
  /\ DOMAIN writer = Writer
  /\ \A w \in Writer :
       \/ writer[w] = Idle
       \/ InState(w, "begun") /\ writer[w].content \in Content
       \/ InState(w, "locked") /\ writer[w].content \in Content
       \/ /\ writer[w].pc \in {"sealed", "inserted"}
          /\ writer[w].content \in Content
          /\ writer[w].sequence \in Nat
  /\ returned \subseteq Entry
  /\ report \in [from : Nat, brokenAt : Nat \cup {Null}]
  /\ tampered \in Nat \cup {Null}
  /\ faults \in Nat

Init ==
  /\ log = [s \in {} |-> Genesis]
  /\ lock = NoWriter
  /\ writer = [w \in Writer |-> Idle]
  /\ returned = {}
  /\ report = [from |-> 0, brokenAt |-> Null]
  /\ tampered = Null
  /\ faults = 0

Fault == faults < MaxFaults /\ faults' = faults + 1

----------------------------------------------------------------------------
(* AuditWriter.append *)

InFlight == {w \in Writer : writer[w] # Idle}

\* A client is checked out and BEGIN sent.
Begin(w, content) ==
  /\ writer[w] = Idle
  /\ Cardinality(Rows) + Cardinality(InFlight) < MaxRows
  /\ writer' = [writer EXCEPT ![w] = [pc |-> "begun", content |-> content]]
  /\ UNCHANGED <<log, lock, returned, report, tampered, faults>>

\* SELECT pg_advisory_xact_lock
Lock(w) ==
  /\ InState(w, "begun")
  /\ lock = NoWriter
  /\ lock' = w
  /\ writer' = [writer EXCEPT ![w] = [@ EXCEPT !.pc = "locked"]]
  /\ UNCHANGED <<log, returned, report, tampered, faults>>

\* Mutant: the entry is linked to no head.
SealedUnlinked(w, sequence, prevHash) ==
  [pc |-> "sealed", content |-> writer[w].content,
   sequence |-> sequence, prevHash |-> Genesis]

Sealed(w, sequence, prevHash) ==
  [pc |-> "sealed", content |-> writer[w].content,
   sequence |-> sequence, prevHash |-> prevHash]

IsHead(s) == s \in Rows /\ \A r \in Rows : r <= s

\* SELECT ... ORDER BY sequence DESC LIMIT 1, then sealEntry.
ReadHead(w) ==
  /\ InState(w, "locked")
  /\ \/ /\ Rows = {}
        /\ writer' = [writer EXCEPT ![w] = Sealed(w, 0, Genesis)]
     \/ \E h \in Rows :
          /\ IsHead(h)
          /\ writer' = [writer EXCEPT ![w] = Sealed(w, h + 1, log[h].entryHash)]
  /\ UNCHANGED <<log, lock, returned, report, tampered, faults>>

\* INSERT: the primary key lets one transaction at a time have a sequence number.
Insert(w) ==
  /\ InState(w, "sealed")
  /\ writer[w].sequence \notin Rows
  /\ \A v \in Writer : InState(v, "inserted") => writer[v].sequence # writer[w].sequence
  /\ writer' = [writer EXCEPT ![w] = [@ EXCEPT !.pc = "inserted"]]
  /\ UNCHANGED <<log, lock, returned, report, tampered, faults>>

\* COMMIT takes effect: the row is visible and the lock is free.
Committed(w) ==
  /\ InState(w, "inserted")
  /\ log' = [s \in Rows \cup {writer[w].sequence} |->
               IF s = writer[w].sequence
               THEN Seal(s, writer[w].content, writer[w].prevHash)
               ELSE log[s]]
  /\ lock' = NoWriter
  /\ writer' = [writer EXCEPT ![w] = Idle]

Commit(w) ==
  /\ Committed(w)
  /\ returned' = returned \cup
       {[sequence |-> writer[w].sequence, content |-> writer[w].content]}
  /\ UNCHANGED <<report, tampered, faults>>

\* The connection is lost after COMMIT took effect: append throws all the same.
CommitUnanswered(w) ==
  /\ Fault
  /\ Committed(w)
  /\ UNCHANGED <<returned, report, tampered>>

\* Mutant: append returns before its COMMIT is answered.
RollbackReturned(w) ==
  /\ writer[w] # Idle
  /\ Fault
  /\ lock' = IF lock = w THEN NoWriter ELSE lock
  /\ writer' = [writer EXCEPT ![w] = Idle]
  /\ IF InState(w, "inserted")
     THEN returned' = returned \cup
            {[sequence |-> writer[w].sequence, content |-> writer[w].content]}
     ELSE UNCHANGED returned
  /\ UNCHANGED <<log, report, tampered>>

\* A statement fails or times out, or the process dies: the transaction rolls back
\* and its lock goes with it.
Rollback(w) ==
  /\ writer[w] # Idle
  /\ Fault
  /\ lock' = IF lock = w THEN NoWriter ELSE lock
  /\ writer' = [writer EXCEPT ![w] = Idle]
  /\ UNCHANGED <<log, returned, report, tampered>>

----------------------------------------------------------------------------
(* GET /api/audit/verify *)

\* AuditWriter.range: the PageLimit rows that follow `from` in order.
Page(from) ==
  {s \in Rows : from <= s /\ Cardinality({r \in Rows : from <= r /\ r < s}) < PageLimit}

IsFirst(page, s) == \A r \in page : s <= r

\* verifyChain's three checks of row s, when it is given these rows.
BadAt(page, s) ==
  \/ ~IsFirst(page, s) /\ s - 1 \notin page
  \/ log[s].prevHash # (IF IsFirst(page, s) THEN Genesis ELSE log[s - 1].entryHash)
  \/ log[s].entryHash # Hash(s, log[s].content, log[s].prevHash)

Broken(page) == {s \in page : BadAt(page, s)}

Verify(from) ==
  /\ \/ Broken(Page(from)) = {} /\ report' = [from |-> from, brokenAt |-> Null]
     \/ \E s \in Broken(Page(from)) :
          /\ IsFirst(Broken(Page(from)), s)
          /\ report' = [from |-> from, brokenAt |-> s]
  /\ UNCHANGED <<log, lock, writer, returned, tampered, faults>>

----------------------------------------------------------------------------
(* Someone with the rights to disable the trigger audit_no_update changes the *)
(* table, once.  External to the program.                                     *)

\* One row's content is changed and nothing else.
Alter(s, content) ==
  /\ tampered = Null
  /\ content # log[s].content
  /\ log' = [log EXCEPT ![s].content = content]
  /\ tampered' = s
  /\ UNCHANGED <<lock, writer, returned, report, faults>>

\* As Alter, and the hash of the row and the next row's link are brought in line.
AlterAndRelink(s, content) ==
  /\ tampered = Null
  /\ s + 1 \in Rows
  /\ content # log[s].content
  /\ LET row == Seal(s, content, log[s].prevHash)
     IN  log' = [log EXCEPT ![s] = row, ![s + 1].prevHash = row.entryHash]
  /\ tampered' = s
  /\ UNCHANGED <<lock, writer, returned, report, faults>>

\* A row that others follow is deleted.
Delete(s) ==
  /\ tampered = Null
  /\ s + 1 \in Rows
  /\ log' = [r \in Rows \ {s} |-> log[r]]
  /\ tampered' = s
  /\ UNCHANGED <<lock, writer, returned, report, faults>>

----------------------------------------------------------------------------
Next ==
  \/ \E w \in Writer :
       \/ \E content \in Content : Begin(w, content)
       \/ Lock(w) \/ ReadHead(w) \/ Insert(w) \/ Commit(w)
       \/ CommitUnanswered(w) \/ Rollback(w)
  \/ \E from \in 0..MaxRows : Verify(from)
  \/ \E s \in Rows :
       \/ \E content \in Content : Alter(s, content) \/ AlterAndRelink(s, content)
       \/ Delete(s)

Spec == Init /\ [][Next]_vars

----------------------------------------------------------------------------
(* Properties *)

\* The head a writer has linked its entry to is still the head when it inserts: no
\* two writers claim the same predecessor, which is what the comment on AuditWriter
\* (db.ts:33-36) says the lock is for.
HeadIsCurrent ==
  \A w \in Writer : writer[w].pc \in {"sealed", "inserted"} =>
    \/ Rows = {} /\ writer[w].sequence = 0 /\ writer[w].prevHash = Genesis
    \/ /\ IsHead(writer[w].sequence - 1)
       /\ writer[w].prevHash = log[writer[w].sequence - 1].entryHash

\* However appends interleave, fail and roll back, the log the program itself wrote
\* verifies from its first row: no gap is left by a rollback, no link is wrong.
UntamperedVerifies ==
  tampered = Null =>
    /\ Broken(Rows) = {}
    /\ report.from = 0 => report.brokenAt = Null

\* An entry that append has returned is in the log, as it was returned.
ReturnedIsInLog ==
  tampered = Null =>
    \A e \in returned : e.sequence \in Rows /\ log[e.sequence].content = e.content

\* "Altering or deleting any historical row" (ledger.ts:7-8) shows in a verification
\* of the whole log, at that row or the next, whatever is appended afterwards.
TamperingShows ==
  tampered # Null => Broken(Rows) \cap {tampered, tampered + 1} # {}

\* What the verification route promises ("Proves the audit chain has not been
\* altered", routes/index.ts:383): asked for the whole chain, it reports an altered
\* row.  It reads the first PageLimit rows only, so it does not.
VerifyReportsTampering == tampered # Null => Broken(Page(0)) # {}
=============================================================================
