-------------------------- MODULE AuditLedgerProofs --------------------------
(***************************************************************************)
(* Proofs about the audit ledger, for any number of writers, rows, faults  *)
(* and any size of the page that a verification reads.                     *)
(*                                                                         *)
(* The inductive invariant adds to the properties: who is past the lock    *)
(* holds it, each row of an untampered log is linked to the row before it, *)
(* and what an alteration leaves behind, which no later append repairs.    *)
(***************************************************************************)
EXTENDS AuditLedger, FiniteSetTheorems, TLAPS

USE DEF Rows

RowShape(r) ==
  r = [content |-> r.content, prevHash |-> r.prevHash, entryHash |-> r.entryHash]

WriterShape(r) ==
  \/ r = Idle
  \/ /\ r.pc \in {"begun", "locked"}
     /\ r = [pc |-> r.pc, content |-> r.content]
  \/ /\ r.pc \in {"sealed", "inserted"}
     /\ r = [pc |-> r.pc, content |-> r.content,
             sequence |-> r.sequence, prevHash |-> r.prevHash]

Shapes ==
  /\ \A s \in Rows : RowShape(log[s])
  /\ \A w \in Writer : WriterShape(writer[w])
  /\ IsFiniteSet(Rows)

\* Who is past the lock holds it.
LockIsHeld ==
  \A w \in Writer : writer[w].pc \in {"locked", "sealed", "inserted"} => lock = w

SealIntact(s) == log[s].entryHash = Hash(s, log[s].content, log[s].prevHash)

\* Each row is linked to the row before it and holds the hash of its own content.
Linked ==
  tampered = Null =>
    \A s \in Rows :
      /\ s # 0 => s - 1 \in Rows
      /\ log[s].prevHash = (IF s = 0 THEN Genesis ELSE log[s - 1].entryHash)
      /\ SealIntact(s)

ReportedIntact == tampered = Null /\ report.from = 0 => report.brokenAt = Null

\* What an alteration of row t leaves behind: a seal that does not fit its content at
\* t or t + 1, or a row whose predecessor is gone.
Defect(t) ==
  \/ t \in Rows /\ ~SealIntact(t)
  \/ t + 1 \in Rows /\ ~SealIntact(t + 1)
  \/ t \notin Rows /\ t + 1 \in Rows /\ log[t + 1].prevHash # Genesis

DefectStays == tampered # Null => Defect(tampered)

IInv ==
  /\ TypeOK
  /\ Shapes
  /\ LockIsHeld
  /\ HeadIsCurrent
  /\ Linked
  /\ ReportedIntact
  /\ ReturnedIsInLog
  /\ DefectStays

----------------------------------------------------------------------------
(* What the inductive invariant says of a verification *)

\* A page that starts at row 0 holds, with a row, every row before it.
LEMMA PageIsPrefix ==
  ASSUME TypeOK, Shapes, NEW s \in Page(0), s - 1 \in Rows
  PROVE  s - 1 \in Page(0)
<1> DEFINE Before(n) == {r \in Rows : 0 <= r /\ r < n}
<1>1. s \in Rows /\ s \in Nat /\ Rows \subseteq Nat /\ s - 1 \in Nat
  BY DEF Page, TypeOK
<1>2. Before(s - 1) \subseteq Before(s) /\ Before(s) \subseteq Rows
  BY <1>1
<1>3. IsFiniteSet(Before(s))
  BY <1>2, FS_Subset DEF Shapes
<1>4. /\ Cardinality(Before(s - 1)) <= Cardinality(Before(s))
      /\ Cardinality(Before(s - 1)) \in Nat /\ Cardinality(Before(s)) \in Nat
  BY <1>2, <1>3, FS_Subset, FS_CardinalityType
<1>5. Cardinality(Before(s)) < PageLimit
  BY DEF Page
<1>6. Cardinality(Before(s - 1)) < PageLimit
  BY <1>4, <1>5, LedgerAssumption
<1> QED
  BY <1>1, <1>6 DEF Page

\* In a log whose rows are all linked, no such page has a bad row.
LEMMA LinkedVerifies ==
  ASSUME TypeOK, Linked, tampered = Null,
         NEW page, page \subseteq Rows,
         \A s \in page : s - 1 \in Rows => s - 1 \in page
  PROVE  Broken(page) = {}
<1> SUFFICES ASSUME NEW s \in page, BadAt(page, s)
             PROVE  FALSE
  BY DEF Broken
<1>1. Rows \subseteq Nat /\ s \in Nat
  BY DEF TypeOK
<1>2. CASE s = 0
  <2>1. IsFirst(page, s)
    BY <1>1, <1>2 DEF IsFirst
  <2> QED
    BY <2>1, <1>2 DEF BadAt, Linked, SealIntact
<1>3. CASE s # 0
  <2>1. s - 1 \in page
    BY <1>3 DEF Linked
  <2>2. ~IsFirst(page, s)
    BY <1>1, <2>1 DEF IsFirst
  <2> QED
    BY <2>1, <2>2, <1>3 DEF BadAt, Linked, SealIntact
<1> QED
  BY <1>2, <1>3

\* A defect is found by a verification that reads every row.
LEMMA DefectIsBroken ==
  ASSUME TypeOK, NEW t \in Nat, Defect(t)
  PROVE  Broken(Rows) \cap {t, t + 1} # {}
<1>1. CASE t \in Rows /\ ~SealIntact(t)
  BY <1>1 DEF Broken, BadAt, SealIntact
<1>2. CASE t + 1 \in Rows /\ ~SealIntact(t + 1)
  BY <1>2 DEF Broken, BadAt, SealIntact
<1>3. CASE t \notin Rows /\ t + 1 \in Rows /\ log[t + 1].prevHash # Genesis
  <2>1. (t + 1) - 1 = t
    OBVIOUS
  <2>2. BadAt(Rows, t + 1)
    BY <1>3, <2>1 DEF BadAt
  <2> QED
    BY <1>3, <2>2 DEF Broken
<1> QED
  BY <1>1, <1>2, <1>3 DEF Defect

----------------------------------------------------------------------------
LEMMA InitIInv == Init => IInv
<1> SUFFICES ASSUME Init PROVE IInv
  OBVIOUS
<1>1. Rows = {}
  BY DEF Init
<1>2. IsFiniteSet(Rows)
  BY <1>1, FS_EmptySet
<1>3. TypeOK
  BY <1>1, LedgerAssumption DEF Init, TypeOK, Null
<1>4. Shapes
  BY <1>1, <1>2 DEF Init, Shapes, WriterShape
<1>5. LockIsHeld /\ HeadIsCurrent
  BY DEF Init, LockIsHeld, HeadIsCurrent, Idle
<1>6. Linked /\ ReportedIntact /\ ReturnedIsInLog /\ DefectStays
  BY <1>1 DEF Init, Linked, ReportedIntact, ReturnedIsInLog, DefectStays
<1> QED
  BY <1>3, <1>4, <1>5, <1>6 DEF IInv

\* The steps that leave the log, the entries returned and the report alone.
LEMMA LogUnchanged ==
  ASSUME IInv, TypeOK', LockIsHeld', HeadIsCurrent',
         \A w \in Writer : WriterShape(writer'[w]),
         UNCHANGED <<log, returned, report, tampered>>
  PROVE  IInv'
<1>1. Shapes'
  BY DEF IInv, Shapes
<1>2. Linked' /\ DefectStays'
  BY DEF IInv, Linked, DefectStays, Defect, SealIntact
<1>3. ReportedIntact' /\ ReturnedIsInLog'
  BY DEF IInv, ReportedIntact, ReturnedIsInLog
<1> QED
  BY <1>1, <1>2, <1>3 DEF IInv

LEMMA BeginStep ==
  ASSUME IInv, NEW w \in Writer, NEW content \in Content, Begin(w, content)
  PROVE  IInv'
<1> USE DEF IInv, Begin
<1>1. \A v \in Writer : writer'[v] = IF v = w THEN [pc |-> "begun", content |-> content]
                                              ELSE writer[v]
  BY DEF TypeOK
<1>2. TypeOK'
  BY <1>1 DEF TypeOK, InState, Idle
<1>3. LockIsHeld' /\ HeadIsCurrent'
  BY <1>1 DEF LockIsHeld, HeadIsCurrent, IsHead
<1>4. \A v \in Writer : WriterShape(writer'[v])
  BY <1>1 DEF Shapes, WriterShape
<1> QED
  BY <1>2, <1>3, <1>4, LogUnchanged

LEMMA LockStep ==
  ASSUME IInv, NEW w \in Writer, Lock(w)
  PROVE  IInv'
<1> USE DEF IInv, Lock
<1>1. writer[w] = [pc |-> "begun", content |-> writer[w].content]
  <2>1. WriterShape(writer[w])
    BY DEF Shapes
  <2>2. writer[w].pc = "begun" /\ writer[w] # Idle
    BY DEF InState, Idle
  <2> QED
    BY ONLY <2>1, <2>2 DEF WriterShape
<1>2. \A v \in Writer :
        writer'[v] = IF v = w THEN [pc |-> "locked", content |-> writer[w].content]
                              ELSE writer[v]
  BY <1>1 DEF TypeOK
<1>3. writer[w].content \in Content
  BY DEF TypeOK, InState, Idle
<1>4. TypeOK'
  BY <1>2, <1>3 DEF TypeOK, InState, Idle
<1>5. LockIsHeld' /\ HeadIsCurrent'
  BY <1>2, LedgerAssumption DEF LockIsHeld, HeadIsCurrent, IsHead
<1>6. \A v \in Writer : WriterShape(writer'[v])
  BY <1>2 DEF Shapes, WriterShape
<1> QED
  BY <1>4, <1>5, <1>6, LogUnchanged

LEMMA ReadHeadStep ==
  ASSUME IInv, NEW w \in Writer, ReadHead(w)
  PROVE  IInv'
<1> USE DEF IInv
<1>1. writer[w].content \in Content
  BY DEF ReadHead, TypeOK, InState, Idle
<1>2. PICK sequence, prevHash :
        /\ sequence \in Nat
        /\ \/ Rows = {} /\ sequence = 0 /\ prevHash = Genesis
           \/ IsHead(sequence - 1) /\ prevHash = log[sequence - 1].entryHash
        /\ writer' = [writer EXCEPT ![w] = Sealed(w, sequence, prevHash)]
  <2>1. CASE Rows = {} /\ writer' = [writer EXCEPT ![w] = Sealed(w, 0, Genesis)]
    BY <2>1
  <2>2. CASE \E h \in Rows :
               /\ IsHead(h)
               /\ writer' = [writer EXCEPT ![w] = Sealed(w, h + 1, log[h].entryHash)]
    <3>1. PICK h \in Rows :
               /\ IsHead(h)
               /\ writer' = [writer EXCEPT ![w] = Sealed(w, h + 1, log[h].entryHash)]
      BY <2>2
    <3>2. h \in Nat /\ h + 1 \in Nat /\ (h + 1) - 1 = h
      BY DEF TypeOK
    <3> QED
      BY <3>1, <3>2
  <2> QED
    BY <2>1, <2>2 DEF ReadHead
<1>3. \A v \in Writer : writer'[v] = IF v = w THEN Sealed(w, sequence, prevHash)
                                              ELSE writer[v]
  BY <1>2 DEF TypeOK
<1>4. TypeOK'
  BY <1>1, <1>3 DEF ReadHead, TypeOK, InState, Idle, Sealed
<1>5. LockIsHeld'
  BY <1>3 DEF ReadHead, InState, LockIsHeld, Sealed
<1>6. HeadIsCurrent'
  <2> SUFFICES ASSUME NEW v \in Writer, writer'[v].pc \in {"sealed", "inserted"}
               PROVE  \/ Rows' = {} /\ writer'[v].sequence = 0 /\ writer'[v].prevHash = Genesis
                      \/ /\ writer'[v].sequence - 1 \in Rows'
                         /\ \A r \in Rows' : r <= writer'[v].sequence - 1
                         /\ writer'[v].prevHash = log'[writer'[v].sequence - 1].entryHash
    BY DEF HeadIsCurrent, IsHead
  <2>1. log' = log
    BY DEF ReadHead
  <2>2. CASE v = w
    BY <1>2, <1>3, <2>1, <2>2 DEF Sealed, IsHead
  <2>3. CASE v # w
    BY <1>3, <2>1, <2>3 DEF HeadIsCurrent, IsHead
  <2> QED
    BY <2>2, <2>3
<1>7. \A v \in Writer : WriterShape(writer'[v])
  BY <1>3 DEF Shapes, WriterShape, Sealed
<1> QED
  BY <1>4, <1>5, <1>6, <1>7, LogUnchanged DEF ReadHead

LEMMA InsertStep ==
  ASSUME IInv, NEW w \in Writer, Insert(w)
  PROVE  IInv'
<1> USE DEF IInv, Insert
<1> DEFINE row == [pc |-> "inserted", content |-> writer[w].content,
                   sequence |-> writer[w].sequence, prevHash |-> writer[w].prevHash]
<1>1. writer[w] = [pc |-> "sealed", content |-> writer[w].content,
                   sequence |-> writer[w].sequence, prevHash |-> writer[w].prevHash]
  <2>1. WriterShape(writer[w])
    BY DEF Shapes
  <2>2. writer[w].pc = "sealed" /\ writer[w] # Idle
    BY DEF InState, Idle
  <2> QED
    BY ONLY <2>1, <2>2 DEF WriterShape
<1>2. \A v \in Writer : writer'[v] = IF v = w THEN row ELSE writer[v]
  BY <1>1 DEF TypeOK
<1>3. writer[w].content \in Content /\ writer[w].sequence \in Nat
  BY DEF TypeOK, InState, Idle
<1>4. TypeOK'
  BY <1>2, <1>3 DEF TypeOK, InState, Idle
<1>5. LockIsHeld'
  BY <1>2 DEF LockIsHeld, InState
<1>6. HeadIsCurrent'
  BY <1>2 DEF HeadIsCurrent, IsHead, InState
<1>7. \A v \in Writer : WriterShape(writer'[v])
  BY <1>2 DEF Shapes, WriterShape
<1> QED
  BY <1>4, <1>5, <1>6, <1>7, LogUnchanged

LEMMA RollbackStep ==
  ASSUME IInv, NEW w \in Writer, Rollback(w)
  PROVE  IInv'
<1> USE DEF IInv, Rollback, Fault
<1>1. \A v \in Writer : writer'[v] = IF v = w THEN Idle ELSE writer[v]
  BY DEF TypeOK
<1>2. TypeOK'
  BY <1>1 DEF TypeOK, InState, Idle
<1>3. LockIsHeld' /\ HeadIsCurrent'
  BY <1>1, LedgerAssumption DEF LockIsHeld, HeadIsCurrent, IsHead, Idle
<1>4. \A v \in Writer : WriterShape(writer'[v])
  BY <1>1 DEF Shapes, WriterShape
<1> QED
  BY <1>2, <1>3, <1>4, LogUnchanged

----------------------------------------------------------------------------
(* A row is committed *)

LEMMA CommittedStep ==
  ASSUME IInv, NEW w \in Writer, Committed(w),
         UNCHANGED <<report, tampered>>,
         faults' \in Nat,
         \/ returned' = returned
         \/ returned' = returned \cup
              {[sequence |-> writer[w].sequence, content |-> writer[w].content]}
  PROVE  IInv'
<1> USE DEF IInv
<1> DEFINE q == writer[w].sequence
<1> DEFINE row == Seal(q, writer[w].content, writer[w].prevHash)
<1>1. q \in Nat /\ writer[w].content \in Content
  BY DEF Committed, TypeOK, InState, Idle
<1>2. \/ Rows = {} /\ q = 0 /\ writer[w].prevHash = Genesis
      \/ IsHead(q - 1) /\ writer[w].prevHash = log[q - 1].entryHash
  BY DEF Committed, InState, HeadIsCurrent
<1>3. \A s \in Rows : s \in Nat /\ s < q
  BY <1>1, <1>2 DEF IsHead, TypeOK
<1>4. q \notin Rows
  BY <1>1, <1>3
<1>5. Rows' = Rows \cup {q} /\ log'[q] = row /\ \A s \in Rows : log'[s] = log[s]
  BY <1>4 DEF Committed
<1>6. \A v \in Writer : writer'[v] = IF v = w THEN Idle ELSE writer[v]
  BY DEF Committed, TypeOK
<1>7. TypeOK'
  <2>1. Rows' \subseteq Nat /\ \A s \in Rows' : log'[s].content \in Content
    BY <1>1, <1>3, <1>5 DEF TypeOK, Seal
  <2>2. returned' \subseteq Entry
    BY <1>1 DEF TypeOK, Entry
  <2>3. lock' = NoWriter /\ DOMAIN writer' = Writer
    BY DEF TypeOK, Committed
  <2> QED
    BY <1>6, <2>1, <2>2, <2>3 DEF TypeOK, InState, Idle
<1>8. Shapes'
  <2>1. IsFiniteSet(Rows')
    BY <1>5, FS_AddElement DEF Shapes
  <2>2. \A s \in Rows' : RowShape(log'[s])
    BY <1>5 DEF Shapes, RowShape, Seal
  <2>3. \A v \in Writer : WriterShape(writer'[v])
    BY <1>6 DEF Shapes, WriterShape
  <2> QED
    BY <2>1, <2>2, <2>3 DEF Shapes
<1>9. \A v \in Writer : writer'[v].pc \notin {"locked", "sealed", "inserted"}
  BY <1>6 DEF LockIsHeld, Committed, InState, Idle
<1>10. LockIsHeld' /\ HeadIsCurrent'
  BY <1>9 DEF LockIsHeld, HeadIsCurrent
<1>11. Linked'
  <2> SUFFICES ASSUME tampered = Null, NEW s \in Rows'
               PROVE  /\ s # 0 => s - 1 \in Rows'
                      /\ log'[s].prevHash = (IF s = 0 THEN Genesis ELSE log'[s - 1].entryHash)
                      /\ SealIntact(s)'
    BY DEF Linked
  <2>1. CASE s \in Rows
    BY <1>5, <2>1 DEF Linked, SealIntact
  <2>2. CASE s = q
    <3>1. SealIntact(s)'
      BY <1>5, <2>2 DEF SealIntact, Seal
    <3>2. CASE Rows = {} /\ q = 0 /\ writer[w].prevHash = Genesis
      BY <1>5, <2>2, <3>1, <3>2 DEF Seal
    <3>3. CASE IsHead(q - 1) /\ writer[w].prevHash = log[q - 1].entryHash
      <4>1. q - 1 \in Rows /\ q # 0
        BY <1>3, <1>1, <3>3 DEF IsHead, TypeOK
      <4> QED
        BY <1>5, <2>2, <3>1, <3>3, <4>1 DEF Seal
    <3> QED
      BY <1>2, <3>2, <3>3
  <2> QED
    BY <1>5, <2>1, <2>2
<1>12. ReportedIntact'
  BY DEF ReportedIntact
<1>13. ReturnedIsInLog'
  <2>1. ASSUME tampered = Null, NEW e \in returned
        PROVE  e.sequence \in Rows' /\ log'[e.sequence].content = e.content
    BY <1>5, <2>1 DEF ReturnedIsInLog
  <2>2. row.content = writer[w].content
    BY DEF Seal
  <2> QED
    BY <1>5, <2>1, <2>2 DEF ReturnedIsInLog
<1>14. DefectStays'
  <2> SUFFICES ASSUME tampered # Null
               PROVE  Defect(tampered)'
    BY DEF DefectStays
  <2>1. Defect(tampered) /\ tampered \in Nat
    BY DEF DefectStays, TypeOK
  <2>2. CASE tampered \in Rows /\ ~SealIntact(tampered)
    BY <1>5, <2>2 DEF Defect, SealIntact
  <2>3. CASE tampered + 1 \in Rows /\ ~SealIntact(tampered + 1)
    BY <1>5, <2>3 DEF Defect, SealIntact
  <2>4. CASE tampered \notin Rows /\ tampered + 1 \in Rows
             /\ log[tampered + 1].prevHash # Genesis
    <3>1. tampered # q
      BY <1>1, <1>3, <2>1, <2>4
    <3> QED
      BY <1>5, <2>4, <3>1 DEF Defect
  <2> QED
    BY <2>1, <2>2, <2>3, <2>4 DEF Defect
<1> QED
  BY <1>7, <1>8, <1>10, <1>11, <1>12, <1>13, <1>14

----------------------------------------------------------------------------
LEMMA VerifyStep ==
  ASSUME IInv, NEW from \in 0..MaxRows, Verify(from)
  PROVE  IInv'
<1> USE DEF IInv
<1>1. /\ UNCHANGED <<log, lock, writer, returned, tampered, faults>>
      /\ from \in Nat
  BY LedgerAssumption DEF Verify
<1>2. report' \in [from : Nat, brokenAt : Nat \cup {Null}]
  <2>1. \A s \in Broken(Page(from)) : s \in Nat
    BY DEF Broken, Page, TypeOK
  <2> QED
    BY <1>1, <2>1 DEF Verify
<1>3. TypeOK'
  BY <1>1, <1>2 DEF TypeOK, InState
<1>4. Shapes' /\ LockIsHeld' /\ HeadIsCurrent'
  BY <1>1 DEF Shapes, LockIsHeld, HeadIsCurrent, IsHead
<1>5. Linked' /\ ReturnedIsInLog' /\ DefectStays'
  BY <1>1 DEF Linked, ReturnedIsInLog, DefectStays, Defect, SealIntact
<1>6. ReportedIntact'
  <2> SUFFICES ASSUME tampered = Null, report'.from = 0
               PROVE  report'.brokenAt = Null
    BY <1>1 DEF ReportedIntact
  <2>1. from = 0
    BY DEF Verify
  <2>2. \A s \in Page(0) : s - 1 \in Rows => s - 1 \in Page(0)
    BY PageIsPrefix
  <2>3. Page(0) \subseteq Rows
    BY DEF Page
  <2>4. Broken(Page(0)) = {}
    BY <2>2, <2>3, LinkedVerifies
  <2> QED
    BY <2>1, <2>4 DEF Verify
<1> QED
  BY <1>3, <1>4, <1>5, <1>6

----------------------------------------------------------------------------
(* The table is altered behind the program's back *)

\* What an alteration leaves alone.
LEMMA Altered ==
  ASSUME IInv, NEW s \in Rows, tampered = Null, tampered' = s,
         UNCHANGED <<lock, writer, returned, report, faults>>,
         Rows' \subseteq Rows,
         \A r \in Rows' : log'[r].content \in Content /\ RowShape(log'[r]),
         Rows = {} <=> Rows' = {},
         \A h \in Rows : IsHead(h) => h \in Rows' /\ log'[h].entryHash = log[h].entryHash,
         IsFiniteSet(Rows'),
         Defect(s)'
  PROVE  IInv'
<1> USE DEF IInv
<1>1. s \in Nat /\ s # Null
  BY DEF TypeOK, Null
<1>2. TypeOK'
  BY <1>1 DEF TypeOK, InState
<1>3. Shapes' /\ LockIsHeld'
  BY DEF Shapes, LockIsHeld
<1>4. HeadIsCurrent'
  BY DEF HeadIsCurrent, IsHead
<1>5. Linked' /\ ReportedIntact' /\ ReturnedIsInLog'
  BY <1>1 DEF Linked, ReportedIntact, ReturnedIsInLog
<1>6. DefectStays'
  BY DEF DefectStays
<1> QED
  BY <1>2, <1>3, <1>4, <1>5, <1>6

LEMMA AlterStep ==
  ASSUME IInv, NEW s \in Rows, NEW content \in Content, Alter(s, content)
  PROVE  IInv'
<1> USE DEF IInv
<1>1. s \in Nat /\ log[s] = [content |-> log[s].content, prevHash |-> log[s].prevHash,
                             entryHash |-> log[s].entryHash]
  BY DEF TypeOK, Shapes, RowShape
<1>2. Rows' = Rows
  BY DEF Alter
<1>3. /\ log'[s] = [content |-> content, prevHash |-> log[s].prevHash,
                    entryHash |-> log[s].entryHash]
      /\ \A r \in Rows \ {s} : log'[r] = log[r]
  BY <1>1 DEF Alter
<1>4. \A r \in Rows : /\ log'[r].content \in Content /\ RowShape(log'[r])
                      /\ log'[r].entryHash = log[r].entryHash
  BY <1>3 DEF TypeOK, Shapes, RowShape
<1>5. ~SealIntact(s)'
  <2>1. log[s].entryHash = <<s, log[s].content, log[s].prevHash>>
    BY DEF Alter, Linked, SealIntact, Hash
  <2>2. <<s, log[s].content, log[s].prevHash>> # <<s, content, log[s].prevHash>>
    BY DEF Alter
  <2> QED
    BY <1>3, <2>1, <2>2 DEF SealIntact, Hash
<1>6. Defect(s)'
  BY <1>2, <1>5 DEF Defect
<1>7. /\ IsFiniteSet(Rows') /\ tampered = Null /\ tampered' = s
      /\ UNCHANGED <<lock, writer, returned, report, faults>>
  BY <1>2 DEF Shapes, Alter
<1> QED
  BY <1>2, <1>4, <1>6, <1>7, Altered

LEMMA AlterAndRelinkStep ==
  ASSUME IInv, NEW s \in Rows, NEW content \in Content, AlterAndRelink(s, content)
  PROVE  IInv'
<1> USE DEF IInv
<1> DEFINE n == s + 1
<1> DEFINE row == Seal(s, content, log[s].prevHash)
<1>1. s \in Nat /\ n \in Rows /\ n # s /\ n # 0 /\ n - 1 = s
  BY DEF TypeOK, AlterAndRelink
<1>2. log[n] = [content |-> log[n].content, prevHash |-> log[n].prevHash,
                entryHash |-> log[n].entryHash]
  BY <1>1 DEF Shapes, RowShape
<1>3. Rows' = Rows
  BY DEF AlterAndRelink
<1>4. /\ log'[s] = row
      /\ log'[n] = [content |-> log[n].content, prevHash |-> row.entryHash,
                    entryHash |-> log[n].entryHash]
      /\ \A r \in Rows \ {s, n} : log'[r] = log[r]
  BY <1>1, <1>2 DEF AlterAndRelink
<1>5. \A r \in Rows : log'[r].content \in Content /\ RowShape(log'[r])
  BY <1>1, <1>4 DEF TypeOK, Shapes, RowShape, Seal
<1>6. \A h \in Rows : IsHead(h) => log'[h].entryHash = log[h].entryHash
  <2>1. ~IsHead(s)
    BY <1>1 DEF IsHead
  <2> QED
    BY <1>4, <2>1
<1>7. ~SealIntact(n)'
  <2>1. tampered = Null /\ content # log[s].content
    BY DEF AlterAndRelink
  <2>2. log[n].entryHash = <<n, log[n].content, log[s].entryHash>>
    BY <1>1, <2>1 DEF Linked, SealIntact, Hash
  <2>3. log[s].entryHash = <<s, log[s].content, log[s].prevHash>>
    BY <2>1 DEF Linked, SealIntact, Hash
  <2>4. row.entryHash = <<s, content, log[s].prevHash>>
    BY DEF Seal, Hash
  <2>5. row.entryHash # log[s].entryHash
    BY <2>1, <2>3, <2>4
  <2>6. <<n, log[n].content, log[s].entryHash>> # <<n, log[n].content, row.entryHash>>
    BY <2>5
  <2> QED
    BY <1>4, <2>2, <2>6 DEF SealIntact, Hash
<1>8. Defect(s)'
  BY <1>1, <1>3, <1>7 DEF Defect
<1>9. /\ IsFiniteSet(Rows') /\ tampered = Null /\ tampered' = s
      /\ UNCHANGED <<lock, writer, returned, report, faults>>
  BY <1>3 DEF Shapes, AlterAndRelink
<1> HIDE DEF n, row
<1> QED
  BY <1>3, <1>5, <1>6, <1>8, <1>9, Altered

LEMMA DeleteStep ==
  ASSUME IInv, NEW s \in Rows, Delete(s)
  PROVE  IInv'
<1> USE DEF IInv
<1>1. s \in Nat /\ s + 1 \in Rows /\ s + 1 # s /\ s + 1 # 0 /\ (s + 1) - 1 = s
  BY DEF TypeOK, Delete
<1>2. Rows' = Rows \ {s} /\ \A r \in Rows' : log'[r] = log[r]
  BY DEF Delete
<1>3. \A h \in Rows : IsHead(h) => h \in Rows'
  BY <1>1, <1>2 DEF IsHead
<1>4. log[s + 1].prevHash # Genesis
  <2>1. log[s + 1].prevHash = log[s].entryHash
    BY <1>1 DEF Linked, Delete
  <2>2. log[s].entryHash = <<s, log[s].content, log[s].prevHash>>
    BY DEF Linked, Delete, SealIntact, Hash
  <2>3. <<s, log[s].content, log[s].prevHash>> # <<>>
    OBVIOUS
  <2> QED
    BY <2>1, <2>2, <2>3 DEF Genesis
<1>5. Defect(s)'
  BY <1>1, <1>2, <1>4 DEF Defect
<1>6. IsFiniteSet(Rows')
  BY <1>2, FS_RemoveElement DEF Shapes
<1>7. \A r \in Rows' : log'[r].content \in Content /\ RowShape(log'[r])
  BY <1>2 DEF TypeOK, Shapes
<1>8. Rows # {} /\ Rows' # {}
  BY <1>1, <1>2
<1>9. /\ tampered = Null /\ tampered' = s
      /\ UNCHANGED <<lock, writer, returned, report, faults>>
  BY DEF Delete
<1> QED
  BY <1>2, <1>3, <1>5, <1>6, <1>7, <1>8, <1>9, Altered

----------------------------------------------------------------------------
LEMMA NextIInv == IInv /\ [Next]_vars => IInv'
<1> SUFFICES ASSUME IInv, [Next]_vars PROVE IInv'
  OBVIOUS
<1>1. ASSUME NEW w \in Writer, NEW content \in Content, Begin(w, content)
      PROVE  IInv'
  BY <1>1, BeginStep
<1>2. ASSUME NEW w \in Writer, Lock(w) \/ ReadHead(w) \/ Insert(w) \/ Rollback(w)
      PROVE  IInv'
  BY <1>2, LockStep, ReadHeadStep, InsertStep, RollbackStep
<1>3. ASSUME NEW w \in Writer, Commit(w)
      PROVE  IInv'
  <2>1. faults' \in Nat /\ Committed(w) /\ UNCHANGED <<report, tampered>>
    BY <1>3 DEF Commit, IInv, TypeOK
  <2> QED
    BY <1>3, <2>1, CommittedStep DEF Commit
<1>4. ASSUME NEW w \in Writer, CommitUnanswered(w)
      PROVE  IInv'
  <2>1. faults' \in Nat /\ Committed(w) /\ UNCHANGED <<returned, report, tampered>>
    BY <1>4 DEF CommitUnanswered, Fault, IInv, TypeOK
  <2> QED
    BY <2>1, CommittedStep
<1>5. ASSUME NEW from \in 0..MaxRows, Verify(from)
      PROVE  IInv'
  BY <1>5, VerifyStep
<1>6. ASSUME NEW s \in Rows, NEW content \in Content,
             Alter(s, content) \/ AlterAndRelink(s, content)
      PROVE  IInv'
  BY <1>6, AlterStep, AlterAndRelinkStep
<1>7. ASSUME NEW s \in Rows, Delete(s)
      PROVE  IInv'
  BY <1>7, DeleteStep
<1>8. CASE UNCHANGED vars
  <2>1. TypeOK' /\ LockIsHeld' /\ HeadIsCurrent'
    BY <1>8 DEF vars, IInv, TypeOK, InState, LockIsHeld, HeadIsCurrent, IsHead
  <2>2. \A w \in Writer : WriterShape(writer'[w])
    BY <1>8 DEF vars, IInv, Shapes
  <2> QED
    BY <1>8, <2>1, <2>2, LogUnchanged DEF vars
<1> QED
  BY <1>1, <1>2, <1>3, <1>4, <1>5, <1>6, <1>7, <1>8 DEF Next

LEMMA Inductive == Spec => []IInv
<1> QED
  BY InitIInv, NextIInv, PTL DEF Spec

\* Types: rows, lock, appends, reports.
THEOREM TypeCorrect == Spec => []TypeOK
<1>1. IInv => TypeOK
  BY DEF IInv
<1> QED
  BY <1>1, Inductive, PTL

\* The lock does what db.ts:33-36 says of it: the head an append has linked its entry
\* to is the head when it inserts.
THEOREM NoForks == Spec => []HeadIsCurrent
<1>1. IInv => HeadIsCurrent
  BY DEF IInv
<1> QED
  BY <1>1, Inductive, PTL

\* Concurrent, failing and rolled back appends never make a log that does not verify.
THEOREM NoFalseAlarm == Spec => []UntamperedVerifies
<1>1. IInv => UntamperedVerifies
  <2> SUFFICES ASSUME IInv, tampered = Null
               PROVE  Broken(Rows) = {} /\ (report.from = 0 => report.brokenAt = Null)
    BY DEF UntamperedVerifies
  <2>1. Broken(Rows) = {}
    BY LinkedVerifies DEF IInv
  <2> QED
    BY <2>1 DEF IInv, ReportedIntact
<1> QED
  BY <1>1, Inductive, PTL

\* An entry that append returned stays in the log.
THEOREM ReturnedStays == Spec => []ReturnedIsInLog
<1>1. IInv => ReturnedIsInLog
  BY DEF IInv
<1> QED
  BY <1>1, Inductive, PTL

\* A row altered, altered and relinked, or deleted shows for ever in a verification
\* of the whole log.
THEOREM TamperEvident == Spec => []TamperingShows
<1>1. IInv => TamperingShows
  <2> SUFFICES ASSUME IInv, tampered # Null
               PROVE  Broken(Rows) \cap {tampered, tampered + 1} # {}
    BY DEF TamperingShows
  <2>1. tampered \in Nat /\ Defect(tampered)
    BY DEF IInv, TypeOK, DefectStays
  <2> QED
    BY <2>1, DefectIsBroken DEF IInv
<1> QED
  BY <1>1, Inductive, PTL
=============================================================================
