------------------------- MODULE CommentRepliesProofs -------------------------
(***************************************************************************)
(* Proofs about the replies, for any sets of comments, drafts, triage      *)
(* loops and requests and any number of faults.                            *)
(***************************************************************************)
EXTENDS CommentReplies, FiniteSetTheorems, TLAPS

\* The statuses a reply that may be out leaves on its draft.
OnRecord == {"approved", "posted", "failed"}

\* From its UPDATE to 'approved' on, a request's draft never looks unapproved again.
PostingIsOnRecord ==
  \A q \in Request :
    request[q].pc \in {"post", "markPosted", "auditPosted", "markFailed", "auditFailed"} =>
      draft[Target(q)].status \in OnRecord

\* OneOpenDraft without Cardinality.
OpenIsUnique ==
  \A d, e \in Draft :
    /\ draft[d].status \in Open /\ draft[e].status \in Open
    /\ draft[d].comment = draft[e].comment
    => d = e

IInv ==
  /\ TypeOK
  /\ OpenIsUnique
  /\ PostingIsOnRecord
  /\ PublishedIsOnRecord
  /\ PublishedIsAudited

----------------------------------------------------------------------------
\* What a step of request q does to the requests.
LEMMA GotoTypes ==
  ASSUME TypeOK, NEW q \in Request, NEW pc \in RequestPc, request[q] # Idle, Goto(q, pc)
  PROVE  /\ request[q] \in Busy /\ Target(q) \in Draft
         /\ request' \in [Request -> Busy \cup {Idle}]
         /\ request'[q].pc = pc /\ request'[q].draft = Target(q)
         /\ \A r \in Request \ {q} : request'[r] = request[r]
<1>1. request[q] \in Busy
  BY DEF TypeOK
<1>2. request[q].draft \in Draft /\ [request[q] EXCEPT !.pc = pc] \in Busy
  BY <1>1 DEF Busy
<1>3. request' = [request EXCEPT ![q] = [request[q] EXCEPT !.pc = pc]]
  BY DEF Goto
<1> QED
  BY <1>1, <1>2, <1>3 DEF TypeOK, Target, Busy

LEMMA ReturnTypes ==
  ASSUME TypeOK, NEW q \in Request, Return(q)
  PROVE  /\ request' \in [Request -> Busy \cup {Idle}]
         /\ request'[q] = Idle
         /\ \A r \in Request \ {q} : request'[r] = request[r]
  BY DEF TypeOK, Return

\* A request that is anywhere but idle has a draft.
LEMMA BusyHasDraft ==
  ASSUME TypeOK, NEW q \in Request, request[q].pc # "idle"
  PROVE  request[q] # Idle /\ Target(q) \in Draft
<1>1. request[q] # Idle
  BY DEF Idle
<1> QED
  BY <1>1 DEF TypeOK, Busy, Target

\* Steps of the triage loops and of the credential.
LEMMA RequestsUnchanged ==
  ASSUME IInv, TypeOK', OpenIsUnique',
         UNCHANGED <<request, published, audits, faults>>,
         \A d \in Draft : draft[d].status \in OnRecord => draft'[d] = draft[d]
  PROVE  IInv'
<1>1. PostingIsOnRecord'
  <2> SUFFICES ASSUME NEW q \in Request,
                      request[q].pc \in {"post", "markPosted", "auditPosted", "markFailed",
                                         "auditFailed"}
               PROVE  draft'[Target(q)].status \in OnRecord
    BY DEF PostingIsOnRecord, Target
  <2>1. Target(q) \in Draft
    BY BusyHasDraft DEF IInv
  <2> QED
    BY <2>1 DEF IInv, PostingIsOnRecord
<1>2. PublishedIsOnRecord'
  BY DEF IInv, PublishedIsOnRecord, OnRecord
<1>3. PublishedIsAudited'
  BY DEF IInv, PublishedIsAudited, Target
<1> QED
  BY <1>1, <1>2, <1>3 DEF IInv

LEMMA NextCommentTypes ==
  ASSUME TypeOK, NEW t \in Triager, NEW rest \in SUBSET Comment, NextComment(t, rest)
  PROVE  triage' \in [Triager -> Loop]
<1>1. NoBatch \in Loop /\ [pc |-> "classify", todo |-> rest, comment |-> NoComment] \in Loop
  BY DEF NoBatch, Loop, TriagePc
<1> QED
  BY <1>1 DEF TypeOK, NextComment

LEMMA TriageStep ==
  ASSUME IInv, NEW t \in Triager, Triage(t)
  PROVE  IInv'
<1>1. /\ TypeOK /\ triage[t] \in Loop /\ triage[t].todo \subseteq Comment
      /\ triage[t].comment \in Comment \cup {NoComment}
  BY DEF IInv, TypeOK, Loop
<1>2. CASE StartBatch(t)
  <2>1. [pc |-> "classify", todo |-> Comment \ classified, comment |-> NoComment] \in Loop
    BY DEF Loop, TriagePc
  <2>2. TypeOK'
    BY <1>1, <1>2, <2>1 DEF StartBatch, TypeOK
  <2> QED
    BY <1>2, <2>2, RequestsUnchanged DEF StartBatch, IInv, OpenIsUnique
<1>3. CASE Classify(t)
  <2>1. PICK c \in triage[t].todo :
          /\ classified' = classified \cup {c}
          /\ \/ NextComment(t, triage[t].todo \ {c})
             \/ triage' = [triage EXCEPT ![t] = [pc |-> "saveDraft", comment |-> c,
                                                 todo |-> triage[t].todo \ {c}]]
    BY <1>3 DEF Classify
  <2>2. [pc |-> "saveDraft", comment |-> c, todo |-> triage[t].todo \ {c}] \in Loop
    BY <1>1 DEF Loop, TriagePc
  <2>3. triage[t].todo \ {c} \in SUBSET Comment
    BY <1>1
  <2>4. triage' \in [Triager -> Loop]
    BY <1>1, <2>1, <2>2, <2>3, NextCommentTypes DEF TypeOK
  <2>5. TypeOK'
    BY <1>1, <1>3, <2>1, <2>4 DEF Classify, TypeOK
  <2> QED
    BY <1>3, <2>5, RequestsUnchanged DEF Classify, IInv, OpenIsUnique
<1>4. CASE ClassifyThrows(t)
  <2>1. triage' \in [Triager -> Loop]
    BY <1>1, <1>4, NextCommentTypes DEF ClassifyThrows
  <2>2. TypeOK'
    BY <1>1, <1>4, <2>1 DEF ClassifyThrows, TypeOK
  <2> QED
    BY <1>4, <2>2, RequestsUnchanged DEF ClassifyThrows, IInv, OpenIsUnique
<1>5. CASE DraftThrows(t)
  <2>1. triage' \in [Triager -> Loop]
    BY <1>1, <1>5, NextCommentTypes DEF DraftThrows
  <2>2. TypeOK'
    BY <1>1, <1>5, <2>1 DEF DraftThrows, TypeOK
  <2> QED
    BY <1>5, <2>2, RequestsUnchanged DEF DraftThrows, IInv, OpenIsUnique
<1>6. CASE SaveDraft(t)
  <2>1. triage' \in [Triager -> Loop]
    BY <1>1, <1>6, NextCommentTypes DEF SaveDraft
  <2>2. CASE UNCHANGED draft
    <3>1. TypeOK'
      BY <1>1, <1>6, <2>1, <2>2 DEF SaveDraft, TypeOK
    <3> QED
      BY <1>6, <2>2, <3>1, RequestsUnchanged DEF SaveDraft, IInv, OpenIsUnique
  <2>3. ASSUME OpenDrafts(triage[t].comment) = {},
               NEW d \in Draft, draft[d].status = "none",
               draft' = [draft EXCEPT ![d] = [comment |-> triage[t].comment,
                                              status |-> "pending"]]
        PROVE  IInv'
    <3>1. [comment |-> triage[t].comment, status |-> "pending"] \in DraftRow
      BY <1>1 DEF DraftRow, DraftStatus
    <3>2. TypeOK'
      BY <1>1, <1>6, <2>1, <2>3, <3>1 DEF SaveDraft, TypeOK
    <3>3. /\ draft'[d].comment = triage[t].comment
          /\ \A e \in Draft \ {d} : draft'[e] = draft[e]
      BY <1>1, <2>3 DEF TypeOK
    <3>4. \A e \in Draft : draft[e].comment = triage[t].comment => draft[e].status \notin Open
      BY <2>3 DEF OpenDrafts
    <3>5. OpenIsUnique'
      BY <3>3, <3>4 DEF IInv, OpenIsUnique
    <3>6. draft[d].status \notin OnRecord
      BY <2>3 DEF OnRecord
    <3> QED
      BY <1>6, <3>2, <3>3, <3>5, <3>6, RequestsUnchanged DEF SaveDraft
  <2> QED
    BY <1>6, <2>2, <2>3 DEF SaveDraft
<1> QED
  BY <1>2, <1>3, <1>4, <1>5, <1>6 DEF Triage

----------------------------------------------------------------------------
(* Steps of a request that leave the drafts alone *)

\* A request that returns without having published, or through a fault.
LEMMA Leaves ==
  ASSUME IInv, NEW q \in Request, Return(q),
         UNCHANGED <<classified, draft, triage, connected, published>>,
         audits' \in [Draft -> SUBSET {"posted", "post_failed", "rejected"}],
         \A d \in Draft : audits[d] \subseteq audits'[d],
         \/ faults' = faults /\ request[q].pc \notin {"markPosted", "auditPosted"}
         \/ faults' = faults /\ "posted" \in audits'[Target(q)]
         \/ faults' \in Nat /\ faults' > 0
  PROVE  IInv'
<1>1. /\ request' \in [Request -> Busy \cup {Idle}]
      /\ request'[q] = Idle
      /\ \A r \in Request \ {q} : request'[r] = request[r]
  BY ReturnTypes DEF IInv
<1>2. TypeOK'
  BY <1>1 DEF IInv, TypeOK
<1>3. OpenIsUnique' /\ PublishedIsOnRecord'
  BY DEF IInv, OpenIsUnique, PublishedIsOnRecord
<1>4. PostingIsOnRecord'
  BY <1>1 DEF IInv, PostingIsOnRecord, Target, Idle
<1>5. PublishedIsAudited'
  BY <1>1 DEF IInv, PublishedIsAudited, Target, TypeOK
<1> QED
  BY <1>2, <1>3, <1>4, <1>5 DEF IInv

\* A request that goes on; its draft may get a status.
LEMMA GoesOn ==
  ASSUME IInv, NEW q \in Request, request[q] # Idle,
         NEW pc \in RequestPc, Goto(q, pc),
         UNCHANGED <<classified, triage, connected, audits>>,
         draft' \in [Draft -> DraftRow],
         \A d \in Draft : draft'[d].comment = draft[d].comment,
         \A d \in Draft : d # Target(q) => draft'[d] = draft[d],
         draft[Target(q)].status \in OnRecord => draft'[Target(q)].status \in OnRecord,
         OpenIsUnique',
         published' \in [Draft -> Nat],
         \A d \in Draft : d # Target(q) => published'[d] = published[d],
         faults' \in Nat,
         \/ pc = "markApproved" /\ published' = published
         \/ draft'[Target(q)].status \in OnRecord,
         \/ published' = published /\ faults' = faults
            /\ request[q].pc \notin {"markPosted", "auditPosted"}
         \/ faults' = faults /\ pc \in {"markPosted", "auditPosted"}
         \/ faults' > 0
  PROVE  IInv'
<1>1. /\ request[q] \in Busy /\ Target(q) \in Draft
      /\ request' \in [Request -> Busy \cup {Idle}]
      /\ request'[q].pc = pc /\ request'[q].draft = Target(q)
      /\ \A r \in Request \ {q} : request'[r] = request[r]
  BY GotoTypes DEF IInv
<1>2. TypeOK'
  BY <1>1 DEF IInv, TypeOK
<1>3. \A d \in Draft : draft[d].status \in OnRecord => draft'[d].status \in OnRecord
  OBVIOUS
<1>4. PostingIsOnRecord'
  <2> SUFFICES ASSUME NEW r \in Request,
                      request'[r].pc \in {"post", "markPosted", "auditPosted", "markFailed",
                                          "auditFailed"}
               PROVE  draft'[request'[r].draft].status \in OnRecord
    BY DEF PostingIsOnRecord, Target
  <2>1. CASE r = q
    BY <1>1, <2>1
  <2>2. CASE r # q
    <3>1. request'[r] = request[r] /\ Target(r) \in Draft
      BY <1>1, <2>2, BusyHasDraft DEF IInv
    <3>2. draft[Target(r)].status \in OnRecord
      BY <3>1 DEF IInv, PostingIsOnRecord
    <3> QED
      BY <1>3, <3>1, <3>2 DEF Target
  <2> QED
    BY <2>1, <2>2
<1>5. PublishedIsOnRecord'
  <2> SUFFICES ASSUME NEW d \in Draft, published'[d] > 0
               PROVE  draft'[d].status \in OnRecord
    BY DEF PublishedIsOnRecord, OnRecord
  <2>1. CASE d = Target(q) /\ draft'[Target(q)].status \in OnRecord
    BY <2>1
  <2>2. CASE d # Target(q) \/ published' = published
    BY <1>3, <2>2 DEF IInv, PublishedIsOnRecord, OnRecord
  <2> QED
    BY <2>1, <2>2
<1>6. PublishedIsAudited'
  <2> SUFFICES ASSUME NEW d \in Draft, published'[d] > 0, ~(faults' > 0), "posted" \notin audits[d]
               PROVE  \E r \in Request : /\ request'[r].draft = d
                                         /\ request'[r].pc \in {"markPosted", "auditPosted"}
    BY DEF PublishedIsAudited, Target
  <2>1. CASE d = Target(q) /\ pc \in {"markPosted", "auditPosted"}
    BY <1>1, <2>1
  <2>2. CASE ~(d = Target(q) /\ pc \in {"markPosted", "auditPosted"})
    <3>1. published[d] > 0 /\ faults' = faults
      BY <2>2
    <3>2. PICK r \in Request : Target(r) = d /\ request[r].pc \in {"markPosted", "auditPosted"}
      BY <3>1 DEF IInv, PublishedIsAudited
    <3>3. r # q
      BY <2>2, <3>2
    <3> QED
      BY <1>1, <3>2, <3>3 DEF Target
  <2> QED
    BY <2>1, <2>2
<1> QED
  BY <1>2, <1>4, <1>5, <1>6 DEF IInv

----------------------------------------------------------------------------
(* Each step of a request *)

\* A new status for one draft.
LEMMA NewStatus ==
  ASSUME TypeOK, NEW d \in Draft, NEW status \in DraftStatus,
         draft' = [draft EXCEPT ![d].status = status]
  PROVE  /\ draft' \in [Draft -> DraftRow]
         /\ draft'[d].status = status
         /\ \A e \in Draft : draft'[e].comment = draft[e].comment
         /\ \A e \in Draft \ {d} : draft'[e] = draft[e]
<1>1. draft[d] \in DraftRow
  BY DEF TypeOK
<1>2. [draft[d] EXCEPT !.status = status] \in DraftRow
  BY <1>1 DEF DraftRow
<1> QED
  BY <1>1, <1>2 DEF TypeOK, DraftRow

LEMMA ApproveStep ==
  ASSUME IInv, NEW q \in Request, Approve(q)
  PROVE  IInv'
<1> USE DEF IInv
<1>1. PICK d \in Draft : request' = [request EXCEPT ![q] = [pc |-> "connect", draft |-> d]]
  BY DEF Approve
<1>2. [pc |-> "connect", draft |-> d] \in Busy
  BY DEF Busy, RequestPc
<1>3. /\ request'[q] = [pc |-> "connect", draft |-> d]
      /\ \A r \in Request \ {q} : request'[r] = request[r]
  BY <1>1 DEF TypeOK
<1>4. TypeOK'
  BY <1>1, <1>2 DEF Approve, TypeOK
<1>5. OpenIsUnique' /\ PublishedIsOnRecord'
  BY DEF Approve, OpenIsUnique, PublishedIsOnRecord
<1>6. PostingIsOnRecord'
  BY <1>3 DEF Approve, PostingIsOnRecord, Target
<1>7. PublishedIsAudited'
  <2>1. request[q].pc = "idle"
    BY DEF Approve, Idle
  <2> QED
    BY <1>3, <2>1 DEF Approve, PublishedIsAudited, Target
<1> QED
  BY <1>4, <1>5, <1>6, <1>7

LEMMA RejectStep ==
  ASSUME IInv, NEW q \in Request, Reject(q)
  PROVE  IInv'
<1> USE DEF IInv
<1>1. PICK d \in Draft :
        /\ draft[d].status = "pending"
        /\ draft' = [draft EXCEPT ![d].status = "rejected"]
        /\ request' = [request EXCEPT ![q] = [pc |-> "auditRejected", draft |-> d]]
  BY DEF Reject
<1>2. [pc |-> "auditRejected", draft |-> d] \in Busy /\ "rejected" \in DraftStatus
  BY DEF Busy, RequestPc, DraftStatus
<1>3. /\ request'[q] = [pc |-> "auditRejected", draft |-> d]
      /\ \A r \in Request \ {q} : request'[r] = request[r]
  BY <1>1 DEF TypeOK
<1>4. /\ draft' \in [Draft -> DraftRow]
      /\ draft'[d].status = "rejected"
      /\ \A e \in Draft : draft'[e].comment = draft[e].comment
      /\ \A e \in Draft \ {d} : draft'[e] = draft[e]
  BY <1>1, <1>2, NewStatus
<1>5. TypeOK'
  BY <1>1, <1>2, <1>4 DEF Reject, TypeOK
<1>6. OpenIsUnique'
  BY <1>4 DEF OpenIsUnique, Open
<1>7. \A e \in Draft : draft[e].status \in OnRecord => draft'[e] = draft[e]
  BY <1>1, <1>4 DEF OnRecord
<1>8. PublishedIsOnRecord'
  BY <1>7 DEF Reject, PublishedIsOnRecord, OnRecord
<1>9. PostingIsOnRecord'
  <2> SUFFICES ASSUME NEW r \in Request,
                      request'[r].pc \in {"post", "markPosted", "auditPosted", "markFailed",
                                          "auditFailed"}
               PROVE  draft'[request'[r].draft].status \in OnRecord
    BY DEF PostingIsOnRecord, Target
  <2>1. request'[r] = request[r] /\ Target(r) \in Draft
    BY <1>3, BusyHasDraft
  <2> QED
    BY <1>7, <2>1 DEF PostingIsOnRecord, Target
<1>10. PublishedIsAudited'
  <2>1. request[q].pc = "idle"
    BY DEF Reject, Idle
  <2> QED
    BY <1>3, <2>1 DEF Reject, PublishedIsAudited, Target
<1> QED
  BY <1>5, <1>6, <1>8, <1>9, <1>10

LEMMA BuildClientStep ==
  ASSUME IInv, NEW q \in Request, BuildClient(q)
  PROVE  IInv'
<1>1. "markApproved" \in RequestPc /\ request[q] # Idle
  BY DEF RequestPc, BuildClient, Idle
<1>2. CASE Goto(q, "markApproved")
  BY <1>1, <1>2, GoesOn DEF BuildClient, IInv, TypeOK, OpenIsUnique
<1>3. CASE Return(q)
  BY <1>3, Leaves DEF BuildClient, IInv, TypeOK
<1> QED
  BY <1>2, <1>3 DEF BuildClient

LEMMA MarkApprovedStep ==
  ASSUME IInv, NEW q \in Request, MarkApproved(q)
  PROVE  IInv'
<1>1. request[q] # Idle /\ Target(q) \in Draft /\ request[q].pc = "markApproved"
  BY BusyHasDraft DEF MarkApproved, IInv
<1>2. CASE UNCHANGED draft /\ Return(q)
  BY <1>1, <1>2, Leaves DEF MarkApproved, IInv, TypeOK
<1>3. CASE /\ OpenDrafts(draft[Target(q)].comment) \subseteq {Target(q)}
           /\ draft' = [draft EXCEPT ![Target(q)].status = "approved"]
           /\ Goto(q, "post")
  <2>1. "approved" \in DraftStatus /\ "post" \in RequestPc /\ "approved" \in OnRecord
    BY DEF DraftStatus, RequestPc, OnRecord
  <2>2. /\ draft' \in [Draft -> DraftRow]
        /\ draft'[Target(q)].status = "approved"
        /\ \A e \in Draft : draft'[e].comment = draft[e].comment
        /\ \A e \in Draft \ {Target(q)} : draft'[e] = draft[e]
    BY <1>1, <1>3, <2>1, NewStatus DEF IInv
  <2>3. \A e \in Draft : draft[e].comment = draft[Target(q)].comment /\ draft[e].status \in Open
                         => e = Target(q)
    BY <1>3 DEF OpenDrafts
  <2>4. OpenIsUnique'
    BY <1>1, <2>2, <2>3 DEF IInv, OpenIsUnique
  <2> QED
    BY <1>1, <1>3, <2>1, <2>2, <2>4, GoesOn DEF MarkApproved, IInv, TypeOK
<1> QED
  BY <1>2, <1>3 DEF MarkApproved

LEMMA PostStep ==
  ASSUME IInv, NEW q \in Request, Post(q) \/ PostUnanswered(q) \/ PostRefused(q)
  PROVE  IInv'
<1>1. request[q] # Idle /\ Target(q) \in Draft /\ request[q].pc = "post"
  BY BusyHasDraft DEF Post, PostUnanswered, PostRefused, IInv
<1>2. draft[Target(q)].status \in OnRecord
  BY <1>1 DEF IInv, PostingIsOnRecord
<1>3. "markPosted" \in RequestPc /\ "markFailed" \in RequestPc
  BY DEF RequestPc
<1>4. ASSUME Publish(q)
      PROVE  /\ published' \in [Draft -> Nat]
             /\ \A d \in Draft : d # Target(q) => published'[d] = published[d]
  BY <1>1, <1>4 DEF Publish, IInv, TypeOK
<1>5. faults \in Nat /\ draft \in [Draft -> DraftRow] /\ published \in [Draft -> Nat]
  BY DEF IInv, TypeOK
<1>6. UNCHANGED draft => OpenIsUnique'
  BY DEF IInv, OpenIsUnique
<1>7. CASE Post(q)
  BY <1>1, <1>2, <1>3, <1>4, <1>5, <1>6, <1>7, GoesOn DEF Post
<1>8. CASE PostRefused(q)
  BY <1>1, <1>2, <1>3, <1>5, <1>6, <1>8, GoesOn DEF PostRefused
<1>9. CASE PostUnanswered(q)
  BY <1>1, <1>2, <1>3, <1>4, <1>5, <1>6, <1>9, GoesOn DEF PostUnanswered, Fault
<1> QED
  BY <1>7, <1>8, <1>9

\* MarkPosted and MarkFailed: the draft leaves its open status.
LEMMA MarkStep ==
  ASSUME IInv, NEW q \in Request, MarkPosted(q) \/ MarkFailed(q)
  PROVE  IInv'
<1>1. request[q] # Idle /\ Target(q) \in Draft
  BY BusyHasDraft DEF MarkPosted, MarkFailed, IInv
<1>2. PICK status \in {"posted", "failed"} : draft' = [draft EXCEPT ![Target(q)].status = status]
  BY DEF MarkPosted, MarkFailed
<1>3. status \in DraftStatus /\ status \in OnRecord /\ status \notin Open
  BY DEF DraftStatus, OnRecord, Open
<1>4. /\ draft' \in [Draft -> DraftRow]
      /\ draft'[Target(q)].status = status
      /\ \A e \in Draft : draft'[e].comment = draft[e].comment
      /\ \A e \in Draft \ {Target(q)} : draft'[e] = draft[e]
  BY <1>1, <1>2, <1>3, NewStatus DEF IInv
<1>5. OpenIsUnique'
  BY <1>3, <1>4 DEF IInv, OpenIsUnique
<1>6. "auditPosted" \in RequestPc /\ "auditFailed" \in RequestPc
  BY DEF RequestPc
<1>7. CASE MarkPosted(q)
  BY <1>1, <1>3, <1>4, <1>5, <1>6, <1>7, GoesOn DEF MarkPosted, IInv, TypeOK
<1>8. CASE MarkFailed(q)
  BY <1>1, <1>3, <1>4, <1>5, <1>6, <1>8, GoesOn DEF MarkFailed, IInv, TypeOK
<1> QED
  BY <1>7, <1>8

LEMMA RecordThrowsStep ==
  ASSUME IInv, NEW q \in Request, RecordThrows(q)
  PROVE  IInv'
<1>1. request[q] # Idle /\ Target(q) \in Draft
  BY BusyHasDraft DEF RecordThrows, IInv
<1>2. draft[Target(q)].status \in OnRecord
  BY DEF RecordThrows, IInv, PostingIsOnRecord
<1>3. "markFailed" \in RequestPc
  BY DEF RequestPc
<1>4. OpenIsUnique' /\ faults' \in Nat /\ faults' > 0
  BY DEF RecordThrows, Fault, IInv, OpenIsUnique, TypeOK
<1> QED
  BY <1>1, <1>2, <1>3, <1>4, GoesOn DEF RecordThrows, IInv, TypeOK

\* AuditPosted, AuditFailed, AuditRejected and RequestDies.
LEMMA LastStep ==
  ASSUME IInv, NEW q \in Request,
         AuditPosted(q) \/ AuditFailed(q) \/ AuditRejected(q) \/ RequestDies(q)
  PROVE  IInv'
<1>1. ASSUME NEW action \in {"posted", "post_failed", "rejected"},
             request[q].pc # "idle",
             audits' = [audits EXCEPT ![Target(q)] = @ \cup {action}]
      PROVE  /\ audits' \in [Draft -> SUBSET {"posted", "post_failed", "rejected"}]
             /\ \A d \in Draft : audits[d] \subseteq audits'[d]
             /\ action \in audits'[Target(q)]
  <2>1. Target(q) \in Draft
    BY <1>1, BusyHasDraft DEF IInv
  <2>2. audits[Target(q)] \cup {action} \in SUBSET {"posted", "post_failed", "rejected"}
    BY <2>1 DEF IInv, TypeOK
  <2> QED
    BY <1>1, <2>1, <2>2 DEF IInv, TypeOK
<1>2. CASE AuditPosted(q)
  BY <1>1, <1>2, Leaves DEF AuditPosted
<1>3. CASE AuditFailed(q)
  BY <1>1, <1>3, Leaves DEF AuditFailed
<1>4. CASE AuditRejected(q)
  BY <1>1, <1>4, Leaves DEF AuditRejected
<1>5. CASE RequestDies(q)
  <2>1. faults' \in Nat /\ faults' > 0
    BY <1>5 DEF RequestDies, Fault, IInv, TypeOK
  <2> QED
    BY <1>5, <2>1, Leaves DEF RequestDies, IInv, TypeOK
<1> QED
  BY <1>2, <1>3, <1>4, <1>5

----------------------------------------------------------------------------
LEMMA InitIInv == Init => IInv
<1> SUFFICES ASSUME Init PROVE IInv
  OBVIOUS
<1>1. TypeOK
  BY DEF Init, TypeOK, DraftRow, DraftStatus, Loop, TriagePc, NoBatch, Idle
<1>2. OpenIsUnique /\ PostingIsOnRecord
  BY DEF Init, OpenIsUnique, PostingIsOnRecord, Open, Idle
<1>3. PublishedIsOnRecord /\ PublishedIsAudited
  BY DEF Init, PublishedIsOnRecord, PublishedIsAudited
<1> QED
  BY <1>1, <1>2, <1>3 DEF IInv

LEMMA NextIInv == IInv /\ [Next]_vars => IInv'
<1> SUFFICES ASSUME IInv, [Next]_vars PROVE IInv'
  OBVIOUS
<1>1. ASSUME NEW t \in Triager, Triage(t)
      PROVE  IInv'
  BY <1>1, TriageStep
<1>2. ASSUME NEW q \in Request, Approve(q) \/ Reject(q)
      PROVE  IInv'
  BY <1>2, ApproveStep, RejectStep
<1>3. ASSUME NEW q \in Request, Continue(q)
      PROVE  IInv'
  BY <1>3, BuildClientStep, MarkApprovedStep, PostStep, MarkStep, LastStep DEF Continue
<1>4. ASSUME NEW q \in Request, PostUnanswered(q) \/ RecordThrows(q) \/ RequestDies(q)
      PROVE  IInv'
  BY <1>4, PostStep, RecordThrowsStep, LastStep
<1>5. CASE ToggleCredential
  <2>1. TypeOK'
    BY <1>5 DEF ToggleCredential, IInv, TypeOK
  <2> QED
    BY <1>5, <2>1, RequestsUnchanged DEF ToggleCredential, IInv, OpenIsUnique
<1>6. CASE UNCHANGED vars
  <2>1. TypeOK'
    BY <1>6 DEF vars, IInv, TypeOK
  <2> QED
    BY <1>6, <2>1, RequestsUnchanged DEF vars, IInv, OpenIsUnique
<1> QED
  BY <1>1, <1>2, <1>3, <1>4, <1>5, <1>6 DEF Next

LEMMA Inductive == Spec => []IInv
<1> QED
  BY InitIInv, NextIInv, PTL DEF Spec

\* Types of the tables, the loops and the requests.
THEOREM TypeCorrect == Spec => []TypeOK
<1>1. IInv => TypeOK
  BY DEF IInv
<1> QED
  BY <1>1, Inductive, PTL

\* However many loops and approvals run, a comment has at most one open draft.
THEOREM OneDraftAtATime == Spec => []OneOpenDraft
<1>1. IInv => OneOpenDraft
  <2> SUFFICES ASSUME IInv, NEW c \in Comment
               PROVE  Cardinality(OpenDrafts(c)) <= 1
    BY DEF OneOpenDraft
  <2>1. CASE OpenDrafts(c) = {}
    <3>1. Cardinality(OpenDrafts(c)) = 0
      BY <2>1, FS_EmptySet
    <3> QED
      BY <3>1
  <2>2. CASE OpenDrafts(c) # {}
    <3>1. PICK d \in OpenDrafts(c) : TRUE
      BY <2>2
    <3>2. OpenDrafts(c) = {d}
      BY <3>1 DEF OpenDrafts, IInv, OpenIsUnique
    <3>3. Cardinality(OpenDrafts(c)) = 1
      BY <3>2, FS_Singleton
    <3> QED
      BY <3>3
  <2> QED
    BY <2>1, <2>2
<1> QED
  BY <1>1, Inductive, PTL

\* What is published has a row that says it was approved, whatever fails and in whatever
\* order the requests' steps come.
THEOREM NothingOffRecord == Spec => []PublishedIsOnRecord
<1>1. IInv => PublishedIsOnRecord
  BY DEF IInv
<1> QED
  BY <1>1, Inductive, PTL

\* Without a fault, what is published is in the ledger or about to be.
THEOREM NothingUnaudited == Spec => []PublishedIsAudited
<1>1. IInv => PublishedIsAudited
  BY DEF IInv
<1> QED
  BY <1>1, Inductive, PTL
=============================================================================
