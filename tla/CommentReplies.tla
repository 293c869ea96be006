--------------------------- MODULE CommentReplies ---------------------------
(***************************************************************************)
(* From a comment to a published reply: Warden's triage                    *)
(* (services/agent-warden/src/index.ts, store.ts) drafts replies, an       *)
(* operator approves or rejects them                                       *)
(* (services/orchestrator/src/routes/comments.ts), and an approved one is  *)
(* posted to YouTube.  The table reply_drafts and its partial unique index *)
(* are shared; the platform is external.                                   *)
(*                                                                         *)
(* Each SQL statement and each call of the platform is one step.           *)
(***************************************************************************)
EXTENDS Naturals, FiniteSets

CONSTANTS
  Comment, NoComment,
  Draft, NoDraft,   \* the ids reply_drafts may give out
  Triager,          \* the triage loops that may run at the same time
  Request,          \* the requests served at the same time
  MaxFaults         \* bound: lost answers, failed statements and restarts, in all

ASSUME ReplyAssumption ==
  /\ NoComment \notin Comment
  /\ NoDraft \notin Draft
  /\ MaxFaults \in Nat

VARIABLES
  classified,  \* comment_classifications
  draft,       \* reply_drafts
  triage,      \* where each triage loop stands
  connected,   \* a credential with revoked_at IS NULL exists
  request,     \* where each request stands
  published,   \* how many replies YouTube shows for a draft
  audits,      \* audit_log: the actions appended for a draft
  faults

vars == <<classified, draft, triage, connected, request, published, audits, faults>>

Open        == {"pending", "approved"}
DraftStatus == {"none", "pending", "approved", "rejected", "posted", "failed"}
TriagePc    == {"idle", "classify", "saveDraft"}
RequestPc   == {"connect", "markApproved", "post", "markPosted", "auditPosted",
                "markFailed", "auditFailed", "auditRejected"}

DraftRow == [comment : Comment \cup {NoComment}, status : DraftStatus]
Loop     == [pc : TriagePc, todo : SUBSET Comment, comment : Comment \cup {NoComment}]
Busy     == [pc : RequestPc, draft : Draft]
Idle     == [pc |-> "idle", draft |-> NoDraft]
NoBatch  == [pc |-> "idle", todo |-> {}, comment |-> NoComment]

TypeOK ==
  /\ classified \subseteq Comment
  /\ draft \in [Draft -> DraftRow]
  /\ triage \in [Triager -> Loop]
  /\ connected \in BOOLEAN
  /\ request \in [Request -> Busy \cup {Idle}]
  /\ published \in [Draft -> Nat]
  /\ audits \in [Draft -> SUBSET {"posted", "post_failed", "rejected"}]
  /\ faults \in Nat

Init ==
  /\ classified = {}
  /\ draft = [d \in Draft |-> [comment |-> NoComment, status |-> "none"]]
  /\ triage = [t \in Triager |-> NoBatch]
  /\ connected = FALSE
  /\ request = [q \in Request |-> Idle]
  /\ published = [d \in Draft |-> 0]
  /\ audits = [d \in Draft |-> {}]
  /\ faults = 0

Fault == faults < MaxFaults /\ faults' = faults + 1

\* The row reply_drafts_one_open_idx would hold for this comment.
OpenDrafts(c) == {d \in Draft : draft[d].comment = c /\ draft[d].status \in Open}

----------------------------------------------------------------------------
(* Warden.triage *)

\* unclassifiedComments: a snapshot, which another loop may be working on as well.
StartBatch(t) ==
  /\ triage[t].pc = "idle"
  /\ Comment \ classified # {}
  /\ triage' = [triage EXCEPT ![t] = [pc |-> "classify", todo |-> Comment \ classified,
                                      comment |-> NoComment]]
  /\ UNCHANGED <<classified, draft, connected, request, published, audits, faults>>

\* The loop goes on with the rest of the batch.
NextComment(t, rest) ==
  triage' = [triage EXCEPT ![t] = IF rest = {} THEN NoBatch
                                  ELSE [pc |-> "classify", todo |-> rest,
                                        comment |-> NoComment]]

\* saveClassification, after which the drafter may want to reply or not.
Classify(t) ==
  /\ triage[t].pc = "classify"
  /\ \E c \in triage[t].todo :
       /\ classified' = classified \cup {c}
       /\ \/ NextComment(t, triage[t].todo \ {c})
          \/ triage' = [triage EXCEPT ![t] = [pc |-> "saveDraft", comment |-> c,
                                              todo |-> triage[t].todo \ {c}]]
  /\ UNCHANGED <<draft, connected, request, published, audits, faults>>

\* The classifier throws: the comment is left unclassified.
ClassifyThrows(t) ==
  /\ triage[t].pc = "classify"
  /\ \E c \in triage[t].todo : NextComment(t, triage[t].todo \ {c})
  /\ UNCHANGED <<classified, draft, connected, request, published, audits, faults>>

\* Mutant: ON CONFLICT without the index it rests on.
SaveDraftAlways(t) ==
  /\ triage[t].pc = "saveDraft"
  /\ \E d \in Draft :
       /\ draft[d].status = "none"
       /\ draft' = [draft EXCEPT ![d] = [comment |-> triage[t].comment, status |-> "pending"]]
  /\ NextComment(t, triage[t].todo)
  /\ UNCHANGED <<classified, connected, request, published, audits, faults>>

\* INSERT ... ON CONFLICT (comment_id) WHERE status IN ('pending','approved') DO NOTHING
SaveDraft(t) ==
  /\ triage[t].pc = "saveDraft"
  /\ IF OpenDrafts(triage[t].comment) = {}
     THEN \E d \in Draft :
            /\ draft[d].status = "none"
            /\ draft' = [draft EXCEPT ![d] = [comment |-> triage[t].comment,
                                              status |-> "pending"]]
     ELSE UNCHANGED draft
  /\ NextComment(t, triage[t].todo)
  /\ UNCHANGED <<classified, connected, request, published, audits, faults>>

\* The event, the drafter or the insert throws: the comment stays classified, without a
\* draft.  Also what is left of it when the process dies.
DraftThrows(t) ==
  /\ triage[t].pc = "saveDraft"
  /\ NextComment(t, triage[t].todo)
  /\ UNCHANGED <<classified, draft, connected, request, published, audits, faults>>

----------------------------------------------------------------------------
(* POST /api/replies/:id/approve *)

Goto(q, pc) == request' = [request EXCEPT ![q].pc = pc]
Return(q)   == request' = [request EXCEPT ![q] = Idle]
Target(q)   == request[q].draft

\* The draft is read and must be pending; any other request may move it from here on.
Approve(q) ==
  /\ request[q] = Idle
  /\ \E d \in Draft :
       /\ draft[d].status = "pending"
       /\ request' = [request EXCEPT ![q] = [pc |-> "connect", draft |-> d]]
  /\ UNCHANGED <<classified, draft, triage, connected, published, audits, faults>>

\* Mutant: the reply is posted first and recorded afterwards.
BuildClientPostFirst(q) ==
  /\ request[q].pc = "connect"
  /\ IF connected THEN Goto(q, "post") ELSE Return(q)
  /\ UNCHANGED <<classified, draft, triage, connected, published, audits, faults>>

\* youtubeClient: no credential, no reply.  The client keeps the token it was built with.
BuildClient(q) ==
  /\ request[q].pc = "connect"
  /\ IF connected THEN Goto(q, "markApproved") ELSE Return(q)
  /\ UNCHANGED <<classified, draft, triage, connected, published, audits, faults>>

\* UPDATE ... SET status = 'approved' WHERE id = $1, whatever the status is by now.  The
\* index refuses it while another draft of the comment is open; that throws.
MarkApproved(q) ==
  /\ request[q].pc = "markApproved"
  /\ IF OpenDrafts(draft[Target(q)].comment) \subseteq {Target(q)}
     THEN /\ draft' = [draft EXCEPT ![Target(q)].status = "approved"]
          /\ Goto(q, "post")
     ELSE /\ Return(q)
          /\ UNCHANGED draft
  /\ UNCHANGED <<classified, triage, connected, published, audits, faults>>

Publish(q) == published' = [published EXCEPT ![Target(q)] = @ + 1]

\* postLiveChatMessage or replyToComment: published and answered.
Post(q) ==
  /\ request[q].pc = "post"
  /\ Publish(q)
  /\ Goto(q, "markPosted")
  /\ UNCHANGED <<classified, draft, triage, connected, audits, faults>>

\* Mutant: a refusal ends the request, without its catch block.
PostRefusedSilently(q) ==
  /\ request[q].pc = "post"
  /\ Return(q)
  /\ UNCHANGED <<classified, draft, triage, connected, published, audits, faults>>

\* The platform refuses: a revoked grant, an exhausted quota, a deleted comment.
PostRefused(q) ==
  /\ request[q].pc = "post"
  /\ Goto(q, "markFailed")
  /\ UNCHANGED <<classified, draft, triage, connected, published, audits, faults>>

\* Published, and the answer is lost or has no id.
PostUnanswered(q) ==
  /\ request[q].pc = "post"
  /\ Fault
  /\ Publish(q)
  /\ Goto(q, "markFailed")
  /\ UNCHANGED <<classified, draft, triage, connected, audits>>

\* Mutant: the request ends with the update.
MarkPostedUnaudited(q) ==
  /\ request[q].pc = "markPosted"
  /\ draft' = [draft EXCEPT ![Target(q)].status = "posted"]
  /\ Return(q)
  /\ UNCHANGED <<classified, triage, connected, published, audits, faults>>

MarkPosted(q) ==
  /\ request[q].pc = "markPosted"
  /\ draft' = [draft EXCEPT ![Target(q)].status = "posted"]
  /\ Goto(q, "auditPosted")
  /\ UNCHANGED <<classified, triage, connected, published, audits, faults>>

AuditPosted(q) ==
  /\ request[q].pc = "auditPosted"
  /\ audits' = [audits EXCEPT ![Target(q)] = @ \cup {"posted"}]
  /\ Return(q)
  /\ UNCHANGED <<classified, draft, triage, connected, published, faults>>

\* Recording a reply that is out throws: the catch block takes it for a failed post.
RecordThrows(q) ==
  /\ request[q].pc \in {"markPosted", "auditPosted"}
  /\ Fault
  /\ Goto(q, "markFailed")
  /\ UNCHANGED <<classified, draft, triage, connected, published, audits>>

MarkFailed(q) ==
  /\ request[q].pc = "markFailed"
  /\ draft' = [draft EXCEPT ![Target(q)].status = "failed"]
  /\ Goto(q, "auditFailed")
  /\ UNCHANGED <<classified, triage, connected, published, audits, faults>>

AuditFailed(q) ==
  /\ request[q].pc = "auditFailed"
  /\ audits' = [audits EXCEPT ![Target(q)] = @ \cup {"post_failed"}]
  /\ Return(q)
  /\ UNCHANGED <<classified, draft, triage, connected, published, faults>>

----------------------------------------------------------------------------
(* POST /api/replies/:id/reject, the credential, failures *)

\* UPDATE ... WHERE id = $1 AND status = 'pending' RETURNING *
Reject(q) ==
  /\ request[q] = Idle
  /\ \E d \in Draft :
       /\ draft[d].status = "pending"
       /\ draft' = [draft EXCEPT ![d].status = "rejected"]
       /\ request' = [request EXCEPT ![q] = [pc |-> "auditRejected", draft |-> d]]
  /\ UNCHANGED <<classified, triage, connected, published, audits, faults>>

AuditRejected(q) ==
  /\ request[q].pc = "auditRejected"
  /\ audits' = [audits EXCEPT ![Target(q)] = @ \cup {"rejected"}]
  /\ Return(q)
  /\ UNCHANGED <<classified, draft, triage, connected, published, faults>>

\* POST /api/youtube/connect and /api/youtube/disconnect.
ToggleCredential ==
  /\ connected' = ~connected
  /\ UNCHANGED <<classified, draft, triage, request, published, audits, faults>>

\* A statement outside the try throws, or the orchestrator is restarted.
RequestDies(q) ==
  /\ request[q] # Idle
  /\ Fault
  /\ Return(q)
  /\ UNCHANGED <<classified, draft, triage, connected, published, audits>>

----------------------------------------------------------------------------
Triage(t) == StartBatch(t) \/ Classify(t) \/ ClassifyThrows(t) \/ SaveDraft(t) \/ DraftThrows(t)

Continue(q) ==
  \/ BuildClient(q) \/ MarkApproved(q) \/ Post(q) \/ PostRefused(q)
  \/ MarkPosted(q) \/ AuditPosted(q) \/ MarkFailed(q) \/ AuditFailed(q) \/ AuditRejected(q)

Next ==
  \/ \E t \in Triager : Triage(t)
  \/ \E q \in Request : \/ Approve(q) \/ Reject(q) \/ Continue(q)
                        \/ PostUnanswered(q) \/ RecordThrows(q) \/ RequestDies(q)
  \/ ToggleCredential

Spec == Init /\ [][Next]_vars

\* A request that is being served goes on, and the operator does not stop deciding.
FairSpec ==
  Spec /\ \A q \in Request : WF_vars(Continue(q)) /\ WF_vars(Approve(q) \/ Reject(q))

----------------------------------------------------------------------------
(* Properties *)

\* A comment has one draft that may still become a reply, whatever triage loops and
\* approvals with stale reads do to older drafts of it.
OneOpenDraft == \A c \in Comment : Cardinality(OpenDrafts(c)) <= 1

\* "The reverse order could publish a reply the database has no record of": what is
\* published has a row that says it was approved, through crashes and lost answers.
PublishedIsOnRecord ==
  \A d \in Draft : published[d] > 0 => draft[d].status \in {"approved", "posted", "failed"}

\* Every publication is in the ledger or about to be, unless something failed.
PublishedIsAudited ==
  \A d \in Draft :
    published[d] > 0 =>
      \/ "posted" \in audits[d]
      \/ \E q \in Request : Target(q) = d /\ request[q].pc \in {"markPosted", "auditPosted"}
      \/ faults > 0

\* An approved draft is posted or fails, unless its request was lost.
ApprovedIsResolved ==
  \A d \in Draft :
    draft[d].status = "approved" ~> draft[d].status \in {"posted", "failed"} \/ faults > 0

\* Posting "happens exactly once per approved draft".
ExactlyOnce == \A d \in Draft : published[d] <= 1

\* "A crash between the two leaves an approved-but-unposted draft, which is visible and
\* recoverable."
ApprovedIsRecoverable ==
  \A d \in Draft : draft[d].status = "approved" ~> draft[d].status # "approved"
=============================================================================
