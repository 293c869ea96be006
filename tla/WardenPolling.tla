--------------------------- MODULE WardenPolling ---------------------------
(***************************************************************************)
(* How Warden reads comments: Warden.handle, pollLiveChat and              *)
(* pollVideoComments (services/agent-warden/src/index.ts), its cursors     *)
(* (store.ts) and the YouTube client (packages/youtube/src/index.ts).      *)
(* What becomes of the comments is in CommentReplies.                      *)
(*                                                                         *)
(* A thread is a sequence of messages numbered from 1: thread 0 is the     *)
(* video's, thread b the chat of the b-th broadcast.  A page token is the  *)
(* number of the last message delivered.  YouTube is external.             *)
(***************************************************************************)
EXTENDS Naturals, FiniteSets

CONSTANTS
  Worker,         \* the processes of Warden
  Kinds,          \* the sources there are: a subset of {"chat", "video"}
  Staff,          \* numbers of the messages the owner or a moderator writes
  PageSize,       \* messages of a page
  MaxBroadcasts, MaxMessages,   \* bounds: broadcasts, and messages of a thread
  MaxGrants,      \* bound: times the channel is connected
  MaxFaults       \* bound: failed calls, revoked grants, refusals of quota, crashes

VARIABLES
  posted,         \* how many messages each thread has
  live,           \* the broadcast that is live, or 0
  comments,       \* comments: <<thread, message>>
  cursor,         \* live_chat_cursors, of the one source that is a chat
  grant,          \* the secret of the row of platform_credentials: its number, or 0
  rejected,       \* grants whose refresh token the platform no longer takes
  lastError,      \* platform_credentials.last_error IS NOT NULL
  work,           \* where each process stands
  broadcasts, faults

vars == <<posted, live, comments, cursor, grant, rejected, lastError, work,
          broadcasts, faults>>
platform == <<posted, live, broadcasts>>
credential == <<grant, rejected, lastError>>

Thread == 0..MaxBroadcasts
Message == 1..MaxMessages

\* from: the message before the first one that was read when the chat was joined.
NoCursor == [chat |-> 0, token |-> 0, from |-> 0, due |-> TRUE]
Cursor == [chat : Thread, token : 0..MaxMessages, from : 0..MaxMessages, due : BOOLEAN]

Pc == {"idle", "source", "join", "readPage", "insert", "writeCursor", "clearCursor",
       "readVideo", "markPolled", "markFailed", "recordError", "triage"}
\* client: the grant this.youtube was built with; next, upto: the page being inserted.
Resting(g) == [pc |-> "idle", client |-> g, todo |-> {}, resumed |-> FALSE,
               chat |-> 0, token |-> 0, from |-> 0, next |-> 0, upto |-> 0,
               denied |-> FALSE]

TypeOK ==
  /\ posted \in [Thread -> 0..MaxMessages]
  /\ live \in Thread
  /\ comments \subseteq Thread \X Message
  /\ cursor \in Cursor
  /\ grant \in 0..MaxGrants /\ rejected \subseteq 1..MaxGrants
  /\ lastError \in BOOLEAN
  /\ \A w \in Worker :
       /\ work[w].pc \in Pc /\ work[w].client \in 0..MaxGrants
       /\ work[w].todo \subseteq {"chat", "video"}
       /\ work[w].chat \in Thread /\ work[w].token \in 0..MaxMessages
       /\ work[w].next \in 0..MaxMessages + 1 /\ work[w].upto \in 0..MaxMessages
  /\ broadcasts \in Thread /\ faults \in 0..MaxFaults

Init ==
  /\ posted = [t \in Thread |-> 0]
  /\ live = 0
  /\ comments = {}
  /\ cursor = NoCursor
  /\ grant = 0 /\ rejected = {} /\ lastError = FALSE
  /\ work = [w \in Worker |-> Resting(0)]
  /\ broadcasts = 0
  /\ faults = 0

At(w, pc) == work[w].pc = pc
Becomes(w, r) == work' = [work EXCEPT ![w] = r]
GoTo(w, pc) == Becomes(w, [work[w] EXCEPT !.pc = pc])
Fault == faults < MaxFaults /\ faults' = faults + 1

----------------------------------------------------------------------------
(* The channel and its operator *)

Broadcast ==
  /\ live = 0 /\ broadcasts < MaxBroadcasts
  /\ broadcasts' = broadcasts + 1
  /\ live' = broadcasts'
  /\ UNCHANGED <<posted, comments, cursor, credential, work, faults>>

EndBroadcast ==
  /\ live # 0 /\ live' = 0
  /\ UNCHANGED <<posted, comments, cursor, credential, work, broadcasts, faults>>

Post(t) ==
  /\ IF t = 0 THEN "video" \in Kinds ELSE t = live
  /\ posted[t] < MaxMessages
  /\ posted' = [posted EXCEPT ![t] = @ + 1]
  /\ UNCHANGED <<live, comments, cursor, credential, work, broadcasts, faults>>

\* POST /api/youtube/connect: the row keeps its id and loses its error.
Connect ==
  /\ grant < MaxGrants
  /\ grant' = grant + 1 /\ lastError' = FALSE
  /\ UNCHANGED <<platform, comments, cursor, rejected, work, faults>>

\* The user revokes the access, or changes the password.
RevokeGrant ==
  /\ grant # 0 /\ grant \notin rejected
  /\ rejected' = rejected \cup {grant}
  /\ Fault
  /\ UNCHANGED <<platform, comments, cursor, grant, lastError, work>>

\* poll_after passes.
PollAfter ==
  /\ ~cursor.due
  /\ cursor' = [cursor EXCEPT !.due = TRUE]
  /\ UNCHANGED <<platform, comments, credential, work, faults>>

----------------------------------------------------------------------------
(* Warden.handle *)

\* A task begins: the client is built from the active credential once per process, and
\* claimSources takes every source, polled recently or not; in any order.
Begin(w) ==
  /\ At(w, "idle")
  /\ work[w].client # 0 \/ grant # 0
  /\ LET g == IF work[w].client # 0 THEN work[w].client ELSE grant IN
     Becomes(w, [Resting(g) EXCEPT !.pc = "source", !.todo = Kinds])
  /\ UNCHANGED <<platform, comments, cursor, credential, faults>>

\* The next source; readCursor when it is the chat.
NextSource(w) ==
  /\ At(w, "source")
  /\ \/ /\ "chat" \in work[w].todo
        /\ Becomes(w, [work[w] EXCEPT
             !.todo = @ \ {"chat"}, !.resumed = cursor # NoCursor, !.chat = cursor.chat,
             !.token = cursor.token, !.from = cursor.from,
             !.pc = IF cursor = NoCursor THEN "join"
                    ELSE IF ~cursor.due THEN "markPolled" ELSE "readPage"])
     \/ /\ "video" \in work[w].todo
        /\ Becomes(w, [work[w] EXCEPT !.todo = @ \ {"video"}, !.chat = 0, !.pc = "readVideo"])
  /\ UNCHANGED <<platform, comments, cursor, credential, faults>>

\* What request does when the token cannot be refreshed: it throws before it asks anything.
Denied(w) == work[w].client \in rejected

\* A message that matches "token refresh failed" ends the task, once it is on record.
RefreshFails(w) ==
  /\ work[w].pc \in {"join", "readPage", "readVideo"}
  /\ Denied(w)
  /\ Becomes(w, [work[w] EXCEPT !.pc = "markFailed", !.denied = TRUE])
  /\ UNCHANGED <<platform, comments, cursor, credential, faults>>

\* activeLiveChatId
Join(w) ==
  /\ At(w, "join") /\ ~Denied(w)
  /\ Becomes(w, [work[w] EXCEPT !.chat = live,
                                !.pc = IF live = 0 THEN "markPolled" ELSE "readPage"])
  /\ UNCHANGED <<platform, comments, cursor, credential, faults>>

\* The messages first .. last of the thread are inserted, then the cursor of a chat is written.
Deliver(w, first, last, from) ==
  Becomes(w, [work[w] EXCEPT !.next = first, !.upto = last, !.from = from,
                !.pc = IF first <= last THEN "insert"
                       ELSE IF work[w].chat = 0 THEN "markPolled" ELSE "writeCursor"])

Least(a, b) == IF a < b THEN a ELSE b

\* Mutant: the cursor is written when the page is there, before its messages are.
ReadPageCursorFirst(w) ==
  /\ At(w, "readPage") /\ ~Denied(w) /\ live = work[w].chat
  /\ LET last == Least(posted[live], work[w].token + PageSize) IN
     /\ Deliver(w, work[w].token + 1, last, work[w].from)
     /\ cursor' = [chat |-> live, token |-> last, from |-> work[w].from, due |-> FALSE]
  /\ UNCHANGED <<platform, comments, credential, faults>>

\* liveChatMessages: the page after the token; without one, a page of recent messages.
ReadPage(w) ==
  /\ At(w, "readPage") /\ ~Denied(w) /\ live = work[w].chat
  /\ LET n == posted[live] IN
     IF work[w].resumed
     THEN Deliver(w, work[w].token + 1, Least(n, work[w].token + PageSize), work[w].from)
     ELSE \E j \in 0..n : Deliver(w, j + 1, Least(n, j + PageSize), j)
  /\ UNCHANGED <<platform, comments, cursor, credential, faults>>

\* 404, or 403, which is also the answer to a quota that is used up.
ChatGone(w) ==
  /\ At(w, "readPage") /\ ~Denied(w)
  /\ IF live = work[w].chat THEN Fault ELSE UNCHANGED faults
  /\ GoTo(w, "clearCursor")
  /\ UNCHANGED <<platform, comments, cursor, credential>>

ClearCursor(w) ==
  /\ At(w, "clearCursor")
  /\ cursor' = NoCursor
  /\ GoTo(w, "markPolled")
  /\ UNCHANGED <<platform, comments, credential, faults>>

\* videoComments: the newest, in one page.
ReadVideo(w) ==
  /\ At(w, "readVideo") /\ ~Denied(w)
  /\ LET n == posted[0] IN
     Deliver(w, IF n > PageSize THEN n - PageSize + 1 ELSE 1, n, 0)
  /\ UNCHANGED <<platform, comments, cursor, credential, faults>>

\* insertComment, unless staff wrote the message in the chat; ON CONFLICT DO NOTHING.
Insert(w) ==
  /\ At(w, "insert")
  /\ comments' = IF work[w].chat # 0 /\ work[w].next \in Staff THEN comments
                 ELSE comments \cup {<<work[w].chat, work[w].next>>}
  /\ Deliver(w, work[w].next + 1, work[w].upto, work[w].from)
  /\ UNCHANGED <<platform, cursor, credential, faults>>

\* writeCursor: the row of the source is replaced, whoever wrote it.
WriteCursor(w) ==
  /\ At(w, "writeCursor")
  /\ cursor' = [chat |-> work[w].chat, token |-> work[w].upto, from |-> work[w].from,
                due |-> FALSE]
  /\ GoTo(w, "markPolled")
  /\ UNCHANGED <<platform, comments, credential, faults>>

\* markPolled; after the last source comes triage.  A refused token ends the task instead.
MarkPolled(w) ==
  /\ work[w].pc \in {"markPolled", "markFailed"}
  /\ Becomes(w, [Resting(work[w].client) EXCEPT !.todo = work[w].todo,
                   !.pc = IF work[w].denied THEN "recordError"
                          ELSE IF work[w].todo = {} THEN "triage" ELSE "source"])
  /\ UNCHANGED <<platform, comments, cursor, credential, faults>>

\* recordCredentialError: by the id of the row, which a reconnect keeps.
RecordError(w) ==
  /\ At(w, "recordError")
  /\ lastError' = TRUE
  /\ Becomes(w, Resting(work[w].client))
  /\ UNCHANGED <<platform, comments, cursor, grant, rejected, faults>>

\* Another round while the window is open, or the end of the task.
Triage(w) ==
  /\ At(w, "triage")
  /\ \/ Becomes(w, Resting(work[w].client))
     \/ Becomes(w, [work[w] EXCEPT !.pc = "source", !.todo = Kinds])
  /\ UNCHANGED <<platform, comments, cursor, credential, faults>>

\* A statement or a call throws.
Throw(w) ==
  /\ work[w].pc \in {"join", "readPage", "readVideo", "insert", "writeCursor", "clearCursor",
                     "markPolled"}
  /\ Fault
  /\ GoTo(w, "markFailed")
  /\ UNCHANGED <<platform, comments, cursor, credential>>

\* The process is replaced; its client goes with it.
Crash(w) ==
  /\ ~At(w, "idle")
  /\ Fault
  /\ Becomes(w, Resting(0))
  /\ UNCHANGED <<platform, comments, cursor, credential>>

Poll(w) ==
  \/ Begin(w) \/ NextSource(w) \/ RefreshFails(w) \/ Join(w) \/ ReadPage(w)
  \/ ChatGone(w) \/ ClearCursor(w) \/ ReadVideo(w) \/ Insert(w)
  \/ WriteCursor(w) \/ MarkPolled(w) \/ RecordError(w) \/ Triage(w)

Next ==
  \/ Broadcast \/ EndBroadcast \/ \E t \in Thread : Post(t)
  \/ Connect \/ RevokeGrant \/ PollAfter
  \/ \E w \in Worker : Poll(w) \/ Throw(w) \/ Crash(w)

Spec == Init /\ [][Next]_vars

----------------------------------------------------------------------------
(* What polling promises *)

\* Between the message at which a chat was joined and its stored cursor, every message of a
\* viewer is stored, whatever failed and whoever else polled: a page is read again rather
\* than skipped.
NoCommentSkipped ==
  \A i \in cursor.from + 1 .. cursor.token :
    i \notin Staff => <<cursor.chat, i>> \in comments
=============================================================================
