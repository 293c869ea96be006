--------------------------- MODULE StreamSession ---------------------------
(***************************************************************************)
(* One watch of a live stream: StreamSession.segments                      *)
(* (services/agent-sentinel/src/stream.ts) connects, cuts the audio into   *)
(* segments, stores each before it is transcribed, and reconnects with a   *)
(* growing delay until the window closes or eight attempts failed in a     *)
(* row; Sentinel.handle (agent.ts) consumes the segments.                  *)
(* Delays are rounded to units of the clock; the stream, the bucket and    *)
(* the transcriber are external.                                           *)
(***************************************************************************)
EXTENDS Naturals

CONSTANTS
  WatchUntil,      \* when the window closes
  Target,          \* chunks of audio in a segment (targetBytes)
  GiveUpAfter,     \* 8 failures in a row
  MaxBackoff,      \* the longest delay
  MaxChunks,       \* bound: chunks the stream delivers
  MaxDrops         \* bound: answered connections that end

VARIABLES
  now,
  session,         \* [pc, failures, wakeAt]
  buffered,        \* chunks in buffer
  received,        \* chunks ever received
  stored, unstored,   \* segments uploaded, and segments whose upload failed
  dropped          \* answered connections that ended

vars == <<now, session, buffered, received, stored, unstored, dropped>>
audio == <<buffered, received, stored, unstored, dropped>>

Pc == {"connect", "read", "persist", "yield", "backoff", "closed"}

TypeOK ==
  /\ now \in 0..WatchUntil + MaxBackoff
  /\ session \in [pc : Pc, failures : 0..GiveUpAfter, wakeAt : 0..WatchUntil + MaxBackoff]
  /\ buffered \in 0..Target
  /\ received \in 0..MaxChunks /\ stored \in Nat /\ unstored \in Nat /\ dropped \in 0..MaxDrops + 1

Init ==
  /\ now = 0
  /\ session = [pc |-> "connect", failures |-> 0, wakeAt |-> 0]
  /\ buffered = 0 /\ received = 0 /\ stored = 0 /\ unstored = 0 /\ dropped = 0

At(pc) == session.pc = pc
GoTo(pc) == session' = [session EXCEPT !.pc = pc]
Closing == now >= WatchUntil

Tick ==
  /\ now < WatchUntil + MaxBackoff
  /\ now' = now + 1
  /\ UNCHANGED <<session, audio>>

----------------------------------------------------------------------------
(* StreamSession.segments *)

\* A connection is answered: the failures start over.
Answered ==
  /\ At("connect") /\ ~Closing
  /\ session' = [session EXCEPT !.pc = "read", !.failures = 0]
  /\ UNCHANGED <<now, audio>>

\* Mutant: the loop does not look at the window.
LoopEndsNever == At("connect") /\ Closing /\ UNCHANGED vars

\* The condition of the loop.
LoopEnds ==
  /\ At("connect") /\ Closing
  /\ GoTo("closed")
  /\ UNCHANGED <<now, audio>>

Least(a, b) == IF a < b THEN a ELSE b

\* catch: closed by the timer, given up, or another attempt after a while.
Caught ==
  LET failures == session.failures + 1 IN
  session' = IF Closing \/ failures >= GiveUpAfter
             THEN [session EXCEPT !.pc = "closed",
                                  !.failures = IF Closing THEN session.failures ELSE failures]
             ELSE [pc |-> "backoff", failures |-> failures,
                   wakeAt |-> now + Least(MaxBackoff, 2 ^ failures)]

Refused ==
  /\ At("connect") /\ ~Closing
  /\ Caught
  /\ UNCHANGED <<now, audio>>

WakeUp ==
  /\ At("backoff") /\ now >= session.wakeAt
  /\ GoTo("connect")
  /\ UNCHANGED <<now, audio>>

\* Mutant: the buffer is emptied when it is full, before it is copied.
ChunkLost ==
  /\ At("read") /\ ~Closing /\ received < MaxChunks
  /\ received' = received + 1
  /\ buffered' = (buffered + 1) % Target
  /\ UNCHANGED <<now, session, stored, unstored, dropped>>

\* A chunk arrives and may complete a segment.
Chunk ==
  /\ At("read") /\ ~Closing /\ received < MaxChunks
  /\ received' = received + 1
  /\ buffered' = buffered + 1
  /\ IF buffered' = Target THEN GoTo("persist") ELSE UNCHANGED session
  /\ UNCHANGED <<now, stored, unstored, dropped>>

\* persist: a failed upload is logged, and the segment goes on without its audio.
Persist ==
  /\ At("persist")
  /\ buffered' = 0
  /\ \/ stored' = stored + 1 /\ UNCHANGED unstored
     \/ unstored' = unstored + 1 /\ UNCHANGED stored
  /\ GoTo("yield")
  /\ UNCHANGED <<now, received, dropped>>

\* The transcript, if there is any text, is scored by Sentinel.handle; if that throws, it
\* closes the session.
Yield ==
  /\ At("yield")
  /\ GoTo("read") \/ GoTo("closed")
  /\ UNCHANGED <<now, audio>>

\* The body ends, or the window does (a chunk comes too late, or the timer aborts the read):
\* back to the condition of the loop, without a delay; the buffer was the connection's.
EndOfBody ==
  /\ At("read") /\ (Closing \/ dropped < MaxDrops)
  /\ dropped' = dropped + 1
  /\ buffered' = 0
  /\ GoTo("connect")
  /\ UNCHANGED <<now, received, stored, unstored>>

\* The connection breaks.
Broken ==
  /\ At("read") /\ ~Closing /\ dropped < MaxDrops
  /\ Caught
  /\ dropped' = dropped + 1
  /\ buffered' = 0
  /\ UNCHANGED <<now, received, stored, unstored>>

Step ==
  \/ Answered \/ LoopEnds \/ Refused \/ WakeUp \/ Chunk \/ Persist \/ Yield \/ EndOfBody
  \/ Broken

Next == Tick \/ Step

Spec == Init /\ [][Next]_vars

----------------------------------------------------------------------------
(* What a session promises *)

\* All audio that was received is in a stored segment, in one whose upload failed, or in the
\* buffer; a connection that ends takes less than one segment with it.
AudioAccounted ==
  LET kept == Target * (stored + unstored) + buffered IN
  /\ kept <= received
  /\ received - kept <= (Target - 1) * dropped

\* However the stream behaves, a watch ends: a delay is over before the clock stops at the
\* window and the longest delay.
SessionEnds == <>At("closed")
=============================================================================
