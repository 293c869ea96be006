----------------------------- MODULE Collectors -----------------------------
(***************************************************************************)
(* The collecting agents: Aria reads feeds, Atlas re-reads pages, Sentinel *)
(* listens to a stream (services/agent-aria, agent-atlas and               *)
(* agent-sentinel, src/agent.ts).  Their tasks claim sources by shard,     *)
(* keep a baseline per source in agent_memory, and store observations and  *)
(* anomalies (packages/agent-runtime/src/store.ts, memory.ts).             *)
(*                                                                         *)
(* Each statement is one step; what a feed or a page contains, and what    *)
(* the scoring makes of it, is any value.                                  *)
(***************************************************************************)
EXTENDS Naturals, FiniteSets, Sequences

CONSTANTS
  Source, Content, NoContent,
  Owner,        \* sources.owner_agent
  Bucket,       \* abs(hashtext(id)), which the shards divide
  Task,
  Payload,      \* of a task: [agent, slot, slotCount, only]; only = {} is any source
  Feed,         \* what one reading of a feed or a stream may hold, in order
  MaxPolls,     \* bound: readings of feeds, pages and streams, in all
  MaxFaults     \* bound: failed statements and crashes, in all

\* Beast mode numbers the slots of a fan-out from 0; a task without them is slot 0 of 1.
SlotsNumbered ==
  \A t \in Task :
    Payload[t].slotCount \in Nat \ {0} /\ Payload[t].slot \in 0 .. Payload[t].slotCount - 1

VARIABLES
  observed,     \* observations, by collected_at: [source, content]
  flagged,      \* observations whose writer scored them above 'info' (Atlas: changed)
  anomalies,    \* how many anomalies each observation has
  memory,       \* agent_memory: how many samples a baseline or a histogram counts
  samples,      \* how many samples were taken of it
  due,          \* sources whose interval has passed since last_polled_at
  work,         \* where each task stands
  polls, faults

vars == <<observed, flagged, anomalies, memory, samples, due, work, polls, faults>>
store == <<observed, flagged, anomalies>>
remembered == <<memory, samples>>

Observation == [source : Source, content : Content]
Key == Source \X {"velocity", "hours", "wpm"}
Pc == {"idle", "fetch", "item", "read", "write", "latest", "save", "saveAnomaly", "publish",
       "markPolled", "markFailed"}
Idle == [pc |-> "idle", claimed |-> {}, todo |-> {}, items |-> <<>>, keys |-> <<>>, prior |-> 0,
         previous |-> NoContent, alarm |-> FALSE, stored |-> FALSE]

TypeOK ==
  /\ observed \in Seq(Observation)
  /\ flagged \subseteq Observation
  /\ anomalies \in [Observation -> Nat]
  /\ memory \in [Key -> Nat] /\ samples \in [Key -> Nat]
  /\ due \subseteq Source
  /\ \A t \in Task :
       /\ work[t].pc \in Pc
       /\ work[t].todo \subseteq work[t].claimed /\ work[t].claimed \subseteq Source
       /\ work[t].items \in Seq(Content)
       /\ work[t].previous \in Content \cup {NoContent}
       /\ work[t].alarm \in BOOLEAN /\ work[t].stored \in BOOLEAN
  /\ polls \in 0..MaxPolls /\ faults \in 0..MaxFaults

Init ==
  /\ observed = <<>>
  /\ flagged = {}
  /\ anomalies = [o \in Observation |-> 0]
  /\ memory = [k \in Key |-> 0]
  /\ samples = [k \in Key |-> 0]
  /\ due = Source
  /\ work = [t \in Task |-> Idle]
  /\ polls = 0
  /\ faults = 0

Agent(t) == Payload[t].agent
\* A task serves one source at a time; the least of todo stands for the head of its list.
Current(t) == CHOOSE s \in work[t].todo : TRUE
Item(t) == [source |-> Current(t), content |-> Head(work[t].items)]
Observed(o) == \E i \in DOMAIN observed : observed[i] = o

\* latestFingerprint: c is the newest stored copy of the page, or there is none.
Latest(s, c) ==
  \/ c = NoContent /\ \A i \in DOMAIN observed : observed[i].source # s
  \/ \E i \in DOMAIN observed :
       /\ observed[i] = [source |-> s, content |-> c]
       /\ \A j \in DOMAIN observed : observed[j].source = s => j <= i

----------------------------------------------------------------------------
(* Which sources a task works on *)

\* Mutant: a claim that leaves the shard out.
MineUnsharded(t, s) ==
  /\ Owner[s] = Agent(t)
  /\ Payload[t].only = {} \/ s \in Payload[t].only

\* The part of claimSources that does not change while the system runs.
Mine(t, s) ==
  /\ Owner[s] = Agent(t)
  /\ Payload[t].only = {} \/ s \in Payload[t].only
  /\ \/ Payload[t].slotCount = 1
     \/ Bucket[s] % Payload[t].slotCount = Payload[t].slot

At(t, pc) == work[t].pc = pc
Becomes(t, w) == work' = [work EXCEPT ![t] = w]
GoTo(t, pc) == Becomes(t, [work[t] EXCEPT !.pc = pc])

\* A sweep of todo, one of those that are claimed.
Sweep(claimed, todo) == [Idle EXCEPT !.pc = "fetch", !.claimed = claimed, !.todo = todo]

\* claimSources; Sentinel watches the first of them alone.
Claim(t) ==
  /\ At(t, "idle")
  /\ LET claimed == {s \in due : Mine(t, s)} IN
     \E todo \in IF Agent(t) = "sentinel" THEN {{s} : s \in claimed} ELSE {claimed} \ {{}} :
       Becomes(t, Sweep(todo, todo))
  /\ UNCHANGED <<store, remembered, due, polls, faults>>

Holding(t, items, pc) == [work[t] EXCEPT !.items = items, !.pc = pc]

\* fetchFeed, fetchPage or the segments of a stream.  A page without readable text is marked
\* as failed and left.
Fetch(t) ==
  /\ At(t, "fetch")
  /\ polls < MaxPolls
  /\ polls' = polls + 1
  /\ \/ Agent(t) # "atlas" /\ \E items \in Feed :
          Becomes(t, Holding(t, items, IF items = <<>> THEN "markPolled" ELSE "item"))
     \/ Agent(t) = "atlas" /\ \E c \in Content : Becomes(t, Holding(t, <<c>>, "latest"))
     \/ Agent(t) = "atlas" /\ GoTo(t, "markFailed")
  /\ UNCHANGED <<store, remembered, due, faults>>

----------------------------------------------------------------------------
(* Aria.ingest, the body of Atlas.handle, Sentinel.scoreSegment *)

NextItem(t) ==
  LET rest == Tail(work[t].items) IN
  Becomes(t, [work[t] EXCEPT !.items = rest, !.stored = FALSE, !.alarm = FALSE,
                             !.pc = IF rest = <<>> THEN "markPolled" ELSE "item"])

KeysOf(t) == IF Agent(t) = "aria" THEN <<"velocity", "hours">> ELSE <<"wpm">>

\* Only Aria asks observationExists before it measures anything.
StartItem(t) ==
  /\ At(t, "item")
  /\ IF Agent(t) = "aria" /\ Observed(Item(t))
     THEN NextItem(t)
     ELSE Becomes(t, [work[t] EXCEPT !.pc = "read", !.keys = KeysOf(t)])
  /\ UNCHANGED <<store, remembered, due, polls, faults>>

\* updateBaseline and the histogram of hours: a get and a put of the whole value.
ReadMemory(t) ==
  /\ At(t, "read")
  /\ Becomes(t, [work[t] EXCEPT !.pc = "write",
                                !.prior = memory[Current(t), Head(work[t].keys)]])
  /\ UNCHANGED <<store, remembered, due, polls, faults>>

WriteMemory(t) ==
  /\ At(t, "write")
  /\ LET k == <<Current(t), Head(work[t].keys)>>
         rest == Tail(work[t].keys)
     IN /\ memory' = [memory EXCEPT ![k] = work[t].prior + 1]
        /\ samples' = [samples EXCEPT ![k] = @ + 1]
        /\ Becomes(t, [work[t] EXCEPT !.keys = rest, !.prior = 0,
                                      !.pc = IF rest = <<>> THEN "save" ELSE "read"])
  /\ UNCHANGED <<store, due, polls, faults>>

\* Atlas reads the copy it compares the page with.
ComparedWith(t, c) == [work[t] EXCEPT !.pc = "save", !.previous = c]
ReadLatest(t) ==
  /\ At(t, "latest")
  /\ \E c \in Content \cup {NoContent} :
       Latest(Current(t), c) /\ Becomes(t, ComparedWith(t, c))
  /\ UNCHANGED <<store, remembered, due, polls, faults>>

\* What scoreObservation may say; Atlas flags a page that is no longer what it was.
Verdict(t) ==
  IF Agent(t) = "atlas"
  THEN {work[t].previous \notin {NoContent, Head(work[t].items)}}
  ELSE BOOLEAN

\* Mutant: ON CONFLICT DO UPDATE ... RETURNING id.
SaveObservationUpsert(t) ==
  /\ At(t, "save")
  /\ \E alarm \in Verdict(t) :
       /\ IF Observed(Item(t))
          THEN UNCHANGED <<observed, flagged>>
          ELSE /\ observed' = Append(observed, Item(t))
               /\ flagged' = IF alarm THEN flagged \cup {Item(t)} ELSE flagged
       /\ Becomes(t, [work[t] EXCEPT !.alarm = alarm, !.stored = TRUE,
                                     !.pc = IF alarm THEN "saveAnomaly" ELSE "publish"])
  /\ UNCHANGED <<anomalies, remembered, due, polls, faults>>

Judged(t, alarm, fresh) ==
  [work[t] EXCEPT !.alarm = alarm, !.stored = fresh,
     !.pc = IF alarm /\ (fresh \/ Agent(t) # "sentinel") THEN "saveAnomaly" ELSE "publish"]

\* saveObservation: a conflict on (source_id, content_hash) returns no id.  Sentinel then
\* leaves the anomaly out; the others go on to save it.
SaveObservation(t) ==
  /\ At(t, "save")
  /\ \E alarm \in Verdict(t) :
       LET fresh == ~Observed(Item(t)) IN
       /\ IF fresh
          THEN /\ observed' = Append(observed, Item(t))
               /\ flagged' = IF alarm THEN flagged \cup {Item(t)} ELSE flagged
          ELSE UNCHANGED <<observed, flagged>>
       /\ Becomes(t, Judged(t, alarm, fresh))
  /\ UNCHANGED <<anomalies, remembered, due, polls, faults>>

\* saveAnomaly; without an observation to name the insert fails, and with it the source.
SaveAnomaly(t) ==
  /\ At(t, "saveAnomaly")
  /\ IF work[t].stored
     THEN anomalies' = [anomalies EXCEPT ![Item(t)] = @ + 1] /\ GoTo(t, "publish")
     ELSE UNCHANGED anomalies /\ GoTo(t, "markFailed")
  /\ UNCHANGED <<observed, flagged, remembered, due, polls, faults>>

\* anomaly.detected and observation.collected.
Publish(t) ==
  /\ At(t, "publish")
  /\ NextItem(t)
  /\ UNCHANGED <<store, remembered, due, polls, faults>>

----------------------------------------------------------------------------
(* Marking, sweeping again, failing *)

\* markPolled, with or without an error; then the next source, another sweep of all that was
\* claimed while the run's window is open, or the end of the task.
MarkPolled(t) ==
  /\ work[t].pc \in {"markPolled", "markFailed"}
  /\ due' = due \ {Current(t)}
  /\ LET rest == work[t].todo \ {Current(t)} IN
     \/ rest # {} /\ Becomes(t, Sweep(work[t].claimed, rest))
     \/ rest = {} /\ Becomes(t, Idle)
     \/ rest = {} /\ Agent(t) # "sentinel" /\ Becomes(t, Sweep(work[t].claimed, work[t].claimed))
  /\ UNCHANGED <<store, remembered, polls, faults>>

\* The interval of a source passes.
IntervalPasses(s) ==
  /\ s \notin due
  /\ due' = due \cup {s}
  /\ UNCHANGED <<store, remembered, work, polls, faults>>

\* A statement throws: what is left of the reading is dropped and the source marked.
Throw(t) ==
  /\ work[t].pc \notin {"idle", "markFailed"}
  /\ faults < MaxFaults
  /\ faults' = faults + 1
  /\ GoTo(t, "markFailed")
  /\ UNCHANGED <<store, remembered, due, polls>>

\* The process dies, or the mark of a failure fails: the queue delivers the task again.
Crash(t) ==
  /\ ~At(t, "idle")
  /\ faults < MaxFaults
  /\ faults' = faults + 1
  /\ Becomes(t, Idle)
  /\ UNCHANGED <<store, remembered, due, polls>>

Collect(t) ==
  \/ Claim(t) \/ Fetch(t) \/ StartItem(t) \/ ReadMemory(t) \/ WriteMemory(t) \/ ReadLatest(t)
  \/ SaveObservation(t) \/ SaveAnomaly(t) \/ Publish(t) \/ MarkPolled(t)

Next ==
  \/ \E t \in Task : Collect(t) \/ Throw(t) \/ Crash(t)
  \/ \E s \in Source : IntervalPasses(s)

Spec == Init /\ [][Next]_vars

----------------------------------------------------------------------------
(* What the collectors promise *)

\* Whatever was flagged when it was stored has exactly one anomaly, or its task is about to
\* save it; each one that is lost for good is lost to a failure of its own.  Retries and
\* tasks that read the same feed add no second one.
FlaggedIsReported ==
  LET coming == {Item(t) : t \in {u \in Task : At(u, "saveAnomaly") /\ work[u].stored}} IN
  /\ \A o \in Observation : anomalies[o] <= IF o \in flagged THEN 1 ELSE 0
  /\ Cardinality({o \in flagged : anomalies[o] = 0} \ coming) <= faults

\* A source that one fan-out works on - tasks with one slotCount and a slot each, as Beast
\* mode sends them - keeps a baseline of all its samples.  (Of a source that tasks of two
\* fan-outs share an update may be lost: a get and a put are two statements.)
OneFanOut(s) ==
  LET for(t) == Agent(t) = Owner[s] /\ (Payload[t].only = {} \/ s \in Payload[t].only) IN
  \A t, u \in {v \in Task : for(v)} :
    t # u => Payload[t].slotCount = Payload[u].slotCount /\ Payload[t].slot # Payload[u].slot
SamplesCounted ==
  \A s \in Source : OneFanOut(s) => \A k \in Key : k[1] = s => memory[k] = samples[k]
=============================================================================
