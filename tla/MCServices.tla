----------------------------- MODULE MCServices ----------------------------
(***************************************************************************)
(* Services on small instances: four settings of the collectors, two of    *)
(* Warden, two deploys of different versions.                              *)
(***************************************************************************)
EXTENDS Services, TLC

CONSTANTS n1, n2, n3, ghost, w1, w2, t1, t2, s1, s2, c1, c2, q1, q2, r1, r2, o1, o2

\* Two shards of Aria over two sources, and two tasks for the same source: of Aria, Atlas
\* and Sentinel.
Feeds == {<<c1>>, <<c1, c2>>}
Buckets == s1 :> 0 @@ s2 :> 1
Agents == "sharded" :> "aria" @@ [a \in {"aria", "atlas", "sentinel"} |-> a]
Tasks(agent, slots, only) ==
  t1 :> [agent |-> agent, slot |-> 0, slotCount |-> slots, only |-> only]
  @@ t2 :> [agent |-> agent, slot |-> slots - 1, slotCount |-> slots, only |-> only]
Payloads ==
  "sharded" :> Tasks("aria", 2, {}) @@ [a \in {"aria", "atlas", "sentinel"} |-> Tasks(a, 1, {s1})]
Polls == [p \in DOMAIN Agents |-> IF p = "atlas" THEN 3 ELSE 2]

\* Two processes that poll one live chat; one that polls a chat and a video, and the channel
\* may be connected again.
Wardens == [chat |-> {w1, w2}, sources |-> {w1}]
Kinds == [chat |-> {"chat"}, sources |-> {"chat", "video"}]
Grants == [chat |-> 1, sources |-> 2]

\* The second deploy edits file 2 and adds file 3.
Version(checksums) == [k \in DOMAIN checksums |-> [file |-> k, checksum |-> checksums[k]]]
Versions == r1 :> Version(<<"first", "first">>) @@ r2 :> Version(<<"first", "edited", "first">>)

\* A claim may name a role there is none of.
ClaimLists == {<<"operator">>, <<"owner", "viewer">>, <<"analyst", "intern">>}

\* The signals of Aria, and one more for the half-way cases.
Signals ==
  {"velocity_burst", "content_novelty", "watchlist_match", "temporal_anomaly",
   "amplification_asymmetry"}
=============================================================================
