------------------------------ MODULE Scoring ------------------------------
(***************************************************************************)
(* The anomaly score of one observation: scoreObservation and its          *)
(* counterfactuals (packages/core/src/scoring/engine.ts) over a profile of *)
(* weighted signals (signals.ts).                                          *)
(*                                                                         *)
(* Numbers are whole: weights in hundredths, normalized values and         *)
(* effective weights in ten-thousandths, contributions and scores in       *)
(* hundredths of a point.  What lies half way between two of them is       *)
(* rounded either way, as its binary form may be.  What a normalizer       *)
(* yields for a raw value is any member of Normalized; confidence, which   *)
(* takes a square root, is left out.                                       *)
(***************************************************************************)
EXTENDS Integers, FiniteSets, FiniteSetsExt

CONSTANTS
  Measured,      \* the signals an agent may measure
  Normalized     \* what normalizer.apply may yield, in 0..10000

VARIABLES
  observations,  \* byId: of each signal at most one, the last one given
  contribution,  \* points of each component
  score, band    \* the result; "none" before there is one

vars == <<observations, contribution, score, band>>

\* DEFAULT_SIGNALS
Weight == [velocity_burst |-> 15, content_novelty |-> 12, silent_edit |-> 20,
           source_divergence |-> 16, watchlist_match |-> 12, amplification_asymmetry |-> 10,
           sentiment_shift |-> 8, temporal_anomaly |-> 7]
Signal == DOMAIN Weight

\* An observation of a signal; enough: sampleSize >= minSampleSize, and raw is finite.
Reading == [normalized : Normalized, enough : BOOLEAN]
NoReading == [normalized |-> 0, enough |-> FALSE]

TypeOK ==
  /\ observations \in [Signal -> Reading \cup {NoReading}]
  /\ contribution \in [Signal -> 0..10000]
  /\ score \in Int
  /\ band \in {"none", "info", "notice", "elevated", "critical"}

Init ==
  /\ observations = [s \in Signal |-> NoReading]
  /\ contribution = [s \in Signal |-> 0]
  /\ score = 0
  /\ band = "none"

----------------------------------------------------------------------------
(* Rounding, and sums over signals *)

\* Math.round of a / b, half up.
Rounded(a, b) == (2 * a + b) \div (2 * b)
HalfWay(a, b) == (2 * a) % (2 * b) = b
Total(f, signals) == MapThenSumSet(LAMBDA s : f[s], signals)

Included == {s \in Signal : observations[s].enough}
WeightOf(signals) == Total(Weight, signals)

----------------------------------------------------------------------------
(* scoreObservation *)

\* A signal is measured, or measured again: the map keeps the last.
Observe ==
  /\ band = "none"
  /\ \E s \in Measured, r \in Reading : observations' = [observations EXCEPT ![s] = r]
  /\ UNCHANGED <<contribution, score, band>>

\* The values a / b may be rounded to.
Roundings(a, b) == {Rounded(a, b)} \cup IF HalfWay(a, b) THEN {Rounded(a, b) - 1} ELSE {}

\* Mutant: a missing signal counts as zero.
EffectiveOfAll(s) == Roundings(Weight[s] * 10000, WeightOf(Signal))

\* effectiveWeight: the share of the included weight.
Effective(s) == Roundings(Weight[s] * 10000, WeightOf(Included))

\* contribution: the points of a signal that is included, whose rounded weight is w; no more
\* than two values.
Points(s) == UNION {Roundings(observations[s].normalized * w, 10000) : w \in Effective(s)}

BandFor(n) ==
  IF n >= 7500 THEN "critical"
  ELSE IF n >= 5000 THEN "elevated"
  ELSE IF n >= 2500 THEN "notice"
  ELSE "info"

\* The contributions are rounded one by one, and the score is their sum.
Score ==
  /\ band = "none"
  /\ \E down \in SUBSET {s \in Included : Cardinality(Points(s)) > 1} :
       contribution' = [s \in Signal |->
         IF s \notin Included THEN 0 ELSE IF s \in down THEN Min(Points(s)) ELSE Max(Points(s))]
  /\ score' = Total(contribution', Signal)
  /\ band' = BandFor(score')
  /\ UNCHANGED observations

Next == Observe \/ Score

Spec == Init /\ [][Next]_vars

----------------------------------------------------------------------------
(* The counterfactuals *)

\* What was measured of each signal.
Values == [s \in Signal |-> observations[s].normalized]

\* What recomputeWithout and recomputeWith make of the kept signals: their mean, in which
\* n[s] is the normalized value of s.
Mean(kept, n) ==
  IF kept = {} THEN 0
  ELSE Rounded(Total([s \in kept |-> n[s] * Weight[s]], kept), WeightOf(kept))

\* recomputeWithout
ScoreIfRemoved(t) == Mean(Included \ {t}, Values)

\* recomputeWith the value 1
ScoreIfMaximal(t) == Mean(Included, [Values EXCEPT ![t] = 10000])

----------------------------------------------------------------------------
(* What the score promises *)

\* Two roundings of each included signal move the score by at most a hundredth.
Slack == Cardinality(Included)

\* The score is the weighted mean of the signals that were measured with enough samples, as
\* if the others were not in the profile.  The counterfactuals tell what each signal does:
\* without one above the score the score would not rise, without one below it would not
\* fall, and at its maximum no signal would lower it.  All up to the rounding.
ScoreExplained ==
  LET sum == Total([s \in Included |-> Values[s] * Weight[s]], Included)
      off == score * WeightOf(Included) - sum
  IN band # "none" =>
       /\ Included = {} => score = 0
       /\ off <= Slack * WeightOf(Included) /\ -off <= Slack * WeightOf(Included)
       /\ \A s \in Included :
            /\ ScoreIfMaximal(s) >= score - Slack
            /\ Included # {s} =>
                 LET n == observations[s].normalized IN
                 /\ n >= score + Slack => ScoreIfRemoved(s) <= score + Slack
                 /\ n <= score - Slack => ScoreIfRemoved(s) >= score - Slack

\* "the final 0..100 score" (engine.ts), and the CHECK of anomalies.score: a score is never
\* above 100.
ScoreWithinScale == score \in 0..10000
=============================================================================
