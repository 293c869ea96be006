\* The four signals Aria measures, each absent, at its minimum or at its maximum.
SPECIFICATION Spec
CONSTANTS
  Measured = {"velocity_burst", "content_novelty", "watchlist_match", "temporal_anomaly"}
  Normalized = {0, 10000}
INVARIANT
  ScoreWithinScale
CHECK_DEADLOCK FALSE
