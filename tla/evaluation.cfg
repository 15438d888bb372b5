\* Of the VPN cluster a member and the paraphrase, a member of the second cluster,
\* the near-miss of the first, a demo query; room for one ticket
\* of an unfinished run.  When everything is seeded and reported, nothing is left to do.
SPECIFICATION Spec
CONSTANTS
  None = None
  Picked = {1, 5, 6, 57, 68}
  MaxTickets = 6
  Partial = Partial
  Elsewhere = {7}
  Score = {1, 2, 3}
  MatchThreshold = 2
INVARIANTS
  TypeOK
  ManifestIsComplete
  OnlyLeftoversMislabeled
  LeakageIsTrue
  ThresholdIsBest
CHECK_DEADLOCK FALSE
