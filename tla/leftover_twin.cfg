\* A member and the paraphrase of one cluster; room for a ticket of an unfinished run.
SPECIFICATION Spec
CONSTANTS
  None = None
  Partial = Partial
  Picked = {1, 5}
  MaxTickets = 3
  Elsewhere = {}
  Score = {1}
  MatchThreshold = 1
INVARIANT LabelsAreTrue
CHECK_DEADLOCK FALSE
