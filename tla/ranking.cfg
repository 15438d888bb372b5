\* Five tickets, a pool of four, a cut to two: pool and cut both bind.
SPECIFICATION Spec
CONSTANTS
  Ticket = {t1, t2, t3, t4, t5}
  Score = {0, 1, 2}
  QueryTicket = t1
  PoolSize = 4
  MaxMatches = 2
  MatchThreshold = 1
SYMMETRY Symmetry
INVARIANTS
  TypeOK
  MatchesAreBest
  AgreesWithMatchesOf
PROPERTY NewcomerOnlyDisplaces
