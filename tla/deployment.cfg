\* Two secrets, two addresses, two thresholds, one tool; two changes and one fault.
SPECIFICATION CompleteFairSpec
CONSTANTS
  Secret = {k1, k2}
  Key = {a}
  Url = {u1, u2}
  Score = {1, 2}
  None = None
  MaxChanges = 2
  Api = api
  Tool = {tool}
  BridgeKey = a
  MaxFaults = 1
INVARIANTS
  TypeOK
  RaceIsLostOnce
  CompletedRunDelivers
  OldGateGoesWithMark
PROPERTIES
  ApiComesUpAgain
  RegistrationHeals
