\* Two addresses; one change; no fault.  Without a secret and with a fresh row nothing is left to do.
SPECIFICATION CompleteSpec
CONSTANTS
  Secret = {k1}
  Key = {a}
  Url = {u1, u2}
  Score = {1}
  None = None
  MaxChanges = 1
  Api = api
  Tool = {}
  BridgeKey = a
  MaxFaults = 0
INVARIANT RerunLeavesNoStale
CHECK_DEADLOCK FALSE
