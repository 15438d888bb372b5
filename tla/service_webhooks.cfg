\* One process, one text and one resolution; two edits; no fault, no reader that must come.
SPECIFICATION ProgressFromNew
CONSTANTS
  Ticket = {t1, t2}
  Text = {x}
  Resolution = {r}
  None = None
  Trashed = Trashed
  Alike <- MCAlike
  Proc = {p}
  Slot = {s1, s2}
  MaxEdits = 2
  MaxFaults = 0

PROPERTIES
  PopulatedOnCreate
  IndexConverges
