\* One process, two texts and one resolution; one edit and one fault; agents keep reading.
SPECIFICATION ReadingFromQuery
CONSTANTS
  Ticket = {t1, t2}
  Text = {x1, x2}
  Resolution = {r}
  None = None
  Trashed = Trashed
  Alike <- MCAlike
  Proc = {p}
  Slot = {s1, s2}
  MaxEdits = 1
  MaxFaults = 1

PROPERTIES
  StaleRowHeals
  InFlightReleased
