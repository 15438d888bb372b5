\* One process; one edit; no fault.
SPECIFICATION Spec
CONSTANTS
  Ticket = {t1, t2}
  Text = {x}
  Resolution = {r}
  None = None
  Trashed = Trashed
  Alike <- MCAlike
  Proc = {p}
  Slot = {s1, s2}
  MaxEdits = 1
  MaxFaults = 0
SYMMETRY Symmetry
INVARIANT SettledRowsAreCurrent
