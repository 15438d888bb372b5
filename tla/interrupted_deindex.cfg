\* One process; one edit and one fault.
SPECIFICATION Spec
CONSTANTS
  Ticket = {t1, t2}
  Text = {x}
  Resolution = {r}
  None = None
  Trashed = Trashed
  Alike <- MCAlike
  Proc = {p}
  Slot = {s1, s2}
  MaxEdits = 1
  MaxFaults = 1
SYMMETRY Symmetry
INVARIANT IndexAndFlagAgree
