\* One process, two tickets, one text and two resolutions; two edits and one fault.
SPECIFICATION Spec
CONSTANTS
  Ticket = {t1, t2}
  Text = {x}
  Resolution = {r1, r2}
  None = None
  Trashed = Trashed
  Alike <- MCAlike
  Proc = {p}
  Slot = {s1, s2}
  MaxEdits = 2
  MaxFaults = 1
SYMMETRY Symmetry
INVARIANTS
  TypeOK
  InFlightExact
  IndexTracksHelpdesk
  FlagExact
PROPERTY IndexMirrorsHelpdesk
