\* Three tickets in pages of one; one edit.
SPECIFICATION Spec
CONSTANTS
  Ticket = {t1, t2, t3}
  Text = {x}
  Resolution = {r1, r2}
  None = None
  Trashed = Trashed
  Alike = {}
  PageSize = 1
  MaxEdits = 1
INVARIANT WalksEveryReusable
