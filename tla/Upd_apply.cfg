SPECIFICATION Spec
CONSTANTS
  u1 = u1
  c1 = c1
  c2 = c2
  notes = notes
  old = old
  new = new
  Pins = Pins
  Manifest = Manifest
  Absent = Absent
  NoPreview = NoPreview
  Updaters = {u1}
  Content = {c1, c2}
  Others = {notes}
  Versions = {old, new}
  Candidates <- MCCandidates
  MaxDrift = 1
  MaxPreviews = 1
CHECK_DEADLOCK FALSE
INVARIANTS TypeOK RolledBackExact
PROPERTIES ImplementsTransaction
