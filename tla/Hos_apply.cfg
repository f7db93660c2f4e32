SPECIFICATION Spec
CONSTANTS
  p1 = p1
  p2 = p2
  d = d
  x = x
  old = old
  new = new
  Absent = Absent
  Dir = Dir
  NoPreview = NoPreview
  Appliers = {p1, p2}
  Paths = {d, x}
  Above <- MCAbove
  Contents = {old, new}
  Desired <- MCDesired
  MaxDrift = 1
  MaxPreviews = 1
SYMMETRY ApplierSymmetry
INVARIANTS TypeOK ReceiptExact RollbackExact
PROPERTIES ImplementsTransaction
