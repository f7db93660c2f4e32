SPECIFICATION Spec
CONSTANTS
  m1 = m1
  m2 = m2
  s1 = s1
  json = json
  buzz = buzz
  ledger = ledger
  NoWriter = NoWriter
  Dead = Dead
  Unset = Unset
  Elsewhere = Elsewhere
  Writers = {m1, m2}
  Sessions = {s1}
  Targets = {json, buzz, ledger}
  SinkOf <- MCSinkOf
  MaxTime = 1
  MaxRevision = 2
  MaxDecisions = 2
SYMMETRY WriterSymmetry
CHECK_DEADLOCK FALSE
INVARIANTS TypeOK SessionKeepsSink SinkFitsStart
PROPERTIES CutoverOneWay NoLostAdvance
