SPECIFICATION Spec
CONSTANTS
  q1 = q1
  q2 = q2
  json = json
  json2 = json2
  event = event
  blocked = blocked
  foreign = foreign
  slot = slot
  Absent = Absent
  Free = Free
  Stale = Stale
  Promoters = {q1, q2}
  Captures = {json, json2, event, blocked}
  Contents = {json, json2, event, blocked, foreign}
  Targets = {slot}
  MaxFence = 3
  DecidedSink <- MCDecidedSink
  FileOf <- MCFileOf
  SinkOf <- MCSinkOf
SYMMETRY PromoterSymmetry
INVARIANTS TypeOK CommittedStays
PROPERTIES NewestFenceWrites EvidenceFirst FailedLeavesTarget ImplementsTarget
