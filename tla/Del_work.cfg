SPECIFICATION MCSpec
CONSTANTS
  FileCounts <- MCFileCounts
  LineCounts <- MCLineCounts
  Kinds = {"modify", "delete"}
  Surfaces = {"documentation", "code"}
  HardTriggers = {"security-or-identity"}
  Triggers = {"security-or-identity", "wording"}
  Time = {0, 1}
  Events = {"slice", "pause", "close"}
  ArtifactKinds = {"slice-manifest", "session-capture", "closeout-receipt"}
  ChangedPaths = {"a.py", "../up.py"}
  PortablePath <- MCPortable
  MaxCommits = 1
  NoReceipt = NoReceipt
  NoPacket = NoPacket
INVARIANTS TypeOK AnswersMeetCharter PacketsMeetContract
PROPERTIES LaneNeverEases
