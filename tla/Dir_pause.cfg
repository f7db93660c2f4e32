SPECIFICATION Spec
CONSTANTS
  p1 = p1
  p2 = p2
  code = code
  notes = notes
  NoCommit = NoCommit
  Pausers = {p1, p2}
  Files = {code, notes}
  Tracked = {code}
  MaxEdits = 2
SYMMETRY PauserSymmetry
INVARIANTS TypeOK RecoveryReachable OneRecovery StandingSecretsStop
