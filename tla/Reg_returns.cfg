SPECIFICATION FairSpec
CONSTANTS
  p1 = p1
  p2 = p2
  s1 = s1
  s2 = s2
  s3 = s3
  a1 = a1
  a2 = a2
  t1 = t1
  t2 = t2
  w1 = w1
  w2 = w2
  repo = repo
  tracker = tracker
  NoCaller = NoCaller
  Callers = {p1, p2}
  Sessions = {s1, s2}
  Agents = {a1, a2}
  Remote = {a2}
  Tokens = {t1, t2}
  Paths = {w1, w2}
  Keys = {repo, tracker}
  Proposals <- Apart
  Operations <- DirectOperations
  Ttl = 1
  MaxTime = 2
  MaxRevision = 2
PROPERTIES AbandonedOnlyWithProof EveryCallReturns LockComesFree
