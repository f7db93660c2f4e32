------------------------- MODULE MCSessionRegistry -------------------------
(***************************************************************************)
(* Instances of SessionRegistry for TLC.                                   *)
(***************************************************************************)
EXTENDS SessionRegistry, TLC

CONSTANTS p1, p2, s1, s2, s3, a1, a2, t1, t2, w1, w2, repo, tracker

Exclusive(k) == [key |-> k, access |-> "exclusive"]
Shared(k) == [key |-> k, access |-> "shared-read"]

Feature(s, a, t, w, R) ==
    [sid |-> s, agent |-> a, token |-> t, mode |-> "feature", path |-> w,
     resources |-> R, state |-> "working", dirty |-> FALSE, faults |-> {}]

Primary == [Feature(s1, a1, t1, w1, {Exclusive(repo)}) EXCEPT !.mode = "micro"]
SameRepo == Feature(s2, a2, t2, w2, {Exclusive(repo)})
SamePath == Feature(s3, a2, t1, w1, {Shared(tracker)})
Reader == Feature(s2, a2, t2, w2, {Shared(repo), Shared(tracker)})
\* Refused by the contract, though their shape is right.
TwiceWanted == Feature(s1, a2, t2, w2, {Exclusive(repo), Shared(repo)})
LateProcess ==
    [Feature(s2, a1, t1, w2, {Shared(tracker)}) EXCEPT !.faults = {"process.started-after-lease"}]
DirtyPause ==
    [Feature(s1, a1, t1, w1, {Exclusive(repo)}) EXCEPT !.state = "paused", !.dirty = TRUE]

\* One wants the repository exclusively, the other only to read it; what else is
\* proposed only the contract refuses.
WriterAndReader == {Primary, Reader, TwiceWanted, LateProcess}
\* Two sessions of one repository, the second with its owner on another host.
Apart == {Primary, SameRepo}
\* Two sessions of one worktree; either may be opened again under its id.  (They
\* have one token: what a wrong one does is seen with the other proposals.)
SharedPath == {Primary, SamePath}
Pausing == {DirtyPause, SameRepo}

DirectOperations == {"inspect", "claim", "heartbeat", "release"}
\* Work sessions: every mutation inspects first; the file may be spoilt.
WorkSessionOperations == {"evaluate", "open", "close", "damage"}
\* Proposing only: no holder is left to release what it owns.
ProposingOperations == {"inspect", "claim"}

CallerSymmetry == Permutations(Callers)
=============================================================================
