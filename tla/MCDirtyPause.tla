---------------------------- MODULE MCDirtyPause ---------------------------
(***************************************************************************)
(* Instances of DirtyPause for TLC: a tracked file and an untracked one.   *)
(***************************************************************************)
EXTENDS DirtyPause, TLC

CONSTANTS p1, p2, code, notes

PauserSymmetry == Permutations(Pausers)
=============================================================================
