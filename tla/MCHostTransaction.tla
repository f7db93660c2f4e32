------------------------- MODULE MCHostTransaction -------------------------
(***************************************************************************)
(* Instances of HostTransaction for TLC: a path d that is a file, or a     *)
(* directory that may hold x.                                              *)
(***************************************************************************)
EXTENDS HostTransaction, TLC

CONSTANTS p1, p2, d, x, old, new

MCAbove == [q \in Paths |-> IF q = x THEN {d} ELSE {}]

CreateFile(q) == [action |-> "create", path |-> q, content |-> new]
RemoveFile(q) == [action |-> "remove", path |-> q]

\* A file makes way for a directory and what it holds.
MCDesired == {<<RemoveFile(d), CreateFile(x)>>}

ApplierSymmetry == Permutations(Appliers)
=============================================================================
