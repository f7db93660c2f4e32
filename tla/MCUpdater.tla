----------------------------- MODULE MCUpdater -----------------------------
(***************************************************************************)
(* Instances of Updater for TLC: two files under content/, the pins, the   *)
(* manifest and one file that the updater does not govern.                 *)
(***************************************************************************)
EXTENDS Updater, TLC

CONSTANTS u1, c1, c2, notes, old, new

\* The candidate has fewer files than some targets and other files than some.
MCCandidates == {f \in Payload : Present(f) = Governed \ {c2} /\ \A e \in Present(f) : f[e] = new}
=============================================================================
