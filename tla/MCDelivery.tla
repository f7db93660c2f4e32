----------------------------- MODULE MCDelivery -----------------------------
(***************************************************************************)
(* Delivery and Evidence for TLC, side by side.  They share no state, so   *)
(* that interleaving them adds nothing to either: evidence is gathered     *)
(* only while the work is as it was first measured, which keeps the        *)
(* product of their states small.                                          *)
(***************************************************************************)
EXTENDS Delivery, Evidence

MCFileCounts == {3, 4}
MCLineCounts == {-1, 25, 26}
MCPortable(path) == path # "../up.py"

MCInit == Init /\ EvidenceInit

AsFirstMeasured ==
    /\ facts.kinds = {} /\ facts.surfaces = {}
    /\ facts.files = 3 /\ facts.additions = 25 /\ facts.deletions = 25
    /\ triggers = {} /\ answer = Nothing

MCNext ==
    \/ Next /\ packet = NoPacket /\ artifacts = {} /\ head = 0 /\ UNCHANGED evidenceVars
    \/ AsFirstMeasured /\ EvidenceNext /\ UNCHANGED vars

MCSpec == MCInit /\ [][MCNext]_<<vars, evidenceVars>>
=============================================================================
