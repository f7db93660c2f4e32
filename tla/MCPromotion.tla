---------------------------- MODULE MCPromotion ----------------------------
(***************************************************************************)
(* Instances of Promotion for TLC: one target for JSON session artifacts,  *)
(* and packets whose decisions name its sink, another sink and none.       *)
(***************************************************************************)
EXTENDS Promotion, TLC

CONSTANTS q1, q2, json, json2, event, blocked, foreign, slot

MCDecidedSink(c) ==
    CASE c = blocked -> "none"
      [] c = event -> "buzz_event"
      [] OTHER -> "session_artifact_v1"

MCFileOf(t) == t
MCSinkOf(t) == "session_artifact_v1"

ASSUME MCTargets == OneTargetPerFile

PromoterSymmetry == Permutations(Promoters)
=============================================================================
