---------------------------- MODULE MCLifecycle ----------------------------
(***************************************************************************)
(* Instances of Lifecycle for TLC.                                         *)
(***************************************************************************)
EXTENDS Lifecycle, TLC

CONSTANTS m1, m2, s1, json, buzz, ledger

\* One target for each sink.
MCSinkOf(f) ==
    CASE f = json -> "session_artifact_v1"
      [] f = buzz -> "buzz_event"
      [] f = ledger -> "noncanonical_fallback_ledger"

WriterSymmetry == Permutations(Writers)
=============================================================================
