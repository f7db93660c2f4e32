----------------------------- MODULE Contracts -----------------------------
(***************************************************************************)
(* johan_sdd.contracts: what validate_semantics reports of a document of   *)
(* the right shape, as the set of its error codes.  The components whose   *)
(* documents they judge use these operators as an oracle that was written  *)
(* apart from the code that builds the documents.                          *)
(*                                                                         *)
(* Abstractions.  Positions and messages are left out.  A path is a member *)
(* of a set, and what is wrong with one is told apart by nobody here.      *)
(***************************************************************************)
EXTENDS Naturals, Sequences

CONSTANT Portable(_) \* the path is relative, normalized and in POSIX form

Error(wrong, code) == {c \in {code} : wrong}

PathErrors(paths) == Error(\E q \in paths : ~Portable(q), "path")

OperationErrors(ops) ==
    PathErrors({ops[i].path : i \in DOMAIN ops})
    \cup Error(\E i, j \in DOMAIN ops : i # j /\ ops[i].path = ops[j].path, "operation.duplicate-path")
    \cup Error(\E i \in DOMAIN ops : ops[i].action = "remove" /\ "content" \in DOMAIN ops[i],
               "operation.remove-has-content")

ResultOf == [create |-> "created", replace |-> "replaced", remove |-> "removed"]

\* A readback lists the operations of the receipt, each with its result.
ReadbackErrors(ops, readback) ==
    IF [i \in DOMAIN ops |-> ops[i].path] # [i \in DOMAIN readback |-> readback[i].path]
    THEN {"apply.operation-mismatch"}
    ELSE Error(\E i \in DOMAIN ops : readback[i].result # ResultOf[ops[i].action], "apply.result-mismatch")
         \cup Error(\E i \in DOMAIN ops : "content" \in DOMAIN ops[i] /\ readback[i].content # ops[i].content,
                    "apply.content-mismatch")

ApplyReceiptErrors(ops, readback) == OperationErrors(ops) \cup ReadbackErrors(ops, readback)

\* The hashes of a payload are records of its three components.
RollbackReceiptErrors(receipt) ==
    LET pre == receipt.pre_update
        post == receipt.post_rollback
        Matches(c) ==
            /\ receipt.components[c] = [expected |-> pre[c], observed |-> post[c], status |-> "matched"]
            /\ pre[c] = post[c]
    IN IF receipt.terminal_status # "rolled_back" THEN {}
       ELSE Error(pre # post, "rollback.snapshot-mismatch")
            \cup Error(\E c \in DOMAIN receipt.components : ~Matches(c), "rollback.readback-mismatch")

HumanDecisionErrors(receipt) ==
    Error(receipt.confirmed > receipt.recorded, "decision.confirmed-after-recorded")

EventArtifact ==
    [slice |-> "slice-manifest", pause |-> "session-capture", handoff |-> "handoff-manifest",
     close |-> "closeout-receipt", update |-> "update-manifest", rollback |-> "rollback-receipt"]

EvidenceErrors(packet) ==
    Error(EventArtifact[packet.event] \notin packet.kinds, "evidence.missing-event-artifact")
    \cup PathErrors(packet.paths)
    \cup Error(packet.event # "pause" /\ packet.base = packet.final, "evidence.unchanged-final-sha")

\* The actors are compared before anything is recorded.
PromotionErrors(d) ==
    Error(d.sink = "none" /\ d.next # d.preimage, "promotion.blocked-changes-target")
    \cup Error(d.phase = "committed" /\ d.readback # d.next, "promotion.readback-mismatch")
=============================================================================
