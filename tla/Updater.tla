------------------------------ MODULE Updater ------------------------------
(***************************************************************************)
(* johan_sdd.updater: preview_update binds a candidate to what it read of  *)
(* a target, and apply_update writes it there, reads it back, and puts the *)
(* whole target back from a snapshot when that fails.                      *)
(*                                                                         *)
(* Every read and write may fail, a call may be killed at any step, and    *)
(* nothing locks the target: others write to it between any two steps.     *)
(* disturbed[u] says that somebody did since u read the target, or began   *)
(* to refill it.                                                           *)
(*                                                                         *)
(* Abstractions.  A reading of the target is taken at one instant, and     *)
(* directories are left out: that a candidate does not fit into its        *)
(* directories is one way for a write to fail.  What is rejected before    *)
(* the target is read (unknown, dirty, another target, a tampered preview) *)
(* and the pins, canaries and authority fields of the preview are left out.*)
(***************************************************************************)
EXTENDS Naturals, FiniteSets

CONSTANTS
    Updaters,   \* processes that call apply_update
    Content,    \* the paths under content/
    Pins, Manifest, \* pins.json and manifest.json
    Others,     \* what else the target holds
    Versions,   \* the bytes of a file
    Absent,
    NoPreview,
    Candidates, \* the payloads that are offered
    MaxDrift,   \* bound: how often others write to the target
    MaxPreviews \* bound: how many previews there are at once

Governed == Content \cup {Pins, Manifest}
Entries == Governed \cup Others

ASSUME UpdaterAssumption ==
    /\ Pins # Manifest /\ {Pins, Manifest} \cap Content = {} /\ Governed \cap Others = {}
    /\ Absent \notin Versions
    /\ MaxDrift \in Nat /\ MaxPreviews \in Nat \ {0}

Tree == [Entries -> Versions \cup {Absent}]
\* What read_payload accepts.
Payload == {f \in [Governed -> Versions \cup {Absent}] :
               /\ \E c \in Content : f[c] # Absent
               /\ f[Pins] # Absent /\ f[Manifest] # Absent}
PayloadOf(t) == [e \in Governed |-> t[e]]

\* UpdatePayload.hashes: a digest is what it digests.
Hashes(f) ==
    [content |-> [c \in Content |-> f[c]], pins |-> f[Pins], manifest |-> f[Manifest]]

ASSUME CandidatesAssumption == Candidates \subseteq Payload
Previews == [candidate : Candidates, prestate : Payload]

VARIABLES
    tree,       \* the target
    previews,
    pc,
    preview,    \* the preview each call applies
    snap,       \* the snapshot of each call
    todo,       \* the entries each call has yet to write
    disturbed,
    drift

local == <<pc, preview, snap, todo>>
vars == <<tree, previews, local, disturbed, drift>>

Nothing == [e \in Entries |-> Absent]

Init ==
    /\ tree \in {t \in Tree : PayloadOf(t) \in Payload}
    /\ previews = {}
    /\ pc = [u \in Updaters |-> "ready"]
    /\ preview = [u \in Updaters |-> NoPreview]
    /\ snap = [u \in Updaters |-> Nothing]
    /\ todo = [u \in Updaters |-> {}]
    /\ disturbed = [u \in Updaters |-> FALSE]
    /\ drift = 0
----------------------------------------------------------------------------
\* Mutant: anything is taken for a payload.
PreviewUnchecked ==
    /\ \E c \in Candidates : previews' = previews \cup {[candidate |-> c, prestate |-> PayloadOf(tree)]}
    /\ Cardinality(previews') <= MaxPreviews
    /\ UNCHANGED <<tree, local, disturbed, drift>>

\* preview_update.
Preview ==
    /\ PayloadOf(tree) \in Payload
    /\ \E c \in Candidates : previews' = previews \cup {[candidate |-> c, prestate |-> PayloadOf(tree)]}
    /\ Cardinality(previews') <= MaxPreviews
    /\ UNCHANGED <<tree, local, disturbed, drift>>

\* A preview is thrown away.
Drop ==
    /\ \E v \in previews : previews' = previews \ {v}
    /\ UNCHANGED <<tree, local, disturbed, drift>>
----------------------------------------------------------------------------
Go(u, from, to) == pc[u] = from /\ pc' = [pc EXCEPT ![u] = to]
Reads == UNCHANGED <<tree, previews, disturbed, drift>>
\* Calls of which nothing is said.
Off == {"ready", "rejected"}
\* A write of u disturbs whoever else is at it.
Writes(u) ==
    /\ disturbed' = [w \in Updaters |-> pc[w] \notin Off /\ (w # u \/ disturbed[u])]
    /\ UNCHANGED <<previews, drift>>
Candidate(u) == preview[u].candidate
Present(f) == {e \in DOMAIN f : f[e] # Absent}

\* read_payload finds no payload in the target and raises an error.
Unreadable(u) ==
    /\ Go(u, "ready", "raised")
    /\ previews # {} /\ PayloadOf(tree) \notin Payload
    /\ snap' = [snap EXCEPT ![u] = tree]
    /\ UNCHANGED <<preview, todo>>
    /\ Reads

\* The target holds another payload than the preview read.
Refuse(u) ==
    /\ Go(u, "ready", "rejected")
    /\ PayloadOf(tree) \in Payload
    /\ \E v \in previews : PayloadOf(tree) # v.prestate
    /\ UNCHANGED <<preview, snap, todo>>
    /\ Reads

\* The target is read and is what the preview read.
Read(u) ==
    /\ Go(u, "ready", "read")
    /\ \E v \in previews : PayloadOf(tree) = v.prestate /\ preview' = [preview EXCEPT ![u] = v]
    /\ snap' = [snap EXCEPT ![u] = tree]
    /\ UNCHANGED todo
    /\ Reads

\* _take_tree_snapshot.
Snapshot(u) ==
    /\ Go(u, "read", "snapshot")
    /\ snap' = [snap EXCEPT ![u] = tree]
    /\ UNCHANGED <<preview, todo>>
    /\ Reads

\* The reading or the snapshot fails: nothing was written yet.
ReadFails(u) ==
    /\ Go(u, "read", "raised")
    /\ UNCHANGED <<preview, snap, todo>>
    /\ Reads

\* _write_payload: content/ is removed.
Wipe(u) ==
    /\ Go(u, "snapshot", "writing")
    /\ tree' = [e \in Entries |-> IF e \in Content THEN Absent ELSE tree[e]]
    /\ todo' = [todo EXCEPT ![u] = Present(Candidate(u))]
    /\ Writes(u)
    /\ UNCHANGED <<preview, snap>>

\* The content is written first, then the pins, then the manifest.
Turn(u, e) ==
    /\ e \in todo[u]
    /\ e \in {Pins, Manifest} => todo[u] \cap Content = {}
    /\ e = Manifest => Pins \notin todo[u]

Write(u) ==
    /\ pc[u] = "writing"
    /\ \E e \in Entries :
          /\ Turn(u, e)
          /\ tree' = [tree EXCEPT ![e] = Candidate(u)[e]]
          /\ todo' = [todo EXCEPT ![u] = @ \ {e}]
    /\ Writes(u)
    /\ UNCHANGED <<pc, preview, snap>>

\* A removal stops halfway, or a file is left with other bytes than meant.
WriteFails(u) ==
    /\ pc[u] \in {"snapshot", "writing"}
    /\ pc' = [pc EXCEPT ![u] = "failed"]
    /\ \/ /\ pc[u] = "snapshot"
          /\ \E gone \in SUBSET Content : tree' = [e \in Entries |-> IF e \in gone THEN Absent ELSE tree[e]]
       \/ /\ pc[u] = "writing"
          /\ \E e \in Entries, b \in Versions : Turn(u, e) /\ tree' \in {tree, [tree EXCEPT ![e] = b]}
    /\ Writes(u)
    /\ todo' = [todo EXCEPT ![u] = {}]
    /\ UNCHANGED <<preview, snap>>

\* The target is read back and must hold the candidate.
Verify(u) ==
    /\ todo[u] = {}
    /\ Go(u, "writing", IF PayloadOf(tree) = Candidate(u) THEN "written" ELSE "failed")
    /\ UNCHANGED <<preview, snap, todo>>
    /\ Reads

VerifyFails(u) ==
    /\ todo[u] = {}
    /\ Go(u, "writing", "failed")
    /\ UNCHANGED <<preview, snap, todo>>
    /\ Reads

\* The instant that the caller gave is formatted last, which fails when it has no
\* time zone.
Finish(u) ==
    /\ pc[u] = "written"
    /\ \E end \in {"applied", "raised"} : pc' = [pc EXCEPT ![u] = end]
    /\ UNCHANGED <<preview, snap, todo>>
    /\ Reads
----------------------------------------------------------------------------
\* _best_effort_hashes: the failed target is read for the receipt.
Measure(u) ==
    /\ Go(u, "failed", "measured")
    /\ UNCHANGED <<preview, snap, todo>>
    /\ Reads

MeasureFails(u) ==
    /\ Go(u, "failed", "raised")
    /\ UNCHANGED <<preview, snap, todo>>
    /\ Reads

\* Mutant: only the payload is put back.
ClearForPayload(u) ==
    /\ Go(u, "measured", "refilling")
    /\ tree' = Nothing
    /\ todo' = [todo EXCEPT ![u] = Present(PayloadOf(snap[u]))]
    /\ disturbed' = [w \in Updaters |-> pc[w] \notin Off /\ w # u]
    /\ UNCHANGED <<previews, drift, preview, snap>>

\* _restore_tree_snapshot.
Clear(u) ==
    /\ Go(u, "measured", "refilling")
    /\ tree' = Nothing
    /\ todo' = [todo EXCEPT ![u] = Present(snap[u])]
    /\ disturbed' = [w \in Updaters |-> pc[w] \notin Off /\ w # u]
    /\ UNCHANGED <<previews, drift, preview, snap>>

Refill(u) ==
    /\ pc[u] = "refilling"
    /\ \E e \in todo[u] :
          /\ tree' = [tree EXCEPT ![e] = snap[u][e]]
          /\ todo' = [todo EXCEPT ![u] = @ \ {e}]
    /\ Writes(u)
    /\ UNCHANGED <<pc, preview, snap>>

\* Mutant: the restored payload is not compared.
ConfirmNot(u) ==
    /\ todo[u] = {}
    /\ Go(u, "refilling", "rolled_back")
    /\ UNCHANGED <<preview, snap, todo>>
    /\ Reads

\* The old payload must be back; either receipt holds the instant again.
Confirm(u) ==
    /\ pc[u] = "refilling" /\ todo[u] = {}
    /\ \E end \in {"raised", IF PayloadOf(tree) = preview[u].prestate THEN "rolled_back"
                             ELSE "rollback_failed"} : pc' = [pc EXCEPT ![u] = end]
    /\ UNCHANGED <<preview, snap, todo>>
    /\ Reads

\* The restoration or its readback fails.
RestoreFails(u) ==
    /\ pc[u] \in {"measured", "refilling"}
    /\ \E end \in {"raised", "rollback_failed"} : pc' = [pc EXCEPT ![u] = end]
    /\ \/ UNCHANGED tree
       \/ /\ pc[u] = "measured"
          /\ \E gone \in SUBSET Entries : tree' = [e \in Entries |-> IF e \in gone THEN Absent ELSE tree[e]]
       \/ \E e \in todo[u], b \in Versions : pc[u] = "refilling" /\ tree' = [tree EXCEPT ![e] = b]
    /\ Writes(u)
    /\ todo' = [todo EXCEPT ![u] = {}]
    /\ UNCHANGED <<preview, snap>>
----------------------------------------------------------------------------
Ended == {"rejected", "raised", "applied", "rolled_back", "rollback_failed"}

Idle(u) ==
    /\ pc' = [pc EXCEPT ![u] = "ready"]
    /\ preview' = [preview EXCEPT ![u] = NoPreview]
    /\ snap' = [snap EXCEPT ![u] = Nothing]
    /\ todo' = [todo EXCEPT ![u] = {}]
    /\ disturbed' = [disturbed EXCEPT ![u] = FALSE]
    /\ UNCHANGED <<tree, previews, drift>>

Return(u) == pc[u] \in Ended /\ Idle(u)

\* A call is killed: the target stays as it is.
Kill(u) == pc[u] \notin Ended \cup {"ready"} /\ Idle(u)

\* Somebody else writes to the target.
Drift ==
    /\ drift < MaxDrift
    /\ drift' = drift + 1
    /\ \E e \in Entries : \E b \in (Versions \cup {Absent}) \ {tree[e]} : tree' = [tree EXCEPT ![e] = b]
    /\ disturbed' = [u \in Updaters |-> pc[u] \notin Off]
    /\ UNCHANGED <<previews, local>>

Apply(u) ==
    \/ Unreadable(u) \/ Refuse(u) \/ Read(u) \/ Snapshot(u) \/ ReadFails(u) \/ Wipe(u)
    \/ Write(u) \/ WriteFails(u) \/ Verify(u) \/ VerifyFails(u) \/ Finish(u) \/ Measure(u) \/ MeasureFails(u) \/ Clear(u) \/ Refill(u)
    \/ Confirm(u) \/ RestoreFails(u) \/ Return(u) \/ Kill(u)

Next == Preview \/ Drop \/ Drift \/ \E u \in Updaters : Apply(u)

Spec == Init /\ [][Next]_vars
----------------------------------------------------------------------------
\* Properties.

\* Type invariant.
TypeOK ==
    /\ tree \in Tree
    /\ previews \subseteq Previews
    /\ pc \in [Updaters -> Ended \cup {"ready", "read", "snapshot", "writing", "written", "failed",
                                       "measured", "refilling"}]
    /\ preview \in [Updaters -> Previews \cup {NoPreview}]
    /\ snap \in [Updaters -> Tree]
    /\ todo \in [Updaters -> SUBSET Entries]
    /\ disturbed \in [Updaters -> BOOLEAN]
    /\ drift \in 0 .. MaxDrift

\* _rollback_receipt.
RollbackReceipt(pre, post) ==
    [pre_update |-> pre, post_rollback |-> post, terminal_status |-> "rolled_back",
     components |-> [c \in {"content", "pins", "manifest"} |->
        [expected |-> pre[c], observed |-> post[c],
         status |-> IF pre[c] = post[c] THEN "matched" ELSE "mismatched"]]]

AnyPath(q) == TRUE
Contract == INSTANCE Contracts WITH Portable <- AnyPath

\* "rolled_back" means that the whole target is what the snapshot holds, and its
\* payload what the preview read, whatever failed and whoever wrote before the
\* restoration began, so that the rollback receipt meets its contract.
RolledBackExact ==
    \A u \in Updaters : pc[u] = "rolled_back" /\ ~disturbed[u] =>
        /\ tree = snap[u]
        /\ PayloadOf(tree) = preview[u].prestate
        /\ Contract!RollbackReceiptErrors(
               RollbackReceipt(Hashes(preview[u].prestate), Hashes(PayloadOf(tree)))) = {}

\* A call that raises an error has restored the old target.
RaisedRestored ==
    \A u \in Updaters : pc[u] = "raised" /\ ~disturbed[u] => tree = snap[u]

\* Seen through the snapshot of a call that has the target to itself, an update
\* is a transaction: other updates see all of it or none of it.
Midway == {u \in Updaters : pc[u] \in {"read", "snapshot", "writing", "written", "failed", "measured", "refilling"}}
\* A call that begins on the half-done work of another waits for its end.
Open ==
    LET alone == {u \in Midway : ~disturbed[u]}
        begun == {u \in alone : snap[u] # tree}
    IN IF begun = {} THEN alone ELSE begun

Updated(v, before, after) ==
    /\ PayloadOf(before) = v.prestate
    /\ PayloadOf(after) = v.candidate
    /\ \A e \in Others : after[e] = before[e]

\* What the target counts as, and what each call reports.
Counted == IF Open = {} THEN tree ELSE snap[CHOOSE u \in Open : TRUE]
Told == [u \in Updaters |-> IF pc[u] = "applied" THEN "applied"
                           ELSE IF pc[u] = "rolled_back" THEN "undone" ELSE "nothing"]

Service == INSTANCE Transaction WITH
    Calls <- Updaters, States <- Tree, Done <- Updated,
    state <- Counted, open <- Open, base <- snap, work <- preview, told <- Told

\* The update implements the abstract transaction: in particular "applied" means
\* that the target held what the preview read and now holds the candidate, every
\* file of it and no other under content/, and that the rest is as it was.
ImplementsTransaction == Service!Spec
=============================================================================
