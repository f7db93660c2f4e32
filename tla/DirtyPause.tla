---------------------------- MODULE DirtyPause -----------------------------
(***************************************************************************)
(* create_dirty_pause of johan_sdd.sessions: the worktree of a feature     *)
(* session is written to a synthetic commit under a protected ref, without *)
(* touching the real index, the worktree, the branch or HEAD.              *)
(*                                                                         *)
(* The function reads the worktree three times, for the scan, for the      *)
(* commit and for the comparison at the end, and whoever works there does  *)
(* not stop: edits, staging and commits come in between.  Several calls    *)
(* for one session race for its ref.                                       *)
(*                                                                         *)
(* Abstractions.  A file's content is what the scan can tell: the base     *)
(* version, an innocuous edit, secret-shaped material, or no file.  A      *)
(* commit is the tree it holds (two calls in one second make one commit of *)
(* one tree).  Suspicious path names are refused like suspicious contents. *)
(* What is refused before the checkout is read is left out.                *)
(***************************************************************************)
EXTENDS Naturals, FiniteSets

CONSTANTS
    Pausers,    \* calls of create_dirty_pause, for one session in one worktree
    Files,
    Tracked,    \* the files that HEAD holds
    NoCommit,   \* the protected ref does not exist
    MaxEdits    \* bound: nobody touches the checkout more often than this

ASSUME PauseAssumption == Tracked \subseteq Files /\ MaxEdits \in Nat

Contents == {"base", "edit", "secret", "gone"}
Tree == [Files -> Contents]

ASSUME NoCommitAssumption == NoCommit \notin Tree

VARIABLES
    head,       \* the tree HEAD names
    tree,       \* the worktree
    index,      \* how often the real index was written
    edits,      \* how often the checkout was touched
    ref,        \* refs/agent-sessions/<session id>
    pc,
    before,     \* the checkout each call measured first
    todo,       \* the paths each call has yet to scan
    commit,     \* the synthetic commit of each call
    touched,    \* files edited since each call began
    recoveries  \* the recovery records returned

checkout == <<head, tree, index, edits>>
vars == <<checkout, ref, pc, before, todo, commit, touched, recoveries>>

\* One letter of git status --porcelain=v2: it does not hash the worktree.
Status(f) ==
    CASE tree[f] = head[f] -> "same"
      [] tree[f] # head[f] /\ tree[f] = "gone" -> "deleted"
      [] tree[f] # head[f] /\ head[f] = "gone" -> "untracked"
      [] OTHER -> "modified"

\* _snapshot_checkout.
Snapshot == [head |-> head, index |-> index, status |-> [f \in Files |-> Status(f)]]

Init ==
    /\ head = [f \in Files |-> IF f \in Tracked THEN "base" ELSE "gone"]
    /\ tree \in [Files -> {"edit", "secret", "gone"}]
    /\ index = 0
    /\ edits = 0
    /\ ref = NoCommit
    /\ pc = [p \in Pausers |-> "ready"]
    /\ before = [p \in Pausers |-> Snapshot]
    /\ todo = [p \in Pausers |-> {}]
    /\ commit = [p \in Pausers |-> NoCommit]
    /\ touched = [p \in Pausers |-> {}]
    /\ recoveries = {}
----------------------------------------------------------------------------
Go(p, from, to) == pc[p] = from /\ pc' = [pc EXCEPT ![p] = to]

Changed == {f \in Files : Status(f) # "same"}
Untracked == {f \in Files : Status(f) = "untracked"}

\* The checkout is measured; a clean one is refused.
Look(p) ==
    /\ pc[p] = "ready"
    /\ pc' = [pc EXCEPT ![p] = IF Changed = {} THEN "failed" ELSE "looked"]
    /\ before' = [before EXCEPT ![p] = Snapshot]
    /\ touched' = [touched EXCEPT ![p] = {}]
    /\ UNCHANGED <<checkout, ref, todo, commit, recoveries>>

ListUntracked(p) ==
    /\ Go(p, "looked", "scanning")
    /\ todo' = [todo EXCEPT ![p] = Untracked]
    /\ UNCHANGED <<checkout, ref, before, commit, touched, recoveries>>

\* _changed_paths.
List(p) ==
    /\ Go(p, "looked", "scanning")
    /\ todo' = [todo EXCEPT ![p] = Changed]
    /\ UNCHANGED <<checkout, ref, before, commit, touched, recoveries>>

\* _scan_changed_paths reads one file after another.
Scan(p) ==
    /\ pc[p] = "scanning"
    /\ \E f \in todo[p] :
          /\ todo' = [todo EXCEPT ![p] = @ \ {f}]
          /\ pc' = IF tree[f] = "secret" THEN [pc EXCEPT ![p] = "failed"] ELSE pc
    /\ UNCHANGED <<checkout, ref, before, commit, touched, recoveries>>

\* A ref that is there already is refused.
FindRef(p) ==
    /\ pc[p] = "scanning" /\ todo[p] = {}
    /\ pc' = [pc EXCEPT ![p] = IF ref = NoCommit THEN "scanned" ELSE "failed"]
    /\ UNCHANGED <<checkout, ref, before, todo, commit, touched, recoveries>>

CommitLost(p) ==
    /\ Go(p, "scanned", "built")
    /\ UNCHANGED <<checkout, ref, before, todo, commit, touched, recoveries>>

\* read-tree, add -A, write-tree and commit-tree on a temporary index: what the
\* worktree holds now.
Commit(p) ==
    /\ Go(p, "scanned", "built")
    /\ commit' = [commit EXCEPT ![p] = tree]
    /\ UNCHANGED <<checkout, ref, before, todo, touched, recoveries>>

UpdateRefAnyway(p) ==
    /\ Go(p, "built", "created")
    /\ ref' = commit[p]
    /\ UNCHANGED <<checkout, before, todo, commit, touched, recoveries>>

\* update-ref with the zero oid: only a ref that does not exist.
UpdateRef(p) ==
    /\ Go(p, "built", "created")
    /\ ref = NoCommit
    /\ ref' = commit[p]
    /\ UNCHANGED <<checkout, before, todo, commit, touched, recoveries>>

RefTakenUndone(p) ==
    /\ Go(p, "built", "failed")
    /\ ref # NoCommit
    /\ ref' = NoCommit
    /\ UNCHANGED <<checkout, before, todo, commit, touched, recoveries>>

RefTaken(p) ==
    /\ Go(p, "built", "failed")
    /\ ref # NoCommit
    /\ UNCHANGED <<checkout, ref, before, todo, commit, touched, recoveries>>

\* The checkout must be as it was.
Compare(p) ==
    /\ pc[p] = "created"
    /\ pc' = [pc EXCEPT ![p] = IF Snapshot = before[p] THEN "compared" ELSE "undoing"]
    /\ UNCHANGED <<checkout, ref, before, todo, commit, touched, recoveries>>

\* The ref is read back, and the recovery record is returned.
Succeed(p) ==
    /\ Go(p, "compared", "paused")
    /\ ref = commit[p]
    /\ recoveries' = recoveries \cup {[by |-> p, commit |-> commit[p], head |-> before[p].head,
                                       edited |-> touched[p]]}
    /\ UNCHANGED <<checkout, ref, before, todo, commit, touched>>

\* A git command fails, before and after the ref was created.
GitFails(p) ==
    /\ \/ pc[p] \in {"looked", "scanning", "scanned", "built"} /\ pc' = [pc EXCEPT ![p] = "failed"]
       \/ pc[p] \in {"created", "compared"} /\ pc' = [pc EXCEPT ![p] = "undoing"]
    /\ UNCHANGED <<checkout, ref, before, todo, commit, touched, recoveries>>

\* update-ref -d with the commit as the old value; its own failure is ignored.
Undo(p) ==
    /\ Go(p, "undoing", "failed")
    /\ ref' = IF ref = commit[p] THEN NoCommit ELSE ref
    /\ UNCHANGED <<checkout, before, todo, commit, touched, recoveries>>

UndoFails(p) ==
    /\ Go(p, "undoing", "failed")
    /\ UNCHANGED <<checkout, ref, before, todo, commit, touched, recoveries>>

\* The error reaches the caller, who may try again.
Forget(p) ==
    /\ Go(p, "failed", "ready")
    /\ commit' = [commit EXCEPT ![p] = NoCommit]
    /\ todo' = [todo EXCEPT ![p] = {}]
    /\ UNCHANGED <<checkout, ref, before, touched, recoveries>>

\* A call is killed wherever it is; a ref it made stays.
Kill(p) ==
    /\ pc[p] \notin {"ready", "paused", "failed"}
    /\ pc' = [pc EXCEPT ![p] = "failed"]
    /\ UNCHANGED <<checkout, ref, before, todo, commit, touched, recoveries>>
----------------------------------------------------------------------------
\* Somebody goes on working in the checkout.
Touch ==
    /\ edits < MaxEdits
    /\ edits' = edits + 1
    /\ UNCHANGED <<ref, pc, before, todo, commit, recoveries>>

Edit(f) ==
    /\ Touch
    /\ \E c \in Contents \ {tree[f]} : tree' = [tree EXCEPT ![f] = c]
    /\ touched' = [p \in Pausers |-> touched[p] \cup {f}]
    /\ UNCHANGED <<head, index>>

Stage == Touch /\ index' = index + 1 /\ UNCHANGED <<head, tree, touched>>

CommitAll ==
    /\ Touch
    /\ head # tree
    /\ head' = tree
    /\ index' = index + 1
    /\ UNCHANGED <<tree, touched>>

Pause(p) ==
    \/ Look(p) \/ List(p) \/ Scan(p) \/ FindRef(p) \/ Commit(p) \/ UpdateRef(p) \/ RefTaken(p)
    \/ Compare(p) \/ Succeed(p) \/ GitFails(p) \/ Undo(p) \/ UndoFails(p) \/ Forget(p)
    \/ Kill(p)

Next ==
    \/ \E p \in Pausers : Pause(p)
    \/ \E f \in Files : Edit(f)
    \/ Stage
    \/ CommitAll

Spec == Init /\ [][Next]_vars
----------------------------------------------------------------------------
\* Properties.

\* Type invariant.
TypeOK ==
    /\ head \in Tree /\ tree \in Tree
    /\ index \in 0 .. MaxEdits /\ edits \in 0 .. MaxEdits
    /\ ref \in Tree \cup {NoCommit}
    /\ pc \in [Pausers -> {"ready", "looked", "scanning", "scanned", "built", "created",
                           "compared", "paused", "undoing", "failed"}]
    /\ before \in [Pausers -> [head : Tree, index : 0 .. MaxEdits,
                               status : [Files -> {"same", "deleted", "untracked", "modified"}]]]
    /\ todo \in [Pausers -> SUBSET Files]
    /\ commit \in [Pausers -> Tree \cup {NoCommit}]
    /\ touched \in [Pausers -> SUBSET Files]
    /\ recoveries \subseteq [by : Pausers, commit : Tree, head : Tree, edited : SUBSET Files]

\* The commit of every recovery record that was returned stays reachable, also
\* when other calls for the session fail, undo their own work or are killed.
RecoveryReachable == \A r \in recoveries : ref = r.commit

\* A session is paused once: of calls that race, one gets a recovery record.
OneRecovery == Cardinality(recoveries) <= 1

\* Material that is suspicious when the pause begins, and is left alone while it
\* runs, never gets into a recovery.
StandingSecretsStop ==
    \A r \in recoveries : \A f \in Files \ r.edited : r.commit[f] # r.head[f] => r.commit[f] # "secret"

\* What a recovery record says of its scan is true of its commit: no file that
\* the pause saved holds suspicious material.
ScanCoversCommit ==
    \A r \in recoveries : \A f \in Files : r.commit[f] # r.head[f] => r.commit[f] # "secret"
=============================================================================
