-------------------------- MODULE HostTransaction --------------------------
(***************************************************************************)
(* johan_sdd.host: a desired state is bound to what was measured of a      *)
(* target (build_preview) and applied to it later (apply_preview), one     *)
(* operation after another.  An error undoes all of them by emptying the   *)
(* target and refilling it from a snapshot.                                *)
(*                                                                         *)
(* Nothing locks a target: other programs, and other calls of              *)
(* apply_preview, write to it between any two steps.  disturbed[p] says    *)
(* that somebody did since p took its snapshot, or began to refill.        *)
(*                                                                         *)
(* Abstractions.  A snapshot is taken at one instant.  An absent root and  *)
(* an empty one measure the same and are not told apart.  Expiry and a     *)
(* change of the host's authorization happen to a preview at any time.     *)
(* Documents that fail their own digests are refused like stale ones.      *)
(***************************************************************************)
EXTENDS Naturals, FiniteSets, Sequences, Functions

CONSTANTS
    Appliers,   \* processes that call apply_preview
    Paths,
    Above,      \* the directories above each path
    Contents,
    Absent, Dir, \* what else a path can be
    Desired,    \* sequences of operations
    NoPreview,
    MaxDrift,   \* bound: how often other programs write to the target
    MaxPreviews \* bound: how many previews there are at once

ASSUME HostAssumption ==
    /\ Above \in [Paths -> SUBSET Paths]
    /\ \A q \in Paths : q \notin Above[q] /\ \A a \in Above[q] : Above[a] \subseteq Above[q]
    /\ MaxDrift \in Nat /\ MaxPreviews \in Nat \ {0}
    /\ Absent # Dir /\ {Absent, Dir} \cap Contents = {}

Operation ==
    [action : {"create", "replace"}, path : Paths, content : Contents]
    \cup [action : {"remove"}, path : Paths]

\* _validate_operations: no path is addressed twice.
ASSUME DesiredAssumption ==
    \A ops \in Desired :
        /\ ops \in Seq(Operation) /\ ops # <<>>
        /\ \A i, j \in DOMAIN ops : ops[i].path = ops[j].path => i = j

VARIABLES
    tree,       \* what each path of the target is
    temps,      \* temporary files, by owner and the path they stand next to
    previews,   \* the previews in hand
    pc,
    preview,    \* the preview each call applies
    snap,       \* the snapshot of each call
    next,       \* the operation each call is at
    readback,   \* what each call lists of the operations it did
    left,       \* the paths each call has yet to refill
    disturbed,
    drift

target == <<tree, temps>>
local == <<pc, preview, snap, next, readback, left>>
vars == <<target, previews, local, disturbed, drift>>

Tree == {t \in [Paths -> Contents \cup {Absent, Dir}] :
            \A q \in Paths : t[q] # Absent => \A a \in Above[q] : t[a] = Dir}
\* Temporary files stand in directories too.
Placed(t, ts) == \A f \in ts : \A a \in Above[f[2]] : t[a] = Dir
\* _take_snapshot.
Snapshot == [tree |-> tree, temps |-> temps]
Nothing == [tree |-> [q \in Paths |-> Absent], temps |-> {}]
Snapshots == [tree : Tree, temps : SUBSET (Appliers \X Paths)]
Previews == [operations : Desired, prestate : Snapshots]

Init ==
    /\ tree \in Tree
    /\ temps = {}
    /\ previews = {}
    /\ pc = [p \in Appliers |-> "ready"]
    /\ preview = [p \in Appliers |-> NoPreview]
    /\ snap = [p \in Appliers |-> Nothing]
    /\ next = [p \in Appliers |-> 1]
    /\ readback = [p \in Appliers |-> <<>>]
    /\ left = [p \in Appliers |-> {}]
    /\ disturbed = [p \in Appliers |-> FALSE]
    /\ drift = 0
----------------------------------------------------------------------------
\* build_preview.
Build ==
    /\ \E ops \in Desired :
          previews' = previews \cup {[operations |-> ops, prestate |-> Snapshot]}
    /\ Cardinality(previews') <= MaxPreviews
    /\ UNCHANGED <<target, local, disturbed, drift>>

\* A preview expires, or the authorization it is bound to is changed.
Lapse ==
    /\ \E v \in previews : previews' = previews \ {v}
    /\ UNCHANGED <<target, local, disturbed, drift>>
----------------------------------------------------------------------------
Ops(p) == preview[p].operations
Op(p) == Ops(p)[next[p]]
Go(p, from, to) == pc[p] = from /\ pc' = [pc EXCEPT ![p] = to]
Reads == UNCHANGED <<target, previews, disturbed, drift>>
\* Calls of which nothing is said.
Off == {"ready", "refused", "broken"}
Writes(p) ==
    /\ disturbed' = [q \in Appliers |-> pc[q] \notin Off /\ (q # p \/ disturbed[p])]
    /\ UNCHANGED <<previews, drift>>

\* The guards of apply_preview: a preview in force, measured on this very state.
RefuseLapsed(p) ==
    /\ Go(p, "ready", "refused")
    /\ \E v \in previews : v.prestate # Snapshot
    /\ UNCHANGED <<preview, snap, next, readback, left>>
    /\ Reads

\* Mutant: the state is not measured again.
BeginAnyway(p) ==
    /\ Go(p, "ready", "working")
    /\ \E v \in previews : preview' = [preview EXCEPT ![p] = v]
    /\ snap' = [snap EXCEPT ![p] = Snapshot]
    /\ UNCHANGED <<next, readback, left>>
    /\ Reads

Begin(p) ==
    /\ Go(p, "ready", "working")
    /\ \E v \in previews : v.prestate = Snapshot /\ preview' = [preview EXCEPT ![p] = v]
    /\ snap' = [snap EXCEPT ![p] = Snapshot]
    /\ UNCHANGED <<next, readback, left>>
    /\ Reads

\* _apply_operation looks at the destination first.
Check(p) ==
    /\ pc[p] = "working" /\ next[p] <= Len(Ops(p))
    /\ LET at == tree[Op(p).path]
           fits == IF Op(p).action = "create" THEN at = Absent ELSE at \in Contents
       IN pc' = [pc EXCEPT ![p] = IF ~fits THEN "undoing"
                                  ELSE IF Op(p).action = "remove" THEN "removing" ELSE "placing"]
    /\ UNCHANGED <<preview, snap, next, readback, left>>
    /\ Reads

\* An operation is done and its result listed.
Listed(p, done) ==
    /\ readback' = [readback EXCEPT ![p] = Append(@, done)]
    /\ next' = [next EXCEPT ![p] = @ + 1]

Unlink(p) ==
    /\ Go(p, "removing", "working")
    /\ tree[Op(p).path] \in Contents
    /\ tree' = [tree EXCEPT ![Op(p).path] = Absent]
    /\ Listed(p, [path |-> Op(p).path, result |-> "removed"])
    /\ Writes(p)
    /\ UNCHANGED <<temps, preview, snap, left>>

RoomFor(q) == \A a \in Above[q] : tree[a] \in {Absent, Dir}
\* Mutant: parents are taken for granted.
MakeNoParents(t, q) == t
MakeParents(t, q) == [a \in Paths |-> IF a \in Above[q] /\ t[a] = Absent THEN Dir ELSE t[a]]

\* mkdir of the parents, all of them in one step.
MakeDirectories(p) ==
    /\ Go(p, "placing", "writing")
    /\ RoomFor(Op(p).path)
    /\ tree' = MakeParents(tree, Op(p).path)
    /\ Writes(p)
    /\ UNCHANGED <<temps, preview, snap, next, readback, left>>

\* The temporary file is written, if the directory is still there.
WriteTemporary(p) ==
    /\ Go(p, "writing", "renaming")
    /\ \A a \in Above[Op(p).path] : tree[a] = Dir
    /\ temps' = temps \cup {<<p, Op(p).path>>}
    /\ Writes(p)
    /\ UNCHANGED <<tree, preview, snap, next, readback, left>>

\* Mutant: the temporary file is copied.
CopyTemporary(p) ==
    /\ Go(p, "renaming", "reading")
    /\ <<p, Op(p).path>> \in temps /\ tree[Op(p).path] # Dir
    /\ tree' = [tree EXCEPT ![Op(p).path] = Op(p).content]
    /\ Writes(p)
    /\ UNCHANGED <<temps, preview, snap, next, readback, left>>

\* The temporary file replaces the destination, whatever file is there by now.
Rename(p) ==
    /\ Go(p, "renaming", "reading")
    /\ <<p, Op(p).path>> \in temps /\ tree[Op(p).path] # Dir
    /\ tree' = [tree EXCEPT ![Op(p).path] = Op(p).content]
    /\ temps' = temps \ {<<p, Op(p).path>>}
    /\ Writes(p)
    /\ UNCHANGED <<preview, snap, next, readback, left>>

\* The content is read from the file; nothing compares it with what was meant.
ReadBack(p) ==
    /\ Go(p, "reading", "working")
    /\ tree[Op(p).path] \in Contents
    /\ Listed(p, [path |-> Op(p).path, content |-> tree[Op(p).path],
                   result |-> IF Op(p).action = "create" THEN "created" ELSE "replaced"])
    /\ UNCHANGED <<preview, snap, left>>
    /\ Reads

\* Any step of an operation, or the last snapshot, raises an error.  A failing
\* write may leave a temporary file behind.
Fail(p) ==
    /\ pc[p] \in {"working", "removing", "placing", "writing", "renaming", "reading"}
    /\ pc' = [pc EXCEPT ![p] = "undoing"]
    /\ \/ UNCHANGED <<target, disturbed, previews, drift>>
       \/ /\ pc[p] = "writing" /\ \A a \in Above[Op(p).path] : tree[a] = Dir
          /\ temps' = temps \cup {<<p, Op(p).path>>}
          /\ Writes(p)
          /\ UNCHANGED tree
    /\ UNCHANGED <<preview, snap, next, readback, left>>

\* All operations are done: the receipt is returned.
Finish(p) ==
    /\ Go(p, "working", "applied")
    /\ next[p] > Len(Ops(p))
    /\ UNCHANGED <<preview, snap, next, readback, left>>
    /\ Reads
----------------------------------------------------------------------------
Present(t) == {q \in Paths : t[q] # Absent}

\* Mutant: the destination of the failed operation is put back, and nothing else.
ClearOne(p) ==
    /\ Go(p, "undoing", "refilling")
    /\ left' = [left EXCEPT ![p] = Present(snap[p].tree) \cap {Op(p).path}]
    /\ tree' = [tree EXCEPT ![Op(p).path] = Absent]
    /\ temps' = {}
    /\ disturbed' = [q \in Appliers |-> pc[q] \notin Off /\ q # p]
    /\ next' = [next EXCEPT ![p] = 1] /\ readback' = [readback EXCEPT ![p] = <<>>]
    /\ UNCHANGED <<previews, drift, preview, snap>>

\* _restore_snapshot: rmtree takes everything, also what others put there.
Clear(p) ==
    /\ Go(p, "undoing", "refilling")
    /\ tree' = [q \in Paths |-> Absent]
    /\ temps' = {}
    /\ left' = [left EXCEPT ![p] = Present(snap[p].tree)]
    /\ disturbed' = [q \in Appliers |-> pc[q] \notin Off /\ q # p]
    /\ next' = [next EXCEPT ![p] = 1] /\ readback' = [readback EXCEPT ![p] = <<>>]
    /\ UNCHANGED <<previews, drift, preview, snap>>

\* Directories first, from the top, then files; a directory must be new.
Refill(p) ==
    /\ pc[p] = "refilling"
    /\ \E q \in left[p] :
          /\ Above[q] \cap left[p] = {}
          /\ snap[p].tree[q] # Dir => \A d \in left[p] : snap[p].tree[d] # Dir
          /\ IF snap[p].tree[q] = Dir
             THEN tree[q] = Absent /\ \A a \in Above[q] : tree[a] = Dir
             ELSE tree[q] # Dir /\ RoomFor(q)
          /\ tree' = [MakeParents(tree, q) EXCEPT ![q] = snap[p].tree[q]]
          /\ left' = [left EXCEPT ![p] = @ \ {q}]
    /\ Writes(p)
    /\ UNCHANGED <<temps, pc, preview, snap, next, readback>>

\* The temporary files the snapshot found come back too.
Restored(p) ==
    /\ Go(p, "refilling", "restored")
    /\ left[p] = {}
    /\ \A f \in snap[p].temps : RoomFor(f[2])
    /\ tree' = [q \in Paths |-> IF tree[q] = Absent /\ \E f \in snap[p].temps : q \in Above[f[2]]
                               THEN Dir ELSE tree[q]]
    /\ temps' = temps \cup snap[p].temps
    /\ Writes(p)
    /\ UNCHANGED <<preview, snap, next, readback, left>>

Forget(p) ==
    /\ preview' = [preview EXCEPT ![p] = NoPreview]
    /\ next' = [next EXCEPT ![p] = 1]
    /\ readback' = [readback EXCEPT ![p] = <<>>]
    /\ left' = [left EXCEPT ![p] = {}]
    /\ snap' = [snap EXCEPT ![p] = Nothing]

\* The restoration fails, while it empties or while it refills.
RestoreFails(p) ==
    /\ pc[p] \in {"undoing", "refilling"}
    /\ pc' = [pc EXCEPT ![p] = "broken"]
    /\ \/ UNCHANGED target
       \/ /\ pc[p] = "undoing"
          /\ \E gone \in SUBSET Paths : tree' = [q \in Paths |-> IF q \in gone THEN Absent ELSE tree[q]]
          /\ temps' \in SUBSET temps
          /\ tree' \in Tree /\ Placed(tree', temps')
    /\ Writes(p)
    /\ Forget(p)
----------------------------------------------------------------------------
Idle(p) ==
    /\ Forget(p)
    /\ disturbed' = [disturbed EXCEPT ![p] = FALSE]
    /\ UNCHANGED <<target, previews, drift>>

\* The result reaches the caller.
Return(p) ==
    /\ pc[p] \in {"refused", "applied", "restored", "broken"}
    /\ pc' = [pc EXCEPT ![p] = "ready"]
    /\ Idle(p)

\* A process is killed: the target stays as it is, its temporary file too.  A
\* later process may have its process id, and so its name for temporary files.
Kill(p) ==
    /\ pc[p] \notin {"ready", "refused", "applied", "restored", "broken"}
    /\ pc' = [pc EXCEPT ![p] = "ready"]
    /\ Idle(p)

\* Another program writes or removes a file of the target.
Drift ==
    /\ drift < MaxDrift
    /\ drift' = drift + 1
    /\ \E q \in Paths, c \in Contents \cup {Absent} :
          /\ tree[q] \in (Contents \cup {Absent}) \ {c}
          /\ tree' = [tree EXCEPT ![q] = c]
          /\ tree' \in Tree
    /\ disturbed' = [p \in Appliers |-> pc[p] \notin Off]
    /\ UNCHANGED <<temps, previews, local>>

Step(p) ==
    \/ RefuseLapsed(p) \/ Begin(p) \/ Check(p) \/ Unlink(p)
    \/ MakeDirectories(p) \/ WriteTemporary(p) \/ Rename(p) \/ ReadBack(p)
    \/ Fail(p) \/ Finish(p) \/ Clear(p) \/ Refill(p) \/ Restored(p) \/ RestoreFails(p)
    \/ Return(p) \/ Kill(p)

Next == Build \/ Lapse \/ Drift \/ \E p \in Appliers : Step(p)

Spec == Init /\ [][Next]_vars
----------------------------------------------------------------------------
\* Properties.

\* Type invariant: what lies under a path that is there is in a directory.
TypeOK ==
    /\ tree \in Tree
    /\ temps \subseteq Appliers \X Paths /\ Placed(tree, temps)
    /\ previews \subseteq Previews
    /\ pc \in [Appliers -> {"ready", "working", "removing", "placing", "writing", "renaming", "reading",
                            "refused", "applied", "undoing", "refilling", "restored", "broken"}]
    /\ preview \in [Appliers -> Previews \cup {NoPreview}]
    /\ snap \in [Appliers -> Snapshots]
    /\ \A p \in Appliers : preview[p] # NoPreview => next[p] \in 1 .. Len(Ops(p)) + 1
    /\ \A p \in Appliers : Len(readback[p]) = next[p] - 1
    /\ left \in [Appliers -> SUBSET Paths]
    /\ disturbed \in [Appliers -> BOOLEAN]
    /\ drift \in 0 .. MaxDrift

\* What the operations are meant to make of a target.
Effect(t, op) ==
    IF op.action = "remove" THEN [t EXCEPT ![op.path] = Absent]
    ELSE [MakeParents(t, op.path) EXCEPT ![op.path] = op.content]
\* The operations lead from one tree to the other, one after another.
Leads(ops, from, to) ==
    \E run \in [0 .. Len(ops) -> Tree] :
        /\ run[0] = from /\ run[Len(ops)] = to
        /\ \A i \in DOMAIN ops : run[i] = Effect(run[i - 1], ops[i])
Applied(v, before, after) ==
    /\ before = v.prestate
    /\ Leads(v.operations, before.tree, after.tree)
    /\ after.temps \subseteq before.temps

AnyPath(q) == TRUE
Contract == INSTANCE Contracts WITH Portable <- AnyPath

\* A receipt means that the state the preview was measured on went through all
\* of its operations in their order, that nothing else changed and nothing was
\* left behind, that the readback is what the target holds and that the receipt
\* meets its contract: unless somebody else wrote to the target meanwhile.
ReceiptExact ==
    \A p \in Appliers : pc[p] = "applied" /\ ~disturbed[p] =>
        /\ Applied(preview[p], preview[p].prestate, Snapshot)
        /\ \A r \in Range(readback[p]) : "content" \in DOMAIN r => tree[r.path] = r.content
        /\ Contract!ApplyReceiptErrors(Ops(p), readback[p]) = {}

\* An error with rollback_status "completed" means that the target is what it was
\* when the call began, whatever happened before the restoration and whatever
\* operation failed: unless somebody else wrote during the restoration.
RollbackExact ==
    \A p \in Appliers : pc[p] = "restored" /\ ~disturbed[p] => Snapshot = snap[p]

\* Seen through the snapshot of a call that has the target to itself, a call is
\* a transaction: of two calls that apply previews of one state, one at most does
\* it unnoticed.
Midway == {p \in Appliers : pc[p] \in {"working", "removing", "placing", "writing", "renaming", "reading",
                                      "undoing", "refilling"}}
\* A call that begins on the half-done work of another waits for its end.
Open ==
    LET alone == {p \in Midway : ~disturbed[p]}
        begun == {p \in alone : snap[p].tree # tree \/ snap[p].temps # temps}
    IN IF begun = {} THEN alone ELSE begun

\* What the target counts as, and what each call reports.
Counted == IF Open = {} THEN Snapshot ELSE snap[CHOOSE p \in Open : TRUE]
Told == [p \in Appliers |-> IF pc[p] = "applied" THEN "applied"
                           ELSE IF pc[p] = "restored" THEN "undone" ELSE "nothing"]

Service == INSTANCE Transaction WITH
    Calls <- Appliers, States <- Snapshots, Done <- Applied,
    state <- Counted, open <- Open, base <- snap, work <- preview, told <- Told

\* The host transaction implements the abstract one.
ImplementsTransaction == Service!Spec
=============================================================================
