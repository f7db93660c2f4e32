----------------------- MODULE HostTransactionProofs ------------------------
(***************************************************************************)
(* Proofs about HostTransaction, for any number of calls, any tree of      *)
(* paths and any operations.                                               *)
(*                                                                         *)
(* As with the updater, a write disturbs every other call at work, and     *)
(* what an undisturbed call knows of the target changes by its own steps   *)
(* alone.  While it works, the target is what its operations so far make   *)
(* of the tree it measured, but for the parents and the temporary file of  *)
(* the operation it is at; while it refills, each path is absent or back.  *)
(***************************************************************************)
EXTENDS HostTransaction, TLAPS

AtWork == {"working", "removing", "placing", "writing", "renaming", "reading"}
Results ==
    [path : Paths, result : {"removed"}]
    \cup [path : Paths, content : Contents, result : {"created", "replaced"}]

\* What is listed of the operations, and which operation a call is at.
WorkInv ==
    /\ next \in [Appliers -> Nat \ {0}]
    /\ readback \in [Appliers -> Seq(Results)]
    /\ \A p \in Appliers :
          /\ pc[p] \in AtWork \cup {"applied"} =>
                preview[p] \in Previews /\ next[p] \in 1 .. Len(Ops(p)) + 1
          /\ pc[p] \in {"removing", "placing", "writing", "renaming", "reading"} =>
                next[p] \in DOMAIN Ops(p)
          /\ pc[p] = "removing" => Op(p).action = "remove"
          /\ pc[p] \in {"placing", "writing", "renaming", "reading"} => Op(p).action # "remove"
          /\ pc[p] = "applied" => next[p] = Len(Ops(p)) + 1
          /\ pc[p] \in Off => next[p] = 1

\* The temporary files of a snapshot stand in its directories, and only what it
\* holds is refilled.
SnapInv ==
    \A p \in Appliers :
        /\ Placed(snap[p].tree, snap[p].temps)
        /\ pc[p] = "refilling" => left[p] \subseteq Present(snap[p].tree)

\* The first n operations lead from one tree to the other.
Prefix(ops, n, from, to) ==
    \E run \in [0 .. n -> Tree] :
        /\ run[0] = from /\ run[n] = to
        /\ \A i \in 1 .. n : run[i] = Effect(run[i - 1], ops[i])

\* The tree that the operations so far have made.
Reached(p, t) == Prefix(Ops(p), next[p] - 1, snap[p].tree, t)

\* What the readback lists of an operation.
Listing(op) ==
    IF op.action = "remove" THEN [path |-> op.path, result |-> "removed"]
    ELSE [path |-> op.path, content |-> op.content,
          result |-> IF op.action = "create" THEN "created" ELSE "replaced"]

\* What an undisturbed call knows of the target.
Alone(p) ==
    /\ pc[p] \in AtWork \cup {"applied"} =>
          /\ snap[p] = preview[p].prestate
          /\ \A i \in 1 .. next[p] - 1 :
                /\ readback[p][i] = Listing(Ops(p)[i])
                /\ Ops(p)[i].action # "remove" => tree[Ops(p)[i].path] = Ops(p)[i].content
    /\ pc[p] \in {"working", "removing", "placing", "applied"} =>
          Reached(p, tree) /\ temps \subseteq snap[p].temps
    /\ pc[p] = "writing" =>
          /\ \E t \in Tree : Reached(p, t) /\ tree = MakeParents(t, Op(p).path)
          /\ temps \subseteq snap[p].temps
    /\ pc[p] = "renaming" =>
          /\ \E t \in Tree : Reached(p, t) /\ tree = MakeParents(t, Op(p).path)
          /\ temps \subseteq snap[p].temps \cup {<<p, Op(p).path>>}
    /\ pc[p] = "reading" =>
          /\ \E t \in Tree : Reached(p, t) /\ tree = Effect(t, Op(p))
          /\ temps \subseteq snap[p].temps
    /\ pc[p] = "refilling" =>
          /\ \A q \in Paths : tree[q] = IF q \in left[p] THEN Absent ELSE snap[p].tree[q]
          /\ temps = {}
    /\ pc[p] = "restored" => Snapshot = snap[p]

AloneInv == \A p \in Appliers : ~disturbed[p] => Alone(p)

\* Of two undisturbed calls at work, one has written nothing so far.
FirstInv ==
    \A p, q \in Midway :
        ~disturbed[p] /\ ~disturbed[q] => p = q \/ snap[p] = Snapshot \/ snap[q] = Snapshot

\* The inductive invariant.
IInv == TypeOK /\ WorkInv /\ SnapInv /\ AloneInv /\ FirstInv
----------------------------------------------------------------------------
\* Trees.

\* Directories that stay keep the temporary files in their places.
LEMMA StaysPlaced ==
    ASSUME NEW t, NEW u, NEW ts \in SUBSET (Appliers \X Paths), Placed(t, ts),
           \A q \in Paths : t[q] = Dir => u[q] = Dir
    PROVE Placed(u, ts)
BY HostAssumption DEF Placed

\* Making the parents of a path keeps what is there.
LEMMA ParentsMade ==
    ASSUME NEW t \in Tree, NEW q \in Paths, \A a \in Above[q] : t[a] \in {Absent, Dir}
    PROVE /\ MakeParents(t, q) \in Tree
          /\ \A a \in Above[q] : MakeParents(t, q)[a] = Dir
          /\ \A b \in Paths : t[b] # Absent => MakeParents(t, q)[b] = t[b]
          /\ MakeParents(t, q)[q] = t[q]
<1> DEFINE m == MakeParents(t, q)
<1>1. \A b \in Paths : t[b] # Absent => m[b] = t[b]
  BY DEF MakeParents
<1>2. \A a \in Above[q] : m[a] = Dir
  BY HostAssumption DEF MakeParents
<1>3. m[q] = t[q]
  BY HostAssumption DEF MakeParents
<1>4. m \in [Paths -> Contents \cup {Absent, Dir}]
  BY DEF MakeParents, Tree
<1>5. ASSUME NEW b \in Paths, m[b] # Absent
      PROVE \A a \in Above[b] : m[a] = Dir
  <2>1. CASE t[b] # Absent
    BY <1>1, <2>1, HostAssumption DEF Tree
  <2>2. CASE t[b] = Absent
    <3>1. b \in Above[q]
      BY <1>5, <2>2 DEF MakeParents
    <3> QED
      BY <1>2, <3>1, HostAssumption
  <2> QED
    BY <2>1, <2>2
<1> QED
  BY <1>1, <1>2, <1>3, <1>4, <1>5 DEF Tree

\* A file is put where no directory is.
LEMMA FilePut ==
    ASSUME NEW t \in Tree, NEW q \in Paths, t[q] # Dir, \A a \in Above[q] : t[a] = Dir,
           NEW c \in Contents
    PROVE /\ [t EXCEPT ![q] = c] \in Tree
          /\ \A b \in Paths : t[b] = Dir => [t EXCEPT ![q] = c][b] = Dir
BY HostAssumption DEF Tree

\* A file is taken away.
LEMMA FileGone ==
    ASSUME NEW t \in Tree, NEW q \in Paths, t[q] # Dir
    PROVE /\ [t EXCEPT ![q] = Absent] \in Tree
          /\ \A b \in Paths : t[b] = Dir => [t EXCEPT ![q] = Absent][b] = Dir
BY HostAssumption DEF Tree

\* One more operation.
LEMMA PrefixGrows ==
    ASSUME NEW ops, NEW n \in Nat, NEW from, NEW t, Prefix(ops, n, from, t),
           Effect(t, ops[n + 1]) \in Tree
    PROVE Prefix(ops, n + 1, from, Effect(t, ops[n + 1]))
<1>1. PICK run \in [0 .. n -> Tree] :
           /\ run[0] = from /\ run[n] = t
           /\ \A i \in 1 .. n : run[i] = Effect(run[i - 1], ops[i])
  BY DEF Prefix
<1> DEFINE e == Effect(t, ops[n + 1])
           longer == [i \in 0 .. n + 1 |-> IF i = n + 1 THEN e ELSE run[i]]
<1>2. longer \in [0 .. n + 1 -> Tree] /\ longer[0] = from /\ longer[n + 1] = e
  <2>1. e \in Tree
    OBVIOUS
  <2> HIDE DEF e
  <2> QED
    BY <1>1, <2>1
<1>3. ASSUME NEW i \in 1 .. n + 1
      PROVE longer[i] = Effect(longer[i - 1], ops[i])
  <2>1. CASE i = n + 1
    <3>1. longer[i - 1] = t /\ longer[i] = e
      BY <1>1, <2>1
    <3> QED
      BY <2>1, <3>1
  <2>2. CASE i # n + 1
    <3>1. i \in 1 .. n /\ longer[i - 1] = run[i - 1] /\ longer[i] = run[i]
      BY <2>2
    <3> QED
      BY <1>1, <3>1
  <2> QED
    BY <2>1, <2>2
<1> HIDE DEF longer, e
<1>4. Prefix(ops, n + 1, from, e)
  BY <1>2, <1>3 DEF Prefix
<1> QED
  BY <1>4 DEF e
----------------------------------------------------------------------------
\* Types.

\* What a step of one call leaves of another: its own variables, and the target
\* unless it is disturbed.
LEMMA Beside ==
    ASSUME TypeOK, WorkInv, NEW p \in Appliers, Step(p), NEW w \in Appliers, w # p
    PROVE /\ pc'[w] = pc[w] /\ preview'[w] = preview[w] /\ snap'[w] = snap[w]
          /\ next'[w] = next[w] /\ readback'[w] = readback[w] /\ left'[w] = left[w]
          /\ ~disturbed'[w] /\ pc[w] \notin Off => ~disturbed[w] /\ UNCHANGED target
<1> USE DEF Go, Reads, Writes, target
<1>0. /\ DOMAIN pc = Appliers /\ DOMAIN preview = Appliers /\ DOMAIN snap = Appliers
      /\ DOMAIN next = Appliers /\ DOMAIN readback = Appliers /\ DOMAIN left = Appliers
      /\ disturbed \in [Appliers -> BOOLEAN]
  BY DEF TypeOK, WorkInv
<1>1. CASE RefuseLapsed(p) \/ Begin(p) \/ Check(p) \/ Finish(p)
  BY <1>0, <1>1 DEF RefuseLapsed, Begin, Check, Finish
<1>2. CASE Unlink(p) \/ ReadBack(p)
  BY <1>0, <1>2 DEF Unlink, ReadBack, Listed
<1>3. CASE MakeDirectories(p) \/ WriteTemporary(p) \/ Rename(p) \/ Fail(p)
  BY <1>0, <1>3 DEF MakeDirectories, WriteTemporary, Rename, Fail
<1>4. CASE Clear(p) \/ Refill(p) \/ Restored(p)
  <2>1. CASE Clear(p)
    BY <1>0, <2>1 DEF Clear
  <2>2. CASE Refill(p)
    BY <1>0, <2>2 DEF Refill
  <2>3. CASE Restored(p)
    BY <1>0, <2>3 DEF Restored
  <2> QED
    BY <1>4, <2>1, <2>2, <2>3
<1>5. CASE RestoreFails(p)
  BY <1>0, <1>5 DEF RestoreFails, Forget
<1>6. CASE Return(p) \/ Kill(p)
  BY <1>0, <1>6 DEF Return, Kill, Idle, Forget
<1> QED
  BY <1>1, <1>2, <1>3, <1>4, <1>5, <1>6 DEF Step

\* The operations of a preview.
LEMMA OperationsType ==
    ASSUME NEW v \in Previews
    PROVE /\ v.operations \in Seq(Operation) /\ Len(v.operations) \in Nat
          /\ DOMAIN v.operations = 1 .. Len(v.operations)
          /\ \A i \in DOMAIN v.operations : v.operations[i] \in Operation
          /\ \A i, j \in DOMAIN v.operations :
                v.operations[i].path = v.operations[j].path => i = j
BY DesiredAssumption DEF Previews

\* An operation has a path, and a content unless it removes.
LEMMA OperationType ==
    ASSUME NEW op \in Operation
    PROVE /\ op.path \in Paths
          /\ op.action \in {"create", "replace", "remove"}
          /\ op.action # "remove" => op.content \in Contents
          /\ op.action = "remove" => DOMAIN op = {"action", "path"}
          /\ op.action # "remove" => DOMAIN op = {"action", "path", "content"}
BY DEF Operation

\* The operation a call is at.
LEMMA AtOperation ==
    ASSUME WorkInv, NEW p \in Appliers, pc[p] \in AtWork, next[p] <= Len(Ops(p))
    PROVE Op(p) \in Operation /\ next[p] \in DOMAIN Ops(p)
<1>1. preview[p] \in Previews /\ next[p] \in 1 .. Len(Ops(p)) + 1
  BY DEF WorkInv
<1>2. Len(Ops(p)) \in Nat /\ DOMAIN Ops(p) = 1 .. Len(Ops(p))
          /\ \A i \in DOMAIN Ops(p) : Ops(p)[i] \in Operation
  BY <1>1, OperationsType DEF Ops
<1> QED
  BY <1>1, <1>2 DEF Op

\* What a step does to the target is a tree again, and temporary files stand in
\* directories.
LEMMA TreeStep ==
    ASSUME TypeOK, WorkInv, SnapInv, NEW p \in Appliers, Step(p)
    PROVE tree' \in Tree /\ temps' \subseteq Appliers \X Paths /\ Placed(tree', temps')
<1> USE DEF Go, Reads
<1>1. ASSUME UNCHANGED target
      PROVE tree' \in Tree /\ temps' \subseteq Appliers \X Paths /\ Placed(tree', temps')
  BY <1>1 DEF target, TypeOK
<1>11. ASSUME tree' \in Tree, \A b \in Paths : tree[b] = Dir => tree'[b] = Dir, temps' \subseteq temps
       PROVE tree' \in Tree /\ temps' \subseteq Appliers \X Paths /\ Placed(tree', temps')
  <2>1. temps \subseteq Appliers \X Paths /\ Placed(tree, temps)
    BY DEF TypeOK
  <2>2. Placed(tree', temps)
    BY <1>11, <2>1, StaysPlaced
  <2> QED
    BY <1>11, <2>1, <2>2 DEF Placed
<1>2. CASE Unlink(p)
  <2> DEFINE q == Op(p).path
  <2>1. q \in Paths
    BY <1>2, AtOperation, OperationType DEF Unlink, WorkInv, AtWork
  <2>2. tree[q] # Dir /\ tree' = [tree EXCEPT ![q] = Absent] /\ temps' = temps
    BY <1>2, HostAssumption DEF Unlink
  <2> HIDE DEF q
  <2>3. tree \in Tree
    BY DEF TypeOK
  <2>4. /\ [tree EXCEPT ![q] = Absent] \in Tree
        /\ \A b \in Paths : tree[b] = Dir => [tree EXCEPT ![q] = Absent][b] = Dir
    BY <2>1, <2>2, <2>3, FileGone
  <2> QED
    BY <1>11, <2>2, <2>4
<1>3. CASE MakeDirectories(p)
  <2> DEFINE q == Op(p).path
  <2>1. /\ pc[p] = "placing" /\ RoomFor(q) /\ tree' = MakeParents(tree, q) /\ temps' \subseteq temps
    BY <1>3 DEF MakeDirectories
  <2>2. q \in Paths
    BY <2>1, AtOperation, OperationType DEF WorkInv, AtWork
  <2> HIDE DEF q
  <2>3. tree' \in Tree /\ \A b \in Paths : tree[b] # Absent => tree'[b] = tree[b]
    BY <2>1, <2>2, ParentsMade DEF RoomFor, TypeOK
  <2> QED
    BY <1>11, <2>1, <2>3, HostAssumption
<1>4. CASE WriteTemporary(p) \/ (Fail(p) /\ ~UNCHANGED target)
  <2>1. /\ pc[p] = "writing" /\ \A a \in Above[Op(p).path] : tree[a] = Dir
        /\ tree' = tree /\ temps' = temps \cup {<<p, Op(p).path>>}
    BY <1>4 DEF WriteTemporary, Fail
  <2>2. Op(p).path \in Paths
    BY <2>1, AtOperation, OperationType DEF WorkInv, AtWork
  <2> QED
    BY <2>1, <2>2 DEF TypeOK, Placed
<1>5. CASE Rename(p)
  <2> DEFINE q == Op(p).path
             c == Op(p).content
  <2>1. q \in Paths /\ c \in Contents
    BY <1>5, AtOperation, OperationType DEF Rename, WorkInv, AtWork
  <2>2. \A a \in Above[q] : tree[a] = Dir
    BY <1>5 DEF Rename, TypeOK, Placed
  <2>3. tree[q] # Dir /\ tree' = [tree EXCEPT ![q] = c] /\ temps' \subseteq temps
    BY <1>5 DEF Rename
  <2> HIDE DEF q, c
  <2>4. tree \in Tree
    BY DEF TypeOK
  <2>5. /\ [tree EXCEPT ![q] = c] \in Tree
        /\ \A b \in Paths : tree[b] = Dir => [tree EXCEPT ![q] = c][b] = Dir
    BY <2>1, <2>2, <2>3, <2>4, FilePut
  <2> QED
    BY <1>11, <2>3, <2>5
<1>6. CASE Clear(p)
  BY <1>6 DEF Clear, Tree, Placed
<1>7. CASE Refill(p)
  <2>1. PICK q \in left[p] :
             /\ IF snap[p].tree[q] = Dir
                THEN tree[q] = Absent /\ \A a \in Above[q] : tree[a] = Dir
                ELSE tree[q] # Dir /\ RoomFor(q)
             /\ tree' = [MakeParents(tree, q) EXCEPT ![q] = snap[p].tree[q]]
    BY <1>7 DEF Refill
  <2>2. q \in Paths /\ snap[p].tree[q] \in Contents \cup {Dir}
    <3>1. snap[p].tree \in Tree
      BY DEF TypeOK, Snapshots
    <3> QED
      BY <1>7, <3>1 DEF Refill, SnapInv, Present, Tree
  <2>3. RoomFor(q) /\ tree[q] # Dir
    BY <2>1, HostAssumption DEF RoomFor
  <2> DEFINE m == MakeParents(tree, q)
  <2>4. m \in Tree /\ (\A a \in Above[q] : m[a] = Dir) /\ m[q] # Dir
            /\ \A b \in Paths : tree[b] # Absent => m[b] = tree[b]
    BY <2>2, <2>3, ParentsMade DEF RoomFor, TypeOK
  <2> HIDE DEF m
  <2>5. tree' \in Tree /\ \A b \in Paths : m[b] = Dir => tree'[b] = Dir
    <3>1. CASE snap[p].tree[q] = Dir
      <4>1. tree' = [m EXCEPT ![q] = Dir]
        BY <2>1, <3>1 DEF m
      <4> QED
        BY <2>2, <2>4, <4>1, HostAssumption DEF Tree
    <3>2. CASE snap[p].tree[q] \in Contents
      <4> DEFINE c == snap[p].tree[q]
      <4>1. tree' = [m EXCEPT ![q] = c]
        BY <2>1 DEF m
      <4>2. c \in Contents
        BY <3>2
      <4> HIDE DEF c
      <4>3. [m EXCEPT ![q] = c] \in Tree /\ \A b \in Paths : m[b] = Dir => [m EXCEPT ![q] = c][b] = Dir
        BY <2>2, <2>4, <4>2, FilePut
      <4> QED
        BY <4>1, <4>3
    <3> QED
      BY <2>2, <3>1, <3>2
  <2>6. \A b \in Paths : tree[b] = Dir => tree'[b] = Dir
    BY <2>4, <2>5, HostAssumption
  <2>7. temps' = temps
    BY <1>7 DEF Refill
  <2>8. Placed(tree', temps)
    BY <2>6, StaysPlaced DEF TypeOK
  <2> QED
    BY <2>5, <2>7, <2>8 DEF TypeOK
<1>8. CASE Restored(p)
  <2> DEFINE Needed == {a \in Paths : \E f \in snap[p].temps : a \in Above[f[2]]}
  <2>1. tree' = [q \in Paths |-> IF tree[q] = Absent /\ q \in Needed THEN Dir ELSE tree[q]]
    BY <1>8 DEF Restored
  <2>2. \A a \in Needed : tree[a] \in {Absent, Dir} /\ Above[a] \subseteq Needed
    <3>1. snap[p].temps \subseteq Appliers \X Paths
      BY DEF TypeOK, Snapshots
    <3>2. \A f \in snap[p].temps : f[2] \in Paths
      BY <3>1
    <3> QED
      BY <1>8, <3>2, HostAssumption DEF Restored, RoomFor
  <2> HIDE DEF Needed
  <2>3. tree' \in [Paths -> Contents \cup {Absent, Dir}]
    BY <2>1 DEF TypeOK, Tree
  <2>4. \A b \in Paths : tree[b] = Dir => tree'[b] = Dir
    BY <2>1
  <2>5. \A a \in Paths : a \in Needed => tree'[a] = Dir
    BY <2>1, <2>2
  <2>6. ASSUME NEW b \in Paths, tree'[b] # Absent
        PROVE \A a \in Above[b] : tree'[a] = Dir
    <3>1. CASE tree[b] # Absent
      BY <2>4, <3>1, HostAssumption DEF TypeOK, Tree
    <3>2. CASE tree[b] = Absent
      <4>1. b \in Needed
        BY <2>1, <2>6, <3>2
      <4> QED
        BY <2>2, <2>5, <4>1, HostAssumption
    <3> QED
      BY <3>1, <3>2
  <2>7. tree' \in Tree
    BY <2>3, <2>6 DEF Tree
  <2>8. temps' = temps \cup snap[p].temps /\ snap[p].temps \subseteq Appliers \X Paths
    BY <1>8 DEF Restored, TypeOK, Snapshots
  <2>9. Placed(tree', temps)
    BY <2>4, StaysPlaced DEF TypeOK
  <2>10. Placed(tree', snap[p].temps)
    <3>1. \A f \in snap[p].temps : Above[f[2]] \subseteq Needed /\ Above[f[2]] \subseteq Paths
      BY <2>8, HostAssumption DEF Needed
    <3> QED
      BY <2>5, <3>1 DEF Placed
  <2> QED
    BY <2>7, <2>8, <2>9, <2>10 DEF TypeOK, Placed
<1>9. CASE RestoreFails(p) /\ ~UNCHANGED target
  BY <1>9 DEF RestoreFails, TypeOK
<1>10. CASE \/ RefuseLapsed(p) \/ Begin(p) \/ Check(p) \/ ReadBack(p) \/ Finish(p) \/ Return(p)
            \/ Kill(p)
  BY <1>1, <1>10 DEF RefuseLapsed, Begin, Check, ReadBack, Finish, Return, Kill, Idle
<1> QED
  BY <1>1, <1>2, <1>3, <1>4, <1>5, <1>6, <1>7, <1>8, <1>9, <1>10 DEF Step

\* A measurement of the target is a snapshot.
LEMMA SnapshotType ==
    ASSUME TypeOK
    PROVE Snapshot \in Snapshots
BY DEF TypeOK, Snapshot, Snapshots

\* A result is listed when its operation is done.
LEMMA ListedStep ==
    ASSUME TypeOK, WorkInv, NEW p \in Appliers, pc[p] \in AtWork, next[p] \in DOMAIN Ops(p),
           NEW done \in Results, Listed(p, done), UNCHANGED preview
    PROVE /\ next' \in [Appliers -> Nat \ {0}] /\ readback' \in [Appliers -> Seq(Results)]
          /\ next'[p] = next[p] + 1 /\ next'[p] \in 1 .. Len(Ops(p)) + 1
          /\ readback'[p] = Append(readback[p], done)
          /\ Len(readback'[p]) = next'[p] - 1
<1>1. readback[p] \in Seq(Results) /\ next[p] \in Nat \ {0} /\ Len(readback[p]) = next[p] - 1
  BY DEF WorkInv, TypeOK
<1>2. next'[p] = next[p] + 1 /\ readback'[p] = Append(readback[p], done)
  BY DEF Listed, WorkInv
<1>3. next' \in [Appliers -> Nat \ {0}]
  BY <1>1 DEF Listed, WorkInv
<1>4. Append(readback[p], done) \in Seq(Results)
          /\ Len(Append(readback[p], done)) = Len(readback[p]) + 1
  BY <1>1
<1>5. readback' \in [Appliers -> Seq(Results)]
  BY <1>4 DEF Listed, WorkInv
<1>6. preview[p] \in Previews
  BY DEF WorkInv
<1>7. DOMAIN Ops(p) = 1 .. Len(Ops(p)) /\ Len(Ops(p)) \in Nat
  BY <1>6, OperationsType DEF Ops
<1>8. next'[p] \in 1 .. Len(Ops(p)) + 1
  BY <1>1, <1>2, <1>7
<1> QED
  BY <1>1, <1>2, <1>3, <1>4, <1>5, <1>8

\* What a step leaves of the sequences and counters of the calls.
LEMMA SequenceStep ==
    ASSUME TypeOK, WorkInv, NEW p \in Appliers, Step(p)
    PROVE /\ next' \in [Appliers -> Nat \ {0}] /\ readback' \in [Appliers -> Seq(Results)]
          /\ \A w \in Appliers : Len(readback'[w]) = next'[w] - 1
<1>1. ASSUME UNCHANGED <<next, readback>>
      PROVE /\ next' \in [Appliers -> Nat \ {0}] /\ readback' \in [Appliers -> Seq(Results)]
            /\ \A w \in Appliers : Len(readback'[w]) = next'[w] - 1
  BY <1>1 DEF TypeOK, WorkInv
<1>2. ASSUME next' = [next EXCEPT ![p] = 1], readback' = [readback EXCEPT ![p] = <<>>]
      PROVE /\ next' \in [Appliers -> Nat \ {0}] /\ readback' \in [Appliers -> Seq(Results)]
            /\ \A w \in Appliers : Len(readback'[w]) = next'[w] - 1
  BY <1>2 DEF TypeOK, WorkInv
<1>3. ASSUME NEW done \in Results, Listed(p, done), UNCHANGED preview, pc[p] \in AtWork,
             next[p] \in DOMAIN Ops(p)
      PROVE /\ next' \in [Appliers -> Nat \ {0}] /\ readback' \in [Appliers -> Seq(Results)]
            /\ \A w \in Appliers : Len(readback'[w]) = next'[w] - 1
  <2>1. \A w \in Appliers \ {p} : next'[w] = next[w] /\ readback'[w] = readback[w]
    BY <1>3 DEF Listed, WorkInv
  <2> QED
    BY <1>3, <2>1, ListedStep DEF TypeOK
<1>4. CASE Unlink(p)
  <2>1. pc[p] = "removing" /\ next[p] \in DOMAIN Ops(p)
    BY <1>4 DEF Unlink, Go, WorkInv
  <2>2. Op(p).path \in Paths
    BY <2>1, AtOperation, OperationType DEF WorkInv, AtWork, Op, Ops, Previews
  <2> DEFINE done == [path |-> Op(p).path, result |-> "removed"]
  <2>3. done \in Results
    BY <2>2 DEF Results
  <2>4. Listed(p, done) /\ UNCHANGED preview
    BY <1>4 DEF Unlink
  <2> HIDE DEF done
  <2> QED
    BY <1>3, <2>1, <2>3, <2>4 DEF AtWork
<1>5. CASE ReadBack(p)
  <2>1. pc[p] = "reading" /\ next[p] \in DOMAIN Ops(p)
    BY <1>5 DEF ReadBack, Go, WorkInv
  <2>2. Op(p).path \in Paths
    BY <2>1, AtOperation, OperationType DEF WorkInv, AtWork, Op, Ops, Previews
  <2> DEFINE done == [path |-> Op(p).path, content |-> tree[Op(p).path],
                      result |-> IF Op(p).action = "create" THEN "created" ELSE "replaced"]
  <2>3. done \in Results
    BY <1>5, <2>2 DEF Results, ReadBack
  <2>4. Listed(p, done) /\ UNCHANGED preview
    BY <1>5 DEF ReadBack
  <2> HIDE DEF done
  <2> QED
    BY <1>3, <2>1, <2>3, <2>4 DEF AtWork
<1>6. CASE RestoreFails(p) \/ Return(p) \/ Kill(p) \/ Clear(p)
  BY <1>2, <1>6 DEF RestoreFails, Return, Kill, Idle, Forget, Clear
<1>7. CASE \/ RefuseLapsed(p) \/ Begin(p) \/ Check(p) \/ MakeDirectories(p) \/ WriteTemporary(p)
           \/ Rename(p) \/ Fail(p) \/ Finish(p) \/ Refill(p) \/ Restored(p)
  BY <1>1, <1>7 DEF RefuseLapsed, Begin, Check, MakeDirectories, WriteTemporary, Rename, Fail, Finish,
                    Refill, Restored
<1> QED
  BY <1>4, <1>5, <1>6, <1>7 DEF Step

\* Which operation a call is at.
Place(p) ==
    /\ pc[p] \in AtWork \cup {"applied"} =>
          preview[p] \in Previews /\ next[p] \in 1 .. Len(Ops(p)) + 1
    /\ pc[p] \in {"removing", "placing", "writing", "renaming", "reading"} => next[p] \in DOMAIN Ops(p)
    /\ pc[p] = "removing" => Op(p).action = "remove"
    /\ pc[p] \in {"placing", "writing", "renaming", "reading"} => Op(p).action # "remove"
    /\ pc[p] = "applied" => next[p] = Len(Ops(p)) + 1
    /\ pc[p] \in Off => next[p] = 1

\* A call goes from one operation to the next.
LEMMA PlaceStep ==
    ASSUME TypeOK, WorkInv, NEW p \in Appliers, Step(p)
    PROVE Place(p)'
<1> USE DEF Go, Reads, Place
<1>0. /\ DOMAIN pc = Appliers /\ DOMAIN preview = Appliers /\ DOMAIN next = Appliers
      /\ next[p] \in Nat \ {0} /\ Place(p)
  BY DEF TypeOK, WorkInv
<1>1. ASSUME pc[p] \in AtWork
      PROVE /\ preview[p] \in Previews /\ Len(Ops(p)) \in Nat /\ DOMAIN Ops(p) = 1 .. Len(Ops(p))
            /\ next[p] \in 1 .. Len(Ops(p)) + 1
  BY <1>0, <1>1, OperationsType DEF Ops
<1>2. CASE RefuseLapsed(p)
  BY <1>0, <1>2 DEF RefuseLapsed, Off, AtWork
<1>3. CASE Begin(p)
  <2>1. PICK v \in previews : preview' = [preview EXCEPT ![p] = v]
    BY <1>3 DEF Begin
  <2>2. v \in Previews
    BY DEF TypeOK
  <2>3. pc[p] = "ready" /\ pc'[p] = "working" /\ next'[p] = 1 /\ preview'[p] = v
    BY <1>0, <1>3, <2>1 DEF Begin, Off
  <2>4. 1 \in 1 .. Len(v.operations) + 1
    BY <2>2, OperationsType
  <2> QED
    BY <2>2, <2>3, <2>4 DEF Ops, Off, AtWork
<1>4. CASE Check(p)
  <2>1. pc[p] = "working" /\ next[p] <= Len(Ops(p)) /\ UNCHANGED <<preview, next>>
    BY <1>4 DEF Check
  <2>2. next[p] \in DOMAIN Ops(p)
    BY <1>1, <2>1 DEF AtWork
  <2>3. \/ pc'[p] = "undoing"
        \/ pc'[p] = "removing" /\ Op(p).action = "remove"
        \/ pc'[p] = "placing" /\ Op(p).action # "remove"
    BY <1>0, <1>4 DEF Check
  <2>4. Op(p)' = Op(p) /\ Ops(p)' = Ops(p)
    BY <2>1 DEF Op, Ops
  <2> QED
    BY <1>1, <2>1, <2>2, <2>3, <2>4 DEF AtWork, Off
<1>5. CASE Unlink(p)
  <2>1. pc[p] = "removing" /\ pc'[p] = "working" /\ preview'[p] = preview[p] /\ next'[p] = next[p] + 1
    BY <1>0, <1>5 DEF Unlink, Listed
  <2>2. next[p] + 1 \in 1 .. Len(Ops(p)) + 1
    BY <1>0, <1>1, <2>1 DEF AtWork
  <2> QED
    BY <1>1, <2>1, <2>2 DEF AtWork, Off, Ops
<1>6. CASE MakeDirectories(p) \/ WriteTemporary(p) \/ Rename(p)
  <2>1. /\ pc[p] \in {"placing", "writing", "renaming"} /\ pc'[p] \in {"writing", "renaming", "reading"}
        /\ UNCHANGED <<preview, next>>
    BY <1>0, <1>6 DEF MakeDirectories, WriteTemporary, Rename
  <2>2. Op(p)' = Op(p) /\ Ops(p)' = Ops(p)
    BY <2>1 DEF Op, Ops
  <2> QED
    BY <1>0, <2>1, <2>2 DEF AtWork, Off
<1>7. CASE ReadBack(p)
  <2>1. pc[p] = "reading" /\ pc'[p] = "working" /\ preview'[p] = preview[p] /\ next'[p] = next[p] + 1
    BY <1>0, <1>7 DEF ReadBack, Listed
  <2>2. next[p] + 1 \in 1 .. Len(Ops(p)) + 1
    BY <1>0, <1>1, <2>1 DEF AtWork
  <2> QED
    BY <1>1, <2>1, <2>2 DEF AtWork, Off, Ops
<1>8. CASE Finish(p)
  <2>1. /\ pc[p] = "working" /\ pc'[p] = "applied" /\ next[p] > Len(Ops(p))
        /\ UNCHANGED <<preview, next>>
    BY <1>0, <1>8 DEF Finish
  <2>2. next[p] = Len(Ops(p)) + 1
    BY <1>1, <2>1 DEF AtWork
  <2>3. Ops(p)' = Ops(p)
    BY <2>1 DEF Ops
  <2> QED
    BY <1>1, <2>1, <2>2, <2>3 DEF AtWork, Off
<1>9. CASE Fail(p) \/ Clear(p) \/ Refill(p) \/ Restored(p)
  <2>1. pc'[p] \in {"undoing", "refilling", "restored"}
    BY <1>0, <1>9 DEF Fail, Clear, Refill, Restored
  <2> QED
    BY <2>1 DEF AtWork, Off
<1>10. CASE RestoreFails(p) \/ Return(p) \/ Kill(p)
  <2>1. pc'[p] \in {"broken", "ready"} /\ next'[p] = 1
    BY <1>0, <1>10 DEF RestoreFails, Return, Kill, Idle, Forget
  <2> QED
    BY <2>1 DEF AtWork, Off
<1> QED
  BY <1>2, <1>3, <1>4, <1>5, <1>6, <1>7, <1>8, <1>9, <1>10 DEF Step

\* Types are kept, and so is what a call has in hand.
LEMMA TypeStep ==
    ASSUME TypeOK, WorkInv, SnapInv, NEW p \in Appliers, Step(p)
    PROVE TypeOK' /\ WorkInv' /\ SnapInv'
<1> USE DEF Go, Reads, Writes
<1>1. WorkInv'
  <2>1. ASSUME NEW w \in Appliers, w # p
        PROVE Place(w)'
    <3>1. pc'[w] = pc[w] /\ preview'[w] = preview[w] /\ next'[w] = next[w]
      BY <2>1, Beside
    <3>2. Place(w)
      BY DEF WorkInv, Place
    <3> QED
      BY <3>1, <3>2 DEF Place, Op, Ops
  <2> QED
    BY <2>1, PlaceStep, SequenceStep DEF WorkInv, Place
<1>2. previews' = previews /\ drift' = drift /\ disturbed' \in [Appliers -> BOOLEAN]
  <2>1. CASE Fail(p) \/ Clear(p) \/ Refill(p) \/ Restored(p) \/ RestoreFails(p)
    BY <2>1 DEF Fail, Clear, Refill, Restored, RestoreFails, TypeOK
  <2>2. CASE Return(p) \/ Kill(p)
    BY <2>2 DEF Return, Kill, Idle, TypeOK
  <2>3. CASE Unlink(p) \/ MakeDirectories(p) \/ WriteTemporary(p) \/ Rename(p)
    BY <2>3 DEF Unlink, MakeDirectories, WriteTemporary, Rename, TypeOK
  <2>4. CASE RefuseLapsed(p) \/ Begin(p) \/ Check(p) \/ ReadBack(p) \/ Finish(p)
    BY <2>4 DEF RefuseLapsed, Begin, Check, ReadBack, Finish, TypeOK
  <2> QED
    BY <2>1, <2>2, <2>3, <2>4 DEF Step
<1>3. pc' \in [Appliers -> {"ready", "working", "removing", "placing", "writing", "renaming", "reading",
                            "refused", "applied", "undoing", "refilling", "restored", "broken"}]
  <2>1. pc \in [Appliers -> {"ready", "working", "removing", "placing", "writing", "renaming", "reading",
                             "refused", "applied", "undoing", "refilling", "restored", "broken"}]
    BY DEF TypeOK
  <2> QED
    BY <2>1 DEF Step, RefuseLapsed, Begin, Check, Unlink, MakeDirectories, WriteTemporary, Rename,
                ReadBack, Fail, Finish, Clear, Refill, Restored, RestoreFails, Return, Kill
<1>4. preview' \in [Appliers -> Previews \cup {NoPreview}] /\ snap' \in [Appliers -> Snapshots]
  <2>1. CASE Begin(p)
    BY <2>1, SnapshotType DEF Begin, TypeOK
  <2>2. CASE RestoreFails(p) \/ Return(p) \/ Kill(p)
    <3>1. Nothing \in Snapshots
      BY DEF Nothing, Snapshots, Tree
    <3>2. preview' = [preview EXCEPT ![p] = NoPreview] /\ snap' = [snap EXCEPT ![p] = Nothing]
      BY <2>2 DEF RestoreFails, Return, Kill, Idle, Forget
    <3>3. preview \in [Appliers -> Previews \cup {NoPreview}] /\ snap \in [Appliers -> Snapshots]
      BY DEF TypeOK
    <3> QED
      BY <3>1, <3>2, <3>3
  <2>3. CASE ~Begin(p) /\ ~RestoreFails(p) /\ ~Return(p) /\ ~Kill(p)
    <3>1. UNCHANGED <<preview, snap>>
      BY <2>3 DEF Step, RefuseLapsed, Check, Unlink, MakeDirectories, WriteTemporary, Rename, ReadBack,
                  Fail, Finish, Clear, Refill, Restored
    <3> QED
      BY <3>1 DEF TypeOK
  <2> QED
    BY <2>1, <2>2, <2>3
<1>5. left' \in [Appliers -> SUBSET Paths]
  <2>1. CASE Clear(p)
    BY <2>1 DEF Clear, TypeOK, Present
  <2>2. CASE Refill(p) \/ RestoreFails(p) \/ Return(p) \/ Kill(p)
    BY <2>2 DEF Refill, RestoreFails, Return, Kill, Idle, Forget, TypeOK
  <2>3. CASE ~Clear(p) /\ ~Refill(p) /\ ~RestoreFails(p) /\ ~Return(p) /\ ~Kill(p)
    <3>1. UNCHANGED left
      BY <2>3 DEF Step, RefuseLapsed, Begin, Check, Unlink, MakeDirectories, WriteTemporary, Rename,
                  ReadBack, Fail, Finish, Restored
    <3> QED
      BY <3>1 DEF TypeOK
  <2> QED
    BY <2>1, <2>2, <2>3
<1>6. \A w \in Appliers : preview'[w] # NoPreview => next'[w] \in 1 .. Len(Ops(w)') + 1
  <2>1. ASSUME NEW w \in Appliers, w # p, preview'[w] # NoPreview
        PROVE next'[w] \in 1 .. Len(Ops(w)') + 1
    BY <2>1, Beside DEF TypeOK, Ops
  <2>2. ASSUME preview'[p] # NoPreview
        PROVE next'[p] \in 1 .. Len(Ops(p)') + 1
    <3>1. CASE pc'[p] \in AtWork \cup {"applied"}
      BY <1>1, <3>1 DEF WorkInv
    <3>2. CASE UNCHANGED <<preview, next>>
      BY <2>2, <3>2 DEF TypeOK, Ops
    <3>3. CASE Clear(p)
      <4>1. preview'[p] = preview[p] /\ next'[p] = 1
        BY <3>3 DEF Clear, WorkInv
      <4>2. preview[p] \in Previews
        BY <2>2, <4>1 DEF TypeOK
      <4> QED
        BY <4>1, <4>2, OperationsType DEF Ops
    <3>4. CASE RestoreFails(p) \/ Return(p) \/ Kill(p)
      <4>1. preview' = [preview EXCEPT ![p] = NoPreview]
        BY <3>4 DEF RestoreFails, Return, Kill, Idle, Forget
      <4>2. preview \in [Appliers -> Previews \cup {NoPreview}]
        BY DEF TypeOK
      <4> QED
        BY <2>2, <4>1, <4>2
    <3>5. CASE Begin(p) \/ Unlink(p) \/ ReadBack(p)
      <4>1. pc'[p] = "working"
        BY <3>5 DEF Begin, Unlink, ReadBack, TypeOK
      <4> QED
        BY <3>1, <4>1 DEF AtWork
    <3> QED
      BY <3>2, <3>3, <3>4, <3>5 DEF Step, RefuseLapsed, Check, MakeDirectories, WriteTemporary, Rename,
                                    Fail, Finish, Refill, Restored
  <2> QED
    BY <2>1, <2>2
<1>7. TypeOK'
  BY <1>2, <1>3, <1>4, <1>5, <1>6, TreeStep, SequenceStep DEF TypeOK
<1>8. SnapInv'
  <2>1. ASSUME NEW w \in Appliers, w # p
        PROVE /\ Placed(snap'[w].tree, snap'[w].temps)
              /\ pc'[w] = "refilling" => left'[w] \subseteq Present(snap'[w].tree)
    BY <2>1, Beside DEF SnapInv
  <2>2. Placed(snap'[p].tree, snap'[p].temps)
    <3>1. CASE Begin(p)
      <4>1. snap'[p] = Snapshot
        BY <3>1 DEF Begin, TypeOK
      <4> QED
        BY <4>1 DEF Snapshot, TypeOK
    <3>2. CASE RestoreFails(p) \/ Return(p) \/ Kill(p)
      <4>1. snap'[p] = Nothing
        BY <3>2 DEF RestoreFails, Return, Kill, Idle, Forget, TypeOK
      <4> QED
        BY <4>1 DEF Nothing, Placed
    <3>3. CASE ~Begin(p) /\ ~RestoreFails(p) /\ ~Return(p) /\ ~Kill(p)
      <4>1. UNCHANGED snap
        BY <3>3 DEF Step, RefuseLapsed, Check, Unlink, MakeDirectories, WriteTemporary, Rename,
                    ReadBack, Fail, Finish, Clear, Refill, Restored
      <4> QED
        BY <4>1 DEF SnapInv
    <3> QED
      BY <3>1, <3>2, <3>3
  <2>3. ASSUME pc'[p] = "refilling"
        PROVE left'[p] \subseteq Present(snap'[p].tree)
    <3>1. Clear(p) \/ Refill(p)
      BY <2>3 DEF Step, RefuseLapsed, Begin, Check, Unlink, MakeDirectories, WriteTemporary, Rename,
                  ReadBack, Fail, Finish, Restored, RestoreFails, Return, Kill, TypeOK
    <3> QED
      BY <3>1 DEF Clear, Refill, SnapInv, TypeOK
  <2> QED
    BY <2>1, <2>2, <2>3 DEF SnapInv
<1> QED
  BY <1>1, <1>7, <1>8
----------------------------------------------------------------------------
\* What an undisturbed call knows.

\* The operations before the one a call is at have their results, which the
\* target still holds.
Done(p) ==
    /\ snap[p] = preview[p].prestate
    /\ \A i \in 1 .. next[p] - 1 :
          /\ readback[p][i] = Listing(Ops(p)[i])
          /\ Ops(p)[i].action # "remove" => tree[Ops(p)[i].path] = Ops(p)[i].content

\* What an operation does elsewhere undoes nothing.
LEMMA DoneStays ==
    ASSUME TypeOK, WorkInv, NEW p \in Appliers, pc[p] \in AtWork, Done(p),
           UNCHANGED <<preview, snap, next, readback>>,
           \A q \in Paths : tree[q] \in Contents /\ (next[p] \in DOMAIN Ops(p) => q # Op(p).path)
                               => tree'[q] = tree[q]
    PROVE Done(p)'
<1>1. preview[p] \in Previews /\ next[p] \in 1 .. Len(Ops(p)) + 1
  BY DEF WorkInv
<1>2. /\ Len(Ops(p)) \in Nat /\ DOMAIN Ops(p) = 1 .. Len(Ops(p))
      /\ \A i \in DOMAIN Ops(p) : Ops(p)[i] \in Operation
      /\ \A i, j \in DOMAIN Ops(p) : Ops(p)[i].path = Ops(p)[j].path => i = j
  BY <1>1, OperationsType DEF Ops
<1>3. Ops(p)' = Ops(p)
  BY DEF Ops
<1>4. ASSUME NEW i \in 1 .. next[p] - 1, Ops(p)[i].action # "remove"
      PROVE tree'[Ops(p)[i].path] = Ops(p)[i].content
  <2>1. i \in DOMAIN Ops(p) /\ i # next[p]
    BY <1>1, <1>2
  <2>2. Ops(p)[i].path \in Paths /\ Ops(p)[i].content \in Contents
    BY <1>2, <1>4, <2>1, OperationType
  <2>3. tree[Ops(p)[i].path] = Ops(p)[i].content
    BY <1>4 DEF Done
  <2>4. next[p] \in DOMAIN Ops(p) => Ops(p)[i].path # Op(p).path
    BY <1>2, <2>1 DEF Op
  <2> QED
    BY <2>2, <2>3, <2>4
<1> QED
  BY <1>3, <1>4 DEF Done

\* An operation is added to those that are done.
LEMMA DoneGrows ==
    ASSUME TypeOK, WorkInv, NEW p \in Appliers, pc[p] \in AtWork, next[p] \in DOMAIN Ops(p), Done(p),
           NEW done \in Results, Listed(p, done), done = Listing(Op(p)),
           UNCHANGED <<preview, snap>>,
           \A q \in Paths : q # Op(p).path => tree'[q] = tree[q],
           Op(p).action # "remove" => tree'[Op(p).path] = Op(p).content
    PROVE Done(p)'
<1>1. preview[p] \in Previews
  BY DEF WorkInv
<1>2. /\ Len(Ops(p)) \in Nat /\ DOMAIN Ops(p) = 1 .. Len(Ops(p))
      /\ \A i \in DOMAIN Ops(p) : Ops(p)[i] \in Operation
      /\ \A i, j \in DOMAIN Ops(p) : Ops(p)[i].path = Ops(p)[j].path => i = j
  BY <1>1, OperationsType DEF Ops
<1>3. Ops(p)' = Ops(p)
  BY DEF Ops
<1>4. next'[p] = next[p] + 1 /\ readback'[p] = Append(readback[p], done)
          /\ readback[p] \in Seq(Results) /\ Len(readback[p]) = next[p] - 1 /\ next[p] \in Nat \ {0}
  BY ListedStep DEF WorkInv, TypeOK
<1>5. ASSUME NEW i \in 1 .. next[p]
      PROVE /\ readback'[p][i] = Listing(Ops(p)[i])
            /\ Ops(p)[i].action # "remove" => tree'[Ops(p)[i].path] = Ops(p)[i].content
  <2>1. CASE i = next[p]
    <3>1. readback'[p][i] = done
      BY <1>4, <2>1
    <3> QED
      BY <2>1, <3>1 DEF Op
  <2>2. CASE i # next[p]
    <3>1. i \in 1 .. next[p] - 1 /\ i \in DOMAIN Ops(p)
      BY <1>2, <1>4, <2>2
    <3>2. readback'[p][i] = readback[p][i]
      BY <1>4, <3>1
    <3>3. Ops(p)[i].path # Op(p).path /\ Ops(p)[i].path \in Paths
      BY <1>2, <2>2, <3>1, OperationType DEF Op
    <3> QED
      BY <3>1, <3>2, <3>3 DEF Done
  <2> QED
    BY <2>1, <2>2
<1>6. 1 .. next'[p] - 1 = 1 .. next[p]
  BY <1>4
<1>7. snap'[p] = preview'[p].prestate
  BY DEF Done
<1> QED
  BY <1>3, <1>5, <1>6, <1>7 DEF Done

\* The tree reached grows by the effect of the operation.
LEMMA ReachedGrows ==
    ASSUME TypeOK, WorkInv, NEW p \in Appliers, pc[p] \in AtWork, NEW t, Reached(p, t),
           next'[p] = next[p] + 1, UNCHANGED <<preview, snap>>, Effect(t, Op(p)) \in Tree,
           tree' = Effect(t, Op(p))
    PROVE Reached(p, tree)'
<1>1. next[p] \in Nat \ {0}
  BY DEF WorkInv
<1> DEFINE n == next[p] - 1
<1>2. n \in Nat /\ n + 1 = next[p] /\ next'[p] - 1 = n + 1
  BY <1>1
<1>3. Prefix(Ops(p), n, snap[p].tree, t)
  BY DEF Reached
<1>4. Ops(p)[n + 1] = Op(p)
  BY <1>2 DEF Op
<1> HIDE DEF n
<1>5. Prefix(Ops(p), n + 1, snap[p].tree, Effect(t, Ops(p)[n + 1]))
  BY <1>2, <1>3, <1>4, PrefixGrows
<1>6. Ops(p)' = Ops(p)
  BY DEF Ops
<1> QED
  BY <1>2, <1>4, <1>5, <1>6 DEF Reached

\* The steps that work.
LEMMA WorkingStep ==
    ASSUME TypeOK, WorkInv, TypeOK', NEW p \in Appliers, Alone(p),
           \/ Check(p) \/ Unlink(p) \/ MakeDirectories(p) \/ WriteTemporary(p) \/ Rename(p)
           \/ ReadBack(p) \/ Finish(p)
    PROVE Alone(p)'
<1> USE DEF Go, Reads
<1>0. /\ DOMAIN pc = Appliers /\ next[p] \in Nat \ {0} /\ DOMAIN next = Appliers
      /\ tree \in Tree /\ tree' \in Tree
  BY DEF TypeOK, WorkInv
<1>1. pc[p] \in AtWork /\ Done(p)
  BY DEF Check, Unlink, MakeDirectories, WriteTemporary, Rename, ReadBack, Finish, AtWork, Alone, Done
<1>2. next[p] \in DOMAIN Ops(p) =>
        /\ Op(p) \in Operation /\ Op(p).path \in Paths
        /\ Op(p).action # "remove" => Op(p).content \in Contents
  <2>1. preview[p] \in Previews
    BY <1>1 DEF WorkInv
  <2>2. next[p] \in DOMAIN Ops(p) => Op(p) \in Operation
    BY <2>1, OperationsType DEF Op, Ops
  <2> QED
    BY <2>2, OperationType
<1>3. CASE Check(p) \/ Finish(p)
  <2>1. UNCHANGED <<tree, temps, preview, snap, next, readback>>
    BY <1>3 DEF Check, Finish, target
  <2>2. Done(p)'
    BY <1>1, <2>1, DoneStays
  <2>3. pc[p] = "working" /\ pc'[p] \in {"undoing", "removing", "placing", "applied"}
    BY <1>0, <1>3 DEF Check, Finish
  <2>4. Reached(p, tree)' /\ temps' \subseteq snap'[p].temps
    BY <2>1, <2>3 DEF Alone, Reached, Ops
  <2> QED
    BY <2>2, <2>3, <2>4 DEF Alone, Done, AtWork
<1>4. CASE Unlink(p)
  <2>1. /\ pc[p] = "removing" /\ pc'[p] = "working" /\ UNCHANGED <<temps, preview, snap>>
        /\ tree' = [tree EXCEPT ![Op(p).path] = Absent]
        /\ Listed(p, [path |-> Op(p).path, result |-> "removed"])
    BY <1>0, <1>4 DEF Unlink
  <2>2. next[p] \in DOMAIN Ops(p) /\ Op(p).action = "remove"
    BY <2>1 DEF WorkInv
  <2>3. tree' = Effect(tree, Op(p))
    BY <2>1, <2>2 DEF Effect
  <2>4. next'[p] = next[p] + 1
    BY <1>0, <2>1 DEF Listed
  <2>5. Reached(p, tree)'
    BY <1>0, <1>1, <2>1, <2>3, <2>4, ReachedGrows DEF Alone
  <2>6. [path |-> Op(p).path, result |-> "removed"] \in Results
    BY <1>2, <2>2 DEF Results
  <2>7. [path |-> Op(p).path, result |-> "removed"] = Listing(Op(p))
    BY <2>2 DEF Listing
  <2>8. \A q \in Paths : q # Op(p).path => tree'[q] = tree[q]
    BY <1>0, <2>1 DEF Tree
  <2>9. Done(p)'
    BY <1>1, <2>1, <2>2, <2>6, <2>7, <2>8, DoneGrows
  <2>10. temps' \subseteq snap'[p].temps
    BY <2>1 DEF Alone
  <2> QED
    BY <2>1, <2>5, <2>9, <2>10 DEF Alone, Done, AtWork
<1>5. CASE MakeDirectories(p)
  <2>1. /\ pc[p] = "placing" /\ pc'[p] = "writing"
        /\ UNCHANGED <<temps, preview, snap, next, readback>>
        /\ tree' = MakeParents(tree, Op(p).path) /\ RoomFor(Op(p).path)
    BY <1>0, <1>5 DEF MakeDirectories
  <2>2. \A q \in Paths : tree[q] \in Contents => tree'[q] = tree[q]
    <3>1. \A b \in Paths : tree[b] # Absent => MakeParents(tree, Op(p).path)[b] = tree[b]
      BY DEF MakeParents
    <3> QED
      BY <2>1, <3>1, HostAssumption
  <2>3. Done(p)'
    BY <1>1, <2>1, <2>2, DoneStays
  <2>4. Op(p)' = Op(p) /\ Ops(p)' = Ops(p)
    BY <2>1 DEF Op, Ops
  <2>5. \E t \in Tree : Reached(p, t)' /\ tree' = MakeParents(t, Op(p).path)
    BY <1>0, <2>1, <2>4 DEF Alone, Reached
  <2>6. temps' \subseteq snap'[p].temps
    BY <2>1 DEF Alone
  <2> QED
    BY <2>1, <2>3, <2>4, <2>5, <2>6 DEF Alone, Done, AtWork, Reached
<1>6. CASE WriteTemporary(p)
  <2>1. /\ pc[p] = "writing" /\ pc'[p] = "renaming"
        /\ UNCHANGED <<tree, preview, snap, next, readback>>
        /\ temps' = temps \cup {<<p, Op(p).path>>}
    BY <1>0, <1>6 DEF WriteTemporary
  <2>2. Done(p)'
    BY <1>1, <2>1, DoneStays
  <2>3. Op(p)' = Op(p) /\ Ops(p)' = Ops(p)
    BY <2>1 DEF Op, Ops
  <2>4. \E t \in Tree : Reached(p, t)' /\ tree' = MakeParents(t, Op(p).path)
    BY <2>1, <2>3 DEF Alone, Reached
  <2>5. temps' \subseteq snap'[p].temps \cup {<<p, Op(p).path>>}
    BY <2>1 DEF Alone
  <2> QED
    BY <2>1, <2>2, <2>3, <2>4, <2>5 DEF Alone, Done, AtWork, Reached
<1>7. CASE Rename(p)
  <2>1. /\ pc[p] = "renaming" /\ pc'[p] = "reading" /\ UNCHANGED <<preview, snap, next, readback>>
        /\ tree' = [tree EXCEPT ![Op(p).path] = Op(p).content]
        /\ temps' = temps \ {<<p, Op(p).path>>}
    BY <1>0, <1>7 DEF Rename
  <2>2. next[p] \in DOMAIN Ops(p) /\ Op(p).action # "remove"
    BY <2>1 DEF WorkInv
  <2>3. \A q \in Paths : tree[q] \in Contents /\ (next[p] \in DOMAIN Ops(p) => q # Op(p).path)
                            => tree'[q] = tree[q]
    BY <1>0, <2>1, <2>2 DEF Tree
  <2>4. Done(p)'
    BY <1>1, <2>1, <2>3, DoneStays
  <2>5. Op(p)' = Op(p) /\ Ops(p)' = Ops(p)
    BY <2>1 DEF Op, Ops
  <2>6. PICK t \in Tree : Reached(p, t) /\ tree = MakeParents(t, Op(p).path)
    BY <2>1 DEF Alone
  <2>7. tree' = Effect(t, Op(p))
    BY <2>1, <2>2, <2>6 DEF Effect
  <2>8. Reached(p, t)'
    BY <2>1, <2>5, <2>6 DEF Reached
  <2>9. temps' \subseteq snap'[p].temps
    BY <2>1 DEF Alone
  <2> QED
    BY <2>1, <2>4, <2>5, <2>7, <2>8, <2>9 DEF Alone, Done, AtWork
<1>8. CASE ReadBack(p)
  <2> DEFINE done == [path |-> Op(p).path, content |-> tree[Op(p).path],
                      result |-> IF Op(p).action = "create" THEN "created" ELSE "replaced"]
  <2>1. /\ pc[p] = "reading" /\ pc'[p] = "working" /\ UNCHANGED <<tree, temps, preview, snap>>
        /\ tree[Op(p).path] \in Contents
        /\ Listed(p, done)
    BY <1>0, <1>8 DEF ReadBack, target
  <2>2. next[p] \in DOMAIN Ops(p) /\ Op(p).action # "remove" /\ Op(p).path \in Paths
    BY <1>2, <2>1 DEF WorkInv
  <2>3. PICK t \in Tree : Reached(p, t) /\ tree = Effect(t, Op(p))
    BY <2>1 DEF Alone
  <2>4. tree[Op(p).path] = Op(p).content
    <3>1. tree = [MakeParents(t, Op(p).path) EXCEPT ![Op(p).path] = Op(p).content]
      BY <2>2, <2>3 DEF Effect
    <3>2. DOMAIN MakeParents(t, Op(p).path) = Paths
      BY DEF MakeParents
    <3> QED
      BY <2>2, <3>1, <3>2
  <2>5. done \in Results
    BY <2>1, <2>2 DEF Results
  <2>6. done = Listing(Op(p))
    BY <2>2, <2>4 DEF Listing
  <2>7. next'[p] = next[p] + 1
    BY <1>0, <2>1 DEF Listed
  <2> HIDE DEF done
  <2>8. Reached(p, tree)'
    BY <1>0, <1>1, <2>1, <2>3, <2>7, ReachedGrows
  <2>9. Done(p)'
    BY <1>1, <2>1, <2>2, <2>4, <2>5, <2>6, DoneGrows
  <2>10. temps' \subseteq snap'[p].temps
    BY <2>1 DEF Alone
  <2> QED
    BY <2>1, <2>8, <2>9, <2>10 DEF Alone, Done, AtWork
<1> QED
  BY <1>3, <1>4, <1>5, <1>6, <1>7, <1>8

\* A call begins on the state its preview was measured on.
LEMMA BeginningStep ==
    ASSUME TypeOK, WorkInv, NEW p \in Appliers, Begin(p)
    PROVE Alone(p)'
<1>1. PICK v \in previews : v.prestate = Snapshot /\ preview' = [preview EXCEPT ![p] = v]
  BY DEF Begin
<1>2. /\ pc'[p] = "working" /\ next'[p] = 1 /\ snap'[p] = Snapshot /\ preview'[p] = v
      /\ UNCHANGED <<tree, temps>>
  BY <1>1 DEF Begin, Go, Reads, target, TypeOK, WorkInv, Off
<1>3. Snapshot.tree = tree /\ Snapshot.temps = temps
  BY DEF Snapshot
<1>4. Prefix(Ops(p)', 0, tree, tree)
  <2> DEFINE run == [i \in 0 .. 0 |-> tree]
  <2>1. run \in [0 .. 0 -> Tree] /\ run[0] = tree /\ 1 .. 0 = {}
    BY DEF TypeOK
  <2> HIDE DEF run
  <2> QED
    BY <2>1 DEF Prefix
<1>5. Reached(p, tree)'
  BY <1>2, <1>3, <1>4 DEF Reached
<1>6. 1 .. next'[p] - 1 = {}
  BY <1>2
<1> QED
  BY <1>1, <1>2, <1>3, <1>5, <1>6 DEF Alone, AtWork

\* The steps that restore: what is refilled stays as the snapshot has it, and
\* making parents changes nothing, for the snapshot has them.
LEMMA RestoringStep ==
    ASSUME TypeOK, SnapInv, NEW p \in Appliers, pc[p] = "refilling" => Alone(p),
           Clear(p) \/ Refill(p) \/ Restored(p)
    PROVE Alone(p)'
<1> USE DEF Go
<1>0. /\ DOMAIN pc = Appliers /\ left \in [Appliers -> SUBSET Paths]
      /\ snap[p] \in Snapshots /\ snap[p].tree \in Tree
  BY DEF TypeOK, Snapshots
<1>1. CASE Clear(p)
  <2>1. /\ pc'[p] = "refilling" /\ tree' = [q \in Paths |-> Absent] /\ temps' = {}
        /\ snap' = snap /\ left'[p] = Present(snap[p].tree)
    BY <1>0, <1>1 DEF Clear
  <2> QED
    BY <1>0, <2>1 DEF Alone, AtWork, Present
<1>2. CASE Refill(p)
  <2>1. pc[p] = "refilling" /\ pc' = pc /\ temps' = temps /\ snap' = snap
    BY <1>2 DEF Refill
  <2>2. PICK q \in left[p] :
             /\ Above[q] \cap left[p] = {}
             /\ tree' = [MakeParents(tree, q) EXCEPT ![q] = snap[p].tree[q]]
             /\ left' = [left EXCEPT ![p] = @ \ {q}]
    BY <1>2 DEF Refill
  <2>3. q \in Paths /\ snap[p].tree[q] # Absent
    BY <2>1 DEF SnapInv, Present
  <2>4. \A b \in Paths : tree[b] = IF b \in left[p] THEN Absent ELSE snap[p].tree[b]
    BY <2>1 DEF Alone
  <2>5. \A a \in Above[q] : a \in Paths /\ tree[a] = Dir
    <3>1. \A a \in Above[q] : a \in Paths /\ a \notin left[p] /\ snap[p].tree[a] = Dir
      BY <1>0, <2>2, <2>3, HostAssumption DEF Tree
    <3> QED
      BY <2>4, <3>1
  <2>6. \A b \in Paths : MakeParents(tree, q)[b] = tree[b]
    BY <2>5, HostAssumption DEF MakeParents
  <2>7. DOMAIN MakeParents(tree, q) = Paths
    BY DEF MakeParents
  <2>8. \A b \in Paths : tree'[b] = IF b = q THEN snap[p].tree[q] ELSE tree[b]
    BY <2>2, <2>6, <2>7
  <2>9. left'[p] = left[p] \ {q}
    BY <1>0, <2>2
  <2>10. \A b \in Paths : tree'[b] = IF b \in left'[p] THEN Absent ELSE snap'[p].tree[b]
    BY <2>1, <2>4, <2>8, <2>9
  <2>11. temps' = {}
    BY <2>1 DEF Alone
  <2> QED
    BY <2>1, <2>10, <2>11 DEF Alone, AtWork
<1>3. CASE Restored(p)
  <2>1. /\ pc[p] = "refilling" /\ pc'[p] = "restored" /\ left[p] = {} /\ snap' = snap
        /\ temps' = temps \cup snap[p].temps
        /\ tree' = [q \in Paths |-> IF tree[q] = Absent /\ \E f \in snap[p].temps : q \in Above[f[2]]
                                   THEN Dir ELSE tree[q]]
    BY <1>0, <1>3 DEF Restored
  <2>2. temps = {} /\ \A q \in Paths : tree[q] = snap[p].tree[q]
    BY <2>1 DEF Alone
  <2>3. \A f \in snap[p].temps : \A a \in Above[f[2]] : snap[p].tree[a] = Dir
    BY DEF SnapInv, Placed
  <2>4. \A q \in Paths : tree'[q] = snap[p].tree[q]
    BY <2>1, <2>2, <2>3, HostAssumption
  <2>5. tree' = snap[p].tree /\ temps' = snap[p].temps
    BY <1>0, <2>1, <2>2, <2>4 DEF Tree
  <2>6. Snapshot' = snap'[p]
    BY <1>0, <2>1, <2>5 DEF Snapshot, Snapshots
  <2> QED
    BY <2>1, <2>6 DEF Alone, AtWork
<1> QED
  BY <1>1, <1>2, <1>3

\* What an undisturbed call knows survives the steps of the others, which would
\* have disturbed it, and its own steps make true what they say.
LEMMA AloneStep ==
    ASSUME IInv, TypeOK', NEW p \in Appliers, Step(p)
    PROVE AloneInv'
<1>1. ASSUME NEW w \in Appliers, w # p, ~disturbed'[w]
      PROVE Alone(w)'
  <2>1. /\ pc'[w] = pc[w] /\ preview'[w] = preview[w] /\ snap'[w] = snap[w]
        /\ next'[w] = next[w] /\ readback'[w] = readback[w] /\ left'[w] = left[w]
    BY <1>1, Beside DEF IInv
  <2>2. CASE pc[w] \in Off
    BY <2>1, <2>2 DEF Alone, Off, AtWork
  <2>3. CASE pc[w] \notin Off
    <3>1. Alone(w) /\ tree' = tree /\ temps' = temps
      BY <1>1, <2>3, Beside DEF IInv, AloneInv, target
    <3>2. Ops(w)' = Ops(w) /\ Op(w)' = Op(w)
      BY <2>1 DEF Ops, Op
    <3> QED
      BY <2>1, <3>1, <3>2 DEF Alone, Reached, Snapshot
  <2> QED
    BY <2>2, <2>3
<1>2. ASSUME ~disturbed'[p]
      PROVE Alone(p)'
  <2>1. CASE \/ Check(p) \/ Unlink(p) \/ MakeDirectories(p) \/ WriteTemporary(p) \/ Rename(p)
             \/ ReadBack(p) \/ Finish(p)
    <3>1. ~disturbed[p]
      BY <1>2, <2>1 DEF Check, Unlink, MakeDirectories, WriteTemporary, Rename, ReadBack, Finish, Go,
                        Reads, Writes, Off, IInv, TypeOK
    <3> QED
      BY <2>1, <3>1, WorkingStep DEF IInv, AloneInv
  <2>2. CASE Begin(p)
    BY <2>2, BeginningStep DEF IInv
  <2>3. CASE Clear(p) \/ Refill(p) \/ Restored(p)
    <3>1. pc[p] = "refilling" => ~disturbed[p]
      BY <1>2, <2>3 DEF Clear, Refill, Restored, Go, Writes, Off, IInv, TypeOK
    <3> QED
      BY <2>3, <3>1, RestoringStep DEF IInv, AloneInv
  <2>4. CASE RefuseLapsed(p) \/ Fail(p) \/ RestoreFails(p) \/ Return(p) \/ Kill(p)
    <3>1. pc'[p] \in {"refused", "undoing", "broken", "ready"}
      BY <2>4 DEF RefuseLapsed, Fail, RestoreFails, Return, Kill, Go, IInv, TypeOK
    <3> QED
      BY <3>1 DEF Alone, AtWork
  <2> QED
    BY <2>1, <2>2, <2>3, <2>4 DEF Step
<1> QED
  BY <1>1, <1>2 DEF AloneInv

\* A call at work stays what it was, or has just begun, or ends.
LEMMA OwnStep ==
    ASSUME TypeOK, NEW p \in Appliers, Step(p)
    PROVE \/ Begin(p) /\ p \notin Midway
          \/ p \in Midway /\ snap'[p] = snap[p] /\ preview'[p] = preview[p]
          \/ p \notin Midway'
<1> USE DEF Go, Reads, Writes
<1>1. CASE RefuseLapsed(p) \/ Return(p) \/ Kill(p) \/ RestoreFails(p) \/ Finish(p) \/ Restored(p)
  BY <1>1 DEF RefuseLapsed, Return, Kill, RestoreFails, Finish, Restored, Midway, TypeOK
<1>2. CASE Begin(p)
  BY <1>2 DEF Begin, Midway
<1>3. CASE \/ Check(p) \/ Unlink(p) \/ MakeDirectories(p) \/ WriteTemporary(p) \/ Rename(p)
           \/ ReadBack(p) \/ Fail(p) \/ Clear(p) \/ Refill(p)
  BY <1>3 DEF Check, Unlink, MakeDirectories, WriteTemporary, Rename, ReadBack, Fail, Clear, Refill,
              Midway
<1> QED
  BY <1>1, <1>2, <1>3 DEF Step

\* A write leaves one undisturbed call at work at most.
LEMMA FirstStep ==
    ASSUME IInv, NEW p \in Appliers, Step(p)
    PROVE FirstInv'
<1> SUFFICES ASSUME NEW v \in Midway', NEW w \in Midway', ~disturbed'[v], ~disturbed'[w], v # w
             PROVE snap'[v] = Snapshot' \/ snap'[w] = Snapshot'
  BY DEF FirstInv
<1>1. ASSUME NEW x \in Midway', ~disturbed'[x], x # p
      PROVE x \in Midway /\ ~disturbed[x] /\ snap'[x] = snap[x] /\ Snapshot' = Snapshot
  <2>1. x \in Appliers
    BY <1>1 DEF Midway
  <2>2. pc'[x] = pc[x] /\ snap'[x] = snap[x] /\ (pc[x] \notin Off => ~disturbed[x] /\ UNCHANGED target)
    BY <1>1, <2>1, Beside DEF IInv
  <2> QED
    BY <1>1, <2>1, <2>2 DEF Midway, Off, target, Snapshot
<1>2. CASE v # p /\ w # p
  BY <1>1, <1>2 DEF IInv, FirstInv
<1>3. ASSUME NEW x \in Midway', ~disturbed'[x], x # p, p \in Midway', ~disturbed'[p]
      PROVE snap'[x] = Snapshot' \/ snap'[p] = Snapshot'
  <2>1. x \in Midway /\ ~disturbed[x] /\ snap'[x] = snap[x] /\ Snapshot' = Snapshot
    BY <1>1, <1>3
  <2>2. CASE Begin(p)
    BY <2>1, <2>2 DEF Begin, IInv, TypeOK
  <2>3. CASE p \in Midway /\ snap'[p] = snap[p] /\ ~disturbed[p]
    BY <1>3, <2>1, <2>3 DEF IInv, FirstInv
  <2>4. CASE p \in Midway /\ disturbed[p]
    \* Only the restoration makes a call undisturbed, and it disturbs the others.
    <3>1. pc[p] \notin Off /\ disturbed \in [Appliers -> BOOLEAN]
      BY <2>4 DEF Midway, Off, IInv, TypeOK
    <3>2. Clear(p) \/ p \notin Midway'
      <4>1. CASE RefuseLapsed(p) \/ Begin(p) \/ Check(p) \/ ReadBack(p) \/ Finish(p)
        BY <1>3, <2>4, <4>1 DEF RefuseLapsed, Begin, Check, ReadBack, Finish, Reads
      <4>2. CASE \/ Unlink(p) \/ MakeDirectories(p) \/ WriteTemporary(p) \/ Rename(p)
                 \/ Refill(p) \/ Restored(p) \/ RestoreFails(p)
        BY <1>3, <2>4, <3>1, <4>2 DEF Unlink, MakeDirectories, WriteTemporary, Rename, Refill, Restored,
                                      RestoreFails, Writes
      <4>3. CASE Fail(p)
        BY <1>3, <2>4, <3>1, <4>3 DEF Fail, Writes
      <4>4. CASE Return(p) \/ Kill(p)
        BY <4>4 DEF Return, Kill, Midway, IInv, TypeOK
      <4> QED
        BY <4>1, <4>2, <4>3, <4>4 DEF Step
    <3>3. CASE Clear(p)
      BY <1>3, <2>1, <3>3 DEF Clear, Midway, Off
    <3> QED
      BY <1>3, <3>2, <3>3
  <2> QED
    BY <1>3, <2>2, <2>3, <2>4, OwnStep DEF IInv
<1> QED
  BY <1>2, <1>3

\* Others write, and previews come and go.
LEMMA OtherStep ==
    ASSUME IInv, Build \/ Lapse \/ Drift
    PROVE IInv'
<1>1. CASE Build \/ Lapse
  <2>1. UNCHANGED <<target, local, disturbed, drift>>
    BY <1>1 DEF Build, Lapse
  <2>2. previews' \subseteq Previews
    BY <1>1, SnapshotType DEF Build, Lapse, Previews, IInv, TypeOK
  <2>3. TypeOK'
    BY <2>1, <2>2 DEF target, local, IInv, TypeOK, Ops
  <2>4. WorkInv' /\ SnapInv' /\ FirstInv'
    BY <2>1 DEF target, local, IInv, WorkInv, SnapInv, FirstInv, Midway, Snapshot, Ops, Op
  <2>5. AloneInv'
    <3>1. ASSUME NEW p \in Appliers, Alone(p)
          PROVE Alone(p)'
      BY <2>1, <3>1 DEF target, local, Alone, Reached, Snapshot, Ops, Op
    <3> QED
      BY <2>1, <3>1 DEF IInv, AloneInv
  <2> QED
    BY <2>3, <2>4, <2>5 DEF IInv
<1>2. CASE Drift
  <2>1. UNCHANGED <<temps, previews, local>> /\ \A p \in Appliers : disturbed'[p] = (pc[p] \notin Off)
    BY <1>2 DEF Drift
  <2>2. PICK q \in Paths, c \in Contents \cup {Absent} :
             /\ tree[q] \in (Contents \cup {Absent}) \ {c}
             /\ tree' = [tree EXCEPT ![q] = c]
             /\ tree' \in Tree
    BY <1>2 DEF Drift
  <2>3. \A b \in Paths : tree[b] = Dir => tree'[b] = Dir
    BY <2>2, HostAssumption
  <2>4. Placed(tree', temps)
    BY <2>3, StaysPlaced DEF IInv, TypeOK
  <2>5. drift' \in 0 .. MaxDrift /\ disturbed' \in [Appliers -> BOOLEAN]
    BY <1>2, HostAssumption DEF Drift, IInv, TypeOK
  <2>6. TypeOK'
    BY <2>1, <2>2, <2>4, <2>5 DEF local, IInv, TypeOK, Ops
  <2>7. WorkInv' /\ SnapInv'
    BY <2>1 DEF local, IInv, WorkInv, SnapInv, Ops, Op
  <2>8. AloneInv'
    <3>1. ASSUME NEW p \in Appliers, pc[p] \in Off
          PROVE Alone(p)'
      BY <2>1, <3>1 DEF local, Alone, AtWork, Off
    <3> QED
      BY <2>1, <3>1 DEF AloneInv
  <2>9. FirstInv'
    BY <2>1 DEF local, FirstInv, Midway, Off
  <2> QED
    BY <2>6, <2>7, <2>8, <2>9 DEF IInv
<1> QED
  BY <1>1, <1>2

\* Every state the program starts in satisfies the invariant.
LEMMA InitInv ==
    ASSUME Init
    PROVE IInv
<1>1. Nothing \in Snapshots
  BY DEF Nothing, Snapshots, Tree
<1>2. TypeOK
  BY <1>1, HostAssumption DEF Init, TypeOK, Placed
<1>3. WorkInv
  BY DEF Init, WorkInv, AtWork, Off
<1>4. SnapInv
  BY DEF Init, SnapInv, Nothing, Placed
<1>5. AloneInv /\ FirstInv
  BY DEF Init, AloneInv, Alone, FirstInv, Midway, AtWork
<1> QED
  BY <1>2, <1>3, <1>4, <1>5 DEF IInv

\* The invariant holds of every behaviour of apply_preview.
THEOREM Invariance == Spec => []IInv
<1>1. Init => IInv
  BY InitInv
<1>2. IInv /\ [Next]_vars => IInv'
  <2>1. ASSUME IInv, NEW p \in Appliers, Step(p)
        PROVE IInv'
    <3>1. TypeOK' /\ WorkInv' /\ SnapInv'
      BY <2>1, TypeStep DEF IInv
    <3> QED
      BY <2>1, <3>1, AloneStep, FirstStep DEF IInv
  <2>2. CASE IInv /\ UNCHANGED vars
    <3>1. UNCHANGED <<tree, temps, previews, pc, preview, snap, next, readback, left, disturbed, drift>>
      BY <2>2 DEF vars, target, local
    <3>2. TypeOK' /\ WorkInv' /\ SnapInv' /\ FirstInv'
      BY <2>2, <3>1 DEF IInv, TypeOK, WorkInv, SnapInv, FirstInv, Midway, Snapshot, Ops, Op
    <3>3. ASSUME NEW p \in Appliers, Alone(p)
          PROVE Alone(p)'
      BY <3>1, <3>3 DEF Alone, Reached, Snapshot, Ops, Op
    <3>4. AloneInv'
      BY <2>2, <3>1, <3>3 DEF IInv, AloneInv
    <3> QED
      BY <3>2, <3>4 DEF IInv
  <2> QED
    BY <2>1, <2>2, OtherStep DEF Next
<1> QED
  BY <1>1, <1>2, PTL DEF Spec

\* Type correctness; what lies under a path that is there is in a directory.
THEOREM TypeCorrect == Spec => []TypeOK
<1>1. IInv => TypeOK
  BY DEF IInv
<1> QED
  BY <1>1, Invariance, PTL

\* rollback_status "completed" means that the target is what it was when the call
\* began, whichever operation failed and whatever happened before the restoration.
THEOREM RolledBack == Spec => []RollbackExact
<1>1. IInv => RollbackExact
  BY DEF IInv, AloneInv, Alone, RollbackExact
<1> QED
  BY <1>1, Invariance, PTL
----------------------------------------------------------------------------
\* Receipts.

\* A call that is done has done all of its operations.
LEMMA AllDone ==
    ASSUME IInv, NEW p \in Appliers, pc[p] = "applied", ~disturbed[p]
    PROVE Applied(preview[p], snap[p], Snapshot)
<1>1. snap[p] = preview[p].prestate /\ Reached(p, tree) /\ temps \subseteq snap[p].temps
  BY DEF IInv, AloneInv, Alone
<1>2. preview[p] \in Previews /\ next[p] = Len(Ops(p)) + 1
  BY DEF IInv, WorkInv
<1>3. Len(Ops(p)) \in Nat /\ DOMAIN Ops(p) = 1 .. Len(Ops(p))
  BY <1>2, OperationsType DEF Ops
<1>4. next[p] - 1 = Len(Ops(p))
  BY <1>2, <1>3
<1>5. Leads(Ops(p), snap[p].tree, tree)
  BY <1>1, <1>3, <1>4 DEF Reached, Prefix, Leads
<1> QED
  BY <1>1, <1>5 DEF Applied, Snapshot, Ops

\* A readback that lists the operations in their order meets its contract.
LEMMA ListingMeetsContract ==
    ASSUME NEW v \in Previews, NEW readings,
           DOMAIN readings = DOMAIN v.operations,
           \A i \in DOMAIN v.operations : readings[i] = Listing(v.operations[i])
    PROVE Contract!ApplyReceiptErrors(v.operations, readings) = {}
<1> DEFINE ops == v.operations
<1>1. /\ \A i \in DOMAIN ops : ops[i] \in Operation
      /\ \A i, j \in DOMAIN ops : ops[i].path = ops[j].path => i = j
  BY OperationsType
<1>2. \A i \in DOMAIN ops : ops[i].action = "remove" => "content" \notin DOMAIN ops[i]
  BY <1>1, OperationType
<1> HIDE DEF ops
<1>3. Contract!OperationErrors(ops) = {}
  BY <1>1, <1>2 DEF Contract!OperationErrors, Contract!PathErrors, Contract!Error, AnyPath
<1>4. \A i \in DOMAIN ops :
        /\ readings[i].path = ops[i].path
        /\ readings[i].result = Contract!ResultOf[ops[i].action]
        /\ "content" \in DOMAIN ops[i] => readings[i].content = ops[i].content
  <2> SUFFICES ASSUME NEW i \in DOMAIN ops
               PROVE /\ readings[i].path = ops[i].path
                     /\ readings[i].result = Contract!ResultOf[ops[i].action]
                     /\ "content" \in DOMAIN ops[i] => readings[i].content = ops[i].content
    OBVIOUS
  <2>1. readings[i] = Listing(ops[i]) /\ ops[i] \in Operation
    BY <1>1 DEF ops
  <2>2. CASE ops[i].action = "remove"
    BY <1>2, <2>1, <2>2 DEF Listing, Contract!ResultOf
  <2>3. CASE ops[i].action # "remove"
    <3>1. ops[i].action \in {"create", "replace"}
      BY <2>1, <2>3, OperationType
    <3> QED
      BY <2>1, <2>3, <3>1 DEF Listing, Contract!ResultOf
  <2> QED
    BY <2>2, <2>3
<1>5. [i \in DOMAIN ops |-> ops[i].path] = [i \in DOMAIN readings |-> readings[i].path]
  <2>1. DOMAIN readings = DOMAIN ops
    BY DEF ops
  <2> QED
    BY <1>4, <2>1
<1>6. Contract!ReadbackErrors(ops, readings) = {}
  BY <1>4, <1>5 DEF Contract!ReadbackErrors, Contract!Error
<1> QED
  BY <1>3, <1>6 DEF Contract!ApplyReceiptErrors, ops

\* A receipt says what became of the state its preview was measured on, and the
\* target holds what its readback lists.
THEOREM ReceiptHolds == Spec => []ReceiptExact
<1>1. IInv => ReceiptExact
  <2> SUFFICES ASSUME IInv, NEW p \in Appliers, pc[p] = "applied", ~disturbed[p]
               PROVE /\ Applied(preview[p], preview[p].prestate, Snapshot)
                     /\ \A r \in Range(readback[p]) : "content" \in DOMAIN r => tree[r.path] = r.content
                     /\ Contract!ApplyReceiptErrors(Ops(p), readback[p]) = {}
    BY DEF ReceiptExact
  <2>1. snap[p] = preview[p].prestate /\ Done(p)
    BY DEF IInv, AloneInv, Alone, Done
  <2>2. preview[p] \in Previews /\ next[p] = Len(Ops(p)) + 1
    BY DEF IInv, WorkInv
  <2>3. Len(Ops(p)) \in Nat /\ DOMAIN Ops(p) = 1 .. Len(Ops(p))
    BY <2>2, OperationsType DEF Ops
  <2>4. readback[p] \in Seq(Results) /\ Len(readback[p]) = next[p] - 1
    BY DEF IInv, WorkInv, TypeOK
  <2>5. DOMAIN readback[p] = DOMAIN Ops(p)
    BY <2>2, <2>3, <2>4
  <2>6. \A i \in DOMAIN Ops(p) :
          /\ readback[p][i] = Listing(Ops(p)[i])
          /\ Ops(p)[i].action # "remove" => tree[Ops(p)[i].path] = Ops(p)[i].content
    BY <2>1, <2>2, <2>3 DEF Done
  <2>7. \A i \in DOMAIN Ops(p) :
          "content" \in DOMAIN Listing(Ops(p)[i]) =>
             tree[Listing(Ops(p)[i]).path] = Listing(Ops(p)[i]).content
    BY <2>6 DEF Listing
  <2>8. \A r \in Range(readback[p]) : "content" \in DOMAIN r => tree[r.path] = r.content
    BY <2>5, <2>6, <2>7 DEF Range
  <2>9. Contract!ApplyReceiptErrors(Ops(p), readback[p]) = {}
    BY <2>2, <2>5, <2>6, ListingMeetsContract DEF Ops
  <2> QED
    BY <2>1, <2>8, <2>9, AllDone
<1> QED
  BY <1>1, Invariance, PTL
----------------------------------------------------------------------------
\* The refinement.

\* What the target counts as: all calls that have it to themselves agree.
CountedFact ==
    /\ Counted \in Snapshots
    /\ Open = {} => Counted = Snapshot
    /\ \A p \in Open : Counted = snap[p]

\* A snapshot differs from the target in its tree or in its temporary files.
LEMMA BegunDiffers ==
    ASSUME TypeOK, NEW p \in Appliers
    PROVE (snap[p].tree # tree \/ snap[p].temps # temps) <=> snap[p] # Snapshot
<1>1. snap[p] \in [tree : Tree, temps : SUBSET (Appliers \X Paths)]
  BY DEF TypeOK, Snapshots
<1> QED
  BY <1>1 DEF Snapshot

\* The undisturbed calls at work agree on what the target counts as.
LEMMA CountedIs == IInv => CountedFact
<1> SUFFICES ASSUME IInv
             PROVE CountedFact
  OBVIOUS
<1>1. \A p \in Midway : (snap[p].tree # tree \/ snap[p].temps # temps) <=> snap[p] # Snapshot
  BY BegunDiffers DEF Midway, IInv
<1>2. \A p, q \in Open : snap[p] = snap[q]
  BY <1>1 DEF Open, IInv, FirstInv
<1>3. Open # {} => (CHOOSE p \in Open : TRUE) \in Open
  OBVIOUS
<1>4. Open \subseteq Appliers
  BY DEF Open, Midway
<1>5. \A p \in Open : Counted = snap[p]
  BY <1>2, <1>3 DEF Counted
<1>6. Snapshot \in Snapshots /\ snap \in [Appliers -> Snapshots]
  BY SnapshotType DEF IInv, TypeOK
<1> QED
  BY <1>3, <1>4, <1>5, <1>6 DEF Counted, CountedFact

\* A call that has the target to itself keeps its snapshot and its preview as
\* long as it has, and the target counts as its snapshot.
LEMMA OpenStep ==
    ASSUME IInv, CountedFact', NEW p \in Appliers, Step(p)
    PROVE Service!Open
<1> SUFFICES ASSUME NEW c \in Open'
             PROVE /\ snap'[c] = Counted'
                   /\ c \in Open => snap'[c] = snap[c] /\ preview'[c] = preview[c]
  BY DEF Service!Open
<1>1. snap'[c] = Counted'
  BY DEF CountedFact
<1>2. ASSUME c \in Open
      PROVE snap'[c] = snap[c] /\ preview'[c] = preview[c]
  <2>1. c \in Midway /\ c \in Midway' /\ c \in Appliers
    BY <1>2 DEF Open, Midway
  <2>2. CASE c # p
    BY <2>1, <2>2, Beside DEF IInv
  <2>3. CASE c = p
    BY <2>1, <2>3, OwnStep DEF IInv
  <2> QED
    BY <2>2, <2>3
<1> QED
  BY <1>1, <1>2

\* A call that ends without writing leaves the target counting as it is.
LEMMA EndsAsItIs ==
    ASSUME IInv, CountedFact', NEW p \in Open, UNCHANGED <<tree, temps, snap, disturbed>>,
           p \notin Midway', Midway' \subseteq Midway
    PROVE Counted' = Snapshot
<1>1. \A c \in Midway : (snap[c].tree # tree \/ snap[c].temps # temps) <=> snap[c] # Snapshot
  BY BegunDiffers DEF Midway, IInv
<1>2. \A c \in Midway' : ~disturbed[c] => snap[c] = Snapshot
  <2> SUFFICES ASSUME NEW c \in Midway', ~disturbed[c], snap[c] # Snapshot
               PROVE FALSE
    OBVIOUS
  <2>1. c \in Midway /\ c # p
    OBVIOUS
  <2>2. snap[p] # Snapshot
    BY <1>1, <2>1 DEF Open
  <2> QED
    BY <2>1, <2>2 DEF Open, IInv, FirstInv
<1>3. Snapshot' = Snapshot
  BY DEF Snapshot
<1>4. \A c \in Open' : snap'[c] = Snapshot
  BY <1>2 DEF Open
<1> QED
  BY <1>3, <1>4 DEF CountedFact

\* A call reports when it ends: with the target to itself it says what is true,
\* and otherwise nothing is promised.
LEMMA TellStep ==
    ASSUME IInv, IInv', CountedFact, CountedFact', NEW p \in Appliers, Step(p)
    PROVE Service!Step
<1> USE DEF Go, Reads
<1> DEFINE Report(end) == IF end = "applied" THEN "applied"
                          ELSE IF end = "restored" THEN "undone" ELSE "nothing"
<1>0. \A w \in Appliers : w # p => pc'[w] = pc[w]
  BY Beside DEF IInv
<1>1. Told' = [Told EXCEPT ![p] = Report(pc'[p])]
  BY <1>0 DEF Told
<1>2. Counted' \in Snapshots
  BY DEF CountedFact
<1>3. CASE p \notin Open
  <2>1. Service!Tell(p, Report(pc'[p]))
    BY <1>1 DEF Service!Tell
  <2>2. Report(pc'[p]) \in Service!Reports
    BY DEF Service!Reports
  <2> QED
    BY <1>2, <1>3, <2>1, <2>2 DEF Service!Step, Service!Foreign
<1>4. CASE p \in Open
  <2>1. p \in Midway /\ ~disturbed[p] /\ Told[p] = "nothing"
    BY <1>4 DEF Open, Midway, Told
  <2>2. CASE pc'[p] \notin {"applied", "restored"}
    <3>1. Told' = Told
      BY <1>1, <2>1, <2>2 DEF Told
    <3> QED
      BY <1>2, <3>1 DEF Service!Step, Service!Foreign
  <2>3. CASE pc'[p] = "applied"
    <3>1. Finish(p)
      BY <2>1, <2>3 DEF Step, RefuseLapsed, Begin, Check, Unlink, MakeDirectories, WriteTemporary,
                        Rename, ReadBack, Fail, Clear, Refill, Restored, RestoreFails, Return, Kill,
                        Midway, IInv, TypeOK
    <3>2. UNCHANGED <<tree, temps, preview, snap, disturbed>> /\ p \notin Midway'
      BY <2>3, <3>1 DEF Finish, Midway, target
    <3>3. Midway' \subseteq Midway
      BY <1>0, <3>2 DEF Midway
    <3>4. Counted' = Snapshot
      BY <1>4, <3>2, <3>3, EndsAsItIs
    <3>5. Applied(preview[p], snap[p], Snapshot)
      <4>1. pc[p] = "working" /\ next[p] > Len(Ops(p))
        BY <3>1 DEF Finish
      <4>2. Alone(p) /\ preview[p] \in Previews /\ next[p] \in 1 .. Len(Ops(p)) + 1
        BY <2>1, <4>1 DEF IInv, AloneInv, WorkInv, AtWork
      <4>3. Len(Ops(p)) \in Nat /\ DOMAIN Ops(p) = 1 .. Len(Ops(p))
        BY <4>2, OperationsType DEF Ops
      <4>4. next[p] - 1 = Len(Ops(p))
        BY <4>1, <4>2, <4>3
      <4>5. snap[p] = preview[p].prestate /\ Reached(p, tree) /\ temps \subseteq snap[p].temps
        BY <4>1, <4>2 DEF Alone, AtWork
      <4>6. Leads(Ops(p), snap[p].tree, tree)
        BY <4>3, <4>4, <4>5 DEF Reached, Prefix, Leads
      <4> QED
        BY <4>5, <4>6 DEF Applied, Snapshot, Ops
    <3>6. Service!Close(p)
      BY <1>4, <3>2 DEF Service!Close, Open
    <3>7. Service!Tell(p, "applied")
      BY <1>1, <2>3 DEF Service!Tell
    <3>8. Service!Apply(p)
      BY <3>4, <3>5, <3>6, <3>7 DEF Service!Apply
    <3> QED
      BY <3>8 DEF Service!Step
  <2>4. CASE pc'[p] = "restored"
    <3>1. Restored(p)
      BY <2>1, <2>4 DEF Step, RefuseLapsed, Begin, Check, Unlink, MakeDirectories, WriteTemporary,
                        Rename, ReadBack, Fail, Finish, Clear, Refill, RestoreFails, Return, Kill,
                        Midway, IInv, TypeOK
    <3>2. p \notin Midway' /\ snap' = snap
      BY <2>4, <3>1 DEF Restored, Midway
    \* Putting the last of it back disturbs whoever else began meanwhile.
    <3>3. \A c \in Midway' : disturbed'[c]
      BY <1>0, <3>1, <3>2 DEF Restored, Writes, Midway, Off
    <3>4. Open' = {}
      BY <3>3 DEF Open
    <3>5. ~disturbed'[p]
      BY <2>1, <3>1 DEF Restored, Writes
    <3>6. Counted' = snap[p]
      BY <2>4, <3>2, <3>4, <3>5 DEF CountedFact, IInv, AloneInv, Alone
    <3>7. Service!Close(p)
      BY <1>4, <3>4 DEF Service!Close
    <3>8. Service!Tell(p, "undone")
      BY <1>1, <2>4 DEF Service!Tell
    <3>9. Service!Undo(p)
      BY <3>6, <3>7, <3>8 DEF Service!Undo
    <3> QED
      BY <2>1, <3>9 DEF Service!Step, Midway
  <2> QED
    BY <2>2, <2>3, <2>4
<1> QED
  BY <1>3, <1>4

\* Others write to the target, or previews come and go.
LEMMA OtherImplements ==
    ASSUME CountedFact', Build \/ Lapse \/ Drift
    PROVE Service!Next
<1>1. UNCHANGED local
  BY DEF Build, Lapse, Drift
<1>2. Service!Open
  BY <1>1 DEF local, Service!Open, CountedFact
<1>3. Told' = Told
  BY <1>1 DEF local, Told
<1> QED
  BY <1>2, <1>3 DEF CountedFact, Service!Next, Service!Step, Service!Foreign

\* The host transaction implements the abstract one: whoever has the target to
\* himself and returns a receipt did all of the operations, and whoever reports
\* a completed rollback did none of them.
THEOREM Implementation == Spec => ImplementsTransaction
<1>1. IInv /\ CountedFact /\ Init => Service!Init
  <2> SUFFICES ASSUME CountedFact, Init
               PROVE Service!Init
    OBVIOUS
  <2>1. Open = {}
    BY DEF Init, Open, Midway
  <2>2. Told = [p \in Appliers |-> "nothing"]
    BY DEF Init, Told
  <2>3. Counted \in Snapshots
    BY DEF CountedFact
  <2> QED
    BY <2>1, <2>2, <2>3 DEF Service!Init
<1>2. IInv /\ IInv' /\ CountedFact /\ CountedFact' /\ [Next]_vars => [Service!Next]_Service!vars
  <2>1. ASSUME IInv, IInv', CountedFact, CountedFact', NEW p \in Appliers, Step(p)
        PROVE Service!Next
    BY <2>1, OpenStep, TellStep DEF Service!Next
  <2>2. CASE UNCHANGED vars
    BY <2>2 DEF vars, target, local, Service!vars, Counted, Open, Midway, Told, Snapshot
  <2> QED
    BY <2>1, <2>2, OtherImplements DEF Next
<1> QED
  BY <1>1, <1>2, CountedIs, Invariance, PTL DEF Spec, ImplementsTransaction, Service!Spec
=============================================================================
