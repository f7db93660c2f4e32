------------------------- MODULE DirtyPauseProofs --------------------------
(***************************************************************************)
(* Proofs about DirtyPause, for any number of calls, files and edits.      *)
(*                                                                         *)
(* Two arguments meet here.  The first is about the ref: update-ref with   *)
(* the zero oid lets one call at a time hold it, and a call that returned  *)
(* a recovery record never lets it go.  The second is about the checkout:  *)
(* the index only moves forward, so a call that finds the index it began   *)
(* with knows that nobody committed meanwhile, and that its scan compared  *)
(* the worktree with the HEAD its record names.                            *)
(***************************************************************************)
EXTENDS DirtyPause, FiniteSetTheorems, TLAPS

\* Between update-ref and its end, a call is the one that made the ref.
Holding == {"created", "compared", "undoing", "paused"}

IndexInv == index <= edits

CommitInv == \A p \in Pausers : pc[p] \in Holding \cup {"built"} => commit[p] \in Tree

\* The ref is the commit of the one call that holds it.
RefInv ==
    /\ \A p \in Pausers : pc[p] \in Holding => ref = commit[p]
    /\ \A p, q \in Pausers : pc[p] \in Holding /\ pc[q] \in Holding => p = q

\* A record belongs to the call that still holds the ref, and is the only one.
RecordInv ==
    /\ \A r \in recoveries : pc[r.by] = "paused" /\ commit[r.by] = r.commit
    /\ \A r, s \in recoveries : r = s

\* The index tells whether HEAD moved since a call measured it.
MeasureInv ==
    \A p \in Pausers :
        /\ before[p].index <= index
        /\ index = before[p].index => head = before[p].head

\* A file that stayed as it was since call p began, and differs from the HEAD it
\* measured, is still to be scanned or not suspicious.
Scanned(p) ==
    \A f \in Files \ touched[p] :
        tree[f] # before[p].head[f] => f \in todo[p] \/ tree[f] # "secret"

\* The same of the commit that was built from the worktree.
Clean(p) ==
    \A f \in Files \ touched[p] :
        commit[p][f] # before[p].head[f] => commit[p][f] # "secret"

ScanInv ==
    \A p \in Pausers :
        /\ pc[p] = "scanned" => todo[p] = {}
        /\ pc[p] \in {"scanning", "scanned"} /\ index = before[p].index => Scanned(p)
        /\ pc[p] \in {"built", "created"} /\ index = before[p].index => Clean(p)
        /\ pc[p] = "compared" => Clean(p)

\* The inductive invariant.
IInv ==
    /\ TypeOK
    /\ IndexInv
    /\ CommitInv
    /\ RefInv
    /\ RecordInv
    /\ MeasureInv
    /\ ScanInv
    /\ StandingSecretsStop
----------------------------------------------------------------------------
\* A measurement of the checkout has the form the calls keep.
LEMMA SnapshotType ==
    ASSUME TypeOK
    PROVE Snapshot \in [head : Tree, index : 0 .. MaxEdits,
                        status : [Files -> {"same", "deleted", "untracked", "modified"}]]
<1>1. \A f \in Files : Status(f) \in {"same", "deleted", "untracked", "modified"}
  BY DEF Status
<1> QED
  BY <1>1 DEF Snapshot, TypeOK

\* Every state the program starts in satisfies the invariant.
LEMMA InitInv ==
    ASSUME Init
    PROVE IInv
<1>1. head \in Tree /\ tree \in Tree
  <2>1. head \in Tree
    BY DEF Init, Tree, Contents
  <2>2. tree \in Tree
    BY DEF Init, Tree, Contents
  <2> QED
    BY <2>1, <2>2
<1>2. TypeOK
  <2>1. Snapshot \in [head : Tree, index : 0 .. MaxEdits,
                      status : [Files -> {"same", "deleted", "untracked", "modified"}]]
    <3>1. \A f \in Files : Status(f) \in {"same", "deleted", "untracked", "modified"}
      BY DEF Status
    <3> QED
      BY <1>1, <3>1, PauseAssumption DEF Snapshot, Init
  <2>2. before \in [Pausers -> [head : Tree, index : 0 .. MaxEdits,
                                status : [Files -> {"same", "deleted", "untracked", "modified"}]]]
    BY <2>1 DEF Init
  <2> QED
    BY <1>1, <2>2, PauseAssumption DEF Init, TypeOK
<1>3. \A p \in Pausers : pc[p] = "ready" /\ before[p].index = 0 /\ before[p].head = head
  BY DEF Init, Snapshot
<1>4. IndexInv /\ CommitInv /\ RefInv /\ RecordInv /\ ScanInv /\ StandingSecretsStop
  BY <1>3 DEF Init, IndexInv, CommitInv, RefInv, RecordInv, ScanInv, StandingSecretsStop, Holding
<1>5. MeasureInv
  BY <1>3 DEF Init, MeasureInv
<1> QED
  BY <1>2, <1>4, <1>5 DEF IInv

\* Types are kept, and the index is written no more often than the checkout is touched.
LEMMA TypeStep ==
    ASSUME TypeOK, IndexInv, CommitInv, Next
    PROVE TypeOK' /\ IndexInv' /\ CommitInv'
<1> USE DEF TypeOK, IndexInv, CommitInv, Holding, Go, checkout
<1>1. ASSUME NEW p \in Pausers, Look(p)
      PROVE TypeOK' /\ IndexInv' /\ CommitInv'
  BY <1>1, SnapshotType DEF Look
<1>2. ASSUME NEW p \in Pausers, List(p)
      PROVE TypeOK' /\ IndexInv' /\ CommitInv'
  BY <1>2 DEF List, Changed
<1>3. ASSUME NEW p \in Pausers, Scan(p)
      PROVE TypeOK' /\ IndexInv' /\ CommitInv'
  BY <1>3 DEF Scan
<1>4. ASSUME NEW p \in Pausers, FindRef(p)
      PROVE TypeOK' /\ IndexInv' /\ CommitInv'
  BY <1>4 DEF FindRef
<1>5. ASSUME NEW p \in Pausers, Commit(p)
      PROVE TypeOK' /\ IndexInv' /\ CommitInv'
  BY <1>5 DEF Commit
<1>6. ASSUME NEW p \in Pausers, UpdateRef(p)
      PROVE TypeOK' /\ IndexInv' /\ CommitInv'
  BY <1>6 DEF UpdateRef
<1>7. ASSUME NEW p \in Pausers, RefTaken(p) \/ Compare(p) \/ GitFails(p) \/ UndoFails(p) \/ Kill(p)
      PROVE TypeOK' /\ IndexInv' /\ CommitInv'
  BY <1>7 DEF RefTaken, Compare, GitFails, UndoFails, Kill
<1>8. ASSUME NEW p \in Pausers, Succeed(p)
      PROVE TypeOK' /\ IndexInv' /\ CommitInv'
  <2>1. [by |-> p, commit |-> commit[p], head |-> before[p].head, edited |-> touched[p]]
            \in [by : Pausers, commit : Tree, head : Tree, edited : SUBSET Files]
    BY <1>8 DEF Succeed
  <2> QED
    BY <1>8, <2>1 DEF Succeed
<1>9. ASSUME NEW p \in Pausers, Undo(p)
      PROVE TypeOK' /\ IndexInv' /\ CommitInv'
  BY <1>9 DEF Undo
<1>10. ASSUME NEW p \in Pausers, Forget(p)
       PROVE TypeOK' /\ IndexInv' /\ CommitInv'
  BY <1>10 DEF Forget
<1>11. ASSUME NEW f \in Files, Edit(f)
       PROVE TypeOK' /\ IndexInv' /\ CommitInv'
  <2>1. tree' \in Tree
    BY <1>11 DEF Edit, Tree
  <2>2. touched' \in [Pausers -> SUBSET Files]
    BY <1>11 DEF Edit
  <2>3. edits' \in 0 .. MaxEdits /\ index' \in 0 .. MaxEdits /\ index' <= edits'
    BY <1>11, PauseAssumption DEF Edit, Touch
  <2> QED
    BY <1>11, <2>1, <2>2, <2>3 DEF Edit, Touch
<1>12. CASE Stage \/ CommitAll
  BY <1>12, PauseAssumption DEF Stage, CommitAll, Touch
<1> QED
  BY <1>1, <1>2, <1>3, <1>4, <1>5, <1>6, <1>7, <1>8, <1>9, <1>10, <1>11, <1>12 DEF Next, Pause

\* The ref is made by a call that finds none, removed by the call that made it,
\* and belongs for good to the call that returned a record.
LEMMA RefStep ==
    ASSUME TypeOK, CommitInv, RefInv, RecordInv, Next
    PROVE RefInv' /\ RecordInv'
<1> USE DEF TypeOK, RefInv, RecordInv, Holding, Go, checkout
<1>1. ASSUME NEW p \in Pausers, \/ Look(p) \/ List(p) \/ Scan(p) \/ FindRef(p)
                                \/ RefTaken(p) \/ Compare(p) \/ GitFails(p) \/ UndoFails(p) \/ Kill(p)
      PROVE RefInv' /\ RecordInv'
  <2>1. UNCHANGED <<ref, commit, recoveries>>
    BY <1>1 DEF Look, List, Scan, FindRef, RefTaken, Compare, GitFails, UndoFails, Kill
  <2>2. pc[p] # "paused" /\ \A q \in Pausers : q # p => pc'[q] = pc[q]
    BY <1>1 DEF Look, List, Scan, FindRef, RefTaken, Compare, GitFails, UndoFails, Kill
  <2>3. pc'[p] \in Holding => pc[p] \in Holding
    BY <1>1 DEF Look, List, Scan, FindRef, RefTaken, Compare, GitFails, UndoFails, Kill
  <2> QED
    BY <2>1, <2>2, <2>3
<1>2. ASSUME NEW p \in Pausers, Commit(p)
      PROVE RefInv' /\ RecordInv'
  BY <1>2 DEF Commit
<1>3. ASSUME NEW p \in Pausers, UpdateRef(p)
      PROVE RefInv' /\ RecordInv'
  \* Whoever held the ref would have made it a commit.
  <2>1. \A q \in Pausers : pc[q] \notin Holding
    BY <1>3, NoCommitAssumption DEF UpdateRef, CommitInv
  <2>2. recoveries = {}
    BY <2>1
  <2> QED
    BY <1>3, <2>1, <2>2 DEF UpdateRef
<1>4. ASSUME NEW p \in Pausers, Succeed(p)
      PROVE RefInv' /\ RecordInv'
  <2>1. recoveries = {}
    BY <1>4 DEF Succeed
  <2> QED
    BY <1>4, <2>1 DEF Succeed
<1>5. ASSUME NEW p \in Pausers, Undo(p)
      PROVE RefInv' /\ RecordInv'
  <2>1. \A q \in Pausers \ {p} : pc[q] \notin Holding
    BY <1>5 DEF Undo
  <2>2. recoveries = {}
    BY <1>5, <2>1 DEF Undo
  <2> QED
    BY <1>5, <2>1, <2>2 DEF Undo
<1>6. ASSUME NEW p \in Pausers, Forget(p)
      PROVE RefInv' /\ RecordInv'
  BY <1>6 DEF Forget
<1>7. CASE (\E f \in Files : Edit(f)) \/ Stage \/ CommitAll
  BY <1>7 DEF Edit, Stage, CommitAll, Touch
<1> QED
  BY <1>1, <1>2, <1>3, <1>4, <1>5, <1>6, <1>7 DEF Next, Pause

\* A call that finds the index it began with has compared the worktree with the
\* HEAD that its record names.
LEMMA ScanStep ==
    ASSUME TypeOK, MeasureInv, ScanInv, Next
    PROVE MeasureInv' /\ ScanInv'
<1> USE DEF TypeOK, Go, checkout
<1>1. ASSUME NEW p \in Pausers, Pause(p)
      PROVE MeasureInv'
  <2>1. CASE Look(p)
    BY <2>1 DEF Look, Snapshot, MeasureInv
  <2>2. CASE ~Look(p)
    <3>1. UNCHANGED <<head, index, before>>
      BY <1>1, <2>2 DEF Pause, List, Scan, FindRef, Commit, UpdateRef, RefTaken, Compare, Succeed,
                       GitFails, Undo, UndoFails, Forget, Kill
    <3> QED
      BY <3>1 DEF MeasureInv
  <2> QED
    BY <2>1, <2>2
<1>2. CASE (\E f \in Files : Edit(f)) \/ Stage \/ CommitAll
  <2>1. MeasureInv'
    BY <1>2 DEF Edit, Stage, CommitAll, Touch, MeasureInv
  <2>2. ASSUME NEW p \in Pausers, index' = before'[p].index
        PROVE index' = index /\ UNCHANGED <<head, before, commit, pc, todo>>
    BY <1>2, <2>2 DEF Edit, Stage, CommitAll, Touch, MeasureInv
  <2>3. UNCHANGED <<before, commit, pc, todo>>
    BY <1>2 DEF Edit, Stage, CommitAll, Touch
  <2>4. \A p \in Pausers : \A f \in Files \ touched'[p] : f \notin touched[p] /\ tree'[f] = tree[f]
    BY <1>2 DEF Edit, Stage, CommitAll, Touch, Tree
  <2>5. ScanInv'
    BY <2>2, <2>3, <2>4 DEF ScanInv, Scanned, Clean
  <2> QED
    BY <2>1, <2>5
<1>3. ASSUME NEW p \in Pausers, Pause(p)
      PROVE ScanInv'
  <2> DEFINE Fine(q) ==
          /\ pc[q] = "scanned" => todo[q] = {}
          /\ pc[q] \in {"scanning", "scanned"} /\ index = before[q].index => Scanned(q)
          /\ pc[q] \in {"built", "created"} /\ index = before[q].index => Clean(q)
          /\ pc[q] = "compared" => Clean(q)
  <2>1. UNCHANGED checkout
    BY <1>3 DEF Pause, Look, List, Scan, FindRef, Commit, UpdateRef, RefTaken, Compare, Succeed,
                GitFails, Undo, UndoFails, Forget, Kill
  <2>2. ASSUME NEW q \in Pausers, q # p
        PROVE Fine(q)'
    <3>1. pc'[q] = pc[q] /\ before'[q] = before[q] /\ todo'[q] = todo[q] /\ commit'[q] = commit[q]
              /\ touched'[q] = touched[q]
      BY <1>3, <2>2 DEF Pause, Look, List, Scan, FindRef, Commit, UpdateRef, RefTaken, Compare,
                Succeed, GitFails, Undo, UndoFails, Forget, Kill
    <3> QED
      BY <2>1, <3>1 DEF ScanInv, Scanned, Clean
  <2>3. Fine(p)'
    <3>1. CASE List(p)
      \* What differs from HEAD now is to be scanned.
      <4>1. Scanned(p)' \/ index # before[p].index
        BY <3>1 DEF List, Changed, Status, Scanned, MeasureInv
      <4> QED
        BY <3>1, <4>1 DEF List
    <3>2. CASE Scan(p)
      BY <3>2, <2>1 DEF Scan, ScanInv, Scanned
    <3>3. CASE FindRef(p)
      BY <3>3 DEF FindRef, ScanInv, Scanned
    <3>4. CASE Commit(p)
      \* The scan left nothing to do, and the commit is the worktree.
      BY <3>4 DEF Commit, ScanInv, Scanned, Clean
    <3>5. CASE UpdateRef(p)
      BY <3>5 DEF UpdateRef, ScanInv, Clean
    <3>6. CASE Compare(p)
      BY <3>6 DEF Compare, ScanInv, Clean, Snapshot
    <3>7. CASE \/ Look(p) \/ RefTaken(p) \/ Succeed(p) \/ GitFails(p) \/ Undo(p) \/ UndoFails(p)
               \/ Forget(p) \/ Kill(p)
      BY <3>7 DEF Look, RefTaken, Succeed, GitFails, Undo, UndoFails, Forget, Kill
    <3> QED
      BY <1>3, <3>1, <3>2, <3>3, <3>4, <3>5, <3>6, <3>7 DEF Pause
  <2> QED
    BY <2>2, <2>3 DEF ScanInv
<1> QED
  BY <1>1, <1>2, <1>3 DEF Next

\* A record says what its call measured and committed.
LEMMA SecretsStep ==
    ASSUME TypeOK, ScanInv, StandingSecretsStop, Next
    PROVE StandingSecretsStop'
<1>1. CASE \E p \in Pausers : Succeed(p)
  <2>1. PICK p \in Pausers : Succeed(p)
    BY <1>1
  <2>2. Clean(p)
    BY <2>1 DEF Succeed, Go, ScanInv
  <2> QED
    BY <2>1, <2>2 DEF Succeed, Clean, StandingSecretsStop
<1>2. CASE recoveries' = recoveries
  BY <1>2 DEF StandingSecretsStop
<1>3. (\E p \in Pausers : Succeed(p)) \/ recoveries' = recoveries
  BY DEF Next, Pause, Look, List, Scan, FindRef, Commit, UpdateRef, RefTaken, Compare, GitFails, Undo,
         UndoFails, Forget, Kill, Edit, Stage, CommitAll, Touch
<1> QED
  BY <1>1, <1>2, <1>3

\* Every variable keeps its type, and the invariant behind the results below
\* holds of every behaviour of create_dirty_pause.
THEOREM Invariance == Spec => []IInv
<1>1. Init => IInv
  BY InitInv
<1>2. IInv /\ [Next]_vars => IInv'
  <2>1. CASE IInv /\ Next
    <3>1. TypeOK' /\ IndexInv' /\ CommitInv'
      BY <2>1, TypeStep DEF IInv
    <3>2. RefInv' /\ RecordInv'
      BY <2>1, RefStep DEF IInv
    <3>3. MeasureInv' /\ ScanInv'
      BY <2>1, ScanStep DEF IInv
    <3>4. StandingSecretsStop'
      BY <2>1, SecretsStep DEF IInv
    <3> QED
      BY <3>1, <3>2, <3>3, <3>4 DEF IInv
  <2>2. CASE IInv /\ UNCHANGED vars
    BY <2>2 DEF IInv, vars, checkout, TypeOK, IndexInv, CommitInv, RefInv, RecordInv, MeasureInv,
                ScanInv, Scanned, Clean, StandingSecretsStop, Holding
  <2> QED
    BY <2>1, <2>2
<1> QED
  BY <1>1, <1>2, PTL DEF Spec

\* Type correctness of the calls, the ref and the records.
THEOREM TypeCorrect == Spec => []TypeOK
<1>1. IInv => TypeOK
  BY DEF IInv
<1> QED
  BY <1>1, Invariance, PTL

\* The commit of a returned recovery record stays under the protected ref,
\* whatever other calls of create_dirty_pause do or undo.
THEOREM Reachable == Spec => []RecoveryReachable
<1>1. IInv => RecoveryReachable
  BY DEF IInv, RecordInv, RefInv, Holding, TypeOK, RecoveryReachable
<1> QED
  BY <1>1, Invariance, PTL

\* However many calls race for a session, at most one returns a record.
THEOREM PausedOnce == Spec => []OneRecovery
<1>1. IInv => OneRecovery
  <2>1. CASE recoveries = {}
    BY <2>1, FS_EmptySet DEF OneRecovery
  <2>2. CASE IInv /\ recoveries # {}
    <3>1. PICK r \in recoveries : recoveries = {r}
      BY <2>2 DEF IInv, RecordInv
    <3>2. Cardinality({r}) = 1
      BY FS_Singleton
    <3> QED
      BY <3>1, <3>2 DEF OneRecovery
  <2> QED
    BY <2>1, <2>2
<1> QED
  BY <1>1, Invariance, PTL

\* Suspicious material that lies still from the first measurement on never gets
\* into a recovery, although the worktree is read three times.
THEOREM SecretsStop == Spec => []StandingSecretsStop
<1>1. IInv => StandingSecretsStop
  BY DEF IInv
<1> QED
  BY <1>1, Invariance, PTL
----------------------------------------------------------------------------
\* Nothing was edited while a call ran.
StillInv ==
    /\ \A p \in Pausers : touched[p] = {}
    /\ \A r \in recoveries : r.edited = {}

\* The scan of a recovery record is true of its commit as long as nobody edits a
\* file while a call runs; staging and commits do no harm.  With edits it is
\* not: the worktree is read again after the scan.
THEOREM ScanHolds == Spec /\ [][\A f \in Files : ~Edit(f)]_vars => []ScanCoversCommit
<1>1. Init => StillInv
  BY DEF Init, StillInv
<1>2. IInv /\ StillInv /\ [Next]_vars /\ [\A f \in Files : ~Edit(f)]_vars => StillInv'
  <2>1. ASSUME IInv, StillInv, NEW p \in Pausers, Pause(p)
        PROVE StillInv'
    <3>1. CASE Look(p)
      BY <2>1, <3>1 DEF Look, StillInv, IInv, TypeOK
    <3>2. CASE Succeed(p)
      BY <2>1, <3>2 DEF Succeed, StillInv
    <3>3. CASE ~Look(p) /\ ~Succeed(p)
      BY <2>1, <3>3 DEF Pause, List, Scan, FindRef, Commit, UpdateRef, RefTaken, Compare, GitFails,
                       Undo, UndoFails, Forget, Kill, StillInv
    <3> QED
      BY <3>1, <3>2, <3>3
  <2>2. CASE StillInv /\ (Stage \/ CommitAll)
    BY <2>2 DEF Stage, CommitAll, Touch, StillInv
  <2>3. CASE StillInv /\ UNCHANGED vars
    BY <2>3 DEF vars, StillInv
  <2>4. (\A f \in Files : ~Edit(f)) /\ Next => (\E p \in Pausers : Pause(p)) \/ Stage \/ CommitAll
    BY DEF Next
  <2> QED
    BY <2>1, <2>2, <2>3, <2>4
<1>3. IInv /\ StillInv => ScanCoversCommit
  BY DEF IInv, StandingSecretsStop, StillInv, ScanCoversCommit
<1> QED
  BY <1>1, <1>2, <1>3, Invariance, PTL DEF Spec
=============================================================================
