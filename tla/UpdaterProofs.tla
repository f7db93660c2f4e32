--------------------------- MODULE UpdaterProofs ----------------------------
(***************************************************************************)
(* Proofs about Updater, for any number of updaters and any target.        *)
(*                                                                         *)
(* The target is locked by nobody, so that the argument is about calls     *)
(* that nobody disturbed.  A write disturbs every other call at work, and  *)
(* what an undisturbed call knows of the target therefore changes by its   *)
(* own steps alone: before it writes the target is its snapshot, while it  *)
(* writes the files it does not govern are, and while it refills each file *)
(* is gone or back.                                                        *)
(***************************************************************************)
EXTENDS Updater, TLAPS

\* A call at work applies a preview that was in force.
PreviewInv == \A u \in Midway : preview[u] \in Previews

\* What is still to be written is in the candidate.
TodoInv == \A u \in Updaters : pc[u] = "writing" => todo[u] \subseteq Present(Candidate(u))

\* What an undisturbed call knows of the target.
Alone(u) ==
    /\ pc[u] \in {"read", "snapshot"} => tree = snap[u]
    /\ pc[u] \in {"read", "snapshot", "writing", "written"} =>
          /\ PayloadOf(snap[u]) = preview[u].prestate
          /\ \A e \in Others : tree[e] = snap[u][e]
    /\ pc[u] = "written" => PayloadOf(tree) = Candidate(u)
    /\ pc[u] = "refilling" =>
          \A e \in Entries : tree[e] = IF e \in todo[u] THEN Absent ELSE snap[u][e]
    /\ pc[u] = "rolled_back" => tree = snap[u] /\ PayloadOf(tree) = preview[u].prestate

AloneInv == \A u \in Updaters : ~disturbed[u] => Alone(u)

\* Of two undisturbed calls at work, one has written nothing so far.
FirstInv ==
    \A u, w \in Midway : ~disturbed[u] /\ ~disturbed[w] => u = w \/ snap[u] = tree \/ snap[w] = tree

\* The inductive invariant.
IInv == TypeOK /\ PreviewInv /\ TodoInv /\ AloneInv /\ FirstInv
----------------------------------------------------------------------------
\* A payload of a target that has its type.
LEMMA PayloadType ==
    ASSUME NEW t \in Tree
    PROVE PayloadOf(t) \in [Governed -> Versions \cup {Absent}]
BY DEF Tree, PayloadOf, Entries

\* The candidate of a call at work.
LEMMA CandidateType ==
    ASSUME PreviewInv, NEW u \in Midway
    PROVE /\ Candidate(u) \in [Governed -> Versions \cup {Absent}]
          /\ Present(Candidate(u)) \subseteq Governed
<1>1. Candidate(u) \in [Governed -> Versions \cup {Absent}]
  BY CandidatesAssumption DEF PreviewInv, Previews, Candidate, Payload
<1> QED
  BY <1>1 DEF Present

\* What a step of one call leaves of another: its own variables, and the target
\* unless it is disturbed.
LEMMA Beside ==
    ASSUME TypeOK, NEW u \in Updaters, Apply(u), NEW w \in Updaters, w # u
    PROVE /\ pc'[w] = pc[w] /\ preview'[w] = preview[w] /\ snap'[w] = snap[w] /\ todo'[w] = todo[w]
          /\ ~disturbed'[w] /\ pc[w] \notin Off => ~disturbed[w] /\ tree' = tree
<1> USE DEF TypeOK, Go, Reads, Writes
<1>1. CASE Unreadable(u) \/ Refuse(u) \/ Read(u) \/ Snapshot(u) \/ ReadFails(u)
  BY <1>1 DEF Unreadable, Refuse, Read, Snapshot, ReadFails
<1>2. CASE Wipe(u) \/ Write(u) \/ WriteFails(u)
  BY <1>2 DEF Wipe, Write, WriteFails
<1>3. CASE Verify(u) \/ VerifyFails(u) \/ Finish(u) \/ Measure(u) \/ MeasureFails(u) \/ Confirm(u)
  BY <1>3 DEF Verify, VerifyFails, Finish, Measure, MeasureFails, Confirm
<1>4. CASE Clear(u) \/ Refill(u) \/ RestoreFails(u)
  BY <1>4 DEF Clear, Refill, RestoreFails
<1>5. CASE Return(u) \/ Kill(u)
  BY <1>5 DEF Return, Kill, Idle
<1> QED
  BY <1>1, <1>2, <1>3, <1>4, <1>5 DEF Apply

\* Types, and what a call at work has in hand.
LEMMA TypeStep ==
    ASSUME TypeOK, PreviewInv, TodoInv, NEW u \in Updaters, Apply(u)
    PROVE TypeOK' /\ PreviewInv' /\ TodoInv'
<1> USE DEF Go, Reads, Writes, Ended
<1>1. PreviewInv'
  <2> SUFFICES ASSUME NEW w \in Midway'
               PROVE preview'[w] \in Previews
    BY DEF PreviewInv
  <2>1. CASE w # u
    <3>1. w \in Midway
      BY <2>1, Beside DEF Midway
    <3> QED
      BY <2>1, <3>1, Beside DEF PreviewInv, Midway
  <2>2. CASE w = u /\ Read(u)
    BY <2>2 DEF Read, TypeOK
  <2>3. CASE w = u /\ ~Read(u)
    <3>1. u \in Midway /\ preview'[u] = preview[u]
      BY <2>3 DEF Apply, Unreadable, Refuse, Snapshot, ReadFails, Wipe, Write, WriteFails, Verify, VerifyFails,
                  Finish, Measure, MeasureFails, Clear, Refill, Confirm, RestoreFails, Return, Kill,
                  Idle, Midway, TypeOK
    <3> QED
      BY <2>3, <3>1 DEF PreviewInv
  <2> QED
    BY <2>1, <2>2, <2>3
<1>2. CASE Unreadable(u) \/ Refuse(u) \/ Read(u) \/ Snapshot(u) \/ ReadFails(u)
  BY <1>1, <1>2 DEF Unreadable, Refuse, Read, Snapshot, ReadFails, TypeOK, TodoInv, Candidate
<1>3. CASE Wipe(u)
  <2>1. u \in Midway
    BY <1>3 DEF Wipe, Midway
  <2>2. Present(Candidate(u)) \subseteq Entries
    BY <2>1, CandidateType DEF Entries
  <2>3. tree' \in Tree
    BY <1>3 DEF Wipe, TypeOK, Tree
  <2>4. todo' \in [Updaters -> SUBSET Entries]
    BY <1>3, <2>2 DEF Wipe, TypeOK
  <2>5. TypeOK'
    BY <1>3, <2>3, <2>4 DEF Wipe, TypeOK
  <2>6. TodoInv'
    BY <1>3 DEF Wipe, TypeOK, TodoInv, Candidate
  <2> QED
    BY <1>1, <2>5, <2>6
<1>4. CASE Write(u)
  <2>1. PICK e \in Entries :
             /\ e \in todo[u]
             /\ tree' = [tree EXCEPT ![e] = Candidate(u)[e]]
             /\ todo' = [todo EXCEPT ![u] = @ \ {e}]
    BY <1>4 DEF Write, Turn
  <2>2. Candidate(u)[e] \in Versions \cup {Absent}
    BY <1>4, <2>1, CandidateType DEF Write, TodoInv, Midway
  <2>3. tree' \in Tree
    BY <2>1, <2>2 DEF TypeOK, Tree
  <2>4. TypeOK'
    BY <1>4, <2>1, <2>3 DEF Write, TypeOK
  <2>5. TodoInv'
    BY <1>4, <2>1 DEF Write, TodoInv, Candidate, TypeOK
  <2> QED
    BY <1>1, <2>4, <2>5
<1>5. CASE WriteFails(u)
  <2>1. tree' \in Tree
    BY <1>5 DEF WriteFails, TypeOK, Tree
  <2> QED
    BY <1>1, <1>5, <2>1 DEF WriteFails, TypeOK, TodoInv, Candidate
<1>6. CASE Verify(u) \/ VerifyFails(u) \/ Finish(u) \/ Measure(u) \/ MeasureFails(u) \/ Confirm(u)
  <2>1. UNCHANGED <<tree, previews, preview, snap, todo, disturbed, drift>>
    BY <1>6 DEF Verify, VerifyFails, Finish, Measure, MeasureFails, Confirm
  <2>2. TypeOK'
    BY <1>6, <2>1 DEF Verify, VerifyFails, Finish, Measure, MeasureFails, Confirm, TypeOK
  <2>3. TodoInv'
    BY <1>6, <2>1 DEF Verify, VerifyFails, Finish, Measure, MeasureFails, Confirm, TodoInv, Candidate, TypeOK
  <2> QED
    BY <1>1, <2>2, <2>3
<1>7. CASE Clear(u)
  <2>1. tree' \in Tree
    BY <1>7 DEF Clear, Nothing, Tree
  <2>2. Present(snap[u]) \subseteq Entries
    BY DEF TypeOK, Tree, Present
  <2> QED
    BY <1>1, <1>7, <2>1, <2>2 DEF Clear, TypeOK, TodoInv, Candidate
<1>8. CASE Refill(u)
  <2>1. tree' \in Tree
    BY <1>8 DEF Refill, TypeOK, Tree
  <2> QED
    BY <1>1, <1>8, <2>1 DEF Refill, TypeOK, TodoInv, Candidate
<1>9. CASE RestoreFails(u)
  <2>1. tree' \in Tree
    BY <1>9 DEF RestoreFails, TypeOK, Tree
  <2> QED
    BY <1>1, <1>9, <2>1 DEF RestoreFails, TypeOK, TodoInv, Candidate
<1>10. CASE Return(u) \/ Kill(u)
  <2>1. Nothing \in Tree
    BY DEF Nothing, Tree
  <2>2. Idle(u)
    BY <1>10 DEF Return, Kill
  <2>3. TypeOK'
    BY <2>1, <2>2 DEF Idle, TypeOK
  <2>4. TodoInv'
    BY <2>2 DEF Idle, TypeOK, TodoInv, Candidate
  <2> QED
    BY <1>1, <2>3, <2>4
<1> QED
  BY <1>2, <1>3, <1>4, <1>5, <1>6, <1>7, <1>8, <1>9, <1>10 DEF Apply

\* What an undisturbed call knows survives the steps of the others, which would
\* have disturbed it, and its own steps make true what they say.
LEMMA AloneStep ==
    ASSUME IInv, NEW u \in Updaters, Apply(u)
    PROVE AloneInv'
<1> USE DEF Go, Reads, Writes
<1>1. ASSUME NEW w \in Updaters, w # u, ~disturbed'[w]
      PROVE Alone(w)'
  <2>1. pc'[w] = pc[w] /\ preview'[w] = preview[w] /\ snap'[w] = snap[w] /\ todo'[w] = todo[w]
    BY <1>1, Beside DEF IInv
  <2>2. CASE pc[w] \in Off
    BY <2>1, <2>2 DEF Alone, Off
  <2>3. CASE pc[w] \notin Off
    BY <1>1, <2>1, <2>3, Beside DEF IInv, AloneInv, Alone, Candidate
  <2> QED
    BY <2>2, <2>3
<1>2. ASSUME ~disturbed'[u]
      PROVE Alone(u)'
  <2> USE DEF Alone, Candidate
  <2>1. CASE \/ Unreadable(u) \/ Refuse(u) \/ ReadFails(u) \/ MeasureFails(u) \/ VerifyFails(u) \/ Measure(u)
    BY <2>1 DEF Unreadable, Refuse, ReadFails, MeasureFails, VerifyFails, Measure, IInv, TypeOK
  <2>2. CASE Read(u)
    <3>1. PICK v \in previews : PayloadOf(tree) = v.prestate /\ preview' = [preview EXCEPT ![u] = v]
      BY <2>2 DEF Read
    <3>2. pc'[u] = "read" /\ snap'[u] = tree /\ tree' = tree /\ preview'[u] = v
      BY <2>2, <3>1 DEF Read, IInv, TypeOK
    <3> QED
      BY <3>1, <3>2
  <2>3. CASE Snapshot(u)
    <3>1. Alone(u) /\ pc[u] = "read"
      BY <1>2, <2>3 DEF Snapshot, IInv, AloneInv
    <3>2. pc'[u] = "snapshot" /\ snap'[u] = snap[u] /\ tree' = tree /\ preview'[u] = preview[u]
      BY <2>3, <3>1 DEF Snapshot, IInv, TypeOK
    <3> QED
      BY <3>1, <3>2
  <2>4. CASE Wipe(u)
    <3>1. Alone(u) /\ pc[u] = "snapshot"
      BY <1>2, <2>4 DEF Wipe, IInv, AloneInv, TypeOK, Off
    <3>2. pc'[u] = "writing" /\ snap'[u] = snap[u] /\ preview'[u] = preview[u]
      BY <2>4 DEF Wipe, IInv, TypeOK
    <3>3. \A e \in Others : tree'[e] = tree[e]
      BY <2>4, UpdaterAssumption DEF Wipe, Entries, Governed
    <3> QED
      BY <3>1, <3>2, <3>3
  <2>5. CASE Write(u)
    <3>1. Alone(u) /\ pc[u] = "writing"
      BY <1>2, <2>5 DEF Write, IInv, AloneInv, TypeOK, Off
    <3>2. pc'[u] = "writing" /\ snap'[u] = snap[u] /\ preview'[u] = preview[u]
      BY <2>5, <3>1 DEF Write, IInv, TypeOK
    <3>3. todo[u] \subseteq Governed
      BY <3>1, CandidateType DEF IInv, TodoInv, Midway
    <3>4. \A e \in Others : tree'[e] = tree[e]
      BY <2>5, <3>3, UpdaterAssumption DEF Write, Turn, IInv, TypeOK, Tree, Entries
    <3> QED
      BY <3>1, <3>2, <3>4
  <2>6. CASE WriteFails(u)
    BY <2>6 DEF WriteFails, IInv, TypeOK
  <2>7. CASE Verify(u)
    <3>1. Alone(u) /\ pc[u] = "writing"
      BY <1>2, <2>7 DEF Verify, IInv, AloneInv
    <3>2. tree' = tree /\ snap'[u] = snap[u] /\ preview'[u] = preview[u]
      BY <2>7 DEF Verify
    <3>3. \/ pc'[u] = "written" /\ PayloadOf(tree) = Candidate(u)
          \/ pc'[u] = "failed"
      BY <2>7 DEF Verify, IInv, TypeOK
    <3> QED
      BY <3>1, <3>2, <3>3
  <2>8. CASE Finish(u)
    BY <2>8 DEF Finish, IInv, TypeOK
  <2>9. CASE Clear(u)
    <3>1. pc'[u] = "refilling" /\ snap'[u] = snap[u] /\ todo'[u] = Present(snap[u]) /\ tree' = Nothing
      BY <2>9 DEF Clear, IInv, TypeOK
    <3>2. \A e \in Entries : tree'[e] = IF e \in todo'[u] THEN Absent ELSE snap'[u][e]
      BY <3>1 DEF Nothing, Present, IInv, TypeOK, Tree
    <3> QED
      BY <3>1, <3>2
  <2>10. CASE Refill(u)
    <3>1. Alone(u) /\ pc[u] = "refilling"
      BY <1>2, <2>10 DEF Refill, IInv, AloneInv, TypeOK, Off
    <3>2. pc'[u] = "refilling" /\ snap'[u] = snap[u]
      BY <2>10, <3>1 DEF Refill
    <3>3. PICK e \in todo[u] : /\ tree' = [tree EXCEPT ![e] = snap[u][e]]
                               /\ todo'[u] = todo[u] \ {e}
      BY <2>10 DEF Refill, IInv, TypeOK
    <3>4. \A f \in Entries : tree'[f] = IF f \in todo'[u] THEN Absent ELSE snap[u][f]
      BY <3>1, <3>3 DEF IInv, TypeOK, Tree
    <3> QED
      BY <3>2, <3>4
  <2>11. CASE Confirm(u)
    <3>1. Alone(u) /\ pc[u] = "refilling" /\ todo[u] = {}
      BY <1>2, <2>11 DEF Confirm, IInv, AloneInv
    <3>2. tree = snap[u]
      BY <3>1 DEF IInv, TypeOK, Tree
    <3>3. tree' = tree /\ snap'[u] = snap[u] /\ preview'[u] = preview[u]
      BY <2>11 DEF Confirm
    <3>4. \/ pc'[u] \in {"raised", "rollback_failed"}
          \/ pc'[u] = "rolled_back" /\ PayloadOf(tree) = preview[u].prestate
      BY <2>11 DEF Confirm, IInv, TypeOK
    <3> QED
      BY <3>2, <3>3, <3>4
  <2>12. CASE RestoreFails(u) \/ Return(u) \/ Kill(u)
    BY <2>12 DEF RestoreFails, Return, Kill, Idle, IInv, TypeOK
  <2> QED
    BY <2>1, <2>2, <2>3, <2>4, <2>5, <2>6, <2>7, <2>8, <2>9, <2>10, <2>11, <2>12 DEF Apply
<1> QED
  BY <1>1, <1>2 DEF AloneInv

\* A call at work stays what it was, or has just begun, or has taken its snapshot.
LEMMA OwnStep ==
    ASSUME TypeOK, NEW u \in Updaters, Apply(u)
    PROVE \/ Read(u) /\ u \notin Midway
          \/ Snapshot(u)
          \/ u \in Midway /\ snap'[u] = snap[u] /\ preview'[u] = preview[u]
          \/ u \notin Midway'
<1> USE DEF Go, Reads, Writes, Ended
<1>1. CASE Unreadable(u) \/ Refuse(u) \/ Return(u) \/ Kill(u)
  BY <1>1 DEF Unreadable, Refuse, Return, Kill, Idle, Midway, TypeOK
<1>2. CASE Read(u) \/ Snapshot(u)
  BY <1>2 DEF Read, Midway
<1>3. CASE \/ ReadFails(u) \/ Wipe(u) \/ Write(u) \/ WriteFails(u) \/ Verify(u) \/ VerifyFails(u)
           \/ Finish(u)
  BY <1>3 DEF ReadFails, Wipe, Write, WriteFails, Verify, VerifyFails, Finish, Midway
<1>4. CASE Measure(u) \/ MeasureFails(u) \/ Clear(u) \/ Refill(u) \/ Confirm(u) \/ RestoreFails(u)
  BY <1>4 DEF Measure, MeasureFails, Clear, Refill, Confirm, RestoreFails, Midway
<1> QED
  BY <1>1, <1>2, <1>3, <1>4 DEF Apply

\* A write leaves one undisturbed call at work at most.
LEMMA FirstStep ==
    ASSUME IInv, NEW u \in Updaters, Apply(u)
    PROVE FirstInv'
<1> SUFFICES ASSUME NEW v \in Midway', NEW w \in Midway', ~disturbed'[v], ~disturbed'[w], v # w
             PROVE snap'[v] = tree' \/ snap'[w] = tree'
  BY DEF FirstInv
<1>1. ASSUME NEW x \in Midway', ~disturbed'[x], x # u
      PROVE x \in Midway /\ ~disturbed[x] /\ snap'[x] = snap[x] /\ tree' = tree
  BY <1>1, Beside DEF Midway, Off, IInv
<1>2. CASE v # u /\ w # u
  BY <1>1, <1>2 DEF IInv, FirstInv
<1>3. ASSUME NEW x \in Midway', ~disturbed'[x], x # u, u \in Midway', ~disturbed'[u]
      PROVE snap'[x] = tree' \/ snap'[u] = tree'
  <2>1. x \in Midway /\ ~disturbed[x] /\ snap'[x] = snap[x] /\ tree' = tree
    BY <1>1, <1>3
  <2>2. CASE Read(u) \/ Snapshot(u)
    BY <2>2 DEF Read, Snapshot, IInv, TypeOK, Reads
  <2>3. CASE u \in Midway /\ snap'[u] = snap[u] /\ ~disturbed[u]
    BY <1>3, <2>1, <2>3 DEF IInv, FirstInv
  <2>4. CASE u \in Midway /\ disturbed[u]
    \* Only the restoration makes a call undisturbed, and it disturbs the others.
    <3>1. Clear(u)
      BY <1>3, <2>4 DEF Apply, Unreadable, Refuse, Read, Snapshot, ReadFails, Wipe, Write, WriteFails, Verify,
         VerifyFails, Finish, Measure, MeasureFails, Refill, Confirm, RestoreFails, Return, Kill, Idle,
         Midway, Off, Go, Reads, Writes, IInv, TypeOK
    <3>2. disturbed'[x]
      BY <1>3, <2>1, <3>1 DEF Clear, Midway, Off
    <3> QED
      BY <1>3, <3>2
  <2> QED
    BY <1>3, <2>2, <2>3, <2>4, OwnStep DEF IInv
<1> QED
  BY <1>2, <1>3

\* Others write, and previews come and go.
LEMMA OtherStep ==
    ASSUME IInv, Preview \/ Drop \/ Drift
    PROVE IInv'
<1>1. CASE Preview \/ Drop
  <2>1. UNCHANGED <<tree, local, disturbed, drift>>
    BY <1>1 DEF Preview, Drop
  <2>2. previews' \subseteq Previews
    BY <1>1 DEF Preview, Drop, Previews, IInv, TypeOK
  <2> QED
    BY <2>1, <2>2 DEF local, IInv, TypeOK, PreviewInv, TodoInv, AloneInv, Alone, FirstInv, Midway,
                      Candidate
<1>2. CASE Drift
  <2>1. UNCHANGED <<previews, local>> /\ \A u \in Updaters : disturbed'[u] = (pc[u] \notin Off)
    BY <1>2 DEF Drift
  <2>2. TypeOK'
    <3>1. tree' \in Tree
      BY <1>2 DEF Drift, IInv, TypeOK, Tree
    <3>2. drift' \in 0 .. MaxDrift
      BY <1>2, UpdaterAssumption DEF Drift, IInv, TypeOK
    <3>3. disturbed' \in [Updaters -> BOOLEAN]
      BY <1>2 DEF Drift
    <3> QED
      BY <2>1, <3>1, <3>2, <3>3 DEF local, IInv, TypeOK
  <2>3. PreviewInv' /\ TodoInv'
    BY <2>1 DEF local, IInv, PreviewInv, TodoInv, Midway, Candidate
  <2>4. AloneInv'
    BY <2>1 DEF local, AloneInv, Alone, Off
  <2>5. FirstInv'
    BY <2>1 DEF local, FirstInv, Midway, Off
  <2> QED
    BY <2>2, <2>3, <2>4, <2>5 DEF IInv
<1> QED
  BY <1>1, <1>2

\* The invariant holds of every behaviour of apply_update.
THEOREM Invariance == Spec => []IInv
<1>1. Init => IInv
  <2> SUFFICES ASSUME Init
               PROVE IInv
    OBVIOUS
  <2>1. Nothing \in Tree
    BY DEF Nothing, Tree
  <2>2. TypeOK
    BY <2>1, UpdaterAssumption DEF Init, TypeOK
  <2>3. PreviewInv /\ TodoInv /\ AloneInv /\ FirstInv
    BY DEF Init, PreviewInv, TodoInv, AloneInv, Alone, FirstInv, Midway
  <2> QED
    BY <2>2, <2>3 DEF IInv
<1>2. IInv /\ [Next]_vars => IInv'
  <2>1. ASSUME IInv, NEW u \in Updaters, Apply(u)
        PROVE IInv'
    BY <2>1, TypeStep, AloneStep, FirstStep DEF IInv
  <2>2. CASE IInv /\ UNCHANGED vars
    BY <2>2 DEF vars, local, IInv, TypeOK, PreviewInv, TodoInv, AloneInv, Alone, FirstInv, Midway, Candidate
  <2> QED
    BY <2>1, <2>2, OtherStep DEF Next
<1> QED
  BY <1>1, <1>2, PTL DEF Spec

\* Type correctness of the target, the previews and the calls.
THEOREM TypeCorrect == Spec => []TypeOK
<1>1. IInv => TypeOK
  BY DEF IInv
<1> QED
  BY <1>1, Invariance, PTL

\* A call that reports "rolled_back" has the whole target back, and a receipt
\* that meets its contract, whatever failed before its restoration began.
THEOREM RolledBack == Spec => []RolledBackExact
<1>1. IInv => RolledBackExact
  <2> SUFFICES ASSUME IInv, NEW u \in Updaters, pc[u] = "rolled_back", ~disturbed[u]
               PROVE /\ tree = snap[u]
                     /\ PayloadOf(tree) = preview[u].prestate
                     /\ Contract!RollbackReceiptErrors(
                            RollbackReceipt(Hashes(preview[u].prestate), Hashes(PayloadOf(tree)))) = {}
    BY DEF RolledBackExact
  <2>1. tree = snap[u] /\ PayloadOf(tree) = preview[u].prestate
    BY DEF IInv, AloneInv, Alone
  <2> DEFINE h == Hashes(PayloadOf(tree))
  <2>2. Contract!RollbackReceiptErrors(RollbackReceipt(h, h)) = {}
    <3> HIDE DEF h
    <3> QED
      BY DEF Contract!RollbackReceiptErrors, Contract!Error, RollbackReceipt
  <2> QED
    BY <2>1, <2>2
<1> QED
  BY <1>1, Invariance, PTL
----------------------------------------------------------------------------
\* What the target counts as: all calls that have it to themselves agree.
CountedFact ==
    /\ Counted \in Tree
    /\ Open = {} => Counted = tree
    /\ \A u \in Open : Counted = snap[u]

\* The undisturbed calls at work agree on what the target counts as.
LEMMA CountedIs == IInv => CountedFact
<1> SUFFICES ASSUME IInv
             PROVE CountedFact
  OBVIOUS
<1>1. \A u, w \in Open : snap[u] = snap[w]
  BY DEF Open, IInv, FirstInv
<1>2. Open # {} => (CHOOSE u \in Open : TRUE) \in Open
  OBVIOUS
<1>3. Open \subseteq Updaters
  BY DEF Open, Midway
<1>4. \A u \in Open : Counted = snap[u]
  BY <1>1, <1>2 DEF Counted
<1> QED
  BY <1>2, <1>3, <1>4 DEF Counted, CountedFact, IInv, TypeOK

\* A call that has the target to itself keeps its snapshot and its preview as
\* long as it has, and the target counts as its snapshot.
LEMMA OpenStep ==
    ASSUME IInv, IInv', CountedFact', NEW u \in Updaters, Apply(u)
    PROVE Service!Open
<1> SUFFICES ASSUME NEW c \in Open'
             PROVE /\ snap'[c] = Counted'
                   /\ c \in Open => snap'[c] = snap[c] /\ preview'[c] = preview[c]
  BY DEF Service!Open
<1>1. snap'[c] = Counted'
  BY DEF CountedFact
<1>2. ASSUME c \in Open
      PROVE snap'[c] = snap[c] /\ preview'[c] = preview[c]
  <2>1. c \in Midway /\ ~disturbed[c] /\ c \in Midway'
    BY <1>2 DEF Open
  <2>2. CASE c # u
    BY <2>1, <2>2, Beside DEF IInv, Midway
  <2>3. CASE c = u /\ Snapshot(u)
    BY <2>1, <2>3 DEF Snapshot, Go, IInv, AloneInv, Alone, TypeOK
  <2>4. CASE c = u /\ ~Snapshot(u)
    BY <2>1, <2>4, OwnStep DEF IInv
  <2> QED
    BY <2>2, <2>3, <2>4
<1> QED
  BY <1>1, <1>2

\* A call that ends without writing leaves the target counting as it is.
LEMMA EndsAsItIs ==
    ASSUME IInv, CountedFact', NEW u \in Open, UNCHANGED <<tree, snap, disturbed>>,
           u \notin Midway', Midway' \subseteq Midway
    PROVE Counted' = tree
<1>1. \A c \in Midway' : ~disturbed[c] => snap[c] = tree
  <2> SUFFICES ASSUME NEW c \in Midway', ~disturbed[c], snap[c] # tree
               PROVE FALSE
    OBVIOUS
  <2>1. c \in Midway /\ c # u
    OBVIOUS
  <2>2. snap[u] # tree
    BY <2>1 DEF Open
  <2> QED
    BY <2>1, <2>2 DEF Open, IInv, FirstInv
<1>2. \A c \in Open' : snap'[c] = tree
  BY <1>1 DEF Open
<1> QED
  BY <1>2 DEF CountedFact

\* A call reports when it ends: with the target to itself it says what is true,
\* and otherwise nothing is promised.
LEMMA TellStep ==
    ASSUME IInv, IInv', CountedFact, CountedFact', NEW u \in Updaters, Apply(u)
    PROVE Service!Step
<1> USE DEF Go, Reads, Writes
<1> DEFINE Report(end) == IF end = "applied" THEN "applied"
                          ELSE IF end = "rolled_back" THEN "undone" ELSE "nothing"
<1>1. Told' = [Told EXCEPT ![u] = Report(pc'[u])]
  BY Beside DEF Told, IInv, TypeOK
<1>2. Counted' \in Tree
  BY DEF CountedFact
<1>3. CASE u \notin Open
  <2>1. Service!Tell(u, Report(pc'[u]))
    BY <1>1 DEF Service!Tell
  <2>2. Report(pc'[u]) \in Service!Reports
    BY DEF Service!Reports
  <2> QED
    BY <1>2, <1>3, <2>1, <2>2 DEF Service!Step, Service!Foreign
<1>4. CASE u \in Open
  <2>1. u \in Midway /\ ~disturbed[u] /\ Told[u] = "nothing"
    BY <1>4 DEF Open, Midway, Told
  <2>2. CASE pc'[u] \notin {"applied", "rolled_back"}
    <3>1. Told' = Told
      BY <1>1, <2>1, <2>2 DEF Told
    <3> QED
      BY <1>2, <3>1 DEF Service!Step, Service!Foreign
  <2>3. CASE pc'[u] = "applied"
    <3>1. Finish(u)
      BY <2>1, <2>3 DEF Apply, Unreadable, Refuse, Read, Snapshot, ReadFails, Wipe, Write, WriteFails, Verify,
         VerifyFails, Measure, MeasureFails, Clear, Refill, Confirm, RestoreFails, Return, Kill, Idle,
         Midway, Ended, IInv, TypeOK
    <3>2. UNCHANGED <<tree, snap, disturbed>> /\ u \notin Midway'
      BY <2>3, <3>1 DEF Finish, Midway
    <3>3. Midway' \subseteq Midway
      BY <3>1, <3>2, Beside DEF Midway, IInv
    <3>4. Counted' = tree
      BY <1>4, <3>2, <3>3, EndsAsItIs
    <3>5. Updated(preview[u], snap[u], tree)
      BY <2>1, <3>1 DEF Finish, Updated, IInv, AloneInv, Alone, Candidate
    <3>6. Service!Close(u)
      BY <1>4, <3>2 DEF Service!Close, Open
    <3>7. Service!Tell(u, "applied")
      BY <1>1, <2>3 DEF Service!Tell
    <3>8. Service!Apply(u)
      BY <3>4, <3>5, <3>6, <3>7 DEF Service!Apply
    <3> QED
      BY <3>8 DEF Service!Step
  <2>4. CASE pc'[u] = "rolled_back"
    <3>1. Confirm(u)
      BY <2>1, <2>4 DEF Apply, Unreadable, Refuse, Read, Snapshot, ReadFails, Wipe, Write, WriteFails, Verify,
         VerifyFails, Finish, Measure, MeasureFails, Clear, Refill, RestoreFails, Return, Kill, Idle,
         Midway, Ended, IInv, TypeOK
    <3>2. UNCHANGED <<tree, snap, disturbed>> /\ u \notin Midway'
      BY <2>4, <3>1 DEF Confirm, Midway
    <3>3. Midway' \subseteq Midway
      BY <3>1, <3>2, Beside DEF Midway, IInv
    <3>4. Counted' = tree
      BY <1>4, <3>2, <3>3, EndsAsItIs
    <3>5. tree = snap[u]
      BY <2>1, <2>4, <3>2 DEF IInv, AloneInv, Alone
    <3>6. Service!Close(u)
      BY <1>4, <3>2 DEF Service!Close, Open
    <3>7. Service!Tell(u, "undone")
      BY <1>1, <2>4 DEF Service!Tell
    <3>8. Service!Undo(u)
      BY <3>4, <3>5, <3>6, <3>7 DEF Service!Undo
    <3> QED
      BY <3>8 DEF Service!Step
  <2> QED
    BY <2>2, <2>3, <2>4
<1> QED
  BY <1>3, <1>4

\* Others write to the target, or previews come and go.
LEMMA OtherImplements ==
    ASSUME IInv, IInv', CountedFact, CountedFact', Preview \/ Drop \/ Drift
    PROVE Service!Next
<1>1. UNCHANGED local
  BY DEF Preview, Drop, Drift
<1>2. Service!Open
  BY <1>1 DEF local, Service!Open, CountedFact
<1>3. Told' = Told
  BY <1>1 DEF local, Told
<1> QED
  BY <1>2, <1>3 DEF CountedFact, Service!Next, Service!Step, Service!Foreign

\* The update implements the abstract transaction: whoever has the target to
\* himself and reports "applied" did all of the work, and whoever reports
\* "rolled_back" did none of it.
THEOREM Implementation == Spec => ImplementsTransaction
<1>1. IInv /\ Init => Service!Init
  <2> SUFFICES ASSUME IInv, Init
               PROVE Service!Init
    OBVIOUS
  <2>1. Open = {}
    BY DEF Init, Open, Midway
  <2>2. Told = [c \in Updaters |-> "nothing"]
    BY DEF Init, Told
  <2>3. Counted \in Tree
    BY CountedIs DEF CountedFact
  <2> QED
    BY <2>1, <2>2, <2>3 DEF Service!Init
<1>2. IInv /\ IInv' /\ CountedFact /\ CountedFact' /\ [Next]_vars => [Service!Next]_Service!vars
  <2>1. ASSUME IInv, IInv', CountedFact, CountedFact', NEW u \in Updaters, Apply(u)
        PROVE Service!Next
    BY <2>1, OpenStep, TellStep DEF Service!Next
  <2>2. CASE UNCHANGED vars
    BY <2>2 DEF vars, local, Service!vars, Counted, Open, Midway, Told
  <2> QED
    BY <2>1, <2>2, OtherImplements DEF Next
<1> QED
  BY <1>1, <1>2, CountedIs, Invariance, PTL DEF Spec, ImplementsTransaction, Service!Spec
=============================================================================
