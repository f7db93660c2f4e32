-------------------------- MODULE PromotionProofs --------------------------
(***************************************************************************)
(* Proofs about Promotion, for every set of promoters, captures and        *)
(* targets and every bound on the fencing counter.                         *)
(***************************************************************************)
EXTENDS Promotion, TLAPS

\* The lock file of a target names the one promoter that works on it.
LockInv ==
    \A p \in Promoters, t \in Targets :
        lock[t] = p <=> pc[p] \in Locked /\ target(p) = t

\* Past the fencing counter, a promoter holds the newest token of its target.
Fenced == {"fenced", "measured", "requested", "prepared", "placing", "placed",
           "verified", "failing", "restoring", "restored"}
FenceInv ==
    \A p \in Promoters : pc[p] \in Fenced => token[p] = fence[target(p)]

\* A promoter that goes on to the file was permitted to.
Placing == {"placing", "placed", "verified", "failing", "restoring", "restored"}
PermitInv ==
    \A p \in Promoters : pc[p] \in Placing => Permits(p)

\* The inductive invariant of what holds whatever files the targets name.
IInv == TypeOK /\ LockInv /\ FenceInv /\ PermitInv
----------------------------------------------------------------------------
\* A promoter that goes from one place under the lock to another, and touches
\* none of the target's files but the receipts.
LEMMA AdvanceStep ==
    ASSUME IInv, NEW p \in Promoters, NEW from \in Locked, NEW to \in Locked,
           Go(p, from, to), UNCHANGED <<lock, fence, job, token>>,
           to \in Fenced => from \in Fenced,
           to \in Placing => Permits(p)
    PROVE  /\ LockInv' /\ FenceInv' /\ PermitInv'
           /\ pc' \in [Promoters -> {"idle", "waiting"} \cup Locked]
           /\ \A q \in Promoters : pc'[q] # "idle" => job'[q] \in Jobs
<1>1. \A q \in Promoters : pc'[q] = IF q = p THEN to ELSE pc[q]
  BY DEF IInv, TypeOK, Go
<1>2. pc[p] = from
  BY DEF Go
<1>3. LockInv'
  BY <1>1, <1>2 DEF IInv, LockInv, target
<1>4. FenceInv'
  BY <1>1, <1>2 DEF IInv, FenceInv, target
<1>5. PermitInv'
  BY <1>1, <1>2 DEF IInv, PermitInv, Permits, target, capture
<1>6. pc' \in [Promoters -> {"idle", "waiting"} \cup Locked]
  BY DEF IInv, TypeOK, Go
<1>7. \A q \in Promoters : pc'[q] # "idle" => job'[q] \in Jobs
  BY <1>1, <1>2 DEF IInv, TypeOK, Locked
<1>8. QED
  BY <1>3, <1>4, <1>5, <1>6, <1>7

\* A receipt is written for the job at hand, and keeps its contract.
LEMMA WriteStep ==
    ASSUME IInv, NEW p \in Promoters, NEW phase \in Phases, pc[p] # "idle",
           Write(p, phase), phase = "committed" => Permits(p)
    PROVE  /\ receipts' \subseteq Receipt
           /\ \A r \in receipts' : Contract!PromotionErrors(Document(r)) = {}
<1>1. receipt(p, phase) \in Receipt
  BY DEF IInv, TypeOK, Jobs, receipt, Receipt, capture, target
<1>2. Contract!PromotionErrors(Document(receipt(p, phase))) = {}
  BY DEF Contract!PromotionErrors, Contract!Error, Document, Planned, receipt, Permits
<1>3. QED
  BY <1>1, <1>2 DEF Write, IInv, TypeOK

\* What one promoter does under the lock, apart from the fencing counter.
LEMMA WorkStep ==
    ASSUME IInv, NEW p \in Promoters,
           \/ Snapshot(p) \/ PersistRequest(p) \/ PersistPrepared(p) \/ Reject(p)
           \/ AlreadyThere(p) \/ Remeasure(p) \/ Place(p) \/ PlaceFails(p)
           \/ Readback(p) \/ ReadbackFails(p) \/ MeasureForRestore(p) \/ Restore(p)
           \/ GiveUp(p) \/ RecordFailure(p) \/ RecordCommit(p) \/ WriteFails(p)
    PROVE  IInv'
<1>1. PICK from \in Locked, to \in Locked :
        /\ Go(p, from, to)
        /\ to \in Fenced => from \in Fenced
        /\ to \in Placing => Permits(p)
  <2>1. CASE Snapshot(p) \/ PersistRequest(p) \/ PersistPrepared(p)
    BY <2>1 DEF Snapshot, PersistRequest, PersistPrepared, Locked, Fenced, Placing
  <2>2. CASE Reject(p) \/ AlreadyThere(p)
    BY <2>2 DEF Reject, AlreadyThere, Locked, Fenced, Placing
  <2>3. CASE Remeasure(p)
    BY <2>3 DEF Remeasure, Go, Locked, Fenced, Placing
  <2>4. CASE \/ Place(p) \/ PlaceFails(p) \/ Readback(p) \/ ReadbackFails(p)
             \/ MeasureForRestore(p) \/ Restore(p)
    <3>1. pc[p] \in Placing
      BY <2>4 DEF Place, PlaceFails, Readback, ReadbackFails, MeasureForRestore,
                  Restore, Go, Placing
    <3>2. Permits(p)
      BY <3>1 DEF IInv, PermitInv
    <3>3. QED
      BY <2>4, <3>2 DEF Place, PlaceFails, Readback, ReadbackFails, MeasureForRestore,
                        Restore, Locked, Fenced
  <2>5. CASE GiveUp(p) \/ RecordFailure(p) \/ RecordCommit(p)
    BY <2>5 DEF GiveUp, RecordFailure, RecordCommit, Locked, Fenced, Placing
  <2>6. CASE WriteFails(p)
    BY <2>6 DEF WriteFails, Go, Locked, Fenced, Placing
  <2>7. QED
    BY <2>1, <2>2, <2>3, <2>4, <2>5, <2>6
<1>2. UNCHANGED <<lock, fence, job, token>>
  BY DEF Snapshot, PersistRequest, PersistPrepared, Reject, AlreadyThere, Remeasure,
         Place, PlaceFails, Readback, ReadbackFails, MeasureForRestore, Restore,
         GiveUp, RecordFailure, RecordCommit, WriteFails
<1>3. /\ LockInv' /\ FenceInv' /\ PermitInv'
      /\ pc' \in [Promoters -> {"idle", "waiting"} \cup Locked]
      /\ \A q \in Promoters : pc'[q] # "idle" => job'[q] \in Jobs
  BY <1>1, <1>2, AdvanceStep
<1>4. job[p] \in Jobs /\ pc[p] # "idle"
  BY <1>1 DEF IInv, TypeOK, Go, Locked
<1>5. snap' \in [Promoters -> Stored] /\ file' \in [Files -> Stored]
  <2>1. capture(p) \in Stored /\ path(p) \in Files /\ snap[p] \in Stored
    BY <1>4, PromotionAssumption DEF capture, path, Jobs, Files, Stored, IInv, TypeOK
  <2>2. CASE Snapshot(p)
    BY <2>1, <2>2 DEF Snapshot, IInv, TypeOK
  <2>3. CASE Place(p)
    BY <2>1, <2>3 DEF Place, IInv, TypeOK
  <2>4. CASE Restore(p)
    BY <2>1, <2>4 DEF Restore, IInv, TypeOK
  <2>5. CASE UNCHANGED <<snap, file>>
    BY <2>5 DEF IInv, TypeOK
  <2>6. QED
    BY <2>2, <2>3, <2>4, <2>5 DEF PersistRequest, PersistPrepared, Reject, AlreadyThere,
        Remeasure, PlaceFails, Readback, ReadbackFails, MeasureForRestore,
        GiveUp, RecordFailure, RecordCommit, WriteFails
<1>6. /\ receipts' \subseteq Receipt
      /\ \A r \in receipts' : Contract!PromotionErrors(Document(r)) = {}
  <2>1. CASE receipts' = receipts
    BY <2>1 DEF IInv, TypeOK
  <2>2. CASE \E phase \in Phases : Write(p, phase) /\ phase # "committed"
    BY <1>4, <2>2, WriteStep
  <2>3. CASE RecordCommit(p)
    <3>1. Permits(p)
      BY <2>3 DEF RecordCommit, Go, Placing, IInv, PermitInv
    <3>2. QED
      BY <1>4, <2>3, <3>1, WriteStep DEF RecordCommit, Phases
  <2>4. QED
    BY <2>1, <2>2, <2>3 DEF Snapshot, PersistRequest, PersistPrepared, Reject,
        AlreadyThere, Remeasure, Place, PlaceFails, Readback, ReadbackFails,
        MeasureForRestore, Restore, GiveUp, RecordFailure, WriteFails, Phases
<1>7. TypeOK'
  BY <1>2, <1>3, <1>5, <1>6 DEF IInv, TypeOK
<1>8. QED
  BY <1>3, <1>7 DEF IInv

\* A promoter that is not, or no longer, under any lock leaves its job.
LEMMA ForgetStep ==
    ASSUME IInv, NEW p \in Promoters, Forget(p),
           UNCHANGED <<file, fence, receipts>>,
           lock' \in [Targets -> Promoters \cup {Free, Stale}],
           \A t \in Targets : lock'[t] # p,
           \A t \in Targets, q \in Promoters : q # p => (lock'[t] = q <=> lock[t] = q)
    PROVE  IInv'
<1>1. \A q \in Promoters :
        /\ pc'[q] = IF q = p THEN "idle" ELSE pc[q]
        /\ job'[q] = IF q = p THEN NoJob ELSE job[q]
        /\ token'[q] = IF q = p THEN 0 ELSE token[q]
        /\ snap'[q] = IF q = p THEN Absent ELSE snap[q]
  BY DEF IInv, TypeOK, Forget
<1>2. TypeOK'
  <2>1. pc' \in [Promoters -> {"idle", "waiting"} \cup Locked]
    BY DEF IInv, TypeOK, Forget
  <2>2. job' \in [Promoters -> Jobs \cup {NoJob}]
    BY DEF IInv, TypeOK, Forget
  <2>3. token' \in [Promoters -> Nat]
    BY DEF IInv, TypeOK, Forget
  <2>4. snap' \in [Promoters -> Stored]
    BY DEF IInv, TypeOK, Forget, Stored
  <2>5. \A q \in Promoters : pc'[q] # "idle" => job'[q] \in Jobs
    BY <1>1 DEF IInv, TypeOK
  <2>6. QED
    BY <2>1, <2>2, <2>3, <2>4, <2>5 DEF IInv, TypeOK
<1>3. LockInv'
  BY <1>1 DEF IInv, LockInv, Locked, target
<1>4. FenceInv'
  BY <1>1 DEF IInv, FenceInv, Fenced, target
<1>5. PermitInv'
  BY <1>1 DEF IInv, PermitInv, Placing, Permits, target, capture
<1>6. QED
  BY <1>2, <1>3, <1>4, <1>5 DEF IInv

\* Everything else a promoter, or an operator, does.
LEMMA EntryStep ==
    ASSUME IInv, NEW p \in Promoters,
           Start(p) \/ TakeLock(p) \/ ReadFence(p) \/ WriteFence(p)
    PROVE  IInv'
<1>1. CASE Start(p)
  <2> USE DEF Start, Go
  <2>1. PICK c \in Captures, t \in Targets :
          job' = [job EXCEPT ![p] = [capture |-> c, target |-> t]]
    BY <1>1
  <2>2. [capture |-> c, target |-> t] \in Jobs
    BY DEF Jobs
  <2>3. \A q \in Promoters :
          /\ pc'[q] = IF q = p THEN "waiting" ELSE pc[q]
          /\ q # p => job'[q] = job[q]
          /\ q = p => job'[q] \in Jobs
    BY <1>1, <2>1, <2>2 DEF IInv, TypeOK
  <2>4. TypeOK'
    <3>1. pc' \in [Promoters -> {"idle", "waiting"} \cup Locked]
      BY <1>1 DEF IInv, TypeOK
    <3>2. job' \in [Promoters -> Jobs \cup {NoJob}]
      BY <2>1, <2>2 DEF IInv, TypeOK
    <3>3. QED
      BY <1>1, <2>3, <3>1, <3>2 DEF IInv, TypeOK
  <2>5. LockInv'
    BY <1>1, <2>3 DEF IInv, LockInv, Locked, target
  <2>6. FenceInv'
    BY <1>1, <2>3 DEF IInv, FenceInv, Fenced, target
  <2>7. PermitInv'
    BY <1>1, <2>3 DEF IInv, PermitInv, Placing, Permits, target, capture
  <2>8. QED
    BY <2>4, <2>5, <2>6, <2>7 DEF IInv
<1>2. CASE TakeLock(p)
  <2> USE DEF TakeLock, Go
  <2>1. \A q \in Promoters : pc'[q] = IF q = p THEN "locked" ELSE pc[q]
    BY <1>2 DEF IInv, TypeOK
  <2>2. pc[p] = "waiting" /\ target(p) \in Targets /\ lock[target(p)] = Free
    BY <1>2 DEF IInv, TypeOK, Jobs, target
  <2>3. \A t \in Targets : lock'[t] = IF t = target(p) THEN p ELSE lock[t]
    BY <1>2, <2>2 DEF IInv, TypeOK
  <2>4. TypeOK'
    BY <1>2, <2>1, <2>2 DEF IInv, TypeOK, Locked
  <2>5. LockInv'
    <3> SUFFICES ASSUME NEW q \in Promoters, NEW t \in Targets
                 PROVE  (lock[t] = q <=> pc[q] \in Locked /\ target(q) = t)'
      BY DEF LockInv
    <3>1. lock[t] = q <=> pc[q] \in Locked /\ target(q) = t
      BY DEF IInv, LockInv
    <3>2. CASE q = p
      BY <1>2, <2>1, <2>2, <2>3, <3>1, <3>2 DEF target, Locked
    <3>3. CASE q # p
      BY <1>2, <2>1, <2>2, <2>3, <3>1, <3>3, PromotionAssumption DEF target, Locked
    <3>4. QED
      BY <3>2, <3>3
  <2>6. FenceInv' /\ PermitInv'
    BY <1>2, <2>1 DEF IInv, FenceInv, PermitInv, Permits, Fenced, Placing, target, capture
  <2>7. QED
    BY <2>4, <2>5, <2>6 DEF IInv
<1>3. CASE ReadFence(p)
  <2> USE DEF ReadFence, Go
  <2>1. \A q \in Promoters :
          /\ pc'[q] = IF q = p THEN "fencing" ELSE pc[q]
          /\ q # p => token'[q] = token[q]
    BY <1>3 DEF IInv, TypeOK
  <2>2. fence[target(p)] + 1 \in Nat
    BY <1>3 DEF IInv, TypeOK, Jobs, target
  <2>3. TypeOK'
    BY <1>3, <2>1, <2>2 DEF IInv, TypeOK, Locked
  <2>4. LockInv' /\ FenceInv' /\ PermitInv'
    BY <1>3, <2>1 DEF IInv, LockInv, FenceInv, PermitInv, Permits, Locked, Fenced,
                      Placing, target, capture
  <2>5. QED
    BY <2>3, <2>4 DEF IInv
<1>4. CASE WriteFence(p)
  <2> USE DEF WriteFence, Go
  <2>1. \A q \in Promoters : pc'[q] = IF q = p THEN "fenced" ELSE pc[q]
    BY <1>4 DEF IInv, TypeOK
  <2>2. target(p) \in Targets
    BY <1>4 DEF IInv, TypeOK, Jobs, target
  <2>3. TypeOK'
    BY <1>4, <2>1, <2>2 DEF IInv, TypeOK, Locked
  <2>4. LockInv' /\ PermitInv'
    BY <1>4, <2>1 DEF IInv, LockInv, PermitInv, Permits, Locked, Placing, target, capture
  <2>5. FenceInv'
    <3> SUFFICES ASSUME NEW q \in Promoters, pc'[q] \in Fenced
                 PROVE  token[q] = fence'[target(q)]
      BY <1>4 DEF FenceInv, target
    <3>1. CASE q = p
      BY <1>4, <2>2, <3>1 DEF IInv, TypeOK
    <3>2. CASE q # p
      <4>1. target(q) # target(p)
        <5>1. pc[q] \in Locked /\ pc[p] \in Locked
          BY <1>4, <2>1, <3>2 DEF Fenced, Locked
        <5>2. QED
          BY <2>2, <3>2, <5>1 DEF IInv, LockInv
      <4>2. QED
        BY <1>4, <2>1, <3>2, <4>1 DEF IInv, TypeOK, FenceInv
    <3>3. QED
      BY <3>1, <3>2
  <2>6. QED
    BY <2>3, <2>4, <2>5 DEF IInv
<1>5. QED
  BY <1>1, <1>2, <1>3, <1>4

LEMMA ExitStep ==
    ASSUME IInv, NEW p \in Promoters, TimeOut(p) \/ Unlock(p) \/ Kill(p)
    PROVE  IInv'
<1>0. \A t \in Targets : lock[t] = p <=> pc[p] \in Locked /\ target(p) = t
  BY DEF IInv, LockInv
<1>1. CASE TimeOut(p)
  <2>1. \A t \in Targets : lock[t] # p
    BY <1>0, <1>1 DEF TimeOut, Locked
  <2>2. QED
    BY <1>1, <2>1, ForgetStep DEF TimeOut, IInv, TypeOK
<1>2. CASE Unlock(p)
  <2>1. target(p) \in Targets /\ lock[target(p)] = p
    BY <1>0, <1>2 DEF Unlock, Locked, IInv, TypeOK, Jobs, target
  <2>2. /\ lock' \in [Targets -> Promoters \cup {Free, Stale}]
        /\ \A t \in Targets : lock'[t] = IF t = target(p) THEN Free ELSE lock[t]
    BY <1>2, <2>1 DEF Unlock, IInv, TypeOK
  <2>3. QED
    BY <1>0, <1>2, <2>1, <2>2, ForgetStep, PromotionAssumption DEF Unlock
<1>3. CASE Kill(p)
  <2>1. /\ lock' \in [Targets -> Promoters \cup {Free, Stale}]
        /\ \A t \in Targets : lock'[t] = IF lock[t] = p THEN Stale ELSE lock[t]
    BY <1>3 DEF Kill, IInv, TypeOK
  <2>2. QED
    BY <1>3, <2>1, ForgetStep, PromotionAssumption DEF Kill
<1>4. QED
  BY <1>1, <1>2, <1>3

LEMMA InitInv == Init => IInv
<1> SUFFICES ASSUME Init PROVE IInv
  OBVIOUS
<1>1. Absent \in Stored
  BY DEF Stored
<1>2. TypeOK
  BY <1>1 DEF Init, TypeOK
<1>3. LockInv
  BY PromotionAssumption DEF Init, LockInv, Locked
<1>4. FenceInv /\ PermitInv
  BY DEF Init, FenceInv, PermitInv, Fenced, Placing
<1>5. QED
  BY <1>2, <1>3, <1>4 DEF IInv

LEMMA NextInv == IInv /\ [Next]_vars => IInv'
<1> SUFFICES ASSUME IInv, [Next]_vars PROVE IInv'
  OBVIOUS
<1>1. ASSUME NEW p \in Promoters, Start(p) \/ Proceed(p) \/ Kill(p)
      PROVE  IInv'
  BY <1>1, WorkStep, EntryStep, ExitStep DEF Proceed
<1>2. ASSUME NEW t \in Targets, ClearLock(t)
      PROVE  IInv'
  <2>1. /\ lock' \in [Targets -> Promoters \cup {Free, Stale}]
        /\ \A s \in Targets : lock'[s] = IF s = t THEN Free ELSE lock[s]
    BY <1>2 DEF ClearLock, IInv, TypeOK
  <2>2. TypeOK'
    BY <1>2, <2>1 DEF ClearLock, IInv, TypeOK
  <2>3. LockInv'
    BY <1>2, <2>1, PromotionAssumption DEF ClearLock, IInv, LockInv, target
  <2>4. FenceInv' /\ PermitInv'
    BY <1>2 DEF ClearLock, IInv, FenceInv, PermitInv, Permits, target, capture
  <2>5. QED
    BY <2>2, <2>3, <2>4 DEF IInv
<1>3. CASE UNCHANGED vars
  BY <1>3 DEF vars, IInv, TypeOK, LockInv, FenceInv, PermitInv, Permits, target, capture
<1>4. QED
  BY <1>1, <1>2, <1>3 DEF Next, Finished

\* The inductive invariant holds throughout.
THEOREM Invariance == Spec => []IInv
<1>1. QED
  BY InitInv, NextInv, PTL DEF Spec

\* Every variable keeps its type, and every receipt a promotion leaves, wherever it
\* is refused, fails or is killed, meets the contract of its schema.
THEOREM TypeCorrect == Spec => []TypeOK
<1>1. IInv => TypeOK
  BY DEF IInv
<1>2. QED
  BY <1>1, Invariance, PTL
----------------------------------------------------------------------------
\* A target file changes only when a promoter places or restores it.
LEMMA FileStep ==
    ASSUME [Next]_vars
    PROVE  file' = file \/ \E p \in Promoters : Place(p) \/ Restore(p)
<1>1. ASSUME NEW p \in Promoters, Start(p) \/ Proceed(p) \/ Kill(p),
             ~Place(p), ~Restore(p)
      PROVE  file' = file
  BY <1>1 DEF Start, Proceed, Kill, TakeLock, TimeOut, ReadFence, WriteFence, Snapshot,
      PersistRequest, PersistPrepared, Reject, AlreadyThere, Remeasure, PlaceFails,
      Readback, ReadbackFails, MeasureForRestore, GiveUp, RecordFailure, RecordCommit,
      WriteFails, Unlock
<1>2. ASSUME NEW t \in Targets, ClearLock(t)
      PROVE  file' = file
  BY <1>2 DEF ClearLock
<1>3. QED
  BY <1>1, <1>2 DEF Next, Finished, vars

\* A target's file is written only by the holder of its newest fencing token
\* (_next_fencing_token), whatever other targets share the file.
THEOREM FencedWrites == Spec => NewestFenceWrites
<1>1. ASSUME IInv, [Next]_vars, file' # file
      PROVE  \E p \in Promoters :
                /\ pc[p] \in {"placing", "restoring"} /\ pc'[p] # pc[p]
                /\ token[p] = fence[target(p)]
                /\ file'[path(p)] # file[path(p)]
  <2>1. PICK p \in Promoters : Place(p) \/ Restore(p)
    BY <1>1, FileStep
  <2>2. pc[p] \in {"placing", "restoring"} /\ pc'[p] # pc[p]
    BY <1>1, <2>1 DEF Place, Restore, Go, IInv, TypeOK
  <2>3. token[p] = fence[target(p)]
    BY <1>1, <2>2 DEF IInv, FenceInv, Fenced
  <2>4. file'[path(p)] # file[path(p)]
    <3>1. file \in [Files -> Stored]
      BY <1>1 DEF IInv, TypeOK
    <3>2. PICK v : file' = [file EXCEPT ![path(p)] = v]
      BY <2>1 DEF Place, Restore
    <3>3. QED
      BY <1>1, <3>1, <3>2
  <2>5. QED
    BY <2>2, <2>3, <2>4
<1>2. IInv /\ [Next]_vars =>
        [file' # file => \E p \in Promoters :
            /\ pc[p] \in {"placing", "restoring"} /\ pc'[p] # pc[p]
            /\ token[p] = fence[target(p)]
            /\ file'[path(p)] # file[path(p)]]_vars
  BY <1>1
<1>3. QED
  BY <1>2, Invariance, PTL DEF Spec, NewestFenceWrites
----------------------------------------------------------------------------
\* What follows needs that no two targets name one file (OneTargetPerFile).

\* A committed receipt concerns the promoter's file.
Promised(p) == \E r \in receipts : r.phase = "committed" /\ FileOf(r.target) = path(p)

Measured == Fenced \ {"fenced"}

\* From the snapshot on, a promoter knows what its file holds.
Standing(p) ==
    /\ pc[p] \in {"measured", "requested", "prepared", "placing", "restored"} =>
          file[path(p)] = snap[p]
    /\ pc[p] \in {"placed", "verified", "restoring"} => file[path(p)] = capture(p)
    /\ pc[p] = "failing" => file[path(p)] \in {snap[p], capture(p)}
    /\ pc[p] = "placing" => snap[p] = Absent
    /\ pc[p] \in Placing => snap[p] \in {Absent, capture(p)}
    /\ pc[p] \in Measured /\ snap[p] = Absent => ~Promised(p)
    /\ pc[p] \in Placing \cup {"prepared"} => receipt(p, "prepared") \in receipts

\* The inductive invariant of the target files.
FileInv ==
    /\ IInv
    /\ CommittedStays
    /\ \A p \in Promoters : Standing(p)

LEMMA Apart ==
    ASSUME OneTargetPerFile, IInv, NEW p \in Promoters, NEW q \in Promoters, p # q,
           pc[p] \in Locked, pc[q] \in Locked
    PROVE  path(p) # path(q) /\ path(p) \in Files /\ path(q) \in Files
<1>1. target(p) \in Targets /\ target(q) \in Targets
  BY DEF IInv, TypeOK, Locked, Jobs, target
<1>2. target(p) # target(q)
  BY <1>1 DEF IInv, LockInv
<1>3. QED
  BY <1>1, <1>2 DEF OneTargetPerFile, path, target, Files

\* A promoter at work leaves the files of the others alone.
LEMMA OthersStand ==
    ASSUME OneTargetPerFile, FileInv, NEW p \in Promoters, NEW q \in Promoters, p # q,
           pc[p] \in Locked, pc'[q] = pc[q], job'[q] = job[q], snap'[q] = snap[q],
           token'[q] = token[q],
           \/ file' = file
           \/ \E v : file' = [file EXCEPT ![path(p)] = v],
           \/ receipts' = receipts
           \/ \E phase \in Phases : Write(p, phase)
    PROVE  Standing(q)'
<1> SUFFICES ASSUME pc[q] \in Locked
             PROVE  Standing(q)'
  BY DEF Standing, Measured, Fenced, Placing, Locked
<1>1. path(p) # path(q) /\ path(p) \in Files /\ path(q) \in Files
  BY Apart DEF FileInv
<1>2. file'[path(q)] = file[path(q)] /\ path(q)' = path(q) /\ capture(q)' = capture(q)
  BY <1>1 DEF FileInv, IInv, TypeOK, path, capture
<1>3. Promised(q)' => Promised(q)
  <2>1. CASE receipts' = receipts
    BY <1>2, <2>1 DEF Promised
  <2>2. CASE \E phase \in Phases : receipts' = receipts \cup {receipt(p, phase)}
    <3>1. \A phase : FileOf(receipt(p, phase).target) = path(p)
      BY DEF receipt, target, path
    <3>2. QED
      BY <1>1, <1>2, <2>2, <3>1 DEF Promised
  <2>3. QED
    BY <2>1, <2>2 DEF Write
<1>4. receipt(q, "prepared")' = receipt(q, "prepared") /\ receipts \subseteq receipts'
  BY <1>2 DEF receipt, capture, target, Write
<1>5. Standing(q)
  BY DEF FileInv
<1>6. QED
  BY <1>2, <1>3, <1>4, <1>5 DEF Standing

\* What a promoter at work does to its own file and receipts.
LEMMA OwnStep ==
    ASSUME OneTargetPerFile, FileInv, NEW p \in Promoters,
           \/ Snapshot(p) \/ PersistRequest(p) \/ PersistPrepared(p) \/ Reject(p)
           \/ AlreadyThere(p) \/ Remeasure(p) \/ Place(p) \/ PlaceFails(p)
           \/ Readback(p) \/ ReadbackFails(p) \/ MeasureForRestore(p) \/ Restore(p)
           \/ GiveUp(p) \/ RecordFailure(p) \/ RecordCommit(p) \/ WriteFails(p)
    PROVE  Standing(p)' /\ CommittedStays'
<1>1. Standing(p) /\ CommittedStays
  BY DEF FileInv
<1>2. /\ pc[p] \in Locked /\ job[p] \in Jobs
      /\ pc \in [Promoters -> {"idle", "waiting"} \cup Locked]
      /\ snap \in [Promoters -> Stored] /\ file \in [Files -> Stored]
      /\ capture(p) \in Captures /\ target(p) \in Targets /\ path(p) \in Files
  <2>1. pc[p] \in Locked
    BY DEF Snapshot, PersistRequest, PersistPrepared, Reject, AlreadyThere, Remeasure,
           Place, PlaceFails, Readback, ReadbackFails, MeasureForRestore, Restore,
           GiveUp, RecordFailure, RecordCommit, WriteFails, Go, Locked
  <2>2. job[p] \in Jobs
    BY <2>1 DEF FileInv, IInv, TypeOK, Locked
  <2>3. QED
    BY <2>1, <2>2 DEF FileInv, IInv, TypeOK, Jobs, capture, target, path, Files
<1>3. capture(p) # Absent
  BY <1>2, PromotionAssumption
<1>4. \A r \in receipts : r.phase = "committed" /\ FileOf(r.target) = path(p) =>
        r.target = target(p) /\ file[path(p)] = r.capture
  <2>1. \A r \in receipts : r.target \in Targets
    BY DEF FileInv, IInv, TypeOK, Receipt
  <2>2. QED
    BY <1>1, <1>2, <2>1 DEF CommittedStays, OneTargetPerFile, path, target
<1>5. CASE Snapshot(p)
  <2>1. ~(file[path(p)] = Absent /\ Promised(p))
    <3>1. \A r \in receipts : r.capture \in Captures
      BY DEF FileInv, IInv, TypeOK, Receipt
    <3>2. QED
      BY <1>4, <3>1, PromotionAssumption DEF Promised
  <2>2. pc'[p] = "measured" /\ snap'[p] = file[path(p)]
    BY <1>2, <1>5 DEF Snapshot, Go
  <2>3. UNCHANGED <<file, receipts, job>>
    BY <1>5 DEF Snapshot
  <2>4. Standing(p)'
    BY <2>1, <2>2, <2>3 DEF Standing, Promised, Placing, path, capture
  <2>5. QED
    BY <1>1, <2>3, <2>4 DEF CommittedStays
<1>6. CASE PersistRequest(p) \/ PersistPrepared(p)
  <2>1. PICK phase \in {"request", "prepared"} :
          /\ receipts' = receipts \cup {receipt(p, phase)}
          /\ pc[p] \in Measured
          /\ pc'[p] = IF phase = "request" THEN "requested" ELSE "prepared"
          /\ phase = "request" => pc[p] = "measured"
          /\ phase = "prepared" => pc[p] = "requested"
    BY <1>2, <1>6 DEF PersistRequest, PersistPrepared, Write, Go, Measured, Fenced
  <2>2. UNCHANGED <<file, job, token, snap>>
    BY <1>6 DEF PersistRequest, PersistPrepared
  <2>3. receipt(p, phase).phase # "committed"
    BY DEF receipt
  <2>4. receipt(p, "prepared")' = receipt(p, "prepared")
    BY <2>2 DEF receipt, capture, target
  <2>5. Standing(p)'
    BY <1>1, <2>1, <2>2, <2>3, <2>4 DEF Standing, Promised, Placing, path, capture
  <2>6. QED
    BY <1>1, <2>1, <2>2, <2>3, <2>5 DEF CommittedStays
<1>7. CASE \/ AlreadyThere(p) \/ Remeasure(p) \/ PlaceFails(p) \/ Readback(p)
           \/ ReadbackFails(p) \/ MeasureForRestore(p) \/ WriteFails(p)
  <2>1. UNCHANGED <<file, receipts, job, token, snap>>
    BY <1>7 DEF AlreadyThere, Remeasure, PlaceFails, Readback, ReadbackFails,
                MeasureForRestore, WriteFails
  <2>2. receipt(p, "prepared")' = receipt(p, "prepared")
    BY <2>1 DEF receipt, capture, target
  <2>3. \/ pc[p] = "prepared" /\ pc'[p] = "placed" /\ snap[p] = capture(p)
        \/ pc[p] = "prepared" /\ pc'[p] = "placing" /\ snap[p] = Absent
        \/ pc[p] = "prepared" /\ pc'[p] = "failing" /\ snap[p] = Absent
        \/ pc[p] = "placing" /\ pc'[p] = "failing"
        \/ pc[p] = "placed" /\ pc'[p] = "verified"
        \/ pc[p] = "placed" /\ pc'[p] = "failing"
        \/ pc[p] = "failing" /\ pc'[p] = "restoring" /\ file[path(p)] = capture(p)
        \/ pc'[p] = "done"
    BY <1>2, <1>7 DEF AlreadyThere, Remeasure, PlaceFails, Readback, ReadbackFails,
                      MeasureForRestore, WriteFails, Go, Occupied
  <2>4. Standing(p)'
    BY <1>1, <2>1, <2>2, <2>3 DEF Standing, Promised, Measured, Fenced, Placing, path, capture
  <2>5. QED
    BY <1>1, <2>1, <2>4 DEF CommittedStays
<1>8. CASE Place(p) \/ Restore(p)
  <2>1. UNCHANGED <<receipts, job, token, snap>>
    BY <1>8 DEF Place, Restore
  <2>2. \/ /\ pc[p] = "placing" /\ pc'[p] = "placed"
           /\ file' = [file EXCEPT ![path(p)] = capture(p)]
        \/ /\ pc[p] = "restoring" /\ pc'[p] = "restored"
           /\ file' = [file EXCEPT ![path(p)] = snap[p]]
    BY <1>2, <1>8 DEF Place, Restore, Go
  <2>3. receipt(p, "prepared")' = receipt(p, "prepared")
    BY <2>1 DEF receipt, capture, target
  <2>4. Standing(p)'
    BY <1>1, <1>2, <2>1, <2>2, <2>3
       DEF Standing, Promised, Measured, Fenced, Placing, path, capture
  <2>5. CommittedStays'
    <3> SUFFICES ASSUME NEW r \in receipts, r.phase = "committed"
                 PROVE  file'[FileOf(r.target)] = r.capture
      BY <2>1 DEF CommittedStays
    <3>1. file[FileOf(r.target)] = r.capture /\ FileOf(r.target) \in Files
      BY <1>1 DEF CommittedStays, FileInv, IInv, TypeOK, Receipt, Files
    <3>2. CASE FileOf(r.target) # path(p)
      BY <1>2, <2>2, <3>1, <3>2
    <3>3. CASE FileOf(r.target) = path(p)
      <4>1. Promised(p)
        BY <3>3 DEF Promised
      <4>2. snap[p] # Absent
        BY <1>1, <2>2, <4>1 DEF Standing, Measured, Fenced
      <4>3. file' = file
        BY <1>1, <1>2, <2>2, <4>2 DEF Standing, Placing
      <4>4. QED
        BY <3>1, <4>3
    <3>4. QED
      BY <3>2, <3>3
  <2>6. QED
    BY <2>4, <2>5
<1>9. CASE Reject(p) \/ GiveUp(p) \/ RecordFailure(p)
  <2>1. PICK phase \in {"failed", "needs_recovery"} :
          receipts' = receipts \cup {receipt(p, phase)}
    BY <1>9 DEF Reject, GiveUp, RecordFailure, Write
  <2>2. pc'[p] = "done" /\ UNCHANGED file
    BY <1>2, <1>9 DEF Reject, GiveUp, RecordFailure, Go
  <2>3. Standing(p)'
    BY <2>2 DEF Standing, Measured, Fenced, Placing
  <2>4. QED
    BY <1>1, <2>1, <2>2, <2>3 DEF CommittedStays, receipt
<1>10. CASE RecordCommit(p)
  <2>1. receipts' = receipts \cup {receipt(p, "committed")} /\ UNCHANGED file
    BY <1>10 DEF RecordCommit, Write
  <2>2. pc[p] = "verified" /\ pc'[p] = "done"
    BY <1>2, <1>10 DEF RecordCommit, Go
  <2>3. file[path(p)] = capture(p)
    BY <1>1, <2>2 DEF Standing
  <2>4. Standing(p)'
    BY <2>2 DEF Standing, Measured, Fenced, Placing
  <2>5. QED
    BY <1>1, <2>1, <2>3, <2>4 DEF CommittedStays, receipt, path, capture, target
<1>11. QED
  BY <1>5, <1>6, <1>7, <1>8, <1>9, <1>10

LEMMA FileNextInv ==
    ASSUME OneTargetPerFile, FileInv, [Next]_vars
    PROVE  FileInv'
<1>0. IInv /\ IInv' /\ CommittedStays /\ \A q \in Promoters : Standing(q)
  BY NextInv DEF FileInv
<1>1. ASSUME NEW p \in Promoters,
             \/ Snapshot(p) \/ PersistRequest(p) \/ PersistPrepared(p) \/ Reject(p)
             \/ AlreadyThere(p) \/ Remeasure(p) \/ Place(p) \/ PlaceFails(p)
             \/ Readback(p) \/ ReadbackFails(p) \/ MeasureForRestore(p) \/ Restore(p)
             \/ GiveUp(p) \/ RecordFailure(p) \/ RecordCommit(p) \/ WriteFails(p)
      PROVE  FileInv'
  <2>1. Standing(p)' /\ CommittedStays'
    BY <1>1, OwnStep
  <2>2. ASSUME NEW q \in Promoters, p # q
        PROVE  Standing(q)'
    <3>1. pc[p] \in Locked
      BY <1>1 DEF Snapshot, PersistRequest, PersistPrepared, Reject, AlreadyThere,
           Remeasure, Place, PlaceFails, Readback, ReadbackFails, MeasureForRestore,
           Restore, GiveUp, RecordFailure, RecordCommit, WriteFails, Go, Locked
    <3>2. pc'[q] = pc[q] /\ snap'[q] = snap[q] /\ UNCHANGED <<job, token>>
      BY <1>0, <1>1, <2>2 DEF Snapshot, PersistRequest, PersistPrepared, Reject,
           AlreadyThere, Remeasure, Place, PlaceFails, Readback, ReadbackFails,
           MeasureForRestore, Restore, GiveUp, RecordFailure, RecordCommit, WriteFails,
           Go, IInv, TypeOK
    <3>3. file' = file \/ \E v : file' = [file EXCEPT ![path(p)] = v]
      BY <1>1 DEF Snapshot, PersistRequest, PersistPrepared, Reject, AlreadyThere,
           Remeasure, Place, PlaceFails, Readback, ReadbackFails, MeasureForRestore,
           Restore, GiveUp, RecordFailure, RecordCommit, WriteFails
    <3>4. receipts' = receipts \/ \E phase \in Phases : Write(p, phase)
      BY <1>1 DEF Snapshot, PersistRequest, PersistPrepared, Reject, AlreadyThere,
           Remeasure, Place, PlaceFails, Readback, ReadbackFails, MeasureForRestore,
           Restore, GiveUp, RecordFailure, RecordCommit, WriteFails, Phases
    <3>5. QED
      BY <2>2, <3>1, <3>2, <3>3, <3>4, OthersStand
  <2>3. QED
    BY <1>0, <2>1, <2>2 DEF FileInv
<1>2. ASSUME NEW p \in Promoters,
             \/ Start(p) \/ TakeLock(p) \/ ReadFence(p) \/ WriteFence(p)
             \/ TimeOut(p) \/ Unlock(p) \/ Kill(p)
      PROVE  FileInv'
  <2>1. UNCHANGED <<file, receipts>>
    BY <1>2 DEF Start, TakeLock, ReadFence, WriteFence, TimeOut, Unlock, Kill
  <2>2. pc'[p] \in {"idle", "waiting", "locked", "fencing", "fenced"}
    BY <1>0, <1>2 DEF Start, TakeLock, ReadFence, WriteFence, TimeOut, Unlock, Kill,
                      Forget, Go, IInv, TypeOK
  <2>3. ASSUME NEW q \in Promoters, p # q
        PROVE  pc'[q] = pc[q] /\ job'[q] = job[q] /\ token'[q] = token[q] /\ snap'[q] = snap[q]
    BY <1>0, <1>2, <2>3 DEF Start, TakeLock, ReadFence, WriteFence, TimeOut, Unlock, Kill,
                            Forget, Go, IInv, TypeOK
  <2>4. ASSUME NEW q \in Promoters
        PROVE  Standing(q)'
    <3>1. CASE q = p
      BY <2>2, <3>1 DEF Standing, Measured, Fenced, Placing
    <3>2. CASE q # p
      BY <1>0, <2>1, <2>3, <3>2
         DEF Standing, Promised, path, capture, receipt, target
    <3>3. QED
      BY <3>1, <3>2
  <2>5. QED
    BY <1>0, <2>1, <2>4 DEF FileInv, CommittedStays
<1>3. CASE UNCHANGED <<file, receipts, pc, job, token, snap>>
  <2>1. CommittedStays'
    BY <1>0, <1>3 DEF CommittedStays
  <2>2. \A q \in Promoters : Standing(q)'
    BY <1>0, <1>3 DEF Standing, Promised, path, capture, receipt, target
  <2>3. QED
    BY <1>0, <2>1, <2>2 DEF FileInv
<1>4. QED
  BY <1>1, <1>2, <1>3 DEF Next, Proceed, ClearLock, Finished, vars

\* The inductive invariant of the target files holds throughout.
THEOREM FileInvariance ==
    ASSUME OneTargetPerFile
    PROVE  Spec => []FileInv
<1>1. Init => FileInv
  BY InitInv DEF Init, FileInv, CommittedStays, Standing, Measured, Fenced, Placing
<1>2. FileInv /\ [Next]_vars => FileInv'
  BY FileNextInv
<1>3. QED
  BY <1>1, <1>2, PTL DEF Spec

\* Once a committed receipt is written its capture stays in the target: no later
\* promotion's restoration (FilePromotionTarget.restore) takes it out.
THEOREM CommitsStay ==
    ASSUME OneTargetPerFile
    PROVE  Spec => []CommittedStays
<1>1. FileInv => CommittedStays
  BY DEF FileInv
<1>2. QED
  BY <1>1, FileInvariance, PTL

\* Nothing is put into a target, or taken out, of which no prepared receipt with
\* both contents is on record (_write_receipt before FilePromotionTarget.commit).
THEOREM EvidenceComesFirst ==
    ASSUME OneTargetPerFile
    PROVE  Spec => EvidenceFirst
<1>1. ASSUME FileInv, [Next]_vars, NEW f \in Files, file'[f] # file[f]
      PROVE  \E r \in receipts : r.phase = "prepared" /\ FileOf(r.target) = f
                                 /\ {file[f], file'[f]} = {r.capture, r.preimage}
  <2>1. PICK p \in Promoters : Place(p) \/ Restore(p)
    BY <1>1, FileStep
  <2>2. file \in [Files -> Stored]
    BY <1>1 DEF FileInv, IInv, TypeOK
  <2>3. f = path(p)
    BY <1>1, <2>1, <2>2 DEF Place, Restore
  <2>4. {file[f], file'[f]} = {capture(p), snap[p]}
    <3>1. Standing(p)
      BY <1>1 DEF FileInv
    <3>2. CASE Place(p)
      <4>1. file[f] = snap[p] /\ file'[f] = capture(p)
        BY <2>2, <2>3, <3>1, <3>2 DEF Place, Go, Standing
      <4>2. QED
        BY <4>1
    <3>3. CASE Restore(p)
      <4>1. file[f] = capture(p) /\ file'[f] = snap[p]
        BY <2>2, <2>3, <3>1, <3>3 DEF Restore, Go, Standing
      <4>2. QED
        BY <4>1
    <3>4. QED
      BY <2>1, <3>2, <3>3
  <2>5. receipt(p, "prepared") \in receipts
    BY <1>1, <2>1 DEF FileInv, Standing, Place, Restore, Go, Placing
  <2>6. QED
    BY <2>3, <2>4, <2>5 DEF receipt, path, target
<1>2. FileInv /\ [Next]_vars =>
        [\A f \in Files : file'[f] # file[f] =>
            \E r \in receipts : r.phase = "prepared" /\ FileOf(r.target) = f
                                /\ {file[f], file'[f]} = {r.capture, r.preimage}]_vars
  BY <1>1
<1>3. QED
  BY <1>2, FileInvariance, PTL DEF Spec, EvidenceFirst

\* A failed receipt is written only over a target that is as the promotion
\* found it; a target that may differ is reported as needing recovery.
THEOREM FailureMeansUntouched ==
    ASSUME OneTargetPerFile
    PROVE  Spec => FailedLeavesTarget
<1>1. ASSUME FileInv, [Next]_vars, NEW p \in Promoters, pc'[p] = "done",
             receipt(p, "failed") \in receipts' \ receipts
      PROVE  file[path(p)] = snap[p]
  <2>1. PICK q \in Promoters :
          /\ \/ PersistRequest(q) \/ PersistPrepared(q) \/ Reject(q) \/ GiveUp(q)
             \/ RecordFailure(q) \/ RecordCommit(q)
    BY <1>1 DEF Next, Proceed, Start, Kill, TakeLock, TimeOut, ReadFence, WriteFence,
        Snapshot, AlreadyThere, Remeasure, Place, PlaceFails, Readback, ReadbackFails,
        MeasureForRestore, Restore, WriteFails, Unlock, ClearLock, Finished, vars
  <2>2. PICK phase : receipts' = receipts \cup {receipt(q, phase)}
    BY <2>1 DEF PersistRequest, PersistPrepared, Reject, GiveUp, RecordFailure,
                RecordCommit, Write
  <2>3. receipt(p, "failed") = receipt(q, phase)
    BY <1>1, <2>2
  <2>4. phase = "failed" /\ target(p) = target(q)
    BY <2>3 DEF receipt
  <2>5. pc[q] \in Locked /\ (q # p => pc[p] = "done")
    BY <1>1, <2>1 DEF PersistRequest, PersistPrepared, Reject, GiveUp, RecordFailure,
                      RecordCommit, Go, Locked, FileInv, IInv, TypeOK
  <2>6. q = p
    <3>1. SUFFICES ASSUME q # p PROVE FALSE
      OBVIOUS
    <3>2. pc[p] \in Locked
      BY <2>5, <3>1 DEF Locked
    <3>3. path(p) = path(q)
      BY <2>4 DEF path, target
    <3>4. QED
      BY <1>1, <2>5, <3>1, <3>2, <3>3, Apart DEF FileInv
  <2>7. Reject(p) \/ RecordFailure(p)
    <3>1. receipts' = receipts \cup {receipt(p, "failed")}
      BY <2>2, <2>4, <2>6
    <3>2. ~GiveUp(p)
      BY <1>1, <3>1 DEF GiveUp, Write, receipt
    <3>3. ~PersistRequest(p) /\ ~PersistPrepared(p) /\ ~RecordCommit(p)
      BY <1>1, <3>1 DEF PersistRequest, PersistPrepared, RecordCommit, Write, receipt
    <3>4. QED
      BY <2>1, <2>6, <3>2, <3>3
  <2>8. QED
    BY <1>1, <2>7 DEF Reject, RecordFailure, Go, FileInv, Standing
<1>2. FileInv /\ [Next]_vars =>
        [\A p \in Promoters :
            pc'[p] = "done" /\ receipts' # receipts /\ receipt(p, "failed") \in receipts' \ receipts
              => file[path(p)] = snap[p]]_vars
  BY <1>1
<1>3. QED
  BY <1>2, FileInvariance, PTL DEF Spec, FailedLeavesTarget
----------------------------------------------------------------------------
\* The refinement: a step places, takes back or commits one capture, or does
\* nothing that the abstract target shows.

Kept == {<<FileOf(r.target), r.capture>> : r \in {q \in receipts : q.phase = "committed"}}

LEMMA InitImplements == Init => Service!Init
<1>1. Captures \cup Contents \cup {Absent} = Stored
  BY PromotionAssumption DEF Stored
<1>2. QED
  BY <1>1 DEF Init, Service!Init

\* Receipts other than committed ones do not show.
LEMMA KeptStays ==
    ASSUME NEW p \in Promoters, NEW phase \in Phases, phase # "committed",
           receipts' = receipts \/ Write(p, phase)
    PROVE  Kept' = Kept
<1>1. {q \in receipts' : q.phase = "committed"} = {q \in receipts : q.phase = "committed"}
  BY DEF Write, receipt
<1>2. QED
  BY <1>1 DEF Kept

LEMMA NextImplements ==
    ASSUME FileInv, [Next]_vars
    PROVE  [Service!Next]_<<file, Kept>>
<1>1. CASE UNCHANGED <<file, receipts>>
  BY <1>1 DEF Kept
<1>2. ASSUME NEW p \in Promoters, Place(p) \/ Restore(p) \/ RecordCommit(p)
      PROVE  [Service!Next]_<<file, Kept>>
  <2>1. /\ Standing(p) /\ Permits(p) /\ job[p] \in Jobs
        /\ file \in [Files -> Stored] /\ snap[p] \in Stored
    BY <1>2 DEF FileInv, IInv, PermitInv, TypeOK, Placing, Place, Restore, RecordCommit, Go
  <2>2. /\ capture(p) \in Captures /\ path(p) \in Files
        /\ InItsSink(capture(p), path(p))
    BY <2>1 DEF Jobs, capture, path, target, Files, InItsSink, Permits
  <2>3. CASE Place(p)
    <3>1. Service!Place(path(p), capture(p))
      BY <2>1, <2>2, <2>3 DEF Place, Go, Standing, Service!Place, Kept
    <3>2. QED
      BY <2>2, <3>1 DEF Service!Next
  <2>4. CASE Restore(p)
    <3>1. file[path(p)] = capture(p) /\ file' = [file EXCEPT ![path(p)] = snap[p]]
      BY <2>1, <2>4 DEF Restore, Go, Standing
    <3>2. UNCHANGED Kept
      BY <2>4 DEF Restore, Kept
    <3>3. CASE snap[p] = capture(p)
      <4>1. file' = file
        BY <2>1, <2>2, <3>1, <3>3
      <4>2. QED
        BY <3>2, <4>1
    <3>4. CASE snap[p] = Absent
      <4>1. ~Promised(p)
        BY <2>1, <2>4, <3>4 DEF Standing, Restore, Go, Measured, Fenced
      <4>2. <<path(p), file[path(p)]>> \notin Kept
        BY <4>1 DEF Promised, Kept
      <4>3. Service!TakeBack(path(p))
        BY <2>2, <3>1, <3>2, <3>4, <4>2 DEF Service!TakeBack, Kept
      <4>4. QED
        BY <2>2, <4>3 DEF Service!Next
    <3>5. QED
      BY <2>1, <2>4, <3>3, <3>4 DEF Standing, Restore, Go, Placing
  <2>5. CASE RecordCommit(p)
    <3>1. file[path(p)] = capture(p) /\ UNCHANGED file
      BY <2>1, <2>5 DEF RecordCommit, Go, Standing
    <3>2. Kept' = Kept \cup {<<path(p), capture(p)>>}
      <4> DEFINE c == receipt(p, "committed")
      <4>1. c.phase = "committed" /\ FileOf(c.target) = path(p) /\ c.capture = capture(p)
        BY DEF receipt, path, target
      <4>2. {q \in receipts' : q.phase = "committed"}
              = {q \in receipts : q.phase = "committed"} \cup {c}
        BY <2>5, <4>1 DEF RecordCommit, Write
      <4> HIDE DEF c
      <4>3. QED
        BY <4>1, <4>2 DEF Kept
    <3>3. Service!Commit(path(p))
      BY <2>2, <3>1, <3>2 DEF Service!Commit, Kept
    <3>4. \E f \in Files : Service!Commit(f)
      BY <2>2, <3>3 DEF Service!Commit
    <3>5. QED
      BY <3>4 DEF Service!Next
  <2>6. QED
    BY <1>2, <2>3, <2>4, <2>5
<1>3. ASSUME NEW p \in Promoters,
             \/ PersistRequest(p) \/ PersistPrepared(p) \/ Reject(p) \/ GiveUp(p)
             \/ RecordFailure(p)
      PROVE  [Service!Next]_<<file, Kept>>
  <2>1. PICK phase \in Phases \ {"committed"} : Write(p, phase) /\ UNCHANGED file
    BY <1>3 DEF PersistRequest, PersistPrepared, Reject, GiveUp, RecordFailure, Phases
  <2>2. QED
    BY <2>1, KeptStays
<1>4. UNCHANGED <<file, receipts>> \/ \E p \in Promoters :
        \/ Place(p) \/ Restore(p) \/ RecordCommit(p) \/ PersistRequest(p)
        \/ PersistPrepared(p) \/ Reject(p) \/ GiveUp(p) \/ RecordFailure(p)
  BY DEF Next, Proceed, Start, Kill, TakeLock, TimeOut, ReadFence, WriteFence, Snapshot,
      AlreadyThere, Remeasure, PlaceFails, Readback, ReadbackFails, MeasureForRestore,
      WriteFails, Unlock, ClearLock, Finished, vars
<1>5. QED
  BY <1>1, <1>2, <1>3, <1>4

\* promote_capture keeps the promise of CaptureTarget: a capture is placed only
\* where nothing was and where its decision allows, and stays once committed.
THEOREM Implementation ==
    ASSUME OneTargetPerFile
    PROVE  Spec => ImplementsTarget
<1>1. FileInv /\ [Next]_vars => [Service!Next]_<<file, Kept>>
  BY NextImplements
<1>2. QED
  BY <1>1, InitImplements, FileInvariance, PTL
     DEF Spec, ImplementsTarget, Service!Spec, Service!vars, Kept
=============================================================================
