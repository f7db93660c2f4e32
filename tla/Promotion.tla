----------------------------- MODULE Promotion -----------------------------
(***************************************************************************)
(* promote_capture of johan_sdd.capture.promotion: a promoter copies a     *)
(* capture packet to a file-backed target, one file per target, and leaves *)
(* a request, a prepared receipt and a terminal receipt in a directory.    *)
(*                                                                         *)
(* The lock is a file created with O_EXCL and unlinked at the end: unlike  *)
(* the registry's, it outlives a promoter that is killed.  It is named     *)
(* after the target's id, not after the file.                              *)
(*                                                                         *)
(* Abstractions.  A file's content is a member of Contents, and a digest   *)
(* is the content itself: a content with the capture id of a packet and    *)
(* other bytes is refused like any other occupant.  What is refused before *)
(* the lock (a packet that does not verify, a decision that is not the     *)
(* packet's, a promoter that is the generator) writes nothing and is left  *)
(* out.  Receipts are files that are created once, under names that digest *)
(* their content: a set.                                                   *)
(***************************************************************************)
EXTENDS Naturals, FiniteSets

CONSTANTS
    Promoters,
    Captures,       \* packets waiting for promotion
    Contents,       \* what a target file may hold; contains Captures
    Absent,         \* the file does not exist
    DecidedSink(_), \* the sink of the authority decision a capture is bound to
    Targets,        \* target ids
    FileOf(_),      \* the path of a target
    SinkOf(_),      \* the sink a target is declared for
    Free, Stale,    \* lock values: nobody's; left by a promoter that was killed
    MaxFence        \* bound: no promotion starts beyond this many per target

Files == {FileOf(t) : t \in Targets}
Stored == Contents \cup {Absent}

ASSUME PromotionAssumption ==
    /\ Captures \subseteq Contents
    /\ Absent \notin Contents
    /\ Free \notin Promoters /\ Stale \notin Promoters /\ Free # Stale
    /\ MaxFence \in Nat

\* What the code leaves to its caller: no two target ids name one file.  The lock
\* and the counter are named after the id, and exclude nobody from the file.
OneTargetPerFile == \A s, t \in Targets : FileOf(s) = FileOf(t) => s = t

VARIABLES
    file,      \* content of each target file
    lock,      \* per target: the promoter that created the lock file
    fence,     \* per target: the fencing counter file
    receipts,  \* the receipt directory
    pc,        \* where each promoter is
    job,       \* the capture and the target each promoter works on
    token,     \* the fencing token each promoter was given
    snap       \* the target content each promoter found

vars == <<file, lock, fence, receipts, pc, job, token, snap>>

Jobs == [capture : Captures, target : Targets]
NoJob == [capture |-> Absent, target |-> Absent]

Phases == {"request", "prepared", "failed", "committed", "needs_recovery"}
Receipt == [phase : Phases, capture : Captures, target : Targets,
            fence : Nat, preimage : Stored]

Init ==
    /\ file \in [Files -> Stored]
    /\ lock = [t \in Targets |-> Free]
    /\ fence = [t \in Targets |-> 0]
    /\ receipts = {}
    /\ pc = [p \in Promoters |-> "idle"]
    /\ job = [p \in Promoters |-> NoJob]
    /\ token = [p \in Promoters |-> 0]
    /\ snap = [p \in Promoters |-> Absent]
----------------------------------------------------------------------------
target(p) == job[p].target
path(p) == FileOf(job[p].target)
capture(p) == job[p].capture

Go(p, from, to) == pc[p] = from /\ pc' = [pc EXCEPT ![p] = to]

receipt(p, phase) ==
    [phase |-> phase, capture |-> capture(p), target |-> target(p),
     fence |-> token[p], preimage |-> snap[p]]

\* Mutant: a failed promotion is recorded in a phase of its own.
WriteUnknownPhase(p, phase) ==
    receipts' = receipts \cup {receipt(p, IF phase = "failed" THEN "rejected" ELSE phase)}

Write(p, phase) == receipts' = receipts \cup {receipt(p, phase)}

\* The bound: a promotion under way may take one more token.
Room(t) ==
    fence[t] + Cardinality({q \in Promoters : pc[q] # "idle" /\ target(q) = t}) < MaxFence

Start(p) ==
    /\ Go(p, "idle", "waiting")
    /\ \E c \in Captures, t \in Targets :
          /\ Room(t)
          /\ job' = [job EXCEPT ![p] = [capture |-> c, target |-> t]]
    /\ UNCHANGED <<file, lock, fence, receipts, token, snap>>

\* Mutant: the lock excludes nobody.
TakeLockAnyway(p) ==
    /\ Go(p, "waiting", "locked")
    /\ lock' = [lock EXCEPT ![target(p)] = p]
    /\ UNCHANGED <<file, fence, receipts, job, token, snap>>

\* exclusive_lock: the file is created, or it is there already.
TakeLock(p) ==
    /\ Go(p, "waiting", "locked")
    /\ lock[target(p)] = Free
    /\ lock' = [lock EXCEPT ![target(p)] = p]
    /\ UNCHANGED <<file, fence, receipts, job, token, snap>>

Forget(p) ==
    /\ pc' = [pc EXCEPT ![p] = "idle"]
    /\ job' = [job EXCEPT ![p] = NoJob]
    /\ token' = [token EXCEPT ![p] = 0]
    /\ snap' = [snap EXCEPT ![p] = Absent]

TimeOut(p) ==
    /\ pc[p] = "waiting"
    /\ lock[target(p)] # Free
    /\ Forget(p)
    /\ UNCHANGED <<file, lock, fence, receipts>>

\* _next_fencing_token reads the counter and replaces it.
ReadFence(p) ==
    /\ Go(p, "locked", "fencing")
    /\ token' = [token EXCEPT ![p] = fence[target(p)] + 1]
    /\ UNCHANGED <<file, lock, fence, receipts, job, snap>>

WriteFence(p) ==
    /\ Go(p, "fencing", "fenced")
    /\ fence' = [fence EXCEPT ![target(p)] = token[p]]
    /\ UNCHANGED <<file, lock, receipts, job, token, snap>>

Snapshot(p) ==
    /\ Go(p, "fenced", "measured")
    /\ snap' = [snap EXCEPT ![p] = file[path(p)]]
    /\ UNCHANGED <<file, lock, fence, receipts, job, token>>

PersistRequest(p) ==
    /\ Go(p, "measured", "requested")
    /\ Write(p, "request")
    /\ UNCHANGED <<file, lock, fence, job, token, snap>>

\* Mutant: the prepared receipt is not written.
PersistPreparedNot(p) ==
    /\ Go(p, "requested", "prepared")
    /\ UNCHANGED <<file, lock, fence, receipts, job, token, snap>>

PersistPrepared(p) ==
    /\ Go(p, "requested", "prepared")
    /\ Write(p, "prepared")
    /\ UNCHANGED <<file, lock, fence, job, token, snap>>
----------------------------------------------------------------------------
\* What the snapshot and the decision allow.

\* Mutant: any sink but none will do.
PermitsAnySink(p) == DecidedSink(capture(p)) # "none"

Permits(p) == DecidedSink(capture(p)) = SinkOf(target(p)) /\ DecidedSink(capture(p)) # "none"

\* Mutant: a target that holds something else counts as empty.
OccupiedBySame(p) == snap[p] = capture(p)

Occupied(p) == snap[p] # Absent

\* Sink conflict, blocked authority, capture conflict, target occupied.
Refused(p) == ~Permits(p) \/ (Occupied(p) /\ snap[p] # capture(p))

Reject(p) ==
    /\ Go(p, "prepared", "done")
    /\ Refused(p)
    /\ Write(p, "failed")
    /\ UNCHANGED <<file, lock, fence, job, token, snap>>

\* The target holds this very capture: nothing to write.
AlreadyThere(p) ==
    /\ Go(p, "prepared", "placed")
    /\ Permits(p) /\ snap[p] = capture(p)
    /\ UNCHANGED <<file, lock, fence, receipts, job, token, snap>>

\* FilePromotionTarget.commit measures once more, then replaces the file.
Remeasure(p) ==
    /\ pc[p] = "prepared"
    /\ Permits(p) /\ ~Occupied(p)
    /\ pc' = [pc EXCEPT ![p] = IF file[path(p)] = snap[p] THEN "placing" ELSE "failing"]
    /\ UNCHANGED <<file, lock, fence, receipts, job, token, snap>>

Place(p) ==
    /\ Go(p, "placing", "placed")
    /\ file' = [file EXCEPT ![path(p)] = capture(p)]
    /\ UNCHANGED <<lock, fence, receipts, job, token, snap>>

PlaceFails(p) ==
    /\ Go(p, "placing", "failing")
    /\ UNCHANGED <<file, lock, fence, receipts, job, token, snap>>

\* A readback that reads other content than planned, or that cannot read.
Readback(p) ==
    /\ Go(p, "placed", "verified")
    /\ file[path(p)] = capture(p)
    /\ UNCHANGED <<file, lock, fence, receipts, job, token, snap>>

ReadbackFails(p) ==
    /\ Go(p, "placed", "failing")
    /\ UNCHANGED <<file, lock, fence, receipts, job, token, snap>>

\* restore insists on finding what was planned before it puts the snapshot back.
MeasureForRestore(p) ==
    /\ Go(p, "failing", "restoring")
    /\ file[path(p)] = capture(p)
    /\ UNCHANGED <<file, lock, fence, receipts, job, token, snap>>

Restore(p) ==
    /\ Go(p, "restoring", "restored")
    /\ file' = [file EXCEPT ![path(p)] = snap[p]]
    /\ UNCHANGED <<lock, fence, receipts, job, token, snap>>

\* Mutant: a target that could not be restored is reported as failed.
GiveUpAsFailed(p) ==
    /\ Go(p, "failing", "done") \/ Go(p, "restoring", "done")
    /\ Write(p, "failed")
    /\ UNCHANGED <<file, lock, fence, job, token, snap>>

\* The target is not what was planned or cannot be read, or the restoration fails.
GiveUp(p) ==
    /\ Go(p, "failing", "done") \/ Go(p, "restoring", "done")
    /\ Write(p, "needs_recovery")
    /\ UNCHANGED <<file, lock, fence, job, token, snap>>

RecordFailure(p) ==
    /\ Go(p, "restored", "done")
    /\ Write(p, "failed")
    /\ UNCHANGED <<file, lock, fence, job, token, snap>>

RecordCommit(p) ==
    /\ Go(p, "verified", "done")
    /\ Write(p, "committed")
    /\ UNCHANGED <<file, lock, fence, job, token, snap>>

\* A write outside the guarded block fails: the fencing counter, the request,
\* the prepared receipt or a terminal receipt is not written, and the error
\* leaves the promotion as it stands.
WriteFails(p) ==
    /\ pc[p] \in {"locked", "fencing", "fenced", "measured", "requested", "prepared",
                  "restored", "verified", "failing", "restoring"}
    /\ pc[p] = "prepared" => Refused(p)
    /\ pc' = [pc EXCEPT ![p] = "done"]
    /\ UNCHANGED <<file, lock, fence, receipts, job, token, snap>>

\* The lock file is unlinked on every way out, the exceptions included.
Unlock(p) ==
    /\ pc[p] = "done"
    /\ lock' = [lock EXCEPT ![target(p)] = Free]
    /\ Forget(p)
    /\ UNCHANGED <<file, fence, receipts>>

\* A promoter is killed: nothing unlinks its lock file.
Kill(p) ==
    /\ pc[p] # "idle"
    /\ lock' = [t \in Targets |-> IF lock[t] = p THEN Stale ELSE lock[t]]
    /\ Forget(p)
    /\ UNCHANGED <<file, fence, receipts>>

\* An operator removes the lock file of a promoter that is gone.
ClearLock(t) ==
    /\ lock[t] = Stale
    /\ lock' = [lock EXCEPT ![t] = Free]
    /\ UNCHANGED <<file, fence, receipts, pc, job, token, snap>>

Proceed(p) ==
    \/ TakeLock(p) \/ TimeOut(p) \/ ReadFence(p) \/ WriteFence(p) \/ Snapshot(p)
    \/ PersistRequest(p) \/ PersistPrepared(p) \/ Reject(p) \/ AlreadyThere(p)
    \/ Remeasure(p) \/ Place(p) \/ PlaceFails(p) \/ Readback(p) \/ ReadbackFails(p)
    \/ MeasureForRestore(p) \/ Restore(p) \/ GiveUp(p) \/ RecordFailure(p)
    \/ RecordCommit(p) \/ WriteFails(p) \/ Unlock(p)

\* Promoters are one-shot programs: at the bound, none is left.
Finished ==
    /\ \A p \in Promoters : pc[p] = "idle"
    /\ \A t \in Targets : ~Room(t)
    /\ UNCHANGED vars

Next ==
    \/ \E p \in Promoters : Start(p) \/ Proceed(p) \/ Kill(p)
    \/ \E t \in Targets : ClearLock(t)
    \/ Finished

Spec == Init /\ [][Next]_vars
----------------------------------------------------------------------------
\* Properties.

\* A target is declared for the sink of the capture's decision.
InItsSink(c, f) == \E t \in Targets : FileOf(t) = f /\ SinkOf(t) = DecidedSink(c) /\ SinkOf(t) # "none"

Locked == {"locked", "fencing", "fenced", "measured", "requested", "prepared", "placing",
           "placed", "verified", "failing", "restoring", "restored", "done"}

\* What a request and its receipts say of the target besides.
Planned(r) == IF DecidedSink(r.capture) = "none" THEN r.preimage ELSE r.capture
Document(r) ==
    [phase |-> r.phase, sink |-> DecidedSink(r.capture), preimage |-> r.preimage, next |-> Planned(r),
     readback |-> IF r.phase = "committed" THEN r.capture ELSE Absent]

AnyPath(q) == TRUE
Contract == INSTANCE Contracts WITH Portable <- AnyPath

\* Type invariant; the receipts meet their contract.
TypeOK ==
    /\ file \in [Files -> Stored]
    /\ lock \in [Targets -> Promoters \cup {Free, Stale}]
    /\ fence \in [Targets -> Nat]
    /\ receipts \subseteq Receipt
    /\ \A r \in receipts : Contract!PromotionErrors(Document(r)) = {}
    /\ pc \in [Promoters -> {"idle", "waiting"} \cup Locked]
    /\ job \in [Promoters -> Jobs \cup {NoJob}]
    /\ \A p \in Promoters : pc[p] # "idle" => job[p] \in Jobs
    /\ token \in [Promoters -> Nat]
    /\ snap \in [Promoters -> Stored]

\* A committed receipt goes on telling the truth: nothing a later promotion
\* does, retries, failed readbacks and restorations included, takes the capture
\* out of the target.
CommittedStays ==
    \A r \in receipts : r.phase = "committed" => file[FileOf(r.target)] = r.capture

\* A file is replaced or restored only by the promoter that was given the newest
\* fencing token of its target.
NewestFenceWrites ==
    [][file' # file => \E p \in Promoters :
          /\ pc[p] \in {"placing", "restoring"} /\ pc'[p] # pc[p]
          /\ token[p] = fence[target(p)]
          /\ file'[path(p)] # file[path(p)]]_vars

\* The evidence precedes the effect: whatever a promotion puts into a target,
\* wherever it is killed, a prepared receipt of that capture is on record.
EvidenceFirst ==
    [][\A f \in Files : file'[f] # file[f] =>
          \E r \in receipts : r.phase = "prepared" /\ FileOf(r.target) = f
                              /\ {file[f], file'[f]} = {r.capture, r.preimage}]_vars

\* A failed receipt means that the target is as the promotion found it.
FailedLeavesTarget ==
    [][\A p \in Promoters :
          pc'[p] = "done" /\ receipts' # receipts /\ receipt(p, "failed") \in receipts' \ receipts
              => file[path(p)] = snap[p]]_vars

\* Promotion implements the abstract target: whatever is killed, fails or races, a
\* capture is only ever placed where nothing was, in a target of the one sink its
\* authority decision names, is taken back at most until it is committed, and a
\* committed receipt is written only for a capture that is there.
Service == INSTANCE CaptureTarget WITH
    Permitted <- InItsSink,
    held <- file,
    committed <- {<<FileOf(r.target), r.capture>> : r \in {q \in receipts : q.phase = "committed"}}

ImplementsTarget == Service!Spec
=============================================================================
