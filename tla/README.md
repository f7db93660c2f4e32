# Verification of johan-sdd

TLA+ models of the parts of johan-sdd that keep state or touch files, model-checked with TLC on
small instances, and theorems about all of them proved with TLAPS. `PROJECT.json`
maps every definition to the lines it models and lists the runs, the mutants that show each property
can fail, the hazards and the findings.

## 1. The system

johan-sdd is a library and a command line that builds, checks and applies JSON documents. Six parts
keep state on disk; three more decide or build documents from what they are given and keep nothing.
There is no server: every operation is called by a short-lived process, any number of which run at
once on one machine, and any of which may be killed.

| Part | Source (under `src/src/johan_sdd/`) | State | Operations |
| --- | --- | --- | --- |
| Work Session registry | `sessions/__init__.py` | one JSON document in the git common directory, an advisory `flock` file | `inspect`, `evaluate`, `claim`, `heartbeat`, `release`, `open_work_session`, `close_work_session` |
| Dirty pause | `sessions/__init__.py` | `refs/agent-sessions/<id>`, the worktree and index it must not touch | `create_dirty_pause` |
| Lifecycle authority | `capture/authority.py` | the cutover marker, its `O_EXCL` lock file | `write_cutover_marker`, `read_cutover_marker`, `derive_authority_decision` |
| Promotion | `capture/promotion.py`, `capture/_io.py` | target files, a fencing counter and a lock file per target id, a directory of receipts | `promote_capture` |
| Host transactions | `host/__init__.py` | a directory tree | `build_preview`, `apply_preview` |
| Updater | `updater/__init__.py` | `content/`, `pins.json`, `manifest.json` of a target | `preview_update`, `apply_update` |
| Capture packets | `capture/packet.py` | none | `generate_capture_packet` |
| Routing, profiles, spec delivery, command line | `routing`, `profiles`, `spec_delivery`, `cli`, `__main__.py` | none | `route_delivery`, `select_profile`, `SpecDrivenDeliveryAdapter.plan`, the two handlers |
| Evidence | `evidence/__init__.py` | none (artifacts lie where the caller puts them) | `build_evidence_artifact`, `build_evidence_packet` |
| Semantic contracts | `contracts/__init__.py` | none | `validate_semantics` |

How they interact. A session's registry claim names the authority decision under which the session
captures; a capture packet is bound to that decision and is promoted to the one sink the decision
names; a dirty pause produces the recovery record that a paused dirty claim must carry. The adapter
of spec delivery joins a lane and a profile into a plan. The host transactions, the updater and
evidence stand alone. Everything is passed as documents by the caller: the parts share no memory and
call each other only through the contract validators, which judge the documents the others build.

What is hard in each part, and what makes it correct:

* **Registry.** Callers interleave between reading and writing the document; a lease may expire and
  an owner die or come back at any instant; a caller can be killed between replacing the file and
  answering. Living owners must never hold clashing sessions, a claim that was reported must stay,
  nobody may be displaced without proof, and nothing may be lost to a concurrent writer.
* **Dirty pause.** The worktree is read three times while somebody may be working in it; calls race
  for one ref; a git command may fail after the ref exists. A recovery record must name a commit that
  stays reachable, at most one of them per session, and the scan must mean something.
* **Authority.** The marker moves between an observation, the decision derived from it, the claim
  and the captures. The cutover must be one-way and a session must keep to one sink.
* **Promotion.** Two promoters, a lock file that outlives a killed one, and a failure or kill at
  every step. What a committed receipt says must stay true, and the evidence must precede the effect.
* **Host transactions and updater.** Many writes that must look like one, without any lock, with a
  restoration that may itself fail, and with other calls on the same target.
* **The life of a session.** The authority, the claim, the captures and the targets are tied together
  only by documents: a session must end up in one sink that fits the time it started.
* **Delivery.** Boundaries (3 files, 50 lines, counts below zero) and the order in which facts are looked
  at: more work must never be treated more lightly, and nothing may talk a hard trigger away.
* **Evidence.** Artifacts may be spoilt between the event and the packet; what the builder lets
  through, its contract should accept.

### Not modelled

* **Schemas, manifests, documents**: static data. `Delivery` states the admission of the micro lane from
  the schema and the charter.
* **The form of single fields**: identifiers, digests, timestamps, unknown keys. Every builder and
  validator begins with such checks; they look at one document, and tests reach them.
* **The other contracts.** Content bundles, micro assessments and the charter are written by a person or
  another program. Those of the cutover marker, the preview and the update manifest compare two fields
  that the code sets side by side, and models would only repeat the assignment.
* **`emit_desired_state`, the pins and canaries of an update, the resolvers**: pure, or supplied by the
  caller.
* **Parsing and printing** of the command line and of the session adapter; what they call is modelled.

## 2. Modules

| Module | Models |
| --- | --- |
| `SessionRegistry` | the registry, step by step |
| `Ownership` | the abstract registry: sessions are taken and ended in atomic steps |
| `DirtyPause` | `create_dirty_pause` |
| `Authority` | the cutover marker and the decisions derived from it |
| `Promotion` | `promote_capture` |
| `CaptureTarget` | the abstract promotion: what the files it writes are promised |
| `Lifecycle` | `Authority`, `Ownership`, `generate_capture_packet` and `CaptureTarget` together |
| `HostTransaction` | `build_preview`, `apply_preview` |
| `Updater` | `preview_update`, `apply_update` |
| `Transaction` | the abstract transaction that both implement |
| `Delivery` | routing, profiles, the adapter of spec delivery, the command handlers |
| `Evidence` | artifacts and packets |
| `Contracts` | the validators of the documents the above build, used as an oracle |
| `MC...` | the instances: named proposals, packets, operations and symmetry sets |
| `...Proofs` | for each module with a behaviour of its own, its inductive invariant and its theorems |

Four detailed modules implement an abstract one, and the composition is built on the abstract ones:

```
SessionRegistry --implements--> Ownership     <--\
                                Authority     <---+-- Lifecycle
Promotion       --implements--> CaptureTarget <--/
HostTransaction --implements--> Transaction
Updater         --implements--> Transaction
```

### SessionRegistry and Ownership

The variables are the document (`disk`), whether it was spoilt from outside (`damaged`), the `flock`
(`lock`), the program counter and pending call of every caller, the document a caller is about to
write (`doc`), the revision it measured last (`seen`), the clock, what `psutil` would say of every
owner process (`probe`), and two histories: what callers were told they hold (`granted`) and what
`evaluate` told them is free (`advice`).

A mutation is the sequence `Invoke..`, `Acquire` (or `TimeOut`), then a refusal or `Prepare`, then
`Replace` (or `WriteFails`), then `Return`. `Crash` interrupts it anywhere: the kernel drops the
lock, and after `Replace` the change stays. `open_work_session` and `close_work_session` inspect
under the lock, let go of it, and queue again under the revision they saw (`InspectThenMutate`).
`Retired` is `_retire_proven_stale`, `Conflicts` is the conflict search, `ValidClaims` what the
contract demands of a document. The code judges a proposal twice: its shape before it takes the lock
(`_valid_claim`), and the whole document, proposal included, in `_commit`. What the second refuses of one claim
by itself and the first lets pass is a proposal's `faults` (a process that started after the lease, a lease that
does not add up, a path of the wrong form, a recovery record of another session) or a resource named twice;
`Sound` says that it has none of them. Such a proposal goes through the lock, the revision and the conflicts,
and ends in `RefuseInvalid`.

The refinement to `Ownership` maps `held` to the terms of the active claims on disk, `past` to the
ids of the others and `alive` to the owners whose probe says live. `Replace` is where the abstract
step happens: a claim with the stale claims it retires is one `Take`, a release one `End`, a
heartbeat a stutter.

### DirtyPause

`tree`, `head`, `index` and `edits` are the checkout, which `Edit`, `Stage` and `CommitAll` change at
any time. `Status` is one letter of `git status --porcelain=v2`, which does not hash the worktree: that
detail decides what the comparison at the end can see. One action per git command: `Look`, `List`,
`Scan` (file by file), `FindRef`, `Commit`, `UpdateRef`, `Compare`, `Succeed`, and on the error path
`Undo` or `UndoFails`.

### Authority and Lifecycle

`Authority` is the marker with its lock and compare-and-swap (`Measure` .. `WriteMarker`,
`ReleaseLock`, `Kill`), and for each session `StartSession`, `Observe`, `Enroll` and `Continue`. The
driver of a session may hold an old observation and several decisions.

`Lifecycle` adds what the decisions are for. `Open` registers a session under a decision, which may be
one derived for another session (`Foreign`): the code does not ask. `Capture` makes a packet under the
guards of `generate_capture_packet`, which compare the claim with the decision, and do not ask whether the
claim is still active; `Leave` closes a session or lets another one take the worktree. `Promote` is a
step of `CaptureTarget`, and the registry's steps are those of `Ownership`, so what holds of the
composition rests on what those two promise and on nothing else. The components share no lock and
their steps interleave freely.

### Promotion

One program counter per promoter through `promote_capture`: lock, fencing counter (read and write are
two steps), snapshot, request and prepared receipts, the permission checks, measurement, replacement,
readback, restoration, terminal receipt, unlock. `WriteFails` fails any durable write, and `Kill` leaves the
lock file behind until `ClearLock`, which is an operator and not code.

The refinement to `CaptureTarget` maps `held` to the files and `committed` to the pairs of file and
capture on a committed receipt. `Place` and the step of `Restore` are the abstract `Place` and
`TakeBack`, `RecordCommit` is `Commit`, and everything else is a stutter. The lock and the fencing
counter are named after the target id and not after the path: with two ids for one file TLC finds
`ImplementsTarget` violated (both promoters place at once), so the instance gives every id a file of its
own, as the code needs its caller to: `OneTargetPerFile`, which the theorems have as their hypothesis and
`MCPromotion` assumes. The receipts are also judged by `Contracts` (in `TypeOK`).

### HostTransaction, Updater and Transaction

Both take a snapshot, write piece by piece, and on an error empty the target and refill it. `tree` is
what the target holds; in `HostTransaction` a path may also be a directory, and `temps` holds the
temporary files, which are part of what is measured. Nothing locks a target. `disturbed` records that
somebody else wrote since a call's snapshot (or since its restoration began): the code can promise
nothing then, and the properties say so. That costs nothing where it matters most: the restoration
properties hold whoever wrote before the restoration began.

`Transaction` says the same without steps. A call is `open` while it has the target to itself, and while
it is open the target counts as it was when the call began. It ends with all of its work done
("applied"), with none ("undone"), or torn. The refinement maps `state` to the snapshot of an open call,
and to the target when there is none; `open` to the undisturbed calls; `base` to their snapshots.
Of two calls that began on one state the first that writes overtakes the other. A call that begins on the
half-done work of another does not count as open until the other one has ended: `build_preview` can
measure such a state and nothing tells it apart.

The parents of a path are made (`MakeDirectories`) and the temporary file is written (`WriteTemporary`) in two
steps, between which a call may fail or be killed and others may write; several levels of parents are made
at once. In the updater a call that finds no payload in the target raises an error (`Unreadable`), and one that
finds another payload than was previewed is told so (`Refuse`).

The receipts are judged by `Contracts`, which was written from the validators and not from the code
that builds the documents: the readback of a host receipt must list the operations with their results
and contents, the rollback receipt must report the snapshots it compares.

### Delivery and Evidence

`facts` is what is true of a piece of work, and the environment (`Count`, `Inspect`, `Judge`, `Trigger`)
changes it at any time; `Route`, `SelectProfile` and `Plan` are the calls, whose last answer stays until
the facts change. A receipt is the set of hard triggers it records, two times and one flag for the form
of the rest. In `Evidence` the branch moves, artifacts are built, and lose their form in the store, and a
packet is built from those cited.

Seen while modelling, and not a property of any run, because the code promises nothing about it: an adapter
plan that asks for lean always raises, since the adapter has no receipt to pass on; a downgrade receipt
names the work it is for and `select_profile` is not told the work; a full profile by explicit
escalation falls back to lean when the next call leaves the request out; a trigger under an
unknown name is ignored; a packet's artifacts need not belong to its event. `PacketsMeetContract` states
exactly where the evidence builder is more lenient than the contract of its packets: paths that are not
portable, and an event other than a pause whose final revision is its base.

## 3. Runs

The three runs of section 5 each find the violation of one property; in every other run TLC explores
the whole state space of its instance.

| Run | Instance | What it shows |
| --- | --- | --- |
| `registry_direct` | 2 callers, a writer and a reader of one repository, a proposal that wants a resource twice and one with a fault, `Ttl` 1, clock to 2, 3 revisions; direct operations | `GrantsDurable`, `DiskValid`, `HistoryKept`, `OnlyHolderActs`, `InvalidMeansUnusable` for clean sessions, `ImplementsOwnership` |
| `registry_work_sessions` | 2 callers, 2 sessions of one worktree that are evaluated, opened and closed again under their ids, damage to the file; `Ttl` 0, clock to 1, 3 revisions | `LiveOwnersExclusive`, `NoLostUpdate`, `DamageNotOverwritten`, `EvaluationHonoured` |
| `registry_returns` | 2 sessions of one repository, one owner on another host, fair callers; 2 revisions | `AbandonedOnlyWithProof`, `EveryCallReturns`, `LockComesFree` |
| `registry_dirty_pause` | a dirty paused claim | finding 1 |
| `dirty_pause` | 2 calls, a tracked and an untracked file, 2 touches of the checkout | `RecoveryReachable`, `OneRecovery`, `StandingSecretsStop` |
| `dirty_pause_scan` | 1 call, 1 touch | finding 2 |
| `lifecycle` | 2 writers, 1 session and another that may take its worktree, a target for each sink, clock to 1, 2 marker revisions, 2 decisions | `CutoverOneWay`, `NoLostAdvance`, `SessionKeepsSink`, `SinkFitsStart` |
| `promotion_capture` | 2 promoters, 4 packets (2 for the target, 1 for another sink, 1 blocked), a target that may start occupied, 3 fencing tokens | `CommittedStays`, `NewestFenceWrites`, `EvidenceFirst`, `FailedLeavesTarget`, `ImplementsTarget` |
| `host_apply` | 2 appliers, a path that is a file or a directory over another, one sequence that removes the file and creates under it, every initial tree, 1 foreign write, 1 preview at a time | `ReceiptExact`, `RollbackExact`, `ImplementsTransaction` |
| `updater_apply` | 1 updater, 5 files, every initial target, 1 foreign write | `RolledBackExact`, `ImplementsTransaction` |
| `updater_escape` | the same without foreign writes | finding 3 |
| `delivery` | 2 kinds, 2 surfaces and 2 triggers of which one is hard, counts on both sides of each boundary and below zero, every receipt over 2 times; 3 events and their artifacts, 2 paths, 1 commit | `AnswersMeetCharter`, `LaneNeverEases`, `PacketsMeetContract` |

Each run that has states to type also checks its `TypeOK`.

Why the bounds are enough. The hazards of the registry need two callers, one revision to be measured
and another to come between, and a third to build on the result; a lease that is renewed, expires and is
retired needs the instants 0, 1 and 2 when `Ttl` is 1. In `registry_work_sessions` a lease expires with
the next tick, which is all its properties need of time. Its two sessions have
one token, as `registry_direct` shows what a wrong token does. `registry_returns` stops at two revisions:
a claim, and the one that retires it; whether a call comes back does not grow with the history. One proposal
with a fault stands for all of them, since the model looks at a fault only to ask whether there is one. A third fencing token lets
a promoter follow one that failed and one that was killed. Two marker revisions are a creation and an
advance, two instants a session on either side of the cutover, and two decisions what a conflict takes;
more sessions would add nothing, as `SessionKeepsSink` and `SinkFitsStart` speak of one session at a
time and the other one that matters, the one that takes the worktree, is there. Two operations per
preview are a first that must be undone and a second that fails, and a file that makes way for a
directory is the case that `mkdir(parents=True)` and the order of refilling are sensitive to; "replace" has its guards in
the model and is not in the instance, since it differs from "create" only in the state it
demands. The lane and the profile depend on each count only through the comparisons with 0, 3 and 50,
and both sides of each are in the instance. `Delivery` and `Evidence` share no state and run side by
side in one instance, where evidence moves only while the work is as first measured: that is a sum
of their state spaces and not a product, and loses nothing of either. `Remote` is empty in the other
registry runs: an owner on another host adds the probes "unknown" and "unreachable", which
`registry_returns` covers, and `AbandonedOnlyWithProof` with them; with hosts that come back `EvaluationHonoured` would not hold, nor is it
meant to.

Symmetry is used for callers, promoters, writers and pausers, which are never compared or ordered, and
in no run with a liveness property. Deadlock is checked except in `lifecycle` and `updater_apply`, which
really stop: at the bounds on markers and decisions, or with a target that lost its pins and nobody to
repair it.

Fairness. Only `registry_returns` assumes any: weak fairness of `Proceed(p)`, the next step of a caller
that has been called. After `Acquire` the code is straight-line, and the poll loop for the lock
ends by acquiring or at its deadline, so a process that is scheduled does take its next
step. Calls are never required to begin, and the crash, the clock and the owners are not fair.

## 4. Proofs

Every invariant, action property and refinement that a passing run checks is also a theorem, proved for
any sets of processes, files, sessions, proposals and targets and for any bounds, from the named
assumptions on the constants. A few have one more hypothesis, which is part of their statement below.

| Module | Theorems (the property each one states) |
| --- | --- |
| `SessionRegistryProofs` | `TypeCorrect` (`TypeOK`), `ValidOnDisk` (`DiskValid`), `GrantsStay` (`GrantsDurable`), `Exclusion` (`LiveOwnersExclusive`), `CompareAndSwap` (`NoLostUpdate`), `ProofOfAbandonment` (`AbandonedOnlyWithProof`), `History` (`HistoryKept`), `TokenRequired` (`OnlyHolderActs`), `DamageKept` (`DamageNotOverwritten`), `Implementation` (`ImplementsOwnership`); `InvalidKeepsItsWord` (`InvalidMeansUnusable`) if no proposal is dirty; `AdviceHolds` (`EvaluationHonoured`) if no host comes back |
| `PromotionProofs` | `TypeCorrect`, `FencedWrites` (`NewestFenceWrites`); with `OneTargetPerFile`: `CommitsStay` (`CommittedStays`), `EvidenceComesFirst` (`EvidenceFirst`), `FailureMeansUntouched` (`FailedLeavesTarget`), `Implementation` (`ImplementsTarget`) |
| `LifecycleProofs` | of `Authority` alone: `OneWay` (`CutoverOneWay`), `NoAdvanceLost` (`NoLostAdvance`); of the composition: `ImplementsAuthority` and with it both of these, `TypeCorrect`, `OneSink` (`SessionKeepsSink`), `SideOfCutover` (`SinkFitsStart`) |
| `HostTransactionProofs` | `TypeCorrect`, `RolledBack` (`RollbackExact`), `ReceiptHolds` (`ReceiptExact`), `Implementation` (`ImplementsTransaction`) |
| `UpdaterProofs` | `TypeCorrect`, `RolledBack` (`RolledBackExact`), `Implementation` (`ImplementsTransaction`) |
| `DirtyPauseProofs` | `TypeCorrect`, `Reachable` (`RecoveryReachable`), `PausedOnce` (`OneRecovery`), `SecretsStop` (`StandingSecretsStop`); `ScanHolds` (`ScanCoversCommit`) if nobody edits a file |
| `DeliveryProofs` | `TypeCorrect`, `CharterMet` (`AnswersMeetCharter`), `NeverEases` (`LaneNeverEases`) |
| `EvidenceProofs` | `ContractMet` (`PacketsMeetContract`) |

Each module first proves its inductive invariant (`Invariance`, one lemma per action or group of actions) and
draws the theorems from it. The invariants are needed because the properties speak of what was done, and
a process that is about to do it could do anything as far as they say.

**Registry.** `IInv` says what a caller will write. `LockInv`: whoever is inside holds the lock, so there
is one writer. `WritingInv`: the document of a writer is the successor of what is on disk *now*, every
claim of it follows from the claim in the same place by a permitted change (`Succeeds`), it satisfies
the contract, and it holds the claim that was asked for. `WrittenInv`: a claim that was written is
still there when its caller returns. `ClockInv`: no instant on record is in the future, without which
a new claim could already be expired. `DiskValid` gives `Exclusion`: two granted sessions whose owners
live are active on disk, and a valid document has no two active claims that clash. The action properties
follow from `IInv` and from `DiskStep`, that only `Replace` changes the document. The refinement needs one
thing more about the writer (`ShapeInv`): a claim adds one entry, and heartbeat and release add none;
then `Replace` maps to `Take`, `End` or a stutter, and every other step leaves what is mapped alone or
changes only who is alive. `AdviceHolds` rests on `AdviceInv`: at the revision a caller saw, what it was told is free
still is, since the clock only retires more claims and, without `HostBack`, a dead owner stays dead.
`InvalidKeepsItsWord` says that on a readable document a claim fails as invalid only for what the caller itself
proposed: something the contract refuses by itself, or the id of a session on record. It needs its hypothesis:
finding 1 is what happens without it. `ProofOfAbandonment` has two parts, as the code has two moments. When a
caller judges a claim (`Prepare`), the expiry on disk has passed and the probe reports the owner dead or its host
unreachable. When it replaces the file, the lease is still the expired one, because the lock keeps renewals out,
and an owner on this host is still dead; of another host nothing is said then, as it may have been reached again
and the code does not ask twice.

**Promotion.** `LockInv`: the lock of a target names the one promoter past it. `FenceInv`: past the counter it
holds the newest token. `PermitInv`: what goes on to the file passed the permission checks. These hold
for any assignment of files to targets, and give `FencedWrites`. `FileInv` adds, with `OneTargetPerFile`, what each
promoter knows of its file (`Standing`): until it places, the file is its snapshot; afterwards, its capture; it
places only into an absent file, and one that found its own capture there goes on without writing; as long as a
promoter that found no file works, no committed receipt is about that file. That is why a restoration never takes back what a committed receipt promised: the promoter that found its own capture
there has nothing to take back, and the others found no file.

**Lifecycle.** For the marker: the lock, and that a writer about to replace the marker accepted it
(`WriterInv`). For the sessions: what a driver saw was so (`SeenInv`), a decision fits the time its session
started (`DecisionInv`), a session is claimed once (`ClaimInv`), a capture carries the decision of its session's
claim (`CaptureInv`), and a file holds a capture that was permitted there (`FileInv`). That a session's
captures share one decision, because its id is never claimed twice, is what gives one sink; nothing else in
the code would. `UnsetAssumption` only says that the value for "no marker" is no marker.

**Host transactions and updater.** Nothing locks a target, so that nothing can be said of the target
itself. `AloneInv` says what a call knows that nobody disturbed, and every write disturbs the others: in the
host, that the target is what the operations so far make of the tree that was measured, but for the
parents and the temporary file of the one at hand; in the updater, that the files it does not govern are
those of its snapshot; while refilling, that each file is gone or back. `FirstInv` says that of two undisturbed calls
one has written nothing: the refinement needs it to tell whose transaction the target counts for. The
proof of the host asked for an assumption the model did not state: the paths above a path that is above another
are above that one too. `Applied` says that a run of trees leads through the operations (`Leads`) and
not that a fold over them yields the tree: it means the same and needs no induction over the list.

**Dirty pause.** Two arguments. `RefInv` and `RecordInv`: `update-ref` with the zero oid lets one call hold the ref,
and a call that returned a record never lets go of it. `MeasureInv` and `ScanInv`: the index only moves on, so a
call that finds the index it began with knows that `HEAD` has not moved and that its scan compared the
worktree with the `HEAD` its record names. `ScanHolds` shows that finding 2
takes an edit.

**Delivery and Evidence.** The code keeps nothing between calls, so the invariant is the answer itself, and
the work is in the lemmas: what gets the micro lane the charter admits to it, and work that grows never comes back to it;
a receipt the selector accepts meets the contract of a human decision; what the evidence builder accepts
its contract accepts, but for two faults.

What stays with TLC: liveness (`EveryCallReturns`, `LockComesFree`), as the prover handles neither fairness
nor ENABLED; the three properties that findings refute; and, of course, that the cases the theorems speak of
do occur. No module uses a recursive operator, so nothing else is out of reach.

## 5. Findings

1. **A dirty paused claim wedges the registry** (`registry_dirty_pause`). `_retire_proven_stale`
   turns an expired claim of a dead owner to "abandoned" and leaves `dirty` and its recovery record. The
   shape check accepts those only with "paused", so `_commit` refuses the document. From then on every
   `claim` by anybody is refused with `RegistryInvalid`, though the file is valid. `release` of a dirty
   paused claim fails for the same reason. `InvalidMeansUnusable` holds for clean sessions.
2. **The scan does not cover the commit** (`dirty_pause_scan`). A file that was modified already when the
   pause began, and is edited between the scan and `git add`, gets into the commit unscanned, and the
   comparison at the end cannot see it, because its status letter is the same. `StandingSecretsStop` states what does
   hold.
3. **An error escapes the updater before the restoration** (`updater_escape`). The failed target is
   measured for the receipt outside the `try` that restores it; when this reading fails, the
   half-written candidate stays. An instant without a time zone has the same effect after a
   successful write, since it is formatted last.

Known limits of the code that no property is about: two target ids on one file are not excluded from each
other by the promotion lock; "unreachable" counts as proof that an owner is gone, also of a host that is reached again before the file is replaced;
`RegistryInvalid` is raised for a proposal that only the contract refuses as well as for an unusable registry; a claim
whose caller was told of an error after the replacement, or was killed, stays until its owner is gone and its lease has run
out, and a token that `open_work_session` made itself is lost with it; `open_work_session`
takes the instant and the cleanliness of the worktree before it waits for the lock; a clock that steps
back; a capture does not ask whether its claim is still active; file modes are not restored; a host preview with a time to
live below one second is one its contract refuses; a killed dirty pause leaves a ref that blocks the
session; a killed updater leaves a target that cannot be previewed.

## 6. Plan

Every part of section 1 that keeps state is modelled with all its operations, and so are the three that decide
or build; every safety property the passing runs check is proved. What is left, most useful first:

1. What can be said without `OneTargetPerFile`: which of the promises of `CaptureTarget` two ids on one file
   still keep.
2. `Lifecycle` rests on `Ownership` and `CaptureTarget` by construction. The theorems `Implementation` could be
   stated for the parameters the composition uses, so that the chain from the code's steps to `SessionKeepsSink` is closed.
3. `RaisedRestored` if the measurement of the failed target does not fail: the counterpart of `ScanHolds` for finding 3.
