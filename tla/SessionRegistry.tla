-------------------------- MODULE SessionRegistry --------------------------
(***************************************************************************)
(* The Work Session registry of johan_sdd.sessions: one JSON document in   *)
(* the git common directory, read and rewritten under an advisory lock by  *)
(* any number of short-lived processes (the callers).                      *)
(*                                                                         *)
(* A mutation takes the lock, reads the document, compares its revision    *)
(* with the one its caller measured, computes the next document in memory, *)
(* validates it, replaces the file and reads it back.  Every one of these  *)
(* is a step here, so that other callers, the clock, the owners' processes *)
(* and crashes come between them.                                          *)
(*                                                                         *)
(* Abstractions.  A claim is what its proposal fixed (`terms', which no    *)
(* operation edits) with the two fields that change, `state' and           *)
(* `heartbeat'.  `expires_at' is heartbeat + TTL, which the validator      *)
(* enforces.  `recovery' is present exactly when `dirty' is (the shape     *)
(* check demands both directions).  The kind of worktree is the one the    *)
(* mode demands.  A lease is acquired at the time of the call, and the     *)
(* wall clock is common to all callers and monotone.  Proposals that fail  *)
(* the shape check (_valid_claim), and tokens that do not hash to the      *)
(* proposal's own, are refused before the lock and leave no trace.  What   *)
(* only the contract of the whole document refuses reaches _commit: a      *)
(* proposal carries its `faults', and may want one resource twice.         *)
(***************************************************************************)
EXTENDS Integers, Sequences, FiniteSets

CONSTANTS
    Callers,      \* processes that call the registry
    NoCaller,     \* the lock is free
    Sessions,     \* session ids
    Agents,       \* owner processes named in claims
    Remote,       \* the agents that run on another host than the callers
    Tokens,       \* lease tokens
    Paths,        \* canonical worktree paths
    Keys,         \* resources: a type and an id
    Proposals,    \* the claims callers may propose
    Operations,   \* the operations callers may invoke
    Ttl,          \* lease duration, in ticks
    MaxTime,      \* bound: the clock stops here
    MaxRevision   \* bound: no mutation is invoked that could pass this

ActiveStates == {"starting", "working", "paused", "blocked", "closing"}
States == ActiveStates \cup {"closed", "abandoned"}

Resource == [key : Keys, access : {"exclusive", "shared-read"}]

\* What the contract refuses of one claim by itself and the shape check lets
\* pass.  (A path that is relative or not canonical is a path of its own.)
RecoveryFaults == {"recovery.ref-session-mismatch", "path.not-portable"}
Faults == {"worktree.path-not-absolute", "worktree.path-not-canonical",
           "process.started-after-lease", "lease.heartbeat-before-acquisition",
           "lease.ttl-mismatch"} \cup RecoveryFaults

Proposal == [sid : Sessions, agent : Agents, token : Tokens,
             mode : {"feature", "micro"}, path : Paths,
             resources : (SUBSET Resource) \ {{}}, state : States, dirty : BOOLEAN,
             faults : SUBSET Faults]

Claim == [terms : Proposals, state : States, heartbeat : Nat]

\* _valid_claim, as far as it relates mode, dirty, recovery and state.
ValidClaim(c) ==
    /\ c.terms.mode = "micro" => ~c.terms.dirty /\ c.state # "paused"
    /\ c.terms.dirty => c.terms.mode = "feature" /\ c.state = "paused"

ASSUME ProposalAssumption ==
    /\ Proposals \subseteq Proposal
    /\ \A q \in Proposals :
          /\ ValidClaim([terms |-> q, state |-> q.state, heartbeat |-> 0])
          /\ q.faults \cap RecoveryFaults # {} => q.dirty

ASSUME BoundAssumption == Ttl \in Nat /\ MaxTime \in Nat /\ MaxRevision \in Nat

ASSUME CallerAssumption == NoCaller \notin Callers

VARIABLES
    disk,     \* the durable document: its revision and its list of claims
    damaged,  \* the file was made unreadable or invalid from outside
    lock,     \* who holds the advisory lock, or NoCaller
    pc,       \* where each caller is in its operation
    call,     \* the operation each caller is in, and its arguments
    seen,     \* the revision each caller last measured
    doc,      \* the document a caller is about to write
    result,   \* what each caller's last operation returned or raised
    now,      \* the wall clock
    probe,    \* what the process probe reports of each agent
    granted,  \* history: proposals whose claim() returned, not released since
    advice    \* history: proposals a caller evaluated as free at revision seen

vars == <<disk, damaged, lock, pc, call, seen, doc, result, now, probe,
          granted, advice>>

Document == [revision : Nat, claims : Seq(Claim)]

\* _read_inspection of a file that does not exist yet.
EmptyDocument == [revision |-> 0, claims |-> <<>>]

Owned == {"heartbeat", "release"}
Mutations == {"claim"} \cup Owned
InspectsFirst == {"open", "close"}

\* What the end of a session is asked with.
Holding == [sid : Sessions, token : Tokens]

NoCall == [op |-> "none"]
Call == [op : {"inspect"}]
   \cup [op : {"evaluate"}, target : Proposals]
   \cup [op : {"open"}, target : Proposals, at : Nat]
   \cup [op : {"claim"}, target : Proposals, at : Nat, expected : Nat]
   \cup [op : {"close"}, target : Holding]
   \cup [op : Owned, target : Holding, expected : Nat]

Outcomes == {"none", "ok", "clear", "conflicting", "Timeout", "RegistryInvalid",
             "RevisionConflict", "ClaimConflict", "ClaimNotFound",
             "LeaseTokenMismatch", "NotActive", "WriteFailed", "Unverified",
             "Crashed"}
----------------------------------------------------------------------------
\* Ownership: the helpers of the registry and of its contract.

Active(c) == c.state \in ActiveStates

Expires(c) == c.heartbeat + Ttl

\* Two resource lists meet on a resource that one of them wants exclusively.
ResourceClash(R, S) ==
    \E r \in R, s \in S : r.key = s.key /\ "exclusive" \in {r.access, s.access}

\* Mutant: the resources are not compared.
ConflictsIgnoringResources(claims, q) ==
    {i \in DOMAIN claims :
        /\ Active(claims[i])
        /\ claims[i].terms.sid = q.sid \/ claims[i].terms.path = q.path}

\* _conflicts: the active claims that stand in the way of a proposal.
Conflicts(claims, q) ==
    {i \in DOMAIN claims :
        /\ Active(claims[i])
        /\ \/ claims[i].terms.sid = q.sid
           \/ claims[i].terms.path = q.path
           \/ ResourceClash(claims[i].terms.resources, q.resources)}

\* Mutants: expiry is taken for proof; a dead process is taken for expiry.
StaleByExpiry(c) == Active(c) /\ now > Expires(c)
StaleByProcess(c) == Active(c) /\ probe[c.terms.agent] \in {"dead", "unreachable"}

\* _retire_proven_stale: an expired claim of a process proven gone is abandoned.
Stale(c) ==
    /\ Active(c)
    /\ now > Expires(c)
    /\ probe[c.terms.agent] \in {"dead", "unreachable"}

Retired(claims) ==
    [i \in DOMAIN claims |->
        IF Stale(claims[i]) THEN [claims[i] EXCEPT !.state = "abandoned"]
                            ELSE claims[i]]

\* _validate_session_registry: what the contract asks of one claim by itself,
\* beyond the shape check: no fault, and no resource named twice.
Sound(q) ==
    /\ q.faults = {}
    /\ \A r, s \in q.resources : r.key = s.key => r = s

\* _validate_session_registry: what the contract asks of two claims of the list.
ClaimsCompatible(c, d) ==
    /\ c.terms.sid # d.terms.sid
    /\ Active(c) /\ Active(d) =>
          /\ c.terms.path # d.terms.path
          /\ ~ResourceClash(c.terms.resources, d.terms.resources)

\* _shape_errors returns nothing.
ValidClaims(claims) ==
    /\ \A i \in DOMAIN claims : ValidClaim(claims[i]) /\ Sound(claims[i].terms)
    /\ \A i, j \in DOMAIN claims : i # j => ClaimsCompatible(claims[i], claims[j])
----------------------------------------------------------------------------
Init ==
    /\ disk = EmptyDocument
    /\ damaged = FALSE
    /\ lock = NoCaller
    /\ pc = [p \in Callers |-> "idle"]
    /\ call = [p \in Callers |-> NoCall]
    /\ seen = [p \in Callers |-> 0]
    /\ doc = [p \in Callers |-> EmptyDocument]
    /\ result = [p \in Callers |-> "none"]
    /\ now = 0
    /\ probe = [a \in Agents |-> IF a \in Remote THEN "unknown" ELSE "live"]
    /\ granted = {}
    /\ advice = [p \in Callers |-> {}]
----------------------------------------------------------------------------
\* A caller enters an operation and starts to poll for the lock.

Invoke(p, c) ==
    /\ pc[p] = "idle"
    /\ c.op \in Operations
    /\ pc' = [pc EXCEPT ![p] = "waiting"]
    /\ call' = [call EXCEPT ![p] = c]
    /\ result' = [result EXCEPT ![p] = "none"]
    /\ UNCHANGED <<disk, damaged, lock, seen, doc, now, probe, granted, advice>>

\* The bound on revisions: every operation under way may add one.
Room ==
    disk.revision + Cardinality({p \in Callers : pc[p] # "idle"}) < MaxRevision

InvokeInspect(p) == Invoke(p, [op |-> "inspect"])

InvokeEvaluate(p) ==
    \E q \in Proposals : Invoke(p, [op |-> "evaluate", target |-> q])

InvokeClaim(p) ==
    /\ Room
    /\ \E q \in Proposals :
          Invoke(p, [op |-> "claim", target |-> q, at |-> now, expected |-> seen[p]])

\* open_work_session proposes a clean, working claim, timed before it inspects,
\* with the path git reports; the adapter has just found the owner's process
\* alive.  The process and the resources are what its caller says.
InvokeOpen(p) ==
    /\ Room
    /\ \E q \in Proposals :
          /\ q.state = "working" /\ ~q.dirty
          /\ q.faults \subseteq {"process.started-after-lease"}
          /\ probe[q.agent] = "live"
          /\ Invoke(p, [op |-> "open", target |-> q, at |-> now])

InvokeOwned(p) ==
    /\ Room
    /\ \E op \in Owned, h \in Holding :
          Invoke(p, [op |-> op, target |-> h, expected |-> seen[p]])

InvokeClose(p) ==
    /\ Room
    /\ \E h \in Holding : Invoke(p, [op |-> "close", target |-> h])
----------------------------------------------------------------------------
\* _exclusive_lock

\* Mutant: the lock excludes nobody.
AcquireAnyway(p) ==
    /\ pc[p] = "waiting"
    /\ lock' = p
    /\ pc' = [pc EXCEPT ![p] = "locked"]
    /\ UNCHANGED <<disk, damaged, call, seen, doc, result, now, probe, granted, advice>>

Acquire(p) ==
    /\ pc[p] = "waiting"
    /\ lock = NoCaller
    /\ lock' = p
    /\ pc' = [pc EXCEPT ![p] = "locked"]
    /\ UNCHANGED <<disk, damaged, call, seen, doc, result, now, probe, granted, advice>>

\* Every way out of an operation that leaves the document alone.
Leave(p, outcome) ==
    /\ pc' = [pc EXCEPT ![p] = "idle"]
    /\ call' = [call EXCEPT ![p] = NoCall]
    /\ doc' = [doc EXCEPT ![p] = EmptyDocument]
    /\ result' = [result EXCEPT ![p] = outcome]
    /\ UNCHANGED <<disk, damaged, now, probe>>

Unlock(p) == lock' = IF lock = p THEN NoCaller ELSE lock

\* The caller learns a revision; advice on an older one is worth nothing.
Measure(p, revision) ==
    /\ seen' = [seen EXCEPT ![p] = revision]
    /\ advice' = [advice EXCEPT ![p] = IF revision = seen[p] THEN @ ELSE {}]

\* Mutant: the poll loop has no deadline.
TimeOutNever(p) == p \notin Callers /\ UNCHANGED vars

\* Only a failed attempt looks at the deadline.
TimeOut(p) ==
    /\ pc[p] = "waiting"
    /\ lock # NoCaller
    /\ Leave(p, "Timeout")
    /\ UNCHANGED <<lock, seen, granted, advice>>
----------------------------------------------------------------------------
\* Operations that only read.

\* inspect returns the document it found, whatever its state.
Inspect(p) ==
    /\ pc[p] = "locked"
    /\ call[p].op = "inspect"
    /\ Leave(p, "ok")
    /\ Unlock(p)
    /\ Measure(p, IF damaged THEN seen[p] ELSE disk.revision)
    /\ UNCHANGED granted

\* open_work_session and close_work_session go on with the revision they read;
\* the lock is free in between.
InspectThenMutate(p) ==
    /\ pc[p] = "locked"
    /\ call[p].op \in InspectsFirst
    /\ ~damaged
    /\ pc' = [pc EXCEPT ![p] = "waiting"]
    /\ call' = [call EXCEPT ![p] =
          IF @.op = "open"
          THEN [op |-> "claim", target |-> @.target, at |-> @.at, expected |-> disk.revision]
          ELSE [op |-> "release", target |-> @.target, expected |-> disk.revision]]
    /\ Unlock(p)
    /\ Measure(p, disk.revision)
    /\ UNCHANGED <<disk, damaged, doc, result, now, probe, granted>>

\* evaluate retires stale claims in its copy only.
Evaluate(p) ==
    /\ pc[p] = "locked"
    /\ call[p].op = "evaluate"
    /\ ~damaged
    /\ LET q == call[p].target
           clear == Conflicts(Retired(disk.claims), q) = {}
       IN  /\ Leave(p, IF clear THEN "clear" ELSE "conflicting")
           /\ advice' = [advice EXCEPT ![p] =
                 (IF disk.revision = seen[p] THEN @ \ {q} ELSE {})
                    \cup {g \in {q} : clear}]
    /\ Unlock(p)
    /\ seen' = [seen EXCEPT ![p] = disk.revision]
    /\ UNCHANGED granted
----------------------------------------------------------------------------
\* Mutations.  Each refusal is an action; what is left is Prepare.

Refuse(p, outcome) ==
    /\ Leave(p, outcome)
    /\ Unlock(p)
    /\ UNCHANGED <<seen, granted, advice>>

RefuseUnreadable(p) ==
    /\ pc[p] = "locked"
    /\ call[p].op # "inspect"
    /\ damaged
    /\ Refuse(p, "RegistryInvalid")

\* Mutant: a file that cannot be read counts as one that can.
ReadAnything(p) == pc[p] = "locked" /\ call[p].op \in Mutations

\* _mutation_document read a valid document.
Read(p) ==
    /\ pc[p] = "locked"
    /\ call[p].op \in Mutations
    /\ ~damaged

RefuseStale(p) ==
    /\ Read(p)
    /\ call[p].expected # disk.revision
    /\ Refuse(p, "RevisionConflict")

\* Mutant: the revision is not compared.
MeasuredAnyRevision(p) == Read(p)

\* _mutation_document returned.
Measured(p) ==
    /\ Read(p)
    /\ call[p].expected = disk.revision

\* Mutant: stale claims still conflict.
RefuseConflictWithStale(p) ==
    /\ Measured(p)
    /\ call[p].op = "claim"
    /\ Conflicts(disk.claims, call[p].target) # {}
    /\ Refuse(p, "ClaimConflict")

RefuseConflict(p) ==
    /\ Measured(p)
    /\ call[p].op = "claim"
    /\ Conflicts(Retired(disk.claims), call[p].target) # {}
    /\ Refuse(p, "ClaimConflict")

\* _owned_claim
Named(p) == {i \in DOMAIN disk.claims : disk.claims[i].terms.sid = call[p].target.sid}
First(S) == CHOOSE i \in S : \A j \in S : i <= j
OwnedIndex(p) == First(Named(p))

\* Mutant: any token will do.
HoldsAnyToken(p) == call[p].target.token \in Tokens

HoldsToken(p) == disk.claims[OwnedIndex(p)].terms.token = call[p].target.token

RefuseUnknown(p) ==
    /\ Measured(p)
    /\ call[p].op \in Owned
    /\ Named(p) = {}
    /\ Refuse(p, "ClaimNotFound")

RefuseToken(p) ==
    /\ Measured(p)
    /\ call[p].op \in Owned
    /\ Named(p) # {}
    /\ ~HoldsToken(p)
    /\ Refuse(p, "LeaseTokenMismatch")

RefuseInactive(p) ==
    /\ Measured(p)
    /\ call[p].op = "heartbeat"
    /\ Named(p) # {}
    /\ HoldsToken(p)
    /\ ~Active(disk.claims[OwnedIndex(p)])
    /\ Refuse(p, "NotActive")

\* The claims each mutation hands to _commit, once its own checks have passed.
Claiming(p) ==
    /\ call[p].op = "claim"
    /\ Conflicts(Retired(disk.claims), call[p].target) = {}

Claimed(p) ==
    Append(Retired(disk.claims),
           [terms |-> call[p].target, state |-> call[p].target.state,
            heartbeat |-> call[p].at])

\* Mutant: a claim that is not active any more may be renewed.
HeartbeatingAnyState(p) ==
    /\ call[p].op = "heartbeat"
    /\ Named(p) # {}
    /\ HoldsToken(p)

Heartbeating(p) ==
    /\ call[p].op = "heartbeat"
    /\ Named(p) # {}
    /\ HoldsToken(p)
    /\ Active(disk.claims[OwnedIndex(p)])

\* release does not ask whether the claim is still active.
Releasing(p) ==
    /\ call[p].op = "release"
    /\ Named(p) # {}
    /\ HoldsToken(p)

\* Mutant: release writes a state that the contract does not know.
AmendedToReleased(p) ==
    IF call[p].op = "claim" THEN Claimed(p)
    ELSE IF call[p].op = "heartbeat"
         THEN [disk.claims EXCEPT ![OwnedIndex(p)].heartbeat = now]
         ELSE [disk.claims EXCEPT ![OwnedIndex(p)].state = "released"]

Amended(p) ==
    IF call[p].op = "claim" THEN Claimed(p)
    ELSE IF call[p].op = "heartbeat"
         THEN [disk.claims EXCEPT ![OwnedIndex(p)].heartbeat = now]
         ELSE [disk.claims EXCEPT ![OwnedIndex(p)].state = "closed"]

Permitted(p) ==
    /\ Measured(p)
    /\ Claiming(p) \/ Heartbeating(p) \/ Releasing(p)

\* _commit refuses a document that fails its own contract, before writing.
RefuseInvalid(p) ==
    /\ Permitted(p)
    /\ ~ValidClaims(Amended(p))
    /\ Refuse(p, "RegistryInvalid")

\* Mutant: the document is not validated before it is written.
PrepareUnchecked(p) ==
    /\ Permitted(p)
    /\ doc' = [doc EXCEPT ![p] = [revision |-> disk.revision + 1, claims |-> Amended(p)]]
    /\ pc' = [pc EXCEPT ![p] = "writing"]
    /\ UNCHANGED <<disk, damaged, lock, call, seen, result, now, probe, granted, advice>>

Prepare(p) ==
    /\ Permitted(p)
    /\ ValidClaims(Amended(p))
    /\ doc' = [doc EXCEPT ![p] = [revision |-> disk.revision + 1, claims |-> Amended(p)]]
    /\ pc' = [pc EXCEPT ![p] = "writing"]
    /\ UNCHANGED <<disk, damaged, lock, call, seen, result, now, probe, granted, advice>>
----------------------------------------------------------------------------
\* _atomic_write and the readback.

\* Mutant: the error is swallowed and the claim reported as made.
WriteFailsQuietly(p) ==
    /\ pc[p] = "writing"
    /\ Leave(p, "ok")
    /\ Unlock(p)
    /\ granted' = granted \cup {q \in Proposals : call[p].op = "claim" /\ q = call[p].target}
    /\ UNCHANGED <<seen, advice>>

WriteFails(p) ==
    /\ pc[p] = "writing"
    /\ Refuse(p, "WriteFailed")

\* os.replace.  A released session is given up here.
Replace(p) ==
    /\ pc[p] = "writing"
    /\ disk' = doc[p]
    /\ pc' = [pc EXCEPT ![p] = "written"]
    /\ granted' = {g \in granted :
                     ~(call[p].op = "release" /\ g.sid = call[p].target.sid)}
    /\ UNCHANGED <<damaged, lock, call, seen, doc, result, now, probe, advice>>

Return(p) ==
    /\ pc[p] = "written"
    /\ Leave(p, "ok")
    /\ Unlock(p)
    /\ Measure(p, disk.revision)
    /\ granted' = granted \cup
          {q \in Proposals : call[p].op = "claim" /\ q = call[p].target /\ q.state \in ActiveStates}

\* The directory sync or the readback fails after the file was replaced: the
\* caller sees an error for a change that is durable.
ReturnUnverified(p) ==
    /\ pc[p] = "written"
    /\ Refuse(p, "Unverified")

\* Mutant: the lock outlives the process.
CrashWithLock(p) ==
    /\ pc[p] # "idle"
    /\ Leave(p, "Crashed")
    /\ UNCHANGED <<lock, seen, granted, advice>>

\* A caller's process is killed; the kernel drops its lock.
Crash(p) ==
    /\ pc[p] # "idle"
    /\ Leave(p, "Crashed")
    /\ Unlock(p)
    /\ UNCHANGED <<seen, granted, advice>>
----------------------------------------------------------------------------
\* The world around the registry.

worldUnchanged == UNCHANGED <<disk, lock, pc, call, seen, doc, result, granted, advice>>

Tick ==
    /\ now < MaxTime
    /\ now' = now + 1
    /\ worldUnchanged /\ UNCHANGED <<damaged, probe>>

\* An owner's process on this host ends.  The start time in the claim tells it
\* from a later process with the same pid.
OwnerDies(a) ==
    /\ probe[a] = "live"
    /\ probe' = [probe EXCEPT ![a] = "dead"]
    /\ worldUnchanged /\ UNCHANGED <<damaged, now>>

\* An injected probe may report another host unreachable, and later reach it.
HostLost(a) ==
    /\ probe[a] = "unknown"
    /\ probe' = [probe EXCEPT ![a] = "unreachable"]
    /\ worldUnchanged /\ UNCHANGED <<damaged, now>>

HostBack(a) ==
    /\ probe[a] = "unreachable"
    /\ probe' = [probe EXCEPT ![a] = "unknown"]
    /\ worldUnchanged /\ UNCHANGED <<damaged, now>>

\* Something that does not use the registry spoils the file, between calls.
Damage ==
    /\ "damage" \in Operations
    /\ lock = NoCaller
    /\ ~damaged
    /\ damaged' = TRUE
    /\ worldUnchanged /\ UNCHANGED <<now, probe>>
----------------------------------------------------------------------------
Begin(p) ==
    \/ InvokeInspect(p) \/ InvokeEvaluate(p) \/ InvokeClaim(p)
    \/ InvokeOpen(p) \/ InvokeOwned(p) \/ InvokeClose(p)

Proceed(p) ==
    \/ Acquire(p) \/ TimeOut(p)
    \/ Inspect(p) \/ InspectThenMutate(p) \/ Evaluate(p)
    \/ RefuseUnreadable(p) \/ RefuseStale(p) \/ RefuseConflict(p)
    \/ RefuseUnknown(p) \/ RefuseToken(p) \/ RefuseInactive(p)
    \/ RefuseInvalid(p) \/ Prepare(p)
    \/ WriteFails(p) \/ Replace(p) \/ Return(p) \/ ReturnUnverified(p)

World ==
    \/ Tick \/ Damage
    \/ \E a \in Agents : OwnerDies(a) \/ HostLost(a) \/ HostBack(a)

Next ==
    \/ \E p \in Callers : Begin(p) \/ Proceed(p) \/ Crash(p)
    \/ World

Spec == Init /\ [][Next]_vars
----------------------------------------------------------------------------
\* Properties.

Critical == {"locked", "writing", "written"}

\* Type invariant.
TypeOK ==
    /\ disk \in Document
    /\ damaged \in BOOLEAN
    /\ lock \in Callers \cup {NoCaller}
    /\ pc \in [Callers -> {"idle", "waiting"} \cup Critical]
    /\ call \in [Callers -> Call \cup {NoCall}]
    /\ seen \in [Callers -> Nat]
    /\ doc \in [Callers -> Document]
    /\ result \in [Callers -> Outcomes]
    /\ now \in Nat
    /\ probe \in [Agents -> {"live", "dead", "unknown", "unreachable"}]
    /\ \A a \in Agents : a \in Remote <=> probe[a] \in {"unknown", "unreachable"}
    /\ granted \subseteq Proposals
    /\ advice \in [Callers -> SUBSET Proposals]

\* The document on disk satisfies its own contract, whatever is proposed: no
\* claim has a fault of its own, session ids are unique and no two active claims
\* share a worktree or meet on an exclusive resource.
DiskValid == ValidClaims(disk.claims)

\* A claim() that returned stays on disk, with the terms it was granted on,
\* until its holder releases it; while the owner's process is alive it is
\* active there.  (The document is rewritten whole by every caller.)
GrantsDurable ==
    \A g \in granted : \E i \in DOMAIN disk.claims :
        /\ disk.claims[i].terms = g
        /\ disk.claims[i].state # "closed"
        /\ probe[g.agent] = "live" => Active(disk.claims[i])

\* The purpose of the registry: owners that were told they hold a session, and
\* whose processes are alive, never share a session id, a worktree or a
\* resource that one of them holds exclusively.
LiveOwnersExclusive ==
    \A g, h \in {q \in granted : probe[q.agent] = "live"} : g # h =>
        /\ g.sid # h.sid
        /\ g.path # h.path
        /\ \A r \in g.resources, s \in h.resources :
              r.key = s.key => r.access = "shared-read" /\ s.access = "shared-read"

\* Compare and swap: the file is only ever replaced by a document built from
\* the very revision its writer had measured, and one number ahead of it.
NoLostUpdate ==
    [][\A p \in Callers : pc[p] = "writing" /\ pc'[p] = "written" =>
          /\ call[p].expected = disk.revision
          /\ disk'.revision = disk.revision + 1]_vars

\* The list is a history: claims are not removed, reordered or re-termed, a
\* lease never goes back in time, a closed session stays closed, and a heartbeat
\* that comes too late, after the session was closed or retired, renews nothing.
HistoryKept ==
    [][\A i \in DOMAIN disk.claims :
          /\ i \in DOMAIN disk'.claims
          /\ disk'.claims[i].terms = disk.claims[i].terms
          /\ disk'.claims[i].heartbeat >= disk.claims[i].heartbeat
          /\ ~Active(disk.claims[i]) =>
                disk'.claims[i].heartbeat = disk.claims[i].heartbeat
          /\ disk.claims[i].state = "closed" => disk'.claims[i].state = "closed"
          /\ disk.claims[i].state = "abandoned" =>
                disk'.claims[i].state \in {"abandoned", "closed"}]_vars

\* A claim is abandoned only with proof.  When a caller judges it (and builds the
\* document that abandons it) the expiry on disk has passed and the probe reports
\* the owner dead or its host unreachable.  When the file is replaced, later, the
\* lease has still not been renewed, and an owner on this host is still dead.
\* (A host may have come back in between: the probe is not asked again.)
AbandonedOnlyWithProof ==
    [][\A i \in DOMAIN disk.claims : Active(disk.claims[i]) =>
          LET owner == disk.claims[i].terms.agent
              expired == now > Expires(disk.claims[i])
          IN  /\ \A p \in Callers :
                    /\ pc[p] = "locked" /\ pc'[p] = "writing"
                    /\ doc'[p].claims[i].state = "abandoned"
                    => expired /\ probe[owner] \in {"dead", "unreachable"}
              /\ disk'.claims[i].state = "abandoned" =>
                    expired /\ (owner \notin Remote => probe[owner] = "dead")]_vars

\* A session is closed, and its lease renewed, only by a caller that presents
\* the token of the claim.
OnlyHolderActs ==
    [][\A i \in DOMAIN disk.claims :
          \/ disk'.claims[i].state # disk.claims[i].state
                /\ disk'.claims[i].state = "closed"
          \/ disk'.claims[i].heartbeat # disk.claims[i].heartbeat
          => \E p \in Callers :
                /\ pc[p] = "writing"
                /\ call[p].target.sid = disk.claims[i].terms.sid
                /\ call[p].target.token = disk.claims[i].terms.token]_vars

\* A proposal that evaluate() found free is not refused for a conflict by a
\* claim() on the same revision: the stale claims evaluate() set aside, in its
\* copy only, are set aside again.  (It takes that no host comes back.)
EvaluationHonoured ==
    [][\A p \in Callers :
          /\ call[p].op = "claim"
          /\ call[p].target \in advice[p]
          /\ call[p].expected = seen[p]
          => result'[p] # "ClaimConflict"]_vars

\* A file that was found invalid is left as evidence: no operation replaces it.
DamageNotOverwritten == [][damaged => UNCHANGED <<disk, damaged>>]_vars

\* RegistryInvalid means what its docstring says, that the registry cannot be
\* used: on a readable document no operation ends that way for what others have
\* claimed there or for the state their claims are in.  All that is left is the
\* caller's own proposal, which the contract refuses by itself (no retry will
\* help) or which reuses the id of a session on record.
InvalidMeansUnusable ==
    [][\A p \in Callers :
          pc[p] = "locked" /\ result'[p] = "RegistryInvalid" =>
              \/ damaged
              \/ /\ call[p].op = "claim"
                 /\ \/ ~Sound(call[p].target)
                    \/ \E i \in DOMAIN disk.claims :
                          disk.claims[i].terms.sid = call[p].target.sid]_vars

\* The registry implements the abstract ownership service.
SessionsClash(g, h) ==
    g.sid = h.sid \/ g.path = h.path \/ ResourceClash(g.resources, h.resources)
AsksActive(g) == g.state \in ActiveStates

Service == INSTANCE Ownership WITH
    Clash <- SessionsClash,
    Holds <- AsksActive,
    held <- {disk.claims[i].terms : i \in {j \in DOMAIN disk.claims : Active(disk.claims[j])}},
    past <- {disk.claims[i].terms.sid :
                i \in {j \in DOMAIN disk.claims : ~Active(disk.claims[j])}},
    alive <- {a \in Agents : probe[a] = "live"}

\* Seen through its active claims, the registry takes and ends sessions in
\* atomic steps, gives none away that clashes with one it keeps, and takes none
\* from an owner that is alive.
ImplementsOwnership == Service!Spec

\* Every operation runs on unless its process is killed: the poll loop ends by
\* acquiring or by the deadline, and the rest is straight-line code.
FairSpec == Spec /\ \A p \in Callers : WF_vars(Proceed(p))

\* Every call comes back, with a result or an error.
EveryCallReturns == \A p \in Callers : pc[p] # "idle" ~> pc[p] = "idle"

\* The lock is not left behind by a caller that is refused, fails or is killed.
LockComesFree == \A p \in Callers : lock = p ~> lock # p
=============================================================================
