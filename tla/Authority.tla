----------------------------- MODULE Authority -----------------------------
(***************************************************************************)
(* The lifecycle authority of johan_sdd.capture: the cutover marker, a     *)
(* file advanced by revision-and-digest compare and swap, and the decision *)
(* derived for a session from what it observed of the marker.  Lifecycle   *)
(* composes them with the registry, the captures and the targets.          *)
(*                                                                         *)
(* A writer of the marker and a driver of a session are processes: the     *)
(* marker may be created or advanced between the read a derivation uses    *)
(* and the derivation.                                                     *)
(*                                                                         *)
(* Abstractions.  The marker's digest covers the whole marker, so it is    *)
(* the marker.  A decision is identified by what its reference digests,    *)
(* the derivation time and the receipt's revision left out.  A session     *)
(* starts before its driver reads the marker; the clock is common.         *)
(***************************************************************************)
EXTENDS Naturals, FiniteSets

CONSTANTS
    Writers,      \* processes that write the cutover marker
    NoWriter,     \* the marker's lock file does not exist
    Dead,         \* ... it was left by a writer that was killed
    Sessions,
    Elsewhere,    \* a session whose decisions are derived elsewhere
    Unset,        \* no marker, no decision, not started
    MaxTime,      \* bound: the clock stops here
    MaxRevision,  \* bound: the marker is not advanced beyond this
    MaxDecisions  \* bound: no more receipts than this are derived

ASSUME AuthorityAssumption ==
    /\ NoWriter \notin Writers /\ Dead \notin Writers /\ NoWriter # Dead
    /\ MaxTime \in Nat /\ MaxRevision \in Nat /\ MaxDecisions \in Nat
    /\ Unset \notin Nat
    /\ Elsewhere \notin Sessions

Time == 0 .. MaxTime

\* A marker: the writer stands for the evidence it appended.
Marker == [revision : 1 .. MaxRevision, at : Time, evidence : Writers]
Observation == Marker \cup {Unset}

Modes == {"pre_cutover_json_authority", "blocked_authority_transition",
          "post_cutover_buzz_authority", "post_cutover_fallback_evidence"}

Sink(mode) ==
    CASE mode = "pre_cutover_json_authority" -> "session_artifact_v1"
      [] mode = "blocked_authority_transition" -> "none"
      [] mode = "post_cutover_buzz_authority" -> "buzz_event"
      [] mode = "post_cutover_fallback_evidence" -> "noncanonical_fallback_ledger"

Decision == [session : Sessions \cup {Elsewhere}, stage : {"initial_enrollment", "continuation"},
             seen : Observation, mode : Modes]

ASSUME UnsetAssumption == Unset \notin Marker \cup Decision

\* Receipts that verify, but were derived for another session.
Foreign == {[session |-> Elsewhere, stage |-> "initial_enrollment",
             seen |-> Unset, mode |-> m] : m \in Modes}

VARIABLES
    marker,     \* the marker file
    lock,       \* the marker's lock file
    pc,         \* where each writer is
    expected,   \* the marker each writer measured
    asked,      \* the cutover time each writer passes, if any
    now,
    started,    \* when each session started
    bare,       \* sessions that started while there was no marker
    seen,       \* what each session's driver last read of the marker
    decisions   \* the receipts derived so far

markerVars == <<marker, lock, pc, expected, asked>>
sessionVars == <<started, bare, seen, decisions>>
authorityVars == <<markerVars, now, sessionVars>>

AuthorityInit ==
    /\ marker = Unset
    /\ lock = NoWriter
    /\ pc = [w \in Writers |-> "idle"]
    /\ expected = [w \in Writers |-> Unset]
    /\ asked = [w \in Writers |-> Unset]
    /\ now = 0
    /\ started = [s \in Sessions |-> Unset]
    /\ bare = {}
    /\ seen = [s \in Sessions |-> Unset]
    /\ decisions = {}
----------------------------------------------------------------------------
\* write_cutover_marker.

revision(m) == IF m = Unset THEN 0 ELSE m.revision

\* The caller measures the marker and picks the cutover time, which it may
\* leave out when the marker is there already.
Measure(w) ==
    /\ pc[w] = "idle" /\ pc' = [pc EXCEPT ![w] = "waiting"]
    /\ revision(marker) < MaxRevision
    /\ expected' = [expected EXCEPT ![w] = marker]
    /\ \E t \in Time \cup {Unset} : asked' = [asked EXCEPT ![w] = t]
    /\ UNCHANGED <<marker, lock, now, sessionVars>>

TakeLock(w) ==
    /\ pc[w] = "waiting" /\ pc' = [pc EXCEPT ![w] = "locked"]
    /\ lock = NoWriter /\ lock' = w
    /\ UNCHANGED <<marker, expected, asked, now, sessionVars>>

Forget(w) ==
    /\ pc' = [pc EXCEPT ![w] = "idle"]
    /\ expected' = [expected EXCEPT ![w] = Unset]
    /\ asked' = [asked EXCEPT ![w] = Unset]
    /\ UNCHANGED <<now, sessionVars>>

TimeOut(w) ==
    /\ pc[w] = "waiting" /\ lock # NoWriter
    /\ Forget(w)
    /\ UNCHANGED <<marker, lock>>

\* Mutant: the marker measured is not compared.
AcceptedAnyRevision(w) ==
    IF marker = Unset THEN asked[w] # Unset ELSE asked[w] \in {Unset, marker.at}

\* The marker is the one measured, and its cutover time is given once only.
Accepted(w) ==
    /\ marker = expected[w]
    /\ IF marker = Unset THEN asked[w] # Unset ELSE asked[w] \in {Unset, marker.at}

RefuseMarker(w) ==
    /\ pc[w] = "locked" /\ ~Accepted(w)
    /\ Forget(w)
    /\ lock' = NoWriter
    /\ UNCHANGED marker

AcceptMarker(w) ==
    /\ pc[w] = "locked" /\ pc' = [pc EXCEPT ![w] = "writing"]
    /\ Accepted(w)
    /\ UNCHANGED <<marker, lock, expected, asked, now, sessionVars>>

\* Mutant: an advance without a time takes the clock.
NextMarkerAsAsked(w) ==
    [revision |-> revision(expected[w]) + 1,
     at |-> IF asked[w] = Unset THEN now ELSE asked[w],
     evidence |-> w]

\* Mutant: an advance does not copy the cutover time.
NextMarkerUncopied(w) ==
    [revision |-> revision(expected[w]) + 1, at |-> asked[w], evidence |-> w]

NextMarker(w) ==
    [revision |-> revision(expected[w]) + 1,
     at |-> IF expected[w] = Unset THEN asked[w] ELSE expected[w].at,
     evidence |-> w]

\* The replacement succeeds, or fails and leaves the file.  The readback, the
\* unlinking of the lock file and the return follow.
WriteMarker(w) ==
    /\ pc[w] = "writing" /\ pc' = [pc EXCEPT ![w] = "written"]
    /\ marker' = NextMarker(w)
    /\ UNCHANGED <<lock, expected, asked, now, sessionVars>>

WriteFails(w) ==
    /\ pc[w] = "writing" /\ pc' = [pc EXCEPT ![w] = "failed"]
    /\ UNCHANGED <<marker, lock, expected, asked, now, sessionVars>>

ReleaseLock(w) ==
    /\ pc[w] \in {"written", "failed"}
    /\ Forget(w)
    /\ lock' = NoWriter
    /\ UNCHANGED marker

\* A writer is killed and its lock file stays, until an operator removes it.
Kill(w) ==
    /\ pc[w] # "idle"
    /\ Forget(w)
    /\ lock' = IF lock = w THEN Dead ELSE lock
    /\ UNCHANGED marker

ClearLock ==
    /\ lock = Dead /\ lock' = NoWriter
    /\ UNCHANGED <<marker, pc, expected, asked, now, sessionVars>>
----------------------------------------------------------------------------
\* The sessions.

StartSession(s) ==
    /\ started[s] = Unset
    /\ started' = [started EXCEPT ![s] = now]
    /\ bare' = IF marker = Unset THEN bare \cup {s} ELSE bare
    /\ seen' = [seen EXCEPT ![s] = marker]
    /\ UNCHANGED <<markerVars, now, decisions>>

\* read_cutover_marker, before a derivation.
Observe(s) ==
    /\ started[s] # Unset /\ seen[s] # marker
    /\ seen' = [seen EXCEPT ![s] = marker]
    /\ UNCHANGED <<markerVars, now, started, bare, decisions>>

Derived(s, stage, mode) ==
    /\ Cardinality(decisions) < MaxDecisions
    /\ decisions' = decisions \cup
                    {[session |-> s, stage |-> stage, seen |-> seen[s], mode |-> mode]}
    /\ UNCHANGED <<markerVars, now, started, bare, seen>>

\* Mutant: the start of the session is not compared with the cutover.
EnrolledModesAtAnyStart(s) ==
    IF seen[s] = Unset THEN {"pre_cutover_json_authority"}
    ELSE {"blocked_authority_transition", "post_cutover_buzz_authority",
          "post_cutover_fallback_evidence"}

\* The modes an initial enrollment may end in, over transition health and Buzz
\* readiness.  A session older than the cutover it observes gets none.
EnrolledModes(s) ==
    IF seen[s] = Unset THEN {"pre_cutover_json_authority"}
    ELSE IF started[s] < seen[s].at THEN {}
    ELSE {"blocked_authority_transition", "post_cutover_buzz_authority",
          "post_cutover_fallback_evidence"}

Enroll(s) ==
    /\ started[s] # Unset
    /\ \E mode \in EnrolledModes(s) : Derived(s, "initial_enrollment", mode)

\* A continuation keeps the mode and the sink of the original decision.
Continue(s) ==
    \E d \in decisions : d.session = s /\ Derived(s, "continuation", d.mode)

Tick ==
    /\ now < MaxTime /\ now' = now + 1
    /\ UNCHANGED <<markerVars, sessionVars>>

WriterStep(w) ==
    \/ Measure(w) \/ TakeLock(w) \/ TimeOut(w) \/ RefuseMarker(w) \/ AcceptMarker(w)
    \/ WriteMarker(w) \/ WriteFails(w) \/ ReleaseLock(w) \/ Kill(w)

SessionStep(s) ==
    \/ StartSession(s) \/ Observe(s) \/ Enroll(s) \/ Continue(s)

AuthorityNext ==
    \/ \E w \in Writers : WriterStep(w)
    \/ \E s \in Sessions : SessionStep(s)
    \/ ClearLock
    \/ Tick

AuthoritySpec == AuthorityInit /\ [][AuthorityNext]_authorityVars
----------------------------------------------------------------------------
\* Properties.

\* Type invariant.
AuthorityTypeOK ==
    /\ marker \in Observation
    /\ lock \in Writers \cup {NoWriter, Dead}
    /\ pc \in [Writers -> {"idle", "waiting", "locked", "writing", "written", "failed"}]
    /\ expected \in [Writers -> Observation]
    /\ asked \in [Writers -> Time \cup {Unset}]
    /\ now \in Time
    /\ started \in [Sessions -> Time \cup {Unset}]
    /\ bare \subseteq Sessions
    /\ seen \in [Sessions -> Observation]
    /\ decisions \subseteq Decision

\* The cutover is one-way: a marker is never removed, its cutover time never
\* moves, and its revision goes up by one at a time.
CutoverOneWay ==
    [][marker # Unset /\ marker' # marker =>
          /\ marker' # Unset
          /\ marker'.at = marker.at
          /\ marker'.revision = marker.revision + 1]_marker

\* Compare and swap: whoever replaces the marker measured the one it replaces,
\* so that of two writers who measured the same marker one is refused.
NoLostAdvance ==
    [][\A w \in Writers :
          pc[w] = "writing" /\ pc'[w] = "written" => marker = expected[w]]_authorityVars
=============================================================================
