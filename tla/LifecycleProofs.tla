-------------------------- MODULE LifecycleProofs --------------------------
(***************************************************************************)
(* Proofs about Authority and about Lifecycle, which composes it with what *)
(* the registry and promotion promise, for every set of writers, sessions  *)
(* and targets and every bound.                                            *)
(***************************************************************************)
EXTENDS Lifecycle, TLAPS

\* The marker's lock file names the one writer that is past it.
Critical == {"locked", "writing", "written", "failed"}
LockInv == \A w \in Writers : lock = w <=> pc[w] \in Critical

\* A writer that is about to replace the marker measured the one that is there.
WriterInv ==
    \A w \in Writers :
        /\ pc[w] \in {"waiting", "locked", "writing"} => revision(expected[w]) < MaxRevision
        /\ pc[w] = "writing" => Accepted(w)

\* The inductive invariant of the marker.
MarkerInv == AuthorityTypeOK /\ LockInv /\ WriterInv
----------------------------------------------------------------------------
LEMMA MarkerInit == AuthorityInit => MarkerInv
<1> SUFFICES ASSUME AuthorityInit PROVE MarkerInv
  OBVIOUS
<1>1. AuthorityTypeOK
  BY AuthorityAssumption DEF AuthorityInit, AuthorityTypeOK, Observation, Time
<1>2. LockInv /\ WriterInv
  BY AuthorityAssumption DEF AuthorityInit, LockInv, WriterInv, Critical
<1>3. QED
  BY <1>1, <1>2 DEF MarkerInv

\* What replaces the marker is the next marker of the same cutover.
LEMMA NextMarkerType ==
    ASSUME MarkerInv, NEW w \in Writers, pc[w] = "writing"
    PROVE  /\ NextMarker(w) \in Marker
           /\ marker = expected[w]
           /\ NextMarker(w).revision = revision(marker) + 1
           /\ marker # Unset => NextMarker(w).at = marker.at
<1>1. /\ Accepted(w) /\ revision(expected[w]) < MaxRevision
      /\ marker = expected[w] /\ marker \in Observation
      /\ asked[w] \in Time \cup {Unset}
  BY DEF MarkerInv, WriterInv, AuthorityTypeOK, Accepted
<1>2. CASE marker = Unset
  <2>1. asked[w] \in Time
    BY <1>1, <1>2 DEF Accepted
  <2>2. QED
    BY <1>1, <1>2, <2>1, AuthorityAssumption DEF NextMarker, Marker, revision
<1>3. CASE marker # Unset
  <2>1. marker \in Marker
    BY <1>1, <1>3 DEF Observation
  <2>2. QED
    BY <1>1, <1>3, <2>1, AuthorityAssumption DEF NextMarker, Marker, revision
<1>4. QED
  BY <1>2, <1>3

\* A writer that leaves: refused, done, timed out or killed.
LEMMA ForgetStep ==
    ASSUME MarkerInv, NEW w \in Writers, Forget(w), UNCHANGED marker,
           lock' \in Writers \cup {NoWriter, Dead}, lock' # w,
           \A v \in Writers : v # w => (lock' = v <=> lock = v)
    PROVE  MarkerInv'
<1>1. \A v \in Writers :
        /\ pc'[v] = IF v = w THEN "idle" ELSE pc[v]
        /\ expected'[v] = IF v = w THEN Unset ELSE expected[v]
        /\ asked'[v] = IF v = w THEN Unset ELSE asked[v]
  BY DEF Forget, MarkerInv, AuthorityTypeOK
<1>2. AuthorityTypeOK'
  <2>1. Unset \in Observation
    BY DEF Observation
  <2>2. expected' \in [Writers -> Observation] /\ asked' \in [Writers -> Time \cup {Unset}]
    BY <2>1 DEF Forget, MarkerInv, AuthorityTypeOK
  <2>3. pc' \in [Writers -> {"idle", "waiting", "locked", "writing", "written", "failed"}]
    BY DEF Forget, MarkerInv, AuthorityTypeOK
  <2>4. QED
    BY <2>2, <2>3 DEF Forget, MarkerInv, AuthorityTypeOK, sessionVars
<1>3. LockInv'
  BY <1>1 DEF MarkerInv, LockInv, Critical
<1>4. WriterInv'
  BY <1>1 DEF MarkerInv, WriterInv, Accepted, revision
<1>5. QED
  BY <1>2, <1>3, <1>4 DEF MarkerInv

LEMMA WriterInvStep ==
    ASSUME MarkerInv, NEW w \in Writers, WriterStep(w)
    PROVE  MarkerInv'
<1>0. AuthorityTypeOK /\ LockInv /\ WriterInv
  BY DEF MarkerInv
<1>1. CASE Measure(w)
  <2> USE DEF Measure, sessionVars
  <2>1. \A v \in Writers :
          /\ pc'[v] = IF v = w THEN "waiting" ELSE pc[v]
          /\ expected'[v] = IF v = w THEN marker ELSE expected[v]
          /\ v # w => asked'[v] = asked[v]
    BY <1>0, <1>1 DEF AuthorityTypeOK
  <2>2. AuthorityTypeOK'
    <3>1. asked' \in [Writers -> Time \cup {Unset}]
      BY <1>0, <1>1 DEF AuthorityTypeOK
    <3>2. expected' \in [Writers -> Observation]
      BY <1>0, <1>1 DEF AuthorityTypeOK
    <3>3. pc' \in [Writers -> {"idle", "waiting", "locked", "writing", "written", "failed"}]
      BY <1>0, <1>1 DEF AuthorityTypeOK
    <3>4. QED
      BY <1>0, <1>1, <3>1, <3>2, <3>3 DEF AuthorityTypeOK
  <2>3. LockInv'
    BY <1>0, <1>1, <2>1 DEF LockInv, Critical
  <2>4. WriterInv'
    BY <1>0, <1>1, <2>1 DEF WriterInv, Accepted, revision
  <2>5. QED
    BY <2>2, <2>3, <2>4 DEF MarkerInv
<1>2. CASE TakeLock(w)
  <2> USE DEF TakeLock, sessionVars
  <2>1. \A v \in Writers : pc'[v] = IF v = w THEN "locked" ELSE pc[v]
    BY <1>0, <1>2 DEF AuthorityTypeOK
  <2>2. AuthorityTypeOK'
    BY <1>0, <1>2 DEF AuthorityTypeOK
  <2>3. LockInv'
    BY <1>0, <1>2, <2>1, AuthorityAssumption DEF LockInv, Critical
  <2>4. WriterInv'
    BY <1>0, <1>2, <2>1 DEF WriterInv, Accepted, revision
  <2>5. QED
    BY <2>2, <2>3, <2>4 DEF MarkerInv
<1>3. CASE AcceptMarker(w)
  <2> USE DEF AcceptMarker, sessionVars
  <2>1. \A v \in Writers : pc'[v] = IF v = w THEN "writing" ELSE pc[v]
    BY <1>0, <1>3 DEF AuthorityTypeOK
  <2>2. AuthorityTypeOK'
    BY <1>0, <1>3 DEF AuthorityTypeOK
  <2>3. LockInv'
    BY <1>0, <1>3, <2>1 DEF LockInv, Critical
  <2>4. WriterInv'
    BY <1>0, <1>3, <2>1 DEF WriterInv, Accepted, revision
  <2>5. QED
    BY <2>2, <2>3, <2>4 DEF MarkerInv
<1>4. CASE WriteMarker(w)
  <2> USE DEF WriteMarker, sessionVars
  <2>1. \A v \in Writers : pc'[v] = IF v = w THEN "written" ELSE pc[v]
    BY <1>0, <1>4 DEF AuthorityTypeOK
  <2>2. marker' \in Observation
    BY <1>4, NextMarkerType DEF Observation
  <2>3. AuthorityTypeOK'
    BY <1>0, <1>4, <2>2 DEF AuthorityTypeOK
  <2>4. LockInv'
    BY <1>0, <1>4, <2>1 DEF LockInv, Critical
  <2>5. \A v \in Writers : pc'[v] # "writing"
    BY <1>0, <1>4, <2>1 DEF LockInv, Critical
  <2>6. WriterInv'
    BY <1>0, <1>4, <2>1, <2>5 DEF WriterInv, revision
  <2>7. QED
    BY <2>3, <2>4, <2>6 DEF MarkerInv
<1>5. CASE WriteFails(w)
  <2> USE DEF WriteFails, sessionVars
  <2>1. \A v \in Writers : pc'[v] = IF v = w THEN "failed" ELSE pc[v]
    BY <1>0, <1>5 DEF AuthorityTypeOK
  <2>2. AuthorityTypeOK'
    BY <1>0, <1>5 DEF AuthorityTypeOK
  <2>3. LockInv' /\ WriterInv'
    BY <1>0, <1>5, <2>1 DEF LockInv, Critical, WriterInv, Accepted, revision
  <2>4. QED
    BY <2>2, <2>3 DEF MarkerInv
<1>6. CASE TimeOut(w)
  <2>1. lock # w
    BY <1>0, <1>6 DEF TimeOut, LockInv, Critical
  <2>2. QED
    BY <1>0, <1>6, <2>1, ForgetStep DEF TimeOut, AuthorityTypeOK
<1>7. CASE RefuseMarker(w) \/ ReleaseLock(w)
  <2>1. lock = w
    BY <1>0, <1>7 DEF RefuseMarker, ReleaseLock, LockInv, Critical
  <2>2. QED
    BY <1>7, <2>1, ForgetStep, AuthorityAssumption DEF RefuseMarker, ReleaseLock
<1>8. CASE Kill(w)
  BY <1>0, <1>8, ForgetStep, AuthorityAssumption DEF Kill, AuthorityTypeOK
<1>9. QED
  BY <1>1, <1>2, <1>3, <1>4, <1>5, <1>6, <1>7, <1>8 DEF WriterStep

\* Sessions do not touch the marker, and derive decisions of the registered form.
LEMMA SessionInvStep ==
    ASSUME MarkerInv, NEW s \in Sessions, SessionStep(s)
    PROVE  MarkerInv'
<1>0. AuthorityTypeOK
  BY DEF MarkerInv
<1>1. UNCHANGED <<marker, lock, pc, expected, asked, now>>
  BY DEF SessionStep, StartSession, Observe, Enroll, Continue, Derived, markerVars
<1>2. /\ started' \in [Sessions -> Time \cup {Unset}]
      /\ bare' \subseteq Sessions
      /\ seen' \in [Sessions -> Observation]
  BY <1>0 DEF SessionStep, StartSession, Observe, Enroll, Continue, Derived, AuthorityTypeOK
<1>3. decisions' \subseteq Decision
  <2>1. CASE \E stage \in {"initial_enrollment", "continuation"}, mode \in Modes :
                Derived(s, stage, mode)
    BY <1>0, <2>1 DEF Derived, Decision, AuthorityTypeOK
  <2>2. CASE Enroll(s)
    <3>1. EnrolledModes(s) \subseteq Modes
      BY DEF EnrolledModes, Modes
    <3>2. QED
      BY <2>1, <2>2, <3>1 DEF Enroll
  <2>3. CASE Continue(s)
    <3>1. \A d \in decisions : d.mode \in Modes
      BY <1>0 DEF AuthorityTypeOK, Decision
    <3>2. QED
      BY <2>1, <2>3, <3>1 DEF Continue
  <2>4. QED
    BY <1>0, <2>2, <2>3 DEF SessionStep, StartSession, Observe, AuthorityTypeOK
<1>4. AuthorityTypeOK'
  BY <1>0, <1>1, <1>2, <1>3 DEF AuthorityTypeOK
<1>5. LockInv' /\ WriterInv'
  BY <1>1 DEF MarkerInv, LockInv, WriterInv, Accepted, revision
<1>6. QED
  BY <1>4, <1>5 DEF MarkerInv

LEMMA MarkerNext == MarkerInv /\ [AuthorityNext]_authorityVars => MarkerInv'
<1> SUFFICES ASSUME MarkerInv, [AuthorityNext]_authorityVars PROVE MarkerInv'
  OBVIOUS
<1>0. AuthorityTypeOK
  BY DEF MarkerInv
<1>1. CASE ClearLock
  <2>1. UNCHANGED <<marker, pc, expected, asked, now, sessionVars>>
    BY <1>1 DEF ClearLock
  <2>2. AuthorityTypeOK'
    BY <1>0, <1>1, <2>1 DEF ClearLock, AuthorityTypeOK, sessionVars
  <2>3. LockInv' /\ WriterInv'
    BY <1>1, <2>1, AuthorityAssumption
       DEF ClearLock, MarkerInv, LockInv, WriterInv, Accepted, revision
  <2>4. QED
    BY <2>2, <2>3 DEF MarkerInv
<1>2. CASE Tick
  <2>1. UNCHANGED <<markerVars, sessionVars>> /\ now' \in Time
    BY <1>0, <1>2, AuthorityAssumption DEF Tick, AuthorityTypeOK, Time
  <2>2. QED
    BY <1>0, <2>1 DEF markerVars, sessionVars, MarkerInv, AuthorityTypeOK, LockInv,
                      WriterInv, Accepted, revision
<1>3. CASE UNCHANGED authorityVars
  BY <1>3 DEF authorityVars, markerVars, sessionVars, MarkerInv, AuthorityTypeOK, LockInv,
              WriterInv, Accepted, revision
<1>4. QED
  BY <1>1, <1>2, <1>3, WriterInvStep, SessionInvStep DEF AuthorityNext

\* The marker's invariant holds throughout.
THEOREM MarkerInvariance == AuthoritySpec => []MarkerInv
<1>1. QED
  BY MarkerInit, MarkerNext, PTL DEF AuthoritySpec

\* The marker changes only when a writer replaces it.
LEMMA MarkerStep ==
    ASSUME MarkerInv, [AuthorityNext]_authorityVars
    PROVE  \/ marker' = marker
           \/ \E w \in Writers :
                 /\ pc[w] = "writing"
                 /\ marker' = NextMarker(w)
<1>1. ASSUME NEW w \in Writers, WriterStep(w), ~WriteMarker(w)
      PROVE  marker' = marker
  BY <1>1 DEF WriterStep, Measure, TakeLock, TimeOut, RefuseMarker, AcceptMarker,
              WriteFails, ReleaseLock, Kill
<1>2. ASSUME NEW s \in Sessions, SessionStep(s)
      PROVE  marker' = marker
  BY <1>2 DEF SessionStep, StartSession, Observe, Enroll, Continue, Derived, markerVars
<1>3. ClearLock \/ Tick \/ UNCHANGED authorityVars => marker' = marker
  BY DEF ClearLock, Tick, authorityVars, markerVars
<1>4. QED
  BY <1>1, <1>2, <1>3 DEF AuthorityNext, WriteMarker

\* A marker is replaced by the next one of the same cutover.
LEMMA OneWayStep ==
    ASSUME MarkerInv, [AuthorityNext]_authorityVars, marker # Unset
    PROVE  /\ marker' # Unset
           /\ marker'.at = marker.at
           /\ marker' # marker => marker'.revision = marker.revision + 1
<1>1. CASE marker' = marker
  BY <1>1
<1>2. CASE \E w \in Writers : pc[w] = "writing" /\ marker' = NextMarker(w)
  <2>1. PICK w \in Writers : pc[w] = "writing" /\ marker' = NextMarker(w)
    BY <1>2
  <2>2. /\ NextMarker(w) \in Marker
        /\ NextMarker(w).revision = marker.revision + 1
        /\ NextMarker(w).at = marker.at
    BY <2>1, NextMarkerType DEF revision
  <2>3. QED
    BY <2>1, <2>2, UnsetAssumption
<1>3. QED
  BY <1>1, <1>2, MarkerStep

\* write_cutover_marker never removes a marker, moves its cutover time or skips a
\* revision, whichever writers race, fail or are killed.
THEOREM OneWay == AuthoritySpec => CutoverOneWay
<1>1. MarkerInv /\ [AuthorityNext]_authorityVars =>
        [marker # Unset /\ marker' # marker =>
            /\ marker' # Unset
            /\ marker'.at = marker.at
            /\ marker'.revision = marker.revision + 1]_marker
  BY OneWayStep
<1>2. QED
  BY <1>1, MarkerInvariance, PTL DEF AuthoritySpec, CutoverOneWay

\* Of two writers that measured the same marker one is refused: the marker that is
\* replaced is the very one its writer measured.
THEOREM NoAdvanceLost == AuthoritySpec => NoLostAdvance
<1>1. MarkerInv /\ [AuthorityNext]_authorityVars =>
        [\A w \in Writers :
            pc[w] = "writing" /\ pc'[w] = "written" => marker = expected[w]]_authorityVars
  BY DEF MarkerInv, WriterInv, Accepted
<1>2. QED
  BY <1>1, MarkerInvariance, PTL DEF AuthoritySpec, NoLostAdvance
----------------------------------------------------------------------------
\* What the registry, the captures and the targets do leaves the authority alone.
LEMMA AuthorityPart ==
    ASSUME [Next]_vars
    PROVE  [AuthorityNext]_authorityVars
BY DEF Next, vars, Open, Capture, Leave, Promote

\* Every behaviour of Lifecycle is one of Authority, seen through its variables.
THEOREM ImplementsAuthority == Spec => AuthoritySpec
<1>1. Init => AuthorityInit
  BY DEF Init
<1>2. [Next]_vars => [AuthorityNext]_authorityVars
  BY AuthorityPart
<1>3. QED
  BY <1>1, <1>2, PTL DEF Spec, AuthoritySpec

\* So the cutover is one-way in Lifecycle as well.
THEOREM LifecycleOneWay == Spec => CutoverOneWay
BY ImplementsAuthority, OneWay

\* And no advance of the marker is lost there.
THEOREM LifecycleNoAdvanceLost == Spec => NoLostAdvance
BY ImplementsAuthority, NoAdvanceLost
----------------------------------------------------------------------------
\* What a session's driver saw was so, and its decisions are what it saw: JSON
\* only for sessions older than every marker, the rest for sessions of the cutover.

SeenInv ==
    \A s \in Sessions : started[s] # Unset =>
        IF seen[s] = Unset THEN s \in bare
        ELSE marker # Unset /\ marker.at = seen[s].at

Fits(s, mode) ==
    /\ started[s] # Unset
    /\ IF mode = "pre_cutover_json_authority" THEN s \in bare
       ELSE marker # Unset /\ marker.at <= started[s]

DecisionInv == \A d \in decisions : d.session \in Sessions /\ Fits(d.session, d.mode)

\* A session is claimed once, so its captures share the decision of its claim.
ClaimInv == \A s \in Sessions : claim[s] # Unset => s \in past \cup Registry!Ids(held)

CaptureInv ==
    \A c \in captures :
        /\ c.decision \in decisions /\ c.decision.session = c.session
        /\ claim[c.session] = c.decision

FileInv ==
    \A f \in Targets : file[f] # Unset => file[f] \in captures /\ Permitted(file[f], f)

\* The inductive invariant.
IInv ==
    /\ MarkerInv /\ TypeOK
    /\ SeenInv /\ DecisionInv
    /\ ClaimInv /\ CaptureInv /\ FileInv

LEMMA InitInv == Init => IInv
<1> SUFFICES ASSUME Init PROVE IInv
  OBVIOUS
<1>1. MarkerInv
  BY MarkerInit DEF Init
<1>2. held = {} /\ past = {} /\ alive = {}
  BY DEF Init, Registry!Init
<1>3. TypeOK
  BY <1>1, <1>2 DEF Init, TypeOK, MarkerInv
<1>4. SeenInv /\ DecisionInv
  BY DEF Init, AuthorityInit, SeenInv, DecisionInv
<1>5. ClaimInv /\ CaptureInv /\ FileInv
  BY DEF Init, ClaimInv, CaptureInv, FileInv
<1>6. QED
  BY <1>1, <1>3, <1>4, <1>5 DEF IInv

\* The marker moves on, sessions start, look and derive: what was derived still fits.
LEMMA AuthorityStep ==
    ASSUME IInv, [AuthorityNext]_authorityVars,
           UNCHANGED <<registryVars, captureVars, targetVars>>
    PROVE  IInv'
<1>0. MarkerInv /\ MarkerInv' /\ AuthorityTypeOK /\ AuthorityTypeOK'
  BY MarkerNext DEF IInv, MarkerInv
<1>1. TypeOK'
  BY <1>0 DEF IInv, TypeOK, registryVars, captureVars, targetVars
<1>2. marker # Unset => marker' # Unset /\ marker'.at = marker.at
  BY <1>0, OneWayStep
<1>3. \/ UNCHANGED sessionVars
      \/ \E s \in Sessions : SessionStep(s) /\ UNCHANGED marker
  <2>1. ASSUME NEW s \in Sessions, SessionStep(s)
        PROVE  UNCHANGED marker
    BY <2>1 DEF SessionStep, StartSession, Observe, Enroll, Continue, Derived, markerVars
  <2>2. ASSUME NEW w \in Writers, WriterStep(w)
        PROVE  UNCHANGED sessionVars
    BY <2>2 DEF WriterStep, Measure, TakeLock, TimeOut, RefuseMarker, AcceptMarker,
                WriteMarker, WriteFails, ReleaseLock, Kill, Forget
  <2>3. ClearLock \/ Tick \/ UNCHANGED authorityVars => UNCHANGED sessionVars
    BY DEF ClearLock, Tick, authorityVars
  <2>4. QED
    BY <2>1, <2>2, <2>3 DEF AuthorityNext
<1>4. CASE UNCHANGED sessionVars
  <2>1. SeenInv'
    BY <1>2, <1>4 DEF IInv, SeenInv, sessionVars
  <2>2. DecisionInv'
    BY <1>2, <1>4 DEF IInv, DecisionInv, Fits, sessionVars
  <2>3. ClaimInv' /\ CaptureInv' /\ FileInv'
    BY <1>4 DEF IInv, ClaimInv, CaptureInv, FileInv, Permitted, Registry!Ids, sessionVars,
                registryVars, captureVars, targetVars
  <2>4. QED
    BY <1>0, <1>1, <2>1, <2>2, <2>3 DEF IInv
<1>5. ASSUME NEW s \in Sessions, SessionStep(s), UNCHANGED marker
      PROVE  IInv'
  <2>1. now \in Nat /\ now # Unset
    BY <1>0, AuthorityAssumption DEF AuthorityTypeOK, Time
  <2>2. decisions \subseteq decisions'
    BY <1>5 DEF SessionStep, StartSession, Observe, Enroll, Continue, Derived
  <2>3. CASE StartSession(s)
    <3>1. \A t \in Sessions :
            /\ started'[t] = IF t = s THEN now ELSE started[t]
            /\ seen'[t] = IF t = s THEN marker ELSE seen[t]
      BY <1>0, <2>3 DEF StartSession, AuthorityTypeOK
    <3>2. bare \subseteq bare' /\ (marker = Unset => s \in bare')
      BY <2>3 DEF StartSession
    <3>3. SeenInv'
      BY <1>5, <3>1, <3>2 DEF IInv, SeenInv
    <3>4. DecisionInv'
      BY <1>5, <2>3, <3>1, <3>2 DEF StartSession, IInv, DecisionInv, Fits
    <3>5. QED
      BY <1>0, <1>1, <2>2, <3>3, <3>4 DEF IInv, ClaimInv, CaptureInv, FileInv, Permitted,
         Registry!Ids, registryVars, captureVars, targetVars
  <2>4. CASE Observe(s)
    <3>1. /\ UNCHANGED <<started, bare, decisions>>
          /\ \A t \in Sessions : seen'[t] = IF t = s THEN marker ELSE seen[t]
      BY <1>0, <2>4 DEF Observe, AuthorityTypeOK
    <3>2. SeenInv'
      BY <1>5, <2>4, <3>1 DEF Observe, IInv, SeenInv
    <3>3. DecisionInv'
      BY <1>5, <3>1 DEF IInv, DecisionInv, Fits
    <3>4. QED
      BY <1>0, <1>1, <2>2, <3>2, <3>3 DEF IInv, ClaimInv, CaptureInv, FileInv, Permitted,
         Registry!Ids, registryVars, captureVars, targetVars
  <2>5. CASE Enroll(s) \/ Continue(s)
    <3>1. PICK d : /\ decisions' = decisions \cup {d}
                   /\ d.session = s /\ Fits(s, d.mode)
                   /\ UNCHANGED <<started, bare, seen>>
      <4>1. CASE Enroll(s)
        <5>1. PICK mode \in EnrolledModes(s) : Derived(s, "initial_enrollment", mode)
          BY <4>1 DEF Enroll
        <5>2. started[s] # Unset /\ started[s] \in Nat
          BY <1>0, <4>1, AuthorityAssumption DEF Enroll, AuthorityTypeOK, Time
        <5>3. Fits(s, mode)
          <6>1. CASE seen[s] = Unset
            BY <5>1, <5>2, <6>1 DEF Fits, EnrolledModes, IInv, SeenInv
          <6>2. CASE seen[s] # Unset
            <7>1. mode # "pre_cutover_json_authority" /\ ~(started[s] < seen[s].at)
              BY <5>1, <6>2 DEF EnrolledModes
            <7>2. marker # Unset /\ marker.at = seen[s].at
              BY <5>2, <6>2 DEF IInv, SeenInv
            <7>3. marker.at \in Nat
              BY <1>0, <7>2, AuthorityAssumption
                 DEF AuthorityTypeOK, Observation, Marker, Time
            <7>4. QED
              BY <5>2, <7>1, <7>2, <7>3 DEF Fits
          <6>3. QED
            BY <6>1, <6>2
        <5> DEFINE d == [session |-> s, stage |-> "initial_enrollment",
                         seen |-> seen[s], mode |-> mode]
        <5>4. d.session = s /\ d.mode = mode
          OBVIOUS
        <5>5. decisions' = decisions \cup {d} /\ UNCHANGED <<started, bare, seen>>
          BY <5>1 DEF Derived
        <5> HIDE DEF d
        <5>6. QED
          BY <5>3, <5>4, <5>5
      <4>2. CASE Continue(s)
        <5>1. PICK e \in decisions : e.session = s /\ Derived(s, "continuation", e.mode)
          BY <4>2 DEF Continue
        <5>2. Fits(s, e.mode)
          BY <5>1 DEF IInv, DecisionInv
        <5> DEFINE d == [session |-> s, stage |-> "continuation",
                         seen |-> seen[s], mode |-> e.mode]
        <5>3. d.session = s /\ d.mode = e.mode
          OBVIOUS
        <5>4. decisions' = decisions \cup {d} /\ UNCHANGED <<started, bare, seen>>
          BY <5>1 DEF Derived
        <5> HIDE DEF d
        <5>5. QED
          BY <5>2, <5>3, <5>4
      <4>3. QED
        BY <2>5, <4>1, <4>2
    <3>2. SeenInv'
      BY <1>5, <3>1 DEF IInv, SeenInv
    <3>3. DecisionInv'
      BY <1>5, <3>1 DEF IInv, DecisionInv, Fits
    <3>4. QED
      BY <1>0, <1>1, <2>2, <3>2, <3>3 DEF IInv, ClaimInv, CaptureInv, FileInv, Permitted,
         Registry!Ids, registryVars, captureVars, targetVars
  <2>6. QED
    BY <1>5, <2>3, <2>4, <2>5 DEF SessionStep
<1>6. QED
  BY <1>3, <1>4, <1>5

\* The ids of the registry's sessions are never forgotten.
LEMMA IdsGrow ==
    ASSUME \/ \E q \in held : Registry!End(q)
           \/ \E q, lapsed : Registry!Take(q, lapsed)
    PROVE  past \cup Registry!Ids(held) \subseteq (past \cup Registry!Ids(held))'
<1>1. CASE \E q \in held : Registry!End(q)
  <2>1. PICK q \in held : held' = held \ {q} /\ past' = past \cup {q.sid}
    BY <1>1 DEF Registry!End
  <2>2. Registry!Ids(held) \subseteq past' \cup Registry!Ids(held')
    BY <2>1 DEF Registry!Ids
  <2>3. Registry!Ids(held)' = Registry!Ids(held')
    BY DEF Registry!Ids
  <2>4. QED
    BY <2>1, <2>2, <2>3
<1>2. CASE \E q, lapsed : Registry!Take(q, lapsed)
  <2>1. PICK q, lapsed :
          /\ lapsed \subseteq held
          /\ held' = (held \ lapsed) \cup {q}
          /\ past \cup Registry!Ids(lapsed) \subseteq past'
    BY <1>2 DEF Registry!Take, Active
  <2>2. Registry!Ids(held) \subseteq past' \cup Registry!Ids(held')
    BY <2>1 DEF Registry!Ids
  <2>3. Registry!Ids(held)' = Registry!Ids(held')
    BY DEF Registry!Ids
  <2>4. QED
    BY <2>1, <2>2, <2>3
<1>3. QED
  BY <1>1, <1>2

\* What the registry does keeps its part of the types.
LEMMA RegistryTypes ==
    ASSUME TypeOK,
           \/ \E q \in held : Registry!End(q)
           \/ \E s \in Sessions \cup {Elsewhere}, lapsed \in SUBSET held :
                 Registry!Take(Request(s), lapsed)
    PROVE  /\ held' \subseteq Requests /\ alive' = {}
           /\ past' \subseteq Sessions \cup {Elsewhere}
<1>1. \A q \in Requests : q.sid \in Sessions \cup {Elsewhere}
  BY DEF Requests, Request
<1>2. CASE \E q \in held : Registry!End(q)
  BY <1>1, <1>2 DEF Registry!End, TypeOK
<1>3. CASE \E s \in Sessions \cup {Elsewhere}, lapsed \in SUBSET held :
             Registry!Take(Request(s), lapsed)
  <2>1. PICK s \in Sessions \cup {Elsewhere}, lapsed \in SUBSET held :
          /\ lapsed \subseteq held
          /\ held' = (held \ lapsed) \cup {Request(s)}
          /\ past' = past \cup Registry!Ids(lapsed) \cup {}
          /\ alive' = alive
    BY <1>3 DEF Registry!Take, Active
  <2>2. Request(s) \in Requests
    BY DEF Requests
  <2>3. QED
    BY <1>1, <2>1, <2>2 DEF TypeOK, Registry!Ids
<1>4. QED
  BY <1>2, <1>3

LEMMA AuthorityStays ==
    ASSUME IInv, UNCHANGED authorityVars
    PROVE  MarkerInv' /\ AuthorityTypeOK' /\ SeenInv' /\ DecisionInv'
<1>1. MarkerInv'
  BY MarkerNext DEF IInv
<1>2. SeenInv' /\ DecisionInv'
  BY DEF IInv, SeenInv, DecisionInv, Fits, authorityVars, markerVars, sessionVars
<1>3. QED
  BY <1>1, <1>2 DEF MarkerInv

LEMMA DecisionTypes ==
    ASSUME IInv
    PROVE  decisions \cup Foreign \subseteq Decision /\ Unset \notin decisions \cup Foreign
<1>1. Foreign \subseteq Decision
  BY DEF Foreign, Decision, Observation
<1>2. QED
  BY <1>1, UnsetAssumption DEF IInv, TypeOK, AuthorityTypeOK

LEMMA OpenStep ==
    ASSUME IInv, NEW s \in Sessions, Open(s)
    PROVE  IInv'
<1>1. PICK d \in decisions \cup Foreign :
        claim' = [claim EXCEPT ![s] = d] /\ d \in Decision /\ d # Unset
  BY DecisionTypes DEF Open
<1>2. PICK lapsed \in SUBSET held : Registry!Take(Request(s), lapsed)
  BY DEF Open
<1>3. UNCHANGED <<authorityVars, decisions, captures, targetVars>>
  BY DEF Open, authorityVars, sessionVars
<1>4. \A t \in Sessions : claim'[t] = IF t = s THEN d ELSE claim[t]
  BY <1>1 DEF IInv, TypeOK
<1>5. TypeOK'
  <2>1. claim' \in [Sessions -> Decision \cup {Unset}]
    BY <1>1 DEF IInv, TypeOK
  <2>2. held' \subseteq Requests /\ alive' = {} /\ past' \subseteq Sessions \cup {Elsewhere}
    BY <1>2, RegistryTypes DEF IInv
  <2>3. QED
    BY <1>3, <2>1, <2>2, AuthorityStays DEF IInv, TypeOK, targetVars
<1>6. Request(s).sid = s
  BY DEF Request
<1>7. s \in (past \cup Registry!Ids(held))'
  BY <1>2, <1>6 DEF Registry!Take, Registry!Ids, Active
<1>8. s \notin past \cup Registry!Ids(held)
  BY <1>2, <1>6 DEF Registry!Take
<1>9. ClaimInv'
  <2>1. past \cup Registry!Ids(held) \subseteq (past \cup Registry!Ids(held))'
    BY <1>2, IdsGrow
  <2>2. QED
    BY <1>4, <1>7, <2>1 DEF IInv, ClaimInv
<1>10. CaptureInv'
  <2> SUFFICES ASSUME NEW c \in captures
               PROVE  /\ c.decision \in decisions /\ c.decision.session = c.session
                      /\ claim'[c.session] = c.decision
    BY <1>3 DEF CaptureInv
  <2>1. /\ c.decision \in decisions /\ c.decision.session = c.session
        /\ claim[c.session] = c.decision /\ c.session \in Sessions
    BY DEF IInv, CaptureInv, TypeOK, Packet
  <2>2. c.session # s
    BY <1>8, <2>1, DecisionTypes DEF IInv, ClaimInv
  <2>3. QED
    BY <1>4, <2>1, <2>2
<1>11. FileInv'
  BY <1>3 DEF IInv, FileInv, Permitted, targetVars
<1>12. QED
  BY <1>3, <1>5, <1>9, <1>10, <1>11, AuthorityStays DEF IInv

LEMMA CaptureStep ==
    ASSUME IInv, NEW s \in Sessions, Capture(s)
    PROVE  IInv'
<1>1. PICK d \in decisions \cup Foreign :
        Bound(s, d) /\ captures' = captures \cup {[session |-> s, decision |-> d]}
  BY DEF Capture
<1>2. UNCHANGED <<authorityVars, registryVars, claim, targetVars, decisions>>
  BY DEF Capture, authorityVars, sessionVars
<1>3. d \in decisions
  <2>1. d \notin Foreign
    BY <1>1, AuthorityAssumption DEF Bound, Foreign
  <2>2. QED
    BY <1>1, <2>1
<1>4. TypeOK'
  <2>1. captures' \subseteq Packet
    BY <1>1, DecisionTypes DEF IInv, TypeOK, Packet
  <2>2. QED
    BY <1>2, <2>1, AuthorityStays DEF IInv, TypeOK, registryVars, targetVars
<1>5. ClaimInv'
  BY <1>2 DEF IInv, ClaimInv, Registry!Ids, registryVars
<1>6. CaptureInv'
  BY <1>1, <1>2, <1>3 DEF IInv, CaptureInv, Bound
<1>7. FileInv'
  BY <1>1, <1>2 DEF IInv, FileInv, Permitted, targetVars
<1>8. QED
  BY <1>2, <1>4, <1>5, <1>6, <1>7, AuthorityStays DEF IInv

LEMMA LeaveStep ==
    ASSUME IInv, Leave
    PROVE  IInv'
<1>1. \/ \E q \in held : Registry!End(q)
      \/ \E lapsed \in SUBSET held : Registry!Take(Request(Elsewhere), lapsed)
  BY DEF Leave
<1>2. UNCHANGED <<authorityVars, claim, captures, targetVars, decisions>>
  BY DEF Leave, authorityVars, sessionVars, captureVars
<1>3. TypeOK'
  BY <1>1, <1>2, RegistryTypes, AuthorityStays DEF IInv, TypeOK, targetVars
<1>4. ClaimInv'
  BY <1>1, <1>2, IdsGrow DEF IInv, ClaimInv
<1>5. CaptureInv' /\ FileInv'
  BY <1>2 DEF IInv, CaptureInv, FileInv, Permitted, targetVars
<1>6. QED
  BY <1>2, <1>3, <1>4, <1>5, AuthorityStays DEF IInv

LEMMA PromoteStep ==
    ASSUME IInv, Promote
    PROVE  IInv'
<1>1. UNCHANGED <<authorityVars, registryVars, claim, captures, decisions>>
  BY DEF Promote, authorityVars, sessionVars, captureVars
<1>2. PICK f \in Targets : \/ \E c \in captures : Target!Place(f, c)
                           \/ Target!TakeBack(f)
                           \/ Target!Commit(f)
  BY DEF Promote
<1>3. /\ \/ /\ file' = file
            /\ \/ committed' = committed
               \/ committed' = committed \cup {<<f, file[f]>>} /\ file[f] \in Packet
         \/ /\ \E c \in captures \cup {Unset} :
                  file' = [file EXCEPT ![f] = c] /\ (c # Unset => Permitted(c, f))
            /\ committed' = committed
  <2>1. CASE \E c \in captures : Target!Place(f, c)
    BY <2>1 DEF Target!Place
  <2>2. CASE Target!TakeBack(f)
    BY <2>2 DEF Target!TakeBack
  <2>3. CASE Target!Commit(f)
    BY <2>3 DEF Target!Commit
  <2>4. QED
    BY <1>2, <2>1, <2>2, <2>3
<1>4. TypeOK'
  <2>1. file' \in [Targets -> Packet \cup {Unset}] /\ committed' \subseteq Targets \X Packet
    BY <1>3 DEF IInv, TypeOK
  <2>2. QED
    BY <1>1, <2>1, AuthorityStays DEF IInv, TypeOK, registryVars
<1>5. FileInv'
  BY <1>1, <1>3 DEF IInv, TypeOK, FileInv, Permitted
<1>6. ClaimInv' /\ CaptureInv'
  BY <1>1 DEF IInv, ClaimInv, CaptureInv, Registry!Ids, registryVars
<1>7. QED
  BY <1>1, <1>4, <1>5, <1>6, AuthorityStays DEF IInv

LEMMA NextInv == IInv /\ [Next]_vars => IInv'
<1> SUFFICES ASSUME IInv, [Next]_vars PROVE IInv'
  OBVIOUS
<1>1. CASE AuthorityNext /\ UNCHANGED <<registryVars, captureVars, targetVars>>
  BY <1>1, AuthorityStep
<1>2. CASE UNCHANGED vars
  BY <1>2, AuthorityStep DEF vars
<1>3. QED
  BY <1>1, <1>2, OpenStep, CaptureStep, LeaveStep, PromoteStep DEF Next

\* The inductive invariant holds throughout.
THEOREM Invariance == Spec => []IInv
<1>1. QED
  BY InitInv, NextInv, PTL DEF Spec

\* Every variable keeps its type: the marker, the receipts, the claims and the
\* targets are what their schemas say, whoever races.
THEOREM TypeCorrect == Spec => []TypeOK
<1>1. IInv => TypeOK
  BY DEF IInv
<1>2. QED
  BY <1>1, Invariance, PTL

\* A session's captures end up in one sink (generate_capture_packet asks for the
\* decision of the claim, and a session is claimed once).
THEOREM OneSink == Spec => []SessionKeepsSink
<1>1. IInv => SessionKeepsSink
  BY DEF IInv, SessionKeepsSink, FileInv, CaptureInv, Permitted
<1>2. QED
  BY <1>1, Invariance, PTL

\* A capture is found on the side of the cutover that its session started on.
THEOREM SideOfCutover == Spec => []SinkFitsStart
<1>1. ASSUME IInv, NEW f \in Targets, file[f] # Unset
      PROVE  LET s == file[f].session IN
             IF SinkOf(f) = "session_artifact_v1" THEN s \in bare
             ELSE marker # Unset /\ marker.at <= started[s]
  <2>1. /\ file[f].decision \in decisions /\ file[f].decision.session = file[f].session
        /\ SinkOf(f) = Sink(file[f].decision.mode)
    BY <1>1 DEF IInv, FileInv, CaptureInv, Permitted
  <2>2. Fits(file[f].session, file[f].decision.mode)
    BY <1>1, <2>1 DEF IInv, DecisionInv
  <2>3. file[f].decision.mode \in Modes
    BY <1>1, <2>1 DEF IInv, TypeOK, AuthorityTypeOK, Decision
  <2>4. SinkOf(f) = "session_artifact_v1" <=>
          file[f].decision.mode = "pre_cutover_json_authority"
    BY <2>1, <2>3 DEF Sink, Modes
  <2>5. QED
    BY <2>2, <2>4 DEF Fits
<1>2. IInv => SinkFitsStart
  BY <1>1 DEF SinkFitsStart
<1>3. QED
  BY <1>2, Invariance, PTL
=============================================================================
