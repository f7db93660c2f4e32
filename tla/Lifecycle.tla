----------------------------- MODULE Lifecycle -----------------------------
(***************************************************************************)
(* The life of a Work Session across johan_sdd.sessions and                *)
(* johan_sdd.capture: its authority is derived from the cutover marker     *)
(* (Authority), its claim is registered under that decision, it generates  *)
(* captures bound to the claim, and captures are promoted to targets.      *)
(*                                                                         *)
(* The registry and promotion are the specifications they are shown to     *)
(* implement, Ownership and CaptureTarget: what holds here rests on what   *)
(* they promise and on nothing else.  The components share no lock, so     *)
(* their steps interleave freely.                                          *)
(***************************************************************************)
EXTENDS Authority

CONSTANTS
    Targets,     \* files that captures are promoted to
    SinkOf(_)    \* the sink a target is declared for

VARIABLES
    held, past, alive, \* the registry, see Ownership
    claim,             \* the decision each session was registered under
    captures,          \* the capture packets generated
    file, committed    \* the targets, see CaptureTarget

registryVars == <<held, past, alive>>
captureVars == <<claim, captures>>
targetVars == <<file, committed>>
vars == <<authorityVars, registryVars, captureVars, targetVars>>

\* The claim of a session.  All are for one worktree, and no owner is known to be
\* alive, so that any may be displaced.
Request(s) == [sid |-> s, agent |-> s]
Requests == {Request(s) : s \in Sessions \cup {Elsewhere}}
OneWorktree(p, q) == TRUE
Active(q) == TRUE

Registry == INSTANCE Ownership WITH
    Proposals <- Requests, Agents <- {}, Clash <- OneWorktree, Holds <- Active

\* A packet names its session and digests the decision.
Packet == [session : Sessions, decision : Decision]

Permitted(c, f) ==
    /\ SinkOf(f) = Sink(c.decision.mode)
    /\ SinkOf(f) # "none"

Target == INSTANCE CaptureTarget WITH
    Files <- Targets, Captures <- Packet, Contents <- {}, Absent <- Unset, held <- file

Init ==
    /\ AuthorityInit
    /\ Registry!Init
    /\ claim = [s \in Sessions |-> Unset]
    /\ captures = {}
    /\ file = [f \in Targets |-> Unset] /\ committed = {}
----------------------------------------------------------------------------
\* open_work_session records the decision it is given; that the decision is of
\* this session is not asked.
Open(s) ==
    /\ started[s] # Unset
    /\ \E lapsed \in SUBSET held : Registry!Take(Request(s), lapsed)
    /\ \E d \in decisions \cup Foreign : claim' = [claim EXCEPT ![s] = d]
    /\ UNCHANGED <<authorityVars, captures, targetVars>>

\* A session is closed, or another session takes the worktree.
Leave ==
    /\ \/ \E q \in held : Registry!End(q)
       \/ \E lapsed \in SUBSET held : Registry!Take(Request(Elsewhere), lapsed)
    /\ UNCHANGED <<authorityVars, captureVars, targetVars>>

\* Mutant: a decision of the session will do, whichever it was registered under.
BoundToSession(s, d) == d.session = s /\ claim[s] # Unset

\* What generate_capture_packet asks of the claim and the decision.
Bound(s, d) == d.session = s /\ claim[s] = d

\* The claim is a document the caller holds: that it was closed or taken over
\* since is not asked.
Capture(s) ==
    \E d \in decisions \cup Foreign :
       /\ Bound(s, d)
       /\ captures' = captures \cup {[session |-> s, decision |-> d]}
       /\ UNCHANGED <<authorityVars, registryVars, claim, targetVars>>

Promote ==
    /\ \E f \in Targets :
          \/ \E c \in captures : Target!Place(f, c)
          \/ Target!TakeBack(f)
          \/ Target!Commit(f)
    /\ UNCHANGED <<authorityVars, registryVars, captureVars>>

Next ==
    \/ AuthorityNext /\ UNCHANGED <<registryVars, captureVars, targetVars>>
    \/ \E s \in Sessions : Open(s) \/ Capture(s)
    \/ Leave
    \/ Promote

Spec == Init /\ [][Next]_vars
----------------------------------------------------------------------------
\* Properties.

\* Type invariant.
TypeOK ==
    /\ AuthorityTypeOK
    /\ held \subseteq Requests
    /\ past \subseteq Sessions \cup {Elsewhere}
    /\ alive = {}
    /\ claim \in [Sessions -> Decision \cup {Unset}]
    /\ captures \subseteq Packet
    /\ file \in [Targets -> Packet \cup {Unset}]
    /\ committed \subseteq Targets \X Packet

\* One session leaves its captures in one sink, whatever the marker did between
\* its derivations: no part of its record is on either side of the cutover.
SessionKeepsSink ==
    \A f, g \in Targets :
       (file[f] # Unset /\ file[g] # Unset /\ file[f].session = file[g].session)
          => SinkOf(f) = SinkOf(g)

\* A capture is found on the side of the cutover its session started on: a JSON
\* artifact is of a session that began before there was a marker; in every other
\* target the session began at or after the cutover.
SinkFitsStart ==
    \A f \in Targets : file[f] # Unset =>
       LET s == file[f].session IN
       IF SinkOf(f) = "session_artifact_v1" THEN s \in bare
       ELSE marker # Unset /\ marker.at <= started[s]
=============================================================================
