------------------------------ MODULE Evidence ------------------------------
(***************************************************************************)
(* johan_sdd.evidence: artifacts are built as work goes on, and at a       *)
(* lifecycle event a packet is built that cites some of them.  The         *)
(* builders keep nothing; the artifacts lie where the caller put them and  *)
(* are validated again when they are cited.                                *)
(*                                                                         *)
(* Abstractions.  A digest is the document.  A field of the wrong form is  *)
(* left out, but for an artifact that lost its form in the store.  One     *)
(* that was edited and kept its form is an artifact like any other.        *)
(***************************************************************************)
EXTENDS Naturals

CONSTANTS
    Events,         \* the lifecycle events a caller may name
    ArtifactKinds,
    ChangedPaths,   \* paths a caller may list as changed
    PortablePath(_),
    NoPacket,
    MaxCommits      \* bound: the branch moves no further

ASSUME EvidenceAssumption == MaxCommits \in Nat

VARIABLES
    base, head, \* the revision the work began at, and the branch
    artifacts,  \* the artifacts built so far, as they lie in the store
    packet      \* the last packet built

evidenceVars == <<base, head, artifacts, packet>>

Required ==
    [slice |-> "slice-manifest", pause |-> "session-capture", handoff |-> "handoff-manifest",
     close |-> "closeout-receipt", update |-> "update-manifest", rollback |-> "rollback-receipt"]

\* intact: what lies in the store has the form of an artifact.
Artifact == [kind : ArtifactKinds, intact : BOOLEAN]
Packet == [event : DOMAIN Required, cited : SUBSET Artifact, kinds : SUBSET ArtifactKinds,
           paths : SUBSET ChangedPaths, base : 0 .. MaxCommits, final : 0 .. MaxCommits]

EvidenceInit == base = 0 /\ head = 0 /\ artifacts = {} /\ packet = NoPacket

\* The work.
Commit ==
    /\ head < MaxCommits /\ head' = head + 1
    /\ UNCHANGED <<base, artifacts, packet>>

\* A new claim takes over where the branch is.
TakeOver ==
    /\ base' = head
    /\ UNCHANGED <<head, artifacts, packet>>

\* build_evidence_artifact.
BuildArtifact ==
    /\ \E k \in ArtifactKinds \cap {Required[e] : e \in DOMAIN Required} :
          artifacts' = artifacts \cup {[kind |-> k, intact |-> TRUE]}
    /\ UNCHANGED <<base, head, packet>>

\* An artifact in the store is cut short, or edited out of its form.
Spoil ==
    /\ \E d \in artifacts :
          artifacts' = (artifacts \ {d}) \cup {[d EXCEPT !.intact = FALSE]}
    /\ UNCHANGED <<base, head, packet>>

\* Mutant: any artifact will do for any event.
ProvenByAny(event, cited) ==
    /\ cited # {} /\ \A d \in cited : d.intact

\* Every artifact cited is validated, and one of them is of the kind the event requires.
Proven(event, cited) ==
    /\ \A d \in cited : d.intact
    /\ \E d \in cited : d.kind = Required[event]

\* build_evidence_packet, when it refuses nothing.
BuildPacket ==
    /\ \E event \in Events \cap DOMAIN Required, cited \in SUBSET artifacts,
          paths \in SUBSET ChangedPaths \ {{}} :
          /\ Proven(event, cited)
          /\ packet' = [event |-> event, cited |-> cited, kinds |-> {d.kind : d \in cited},
                        paths |-> paths, base |-> base, final |-> head]
    /\ UNCHANGED <<base, head, artifacts>>

EvidenceNext == Commit \/ TakeOver \/ BuildArtifact \/ Spoil \/ BuildPacket
----------------------------------------------------------------------------
Packets == INSTANCE Contracts WITH Portable <- PortablePath

\* A packet cites only artifacts that could be read back, and its contract finds
\* fault with it in the two respects the builder does not look at and in no
\* other: a path that is not portable, and an event that is not a pause at the
\* revision the work began at.
PacketsMeetContract ==
    packet # NoPacket =>
       /\ packet \in Packet
       /\ \A d \in packet.cited : d.intact
       /\ Packets!EvidenceErrors(packet) =
             {e \in {"path"} : \E q \in packet.paths : ~PortablePath(q)}
             \cup {e \in {"evidence.unchanged-final-sha"} :
                      packet.event # "pause" /\ packet.base = packet.final}
=============================================================================
