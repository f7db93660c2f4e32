--------------------------- MODULE EvidenceProofs ---------------------------
(***************************************************************************)
(* Proofs about Evidence, for any events, kinds, paths and commits.        *)
(***************************************************************************)
EXTENDS Evidence, TLAPS

\* The revisions and the store keep their types.
StoreInv ==
    /\ base \in 0 .. MaxCommits
    /\ head \in 0 .. MaxCommits
    /\ artifacts \subseteq Artifact

\* The inductive invariant.
IInv == StoreInv /\ PacketsMeetContract
----------------------------------------------------------------------------
\* What the builder accepts, its contract accepts but for two faults.
LEMMA BuilderMeetsContract ==
    ASSUME NEW event \in DOMAIN Required, NEW cited \in SUBSET Artifact,
           NEW paths \in SUBSET ChangedPaths, NEW from, NEW to, Proven(event, cited)
    PROVE Packets!EvidenceErrors([event |-> event, cited |-> cited, kinds |-> {d.kind : d \in cited},
                                  paths |-> paths, base |-> from, final |-> to]) =
             {e \in {"path"} : \E q \in paths : ~PortablePath(q)}
             \cup {e \in {"evidence.unchanged-final-sha"} : event # "pause" /\ from = to}
<1>1. Packets!EventArtifact[event] \in {d.kind : d \in cited}
  BY DEF Proven, Required, Packets!EventArtifact
<1> QED
  BY <1>1 DEF Packets!EvidenceErrors, Packets!Error, Packets!PathErrors

\* The packet that is built has its type, its artifacts were readable when it was
\* built, and its contract faults it in two respects only.
LEMMA BuildStep ==
    ASSUME StoreInv, BuildPacket
    PROVE PacketsMeetContract'
<1>1. PICK event \in Events \cap DOMAIN Required, cited \in SUBSET artifacts,
           paths \in SUBSET ChangedPaths \ {{}} :
           /\ Proven(event, cited)
           /\ packet' = [event |-> event, cited |-> cited, kinds |-> {d.kind : d \in cited},
                         paths |-> paths, base |-> base, final |-> head]
  BY DEF BuildPacket
<1>2. cited \subseteq Artifact
  BY <1>1 DEF StoreInv
<1>3. packet' \in Packet
  BY <1>1, <1>2 DEF Packet, StoreInv, Artifact
<1>4. \A d \in packet'.cited : d.intact
  BY <1>1 DEF Proven
<1>5. Packets!EvidenceErrors(packet') =
             {e \in {"path"} : \E q \in paths : ~PortablePath(q)}
             \cup {e \in {"evidence.unchanged-final-sha"} : event # "pause" /\ base = head}
  BY <1>1, <1>2, BuilderMeetsContract
<1>6. packet'.paths = paths /\ packet'.event = event /\ packet'.base = base /\ packet'.final = head
  BY <1>1
<1> QED
  BY <1>3, <1>4, <1>5, <1>6 DEF PacketsMeetContract

\* Whatever lies in the store, a packet cites only artifacts that could be read
\* back, and its contract finds the two faults the builder does not look for and
\* no other.
THEOREM ContractMet == EvidenceInit /\ [][EvidenceNext]_evidenceVars => []PacketsMeetContract
<1>1. EvidenceInit => IInv
  BY EvidenceAssumption DEF EvidenceInit, IInv, StoreInv, PacketsMeetContract
<1>2. IInv /\ [EvidenceNext]_evidenceVars => IInv'
  <2>1. CASE IInv /\ (Commit \/ TakeOver)
    BY <2>1, EvidenceAssumption DEF Commit, TakeOver, IInv, StoreInv, PacketsMeetContract
  <2>2. CASE IInv /\ (BuildArtifact \/ Spoil)
    <3>1. UNCHANGED packet
      BY <2>2 DEF BuildArtifact, Spoil
    <3>2. PacketsMeetContract'
      BY <2>2, <3>1 DEF IInv, PacketsMeetContract
    <3>3. artifacts' \subseteq Artifact
      <4>1. \A k \in ArtifactKinds : [kind |-> k, intact |-> TRUE] \in Artifact
        BY DEF Artifact
      <4>2. \A d \in Artifact : [d EXCEPT !.intact = FALSE] \in Artifact
        BY DEF Artifact
      <4>3. artifacts \subseteq Artifact
        BY <2>2 DEF IInv, StoreInv
      <4>4. CASE BuildArtifact
        <5>1. PICK k \in ArtifactKinds : artifacts' = artifacts \cup {[kind |-> k, intact |-> TRUE]}
          BY <4>4 DEF BuildArtifact
        <5> QED
          BY <4>1, <4>3, <5>1
      <4>5. CASE Spoil
        <5>1. PICK d \in artifacts : artifacts' = (artifacts \ {d}) \cup {[d EXCEPT !.intact = FALSE]}
          BY <4>5 DEF Spoil
        <5>2. [d EXCEPT !.intact = FALSE] \in Artifact
          BY <4>2, <4>3
        <5> QED
          BY <4>3, <5>1, <5>2
      <4> QED
        BY <2>2, <4>4, <4>5
    <3>4. StoreInv'
      BY <2>2, <3>3 DEF BuildArtifact, Spoil, IInv, StoreInv
    <3> QED
      BY <3>2, <3>4 DEF IInv
  <2>3. CASE IInv /\ BuildPacket
    <3>1. StoreInv'
      BY <2>3 DEF BuildPacket, IInv, StoreInv
    <3> QED
      BY <2>3, <3>1, BuildStep DEF IInv
  <2>4. CASE IInv /\ UNCHANGED evidenceVars
    BY <2>4 DEF evidenceVars, IInv, StoreInv, PacketsMeetContract
  <2> QED
    BY <2>1, <2>2, <2>3, <2>4 DEF EvidenceNext
<1>3. IInv => PacketsMeetContract
  BY DEF IInv
<1> QED
  BY <1>1, <1>2, <1>3, PTL
=============================================================================
