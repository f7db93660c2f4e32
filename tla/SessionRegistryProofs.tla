----------------------- MODULE SessionRegistryProofs -----------------------
(***************************************************************************)
(* Proofs about SessionRegistry, for every set of callers, agents,         *)
(* proposals and operations, every lease duration and every bound.         *)
(***************************************************************************)
EXTENDS SessionRegistry, TLAPS

\* A caller is between taking and dropping the lock exactly when it holds it.
LockInv == \A p \in Callers : pc[p] \in Critical <=> lock = p

\* No lease was timed in the future.
ClockInv ==
    /\ \A i \in DOMAIN disk.claims : disk.claims[i].heartbeat <= now
    /\ \A p \in Callers :
          /\ call[p].op \in {"open", "claim"} => call[p].at <= now
          /\ pc[p] = "writing" =>
                \A i \in DOMAIN doc[p].claims : doc[p].claims[i].heartbeat <= now

\* How a prepared claim d may differ from the claim c it replaces.
Succeeds(p, c, d) ==
    /\ d.terms = c.terms
    /\ \/ d = c
       \/ /\ call[p].op = "claim"
          /\ Active(c) /\ d.state = "abandoned" /\ d.heartbeat = c.heartbeat
          /\ now > Expires(c)
          /\ probe[c.terms.agent] # "live"
          /\ c.terms.agent \in Remote \/ probe[c.terms.agent] = "dead"
       \/ /\ call[p].op = "heartbeat"
          /\ Active(c) /\ d.state = c.state /\ d.heartbeat >= c.heartbeat
          /\ call[p].target.sid = c.terms.sid /\ call[p].target.token = c.terms.token
       \/ /\ call[p].op = "release"
          /\ d.state = "closed" /\ d.heartbeat = c.heartbeat
          /\ call[p].target.sid = c.terms.sid /\ call[p].target.token = c.terms.token

\* A list of claims that holds what a claim operation asked for.
Contains(claims, q) ==
    \E i \in DOMAIN claims : claims[i].terms = q /\ claims[i].state = q.state

\* What a caller is about to write is the successor of what is on disk now.
WritingInv ==
    \A p \in Callers : pc[p] = "writing" =>
        /\ call[p].op \in Mutations
        /\ call[p].expected = disk.revision
        /\ doc[p].revision = disk.revision + 1
        /\ ValidClaims(doc[p].claims)
        /\ \A i \in DOMAIN disk.claims :
              /\ i \in DOMAIN doc[p].claims
              /\ Succeeds(p, disk.claims[i], doc[p].claims[i])
        /\ call[p].op = "claim" => Contains(doc[p].claims, call[p].target)

\* A claim that was written is still there when its caller returns.
WrittenInv ==
    \A p \in Callers :
        pc[p] = "written" /\ call[p].op = "claim" => Contains(disk.claims, call[p].target)

\* The inductive invariant.
IInv ==
    /\ TypeOK
    /\ LockInv
    /\ ClockInv
    /\ DiskValid
    /\ WritingInv
    /\ WrittenInv
    /\ GrantsDurable
----------------------------------------------------------------------------
\* Retiring keeps the list and its types.
LEMMA RetiredType ==
    ASSUME NEW claims \in Seq(Claim)
    PROVE  /\ Retired(claims) \in Seq(Claim)
           /\ DOMAIN Retired(claims) = DOMAIN claims
           /\ Len(Retired(claims)) = Len(claims)
<1>1. ASSUME NEW i \in DOMAIN claims
      PROVE  Retired(claims)[i] \in Claim
  <2>1. claims[i] \in Claim
    OBVIOUS
  <2>2. [claims[i] EXCEPT !.state = "abandoned"] \in Claim
    BY <2>1 DEF Claim, States
  <2>3. QED
    BY <2>1, <2>2 DEF Retired
<1>2. DOMAIN Retired(claims) = 1..Len(claims) /\ Len(claims) \in Nat
  BY DEF Retired
<1>3. QED
  BY <1>1, <1>2 DEF Retired

\* What an operation that names a session finds is a claim of that session.
LEMMA OwnedClaim ==
    ASSUME TypeOK, DiskValid, NEW p \in Callers, Named(p) # {}
    PROVE  /\ OwnedIndex(p) \in DOMAIN disk.claims
           /\ disk.claims[OwnedIndex(p)].terms.sid = call[p].target.sid
<1>1. PICK i \in Named(p) : TRUE
  OBVIOUS
<1>2. disk.claims \in Seq(Claim)
  BY DEF TypeOK, Document
<1>3. ASSUME NEW j \in Named(p)
      PROVE  j = i
  <2>1. disk.claims[i].terms.sid = disk.claims[j].terms.sid
    BY <1>1, <1>3 DEF Named
  <2>2. i \in DOMAIN disk.claims /\ j \in DOMAIN disk.claims
    BY <1>1, <1>3 DEF Named
  <2>3. QED
    BY <2>1, <2>2 DEF DiskValid, ValidClaims, ClaimsCompatible
<1>4. i \in Nat
  BY <1>1, <1>2 DEF Named
<1>5. \A j \in Named(p) : i <= j
  BY <1>3, <1>4
<1>6. OwnedIndex(p) \in Named(p)
  BY <1>1, <1>5, Zenon DEF OwnedIndex, First
<1>7. QED
  BY <1>6 DEF Named

\* The claims that a mutation prepares are claims, and each follows from the
\* claim on disk in its place.
LEMMA AmendedClaims ==
    ASSUME IInv, NEW p \in Callers, Permitted(p)
    PROVE  /\ Amended(p) \in Seq(Claim)
           /\ \A i \in DOMAIN Amended(p) : Amended(p)[i].heartbeat <= now
           /\ \A i \in DOMAIN disk.claims :
                 /\ i \in DOMAIN Amended(p)
                 /\ Succeeds(p, disk.claims[i], Amended(p)[i])
           /\ call[p].op = "claim" => Contains(Amended(p), call[p].target)
<1> DEFINE claims == disk.claims
<1>1. claims \in Seq(Claim) /\ now \in Nat
  BY DEF IInv, TypeOK, Document
<1>2. call[p] \in Call
  <2>1. call[p].op \in {"claim", "heartbeat", "release"}
    BY DEF Permitted, Measured, Read, Mutations, Owned
  <2>2. call[p] \in Call \cup {NoCall}
    BY DEF IInv, TypeOK
  <2>3. NoCall.op = "none"
    BY DEF NoCall
  <2>4. QED
    BY <2>1, <2>2, <2>3
<1>3. CASE call[p].op = "claim"
  <2> DEFINE new == [terms |-> call[p].target, state |-> call[p].target.state,
                     heartbeat |-> call[p].at]
             old == Retired(claims)
  <2>1. call[p].target \in Proposals /\ call[p].at \in Nat
    BY <1>2, <1>3 DEF Call, Owned
  <2>2. new \in Claim
    BY <2>1, ProposalAssumption DEF Claim, Proposal
  <2>3. old \in Seq(Claim) /\ DOMAIN old = DOMAIN claims
    BY <1>1, RetiredType
  <2>4. Amended(p) = Append(old, new)
    BY <1>3 DEF Amended, Claimed
  <2>5. /\ Amended(p) \in Seq(Claim)
        /\ DOMAIN Amended(p) = 1..(Len(old) + 1)
        /\ \A i \in DOMAIN old : i \in DOMAIN Amended(p) /\ Amended(p)[i] = old[i]
        /\ Amended(p)[Len(old) + 1] = new
        /\ DOMAIN old = 1..Len(old) /\ Len(old) \in Nat
    BY <2>2, <2>3, <2>4
  <2>6. new.heartbeat <= now
    BY <1>3 DEF IInv, ClockInv
  <2>7. ASSUME NEW i \in DOMAIN claims
        PROVE  Succeeds(p, claims[i], old[i]) /\ old[i].heartbeat <= now
    <3>1. claims[i] \in Claim /\ claims[i].heartbeat <= now
      BY <1>1 DEF IInv, ClockInv
    <3>2. old[i] = IF Stale(claims[i]) THEN [claims[i] EXCEPT !.state = "abandoned"]
                                       ELSE claims[i]
      BY DEF Retired
    <3>3. CASE Stale(claims[i])
      <4>1. probe[claims[i].terms.agent] = "dead" \/ claims[i].terms.agent \in Remote
        <5>1. claims[i].terms.agent \in Agents
          BY <3>1, ProposalAssumption DEF Claim, Proposal
        <5>2. QED
          BY <3>3, <5>1 DEF Stale, IInv, TypeOK
      <4>2. QED
        BY <1>3, <3>1, <3>2, <3>3, <4>1 DEF Succeeds, Stale, Claim
    <3>4. CASE ~Stale(claims[i])
      BY <3>1, <3>2, <3>4 DEF Succeeds
    <3>5. QED
      BY <3>3, <3>4
  <2>8. \A i \in DOMAIN Amended(p) : Amended(p)[i].heartbeat <= now
    BY <2>3, <2>5, <2>6, <2>7
  <2>9. Contains(Amended(p), call[p].target)
    BY <2>5 DEF Contains
  <2>10. QED
    BY <2>3, <2>5, <2>7, <2>8, <2>9
<1>4. CASE call[p].op = "heartbeat"
  <2> DEFINE k == OwnedIndex(p)
  <2>1. Named(p) # {} /\ HoldsToken(p) /\ Active(claims[k])
    BY <1>4 DEF Permitted, Claiming, Heartbeating, Releasing
  <2>2. k \in DOMAIN claims /\ claims[k].terms.sid = call[p].target.sid
    BY <2>1, OwnedClaim DEF IInv
  <2>3. claims[k].terms.token = call[p].target.token
    BY <2>1 DEF HoldsToken
  <2>4. Amended(p) = [claims EXCEPT ![k].heartbeat = now]
    BY <1>4 DEF Amended
  <2>5. Amended(p) \in Seq(Claim) /\ DOMAIN Amended(p) = DOMAIN claims
    <3>1. claims[k] \in Claim
      BY <1>1, <2>2
    <3>2. [claims[k] EXCEPT !.heartbeat = now] \in Claim
      BY <1>1, <3>1 DEF Claim
    <3>3. Amended(p) = [claims EXCEPT ![k] = [claims[k] EXCEPT !.heartbeat = now]]
      BY <2>4
    <3>4. QED
      BY <1>1, <2>2, <3>2, <3>3
  <2>6. ASSUME NEW i \in DOMAIN claims
        PROVE  Succeeds(p, claims[i], Amended(p)[i]) /\ Amended(p)[i].heartbeat <= now
    <3>1. claims[i] \in Claim /\ claims[i].heartbeat <= now
      BY <1>1 DEF IInv, ClockInv
    <3>2. CASE i = k
      <4>1. Amended(p)[i] = [claims[i] EXCEPT !.heartbeat = now]
        BY <2>2, <2>4, <3>2
      <4>2. QED
        BY <1>1, <1>4, <2>1, <2>2, <2>3, <3>1, <3>2, <4>1 DEF Succeeds, Claim
    <3>3. CASE i # k
      BY <2>4, <3>1, <3>3 DEF Succeeds
    <3>4. QED
      BY <3>2, <3>3
  <2>7. QED
    BY <1>4, <2>5, <2>6
<1>5. CASE call[p].op = "release"
  <2> DEFINE k == OwnedIndex(p)
  <2>1. Named(p) # {} /\ HoldsToken(p)
    BY <1>5 DEF Permitted, Claiming, Heartbeating, Releasing
  <2>2. k \in DOMAIN claims /\ claims[k].terms.sid = call[p].target.sid
    BY <2>1, OwnedClaim DEF IInv
  <2>3. claims[k].terms.token = call[p].target.token
    BY <2>1 DEF HoldsToken
  <2>4. Amended(p) = [claims EXCEPT ![k].state = "closed"]
    BY <1>5 DEF Amended
  <2>5. Amended(p) \in Seq(Claim) /\ DOMAIN Amended(p) = DOMAIN claims
    <3>1. claims[k] \in Claim
      BY <1>1, <2>2
    <3>2. [claims[k] EXCEPT !.state = "closed"] \in Claim
      BY <1>1, <3>1 DEF Claim, States
    <3>3. Amended(p) = [claims EXCEPT ![k] = [claims[k] EXCEPT !.state = "closed"]]
      BY <2>4
    <3>4. QED
      BY <1>1, <2>2, <3>2, <3>3
  <2>6. ASSUME NEW i \in DOMAIN claims
        PROVE  Succeeds(p, claims[i], Amended(p)[i]) /\ Amended(p)[i].heartbeat <= now
    <3>1. claims[i] \in Claim /\ claims[i].heartbeat <= now
      BY <1>1 DEF IInv, ClockInv
    <3>2. CASE i = k
      <4>1. Amended(p)[i] = [claims[i] EXCEPT !.state = "closed"]
        BY <2>2, <2>4, <3>2
      <4>2. QED
        BY <1>5, <2>2, <2>3, <3>1, <3>2, <4>1 DEF Succeeds, Claim
    <3>3. CASE i # k
      BY <2>4, <3>1, <3>3 DEF Succeeds
    <3>4. QED
      BY <3>2, <3>3
  <2>7. QED
    BY <1>5, <2>5, <2>6
<1>6. QED
  BY <1>3, <1>4, <1>5 DEF Permitted, Claiming, Heartbeating, Releasing
----------------------------------------------------------------------------
LEMMA InitInv == Init => IInv
<1> SUFFICES ASSUME Init PROVE IInv
  OBVIOUS
<1> USE DEF Init
<1>1. EmptyDocument \in Document /\ DOMAIN EmptyDocument.claims = {}
  BY DEF EmptyDocument, Document
<1>2. TypeOK
  <2>1. \A a \in Agents : a \in Remote <=> probe[a] \in {"unknown", "unreachable"}
    OBVIOUS
  <2>2. QED
    BY <1>1, <2>1 DEF TypeOK, Outcomes
<1>3. LockInv
  BY CallerAssumption DEF LockInv, Critical
<1>4. ClockInv
  BY <1>1 DEF ClockInv, NoCall
<1>5. DiskValid
  BY <1>1 DEF DiskValid, ValidClaims
<1>6. WritingInv /\ WrittenInv /\ GrantsDurable
  BY DEF WritingInv, WrittenInv, GrantsDurable
<1>7. QED
  BY <1>2, <1>3, <1>4, <1>5, <1>6 DEF IInv

\* A caller that starts an operation disturbs nothing.
LEMMA InvokeStep ==
    ASSUME IInv, NEW p \in Callers, NEW c \in Call, Invoke(p, c),
           c.op \in {"open", "claim"} => c.at <= now
    PROVE  IInv'
<1> USE DEF Invoke
<1>1. TypeOK'
  <2>1. pc' \in [Callers -> {"idle", "waiting"} \cup Critical]
    BY DEF IInv, TypeOK
  <2>2. call' \in [Callers -> Call \cup {NoCall}]
    BY DEF IInv, TypeOK
  <2>3. result' \in [Callers -> Outcomes]
    BY DEF IInv, TypeOK, Outcomes
  <2>4. QED
    BY <2>1, <2>2, <2>3 DEF IInv, TypeOK
<1>2. \A q \in Callers :
        /\ pc'[q] = IF q = p THEN "waiting" ELSE pc[q]
        /\ call'[q] = IF q = p THEN c ELSE call[q]
  BY DEF IInv, TypeOK
<1>3. LockInv'
  BY <1>2 DEF IInv, LockInv, Critical
<1>4. ClockInv'
  BY <1>2 DEF IInv, ClockInv
<1>5. DiskValid'
  BY DEF IInv, DiskValid
<1>6. WritingInv'
  BY <1>2 DEF IInv, WritingInv, Succeeds, Active
<1>7. WrittenInv'
  BY <1>2 DEF IInv, WrittenInv
<1>8. GrantsDurable'
  BY DEF IInv, GrantsDurable, Active
<1>9. QED
  BY <1>1, <1>3, <1>4, <1>5, <1>6, <1>7, <1>8 DEF IInv

\* Nor does one that leaves an operation, returning or not.
LEMMA LeaveStep ==
    ASSUME IInv, NEW p \in Callers, NEW outcome \in Outcomes,
           Leave(p, outcome), Unlock(p),
           seen' \in [Callers -> Nat], advice' \in [Callers -> SUBSET Proposals],
           granted' \subseteq Proposals, GrantsDurable'
    PROVE  IInv'
<1> USE DEF Leave
<1>0. EmptyDocument \in Document /\ DOMAIN EmptyDocument.claims = {}
  BY DEF EmptyDocument, Document
<1>1. TypeOK'
  <2>1. pc' \in [Callers -> {"idle", "waiting"} \cup Critical]
    BY DEF IInv, TypeOK
  <2>2. call' \in [Callers -> Call \cup {NoCall}]
    BY DEF IInv, TypeOK
  <2>3. result' \in [Callers -> Outcomes]
    BY DEF IInv, TypeOK
  <2>4. doc' \in [Callers -> Document]
    BY <1>0 DEF IInv, TypeOK
  <2>5. lock' \in Callers \cup {NoCaller}
    BY DEF IInv, TypeOK, Unlock
  <2>6. QED
    BY <2>1, <2>2, <2>3, <2>4, <2>5 DEF IInv, TypeOK
<1>2. \A q \in Callers :
        /\ pc'[q] = IF q = p THEN "idle" ELSE pc[q]
        /\ call'[q] = IF q = p THEN NoCall ELSE call[q]
        /\ doc'[q] = IF q = p THEN EmptyDocument ELSE doc[q]
  BY DEF IInv, TypeOK
<1>3. LockInv'
  BY <1>2, CallerAssumption DEF IInv, LockInv, Critical, Unlock
<1>4. ClockInv'
  BY <1>0, <1>2 DEF IInv, ClockInv, NoCall
<1>5. DiskValid'
  BY DEF IInv, DiskValid
<1>6. WritingInv'
  BY <1>2 DEF IInv, WritingInv, Succeeds, Active
<1>7. WrittenInv'
  BY <1>2 DEF IInv, WrittenInv
<1>8. QED
  BY <1>1, <1>3, <1>4, <1>5, <1>6, <1>7 DEF IInv

\* A refusal, in particular.
LEMMA RefuseStep ==
    ASSUME IInv, NEW p \in Callers, NEW outcome \in Outcomes, Refuse(p, outcome)
    PROVE  IInv'
<1>1. Leave(p, outcome) /\ Unlock(p) /\ UNCHANGED <<seen, granted, advice, disk, probe>>
  BY DEF Refuse, Leave
<1>2. /\ seen' \in [Callers -> Nat]
      /\ advice' \in [Callers -> SUBSET Proposals]
      /\ granted' \subseteq Proposals
  BY <1>1 DEF IInv, TypeOK
<1>3. GrantsDurable'
  BY <1>1 DEF IInv, GrantsDurable, Active
<1>4. QED
  BY <1>1, <1>2, <1>3, LeaveStep
----------------------------------------------------------------------------
LEMMA BeginStep ==
    ASSUME IInv, NEW p \in Callers, Begin(p)
    PROVE  IInv'
<1> USE DEF Call
<1>0. now \in Nat /\ seen[p] \in Nat
  BY DEF IInv, TypeOK
<1>1. CASE InvokeInspect(p)
  BY <1>1, InvokeStep DEF InvokeInspect
<1>2. CASE InvokeEvaluate(p)
  BY <1>2, InvokeStep DEF InvokeEvaluate
<1>3. CASE InvokeClaim(p)
  <2>1. PICK q \in Proposals :
          Invoke(p, [op |-> "claim", target |-> q, at |-> now, expected |-> seen[p]])
    BY <1>3 DEF InvokeClaim
  <2>2. [op |-> "claim", target |-> q, at |-> now, expected |-> seen[p]] \in Call
    BY <1>0
  <2>3. QED
    BY <1>0, <2>1, <2>2, InvokeStep
<1>4. CASE InvokeOpen(p)
  <2>1. PICK q \in Proposals : Invoke(p, [op |-> "open", target |-> q, at |-> now])
    BY <1>4 DEF InvokeOpen
  <2>2. [op |-> "open", target |-> q, at |-> now] \in Call
    BY <1>0
  <2>3. QED
    BY <1>0, <2>1, <2>2, InvokeStep
<1>5. CASE InvokeOwned(p)
  <2>1. PICK op \in Owned, h \in Holding :
          Invoke(p, [op |-> op, target |-> h, expected |-> seen[p]])
    BY <1>5 DEF InvokeOwned
  <2>2. [op |-> op, target |-> h, expected |-> seen[p]] \in Call
    BY <1>0
  <2>3. QED
    BY <2>1, <2>2, InvokeStep DEF Owned
<1>6. CASE InvokeClose(p)
  BY <1>6, InvokeStep DEF InvokeClose
<1>7. QED
  BY <1>1, <1>2, <1>3, <1>4, <1>5, <1>6 DEF Begin

LEMMA AcquireStep ==
    ASSUME IInv, NEW p \in Callers, Acquire(p)
    PROVE  IInv'
<1> USE DEF Acquire
<1>1. TypeOK'
  BY DEF IInv, TypeOK, Critical
<1>2. \A q \in Callers : pc'[q] = IF q = p THEN "locked" ELSE pc[q]
  BY DEF IInv, TypeOK
<1>3. LockInv'
  BY <1>2, CallerAssumption DEF IInv, LockInv, Critical
<1>4. ClockInv' /\ DiskValid' /\ WritingInv' /\ WrittenInv' /\ GrantsDurable'
  BY <1>2 DEF IInv, ClockInv, DiskValid, WritingInv, WrittenInv, GrantsDurable,
              Succeeds, Active
<1>5. QED
  BY <1>1, <1>3, <1>4 DEF IInv

\* A caller that learns a revision.
LEMMA MeasureTypes ==
    ASSUME TypeOK, NEW p \in Callers, NEW r \in Nat, Measure(p, r)
    PROVE  /\ seen' \in [Callers -> Nat]
           /\ advice' \in [Callers -> SUBSET Proposals]
BY DEF TypeOK, Measure

LEMMA InspectStep ==
    ASSUME IInv, NEW p \in Callers, Inspect(p)
    PROVE  IInv'
<1>1. Leave(p, "ok") /\ Unlock(p) /\ UNCHANGED <<disk, probe, granted>>
  BY DEF Inspect, Leave
<1>2. (IF damaged THEN seen[p] ELSE disk.revision) \in Nat
  BY DEF IInv, TypeOK, Document
<1>3. seen' \in [Callers -> Nat] /\ advice' \in [Callers -> SUBSET Proposals]
  BY <1>2, MeasureTypes DEF Inspect, IInv
<1>4. granted' \subseteq Proposals /\ GrantsDurable'
  BY <1>1 DEF IInv, TypeOK, GrantsDurable, Active
<1>5. QED
  BY <1>1, <1>3, <1>4, LeaveStep DEF Outcomes

LEMMA EvaluateStep ==
    ASSUME IInv, NEW p \in Callers, Evaluate(p)
    PROVE  IInv'
<1> DEFINE q == call[p].target
           clear == Conflicts(Retired(disk.claims), q) = {}
<1>1. /\ Leave(p, IF clear THEN "clear" ELSE "conflicting")
      /\ Unlock(p) /\ UNCHANGED <<disk, probe, granted>>
  BY DEF Evaluate, Leave
<1>2. call[p] \in Call /\ call[p].op = "evaluate"
  BY DEF Evaluate, IInv, TypeOK, NoCall
<1>3. q \in Proposals
  BY <1>2 DEF Call, Owned
<1>4. seen' \in [Callers -> Nat] /\ advice' \in [Callers -> SUBSET Proposals]
  BY <1>3 DEF Evaluate, IInv, TypeOK, Document
<1>5. granted' \subseteq Proposals /\ GrantsDurable'
  BY <1>1 DEF IInv, TypeOK, GrantsDurable, Active
<1>6. QED
  BY <1>1, <1>4, <1>5, LeaveStep DEF Outcomes

LEMMA InspectThenMutateStep ==
    ASSUME IInv, NEW p \in Callers, InspectThenMutate(p)
    PROVE  IInv'
<1> DEFINE c == call[p]
           next == IF c.op = "open"
                   THEN [op |-> "claim", target |-> c.target, at |-> c.at,
                         expected |-> disk.revision]
                   ELSE [op |-> "release", target |-> c.target,
                         expected |-> disk.revision]
<1> USE DEF InspectThenMutate
<1>1. c \in Call /\ c.op \in {"open", "close"} /\ disk.revision \in Nat
  BY DEF IInv, TypeOK, NoCall, InspectsFirst, Document
<1>2. next \in Call /\ (next.op \in {"open", "claim"} => next.at <= now)
  <2>1. CASE c.op = "open"
    <3>1. c.target \in Proposals /\ c.at \in Nat /\ c.at <= now
      BY <1>1, <2>1 DEF Call, Owned, IInv, ClockInv
    <3>2. QED
      BY <1>1, <2>1, <3>1 DEF Call
  <2>2. CASE c.op = "close"
    <3>1. c.target \in Holding
      BY <1>1, <2>2 DEF Call, Owned
    <3>2. QED
      BY <1>1, <2>2, <3>1 DEF Call, Owned
  <2>3. QED
    BY <1>1, <2>1, <2>2
<1>3. call' = [call EXCEPT ![p] = next]
  BY DEF IInv, TypeOK
<1>4. \A q \in Callers :
        /\ pc'[q] = IF q = p THEN "waiting" ELSE pc[q]
        /\ call'[q] = IF q = p THEN next ELSE call[q]
  BY <1>3 DEF IInv, TypeOK
<1>5. TypeOK'
  <2>1. seen' \in [Callers -> Nat] /\ advice' \in [Callers -> SUBSET Proposals]
    BY <1>1, MeasureTypes DEF IInv
  <2>2. call' \in [Callers -> Call \cup {NoCall}]
    BY <1>2, <1>3 DEF IInv, TypeOK
  <2>3. pc' \in [Callers -> {"idle", "waiting"} \cup Critical]
    BY DEF IInv, TypeOK
  <2>4. lock' \in Callers \cup {NoCaller}
    BY DEF IInv, TypeOK, Unlock
  <2>5. QED
    BY <2>1, <2>2, <2>3, <2>4 DEF IInv, TypeOK
<1>6. LockInv'
  BY <1>4, CallerAssumption DEF IInv, LockInv, Critical, Unlock
<1>7. ClockInv'
  BY <1>2, <1>4 DEF IInv, ClockInv
<1>8. WritingInv' /\ WrittenInv'
  BY <1>4 DEF IInv, WritingInv, WrittenInv, Succeeds, Active
<1>9. DiskValid' /\ GrantsDurable'
  BY DEF IInv, DiskValid, GrantsDurable, Active
<1>10. QED
  BY <1>5, <1>6, <1>7, <1>8, <1>9 DEF IInv
----------------------------------------------------------------------------
LEMMA PrepareStep ==
    ASSUME IInv, NEW p \in Callers, Prepare(p)
    PROVE  IInv'
<1> DEFINE next == [revision |-> disk.revision + 1, claims |-> Amended(p)]
<1> USE DEF Prepare
<1>1. /\ Amended(p) \in Seq(Claim)
      /\ \A i \in DOMAIN Amended(p) : Amended(p)[i].heartbeat <= now
      /\ \A i \in DOMAIN disk.claims :
            /\ i \in DOMAIN Amended(p)
            /\ Succeeds(p, disk.claims[i], Amended(p)[i])
      /\ call[p].op = "claim" => Contains(Amended(p), call[p].target)
  BY AmendedClaims
<1>2. /\ pc[p] = "locked" /\ call[p].op \in Mutations
      /\ call[p].expected = disk.revision
  BY DEF Permitted, Measured, Read
<1>3. next \in Document
  BY <1>1 DEF IInv, TypeOK, Document
<1>4. \A q \in Callers :
        /\ pc'[q] = IF q = p THEN "writing" ELSE pc[q]
        /\ doc'[q] = IF q = p THEN next ELSE doc[q]
  BY DEF IInv, TypeOK
<1>5. TypeOK'
  <2>1. doc' \in [Callers -> Document]
    BY <1>3 DEF IInv, TypeOK
  <2>2. pc' \in [Callers -> {"idle", "waiting"} \cup Critical]
    BY DEF IInv, TypeOK, Critical
  <2>3. QED
    BY <2>1, <2>2 DEF IInv, TypeOK
<1>6. LockInv'
  BY <1>2, <1>4 DEF IInv, LockInv, Critical
<1>7. ClockInv'
  BY <1>1, <1>4 DEF IInv, ClockInv
<1>8. WritingInv'
  <2> SUFFICES ASSUME NEW q \in Callers, pc'[q] = "writing"
               PROVE  /\ call[q].op \in Mutations
                      /\ call[q].expected = disk.revision
                      /\ doc'[q].revision = disk.revision + 1
                      /\ ValidClaims(doc'[q].claims)
                      /\ \A i \in DOMAIN disk.claims :
                            /\ i \in DOMAIN doc'[q].claims
                            /\ Succeeds(q, disk.claims[i], doc'[q].claims[i])
                      /\ call[q].op = "claim" => Contains(doc'[q].claims, call[q].target)
    BY DEF WritingInv, Succeeds, Active
  <2>1. CASE q = p
    BY <1>1, <1>2, <1>4, <2>1
  <2>2. CASE q # p
    BY <1>4, <2>2 DEF IInv, WritingInv
  <2>3. QED
    BY <2>1, <2>2
<1>9. WrittenInv'
  BY <1>4 DEF IInv, WrittenInv
<1>10. DiskValid' /\ GrantsDurable'
  BY DEF IInv, DiskValid, GrantsDurable, Active
<1>11. QED
  BY <1>5, <1>6, <1>7, <1>8, <1>9, <1>10 DEF IInv

\* Only one caller is in its critical section, so nobody else is writing.
LEMMA ReplaceStep ==
    ASSUME IInv, NEW p \in Callers, Replace(p)
    PROVE  IInv'
<1> USE DEF Replace
<1>1. \A q \in Callers : q # p => pc[q] \notin Critical
  BY DEF IInv, LockInv, Critical
<1>2. \A q \in Callers : pc'[q] = IF q = p THEN "written" ELSE pc[q]
  BY DEF IInv, TypeOK
<1>3. /\ ValidClaims(doc[p].claims)
      /\ \A i \in DOMAIN disk.claims :
            /\ i \in DOMAIN doc[p].claims
            /\ Succeeds(p, disk.claims[i], doc[p].claims[i])
      /\ call[p].op = "claim" => Contains(doc[p].claims, call[p].target)
  BY DEF IInv, WritingInv
<1>4. TypeOK'
  <2>1. pc' \in [Callers -> {"idle", "waiting"} \cup Critical]
    BY DEF IInv, TypeOK, Critical
  <2>2. disk' \in Document
    BY DEF IInv, TypeOK
  <2>3. QED
    BY <2>1, <2>2 DEF IInv, TypeOK
<1>5. LockInv'
  BY <1>2 DEF IInv, LockInv, Critical
<1>6. ClockInv'
  BY <1>2 DEF IInv, ClockInv
<1>7. DiskValid'
  BY <1>3 DEF DiskValid
<1>8. WritingInv'
  BY <1>1, <1>2 DEF WritingInv, Critical
<1>9. WrittenInv'
  BY <1>1, <1>2, <1>3 DEF WrittenInv, Critical
<1>10. GrantsDurable'
  <2> SUFFICES ASSUME NEW g \in granted'
               PROVE  \E i \in DOMAIN disk'.claims :
                         /\ disk'.claims[i].terms = g
                         /\ disk'.claims[i].state # "closed"
                         /\ probe[g.agent] = "live" => Active(disk'.claims[i])
    BY DEF GrantsDurable, Active
  <2>1. g \in granted /\ ~(call[p].op = "release" /\ g.sid = call[p].target.sid)
    OBVIOUS
  <2>2. PICK i \in DOMAIN disk.claims :
          /\ disk.claims[i].terms = g
          /\ disk.claims[i].state # "closed"
          /\ probe[g.agent] = "live" => Active(disk.claims[i])
    BY <2>1 DEF IInv, GrantsDurable
  <2>3. i \in DOMAIN disk'.claims /\ Succeeds(p, disk.claims[i], disk'.claims[i])
    BY <1>3
  <2>4. QED
    BY <2>1, <2>2, <2>3 DEF Succeeds, Active
<1>11. QED
  BY <1>4, <1>5, <1>6, <1>7, <1>8, <1>9, <1>10 DEF IInv

LEMMA ReturnStep ==
    ASSUME IInv, NEW p \in Callers, Return(p)
    PROVE  IInv'
<1>1. /\ Leave(p, "ok") /\ Unlock(p) /\ Measure(p, disk.revision)
      /\ UNCHANGED <<disk, probe>> /\ pc[p] = "written"
  BY DEF Return, Leave
<1>2. disk.revision \in Nat
  BY DEF IInv, TypeOK, Document
<1>3. seen' \in [Callers -> Nat] /\ advice' \in [Callers -> SUBSET Proposals]
  BY <1>1, <1>2, MeasureTypes DEF IInv
<1>4. granted' \subseteq Proposals
  BY DEF Return, IInv, TypeOK
<1>5. GrantsDurable'
  <2> SUFFICES ASSUME NEW g \in granted'
               PROVE  \E i \in DOMAIN disk.claims :
                         /\ disk.claims[i].terms = g
                         /\ disk.claims[i].state # "closed"
                         /\ probe[g.agent] = "live" => Active(disk.claims[i])
    BY <1>1 DEF GrantsDurable, Active
  <2>1. CASE g \in granted
    BY <2>1 DEF IInv, GrantsDurable
  <2>2. CASE g \notin granted
    <3>1. call[p].op = "claim" /\ g = call[p].target /\ g.state \in ActiveStates
      BY <2>2 DEF Return
    <3>2. Contains(disk.claims, g)
      BY <1>1, <3>1 DEF IInv, WrittenInv
    <3>3. "closed" \notin ActiveStates
      BY DEF ActiveStates
    <3>4. QED
      BY <3>1, <3>2, <3>3 DEF Contains, Active
  <2>3. QED
    BY <2>1, <2>2
<1>6. QED
  BY <1>1, <1>3, <1>4, <1>5, LeaveStep DEF Outcomes
----------------------------------------------------------------------------
\* The clock moves on, owners die, hosts come and go, the file is spoilt.
LEMMA WorldStep ==
    ASSUME IInv, World
    PROVE  IInv'
<1> USE DEF worldUnchanged
<1>1. /\ UNCHANGED <<disk, lock, pc, call, seen, doc, result, granted, advice>>
      /\ damaged' \in BOOLEAN
      /\ now' \in Nat /\ now <= now'
      /\ probe' \in [Agents -> {"live", "dead", "unknown", "unreachable"}]
      /\ \A a \in Agents : probe'[a] = "live" => probe[a] = "live"
      /\ \A a \in Agents : probe[a] = "dead" => probe'[a] = "dead"
      /\ \A a \in Agents : a \in Remote <=> probe'[a] \in {"unknown", "unreachable"}
  <2>1. TypeOK
    BY DEF IInv
  <2>2. CASE Tick
    BY <2>1, <2>2 DEF TypeOK, Tick
  <2>3. CASE Damage
    BY <2>1, <2>3 DEF TypeOK, Damage
  <2>4. CASE \E a \in Agents : OwnerDies(a)
    BY <2>1, <2>4 DEF TypeOK, OwnerDies
  <2>5. CASE \E a \in Agents : HostLost(a) \/ HostBack(a)
    BY <2>1, <2>5 DEF TypeOK, HostLost, HostBack
  <2>6. QED
    BY <2>2, <2>3, <2>4, <2>5 DEF World
<1>2. TypeOK'
  BY <1>1 DEF IInv, TypeOK
<1>3. LockInv' /\ DiskValid' /\ WrittenInv'
  BY <1>1 DEF IInv, LockInv, DiskValid, WrittenInv
<1>4. \A i \in DOMAIN disk.claims :
        /\ disk.claims[i].heartbeat \in Nat
        /\ disk.claims[i].terms \in Proposals /\ disk.claims[i].terms.agent \in Agents
  <2>1. disk.claims \in Seq(Claim)
    BY DEF IInv, TypeOK, Document
  <2>2. \A i \in DOMAIN disk.claims : disk.claims[i] \in Claim
    BY <2>1
  <2>3. QED
    BY <2>2, ProposalAssumption DEF Claim, Proposal
<1>5. ClockInv'
  <2>1. \A i \in DOMAIN disk.claims : disk.claims[i].heartbeat <= now'
    BY <1>1, <1>4 DEF IInv, TypeOK, ClockInv
  <2>2. ASSUME NEW p \in Callers, call[p].op \in {"open", "claim"}
        PROVE  call[p].at <= now'
    <3>1. call[p] \in Call
      BY <2>2 DEF IInv, TypeOK, NoCall
    <3>2. call[p].at \in Nat /\ call[p].at <= now
      BY <2>2, <3>1 DEF Call, Owned, IInv, ClockInv
    <3>3. QED
      BY <1>1, <3>2 DEF IInv, TypeOK
  <2>3. ASSUME NEW p \in Callers, pc[p] = "writing", NEW i \in DOMAIN doc[p].claims
        PROVE  doc[p].claims[i].heartbeat <= now'
    <3>0. doc[p].claims \in Seq(Claim)
      BY DEF IInv, TypeOK, Document
    <3>1. doc[p].claims[i] \in Claim
      BY <3>0
    <3>2. doc[p].claims[i].heartbeat <= now
      BY <2>3 DEF IInv, ClockInv
    <3>3. QED
      BY <1>1, <3>1, <3>2 DEF IInv, TypeOK, Claim
  <2>4. QED
    BY <1>1, <2>1, <2>2, <2>3 DEF ClockInv
<1>6. WritingInv'
  <2> SUFFICES ASSUME NEW p \in Callers, pc[p] = "writing", NEW i \in DOMAIN disk.claims
               PROVE  Succeeds(p, disk.claims[i], doc[p].claims[i])'
    BY <1>1 DEF IInv, WritingInv
  <2>1. Succeeds(p, disk.claims[i], doc[p].claims[i])
    BY DEF IInv, WritingInv
  <2>2. now > Expires(disk.claims[i]) => now' > Expires(disk.claims[i])
    BY <1>1, <1>4, BoundAssumption DEF IInv, TypeOK, Expires
  <2>3. QED
    BY <1>1, <1>4, <2>1, <2>2 DEF Succeeds, Active, Expires
<1>7. GrantsDurable'
  <2> SUFFICES ASSUME NEW g \in granted
               PROVE  \E i \in DOMAIN disk.claims :
                         /\ disk.claims[i].terms = g
                         /\ disk.claims[i].state # "closed"
                         /\ probe'[g.agent] = "live" => Active(disk.claims[i])
    BY <1>1 DEF GrantsDurable, Active
  <2>1. g.agent \in Agents
    BY ProposalAssumption DEF IInv, TypeOK, Proposal
  <2>2. QED
    BY <1>1, <2>1 DEF IInv, GrantsDurable
<1>8. QED
  BY <1>2, <1>3, <1>5, <1>6, <1>7 DEF IInv

LEMMA CallerStep ==
    ASSUME IInv, NEW p \in Callers, Proceed(p) \/ Crash(p)
    PROVE  IInv'
<1>1. CASE Acquire(p)
  BY <1>1, AcquireStep
<1>2. CASE TimeOut(p)
  <2>1. lock # p
    BY <1>2 DEF TimeOut, IInv, LockInv, Critical
  <2>2. Refuse(p, "Timeout")
    BY <1>2, <2>1 DEF TimeOut, Refuse, Unlock
  <2>3. QED
    BY <2>2, RefuseStep DEF Outcomes
<1>3. CASE Inspect(p)
  BY <1>3, InspectStep
<1>4. CASE InspectThenMutate(p)
  BY <1>4, InspectThenMutateStep
<1>5. CASE Evaluate(p)
  BY <1>5, EvaluateStep
<1>6. CASE \/ RefuseUnreadable(p) \/ RefuseStale(p) \/ RefuseConflict(p)
           \/ RefuseUnknown(p) \/ RefuseToken(p) \/ RefuseInactive(p)
           \/ RefuseInvalid(p) \/ WriteFails(p) \/ ReturnUnverified(p)
  <2>1. PICK outcome \in Outcomes : Refuse(p, outcome)
    BY <1>6 DEF RefuseUnreadable, RefuseStale, RefuseConflict, RefuseUnknown,
                RefuseToken, RefuseInactive, RefuseInvalid, WriteFails,
                ReturnUnverified, Outcomes
  <2>2. QED
    BY <2>1, RefuseStep
<1>7. CASE Prepare(p)
  BY <1>7, PrepareStep
<1>8. CASE Replace(p)
  BY <1>8, ReplaceStep
<1>9. CASE Return(p)
  BY <1>9, ReturnStep
<1>10. CASE Crash(p)
  BY <1>10, RefuseStep DEF Crash, Refuse, Outcomes
<1>11. QED
  BY <1>1, <1>2, <1>3, <1>4, <1>5, <1>6, <1>7, <1>8, <1>9, <1>10 DEF Proceed

LEMMA NextInv == IInv /\ [Next]_vars => IInv'
<1> SUFFICES ASSUME IInv, [Next]_vars PROVE IInv'
  OBVIOUS
<1>1. CASE \E p \in Callers : Begin(p)
  BY <1>1, BeginStep
<1>2. CASE \E p \in Callers : Proceed(p) \/ Crash(p)
  BY <1>2, CallerStep
<1>3. CASE World
  BY <1>3, WorldStep
<1>4. CASE UNCHANGED vars
  BY <1>4 DEF vars, IInv, TypeOK, LockInv, ClockInv, DiskValid, WritingInv, WrittenInv,
              GrantsDurable, Succeeds, Active, Expires
<1>5. QED
  BY <1>1, <1>2, <1>3, <1>4 DEF Next

\* The inductive invariant holds throughout.
THEOREM Invariance == Spec => []IInv
<1>1. QED
  BY InitInv, NextInv, PTL DEF Spec

\* Every variable keeps its type (SessionRegistry and SessionRegistry._commit
\* only ever write documents of the registered shape).
THEOREM TypeCorrect == Spec => []TypeOK
<1>1. IInv => TypeOK
  BY DEF IInv
<1>2. QED
  BY <1>1, Invariance, PTL

\* A reported claim stays on disk until its holder releases it, and active while
\* its owner's process lives, whatever other callers, crashes and failed writes
\* do in between.
THEOREM GrantsStay == Spec => []GrantsDurable
<1>1. IInv => GrantsDurable
  BY DEF IInv
<1>2. QED
  BY <1>1, Invariance, PTL

\* Living owners never hold clashing sessions: the purpose of claim().
THEOREM Exclusion == Spec => []LiveOwnersExclusive
<1>1. IInv => LiveOwnersExclusive
  <2> SUFFICES ASSUME IInv,
                      NEW g \in granted, NEW h \in granted, g # h,
                      probe[g.agent] = "live", probe[h.agent] = "live"
               PROVE  /\ g.sid # h.sid
                      /\ g.path # h.path
                      /\ \A r \in g.resources, s \in h.resources :
                            r.key = s.key => r.access = "shared-read" /\ s.access = "shared-read"
    BY DEF LiveOwnersExclusive
  <2>1. PICK i \in DOMAIN disk.claims :
          disk.claims[i].terms = g /\ Active(disk.claims[i])
    BY DEF IInv, GrantsDurable
  <2>2. PICK j \in DOMAIN disk.claims :
          disk.claims[j].terms = h /\ Active(disk.claims[j])
    BY DEF IInv, GrantsDurable
  <2>3. ClaimsCompatible(disk.claims[i], disk.claims[j])
    BY <2>1, <2>2 DEF IInv, DiskValid, ValidClaims
  <2>4. g.resources \subseteq Resource /\ h.resources \subseteq Resource
    BY ProposalAssumption DEF IInv, TypeOK, Proposal
  <2>5. QED
    BY <2>1, <2>2, <2>3, <2>4 DEF ClaimsCompatible, ResourceClash, Resource
<1>2. QED
  BY <1>1, Invariance, PTL
----------------------------------------------------------------------------
\* The file changes only when a writer replaces it.
LEMMA DiskStep ==
    ASSUME [Next]_vars
    PROVE  disk' = disk \/ \E p \in Callers : Replace(p)
<1>1. ASSUME NEW p \in Callers, Begin(p)
      PROVE  disk' = disk
  BY <1>1 DEF Begin, InvokeInspect, InvokeEvaluate, InvokeClaim, InvokeOpen,
              InvokeOwned, InvokeClose, Invoke
<1>2. ASSUME NEW p \in Callers, Proceed(p) \/ Crash(p), ~Replace(p)
      PROVE  disk' = disk
  BY <1>2 DEF Proceed, Crash, Acquire, TimeOut, Inspect, InspectThenMutate, Evaluate,
              RefuseUnreadable, RefuseStale, RefuseConflict, RefuseUnknown, RefuseToken,
              RefuseInactive, RefuseInvalid, Prepare, WriteFails, Return,
              ReturnUnverified, Refuse, Leave
<1>3. ASSUME World PROVE disk' = disk
  BY <1>3 DEF World, Tick, Damage, OwnerDies, HostLost, HostBack, worldUnchanged
<1>4. QED
  BY <1>1, <1>2, <1>3 DEF Next, vars

\* A writer reaches `written' only by replacing the file.
LEMMA WrittenStep ==
    ASSUME [Next]_vars, TypeOK, NEW p \in Callers,
           pc[p] = "writing", pc'[p] = "written"
    PROVE  Replace(p)
<1>1. ASSUME NEW q \in Callers, Begin(q)
      PROVE  FALSE
  BY <1>1 DEF Begin, InvokeInspect, InvokeEvaluate, InvokeClaim, InvokeOpen,
              InvokeOwned, InvokeClose, Invoke, TypeOK
<1>2. ASSUME NEW q \in Callers, Proceed(q) \/ Crash(q), ~Replace(q)
      PROVE  FALSE
  BY <1>2 DEF Proceed, Crash, Acquire, TimeOut, Inspect, InspectThenMutate, Evaluate,
              RefuseUnreadable, RefuseStale, RefuseConflict, RefuseUnknown, RefuseToken,
              RefuseInactive, RefuseInvalid, Prepare, WriteFails, Return,
              ReturnUnverified, Refuse, Leave, TypeOK
<1>3. ~World /\ ~UNCHANGED vars
  BY DEF World, Tick, Damage, OwnerDies, HostLost, HostBack, worldUnchanged, vars
<1>4. PICK q \in Callers : Replace(q)
  BY <1>1, <1>2, <1>3 DEF Next
<1>5. q = p
  BY <1>4 DEF Replace, TypeOK
<1>6. QED
  BY <1>4, <1>5

\* No mutation is lost: a writer replaces the very revision its caller measured
\* (expected_revision, compared before the document is prepared) by the next.
THEOREM CompareAndSwap == Spec => NoLostUpdate
<1>1. ASSUME IInv, [Next]_vars, NEW p \in Callers,
             pc[p] = "writing", pc'[p] = "written"
      PROVE  call[p].expected = disk.revision /\ disk'.revision = disk.revision + 1
  <2>1. Replace(p)
    BY <1>1, WrittenStep DEF IInv
  <2>2. QED
    BY <1>1, <2>1 DEF Replace, IInv, WritingInv
<1>2. IInv /\ [Next]_vars =>
        [\A p \in Callers : pc[p] = "writing" /\ pc'[p] = "written" =>
            /\ call[p].expected = disk.revision
            /\ disk'.revision = disk.revision + 1]_vars
  BY <1>1
<1>3. QED
  BY <1>2, Invariance, PTL DEF Spec, NoLostUpdate

\* The list of claims is append-only history (release and retirement change a
\* claim's state in place, claim appends), and a session that has ended is not
\* renewed (heartbeat refuses it).
THEOREM History == Spec => HistoryKept
<1>1. ASSUME IInv, [Next]_vars, NEW i \in DOMAIN disk.claims
      PROVE  /\ i \in DOMAIN disk'.claims
             /\ disk'.claims[i].terms = disk.claims[i].terms
             /\ disk'.claims[i].heartbeat >= disk.claims[i].heartbeat
             /\ ~Active(disk.claims[i]) =>
                   disk'.claims[i].heartbeat = disk.claims[i].heartbeat
             /\ disk.claims[i].state = "closed" => disk'.claims[i].state = "closed"
             /\ disk.claims[i].state = "abandoned" =>
                   disk'.claims[i].state \in {"abandoned", "closed"}
  <2>1. disk.claims \in Seq(Claim)
    BY <1>1 DEF IInv, TypeOK, Document
  <2>2. disk.claims[i] \in Claim
    BY <2>1
  <2>3. CASE disk' = disk
    BY <2>2, <2>3 DEF Claim
  <2>4. CASE \E p \in Callers : Replace(p)
    <3>1. PICK p \in Callers : Replace(p)
      BY <2>4
    <3>2. i \in DOMAIN disk'.claims /\ Succeeds(p, disk.claims[i], disk'.claims[i])
      BY <1>1, <3>1 DEF Replace, IInv, WritingInv
    <3>3. QED
      BY <2>2, <3>2 DEF Succeeds, Claim, Active, ActiveStates
  <2>5. QED
    BY <1>1, <2>3, <2>4, DiskStep
<1>2. IInv /\ [Next]_vars =>
        [\A i \in DOMAIN disk.claims :
            /\ i \in DOMAIN disk'.claims
            /\ disk'.claims[i].terms = disk.claims[i].terms
            /\ disk'.claims[i].heartbeat >= disk.claims[i].heartbeat
            /\ ~Active(disk.claims[i]) =>
                  disk'.claims[i].heartbeat = disk.claims[i].heartbeat
            /\ disk.claims[i].state = "closed" => disk'.claims[i].state = "closed"
            /\ disk.claims[i].state = "abandoned" =>
                  disk'.claims[i].state \in {"abandoned", "closed"}]_vars
  BY <1>1
<1>3. QED
  BY <1>2, Invariance, PTL DEF Spec, HistoryKept

\* Only a caller with the lease token ends a session or renews its lease
\* (_owned_claim), whoever else is writing.
THEOREM TokenRequired == Spec => OnlyHolderActs
<1>1. ASSUME IInv, [Next]_vars, NEW i \in DOMAIN disk.claims,
             \/ disk'.claims[i].state # disk.claims[i].state
                   /\ disk'.claims[i].state = "closed"
             \/ disk'.claims[i].heartbeat # disk.claims[i].heartbeat
      PROVE  \E p \in Callers :
                /\ pc[p] = "writing"
                /\ call[p].target.sid = disk.claims[i].terms.sid
                /\ call[p].target.token = disk.claims[i].terms.token
  <2>1. PICK p \in Callers : Replace(p)
    BY <1>1, DiskStep
  <2>2. Succeeds(p, disk.claims[i], disk'.claims[i]) /\ pc[p] = "writing"
    BY <1>1, <2>1 DEF Replace, IInv, WritingInv
  <2>3. QED
    BY <1>1, <2>2 DEF Succeeds
<1>2. IInv /\ [Next]_vars =>
        [\A i \in DOMAIN disk.claims :
            \/ disk'.claims[i].state # disk.claims[i].state
                  /\ disk'.claims[i].state = "closed"
            \/ disk'.claims[i].heartbeat # disk.claims[i].heartbeat
            => \E p \in Callers :
                  /\ pc[p] = "writing"
                  /\ call[p].target.sid = disk.claims[i].terms.sid
                  /\ call[p].target.token = disk.claims[i].terms.token]_vars
  BY <1>1
<1>3. QED
  BY <1>2, Invariance, PTL DEF Spec, OnlyHolderActs
----------------------------------------------------------------------------
\* The document on disk meets its own contract, and a spoilt one is kept.

\* No two active claims on disk share a session id, a worktree or an exclusive
\* resource (_commit validates what it writes, and nobody writes in between).
THEOREM ValidOnDisk == Spec => []DiskValid
<1>1. IInv => DiskValid
  BY DEF IInv
<1>2. QED
  BY <1>1, Invariance, PTL

\* A caller is writing because it has just prepared its document, or was writing
\* already, with the lock keeping everybody else off the file.
LEMMA WritingStep ==
    ASSUME IInv, [Next]_vars, NEW p \in Callers, pc'[p] = "writing"
    PROVE  /\ disk' = disk
           /\ \/ Prepare(p)
              \/ /\ pc[p] = "writing" /\ UNCHANGED <<doc[p], call[p]>>
                 /\ damaged' => damaged
<1>0. TypeOK /\ LockInv
  BY DEF IInv
<1>1. ASSUME NEW q \in Callers, Begin(q)
      PROVE  disk' = disk /\ damaged' = damaged /\ pc[p] = "writing"
             /\ UNCHANGED <<doc[p], call[p]>>
  BY <1>0, <1>1 DEF Begin, InvokeInspect, InvokeEvaluate, InvokeClaim, InvokeOpen,
                    InvokeOwned, InvokeClose, Invoke, TypeOK
<1>2. ASSUME NEW q \in Callers, Leave(q, result'[q])
      PROVE  disk' = disk /\ damaged' = damaged /\ pc[p] = "writing"
             /\ UNCHANGED <<doc[p], call[p]>>
  BY <1>0, <1>2 DEF Leave, TypeOK
<1>3. ASSUME NEW q \in Callers, Acquire(q) \/ InspectThenMutate(q)
      PROVE  disk' = disk /\ damaged' = damaged /\ pc[p] = "writing"
             /\ UNCHANGED <<doc[p], call[p]>>
  BY <1>0, <1>3 DEF Acquire, InspectThenMutate, TypeOK
<1>4. ASSUME NEW q \in Callers, Prepare(q), q # p
      PROVE  FALSE
  BY <1>0, <1>4 DEF Prepare, Permitted, Measured, Read, TypeOK, LockInv, Critical
<1>5. ASSUME NEW q \in Callers, Replace(q)
      PROVE  FALSE
  BY <1>0, <1>5 DEF Replace, TypeOK, LockInv, Critical
<1>6. ASSUME World
      PROVE  disk' = disk /\ damaged' = damaged /\ pc[p] = "writing"
             /\ UNCHANGED <<doc[p], call[p]>>
  BY <1>0, <1>6, CallerAssumption DEF World, Tick, Damage, OwnerDies, HostLost, HostBack,
      worldUnchanged, LockInv, Critical
<1>7. ASSUME NEW q \in Callers, Proceed(q) \/ Crash(q)
      PROVE  \/ Leave(q, result'[q]) \/ Acquire(q) \/ InspectThenMutate(q)
             \/ Prepare(q) \/ Replace(q)
  <2>1. ASSUME NEW o, Leave(q, o) PROVE Leave(q, result'[q])
    BY <1>0, <2>1 DEF Leave, TypeOK
  <2>2. QED
    BY <1>7, <2>1 DEF Proceed, Crash, TimeOut, Inspect, Evaluate, RefuseUnreadable,
        RefuseStale, RefuseConflict, RefuseUnknown, RefuseToken, RefuseInactive,
        RefuseInvalid, WriteFails, Return, ReturnUnverified, Refuse
<1>8. Prepare(p) => disk' = disk
  BY DEF Prepare
<1>9. CASE UNCHANGED vars
  BY <1>9 DEF vars
<1>10. QED
  BY <1>1, <1>2, <1>3, <1>4, <1>5, <1>6, <1>7, <1>8, <1>9 DEF Next

\* A document abandons a claim that was active only if the claim was found stale.
LEMMA AbandonsStale ==
    ASSUME IInv, NEW p \in Callers, Permitted(p), NEW i \in DOMAIN disk.claims,
           Active(disk.claims[i]), Amended(p)[i].state = "abandoned"
    PROVE  Stale(disk.claims[i])
<1> DEFINE c == disk.claims[i]
<1>0. disk.claims \in Seq(Claim)
  BY DEF IInv, TypeOK, Document
<1>1. c \in Claim
  BY <1>0
<1>2. Succeeds(p, c, Amended(p)[i]) /\ c.state # "abandoned"
  BY AmendedClaims DEF Active, ActiveStates
<1>3. call[p].op = "claim"
  BY <1>2 DEF Succeeds
<1>4. Amended(p)[i] = Retired(disk.claims)[i]
  <2> DEFINE old == Retired(disk.claims)
  <2>1. old \in Seq(Claim) /\ DOMAIN old = DOMAIN disk.claims
    BY <1>0, RetiredType
  <2>2. \E new : Amended(p) = Append(old, new)
    BY <1>3 DEF Amended, Claimed
  <2>3. QED
    BY <2>1, <2>2
<1>5. Retired(disk.claims)[i] = IF Stale(c) THEN [c EXCEPT !.state = "abandoned"] ELSE c
  BY DEF Retired
<1>6. QED
  BY <1>2, <1>4, <1>5

\* A claim is judged abandoned only when the lease recorded on disk has run out
\* and the probe finds the process dead, or its host gone (_retire_proven_stale);
\* and when the file is replaced, no heartbeat has slipped in between, and an
\* owner on this host is dead still.  (A host may have come back.)
THEOREM ProofOfAbandonment == Spec => AbandonedOnlyWithProof
<1>1. ASSUME IInv, [Next]_vars, NEW i \in DOMAIN disk.claims, Active(disk.claims[i]),
             NEW p \in Callers, pc[p] = "locked", pc'[p] = "writing",
             doc'[p].claims[i].state = "abandoned"
      PROVE  /\ now > Expires(disk.claims[i])
             /\ probe[disk.claims[i].terms.agent] \in {"dead", "unreachable"}
  <2>1. Prepare(p)
    BY <1>1, WritingStep
  <2>2. Permitted(p) /\ doc'[p].claims = Amended(p)
    BY <1>1, <2>1 DEF Prepare, IInv, TypeOK
  <2>3. Stale(disk.claims[i])
    BY <1>1, <2>2, AbandonsStale
  <2>4. QED
    BY <2>3 DEF Stale
<1>2. ASSUME IInv, [Next]_vars, NEW i \in DOMAIN disk.claims,
             Active(disk.claims[i]), disk'.claims[i].state = "abandoned"
      PROVE  /\ now > Expires(disk.claims[i])
             /\ \/ disk.claims[i].terms.agent \in Remote
                \/ probe[disk.claims[i].terms.agent] = "dead"
  <2>1. disk' # disk
    BY <1>2 DEF Active, ActiveStates
  <2>2. PICK p \in Callers : Replace(p)
    BY <1>2, <2>1, DiskStep
  <2>3. Succeeds(p, disk.claims[i], disk'.claims[i])
    BY <1>2, <2>2 DEF Replace, IInv, WritingInv
  <2>4. QED
    BY <1>2, <2>3 DEF Succeeds, Active, ActiveStates
<1>3. IInv /\ [Next]_vars =>
        [\A i \in DOMAIN disk.claims : Active(disk.claims[i]) =>
            LET owner == disk.claims[i].terms.agent
                expired == now > Expires(disk.claims[i])
            IN  /\ \A p \in Callers :
                      /\ pc[p] = "locked" /\ pc'[p] = "writing"
                      /\ doc'[p].claims[i].state = "abandoned"
                      => expired /\ probe[owner] \in {"dead", "unreachable"}
                /\ disk'.claims[i].state = "abandoned" =>
                      expired /\ (owner \notin Remote => probe[owner] = "dead")]_vars
  BY <1>1, <1>2
<1>4. QED
  BY <1>3, Invariance, PTL DEF Spec, AbandonedOnlyWithProof

\* Nobody writes over a spoilt file: what is written was prepared from a file
\* that could be read, under the lock.
UnspoiltInv == \A p \in Callers : pc[p] = "writing" => ~damaged

LEMMA UnspoiltInvariance == Spec => []UnspoiltInv
<1>1. Init => UnspoiltInv
  BY DEF Init, UnspoiltInv
<1>2. ASSUME IInv, UnspoiltInv, [Next]_vars
      PROVE  UnspoiltInv'
  <2>1. ASSUME NEW p \in Callers, pc'[p] = "writing" PROVE ~damaged'
    <3>1. CASE Prepare(p)
      BY <3>1 DEF Prepare, Permitted, Measured, Read
    <3>2. CASE ~Prepare(p)
      BY <1>2, <2>1, <3>2, WritingStep DEF UnspoiltInv
    <3>3. QED
      BY <3>1, <3>2
  <2>2. QED
    BY <2>1 DEF UnspoiltInv
<1>3. QED
  BY <1>1, <1>2, Invariance, PTL DEF Spec

\* A registry that was found invalid is left as it is, as evidence
\* (_mutation_document refuses before _commit can run).
THEOREM DamageKept == Spec => DamageNotOverwritten
<1>1. ASSUME IInv, UnspoiltInv, [Next]_vars, damaged
      PROVE  UNCHANGED <<disk, damaged>>
  <2>1. disk' = disk
    BY <1>1, DiskStep DEF Replace, UnspoiltInv
  <2>2. damaged' = damaged
    <3>1. ASSUME NEW p \in Callers, Begin(p) PROVE damaged' = damaged
      BY <3>1 DEF Begin, InvokeInspect, InvokeEvaluate, InvokeClaim, InvokeOpen,
                  InvokeOwned, InvokeClose, Invoke
    <3>2. ASSUME NEW p \in Callers, Proceed(p) \/ Crash(p) PROVE damaged' = damaged
      BY <3>2 DEF Proceed, Crash, Acquire, TimeOut, Inspect, InspectThenMutate, Evaluate,
              RefuseUnreadable, RefuseStale, RefuseConflict, RefuseUnknown, RefuseToken,
              RefuseInactive, RefuseInvalid, Prepare, WriteFails, Replace, Return,
              ReturnUnverified, Refuse, Leave
    <3>3. World => damaged' = damaged
      BY <1>1 DEF World, Tick, Damage, OwnerDies, HostLost, HostBack
    <3>4. QED
      BY <1>1, <3>1, <3>2, <3>3 DEF Next, vars
  <2>3. QED
    BY <2>1, <2>2
<1>2. IInv /\ UnspoiltInv /\ [Next]_vars =>
        [damaged => UNCHANGED <<disk, damaged>>]_vars
  BY <1>1
<1>3. QED
  BY <1>2, Invariance, UnspoiltInvariance, PTL DEF Spec, DamageNotOverwritten
----------------------------------------------------------------------------
\* The refinement of the ownership service.

\* Which claims a caller is about to write, beyond how each follows from its
\* predecessor: the same ones, or one more that stands in nobody's way.
Added(p) ==
    LET n == Len(disk.claims) + 1
    IN  /\ DOMAIN doc[p].claims = DOMAIN disk.claims \cup {n}
        /\ n \notin DOMAIN disk.claims
        /\ doc[p].claims[n].terms = call[p].target
        /\ doc[p].claims[n].state = call[p].target.state
        /\ \A i \in DOMAIN disk.claims :
              Active(doc[p].claims[i]) =>
                  ~SessionsClash(disk.claims[i].terms, call[p].target)

ShapeInv ==
    \A p \in Callers : pc[p] = "writing" =>
        /\ call[p].op \in Owned => DOMAIN doc[p].claims = DOMAIN disk.claims
        /\ call[p].op = "claim" => Added(p)

\* A retired list holds the same claims, the stale ones abandoned.
LEMMA RetiredActive ==
    ASSUME NEW claims, NEW i \in DOMAIN claims, claims[i] \in Claim
    PROVE  /\ Retired(claims)[i].terms = claims[i].terms
           /\ Retired(claims)[i].heartbeat = claims[i].heartbeat
           /\ Active(Retired(claims)[i]) <=> Active(claims[i]) /\ ~Stale(claims[i])
           /\ ~Stale(claims[i]) => Retired(claims)[i] = claims[i]
           /\ Stale(claims[i]) => Retired(claims)[i].state = "abandoned"
<1>1. Retired(claims)[i] = IF Stale(claims[i])
                           THEN [claims[i] EXCEPT !.state = "abandoned"] ELSE claims[i]
  BY DEF Retired
<1>2. CASE Stale(claims[i])
  BY <1>1, <1>2 DEF Claim, Active, ActiveStates
<1>3. CASE ~Stale(claims[i])
  BY <1>1, <1>3
<1>4. QED
  BY <1>2, <1>3

LEMMA ShapeInvariance == Spec => []ShapeInv
<1>1. Init => ShapeInv
  BY DEF Init, ShapeInv
<1>2. ASSUME IInv, ShapeInv, [Next]_vars
      PROVE  ShapeInv'
  <2> SUFFICES ASSUME NEW p \in Callers, pc'[p] = "writing"
               PROVE  (/\ call[p].op \in Owned => DOMAIN doc[p].claims = DOMAIN disk.claims
                       /\ call[p].op = "claim" => Added(p))'
    BY DEF ShapeInv
  <2>1. CASE ~Prepare(p)
    <3>1. pc[p] = "writing" /\ doc'[p] = doc[p] /\ call'[p] = call[p] /\ disk' = disk
      BY <1>2, <2>1, WritingStep
    <3>2. /\ call[p].op \in Owned => DOMAIN doc[p].claims = DOMAIN disk.claims
          /\ call[p].op = "claim" => Added(p)
      BY <1>2, <3>1 DEF ShapeInv
    <3>3. QED
      BY <3>1, <3>2 DEF Added, Active
  <2>2. CASE Prepare(p)
    <3>1. /\ disk' = disk /\ call' = call /\ Permitted(p)
          /\ doc'[p] = [revision |-> disk.revision + 1, claims |-> Amended(p)]
      BY <1>2, <2>2 DEF Prepare, IInv, TypeOK
    <3>2. doc'[p].claims = Amended(p)
      BY <3>1
    <3>3. disk.claims \in Seq(Claim) /\ \A i \in DOMAIN disk.claims : disk.claims[i] \in Claim
      BY <1>2 DEF IInv, TypeOK, Document
    <3>4. CASE call[p].op \in Owned
      <4>1. DOMAIN Amended(p) = DOMAIN disk.claims
        BY <3>4 DEF Amended, Owned
      <4>2. QED
        BY <3>1, <3>2, <3>4, <4>1 DEF Owned
    <3>5. CASE call[p].op = "claim"
      <4> DEFINE old == Retired(disk.claims)
                 n == Len(disk.claims) + 1
                 new == [terms |-> call[p].target, state |-> call[p].target.state,
                         heartbeat |-> call[p].at]
      <4>1. Amended(p) = Append(old, new)
        BY <3>5 DEF Amended, Claimed
      <4>2. old \in Seq(Claim) /\ DOMAIN old = DOMAIN disk.claims /\ Len(old) = Len(disk.claims)
        BY <3>3, RetiredType
      <4>3. /\ DOMAIN Amended(p) = DOMAIN disk.claims \cup {n}
            /\ n \notin DOMAIN disk.claims
            /\ Amended(p)[n] = new
            /\ \A i \in DOMAIN disk.claims : Amended(p)[i] = old[i]
        BY <3>3, <4>1, <4>2
      <4>4. Conflicts(old, call[p].target) = {}
        BY <3>1, <3>5 DEF Permitted, Claiming, Heartbeating, Releasing
      <4>5. ASSUME NEW i \in DOMAIN disk.claims, Active(old[i])
            PROVE  ~SessionsClash(disk.claims[i].terms, call[p].target)
        <5>1. old[i].terms = disk.claims[i].terms
          BY <3>3, RetiredActive
        <5>2. i \notin Conflicts(old, call[p].target)
          BY <4>4
        <5> HIDE DEF old
        <5>3. QED
          BY <4>2, <4>5, <5>1, <5>2 DEF Conflicts, SessionsClash
      <4> HIDE DEF old, new
      <4>6. new.terms = call[p].target /\ new.state = call[p].target.state
        BY DEF new
      <4>7. QED
        BY <3>1, <3>2, <3>5, <4>3, <4>5, <4>6 DEF Added, Active, Owned
    <3>6. QED
      BY <3>1, <3>4, <3>5
  <2>3. QED
    BY <2>1, <2>2
<1>3. QED
  BY <1>1, <1>2, Invariance, PTL DEF Spec

Held == {disk.claims[i].terms : i \in {j \in DOMAIN disk.claims : Active(disk.claims[j])}}
Past == {disk.claims[i].terms.sid : i \in {j \in DOMAIN disk.claims : ~Active(disk.claims[j])}}
Alive == {a \in Agents : probe[a] = "live"}

\* A claim that is written is a session taken in the place of the claims it
\* retires; their owners are gone, and nothing that stays is in its way.
LEMMA ClaimTakes ==
    ASSUME IInv, ShapeInv, NEW p \in Callers, Replace(p), call[p].op = "claim"
    PROVE  Service!Next
<1> DEFINE C == disk.claims
           D == doc[p].claims
           q == call[p].target
           n == Len(disk.claims) + 1
           gone == {i \in DOMAIN C : Active(C[i]) /\ ~Active(D[i])}
           lapsed == {C[i].terms : i \in gone}
<1>1. /\ disk'.claims = D /\ probe' = probe
      /\ \A i \in DOMAIN C : C[i] \in Claim
      /\ ValidClaims(C) /\ ValidClaims(D)
  <2>1. C \in Seq(Claim)
    BY DEF IInv, TypeOK, Document
  <2>2. QED
    BY <2>1 DEF Replace, IInv, DiskValid, WritingInv
<1>2. /\ DOMAIN D = DOMAIN C \cup {n} /\ n \notin DOMAIN C
      /\ D[n].terms = q /\ D[n].state = q.state
      /\ \A i \in DOMAIN C : Active(D[i]) => ~SessionsClash(C[i].terms, q)
  BY DEF ShapeInv, Added, Replace
<1>3. ASSUME NEW i \in DOMAIN C
      PROVE  /\ D[i].terms = C[i].terms
             /\ Active(D[i]) => Active(C[i])
             /\ i \in gone => probe[C[i].terms.agent] # "live"
  BY <1>1 DEF Replace, IInv, WritingInv, Succeeds, Active, ActiveStates
<1>4. \A i, j \in DOMAIN D : i # j => D[i].terms.sid # D[j].terms.sid
  BY <1>1 DEF ValidClaims, ClaimsCompatible
<1>5. q \in Proposals
  <2>1. call[p] \in Call
    BY DEF IInv, TypeOK, NoCall
  <2>2. QED
    BY <2>1 DEF Call, Owned
<1> HIDE DEF C, D, q, n
<1>6. lapsed \subseteq {h \in Held : h.agent \notin Alive}
  BY <1>3 DEF Held, Alive, C
<1>7. q.sid \notin Past \cup Service!Ids(Held)
  <2>1. ASSUME NEW i \in DOMAIN C PROVE C[i].terms.sid # q.sid
    BY <1>2, <1>3, <1>4
  <2>2. QED
    BY <2>1 DEF Past, Held, Service!Ids, C
<1>8. \A h \in Held \ lapsed : ~SessionsClash(h, q)
  <2> SUFFICES ASSUME NEW h \in Held, h \notin lapsed PROVE ~SessionsClash(h, q)
    OBVIOUS
  <2>1. PICK i \in DOMAIN C : Active(C[i]) /\ h = C[i].terms
    BY DEF Held, C
  <2>2. Active(D[i])
    BY <2>1
  <2>3. QED
    BY <1>2, <2>1, <2>2
<1>9. Active(D[n]) <=> AsksActive(q)
  BY <1>2 DEF Active, AsksActive
<1>10. Held' = (Held \ lapsed) \cup {g \in {q} : AsksActive(g)}
  <2>1. Held' = {D[i].terms : i \in {j \in DOMAIN D : Active(D[j])}}
    BY <1>1 DEF Held, Active
  <2>2. ASSUME NEW h \in Held' PROVE h \in (Held \ lapsed) \cup {g \in {q} : AsksActive(g)}
    <3>1. PICK i \in DOMAIN D : Active(D[i]) /\ h = D[i].terms
      BY <2>1, <2>2
    <3>2. CASE i = n
      BY <1>2, <1>9, <3>1, <3>2
    <3>3. CASE i # n
      <4>1. i \in DOMAIN C /\ Active(C[i]) /\ h = C[i].terms
        BY <1>2, <1>3, <3>1, <3>3
      <4>2. h \notin lapsed
        BY <1>2, <1>3, <1>4, <3>1, <4>1
      <4>3. QED
        BY <4>1, <4>2 DEF Held, C
    <3>4. QED
      BY <3>2, <3>3
  <2>3. ASSUME NEW h \in (Held \ lapsed) \cup {g \in {q} : AsksActive(g)} PROVE h \in Held'
    <3>1. CASE h \in Held \ lapsed
      <4>1. PICK i \in DOMAIN C : Active(C[i]) /\ h = C[i].terms
        BY <3>1 DEF Held, C
      <4>2. Active(D[i]) /\ i \in DOMAIN D /\ h = D[i].terms
        BY <1>2, <1>3, <3>1, <4>1
      <4>3. QED
        BY <2>1, <4>2
    <3>2. CASE h = q /\ AsksActive(q)
      BY <1>2, <1>9, <2>1, <3>2
    <3>3. QED
      BY <2>3, <3>1, <3>2
  <2>4. QED
    BY <2>2, <2>3
<1>11. Past' = Past \cup Service!Ids(lapsed) \cup {g.sid : g \in {g \in {q} : ~AsksActive(g)}}
  <2>1. Past' = {D[i].terms.sid : i \in {j \in DOMAIN D : ~Active(D[j])}}
    BY <1>1 DEF Past, Active
  <2>2. Past = {C[i].terms.sid : i \in {j \in DOMAIN C : ~Active(C[j])}}
    BY DEF Past, C
  <2>3. Service!Ids(lapsed) = {C[i].terms.sid : i \in gone}
    BY DEF Service!Ids
  <2>4. {i \in DOMAIN D : ~Active(D[i])}
          = {i \in DOMAIN C : ~Active(C[i])} \cup gone \cup {i \in {n} : ~AsksActive(q)}
    BY <1>2, <1>3, <1>9
  <2>5. \A i \in DOMAIN C : D[i].terms.sid = C[i].terms.sid
    BY <1>3
  <2>6. QED
    BY <1>2, <2>1, <2>2, <2>3, <2>4, <2>5
<1>12. Alive' = Alive
  BY <1>1 DEF Alive
<1>13. Service!Take(q, lapsed)
  BY <1>6, <1>7, <1>8, <1>10, <1>11, <1>12 DEF Service!Take, Held, Past, Alive
<1>14. lapsed \in SUBSET Held
  BY <1>6
<1>15. \E g \in Proposals, S \in SUBSET Held : Service!Take(g, S)
  <2> HIDE DEF lapsed
  <2>1. QED
    BY <1>5, <1>13, <1>14 DEF Service!Take
<1>16. QED
  BY <1>15 DEF Service!Next, Held

\* A heartbeat and a release keep the list; a release ends at most one session.
LEMMA OwnedEnds ==
    ASSUME IInv, ShapeInv, NEW p \in Callers, Replace(p), call[p].op \in Owned
    PROVE  [Service!Next]_<<Held, Past, Alive>>
<1> DEFINE C == disk.claims
           D == doc[p].claims
<1>1. /\ disk'.claims = D /\ probe' = probe
      /\ ValidClaims(C) /\ DOMAIN D = DOMAIN C
  BY DEF Replace, IInv, DiskValid, WritingInv, ShapeInv
<1>2. ASSUME NEW i \in DOMAIN C
      PROVE  /\ D[i].terms = C[i].terms
             /\ ~Active(C[i]) => ~Active(D[i])
             /\ Active(C[i]) /\ ~Active(D[i]) => C[i].terms.sid = call[p].target.sid
             /\ C[i].terms.sid # call[p].target.sid => D[i] = C[i]
  BY DEF Replace, IInv, WritingInv, Succeeds, Active, ActiveStates, Owned
<1>3. \A i, j \in DOMAIN C : i # j => C[i].terms.sid # C[j].terms.sid
  BY <1>1 DEF ValidClaims, ClaimsCompatible
<1>4. /\ Held = {C[i].terms : i \in {j \in DOMAIN C : Active(C[j])}}
      /\ Past = {C[i].terms.sid : i \in {j \in DOMAIN C : ~Active(C[j])}}
  BY DEF Held, Past
<1>5. /\ Held' = {C[i].terms : i \in {j \in DOMAIN C : Active(D[j])}}
      /\ Past' = {C[i].terms.sid : i \in {j \in DOMAIN C : ~Active(D[j])}}
  <2>1. /\ Held' = {D[i].terms : i \in {j \in DOMAIN D : Active(D[j])}}
        /\ Past' = {D[i].terms.sid : i \in {j \in DOMAIN D : ~Active(D[j])}}
    BY <1>1 DEF Held, Past, Active
  <2>2. \A i \in DOMAIN C : D[i].terms = C[i].terms
    BY <1>2
  <2>3. QED
    BY <1>1, <2>1, <2>2
<1>6. Alive' = Alive
  BY <1>1 DEF Alive
<1> HIDE DEF C, D
<1>7. CASE \E i \in DOMAIN C : Active(C[i]) /\ ~Active(D[i])
  <2>1. PICK k \in DOMAIN C : Active(C[k]) /\ ~Active(D[k])
    BY <1>7
  <2>2. \A i \in DOMAIN C : i # k => (Active(D[i]) <=> Active(C[i]))
    BY <1>2, <1>3, <2>1
  <2>3. C[k].terms \in Held
    BY <1>4, <2>1
  <2>4. Held' = Held \ {C[k].terms}
    <3>1. \A i \in DOMAIN C : i # k => C[i].terms # C[k].terms
      BY <1>3, <2>1
    <3>2. {i \in DOMAIN C : Active(D[i])} = {i \in DOMAIN C : Active(C[i])} \ {k}
      BY <2>1, <2>2
    <3>3. QED
      BY <1>4, <1>5, <2>1, <3>1, <3>2
  <2>5. Past' = Past \cup {C[k].terms.sid}
    <3>1. {i \in DOMAIN C : ~Active(D[i])} = {i \in DOMAIN C : ~Active(C[i])} \cup {k}
      BY <2>1, <2>2
    <3>2. QED
      BY <1>4, <1>5, <3>1
  <2>6. \E q \in Held : Service!End(q)
    <3>1. Service!End(C[k].terms)
      BY <1>6, <2>3, <2>4, <2>5 DEF Service!End, Held, Past, Alive
    <3>2. QED
      BY <2>3, <3>1 DEF Service!End
  <2>7. QED
    BY <2>6 DEF Service!Next, Held
<1>8. CASE \A i \in DOMAIN C : Active(C[i]) => Active(D[i])
  <2>1. \A i \in DOMAIN C : Active(D[i]) <=> Active(C[i])
    BY <1>2, <1>8
  <2>2. Held' = Held /\ Past' = Past
    BY <1>4, <1>5, <2>1
  <2>3. QED
    BY <1>6, <2>2
<1>9. QED
  BY <1>7, <1>8

\* Apart from that, the service sees only the owners that die.
LEMMA WorldDies ==
    ASSUME IInv, World
    PROVE  [Service!Next]_<<Held, Past, Alive>>
<1>1. Held' = Held /\ Past' = Past
  BY DEF World, Tick, Damage, OwnerDies, HostLost, HostBack, worldUnchanged, Held, Past, Active
<1>2. probe \in [Agents -> {"live", "dead", "unknown", "unreachable"}]
  BY DEF IInv, TypeOK
<1>3. CASE \E a \in Agents : OwnerDies(a)
  <2>1. PICK a \in Agents : OwnerDies(a)
    BY <1>3
  <2>2. a \in Alive /\ Alive' = Alive \ {a}
    BY <1>2, <2>1 DEF OwnerDies, Alive
  <2>3. \E b \in Agents : Service!Die(b)
    <3>1. Service!Die(a)
      BY <1>1, <2>2 DEF Service!Die, Held, Past, Alive
    <3>2. QED
      BY <3>1 DEF Service!Die
  <2>4. QED
    BY <2>3 DEF Service!Next
<1>4. CASE Tick \/ Damage \/ \E a \in Agents : HostLost(a) \/ HostBack(a)
  <2>1. Alive' = Alive
    BY <1>2, <1>4 DEF Tick, Damage, HostLost, HostBack, Alive
  <2>2. QED
    BY <1>1, <2>1
<1>5. QED
  BY <1>3, <1>4 DEF World

LEMMA NextImplements ==
    ASSUME IInv, ShapeInv, [Next]_vars
    PROVE  [Service!Next]_<<Held, Past, Alive>>
<1>1. ASSUME NEW p \in Callers, Replace(p)
      PROVE  [Service!Next]_<<Held, Past, Alive>>
  <2>1. call[p].op = "claim" \/ call[p].op \in Owned
    BY <1>1 DEF Replace, IInv, WritingInv, Mutations
  <2>2. QED
    BY <1>1, <2>1, ClaimTakes, OwnedEnds
<1>2. ASSUME NEW p \in Callers, Begin(p)
      PROVE  UNCHANGED <<disk, probe>>
  BY <1>2 DEF Begin, InvokeInspect, InvokeEvaluate, InvokeClaim, InvokeOpen,
              InvokeOwned, InvokeClose, Invoke
<1>3. ASSUME NEW p \in Callers, Proceed(p) \/ Crash(p), ~Replace(p)
      PROVE  UNCHANGED <<disk, probe>>
  BY <1>3 DEF Proceed, Crash, Acquire, TimeOut, Inspect, InspectThenMutate, Evaluate,
              RefuseUnreadable, RefuseStale, RefuseConflict, RefuseUnknown, RefuseToken,
              RefuseInactive, RefuseInvalid, Prepare, WriteFails, Return,
              ReturnUnverified, Refuse, Leave
<1>4. UNCHANGED <<disk, probe>> => UNCHANGED <<Held, Past, Alive>>
  BY DEF Held, Past, Alive, Active
<1>5. QED
  BY <1>1, <1>2, <1>3, <1>4, WorldDies DEF Next, vars

\* The registry keeps the promise of Ownership: every write of the document is one
\* session taken or ended, none is given away that clashes with one that stays, and
\* none is taken from an owner whose process lives.
THEOREM Implementation == Spec => ImplementsOwnership
<1>1. Init => Service!Init
  BY DEF Init, Service!Init, EmptyDocument
<1>2. IInv /\ ShapeInv /\ [Next]_vars => [Service!Next]_<<Held, Past, Alive>>
  BY NextImplements
<1>3. QED
  BY <1>1, <1>2, Invariance, ShapeInvariance, PTL
     DEF Spec, ImplementsOwnership, Service!Spec, Service!vars, Held, Past, Alive
----------------------------------------------------------------------------
\* What refusals mean.

\* A caller that is in no operation has no call, and one that is in an operation
\* has no result yet.
CallInv ==
    \A p \in Callers :
        /\ pc[p] = "idle" => call[p] = NoCall
        /\ pc[p] # "idle" => result[p] = "none"

LEMMA CallInvariance == Spec => []CallInv
<1>1. Init => CallInv
  BY DEF Init, CallInv
<1>2. ASSUME IInv, CallInv, [Next]_vars
      PROVE  CallInv'
  <2>0. TypeOK
    BY <1>2 DEF IInv
  <2>1. ASSUME NEW p \in Callers, NEW c, Invoke(p, c) PROVE CallInv'
    BY <1>2, <2>0, <2>1 DEF CallInv, Invoke, TypeOK
  <2>2. ASSUME NEW p \in Callers, NEW o, Leave(p, o) PROVE CallInv'
    BY <1>2, <2>0, <2>2 DEF CallInv, Leave, TypeOK
  <2>3. ASSUME NEW p \in Callers,
               Acquire(p) \/ InspectThenMutate(p) \/ Prepare(p) \/ Replace(p)
        PROVE  CallInv'
    <3>1. pc[p] # "idle" /\ UNCHANGED result
      BY <2>3 DEF Acquire, InspectThenMutate, Prepare, Permitted, Measured, Read, Replace
    <3>2. pc'[p] # "idle" /\ \A q \in Callers : q # p => pc'[q] = pc[q] /\ call'[q] = call[q]
      BY <2>0, <2>3 DEF Acquire, InspectThenMutate, Prepare, Replace, TypeOK
    <3>3. QED
      BY <1>2, <3>1, <3>2 DEF CallInv
  <2>4. CASE World \/ UNCHANGED vars
    BY <1>2, <2>4 DEF CallInv, World, Tick, Damage, OwnerDies, HostLost, HostBack,
                      worldUnchanged, vars
  <2>5. ASSUME NEW p \in Callers, Begin(p) PROVE CallInv'
    BY <2>1, <2>5 DEF Begin, InvokeInspect, InvokeEvaluate, InvokeClaim, InvokeOpen,
                      InvokeOwned, InvokeClose
  <2>6. ASSUME NEW p \in Callers, Proceed(p) \/ Crash(p) PROVE CallInv'
    BY <2>2, <2>3, <2>6 DEF Proceed, Crash, TimeOut, Inspect, Evaluate, RefuseUnreadable,
        RefuseStale, RefuseConflict, RefuseUnknown, RefuseToken, RefuseInactive,
        RefuseInvalid, WriteFails, Return, ReturnUnverified, Refuse
  <2>7. QED
    BY <1>2, <2>4, <2>5, <2>6 DEF Next
<1>3. QED
  BY <1>1, <1>2, Invariance, PTL DEF Spec

\* A caller comes out with an outcome of its own only by leaving its operation.
LEMMA OutcomeStep ==
    ASSUME IInv, CallInv, [Next]_vars, NEW p \in Callers, pc[p] # "idle",
           result'[p] \in {"ClaimConflict", "RegistryInvalid"}
    PROVE  RefuseConflict(p) \/ RefuseUnreadable(p) \/ RefuseInvalid(p)
<1>0. TypeOK /\ result[p] = "none"
  BY DEF IInv, CallInv
<1>1. ASSUME NEW q \in Callers, Begin(q) PROVE FALSE
  <2>1. PICK c : Invoke(q, c)
    BY <1>1 DEF Begin, InvokeInspect, InvokeEvaluate, InvokeClaim, InvokeOpen,
                InvokeOwned, InvokeClose
  <2>2. QED
    BY <1>0, <2>1 DEF Invoke, TypeOK
<1>2. ASSUME NEW q \in Callers, NEW o, Leave(q, o)
      PROVE  q = p /\ o = result'[p]
  BY <1>0, <1>2 DEF Leave, TypeOK
<1>3. ASSUME NEW q \in Callers,
             Acquire(q) \/ InspectThenMutate(q) \/ Prepare(q) \/ Replace(q)
      PROVE  FALSE
  BY <1>0, <1>3 DEF Acquire, InspectThenMutate, Prepare, Replace
<1>4. ~World /\ ~UNCHANGED vars
  BY <1>0 DEF World, Tick, Damage, OwnerDies, HostLost, HostBack, worldUnchanged, vars
<1>5. PICK q \in Callers : Proceed(q) \/ Crash(q)
  BY <1>1, <1>4 DEF Next
<1>6. CASE TimeOut(q) \/ Inspect(q) \/ Return(q) \/ Crash(q)
  BY <1>2, <1>6 DEF TimeOut, Inspect, Return, Crash
<1>7. CASE Evaluate(q)
  <2>1. PICK o \in {"clear", "conflicting"} : Leave(q, o)
    BY <1>7 DEF Evaluate
  <2>2. QED
    BY <1>2, <2>1
<1>8. CASE \/ RefuseStale(q) \/ RefuseUnknown(q) \/ RefuseToken(q) \/ RefuseInactive(q)
           \/ WriteFails(q) \/ ReturnUnverified(q)
  BY <1>2, <1>8 DEF RefuseStale, RefuseUnknown, RefuseToken, RefuseInactive, WriteFails,
                    ReturnUnverified, Refuse
<1>9. CASE RefuseConflict(q) \/ RefuseUnreadable(q) \/ RefuseInvalid(q)
  <2>1. \E o : Leave(q, o)
    BY <1>9 DEF RefuseConflict, RefuseUnreadable, RefuseInvalid, Refuse
  <2>2. q = p
    BY <1>2, <2>1
  <2>3. QED
    BY <1>9, <2>2
<1>10. QED
  BY <1>3, <1>5, <1>6, <1>7, <1>8, <1>9 DEF Proceed

\* Resources clash both ways.
LEMMA ClashSymmetric ==
    ASSUME NEW R, NEW S
    PROVE  ResourceClash(R, S) => ResourceClash(S, R)
BY DEF ResourceClash

\* Outside dirty pauses, a mutation that passed its own checks has built a valid
\* document, except a claim under an id that was used before, or of a proposal
\* that the contract refuses by itself.
LEMMA AmendedValid ==
    ASSUME IInv, NEW p \in Callers, Permitted(p),
           \A q \in Proposals : ~q.dirty,
           call[p].op = "claim" =>
               /\ Sound(call[p].target)
               /\ \A i \in DOMAIN disk.claims :
                     disk.claims[i].terms.sid # call[p].target.sid
    PROVE  ValidClaims(Amended(p))
<1> DEFINE C == disk.claims
           D == Amended(p)
<1>1. /\ C \in Seq(Claim) /\ D \in Seq(Claim) /\ ValidClaims(C)
      /\ \A i \in DOMAIN C : i \in DOMAIN D /\ Succeeds(p, C[i], D[i])
      /\ \A i \in DOMAIN C : C[i] \in Claim
  <2>1. C \in Seq(Claim)
    BY DEF IInv, TypeOK, Document
  <2>2. \A i \in DOMAIN C : C[i] \in Claim
    BY <2>1
  <2>3. QED
    BY <2>1, <2>2, AmendedClaims DEF IInv, DiskValid
<1>2. ASSUME NEW i \in DOMAIN C
      PROVE  /\ ValidClaim(D[i]) /\ Sound(D[i].terms) /\ D[i].terms = C[i].terms
             /\ Active(D[i]) => Active(C[i])
  <2>1. ValidClaim(C[i]) /\ Sound(C[i].terms) /\ Succeeds(p, C[i], D[i]) /\ ~C[i].terms.dirty
    BY <1>1 DEF ValidClaims, Claim
  <2>2. QED
    BY <2>1 DEF ValidClaim, Succeeds, Active, ActiveStates
<1>3. ASSUME NEW i \in DOMAIN C, NEW j \in DOMAIN C, i # j
      PROVE  ClaimsCompatible(D[i], D[j])
  <2>1. ClaimsCompatible(C[i], C[j])
    BY <1>1, <1>3 DEF ValidClaims
  <2>2. QED
    BY <1>2, <2>1 DEF ClaimsCompatible
<1>4. CASE call[p].op # "claim"
  <2>1. DOMAIN D = DOMAIN C
    BY <1>4 DEF Amended
  <2>2. QED
    BY <1>2, <1>3, <2>1 DEF ValidClaims
<1>5. CASE call[p].op = "claim"
  <2> DEFINE q == call[p].target
             new == [terms |-> q, state |-> q.state, heartbeat |-> call[p].at]
             old == Retired(C)
             n == Len(C) + 1
  <2>1. q \in Proposals
    <3>1. call[p] \in Call
      BY <1>5 DEF IInv, TypeOK, NoCall
    <3>2. QED
      BY <1>5, <3>1 DEF Call, Owned
  <2>2. /\ D = Append(old, new)
        /\ old \in Seq(Claim) /\ DOMAIN old = DOMAIN C /\ Len(old) = Len(C)
    BY <1>1, <1>5, RetiredType DEF Amended, Claimed
  <2>3. /\ DOMAIN D = DOMAIN C \cup {n} /\ n \notin DOMAIN C
        /\ D[n] = new
        /\ \A i \in DOMAIN C : D[i] = old[i]
    BY <1>1, <2>2
  <2>4. Conflicts(old, q) = {}
    BY <1>5 DEF Permitted, Claiming, Heartbeating, Releasing
  <2>5. ValidClaim(new) /\ Sound(new.terms)
    BY <1>5, <2>1, ProposalAssumption DEF ValidClaim
  <2>6. ASSUME NEW i \in DOMAIN C
        PROVE  ClaimsCompatible(D[i], new) /\ ClaimsCompatible(new, D[i])
    <3>1. D[i].terms = C[i].terms /\ C[i].terms.sid # q.sid /\ new.terms = q
      BY <1>2, <1>5
    <3>2. Active(D[i]) => D[i].terms.path # q.path
                          /\ ~ResourceClash(D[i].terms.resources, q.resources)
      <4>1. i \notin Conflicts(old, q) /\ i \in DOMAIN old /\ D[i] = old[i]
        BY <2>2, <2>3, <2>4
      <4> HIDE DEF D, old, q
      <4>2. QED
        BY <4>1 DEF Conflicts
    <3> HIDE DEF D, old, q, new
    <3>3. ResourceClash(q.resources, D[i].terms.resources)
            => ResourceClash(D[i].terms.resources, q.resources)
      BY ClashSymmetric
    <3>4. QED
      BY <3>1, <3>2, <3>3 DEF ClaimsCompatible
  <2> HIDE DEF D, new, C
  <2>7. \A i \in DOMAIN D : ValidClaim(D[i]) /\ Sound(D[i].terms)
    BY <1>2, <2>3, <2>5
  <2>8. \A i, j \in DOMAIN D : i # j => ClaimsCompatible(D[i], D[j])
    BY <1>3, <2>3, <2>6
  <2>9. QED
    BY <2>7, <2>8 DEF ValidClaims, D
<1>6. QED
  BY <1>4, <1>5

\* Where no session pauses with a dirty worktree, RegistryInvalid keeps its word:
\* no operation on a readable registry ends with it, except a claim whose own
\* proposal the contract refuses by itself or that reuses a session id: what others
\* have claimed never makes it impossible to claim, renew or release.  (With dirty pauses it does not, see the run registry_dirty_pause.)
THEOREM InvalidKeepsItsWord ==
    ASSUME \A q \in Proposals : ~q.dirty
    PROVE  Spec => InvalidMeansUnusable
<1>1. ASSUME IInv, CallInv, [Next]_vars, NEW p \in Callers,
             pc[p] = "locked", result'[p] = "RegistryInvalid"
      PROVE  \/ damaged
             \/ /\ call[p].op = "claim"
                /\ \/ ~Sound(call[p].target)
                   \/ \E i \in DOMAIN disk.claims :
                         disk.claims[i].terms.sid = call[p].target.sid
  <2>1. RefuseConflict(p) \/ RefuseUnreadable(p) \/ RefuseInvalid(p)
    BY <1>1, OutcomeStep
  <2>2. ~RefuseConflict(p)
    BY <1>1 DEF RefuseConflict, Refuse, Leave, IInv, TypeOK
  <2>3. CASE RefuseUnreadable(p)
    BY <2>3 DEF RefuseUnreadable
  <2>4. CASE RefuseInvalid(p)
    <3>1. Permitted(p) /\ ~ValidClaims(Amended(p))
      BY <2>4 DEF RefuseInvalid
    <3>2. QED
      BY <1>1, <3>1, AmendedValid
  <2>5. QED
    BY <2>1, <2>2, <2>3, <2>4
<1>2. IInv /\ CallInv /\ [Next]_vars =>
        [\A p \in Callers :
            pc[p] = "locked" /\ result'[p] = "RegistryInvalid" =>
                \/ damaged
                \/ /\ call[p].op = "claim"
                   /\ \/ ~Sound(call[p].target)
                      \/ \E i \in DOMAIN disk.claims :
                            disk.claims[i].terms.sid = call[p].target.sid]_vars
  BY <1>1
<1>3. QED
  BY <1>2, Invariance, CallInvariance, PTL DEF Spec, InvalidMeansUnusable

\* No claim that stays on the list, once the stale ones are retired, is in the way.
Free(q) ==
    \A i \in DOMAIN disk.claims :
        Active(disk.claims[i]) /\ ~Stale(disk.claims[i]) => ~SessionsClash(disk.claims[i].terms, q)

LEMMA FreeMeansNoConflict ==
    ASSUME TypeOK, NEW q
    PROVE  Conflicts(Retired(disk.claims), q) = {} <=> Free(q)
<1> DEFINE C == disk.claims
           old == Retired(C)
<1>1. \A i \in DOMAIN C : C[i] \in Claim
  <2>1. C \in Seq(Claim)
    BY DEF TypeOK, Document
  <2>2. QED
    BY <2>1
<1>2. DOMAIN old = DOMAIN C
  BY DEF Retired
<1>3. \A i \in DOMAIN C : /\ old[i].terms = C[i].terms
                          /\ Active(old[i]) <=> Active(C[i]) /\ ~Stale(C[i])
  BY <1>1, RetiredActive
<1> HIDE DEF old
<1>4. Conflicts(old, q) = {} <=> Free(q)
  BY <1>2, <1>3 DEF Conflicts, Free, SessionsClash
<1>5. QED
  BY <1>4 DEF old

\* What a caller was told of the revision it measured is still so.
AdviceInv ==
    \A p \in Callers :
        /\ seen[p] <= disk.revision
        /\ seen[p] = disk.revision => \A q \in advice[p] : Free(q)

LEMMA AdviceStep ==
    ASSUME IInv, AdviceInv, [Next]_vars, \A a \in Agents : ~HostBack(a)
    PROVE  AdviceInv'
<1>0. TypeOK /\ disk.revision \in Nat
  BY DEF IInv, TypeOK, Document
<1>1. CASE UNCHANGED <<disk, now, probe, seen, advice>>
  BY <1>1 DEF AdviceInv, Free, Stale, Active, Expires
<1>2. ASSUME NEW p \in Callers, Replace(p)
      PROVE  AdviceInv'
  <2>1. disk'.revision = disk.revision + 1 /\ UNCHANGED <<seen, advice>>
    BY <1>2 DEF Replace, IInv, WritingInv
  <2>2. \A q \in Callers : seen[q] \in Nat
    BY <1>0 DEF TypeOK
  <2>3. \A q \in Callers : seen'[q] < disk'.revision
    BY <1>0, <2>1, <2>2 DEF AdviceInv
  <2>4. \A q \in Callers : seen'[q] \in Nat /\ disk'.revision \in Nat
    BY <1>0, <2>1, <2>2
  <2>5. QED
    BY <2>3, <2>4 DEF AdviceInv
<1>3. ASSUME NEW p \in Callers, Inspect(p) \/ InspectThenMutate(p) \/ Return(p)
      PROVE  AdviceInv'
  <2>1. UNCHANGED <<disk, now, probe>>
    BY <1>3 DEF Inspect, InspectThenMutate, Return, Leave
  <2>2. PICK r \in {seen[p], disk.revision} : Measure(p, r)
    BY <1>3 DEF Inspect, InspectThenMutate, Return
  <2>3. \A q : Free(q)' <=> Free(q)
    BY <2>1 DEF Free, Stale, Active, Expires
  <2>4. /\ seen' = [seen EXCEPT ![p] = r]
        /\ advice' = [advice EXCEPT ![p] = IF r = seen[p] THEN advice[p] ELSE {}]
    BY <2>2 DEF Measure
  <2>5. \A q \in Callers :
          /\ seen'[q] = IF q = p THEN r ELSE seen[q]
          /\ advice'[q] = IF q = p /\ r # seen[p] THEN {} ELSE advice[q]
    BY <1>0, <2>4 DEF TypeOK
  <2>6. QED
    BY <1>0, <2>1, <2>2, <2>3, <2>5 DEF AdviceInv
<1>4. ASSUME NEW p \in Callers, Evaluate(p)
      PROVE  AdviceInv'
  <2> DEFINE q == call[p].target
             clear == Conflicts(Retired(disk.claims), q) = {}
  <2>1. UNCHANGED <<disk, now, probe>>
    BY <1>4 DEF Evaluate, Leave
  <2>2. \A g : Free(g)' <=> Free(g)
    BY <2>1 DEF Free, Stale, Active, Expires
  <2>3. clear <=> Free(q)
    BY <1>0, FreeMeansNoConflict
  <2> HIDE DEF clear
  <2>4. /\ seen' = [seen EXCEPT ![p] = disk.revision]
        /\ advice' = [advice EXCEPT ![p] =
              (IF disk.revision = seen[p] THEN advice[p] \ {q} ELSE {}) \cup {g \in {q} : clear}]
    BY <1>4 DEF Evaluate, clear
  <2> HIDE DEF q
  <2>5. \A c \in Callers :
          /\ seen'[c] = IF c = p THEN disk.revision ELSE seen[c]
          /\ c # p => advice'[c] = advice[c]
    BY <1>0, <2>4 DEF TypeOK
  <2>6. \A g \in advice'[p] : Free(g)
    <3>1. advice'[p] =
            (IF disk.revision = seen[p] THEN advice[p] \ {q} ELSE {}) \cup {g \in {q} : clear}
      BY <1>0, <2>4 DEF TypeOK
    <3>2. QED
      BY <2>3, <3>1 DEF AdviceInv
  <2>7. QED
    BY <1>0, <2>1, <2>2, <2>5, <2>6 DEF AdviceInv
<1>5. CASE World
  <2>1. /\ UNCHANGED <<disk, seen, advice>>
        /\ now' \in Nat /\ now <= now' /\ now \in Nat
        /\ \A a \in Agents : probe[a] \in {"dead", "unreachable"} => probe'[a] = probe[a]
    BY <1>0, <1>5 DEF World, Tick, Damage, OwnerDies, HostLost, worldUnchanged, TypeOK
  <2>2. \A i \in DOMAIN disk.claims : disk.claims[i].heartbeat \in Nat
                                      /\ disk.claims[i].terms.agent \in Agents
    <3>1. disk.claims \in Seq(Claim)
      BY <1>0 DEF TypeOK, Document
    <3>2. \A i \in DOMAIN disk.claims : disk.claims[i] \in Claim
      BY <3>1
    <3>3. QED
      BY <3>2, ProposalAssumption DEF Claim, Proposal
  <2>3. \A i \in DOMAIN disk.claims : Stale(disk.claims[i]) => Stale(disk.claims[i])'
    BY <2>1, <2>2, BoundAssumption DEF Stale, Active, Expires
  <2>4. \A q : Free(q) => Free(q)'
    BY <2>1, <2>3 DEF Free, Active
  <2>5. QED
    BY <2>1, <2>4 DEF AdviceInv
<1>6. ASSUME NEW p \in Callers, Begin(p)
      PROVE  UNCHANGED <<disk, now, probe, seen, advice>>
  BY <1>6 DEF Begin, InvokeInspect, InvokeEvaluate, InvokeClaim, InvokeOpen,
              InvokeOwned, InvokeClose, Invoke
<1>7. ASSUME NEW p \in Callers, Proceed(p) \/ Crash(p),
             ~(\/ Replace(p) \/ Inspect(p) \/ InspectThenMutate(p) \/ Return(p) \/ Evaluate(p))
      PROVE  UNCHANGED <<disk, now, probe, seen, advice>>
  BY <1>7 DEF Proceed, Crash, Acquire, TimeOut, RefuseUnreadable, RefuseStale,
              RefuseConflict, RefuseUnknown, RefuseToken, RefuseInactive, RefuseInvalid,
              Prepare, WriteFails, ReturnUnverified, Refuse, Leave
<1>8. QED
  BY <1>1, <1>2, <1>3, <1>4, <1>5, <1>6, <1>7 DEF Next, vars

\* A claim that evaluate() found free is not refused for a conflict at the revision
\* it was found free at, as long as no lost host comes back in between: a claim that
\* was set aside as stale stays stale until the document is rewritten.
THEOREM AdviceHolds ==
    Spec /\ [][\A a \in Agents : ~HostBack(a)]_vars => EvaluationHonoured
<1>1. Init => AdviceInv
  BY DEF Init, AdviceInv, EmptyDocument
<1>2. IInv /\ AdviceInv /\ [Next]_vars /\ [\A a \in Agents : ~HostBack(a)]_vars => AdviceInv'
  <2> SUFFICES ASSUME IInv, AdviceInv, [Next]_vars, [\A a \in Agents : ~HostBack(a)]_vars
               PROVE  AdviceInv'
    OBVIOUS
  <2>1. CASE \A a \in Agents : ~HostBack(a)
    BY <2>1, AdviceStep
  <2>2. CASE UNCHANGED vars
    BY <2>2 DEF vars, AdviceInv, Free, Stale, Active, Expires
  <2>3. QED
    BY <2>1, <2>2
<1>3. ASSUME IInv, CallInv, AdviceInv, [Next]_vars, NEW p \in Callers,
             call[p].op = "claim", call[p].target \in advice[p], call[p].expected = seen[p]
      PROVE  result'[p] # "ClaimConflict"
  <2> SUFFICES ASSUME result'[p] = "ClaimConflict" PROVE FALSE
    OBVIOUS
  <2>1. pc[p] # "idle"
    BY <1>3 DEF CallInv, NoCall
  <2>2. RefuseConflict(p) \/ RefuseUnreadable(p) \/ RefuseInvalid(p)
    BY <1>3, <2>1, OutcomeStep
  <2>3. ~RefuseUnreadable(p) /\ ~RefuseInvalid(p)
    BY <1>3 DEF RefuseUnreadable, RefuseInvalid, Refuse, Leave, IInv, TypeOK
  <2>4. /\ call[p].expected = disk.revision
        /\ Conflicts(Retired(disk.claims), call[p].target) # {}
    BY <2>2, <2>3 DEF RefuseConflict, Measured
  <2>5. Free(call[p].target)
    BY <1>3, <2>4 DEF AdviceInv
  <2>6. QED
    BY <1>3, <2>4, <2>5, FreeMeansNoConflict DEF IInv
<1>4. IInv /\ CallInv /\ AdviceInv /\ [Next]_vars =>
        [\A p \in Callers :
            /\ call[p].op = "claim"
            /\ call[p].target \in advice[p]
            /\ call[p].expected = seen[p]
            => result'[p] # "ClaimConflict"]_vars
  BY <1>3
<1>5. QED
  BY <1>1, <1>2, <1>4, Invariance, CallInvariance, PTL DEF Spec, EvaluationHonoured
=============================================================================
