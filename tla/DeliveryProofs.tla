--------------------------- MODULE DeliveryProofs ---------------------------
(***************************************************************************)
(* Proofs about Delivery, for any counts, kinds, surfaces and triggers.    *)
(* The code keeps nothing between two calls, so that there is little to    *)
(* carry along: what matters is what each call answers, and how the lanes  *)
(* of two measurements compare.                                            *)
(***************************************************************************)
EXTENDS Delivery, TLAPS

\* The inductive invariant.
IInv == TypeOK /\ AnswersMeetCharter
----------------------------------------------------------------------------
\* Every lane is one of three.
LEMMA LaneIsOneOfThree ==
    ASSUME NEW a \in WorkAssessment
    PROVE /\ Lane(a) \in {"micro", "small", "feature"}
          /\ Lane(a) = "feature" <=> (a.scope # "bounded" \/ a.durable \/ a.elevated)
          /\ Lane(a) = "micro" <=> Lane(a) # "feature" /\ IsMicro(a)
BY DEF Lane

\* Every profile is lean, full or a refusal, and lean is no answer to a hard trigger.
LEMMA SelectionIsLeanOrFull ==
    ASSUME NEW requested \in Requests, NEW r
    PROVE /\ Selection(requested, r) \in Profiles \cup {Refused}
          /\ Selection(requested, r) = "lean" => triggers \cap HardTriggers = {}
          /\ requested = "lean" /\ Selection(requested, r) # Refused => Acceptable(r)
<1>1. CASE triggers \cap HardTriggers # {}
  BY <1>1 DEF Selection, Requests, Profiles, Refused, None
<1>2. CASE triggers \cap HardTriggers = {}
  <2>1. CASE requested = "lean"
    BY <1>2, <2>1 DEF Selection, Profiles, Refused, None
  <2>2. CASE requested # "lean"
    BY <1>2, <2>2 DEF Selection, Requests, Profiles, Refused, None
  <2> QED
    BY <2>1, <2>2
<1> QED
  BY <1>1, <1>2

\* What the selector asks of a receipt is what the contract of a human decision asks.
LEMMA AcceptableMeetsContract ==
    ASSUME NEW r \in DecisionReceipt, Acceptable(r)
    PROVE Decisions!HumanDecisionErrors(r) = {}
<1>1. r.confirmed \in Nat /\ r.recorded \in Nat
  BY DeliveryAssumption DEF DecisionReceipt
<1>2. r.confirmed <= r.recorded
  BY DEF Acceptable
<1>3. ~(r.confirmed > r.recorded)
  BY <1>1, <1>2
<1> QED
  BY <1>3 DEF Decisions!HumanDecisionErrors, Decisions!Error

\* Work that is routed to the micro lane is work that the schema of the
\* micro-assessment admits.
LEMMA MicroIsAdmitted ==
    ASSUME NEW a \in WorkAssessment, Valid(a), Lane(a) = "micro"
    PROVE Admitted(a)
<1>1. IsMicro(a)
  BY LaneIsOneOfThree
<1>2. a.files \in Int /\ a.additions \in Int /\ a.deletions \in Int
  BY DeliveryAssumption DEF WorkAssessment
<1>3. a.files \in 0 .. 3 /\ a.additions >= 0 /\ a.deletions >= 0 /\ a.additions + a.deletions <= 50
  BY <1>1, <1>2 DEF IsMicro, Valid, ChangedLines, MaxFiles, MaxLines
<1>4. a.primary /\ a.clean /\ a.kinds # {} /\ a.surfaces # {}
  BY <1>1 DEF IsMicro
<1>5. a.kinds \cap {"delete", "rename"} = {}
  BY <1>1 DEF IsMicro, MicroKinds
<1>6. a.surfaces \cap {"code", "schema", "hooks", "workflows", "identity", "security",
                       "public-contracts", "tracker"} = {}
  BY <1>1 DEF IsMicro, MicroSurfaces
<1> QED
  BY <1>3, <1>4, <1>5, <1>6 DEF Admitted

\* What the micro lane admits after more was measured, it admitted before.
LEMMA MicroShrinks ==
    ASSUME NEW a \in WorkAssessment, NEW b \in WorkAssessment,
           AtLeast(a, b), Valid(b), IsMicro(a)
    PROVE IsMicro(b)
<1>1. /\ a.files \in Int /\ a.additions \in Int /\ a.deletions \in Int
      /\ b.files \in Int /\ b.additions \in Int /\ b.deletions \in Int
  BY DeliveryAssumption DEF WorkAssessment
<1>2. b.files <= MaxFiles /\ ChangedLines(b) <= MaxLines
  BY <1>1 DEF AtLeast, IsMicro, ChangedLines, MaxFiles, MaxLines
<1>3. b.primary /\ b.clean
  BY DEF AtLeast, IsMicro
<1>4. /\ b.kinds # {} /\ b.kinds \subseteq MicroKinds
      /\ b.surfaces # {} /\ b.surfaces \subseteq MicroSurfaces
  BY DEF AtLeast, IsMicro, Valid
<1> QED
  BY <1>2, <1>3, <1>4 DEF IsMicro

\* The lane of more is no lighter.
LEMMA LaneGrows ==
    ASSUME NEW a \in WorkAssessment, NEW b \in WorkAssessment, AtLeast(a, b), Valid(b)
    PROVE Rank(Lane(a)) >= Rank(Lane(b))
<1>1. Lane(b) = "feature" => Lane(a) = "feature"
  BY LaneIsOneOfThree DEF AtLeast
<1>2. Lane(a) = "micro" => Lane(b) = "micro"
  BY <1>1, LaneIsOneOfThree, MicroShrinks
<1>3. Rank("micro") = 1 /\ Rank("small") = 2 /\ Rank("feature") = 3
  BY DEF Rank
<1> QED
  BY <1>1, <1>2, <1>3, LaneIsOneOfThree
----------------------------------------------------------------------------
\* A refusal says nothing but its exit code.
LEMMA FailureIsFine ==
    ASSUME NEW exit \in {2, 3}, TypeOK, Answer(Failure(exit))
    PROVE IInv'
<1>1. answer' = [exit |-> exit, lane |-> None, profile |-> None, receipt |-> NoReceipt,
                 modules |-> {}, spine |-> FALSE]
  BY DEF Answer, Failure, Nothing
<1> QED
  BY <1>1 DEF IInv, TypeOK, AnswersMeetCharter, Answer, Failure, Nothing, None

\* Each call answers what the charter allows.
LEMMA CallStep ==
    ASSUME TypeOK, Route \/ SelectProfile \/ Plan
    PROVE IInv'
<1>1. CASE Route
  <2>1. CASE ~Valid(facts)
    BY <1>1, <2>1, FailureIsFine DEF Route
  <2>2. CASE Valid(facts)
    <3>1. answer' = [exit |-> 0, lane |-> Lane(facts), profile |-> None, receipt |-> NoReceipt,
                     modules |-> {}, spine |-> FALSE]
      BY <1>1, <2>2 DEF Route, Answer, Nothing
    <3>2. facts' = facts /\ triggers' = triggers /\ facts \in WorkAssessment
      BY <1>1 DEF Route, Answer, TypeOK
    <3>3. TypeOK'
      BY <3>1, <3>2, LaneIsOneOfThree DEF TypeOK
    <3>4. AnswersMeetCharter'
      BY <2>2, <3>1, <3>2, MicroIsAdmitted DEF AnswersMeetCharter, None
    <3> QED
      BY <3>3, <3>4 DEF IInv
  <2> QED
    BY <2>1, <2>2
<1>2. CASE SelectProfile
  <2>4. PICK requested \in Requests :
             \E r \in {NoReceipt} \cup {q \in DecisionReceipt : requested = "lean"} :
             Answer(IF Selection(requested, r) = Refused THEN Failure(3)
                    ELSE [Nothing EXCEPT !.profile = Selection(requested, r), !.receipt = r])
    BY <1>2 DEF SelectProfile
  <2>1. PICK r \in {NoReceipt} \cup {q \in DecisionReceipt : requested = "lean"} :
             Answer(IF Selection(requested, r) = Refused THEN Failure(3)
                    ELSE [Nothing EXCEPT !.profile = Selection(requested, r), !.receipt = r])
    BY <2>4
  <2>2. CASE Selection(requested, r) = Refused
    BY <2>1, <2>2, FailureIsFine
  <2>3. CASE Selection(requested, r) # Refused
    <3>1. answer' = [exit |-> 0, lane |-> None, profile |-> Selection(requested, r), receipt |-> r,
                     modules |-> {}, spine |-> FALSE]
      BY <2>1, <2>3 DEF Answer, Nothing
    <3>2. facts' = facts /\ triggers' = triggers
      BY <2>1 DEF Answer
    <3>3. TypeOK'
      BY <2>3, <3>1, <3>2, SelectionIsLeanOrFull DEF TypeOK
    <3>4. r # NoReceipt => r \in DecisionReceipt /\ Acceptable(r)
      BY <2>3, SelectionIsLeanOrFull
    <3>5. r # NoReceipt => Decisions!HumanDecisionErrors(r) = {}
      BY <3>4, AcceptableMeetsContract
    <3>6. AnswersMeetCharter'
      BY <3>1, <3>2, <3>5, SelectionIsLeanOrFull DEF AnswersMeetCharter, None
    <3> QED
      BY <3>3, <3>6 DEF IInv
  <2> QED
    BY <2>2, <2>3
<1>3. CASE Plan
  <2>1. PICK requested \in Requests :
             Answer(IF ~Valid(facts) THEN Failure(2)
                    ELSE IF Selection(requested, NoReceipt) = Refused THEN Failure(3)
                    ELSE [Nothing EXCEPT !.lane = Lane(facts),
                                         !.profile = Selection(requested, NoReceipt),
                                         !.modules = ModulesFor(Lane(facts)),
                                         !.spine = Lane(facts) = "feature"])
    BY <1>3 DEF Plan
  <2>2. CASE ~Valid(facts) \/ Selection(requested, NoReceipt) = Refused
    BY <2>1, <2>2, FailureIsFine
  <2>3. CASE Valid(facts) /\ Selection(requested, NoReceipt) # Refused
    <3>1. answer' = [exit |-> 0, lane |-> Lane(facts), profile |-> Selection(requested, NoReceipt),
                     receipt |-> NoReceipt, modules |-> ModulesFor(Lane(facts)),
                     spine |-> (Lane(facts) = "feature")]
      BY <2>1, <2>3 DEF Answer, Nothing
    <3>2. facts' = facts /\ triggers' = triggers /\ facts \in WorkAssessment
      BY <2>1 DEF Answer, TypeOK
    <3>3. TypeOK'
      BY <2>3, <3>1, <3>2, LaneIsOneOfThree, SelectionIsLeanOrFull DEF TypeOK, ModulesFor
    <3>4. AnswersMeetCharter'
      BY <2>3, <3>1, <3>2, MicroIsAdmitted, SelectionIsLeanOrFull DEF AnswersMeetCharter
    <3> QED
      BY <3>3, <3>4 DEF IInv
  <2> QED
    BY <2>2, <2>3
<1> QED
  BY <1>1, <1>2, <1>3

\* New facts leave no answer standing.
LEMMA WorkStep ==
    ASSUME TypeOK, Count \/ Inspect \/ Judge \/ Trigger
    PROVE IInv'
<1>1. answer' = Nothing
  BY DEF Count, Inspect, Judge, Trigger, Measured
<1>2. facts' \in WorkAssessment
  <2>1. CASE Count
    BY <2>1 DEF Count, Measured, TypeOK, WorkAssessment
  <2>2. CASE Inspect
    BY <2>2 DEF Inspect, Measured, TypeOK, WorkAssessment
  <2>3. CASE Judge
    BY <2>3 DEF Judge, Measured, TypeOK, WorkAssessment
  <2> QED
    BY <2>1, <2>2, <2>3 DEF Trigger, TypeOK
<1>3. triggers' \subseteq Triggers
  BY DEF Count, Inspect, Judge, Trigger, Measured, TypeOK
<1> QED
  BY <1>1, <1>2, <1>3 DEF IInv, TypeOK, AnswersMeetCharter, Nothing, None

\* The invariant holds of every sequence of calls and changes.
THEOREM Invariance == Spec => []IInv
<1>1. Init => IInv
  <2> SUFFICES ASSUME Init
               PROVE IInv
    OBVIOUS
  <2>1. facts \in WorkAssessment
    BY DEF Init, WorkAssessment, Scopes
  <2>2. triggers \subseteq Triggers /\ answer = Nothing
    BY DEF Init
  <2> QED
    BY <2>1, <2>2 DEF IInv, TypeOK, AnswersMeetCharter, Nothing, None
<1>2. IInv /\ [Next]_vars => IInv'
  <2>1. CASE IInv /\ Next
    BY <2>1, CallStep, WorkStep DEF IInv, Next
  <2>2. CASE IInv /\ UNCHANGED vars
    BY <2>2 DEF vars, IInv, TypeOK, AnswersMeetCharter
  <2> QED
    BY <2>1, <2>2
<1> QED
  BY <1>1, <1>2, PTL DEF Spec

\* Type correctness; a refusal carries nothing else, and only a feature has a spine.
THEOREM TypeCorrect == Spec => []TypeOK
<1>1. IInv => TypeOK
  BY DEF IInv
<1> QED
  BY <1>1, Invariance, PTL

\* No answer of the router, the selector or the adapter exceeds what the charter
\* and the schemas allow.
THEOREM CharterMet == Spec => []AnswersMeetCharter
<1>1. IInv => AnswersMeetCharter
  BY DEF IInv
<1> QED
  BY <1>1, Invariance, PTL

\* Work that only grows is never routed to a lighter lane.
THEOREM NeverEases == Spec => LaneNeverEases
<1>1. TypeOK /\ TypeOK' =>
        (AtLeast(facts', facts) /\ Valid(facts) /\ Valid(facts')
            => Rank(Lane(facts')) >= Rank(Lane(facts)))
  BY LaneGrows DEF TypeOK
<1> QED
  BY <1>1, TypeCorrect, PTL DEF LaneNeverEases
=============================================================================
