------------------------------ MODULE Delivery ------------------------------
(***************************************************************************)
(* johan_sdd.routing, johan_sdd.profiles, the adapter of                   *)
(* johan_sdd.spec_delivery that joins them and the handlers of             *)
(* johan_sdd.cli: a piece of work is measured again and again while its    *)
(* facts change, and each measurement is answered with a lane, a profile,  *)
(* a plan or a refusal.  The code keeps nothing between two calls.         *)
(*                                                                         *)
(* Abstractions.  The shape of an input and the wording of a reason are    *)
(* left out; the shape of a receipt is one flag.                           *)
(***************************************************************************)
EXTENDS Integers

CONSTANTS
    FileCounts, LineCounts,  \* what may be counted; a caller may pass any integer
    Kinds, Surfaces,         \* the change kinds and surfaces observed
    HardTriggers,            \* HARD_TRIGGERS
    Triggers,                \* the trigger names a caller passes
    Time,
    NoReceipt                \* the caller has none

ASSUME DeliveryAssumption ==
    /\ FileCounts \subseteq Int /\ LineCounts \subseteq Int /\ Time \subseteq Nat

MaxFiles == 3
MaxLines == 50
MicroKinds == {"add", "modify"}
MicroSurfaces == {"documentation", "non-operational-configuration"}
Scopes == {"bounded", "medium_or_large", "unknown"}

WorkAssessment ==
    [files : FileCounts, additions : LineCounts, deletions : LineCounts,
     kinds : SUBSET Kinds, surfaces : SUBSET Surfaces, primary : BOOLEAN, clean : BOOLEAN,
     scope : Scopes, durable : BOOLEAN, elevated : BOOLEAN]

\* A human decision receipt.  formed: the ids, references, actor and version have
\* the form asked for, and the times end in Z.
DecisionReceipt ==
    [hard : SUBSET HardTriggers, formed : BOOLEAN, confirmed : Time, recorded : Time]

VARIABLES
    facts,    \* what is true of the work
    triggers, \* the triggers observed
    answer    \* the last answer, until the facts or the triggers change

vars == <<facts, triggers, answer>>

None == "none"
Profiles == {"lean", "full"}
Requests == {None, "lean", "full", "thorough"}
----------------------------------------------------------------------------
\* routing.

ChangedLines(a) == a.additions + a.deletions

\* Mutant: counts may be negative.
ValidWithoutSign(a) == a.kinds # {} /\ a.surfaces # {}

Valid(a) ==
    /\ a.files >= 0 /\ a.additions >= 0 /\ a.deletions >= 0
    /\ a.kinds # {} /\ a.surfaces # {}

\* Mutant: one surface that micro admits is enough.
IsMicroOnAnySurface(a) ==
    /\ a.files <= MaxFiles /\ ChangedLines(a) <= MaxLines
    /\ a.primary /\ a.clean
    /\ a.kinds # {} /\ a.kinds \subseteq MicroKinds
    /\ a.surfaces \cap MicroSurfaces # {}

IsMicro(a) ==
    /\ a.files <= MaxFiles /\ ChangedLines(a) <= MaxLines
    /\ a.primary /\ a.clean
    /\ a.kinds # {} /\ a.kinds \subseteq MicroKinds
    /\ a.surfaces # {} /\ a.surfaces \subseteq MicroSurfaces

Lane(a) ==
    CASE a.scope # "bounded" \/ a.durable \/ a.elevated -> "feature"
      [] a.scope = "bounded" /\ ~a.durable /\ ~a.elevated ->
            IF IsMicro(a) THEN "micro" ELSE "small"

\* profiles: the profile, or Refused.
Refused == "policy error"

Acceptable(r) ==
    /\ r # NoReceipt
    /\ r.formed /\ r.hard = {} /\ r.confirmed <= r.recorded

\* Mutant: a request is granted unless a trigger is observed.
SelectionAsAsked(requested, r) ==
    IF triggers \cap HardTriggers # {} THEN "full" ELSE IF requested = None THEN "lean" ELSE requested

Selection(requested, r) ==
    CASE requested \notin Profiles \cup {None} -> Refused
      [] triggers \cap HardTriggers # {} /\ requested \in {None, "full"} -> "full"
      [] triggers \cap HardTriggers # {} /\ requested = "lean" -> Refused
      [] triggers \cap HardTriggers = {} /\ requested = "full" -> "full"
      [] triggers \cap HardTriggers = {} /\ requested = None -> "lean"
      [] triggers \cap HardTriggers = {} /\ requested = "lean" ->
            IF Acceptable(r) THEN "lean" ELSE Refused

ModulesFor(lane) ==
    IF lane = "micro" THEN {} ELSE {"shaping", "tdd", "diagnosis", "prototype", "review"}
----------------------------------------------------------------------------
\* The calls.  exit is what the command line leaves with; the adapter raises instead.

Nothing == [exit |-> 0, lane |-> None, profile |-> None, receipt |-> NoReceipt,
            modules |-> {}, spine |-> FALSE]

Failure(exit) == [Nothing EXCEPT !.exit = exit]

Answer(a) == answer' = a /\ UNCHANGED <<facts, triggers>>

\* johan-sdd route.
Route ==
    Answer(IF Valid(facts) THEN [Nothing EXCEPT !.lane = Lane(facts)] ELSE Failure(2))

\* johan-sdd select-profile; a receipt is looked at only when lean is asked for.
SelectProfile ==
    \E requested \in Requests :
    \E r \in {NoReceipt} \cup {q \in DecisionReceipt : requested = "lean"} :
       LET profile == Selection(requested, r) IN
       Answer(IF profile = Refused THEN Failure(3)
              ELSE [Nothing EXCEPT !.profile = profile, !.receipt = r])

\* SpecDrivenDeliveryAdapter.plan, which has no receipt to pass on.
Plan ==
    \E requested \in Requests :
       LET profile == Selection(requested, NoReceipt) IN
       Answer(IF ~Valid(facts) THEN Failure(2)
              ELSE IF profile = Refused THEN Failure(3)
              ELSE [Nothing EXCEPT !.lane = Lane(facts), !.profile = profile,
                                   !.modules = ModulesFor(Lane(facts)),
                                   !.spine = Lane(facts) = "feature"])
----------------------------------------------------------------------------
\* The work.

\* Nothing is withdrawn from b on the way to a, and
\* what was known to be in order may no longer be.
AtLeast(a, b) ==
    /\ a.files >= b.files /\ a.additions >= b.additions /\ a.deletions >= b.deletions
    /\ b.kinds \subseteq a.kinds /\ b.surfaces \subseteq a.surfaces
    /\ a.primary => b.primary
    /\ a.clean => b.clean
    /\ b.scope # a.scope => b.scope = "bounded"
    /\ b.durable => a.durable
    /\ b.elevated => a.elevated

Measured(a) == facts' = a /\ answer' = Nothing /\ UNCHANGED triggers

\* More lines and files, other kinds and surfaces; or some are withdrawn.
Count ==
    \/ \E n \in FileCounts : Measured([facts EXCEPT !.files = n])
    \/ \E n \in LineCounts : Measured([facts EXCEPT !.additions = n])
    \/ \E n \in LineCounts : Measured([facts EXCEPT !.deletions = n])

Inspect ==
    \/ \E K \in SUBSET Kinds : Measured([facts EXCEPT !.kinds = K])
    \/ \E X \in SUBSET Surfaces : Measured([facts EXCEPT !.surfaces = X])
    \/ \E b \in BOOLEAN : Measured([facts EXCEPT !.primary = b])
    \/ \E b \in BOOLEAN : Measured([facts EXCEPT !.clean = b])

Judge ==
    \/ \E s \in Scopes : Measured([facts EXCEPT !.scope = s])
    \/ \E b \in BOOLEAN : Measured([facts EXCEPT !.durable = b])
    \/ \E b \in BOOLEAN : Measured([facts EXCEPT !.elevated = b])

Trigger ==
    /\ \E T \in SUBSET Triggers : triggers' = T
    /\ answer' = Nothing
    /\ UNCHANGED facts

Init ==
    /\ facts \in [files : FileCounts, additions : LineCounts, deletions : LineCounts,
                  kinds : {{}}, surfaces : {{}}, primary : {TRUE}, clean : {TRUE},
                  scope : {"unknown"}, durable : {FALSE}, elevated : {FALSE}]
    /\ triggers = {}
    /\ answer = Nothing

Next == Route \/ SelectProfile \/ Plan \/ Count \/ Inspect \/ Judge \/ Trigger

Spec == Init /\ [][Next]_vars
----------------------------------------------------------------------------
\* Properties.

AnyPath(path) == TRUE
Decisions == INSTANCE Contracts WITH Portable <- AnyPath

\* Type invariant.  A refusal by policy is told from an invalid input, and a plan
\* has a spine and modules as its lane asks.
TypeOK ==
    /\ facts \in WorkAssessment
    /\ triggers \subseteq Triggers
    /\ answer \in [exit : {0, 2, 3}, lane : {None, "micro", "small", "feature"},
                   profile : Profiles \cup {None}, receipt : DecisionReceipt \cup {NoReceipt},
                   modules : {{}, ModulesFor("small")}, spine : BOOLEAN]
    /\ answer.exit # 0 => answer = Failure(answer.exit)
    /\ answer.spine => answer.lane = "feature" /\ answer.modules # {}

Rank(lane) == CASE lane = "micro" -> 1 [] lane = "small" -> 2 [] lane = "feature" -> 3

\* More of anything never eases the lane: as long as nothing is withdrawn, work
\* that is measured again is routed to the lane it had or to a heavier one.
LaneNeverEases ==
    [][AtLeast(facts', facts) /\ Valid(facts) /\ Valid(facts')
          => Rank(Lane(facts')) >= Rank(Lane(facts))]_facts

\* The micro-assessment document of the work, and what its schema and the charter
\* ask of one that is admitted.
Admitted(a) ==
    /\ a.files \in 0 .. 3 /\ a.additions >= 0 /\ a.deletions >= 0
    /\ a.additions + a.deletions <= 50
    /\ a.primary /\ a.clean
    /\ a.kinds # {} /\ a.kinds \cap {"delete", "rename"} = {}
    /\ a.surfaces # {}
    /\ a.surfaces \cap {"code", "schema", "hooks", "workflows", "identity", "security",
                        "public-contracts", "tracker"} = {}

\* Every answer is one the charter allows, whatever was asked for: micro only for
\* work its schema admits, lean under no hard trigger, and a downgrade only by a
\* receipt that meets its contract.
AnswersMeetCharter ==
    /\ answer.lane = "micro" => Admitted(facts)
    /\ answer.profile = "lean" => triggers \cap HardTriggers = {}
    /\ answer.receipt # NoReceipt => Decisions!HumanDecisionErrors(answer.receipt) = {}
=============================================================================
