----------------------------- MODULE Ownership -----------------------------
(***************************************************************************)
(* What the Work Session registry promises, without files, locks, clocks   *)
(* or revisions: sessions are taken and ended one at a time, each step is  *)
(* atomic, and a session is taken away only from an owner that may be      *)
(* gone.  SessionRegistry is shown to implement it.                        *)
(***************************************************************************)
CONSTANTS
    Proposals,   \* the sessions that may be asked for
    Agents,      \* the owner processes
    Clash(_, _), \* two sessions that may not be held together
    Holds(_)     \* a proposal that asks for a session in an active state

VARIABLES
    held,   \* the sessions held
    past,   \* the ids of the sessions that are over
    alive   \* the owners whose processes are known to run

vars == <<held, past, alive>>

Ids(S) == {q.sid : q \in S}

Init == held = {} /\ past = {} /\ alive \in SUBSET Agents

\* A session is taken, perhaps in the place of sessions whose owners are gone.
\* The id is new.
Take(q, lapsed) ==
    /\ lapsed \subseteq {h \in held : h.agent \notin alive}
    /\ q.sid \notin past \cup Ids(held)
    /\ \A h \in held \ lapsed : ~Clash(h, q)
    /\ held' = (held \ lapsed) \cup {g \in {q} : Holds(g)}
    /\ past' = past \cup Ids(lapsed) \cup {g.sid : g \in {g \in {q} : ~Holds(g)}}
    /\ UNCHANGED alive

End(q) ==
    /\ q \in held
    /\ held' = held \ {q}
    /\ past' = past \cup {q.sid}
    /\ UNCHANGED alive

Die(a) ==
    /\ a \in alive
    /\ alive' = alive \ {a}
    /\ UNCHANGED <<held, past>>

Next ==
    \/ \E q \in Proposals, lapsed \in SUBSET held : Take(q, lapsed)
    \/ \E q \in held : End(q)
    \/ \E a \in Agents : Die(a)

Spec == Init /\ [][Next]_vars
=============================================================================
