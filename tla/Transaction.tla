---------------------------- MODULE Transaction ----------------------------
(***************************************************************************)
(* What a preview-bound transaction promises on a target that nothing      *)
(* locks.  A call is open as long as nobody but itself wrote to the target *)
(* since it began.  While it is open the target counts as it was when it   *)
(* began, however much of the work is done.  An open call that reports     *)
(* "applied" did all of the work, and one that reports "undone" did none.  *)
(* Of several open calls the first that writes keeps the target and the    *)
(* others are overtaken.  Nothing is promised to a call that was           *)
(* overtaken, until it takes the target back to where it began, nor of the *)
(* target when an open call is torn: killed, or ended by an error that     *)
(* reports neither.  HostTransaction and Updater are shown to implement it.*)
(***************************************************************************)
CONSTANTS
    Calls,
    States,          \* what the target may be
    Done(_, _, _)    \* a work makes the third state out of the second

VARIABLES
    state,
    open,   \* the calls that have the target to themselves so far
    base,   \* the state each call began with
    work,   \* the work each call was given
    told    \* what each call reports

vars == <<state, open, base, work, told>>

Reports == {"nothing", "applied", "undone"}

Init ==
    /\ state \in States
    /\ open = {}
    /\ told = [c \in Calls |-> "nothing"]

\* An open call keeps what it began with, which is what the target counts as; a
\* call opens on the target as it is.
Open ==
    \A c \in open' :
        /\ base'[c] = state'
        /\ c \in open => base'[c] = base[c] /\ work'[c] = work[c]

Tell(c, report) == told' = [told EXCEPT ![c] = report]
Close(c) == c \in open /\ c \notin open'

\* Calls begin, or the one that begins to write overtakes the others.
Begin == UNCHANGED <<told, state>> /\ open \subseteq open'
Overtake == UNCHANGED <<told, state>> /\ open' \subseteq open /\ open' # {}

Apply(c) == Close(c) /\ Done(work[c], base[c], state') /\ Tell(c, "applied")
Undo(c) == Close(c) /\ state' = base[c] /\ Tell(c, "undone")
Tear(c) == Close(c) /\ state' \in States /\ UNCHANGED told

\* Another program writes, or a call that was overtaken, which writes or not and
\* reports what it likes; reports are forgotten the same way.  A call may take the
\* target back to where it began, and so open again.
Foreign ==
    /\ state' \in States
    /\ told' = told \/ \E c \in Calls \ open, report \in Reports : Tell(c, report)

Step == Begin \/ Overtake \/ Foreign \/ \E c \in Calls : Apply(c) \/ Undo(c) \/ Tear(c)
Next == Open /\ Step

Spec == Init /\ [][Next]_vars
=============================================================================
