--------------------------- MODULE CaptureTarget ---------------------------
(***************************************************************************)
(* What promotion promises of the files it writes, without locks, fences,  *)
(* receipts or steps: a file that holds nothing may come to hold a capture *)
(* whose sink is the file's; the capture may be taken back until it is     *)
(* committed, and stays from then on.  Promotion is shown to implement it, *)
(* and Lifecycle is built on it.                                           *)
(***************************************************************************)
CONSTANTS
    Files,
    Captures,
    Contents,        \* what a file may hold besides captures
    Absent,
    Permitted(_, _)  \* a capture may be placed in a file

VARIABLES
    held,       \* what each file holds
    committed   \* the captures promised to stay, with their files

vars == <<held, committed>>

Init ==
    /\ held \in [Files -> Captures \cup Contents \cup {Absent}]
    /\ committed = {}

Place(f, c) ==
    /\ Permitted(c, f)
    /\ held[f] = Absent
    /\ held' = [held EXCEPT ![f] = c]
    /\ UNCHANGED committed

TakeBack(f) ==
    /\ held[f] \in Captures
    /\ <<f, held[f]>> \notin committed
    /\ held' = [held EXCEPT ![f] = Absent]
    /\ UNCHANGED committed

Commit(f) ==
    /\ held[f] \in Captures
    /\ Permitted(held[f], f)
    /\ committed' = committed \cup {<<f, held[f]>>}
    /\ UNCHANGED held

Next == \E f \in Files : TakeBack(f) \/ Commit(f) \/ \E c \in Captures : Place(f, c)

Spec == Init /\ [][Next]_vars
=============================================================================
