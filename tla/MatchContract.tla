---------------------------- MODULE MatchContract ----------------------------
(***************************************************************************)
(* What a match promises to everything around it (brackets, scoreboards,    *)
(* crews): the four lifecycle values of ADR 0006, who may move between them *)
(* and that a published result is final.  Phases, rounds, timers, appeals   *)
(* and processes are invisible here.                                        *)
(***************************************************************************)

VARIABLES
    lifecycle,  \* NOT_STARTED, IN_PROGRESS, SUSPENDED or COMPLETED
    crewed,     \* TRUE: a complete crew holds the match
    result      \* "NONE" until a winner is published

vars == <<lifecycle, crewed, result>>

Init == lifecycle = "NOT_STARTED" /\ crewed = FALSE /\ result = "NONE"

\* A complete crew takes a match that nobody holds; a suspended one resumes.
Claim ==
    /\ ~crewed /\ lifecycle \in {"NOT_STARTED", "SUSPENDED"}
    /\ crewed' = TRUE
    /\ lifecycle' = IF lifecycle = "SUSPENDED" THEN "IN_PROGRESS" ELSE lifecycle
    /\ UNCHANGED result

\* The crew starts the match, resets it, or takes a reset back.
Play ==
    /\ crewed
    /\ lifecycle' \in {"NOT_STARTED", "IN_PROGRESS"}
    /\ UNCHANGED <<crewed, result>>

\* The crew leaves; an abandoned match can be claimed anew from its start.
Leave ==
    /\ crewed
    /\ crewed' = FALSE
    /\ lifecycle' \in {"NOT_STARTED", "SUSPENDED"}
    /\ UNCHANGED result

\* The crew publishes the winner and is dismissed.
Publish ==
    /\ crewed /\ lifecycle = "IN_PROGRESS"
    /\ crewed' = FALSE /\ lifecycle' = "COMPLETED"
    /\ result' \in {"RED", "BLUE"}

Next == Claim \/ Play \/ Leave \/ Publish

Spec == Init /\ [][Next]_vars
=============================================================================
