------------------------------ MODULE MCConsole ------------------------------
(***************************************************************************)
(* The two feeds of an official's console for TLC.  They share no variable,  *)
(* so a behaviour of both is an interleaving of one of each, and a property  *)
(* of one feed holds of the pair when it holds of that feed alone: the run   *)
(* explores the feeds side by side instead of their product.  The match feed *)
(* is explored twice: with all its commits and no votes, and with votes and  *)
(* fewer commits and snapshots.                                              *)
(***************************************************************************)
EXTENDS AssignmentFeed, MatchFeed

CONSTANTS
    VoteCommits,    \* commits of the match in the behaviours with votes
    VoteReads       \* snapshots read and not emitted yet in those behaviours

VARIABLE part   \* what this behaviour is about

Init == part \in {"assignment", "snapshots", "votes"} /\ FeedInit /\ MatchFeedInit

AssignmentStep(A) == part = "assignment" /\ A /\ UNCHANGED <<part, mfVars>>
MatchStep(A) ==
    /\ part \in {"snapshots", "votes"} /\ A
    /\ part = "snapshots" => UNCHANGED submission
    /\ part = "votes" => version' <= VoteCommits /\ Cardinality(building') <= VoteReads
    /\ UNCHANGED <<part, feedVars>>

Next == AssignmentStep(FeedNext) \/ MatchStep(MatchFeedNext)

\* FeedFairness and MatchFeedFairness, each in its own behaviours.
Fairness ==
    /\ WF_feedVars(AssignmentStep(Reconcile))
    /\ SF_feedVars(AssignmentStep(ReconcileAnswered))
    /\ WF_feedVars(AssignmentStep(Reconciled))
    /\ \A k \in Submissions : WF_mfVars(MatchStep(AnswerTimesOut(k)))
    /\ WF_mfVars(MatchStep(Receive))

Spec == Init /\ [][Next]_<<part, feedVars, mfVars>> /\ Fairness
=============================================================================
