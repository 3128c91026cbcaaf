------------------------------- MODULE MCLeases -------------------------------
(***************************************************************************)
(* Presence and Media for TLC: presence that expires and deletions under      *)
(* leases.  They share no variable and no action, so a property of one holds  *)
(* of the pair when it holds of that one alone: the run explores them side by *)
(* side instead of their product.                                             *)
(***************************************************************************)
EXTENDS Presence, Media, TLC

CONSTANTS sup, m1, m2, x1, x2, b1

MCOwnerOf == (x1 :> sup) @@ (x2 :> sup) @@ (b1 :> m1)

VARIABLE part   \* the component this behaviour is about

MCInit == part \in {"presence", "media"} /\ Init /\ MediaInit

PresenceStep(A) == part = "presence" /\ A /\ UNCHANGED <<part, mediaVars>>
MediaStep(A) == part = "media" /\ A /\ UNCHANGED <<part, vars>>

MCNext == PresenceStep(Next) \/ MediaStep(MediaNext)

\* Keys expire in the behaviours of Presence, workers go on in those of Media.
MCFairness ==
    /\ \A m \in Matches, o \in Officials : \A x \in SocketsOf(o) :
         WF_vars(PresenceStep(PresenceExpires(m, x)))
    /\ \A w \in Workers : /\ WF_mediaVars(MediaStep(CheckObject(w)))
                          /\ WF_mediaVars(MediaStep(DeleteObject(w)))
                          /\ WF_mediaVars(MediaStep(CleanUp(w)))
    /\ \A k \in Objects : /\ SF_mediaVars(MediaStep(Attempts(k)))
                          /\ WF_mediaVars(MediaStep(LeaseLapses(k)))
                          /\ WF_mediaVars(MediaStep(BecomesDue(k)))

MCSpec == MCInit /\ [][MCNext]_<<part, vars, mediaVars>> /\ MCFairness
=============================================================================
