--------------------------- MODULE MCConnections ---------------------------
(***************************************************************************)
(* Connections and SupervisorConsole for TLC: sockets as the processes see    *)
(* them, and the commands of one socket as its browser sees them.  They share *)
(* no variable and no action, so a property of one holds of the pair when it  *)
(* holds of that one alone: the run explores them side by side instead of     *)
(* their product.                                                             *)
(***************************************************************************)
EXTENDS Connections, SupervisorConsole, TLC

CONSTANTS o1, c1, x1, x2, m1, p1, p2

MCKeys == {o1, c1}
MCCodeMatch == c1 :> m1
Symmetry == Permutations({x1, x2}) \cup Permutations({p1, p2})

VARIABLE part   \* the component this behaviour is about

MCInit == part \in {"connections", "commands"} /\ Init /\ SupervisorInit

MCNext ==
    \/ part = "connections" /\ Next /\ UNCHANGED <<part, scVars>>
    \/ part = "commands" /\ SupervisorNext /\ UNCHANGED <<part, vars>>

MCSpec == MCInit /\ [][MCNext]_<<part, vars, scVars>>

\* A socket is told what concerns it: revoking its session closes it in every
\* process that was told (revokeSessions), and a command sent on it never misses
\* its own broadcast: the console has received what it was told
\* (ensureCommandRoomMembership), and shows it unless an older snapshot was sent
\* last (handleMatchState).
SocketsAreTold == RevocationReachesParticipants /\ OwnCommandIsSeen
=============================================================================
