------------------------------ MODULE Presence ------------------------------
(***************************************************************************)
(* Who is counted as being there.  Redis holds, for every official, a       *)
(* counter of sockets, and for every match a counter of scoreboards and one *)
(* expiring key per official's socket that entered the match                *)
(* (realtime-session-registry).  A round starts only when all of the crew   *)
(* and a scoreboard are counted (assertStartReadiness).                     *)
(*                                                                          *)
(* A Redis write and the registration it belongs to are updated in two      *)
(* steps of a handler, with disconnects in between, and a process that      *)
(* crashes takes nothing back.  The 24 hours after which a counter expires   *)
(* are longer than what is modelled here.                                   *)
(***************************************************************************)
EXTENDS Naturals, FiniteSets

CONSTANTS
    Officials,
    Matches,
    Sockets,
    OwnerOf,    \* the official of a socket, or the match a scoreboard shows
    None

ASSUME PresenceAssumption ==
    /\ OwnerOf \in [Sockets -> Officials \cup Matches]
    /\ Officials \cap Matches = {} /\ None \notin Officials \cup Matches
    /\ IsFiniteSet(Sockets)     \* those that ever connect

Owners == Officials \cup Matches
Phases == {"NEW", "CONNECTING", "REGISTERED", "GONE"}

VARIABLES
    assigned,   \* the match of each official's unreleased assignment
    phase,      \* of each socket
    present,    \* registration.matchPublicId
    entering,   \* what registration.matchPublicId becomes when Redis answers
    keys,       \* Redis: <<match, socket>>, with a 45 s expiry
    count       \* Redis: sockets of an official, scoreboards of a match

vars == <<assigned, phase, present, entering, keys, count>>

TypeOK ==
    /\ assigned \in [Officials -> Matches \cup {None}]
    /\ phase \in [Sockets -> Phases]
    /\ present \in [Sockets -> Matches \cup {None}]
    /\ entering \in [Sockets -> SUBSET (Matches \cup {None})]
    /\ keys \subseteq Matches \X Sockets
    /\ count \in [Owners -> Nat]

Init ==
    /\ assigned = [o \in Officials |-> None]
    /\ phase = [x \in Sockets |-> "NEW"]
    /\ present = [x \in Sockets |-> None]
    /\ entering = [x \in Sockets |-> {}]
    /\ keys = {}
    /\ count = [w \in Owners |-> 0]

Registered(x) == phase[x] = "REGISTERED"
SocketsOf(w) == {x \in Sockets : OwnerOf[x] = w}
Crew(m) == {o \in Officials : assigned[o] = m}

-----------------------------------------------------------------------------
(* Counters.                                                                *)

\* The handshake succeeds; handleConnection has not registered the socket yet.
Connect(x) ==
    /\ phase[x] = "NEW"
    /\ phase' = [phase EXCEPT ![x] = "CONNECTING"]
    /\ UNCHANGED <<assigned, present, entering, keys, count>>

\* incrementByWithExpiry(1) under the key of the socket's owner.
CountIn(x) ==
    /\ phase[x] = "CONNECTING"
    /\ phase' = [phase EXCEPT ![x] = "REGISTERED"]
    /\ count' = [count EXCEPT ![OwnerOf[x]] = @ + 1]
    /\ UNCHANGED <<assigned, present, entering, keys>>

RegisterOfficial(x) == OwnerOf[x] \in Officials /\ CountIn(x)

\* connectScoreboard: a socket that is gone by then is taken back at once, so
\* that only the one still there is counted.
RegisterScoreboard(x) == OwnerOf[x] \in Matches /\ CountIn(x)

\* Mutant: a disconnect decrements whether or not the socket was registered.
DecrementAlways(x) == 1

\* unregister and unregisterScoreboard look the registration up first.
Decrement(x) == IF Registered(x) THEN 1 ELSE 0

\* handleDisconnect: a counter that would fall to 0 or below is deleted, and the
\* presence key goes only if the registration knows it.
Disconnect(x) ==
    /\ phase[x] \in {"CONNECTING", "REGISTERED"}
    /\ phase' = [phase EXCEPT ![x] = "GONE"]
    /\ count' = [count EXCEPT ![OwnerOf[x]] = IF @ < Decrement(x) THEN 0 ELSE @ - Decrement(x)]
    /\ keys' = keys \ {<<present[x], x>>}
    /\ present' = [present EXCEPT ![x] = None]
    /\ UNCHANGED <<assigned, entering>>

\* The process dies with all its sockets and handlers; Redis keeps everything.
Crash ==
    /\ \E x \in Sockets : Registered(x)
    /\ phase' = [x \in Sockets |-> IF phase[x] = "NEW" THEN "NEW" ELSE "GONE"]
    /\ present' = [x \in Sockets |-> None]
    /\ entering' = [x \in Sockets |-> {}]
    /\ UNCHANGED <<assigned, keys, count>>

-----------------------------------------------------------------------------
(* Presence in a match.                                                     *)

\* A crew takes a match or is released from it (Staffing).
Assign(o, m) ==
    /\ assigned[o] = None
    /\ assigned' = [assigned EXCEPT ![o] = m]
    /\ UNCHANGED <<phase, present, entering, keys, count>>

Unassign(o) ==
    /\ assigned[o] # None
    /\ assigned' = [assigned EXCEPT ![o] = None]
    /\ UNCHANGED <<phase, present, entering, keys, count>>

MatchOf(x) == IF OwnerOf[x] \in Officials THEN assigned[OwnerOf[x]] ELSE None

\* enterOfficialMatchPresence up to the write: the presence in a match that is
\* no longer the official's is cleared first.
EnterPresence(x) ==
    /\ Registered(x) /\ MatchOf(x) # None
    /\ LET stale == present[x] \notin {None, MatchOf(x)} IN
       /\ keys' = (IF stale THEN keys \ {<<present[x], x>>} ELSE keys)
                    \cup {<<MatchOf(x), x>>}
       /\ present' = IF stale THEN [present EXCEPT ![x] = None] ELSE present
    /\ entering' = [entering EXCEPT ![x] = @ \cup {MatchOf(x)}]
    /\ UNCHANGED <<assigned, phase, count>>

\* Redis answered the write or the delete, and the registration is updated.
FinishEntering(x, m) ==
    /\ m \in entering[x]
    /\ entering' = [entering EXCEPT ![x] = @ \ {m}]
    /\ present' = IF Registered(x) THEN [present EXCEPT ![x] = m] ELSE present
    /\ UNCHANGED <<assigned, phase, keys, count>>

\* renewOfficialMatchPresence
Heartbeat(x) ==
    /\ Registered(x) /\ present[x] # None /\ present[x] = MatchOf(x)
    /\ keys' = keys \cup {<<present[x], x>>}
    /\ UNCHANGED <<assigned, phase, present, entering, count>>

\* leaveOfficialMatchPresence, and a revalidation that finds another assignment.
LeavePresence(x) ==
    /\ Registered(x) /\ present[x] # None
    /\ keys' = keys \ {<<present[x], x>>}
    /\ entering' = [entering EXCEPT ![x] = @ \cup {None}]
    /\ UNCHANGED <<assigned, phase, present, count>>

\* Mutant: the key is written without an expiry.
ExpirableNever(m, x) == FALSE

\* 45 seconds passed without a heartbeat.
Expirable(m, x) == <<m, x>> \in keys

PresenceExpires(m, x) ==
    /\ Expirable(m, x)
    /\ keys' = keys \ {<<m, x>>}
    /\ UNCHANGED <<assigned, phase, present, entering, count>>

\* officialConnectedSocketCount > 0, by the unexpired keys.
OfficialConnected(o, m) == \E x \in SocketsOf(o) : <<m, x>> \in keys

\* scoreboardConnectedCount > 0
ScoreboardConnected(m) == count[m] > 0

\* officialReadinessFromPresence for a complete crew: nobody is missing.
CanStartRound(m) ==
    /\ Crew(m) # {} /\ \A o \in Crew(m) : OfficialConnected(o, m)
    /\ ScoreboardConnected(m)

\* assertStartReadiness, under the lock of the match.
StartReady(m) == CanStartRound(m)

-----------------------------------------------------------------------------
Next ==
    \/ \E x \in Sockets :
         \/ Connect(x) \/ RegisterOfficial(x) \/ RegisterScoreboard(x) \/ Disconnect(x)
         \/ EnterPresence(x) \/ Heartbeat(x) \/ LeavePresence(x)
         \/ \E m \in Matches \cup {None} : FinishEntering(x, m)
         \/ \E m \in Matches : PresenceExpires(m, x)
    \/ \E o \in Officials : Unassign(o) \/ \E m \in Matches : Assign(o, m)
    \/ Crash

\* Redis expires keys by itself; nothing else is promised.
Fairness ==
    \A m \in Matches, o \in Officials : \A x \in SocketsOf(o) : WF_vars(PresenceExpires(m, x))

Spec == Init /\ [][Next]_vars /\ Fairness

-----------------------------------------------------------------------------
(* Properties.                                                              *)

\* A counter never falls below the sockets it counts, whatever the order of
\* registrations, disconnects and crashes: a connected official or scoreboard is
\* never reported as absent.  (Within the 24 hours a counter lives: its expiry is
\* set by the first socket counted and never renewed.)
CountersCoverConnections ==
    \A w \in Owners : count[w] >= Cardinality({x \in SocketsOf(w) : Registered(x)})

\* A match whose officials have all gone does not stay ready to be started: the
\* keys a crash or a disconnect in the middle of an enter left behind go away.
AbandonedMatchIsNotReady ==
    \A m \in Matches :
        (\A o \in Officials, x \in Sockets : OwnerOf[x] = o => phase[x] = "GONE")
          ~> ~StartReady(m)
=============================================================================
