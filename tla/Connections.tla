----------------------------- MODULE Connections -----------------------------
(***************************************************************************)
(* The sockets that live on the sessions of SessionContract: how the        *)
(* gateway authenticates, registers and revalidates them, how a revocation  *)
(* reaches them (realtime-session-registry), and the authority with which a *)
(* command is committed.  Counters and presence keys are in Presence.       *)
(*                                                                          *)
(* A revocation is announced only after its transaction; a socket connects  *)
(* in several awaits; a command is validated by the gateway and committed   *)
(* later by the lifecycle.  Each of those is a step of its own.             *)
(***************************************************************************)
EXTENDS SessionContract, FiniteSets

CONSTANTS
    Officials,      \* credentials: passcodes of tournament officials
    Codes,          \* credentials: legacy access codes of a match
    Sockets,
    Processes,      \* API instances behind one PostgreSQL and one Redis
    Matches,
    CodeMatch       \* the match an access code belongs to

ASSUME ConnectionsAssumption ==
    /\ Keys = Officials \cup Codes /\ Officials \cap Codes = {}
    /\ Sessions \subseteq Nat /\ CodeMatch \in [Codes -> Matches]
    /\ None \notin Keys \cup Matches \cup Sessions \cup Processes

Phases == {"NEW", "AUTHENTICATED", "VALIDATED", "REGISTERED", "OPEN", "GONE"}
SocketType == [phase : Phases, session : Sessions \cup {None},
               process : Processes \cup {None},
               command : Matches \cup {None}]      \* a command past revalidation

VARIABLES
    assigned,   \* the match of each official's unreleased assignment
    socket,
    announce,   \* <<session, process>>: revoked, revokeSessions not called yet
    fanout,     \* <<session, process>>: room message under way to a sibling
    announced,  \* <<session, process>>: revokeSessions has run there for an ended session
    commander   \* the session of the last committed command, per match

vars == <<owner, live, assigned, socket, announce, fanout,
          announced, commander>>
sessionVars == <<owner, live, assigned>>
revocationVars == <<announce, fanout, announced>>

TypeOK ==
    /\ owner \in [Sessions -> Keys \cup {None}] /\ live \subseteq Sessions
    /\ assigned \in [Officials -> Matches \cup {None}]
    /\ socket \in [Sockets -> SocketType]
    /\ announce \subseteq Sessions \X Processes
    /\ fanout \subseteq Sessions \X Processes
    /\ announced \subseteq Sessions \X Processes
    /\ commander \in [Matches -> Sessions \cup {None}]

NewSocket == [phase |-> "NEW", session |-> None, process |-> None,
              command |-> None]

Init ==
    /\ ContractInit
    /\ assigned = [o \in Officials |-> None]
    /\ socket = [x \in Sockets |-> NewSocket]
    /\ announce = {} /\ fanout = {} /\ announced = {}
    /\ commander = [m \in Matches |-> None]

-----------------------------------------------------------------------------
(* Sessions, by contract (Access), and assignments (Staffing).              *)

Claimed(m) == \E o \in Officials : assigned[o] = m

\* A login or a takeover; the session it replaced is announced after the commit.
\* Sessions are numbered in the order they are opened.
OpenSession(s, k, p) ==
    /\ \A t \in Sessions : t < s => owner[t] # None
    /\ Open(s, k)
    /\ announce' = announce \cup (LiveOf(k) \X {p})
    /\ UNCHANGED <<assigned, socket, fanout, announced, commander>>

\* Logout, a regenerated passcode or a deactivation are announced, an expiry is
\* not.
EndSession(s, announcements) ==
    /\ End(s)
    /\ announce' = announce \cup ({s} \X announcements)
    /\ UNCHANGED <<assigned, socket, fanout, announced, commander>>

Assign(o, m) ==
    /\ assigned[o] = None
    /\ assigned' = [assigned EXCEPT ![o] = m]
    /\ UNCHANGED <<owner, live, socket, revocationVars, commander>>

Unassign(o) ==
    /\ assigned[o] # None
    /\ assigned' = [assigned EXCEPT ![o] = None]
    /\ UNCHANGED <<owner, live, socket, revocationVars, commander>>

-----------------------------------------------------------------------------
(* Sockets.                                                                 *)

KeyOf(x) == owner[socket[x].session]
IsOfficial(x) == KeyOf(x) \in Officials
Connected(x) == socket[x].phase \notin {"NEW", "GONE"}
Registered(x) == socket[x].phase \in {"REGISTERED", "OPEN"}
InSessionRoom(x) == socket[x].phase = "OPEN" /\ IsOfficial(x)
SocketsOf(s, p) == {x \in Sockets : Connected(x) /\ socket[x].session = s
                                      /\ socket[x].process = p}

\* A gone socket is remembered only for the handlers still working for it.
Forget(r) == IF r.phase = "GONE" /\ r.command = None
             THEN [NewSocket EXCEPT !.phase = "GONE"] ELSE r

\* revokeSocket / handleDisconnect
Disconnect(xs) ==
    socket' = [x \in Sockets |-> IF x \in xs
                    THEN Forget([socket[x] EXCEPT !.phase = "GONE"]) ELSE socket[x]]

\* revokeSessions in process p: the sockets of the local registry are cut at
\* once, siblings are told through the session room.
Cut(s, p) == {x \in SocketsOf(s, p) : Registered(x)}
Tell(s, p) ==
    /\ fanout' = fanout \cup ({s} \X (Processes \ {p}))
    /\ announced' = announced \cup (({s} \ live) \X {p})

Announce(s, p) ==
    /\ <<s, p>> \in announce
    /\ announce' = announce \ {<<s, p>>}
    /\ Disconnect(Cut(s, p)) /\ Tell(s, p)
    /\ UNCHANGED <<sessionVars, commander>>

\* The room message arrives; one that the Redis adapter loses stays here.
Fanout(s, p) ==
    /\ <<s, p>> \in fanout
    /\ fanout' = fanout \ {<<s, p>>}
    /\ Disconnect({x \in SocketsOf(s, p) : InSessionRoom(x)})
    /\ UNCHANGED <<sessionVars, announce, announced, commander>>

\* The authentication middleware.
Handshake(x, s, p) ==
    /\ socket[x].phase = "NEW" /\ s \in live
    /\ socket' = [socket EXCEPT ![x].phase = "AUTHENTICATED", ![x].session = s,
                                ![x].process = p]
    /\ UNCHANGED <<sessionVars, revocationVars, commander>>

Advance(x, phase) ==
    /\ socket' = [socket EXCEPT ![x].phase = phase]
    /\ UNCHANGED <<sessionVars, revocationVars, commander>>

\* A revalidation that fails revokes the session everywhere and this socket.
Reject(x) ==
    LET s == socket[x].session  p == socket[x].process IN
    /\ Disconnect(Cut(s, p) \cup {x}) /\ Tell(s, p)
    /\ UNCHANGED <<sessionVars, announce, commander>>

\* Mutant: revalidate, then register, as connectOfficial does.
ConnectParticipantValidatingFirst(x) ==
    LET s == socket[x].session IN
    /\ Connected(x) /\ ~IsOfficial(x)
    /\ \/ socket[x].phase = "AUTHENTICATED" /\ s \in live /\ Advance(x, "VALIDATED")
       \/ socket[x].phase = "AUTHENTICATED" /\ s \notin live /\ Reject(x)
       \/ socket[x].phase = "VALIDATED" /\ Advance(x, "REGISTERED")
       \/ socket[x].phase = "REGISTERED" /\ Advance(x, "OPEN")

\* handleConnection of a match session: register, then revalidate.
ConnectParticipant(x) ==
    LET s == socket[x].session IN
    /\ Connected(x) /\ ~IsOfficial(x)
    /\ \/ socket[x].phase = "AUTHENTICATED" /\ Advance(x, "REGISTERED")
       \/ socket[x].phase = "REGISTERED" /\ s \in live /\ Advance(x, "OPEN")
       \/ socket[x].phase = "REGISTERED" /\ s \notin live /\ Reject(x)

\* connectOfficial: revalidate, then register, then join the session room.
ConnectOfficial(x) ==
    LET s == socket[x].session IN
    /\ Connected(x) /\ IsOfficial(x)
    /\ \/ socket[x].phase = "AUTHENTICATED" /\ s \in live /\ Advance(x, "VALIDATED")
       \/ socket[x].phase = "AUTHENTICATED" /\ s \notin live /\ Reject(x)
       \/ socket[x].phase = "VALIDATED" /\ Advance(x, "REGISTERED")
       \/ socket[x].phase = "REGISTERED" /\ Advance(x, "OPEN")

ClientDisconnects(x) ==
    /\ Connected(x)
    /\ Disconnect({x})
    /\ UNCHANGED <<sessionVars, revocationVars, commander>>

\* A process dies: the announcements it owed are never made.
Crash(p) ==
    /\ socket' = [x \in Sockets |-> IF socket[x].process = p
                    THEN [NewSocket EXCEPT !.phase = "GONE"] ELSE socket[x]]
    /\ \E x \in Sockets : Connected(x) /\ socket[x].process = p
    /\ announce' = {a \in announce : a[2] # p}
    /\ fanout' = {a \in fanout : a[2] # p}
    /\ UNCHANGED <<sessionVars, announced, commander>>

-----------------------------------------------------------------------------
(* Commands.                                                                *)

\* The match a session may command.
Commanded(s) == LET k == owner[s] IN IF k \in Codes THEN CodeMatch[k] ELSE assigned[k]

\* supervisorCommand: revalidate the socket, then hand over to the lifecycle.
Command(x) ==
    LET s == socket[x].session IN
    /\ Connected(x) /\ socket[x].command = None
    /\ \/ /\ s \in live /\ Commanded(s) # None
          /\ socket' = [socket EXCEPT ![x].command = Commanded(s)]
          /\ UNCHANGED <<sessionVars, revocationVars, commander>>
       \/ s \notin live /\ Reject(x)

\* Mutant: the transaction relies on the gateway's revalidation.
AuthorizedBefore(s, m) == TRUE

\* lockActiveSupervisorIdentity
Authorized(s, m) ==
    /\ s \in live /\ Commanded(s) = m
    /\ owner[s] \in Codes => ~Claimed(m)

CommitCommand(x) ==
    LET s == socket[x].session  m == socket[x].command IN
    /\ m # None
    /\ Authorized(s, m)
    /\ commander' = [commander EXCEPT ![m] = s]
    /\ socket' = [socket EXCEPT ![x] = Forget([@ EXCEPT !.command = None])]
    /\ UNCHANGED <<sessionVars, revocationVars>>

\* revokeCommandSocket
RefuseCommand(x) ==
    LET s == socket[x].session  p == socket[x].process
        xs == Cut(s, p) \cup ({x} \cap SocketsOf(s, p)) IN
    /\ socket[x].command # None /\ ~Authorized(s, socket[x].command)
    /\ socket' = [y \in Sockets |->
                    Forget([socket[y] EXCEPT !.phase = IF y \in xs THEN "GONE" ELSE @,
                                             !.command = IF y = x THEN None ELSE @])]
    /\ Tell(s, p)
    /\ UNCHANGED <<sessionVars, announce, commander>>

-----------------------------------------------------------------------------
SocketStep(x) ==
    \/ ConnectParticipant(x) \/ ConnectOfficial(x) \/ ClientDisconnects(x)
    \/ Command(x) \/ CommitCommand(x) \/ RefuseCommand(x)

Next ==
    \/ \E s \in Sessions, p \in Processes :
         \/ \E k \in Keys : OpenSession(s, k, p)
         \/ EndSession(s, {p}) \/ EndSession(s, {})
         \/ Announce(s, p)
         \/ Fanout(s, p)
         \/ \E x \in Sockets : Handshake(x, s, p)
    \/ \E o \in Officials : Unassign(o) \/ \E m \in Matches : Assign(o, m)
    \/ \E x \in Sockets : SocketStep(x)
    \/ \E p \in Processes : Crash(p)

Spec == Init /\ [][Next]_vars

-----------------------------------------------------------------------------
(* Properties.                                                              *)

\* Once revokeSessions has run in a process, none of the sockets that connected
\* there with a match session stays open on the revoked session.
RevocationReachesParticipants ==
    \A x \in Sockets :
        socket[x].phase = "OPEN" /\ ~IsOfficial(x)
          => <<socket[x].session, socket[x].process>> \notin announced

\* The same of every socket, the officials' included.
RevocationReachesEverySocket ==
    \A x \in Sockets :
        socket[x].phase = "OPEN"
          => <<socket[x].session, socket[x].process>> \notin announced

\* Commands of one credential never go back to a session that was taken over:
\* after a command of the newer session committed, none of the older one does;
\* and a code commands nothing on a match that a crew has claimed.
CommandsNeverGoBack ==
    [][\A m \in Matches :
         LET a == commander[m]  b == commander'[m] IN
         b # a => /\ a # None /\ owner[a] = owner[b] => b > a
                  /\ owner[b] \in Codes => ~Claimed(m)]_vars
=============================================================================
