-------------------------- MODULE ConnectionsProofs --------------------------
(***************************************************************************)
(* Proofs about Connections and SupervisorConsole: what a revocation has cut *)
(* when it was announced, in which order the sessions of a credential        *)
(* command, and that a command never misses its own broadcast; for every     *)
(* number of sessions, sockets, processes, matches and commands.             *)
(***************************************************************************)
EXTENDS MCConnections, TLAPS

-----------------------------------------------------------------------------
(* Connections: the inductive invariant.                                    *)

\* A session is opened before it can be used.
LiveIsOpened == \A s \in live : owner[s] # None

\* revokeSessions ran for sessions that were over, and those stay over.
AnnouncedIsOver == \A a \in announced : a[1] \notin live /\ owner[a[1]] # None

\* What is still to be announced was a session, too.
AnnounceIsOpened == \A a \in announce : owner[a[1]] # None

\* A socket that is there, or that a command is under way for, is on a session
\* that was opened, in a process.
Busy(x) == Connected(x) \/ socket[x].command # None

SocketsHaveSessions ==
    \A x \in Sockets : Busy(x) =>
        /\ socket[x].session \in Sessions /\ owner[socket[x].session] # None
        /\ socket[x].process \in Processes

ConnectionsInv ==
    /\ TypeOK
    /\ LiveIsOpened
    /\ AnnouncedIsOver
    /\ AnnounceIsOpened
    /\ SocketsHaveSessions
    /\ RevocationReachesParticipants

\* Sessions are opened in the order of their numbers.
OpenedInOrder ==
    \A s, t \in Sessions : t < s /\ owner[s] # None => owner[t] # None

\* The session a credential may use is the newest it has had.
LiveIsNewest ==
    \A s \in live : \A t \in Sessions : owner[t] = owner[s] => t <= s


-----------------------------------------------------------------------------
(* Steps.                                                                   *)

\* A socket goes on as it was, or is cut: it gains neither a session nor an open
\* connection.
Subsides(x) ==
    /\ Busy(x)' => /\ Busy(x)
                   /\ socket'[x].session = socket[x].session
                   /\ socket'[x].process = socket[x].process
    /\ socket'[x].phase = "OPEN" => socket[x].phase = "OPEN"

LEMMA SocketIsTyped ==
    ASSUME TypeOK, NEW x \in Sockets
    PROVE  socket[x] \in SocketType
  BY DEF TypeOK

LEMMA ForgetIsTyped ==
    ASSUME NEW r \in SocketType
    PROVE  /\ Forget(r) \in SocketType
           /\ Forget(r).phase = r.phase /\ Forget(r).command = r.command
           /\ r.phase # "GONE" \/ r.command # None => Forget(r) = r
  BY DEF Forget, NewSocket, SocketType, Phases

\* revokeSocket, as every handler uses it.
LEMMA DisconnectSubsides ==
    ASSUME TypeOK, NEW xs, Disconnect(xs)
    PROVE  /\ socket' \in [Sockets -> SocketType]
           /\ \A x \in Sockets : Subsides(x) /\ (x \in xs => socket'[x].phase = "GONE")
  <1> SUFFICES ASSUME NEW x \in Sockets
               PROVE  /\ socket'[x] \in SocketType /\ Subsides(x)
                      /\ x \in xs => socket'[x].phase = "GONE"
    BY DEF Disconnect
  <1>1. socket[x] \in SocketType  BY SocketIsTyped
  <1>2. CASE x \notin xs
    BY <1>1, <1>2 DEF Disconnect, Subsides, Busy, Connected
  <1>3. CASE x \in xs
    <2> DEFINE r == [socket[x] EXCEPT !.phase = "GONE"]
    <2>1. socket'[x] = Forget(r)  BY <1>3 DEF Disconnect
    <2>2. /\ r \in SocketType /\ r.phase = "GONE" /\ r.command = socket[x].command
          /\ r.session = socket[x].session /\ r.process = socket[x].process
      BY <1>1 DEF SocketType, Phases
    <2> HIDE DEF r
    <2>3. socket'[x] \in SocketType /\ socket'[x].phase = "GONE"
          /\ socket'[x].command = socket[x].command
      BY <2>1, <2>2, ForgetIsTyped
    <2>4. socket[x].command # None => socket'[x] = r  BY <2>1, <2>2, ForgetIsTyped
    <2> QED  BY <2>2, <2>3, <2>4 DEF Subsides, Busy, Connected
  <1> QED  BY <1>2, <1>3

\* A step that only cuts sockets keeps the invariant if whatever it announces has
\* ended and is left by every open socket of that process.
LEMMA CuttingKeepsRevocation ==
    ASSUME ConnectionsInv, TypeOK', UNCHANGED <<owner, live>>, announce' \subseteq announce,
           \A x \in Sockets : Subsides(x),
           \A a \in announced' : a \in announced \/
               /\ a[1] \notin live /\ owner[a[1]] # None
               /\ \A x \in Sockets :
                    socket[x].phase = "OPEN" /\ socket[x].session = a[1] /\ socket[x].process = a[2]
                      => socket'[x].phase # "OPEN"
    PROVE  ConnectionsInv'
  <1>1. LiveIsOpened' /\ AnnouncedIsOver' /\ AnnounceIsOpened'
    BY DEF ConnectionsInv, LiveIsOpened, AnnouncedIsOver, AnnounceIsOpened
  <1>2. SocketsHaveSessions'
    BY DEF ConnectionsInv, SocketsHaveSessions, Subsides
  <1>3. RevocationReachesParticipants'
    <2> SUFFICES ASSUME NEW x \in Sockets, socket'[x].phase = "OPEN", ~IsOfficial(x)',
                        <<socket'[x].session, socket'[x].process>> \in announced'
                 PROVE  FALSE
      BY DEF RevocationReachesParticipants
    <2>1. socket[x].phase = "OPEN" /\ socket'[x].session = socket[x].session
          /\ socket'[x].process = socket[x].process
      BY DEF Subsides, Busy, Connected
    <2>2. ~IsOfficial(x)  BY <2>1 DEF IsOfficial, KeyOf
    <2>3. <<socket[x].session, socket[x].process>> \notin announced
      BY <2>1, <2>2 DEF ConnectionsInv, RevocationReachesParticipants
    <2> QED  BY <2>1, <2>3
  <1> QED  BY <1>1, <1>2, <1>3 DEF ConnectionsInv

\* revokeSessions(s) in process p, with whatever else the handler cuts.
LEMMA TellKeepsRevocation ==
    ASSUME ConnectionsInv, UNCHANGED <<sessionVars, commander>>, announce' \subseteq announce,
           NEW s \in Sessions, NEW q \in Processes, owner[s] # None, Tell(s, q),
           socket' \in [Sockets -> SocketType],
           \A x \in Sockets : Subsides(x) /\ (x \in Cut(s, q) => socket'[x].phase = "GONE")
    PROVE  ConnectionsInv'
  <1>1. TypeOK'
    BY DEF ConnectionsInv, TypeOK, Tell, sessionVars
  <1>2. ASSUME NEW a \in announced', a \notin announced
        PROVE  a[1] = s /\ a[2] = q /\ s \notin live
    BY <1>2 DEF Tell
  <1>3. ASSUME NEW x \in Sockets, socket[x].phase = "OPEN", socket[x].session = s,
               socket[x].process = q
        PROVE  socket'[x].phase # "OPEN"
    <2>1. x \in Cut(s, q)  BY <1>3 DEF Cut, SocketsOf, Connected, Registered
    <2> QED  BY <2>1
  <1> QED  BY <1>1, <1>2, <1>3, CuttingKeepsRevocation DEF sessionVars

LEMMA RejectKeepsRevocation ==
    ASSUME ConnectionsInv, NEW x \in Sockets, Busy(x), Reject(x) PROVE ConnectionsInv'
  <1> DEFINE s == socket[x].session  q == socket[x].process
  <1>1. s \in Sessions /\ q \in Processes /\ owner[s] # None
    BY DEF ConnectionsInv, SocketsHaveSessions
  <1>2. Disconnect(Cut(s, q) \cup {x}) /\ Tell(s, q) /\ UNCHANGED <<sessionVars, announce, commander>>
    BY DEF Reject
  <1> HIDE DEF s, q
  <1>3. /\ socket' \in [Sockets -> SocketType]
        /\ \A y \in Sockets : Subsides(y) /\ (y \in Cut(s, q) => socket'[y].phase = "GONE")
    BY <1>2, DisconnectSubsides DEF ConnectionsInv
  <1> QED  BY <1>1, <1>2, <1>3, TellKeepsRevocation

LEMMA AnnounceKeepsRevocation ==
    ASSUME ConnectionsInv, NEW s \in Sessions, NEW q \in Processes, Announce(s, q)
    PROVE  ConnectionsInv'
  <1>1. owner[s] # None  BY DEF Announce, ConnectionsInv, AnnounceIsOpened
  <1>2. /\ socket' \in [Sockets -> SocketType]
        /\ \A y \in Sockets : Subsides(y) /\ (y \in Cut(s, q) => socket'[y].phase = "GONE")
    BY DisconnectSubsides DEF ConnectionsInv, Announce
  <1> QED  BY <1>1, <1>2, TellKeepsRevocation DEF Announce

LEMMA RefuseCommandKeepsRevocation ==
    ASSUME ConnectionsInv, NEW x \in Sockets, RefuseCommand(x) PROVE ConnectionsInv'
  <1> DEFINE s == socket[x].session  q == socket[x].process
             xs == Cut(s, q) \cup ({x} \cap SocketsOf(s, q))
             r(y) == [socket[y] EXCEPT !.phase = IF y \in xs THEN "GONE" ELSE @,
                                       !.command = IF y = x THEN None ELSE @]
  <1>1. s \in Sessions /\ q \in Processes /\ owner[s] # None
    BY DEF ConnectionsInv, SocketsHaveSessions, Busy, RefuseCommand
  <1>2. Tell(s, q) /\ UNCHANGED <<sessionVars, announce, commander>>
        /\ socket' = [y \in Sockets |-> Forget(r(y))]
    BY DEF RefuseCommand
  <1>3. ASSUME NEW y \in Sockets
        PROVE  /\ socket'[y] \in SocketType /\ Subsides(y)
               /\ y \in Cut(s, q) => socket'[y].phase = "GONE"
    <2>1. socket[y] \in SocketType  BY SocketIsTyped DEF ConnectionsInv
    <2>2. /\ r(y) \in SocketType
          /\ r(y).phase = (IF y \in xs THEN "GONE" ELSE socket[y].phase)
          /\ r(y).command = (IF y = x THEN None ELSE socket[y].command)
          /\ r(y).session = socket[y].session /\ r(y).process = socket[y].process
      BY <2>1 DEF SocketType, Phases
    <2>3. y \in Cut(s, q) => y \in xs  OBVIOUS
    <2>4. socket'[y] = Forget(r(y))  BY <1>2
    <2> HIDE DEF r, xs
    <2>5. /\ socket'[y] \in SocketType /\ socket'[y].phase = r(y).phase
          /\ socket'[y].command = r(y).command
          /\ r(y).phase # "GONE" \/ r(y).command # None => socket'[y] = r(y)
      BY <2>2, <2>4, ForgetIsTyped
    <2>6. socket'[y].phase = "OPEN" => socket[y].phase = "OPEN"  BY <2>2, <2>5
    <2>7. ASSUME Busy(y)' PROVE Busy(y) /\ socket'[y] = r(y)
      BY <2>2, <2>5, <2>7 DEF Busy, Connected
    <2> QED  BY <2>2, <2>3, <2>5, <2>6, <2>7 DEF Subsides
  <1> HIDE DEF s, q, xs, r
  <1>4. socket' \in [Sockets -> SocketType]  BY <1>2, <1>3
  <1> QED  BY <1>1, <1>2, <1>3, <1>4, TellKeepsRevocation

LEMMA CutsKeepRevocation ==
    ASSUME ConnectionsInv,
           \/ \E s \in Sessions, q \in Processes : Fanout(s, q)
           \/ \E x \in Sockets : ClientDisconnects(x) \/ CommitCommand(x)
           \/ \E q \in Processes : Crash(q)
    PROVE  ConnectionsInv'
  <1> SUFFICES ASSUME socket' \in [Sockets -> SocketType] /\ \A x \in Sockets : Subsides(x),
                      commander' \in [Matches -> Sessions \cup {None}],
                      UNCHANGED <<sessionVars, announced>>,
                      announce' \subseteq announce, fanout' \subseteq fanout
               PROVE  ConnectionsInv'
    <2>1. ASSUME NEW s \in Sessions, NEW q \in Processes, Fanout(s, q) PROVE ConnectionsInv'
      BY <2>1, DisconnectSubsides DEF Fanout, ConnectionsInv, TypeOK
    <2>2. ASSUME NEW x \in Sockets, ClientDisconnects(x) PROVE ConnectionsInv'
      BY <2>2, DisconnectSubsides DEF ClientDisconnects, ConnectionsInv, TypeOK, revocationVars
    <2>3. ASSUME NEW x \in Sockets, CommitCommand(x) PROVE ConnectionsInv'
      <3> DEFINE r == [socket[x] EXCEPT !.command = None]
      <3>1. /\ socket' = [socket EXCEPT ![x] = Forget(r)]
            /\ socket[x].command \in Matches /\ socket[x].session \in live
            /\ commander' = [commander EXCEPT ![socket[x].command] = socket[x].session]
        BY <2>3, SocketIsTyped DEF CommitCommand, Authorized, ConnectionsInv, SocketType
      <3>2. /\ r \in SocketType /\ r.phase = socket[x].phase /\ r.command = None
            /\ r.session = socket[x].session /\ r.process = socket[x].process
        BY SocketIsTyped DEF ConnectionsInv, SocketType
      <3> HIDE DEF r
      <3>3. /\ Forget(r) \in SocketType /\ Forget(r).phase = r.phase /\ Forget(r).command = None
            /\ r.phase # "GONE" => Forget(r) = r
        BY <3>2, ForgetIsTyped
      <3>4. socket' \in [Sockets -> SocketType]  BY <3>1, <3>3 DEF ConnectionsInv, TypeOK
      <3>5. ASSUME NEW y \in Sockets PROVE Subsides(y)
        <4>1. CASE y # x
          BY <3>1, <4>1 DEF Subsides, Busy, Connected, ConnectionsInv, TypeOK
        <4>2. CASE y = x
          <5>1. socket'[y] = Forget(r)  BY <3>1, <4>2 DEF ConnectionsInv, TypeOK
          <5> QED  BY <3>2, <3>3, <4>2, <5>1 DEF Subsides, Busy, Connected
        <4> QED  BY <4>1, <4>2
      <3>6. commander' \in [Matches -> Sessions \cup {None}]
        BY <3>1 DEF ConnectionsInv, TypeOK
      <3> QED  BY <2>3, <3>4, <3>5, <3>6 DEF CommitCommand, revocationVars
    <2>4. ASSUME NEW q \in Processes, Crash(q) PROVE ConnectionsInv'
      <3> DEFINE gone == [NewSocket EXCEPT !.phase = "GONE"]
      <3>1. socket' = [x \in Sockets |-> IF socket[x].process = q THEN gone ELSE socket[x]]
        BY <2>4 DEF Crash
      <3>2. gone \in SocketType /\ gone.phase = "GONE" /\ gone.command = None
        BY DEF NewSocket, SocketType, Phases
      <3> HIDE DEF gone
      <3>3. socket' \in [Sockets -> SocketType]  BY <3>1, <3>2 DEF ConnectionsInv, TypeOK
      <3>4. \A x \in Sockets : Subsides(x)  BY <3>1, <3>2 DEF Subsides, Busy, Connected
      <3> QED  BY <2>4, <3>3, <3>4 DEF Crash, ConnectionsInv, TypeOK
    <2> QED  BY <2>1, <2>2, <2>3, <2>4
  <1>1. TypeOK'  BY DEF ConnectionsInv, TypeOK, sessionVars
  <1> QED  BY <1>1, CuttingKeepsRevocation DEF sessionVars

\* A socket that connects, moves on or takes up a command: it may open only on a
\* session that has not ended.
LEMMA GrowthKeepsRevocation ==
    ASSUME ConnectionsInv, UNCHANGED <<sessionVars, revocationVars, commander>>,
           NEW x \in Sockets, NEW r \in SocketType, socket' = [socket EXCEPT ![x] = r],
           r.session \in Sessions, owner[r.session] # None, r.process \in Processes,
           r.phase = "OPEN" /\ owner[r.session] \notin Officials =>
               \/ r.session \in live
               \/ /\ socket[x].phase = "OPEN"
                  /\ r.session = socket[x].session /\ r.process = socket[x].process
    PROVE  ConnectionsInv'
  <1>1. socket' \in [Sockets -> SocketType] /\ socket'[x] = r
        /\ \A y \in Sockets : y # x => socket'[y] = socket[y]
    BY DEF ConnectionsInv, TypeOK
  <1>2. TypeOK'  BY <1>1 DEF ConnectionsInv, TypeOK, sessionVars, revocationVars
  <1>3. LiveIsOpened' /\ AnnouncedIsOver' /\ AnnounceIsOpened'
    BY DEF ConnectionsInv, LiveIsOpened, AnnouncedIsOver, AnnounceIsOpened, sessionVars,
           revocationVars
  <1>4. SocketsHaveSessions'
    BY <1>1 DEF ConnectionsInv, SocketsHaveSessions, Busy, Connected, sessionVars
  <1>5. RevocationReachesParticipants'
    <2> SUFFICES ASSUME NEW y \in Sockets, socket'[y].phase = "OPEN", ~IsOfficial(y)'
                 PROVE  <<socket'[y].session, socket'[y].process>> \notin announced
      BY DEF RevocationReachesParticipants, revocationVars
    <2>1. CASE socket[y].phase = "OPEN" /\ socket'[y].session = socket[y].session
               /\ socket'[y].process = socket[y].process
      <3>1. ~IsOfficial(y)  BY <2>1 DEF IsOfficial, KeyOf, sessionVars
      <3> QED  BY <2>1, <3>1 DEF ConnectionsInv, RevocationReachesParticipants
    <2>2. CASE socket'[y].session \in live
      BY <2>2 DEF ConnectionsInv, AnnouncedIsOver
    <2> QED  BY <1>1, <2>1, <2>2 DEF IsOfficial, KeyOf, sessionVars
  <1> QED  BY <1>2, <1>3, <1>4, <1>5 DEF ConnectionsInv

LEMMA AdvanceKeepsRevocation ==
    ASSUME ConnectionsInv, NEW x \in Sockets, Connected(x), NEW f \in Phases, Advance(x, f),
           f = "OPEN" => IsOfficial(x) \/ socket[x].session \in live
    PROVE  ConnectionsInv'
  <1> DEFINE r == [socket[x] EXCEPT !.phase = f]
  <1>1. socket' = [socket EXCEPT ![x] = r]  BY DEF Advance
  <1>2. /\ r \in SocketType /\ r.phase = f
        /\ r.session = socket[x].session /\ r.process = socket[x].process
    BY SocketIsTyped DEF ConnectionsInv, SocketType
  <1>3. socket[x].session \in Sessions /\ owner[socket[x].session] # None
        /\ socket[x].process \in Processes
    BY DEF ConnectionsInv, SocketsHaveSessions, Busy
  <1> HIDE DEF r
  <1> QED  BY <1>1, <1>2, <1>3, GrowthKeepsRevocation DEF Advance, IsOfficial, KeyOf

LEMMA ConnectKeepsRevocation ==
    ASSUME ConnectionsInv, NEW x \in Sockets, ConnectParticipant(x) \/ ConnectOfficial(x)
    PROVE  ConnectionsInv'
  <1>1. Connected(x)  BY DEF ConnectParticipant, ConnectOfficial
  <1>2. CASE Reject(x)  BY <1>1, <1>2, RejectKeepsRevocation DEF Busy
  <1>3. CASE \E f \in {"VALIDATED", "REGISTERED"} : Advance(x, f)
    BY <1>1, <1>3, AdvanceKeepsRevocation DEF Phases
  <1>4. CASE Advance(x, "OPEN") /\ (IsOfficial(x) \/ socket[x].session \in live)
    BY <1>1, <1>4, AdvanceKeepsRevocation DEF Phases
  <1> QED  BY <1>2, <1>3, <1>4 DEF ConnectParticipant, ConnectOfficial

LEMMA CommandKeepsRevocation ==
    ASSUME ConnectionsInv, NEW x \in Sockets, Command(x) PROVE ConnectionsInv'
  <1> DEFINE s == socket[x].session
             r == [socket[x] EXCEPT !.command = Commanded(s)]
  <1>1. Connected(x)  BY DEF Command
  <1>2. CASE Reject(x)  BY <1>1, <1>2, RejectKeepsRevocation DEF Busy
  <1>3. CASE /\ s \in live /\ Commanded(s) # None
             /\ socket' = [socket EXCEPT ![x] = r]
             /\ UNCHANGED <<sessionVars, revocationVars, commander>>
    <2>1. /\ socket[x].session \in Sessions /\ owner[socket[x].session] # None
          /\ socket[x].process \in Processes
      BY <1>1 DEF ConnectionsInv, SocketsHaveSessions, Busy
    <2>2. Commanded(s) \in Matches \cup {None}
      BY <2>1, ConnectionsAssumption DEF Commanded, ConnectionsInv, TypeOK
    <2>3. /\ r \in SocketType /\ r.phase = socket[x].phase
          /\ r.session = socket[x].session /\ r.process = socket[x].process
      BY <2>2, SocketIsTyped DEF ConnectionsInv, SocketType
    <2> HIDE DEF r
    <2> QED  BY <1>3, <2>1, <2>3, GrowthKeepsRevocation
  <1> QED  BY <1>2, <1>3 DEF Command

LEMMA HandshakeKeepsRevocation ==
    ASSUME ConnectionsInv, NEW x \in Sockets, NEW s \in Sessions, NEW q \in Processes,
           Handshake(x, s, q)
    PROVE  ConnectionsInv'
  <1> DEFINE r == [[[socket[x] EXCEPT !.phase = "AUTHENTICATED"]
                       EXCEPT !.session = s] EXCEPT !.process = q]
  <1>1. socket' = [socket EXCEPT ![x] = r] /\ s \in live
        /\ UNCHANGED <<sessionVars, revocationVars, commander>>
    BY SocketIsTyped DEF Handshake, ConnectionsInv, TypeOK, SocketType
  <1>2. /\ r \in SocketType /\ r.phase = "AUTHENTICATED" /\ r.session = s /\ r.process = q
    BY SocketIsTyped DEF ConnectionsInv, SocketType, Phases
  <1>3. owner[s] # None  BY <1>1 DEF ConnectionsInv, LiveIsOpened
  <1> HIDE DEF r
  <1> QED  BY <1>1, <1>2, <1>3, GrowthKeepsRevocation

LEMMA SessionsKeepRevocation ==
    ASSUME ConnectionsInv, UNCHANGED <<socket, announced, commander, fanout>>,
           TypeOK', AnnounceIsOpened',
           \A s \in live' : owner'[s] # None /\ (s \in live \/ owner[s] = None),
           \A s \in Sessions : owner[s] # None => owner'[s] = owner[s]
    PROVE  ConnectionsInv'
  <1>1. LiveIsOpened'  BY DEF LiveIsOpened
  <1>2. \A a \in announced : a[1] \in Sessions  BY DEF ConnectionsInv, TypeOK
  <1>3. AnnouncedIsOver'  BY <1>2 DEF ConnectionsInv, AnnouncedIsOver
  <1>4. SocketsHaveSessions'
    BY DEF ConnectionsInv, SocketsHaveSessions, Busy, Connected
  <1>5. RevocationReachesParticipants'
    <2> SUFFICES ASSUME NEW x \in Sockets, socket[x].phase = "OPEN", ~IsOfficial(x)'
                 PROVE  <<socket[x].session, socket[x].process>> \notin announced
      BY DEF RevocationReachesParticipants
    <2>1. socket[x].session \in Sessions /\ owner[socket[x].session] # None
      BY DEF ConnectionsInv, SocketsHaveSessions, Busy, Connected
    <2>2. ~IsOfficial(x)  BY <2>1 DEF IsOfficial, KeyOf
    <2> QED  BY <2>2 DEF ConnectionsInv, RevocationReachesParticipants
  <1> QED  BY <1>1, <1>3, <1>4, <1>5 DEF ConnectionsInv

LEMMA OpenSessionKeepsRevocation ==
    ASSUME ConnectionsInv, NEW s \in Sessions, NEW k \in Keys, NEW q \in Processes,
           OpenSession(s, k, q)
    PROVE  ConnectionsInv'
  <1>1. /\ owner' = [owner EXCEPT ![s] = k] /\ owner[s] = None
        /\ live' = (live \ LiveOf(k)) \cup {s}
        /\ announce' = announce \cup (LiveOf(k) \X {q})
        /\ UNCHANGED <<assigned, socket, fanout, announced, commander>>
    BY DEF OpenSession, Open
  <1>2. LiveOf(k) \subseteq live  BY DEF LiveOf
  <1>3. k # None  BY ConnectionsAssumption
  <1>4. TypeOK'  BY <1>1, <1>2 DEF ConnectionsInv, TypeOK
  <1>5. \A t \in Sessions : owner[t] # None => owner'[t] = owner[t]
    BY <1>1 DEF ConnectionsInv, TypeOK
  <1>6. \A t \in live : t \in Sessions /\ owner[t] # None
    BY DEF ConnectionsInv, TypeOK, LiveIsOpened
  <1>7. AnnounceIsOpened'
    <2> SUFFICES ASSUME NEW a \in announce' PROVE owner'[a[1]] # None
      BY DEF AnnounceIsOpened
    <2>1. CASE a \in announce
      BY <1>5, <2>1 DEF ConnectionsInv, AnnounceIsOpened, TypeOK
    <2>2. CASE a \in LiveOf(k) \X {q}  BY <1>2, <1>5, <1>6, <2>2
    <2> QED  BY <1>1, <2>1, <2>2
  <1>8. owner'[s] = k  BY <1>1 DEF ConnectionsInv, TypeOK
  <1>9. \A t \in live' : owner'[t] # None /\ (t \in live \/ owner[t] = None)
    BY <1>1, <1>3, <1>5, <1>6, <1>8
  <1> QED  BY <1>1, <1>4, <1>5, <1>7, <1>9, SessionsKeepRevocation

LEMMA EndSessionKeepsRevocation ==
    ASSUME ConnectionsInv, NEW s \in Sessions, NEW ps \in SUBSET Processes, EndSession(s, ps)
    PROVE  ConnectionsInv'
  <1>1. /\ UNCHANGED <<owner, assigned, socket, fanout, announced, commander>>
        /\ live' = live \ {s} /\ s \in live
        /\ announce' = announce \cup ({s} \X ps)
    BY DEF EndSession, End
  <1>2. TypeOK'  BY <1>1 DEF ConnectionsInv, TypeOK
  <1>3. \A t \in live : owner[t] # None  BY DEF ConnectionsInv, LiveIsOpened
  <1>4. AnnounceIsOpened'  BY <1>1, <1>3 DEF ConnectionsInv, AnnounceIsOpened
  <1> QED  BY <1>1, <1>2, <1>3, <1>4, SessionsKeepRevocation

LEMMA AssignmentKeepsRevocation ==
    ASSUME ConnectionsInv, UNCHANGED <<owner, live, socket, revocationVars, commander>>,
           assigned' \in [Officials -> Matches \cup {None}]
    PROVE  ConnectionsInv'
  <1>1. TypeOK'  BY DEF ConnectionsInv, TypeOK, revocationVars
  <1>2. AnnounceIsOpened'  BY DEF ConnectionsInv, AnnounceIsOpened, revocationVars
  <1>3. \A t \in live : owner[t] # None  BY DEF ConnectionsInv, LiveIsOpened
  <1> QED  BY <1>1, <1>2, <1>3, SessionsKeepRevocation DEF revocationVars

LEMMA ConnectionsStepKeepsRevocation == ConnectionsInv /\ [Next]_vars => ConnectionsInv'
  <1> SUFFICES ASSUME ConnectionsInv, [Next]_vars PROVE ConnectionsInv'  OBVIOUS
  <1>1. CASE UNCHANGED vars
    BY <1>1, AssignmentKeepsRevocation DEF vars, revocationVars, ConnectionsInv, TypeOK
  <1>2. ASSUME NEW s \in Sessions, NEW q \in Processes,
               \/ \E k \in Keys : OpenSession(s, k, q)
               \/ EndSession(s, {q}) \/ EndSession(s, {})
               \/ Announce(s, q)
               \/ \E x \in Sockets : Handshake(x, s, q)
        PROVE  ConnectionsInv'
    <2>1. {q} \in SUBSET Processes /\ {} \in SUBSET Processes  OBVIOUS
    <2> QED  BY <1>2, <2>1, OpenSessionKeepsRevocation, EndSessionKeepsRevocation,
                AnnounceKeepsRevocation, HandshakeKeepsRevocation
  <1>3. CASE \E o \in Officials : Unassign(o) \/ \E m \in Matches : Assign(o, m)
    <2>1. assigned' \in [Officials -> Matches \cup {None}]
      BY <1>3 DEF Unassign, Assign, ConnectionsInv, TypeOK
    <2> QED  BY <1>3, <2>1, AssignmentKeepsRevocation DEF Unassign, Assign
  <1>4. ASSUME NEW x \in Sockets,
               ConnectParticipant(x) \/ ConnectOfficial(x) \/ Command(x) \/ RefuseCommand(x)
        PROVE  ConnectionsInv'
    BY <1>4, ConnectKeepsRevocation, CommandKeepsRevocation, RefuseCommandKeepsRevocation
  <1>5. CASE \/ \E s \in Sessions, q \in Processes : Fanout(s, q)
             \/ \E x \in Sockets : ClientDisconnects(x) \/ CommitCommand(x)
             \/ \E q \in Processes : Crash(q)
    BY <1>5, CutsKeepRevocation
  <1> HIDE DEF ConnectionsInv
  <1> QED  BY <1>1, <1>2, <1>3, <1>4, <1>5 DEF Next, SocketStep

LEMMA ConnectionsStart == Init => ConnectionsInv
  <1> SUFFICES ASSUME Init PROVE ConnectionsInv  OBVIOUS
  <1>1. NewSocket \in SocketType /\ NewSocket.phase = "NEW" /\ NewSocket.command = None
    BY DEF NewSocket, SocketType, Phases
  <1>2. TypeOK  BY <1>1 DEF Init, ContractInit, TypeOK
  <1>3. LiveIsOpened /\ AnnouncedIsOver /\ AnnounceIsOpened
    BY DEF Init, ContractInit, LiveIsOpened, AnnouncedIsOver, AnnounceIsOpened
  <1>4. SocketsHaveSessions /\ RevocationReachesParticipants
    BY <1>1 DEF Init, SocketsHaveSessions, RevocationReachesParticipants, Busy, Connected
  <1> QED  BY <1>2, <1>3, <1>4 DEF ConnectionsInv

-----------------------------------------------------------------------------
(* The order of commands.                                                   *)

OrderInv == ConnectionsInv /\ OpenedInOrder /\ LiveIsNewest

\* Sessions change by logins and takeovers, which take the next number, and by
\* ends.
LEMMA SessionsStayInOrder == OrderInv /\ [Next]_vars => OrderInv'
  <1> SUFFICES ASSUME OrderInv, [Next]_vars PROVE OrderInv'  OBVIOUS
  <1>1. ConnectionsInv'  BY ConnectionsStepKeepsRevocation DEF OrderInv
  <1>2. owner \in [Sessions -> Keys \cup {None}] /\ live \subseteq Sessions
        /\ \A s \in live : owner[s] # None
    BY DEF OrderInv, ConnectionsInv, TypeOK, LiveIsOpened
  <1>3. CASE UNCHANGED owner /\ live' \subseteq live
    BY <1>1, <1>3 DEF OrderInv, OpenedInOrder, LiveIsNewest
  <1>4. ASSUME NEW s \in Sessions, NEW k \in Keys, NEW q \in Processes, OpenSession(s, k, q)
        PROVE  OrderInv'
    <2>1. /\ owner' = [owner EXCEPT ![s] = k] /\ owner[s] = None
          /\ live' = (live \ LiveOf(k)) \cup {s}
          /\ \A t \in Sessions : t < s => owner[t] # None
      BY <1>4 DEF OpenSession, Open
    <2>2. k # None /\ Sessions \subseteq Nat  BY ConnectionsAssumption
    <2>3. /\ owner'[s] = k
          /\ \A t \in Sessions : t # s => owner'[t] = owner[t]
      BY <1>2, <2>1
    <2>4. \A t \in Sessions : owner[t] # None => t < s
      BY <2>1, <2>2 DEF OrderInv, OpenedInOrder
    <2>5. OpenedInOrder'
      <3> SUFFICES ASSUME NEW t \in Sessions, NEW u \in Sessions, u < t, owner'[t] # None
                   PROVE  owner'[u] # None
        BY DEF OpenedInOrder
      <3> QED  BY <2>1, <2>2, <2>3 DEF OrderInv, OpenedInOrder
    <2>6. LiveIsNewest'
      <3> SUFFICES ASSUME NEW t \in live', NEW u \in Sessions, owner'[u] = owner'[t]
                   PROVE  u <= t
        BY DEF LiveIsNewest
      <3>1. CASE t = s
        <4>1. u = s \/ owner[u] # None  BY <2>2, <2>3, <3>1
        <4> QED  BY <2>2, <2>4, <3>1, <4>1
      <3>2. CASE t # s
        <4>1. t \in live /\ owner[t] # k  BY <2>1, <3>2 DEF LiveOf
        <4>2. u # s /\ owner[u] = owner[t]  BY <1>2, <2>3, <3>2, <4>1
        <4> QED  BY <4>1, <4>2 DEF OrderInv, LiveIsNewest
      <3> QED  BY <3>1, <3>2
    <2> QED  BY <1>1, <2>5, <2>6 DEF OrderInv
  <1>5. ASSUME \/ UNCHANGED vars
               \/ \E s \in Sessions, q \in Processes :
                    \/ EndSession(s, {q}) \/ EndSession(s, {})
                    \/ Announce(s, q) \/ Fanout(s, q)
                    \/ \E x \in Sockets : Handshake(x, s, q)
               \/ \E o \in Officials : Unassign(o) \/ \E m \in Matches : Assign(o, m)
               \/ \E x \in Sockets : SocketStep(x)
               \/ \E q \in Processes : Crash(q)
        PROVE  UNCHANGED owner /\ live' \subseteq live
    BY <1>5 DEF vars, EndSession, End, Announce, Fanout, Handshake, Unassign, Assign, SocketStep,
                ConnectParticipant, ConnectOfficial, ClientDisconnects, Command, CommitCommand,
                RefuseCommand, Crash, Advance, Reject, sessionVars
  <1> HIDE DEF OrderInv
  <1> QED  BY <1>3, <1>4, <1>5 DEF Next

\* Only CommitCommand changes who commanded last, under lockActiveSupervisorIdentity.
LEMMA CommandsComeFromTheNewest ==
    ASSUME OrderInv, [Next]_vars, NEW m \in Matches, commander'[m] # commander[m]
    PROVE  LET a == commander[m]  b == commander'[m] IN
           /\ a # None /\ owner[a] = owner[b] => b > a
           /\ owner[b] \in Codes => ~Claimed(m)
  <1>1. PICK x \in Sockets : CommitCommand(x)
    <2>1. commander' # commander  OBVIOUS
    <2> QED
      BY <2>1 DEF Next, vars, OpenSession, EndSession, Announce, Fanout, Handshake, Unassign,
                  Assign, SocketStep, ConnectParticipant, ConnectOfficial, ClientDisconnects,
                  Command, RefuseCommand, Crash, Advance, Reject
  <1> DEFINE s == socket[x].session
  <1>2. /\ commander' = [commander EXCEPT ![socket[x].command] = s]
        /\ Authorized(s, socket[x].command)
    BY <1>1 DEF CommitCommand
  <1>3. commander \in [Matches -> Sessions \cup {None}]
    BY DEF OrderInv, ConnectionsInv, TypeOK
  <1>4. socket[x].command = m /\ commander'[m] = s  BY <1>2, <1>3
  <1>5. s \in live /\ (owner[s] \in Codes => ~Claimed(m))  BY <1>2, <1>4 DEF Authorized
  <1>6. ASSUME commander[m] # None, owner[commander[m]] = owner[s] PROVE s > commander[m]
    <2>1. commander[m] \in Sessions  BY <1>3, <1>6
    <2>2. commander[m] <= s  BY <1>5, <1>6, <2>1 DEF OrderInv, LiveIsNewest
    <2>3. s \in Nat /\ commander[m] \in Nat
      BY <1>5, <2>1, ConnectionsAssumption DEF OrderInv, ConnectionsInv, TypeOK
    <2> QED  BY <1>4, <2>2, <2>3
  <1> HIDE DEF s
  <1> QED  BY <1>4, <1>5, <1>6

\* After a command of a session committed (lockActiveSupervisorIdentity), no older
\* session of the same credential commits one, and no legacy code commands a match
\* that officials have claimed, however long ago the gateway revalidated the socket.
THEOREM CommandsStayOrdered == Spec => CommandsNeverGoBack
  <1>1. Init => OrderInv
    BY ConnectionsStart DEF Init, ContractInit, OrderInv, OpenedInOrder, LiveIsNewest
  <1>2. OrderInv /\ [Next]_vars =>
          [\A m \in Matches :
             LET a == commander[m]  b == commander'[m] IN
             b # a => /\ a # None /\ owner[a] = owner[b] => b > a
                      /\ owner[b] \in Codes => ~Claimed(m)]_vars
    BY CommandsComeFromTheNewest
  <1> QED  BY <1>1, <1>2, SessionsStayInOrder, PTL DEF Spec, CommandsNeverGoBack

-----------------------------------------------------------------------------
(* SupervisorConsole: the inductive invariant.                              *)

AttemptType == [button : Buttons, stage : Stages, version : Nat,
                orphan : BOOLEAN, awaited : BOOLEAN]
Answers == {"OK", "FAILED", "AUTH"}
ItemType == [kind : {"STATE", "EVENT"} \cup Answers, of : Nat, version : Nat]

\* The messages on their way to the browser.
Underway == {inbox[i] : i \in 1..Len(inbox)}

SupervisorTyped ==
    /\ commits \in Nat /\ sent \in Nat /\ seen \in Nat /\ told \in Nat
    /\ attempt \in [Attempts -> AttemptType]
    /\ inbox \in Seq(ItemType)
    /\ replies \subseteq Nat

\* A command is not ahead of the commits; one that was not sent has no trace; and
\* the socket that sent it is in the room from before the commit.
GoodAttempt(k) ==
    /\ attempt[k].version <= commits
    /\ k > sent => attempt[k].stage = "NONE"
    /\ attempt[k].stage \in {"JOINED", "COMMITTED", "READ"} /\ ~attempt[k].orphan
         => linked /\ inRoom

\* A confirmation that says more than what the room was told makes the browser ask
\* for a snapshot, or leave.
FollowedUp(p) ==
    p.kind = "OK" /\ attempt[p.of].awaited =>
        \/ p.version <= told
        \/ "OK" \in attempt[p.of].button.asks
        \/ attempt[p.of].button.leaves

GoodMessage(p) ==
    /\ p.version <= commits /\ p.of <= sent
    /\ p.kind \in Answers => p.of \in Attempts
    /\ FollowedUp(p)

\* What the console was told is what it has received, or on its way.
OnItsWay ==
    \/ seen >= told
    \/ requested
    \/ \E v \in replies : v >= told
    \/ \E p \in Underway : p.kind = "EVENT" \/ (p.kind = "STATE" /\ p.version >= told)

SupervisorInv ==
    /\ SupervisorTyped
    /\ told <= commits /\ \A v \in replies : v <= commits
    /\ \A k \in Attempts : GoodAttempt(k)
    /\ \A p \in Underway : GoodMessage(p)
    /\ linked /\ mounted => OnItsWay

-----------------------------------------------------------------------------
(* What the buttons, the messages and the attempts have in common.          *)

\* Where a confirmation neither asks nor leaves (submitFault), the handler does not
\* confirm what it could not publish.
LEMMA ButtonsFollowUp ==
    ASSUME NEW b \in Buttons
    PROVE  "OK" \in b.asks \/ b.leaves \/ ~b.handler.logged
  <1>1. CASE b \in {startRound, completeMatch, publishResult, controlRound}
    BY <1>1 DEF startRound, completeMatch, publishResult, controlRound
  <1>2. CASE b \in {undoResultCancellation, changeResults, exitMatch}
    BY <1>2 DEF undoResultCancellation, changeResults, exitMatch
  <1>3. CASE b = submitFault
    BY <1>3 DEF submitFault, faultRecord
  <1>4. CASE \E h : b = resultAction(h)
    BY <1>4 DEF resultAction
  <1> QED  BY <1>1, <1>2, <1>3, <1>4 DEF Buttons

LEMMA UnderwayAppend ==
    ASSUME inbox \in Seq(ItemType), NEW m \in ItemType, inbox' = Append(inbox, m)
    PROVE  inbox' \in Seq(ItemType) /\ Underway' = Underway \cup {m}
  <1>1. inbox' \in Seq(ItemType) /\ Len(inbox') = Len(inbox) + 1 /\ Len(inbox) \in Nat
        /\ inbox'[Len(inbox) + 1] = m /\ \A j \in 1..Len(inbox) : inbox'[j] = inbox[j]
    OBVIOUS
  <1>2. Underway' \subseteq Underway \cup {m}  BY <1>1 DEF Underway
  <1>3. Underway \cup {m} \subseteq Underway'  BY <1>1 DEF Underway
  <1> QED  BY <1>1, <1>2, <1>3

LEMMA UnderwayTail ==
    ASSUME inbox \in Seq(ItemType), inbox # <<>>, inbox' = Tail(inbox)
    PROVE  /\ inbox' \in Seq(ItemType) /\ Head(inbox) \in Underway /\ Head(inbox) \in ItemType
           /\ Underway' \subseteq Underway
           /\ \A p \in Underway : p \in Underway' \/ p = Head(inbox)
  <1>1. /\ inbox' \in Seq(ItemType) /\ Len(inbox) \in Nat \ {0} /\ Len(inbox') = Len(inbox) - 1
        /\ Head(inbox) = inbox[1]
        /\ \A j \in 1..Len(inbox') : inbox'[j] = inbox[j + 1]
    OBVIOUS
  <1>2. inbox[1] \in Underway /\ inbox[1] \in ItemType  BY <1>1 DEF Underway
  <1>3. ASSUME NEW p \in Underway' PROVE p \in Underway
    <2>1. PICK j \in 1..Len(inbox') : p = inbox'[j]  BY <1>3 DEF Underway
    <2>2. p = inbox[j + 1] /\ j + 1 \in 1..Len(inbox)  BY <1>1, <2>1
    <2> QED  BY <2>2 DEF Underway
  <1>4. ASSUME NEW p \in Underway, p # inbox[1] PROVE p \in Underway'
    <2>1. PICK j \in 1..Len(inbox) : p = inbox[j]  BY <1>4 DEF Underway
    <2>2. j - 1 \in 1..Len(inbox') /\ p = inbox'[j - 1]
      <3>1. j # 1  BY <1>4, <2>1
      <3>2. j - 1 \in 1..Len(inbox')  BY <1>1, <3>1
      <3>3. inbox'[j - 1] = inbox[(j - 1) + 1]  BY <1>1, <3>2
      <3>4. (j - 1) + 1 = j  BY <2>1
      <3> QED  BY <2>1, <3>2, <3>3, <3>4
    <2> QED  BY <2>2 DEF Underway
  <1> QED  BY <1>1, <1>2, <1>3, <1>4

LEMMA ItemIsTyped ==
    ASSUME NEW kind \in {"STATE", "EVENT"} \cup Answers, NEW k \in Nat, NEW v \in Nat
    PROVE  /\ Item(kind, k, v) \in ItemType
           /\ Item(kind, k, v).kind = kind /\ Item(kind, k, v).of = k
           /\ Item(kind, k, v).version = v
  BY DEF Item, ItemType

\* The attempt loses: it is not awaited anew, and gets no further.
Fades(k) ==
    /\ attempt'[k].version <= attempt[k].version
    /\ attempt'[k].awaited => attempt[k].awaited /\ attempt'[k].button = attempt[k].button
    /\ attempt[k].stage = "NONE" => attempt'[k].stage = "NONE"
    /\ attempt'[k].stage \in {"JOINED", "COMMITTED", "READ"} /\ ~attempt'[k].orphan
         => attempt[k].stage \in {"JOINED", "COMMITTED", "READ"} /\ ~attempt[k].orphan

LEMMA KeptIsTyped ==
    ASSUME NEW a \in AttemptType
    PROVE  /\ Kept(a) \in AttemptType /\ Kept(a).version <= a.version
           /\ Kept(a).stage = a.stage
           /\ Kept(a).awaited \/ a.stage # "DONE" => Kept(a) = a
  <1>1. startRound \in Buttons  BY DEF Buttons
  <1>2. /\ Over \in AttemptType /\ Over.version = 0 /\ Over.stage = "DONE" /\ ~Over.awaited
    BY <1>1 DEF Over, NoAttempt, AttemptType, Stages
  <1> HIDE DEF Over
  <1>3. a.version \in Nat  BY DEF AttemptType
  <1> QED  BY <1>2, <1>3 DEF Kept

LEMMA AttemptIsTyped ==
    ASSUME SupervisorInv, NEW k \in Attempts
    PROVE  attempt[k] \in AttemptType /\ GoodAttempt(k) /\ k \in Nat
  BY SupervisorConsoleAssumption DEF SupervisorInv, SupervisorTyped, Attempts

\* The two ways in which handlers and browser let go of an attempt.
LEMMA MovedFades ==
    ASSUME SupervisorInv, NEW k \in Attempts, attempt[k].stage # "NONE",
           attempt' = Moved(k, "DONE")
    PROVE  attempt' \in [Attempts -> AttemptType] /\ \A j \in Attempts : Fades(j)
  <1> DEFINE a == [attempt[k] EXCEPT !.stage = "DONE"]
  <1>1. /\ a \in AttemptType /\ a.version = attempt[k].version /\ a.stage = "DONE"
        /\ a.button = attempt[k].button /\ a.awaited = attempt[k].awaited
        /\ attempt[k].version \in Nat
    BY AttemptIsTyped DEF AttemptType, Stages
  <1>2. attempt' = [attempt EXCEPT ![k] = Kept(a)]  BY DEF Moved
  <1> HIDE DEF a
  <1>3. /\ Kept(a) \in AttemptType /\ Kept(a).version <= a.version /\ Kept(a).stage = "DONE"
        /\ Kept(a).awaited => Kept(a) = a
    BY <1>1, KeptIsTyped
  <1>4. attempt' \in [Attempts -> AttemptType]
    BY <1>2, <1>3 DEF SupervisorInv, SupervisorTyped
  <1>5. Fades(k)
    <2>1. attempt'[k] = Kept(a)  BY <1>2 DEF SupervisorInv, SupervisorTyped
    <2> QED  BY <1>1, <1>3, <2>1 DEF Fades
  <1>6. ASSUME NEW j \in Attempts, j # k PROVE Fades(j)
    <2>1. attempt'[j] = attempt[j]  BY <1>2, <1>6 DEF SupervisorInv, SupervisorTyped
    <2>2. attempt[j].version \in Nat  BY AttemptIsTyped DEF AttemptType
    <2> QED  BY <2>1, <2>2 DEF Fades
  <1> QED  BY <1>4, <1>5, <1>6

LEMMA NotAwaitedFades ==
    ASSUME SupervisorInv, NEW k \in Attempts, attempt' = NotAwaited(k)
    PROVE  attempt' \in [Attempts -> AttemptType] /\ \A j \in Attempts : Fades(j)
  <1> DEFINE a == [attempt[k] EXCEPT !.awaited = FALSE]
  <1>1. /\ a \in AttemptType /\ a.version = attempt[k].version /\ a.stage = attempt[k].stage
        /\ a.orphan = attempt[k].orphan /\ ~a.awaited /\ attempt[k].version \in Nat
    <2>1. FALSE \in BOOLEAN  OBVIOUS
    <2> QED  BY <2>1, AttemptIsTyped DEF AttemptType
  <1>2. attempt' = [attempt EXCEPT ![k] = Kept(a)]  BY DEF NotAwaited
  <1> HIDE DEF a
  <1>3. /\ Kept(a) \in AttemptType /\ Kept(a).version <= a.version /\ Kept(a).stage = a.stage
        /\ Kept(a).awaited \/ a.stage # "DONE" => Kept(a) = a
    BY <1>1, KeptIsTyped
  <1>4. attempt' \in [Attempts -> AttemptType]
    BY <1>2, <1>3 DEF SupervisorInv, SupervisorTyped
  <1>5. Fades(k)
    <2>1. attempt'[k] = Kept(a)  BY <1>2 DEF SupervisorInv, SupervisorTyped
    <2>2. ~Kept(a).awaited  BY <1>1, <1>3
    <2> QED  BY <1>1, <1>3, <2>1, <2>2 DEF Fades
  <1>6. ASSUME NEW j \in Attempts, j # k PROVE Fades(j)
    <2>1. attempt'[j] = attempt[j]  BY <1>2, <1>6 DEF SupervisorInv, SupervisorTyped
    <2>2. attempt[j].version \in Nat  BY AttemptIsTyped DEF AttemptType
    <2> QED  BY <2>1, <2>2 DEF Fades
  <1> QED  BY <1>4, <1>5, <1>6

LEMMA SameFades ==
    ASSUME SupervisorInv, UNCHANGED attempt
    PROVE  attempt' \in [Attempts -> AttemptType] /\ \A j \in Attempts : Fades(j)
  BY AttemptIsTyped DEF Fades, AttemptType, SupervisorInv, SupervisorTyped

\* A step without a commit or a new command, in which attempts only fade, keeps the
\* invariant if the messages it adds are good and what it tells is on its way.
LEMMA FadingKeepsWhatIsSeen ==
    ASSUME SupervisorInv, UNCHANGED <<commits, sent>>,
           attempt' \in [Attempts -> AttemptType], \A k \in Attempts : Fades(k),
           linked /\ inRoom => (linked /\ inRoom)' \/ \A k \in Attempts : attempt'[k].orphan \/ attempt'[k].stage \in {"NONE", "DONE"},
           inbox' \in Seq(ItemType), seen' \in Nat,
           told' \in Nat, told <= told', told' <= commits,
           \A v \in replies' : v \in replies \/ v = commits,
           \A p \in Underway' : p \in Underway \/ GoodMessage(p)',
           (linked /\ mounted)' => OnItsWay'
    PROVE  SupervisorInv'
  <1>1. SupervisorTyped' /\ \A v \in replies' : v <= commits'
    <2>1. commits \in Nat /\ \A v \in replies : v \in Nat /\ v <= commits
      BY DEF SupervisorInv, SupervisorTyped
    <2>2. \A v \in replies' : v \in Nat /\ v <= commits  BY <2>1
    <2> QED  BY <2>2 DEF SupervisorInv, SupervisorTyped
  <1>2. ASSUME NEW k \in Attempts PROVE GoodAttempt(k)'
    <2>1. attempt[k] \in AttemptType /\ attempt'[k] \in AttemptType /\ GoodAttempt(k)
      BY AttemptIsTyped
    <2>2. attempt'[k].version <= commits
      BY <2>1 DEF Fades, GoodAttempt, AttemptType, SupervisorInv, SupervisorTyped
    <2>3. attempt'[k].stage \in {"JOINED", "COMMITTED", "READ"} /\ ~attempt'[k].orphan
            => (linked /\ inRoom)'
      BY <2>1 DEF Fades, GoodAttempt
    <2> QED  BY <2>1, <2>2, <2>3 DEF Fades, GoodAttempt
  <1>3. ASSUME NEW p \in Underway' PROVE GoodMessage(p)'
    <2>1. CASE p \in Underway
      <3>1. GoodMessage(p) /\ p \in ItemType
        BY <2>1 DEF SupervisorInv, SupervisorTyped, Underway
      <3>2. p.version \in Nat  BY <3>1 DEF ItemType
      <3>3. ASSUME p.kind = "OK", attempt'[p.of].awaited
            PROVE  \/ p.version <= told'
                   \/ "OK" \in attempt'[p.of].button.asks
                   \/ attempt'[p.of].button.leaves
        <4>1. p.of \in Attempts  BY <3>1, <3>3 DEF GoodMessage, Answers
        <4>2. attempt[p.of].awaited /\ attempt'[p.of].button = attempt[p.of].button
          BY <3>3, <4>1 DEF Fades
        <4>3. \/ p.version <= told
              \/ "OK" \in attempt[p.of].button.asks
              \/ attempt[p.of].button.leaves
          BY <3>1, <3>3, <4>2 DEF GoodMessage, FollowedUp
        <4>4. p.version <= told => p.version <= told'
          BY <3>2 DEF SupervisorInv, SupervisorTyped
        <4> QED  BY <4>2, <4>3, <4>4
      <3> QED  BY <3>1, <3>3 DEF GoodMessage, FollowedUp
    <2> QED  BY <2>1
  <1> QED  BY <1>1, <1>2, <1>3 DEF SupervisorInv

\* A step that takes one command a stage further, under the same conditions.
LEMMA GrowingKeepsWhatIsSeen ==
    ASSUME SupervisorInv, UNCHANGED <<sent, seen, linked, mounted, replies>>, inRoom => inRoom',
           NEW k \in Attempts, attempt[k].stage # "NONE", NEW a \in AttemptType,
           attempt' = [attempt EXCEPT ![k] = a],
           a.button = attempt[k].button, a.awaited = attempt[k].awaited,
           a.stage # "NONE", a.version <= commits', ~a.orphan => (linked /\ inRoom)',
           commits' \in Nat, commits <= commits', inbox' \in Seq(ItemType),
           told' \in Nat, told <= told', told' <= commits',
           \A p \in Underway' : p \in Underway \/ GoodMessage(p)',
           (linked /\ mounted)' => OnItsWay'
    PROVE  SupervisorInv'
  <1>1. attempt' \in [Attempts -> AttemptType] /\ attempt'[k] = a
        /\ \A j \in Attempts : j # k => attempt'[j] = attempt[j]
    BY DEF SupervisorInv, SupervisorTyped
  <1>2. SupervisorTyped' /\ \A v \in replies' : v <= commits'
    BY <1>1 DEF SupervisorInv, SupervisorTyped
  <1>3. GoodAttempt(k)'
    BY <1>1, AttemptIsTyped DEF GoodAttempt
  <1>4. ASSUME NEW j \in Attempts, j # k PROVE GoodAttempt(j)'
    <2>1. attempt[j] \in AttemptType /\ GoodAttempt(j) /\ attempt'[j] = attempt[j]
      BY <1>1, <1>4, AttemptIsTyped
    <2>2. attempt[j].version <= commits'
      BY <2>1 DEF GoodAttempt, AttemptType, SupervisorInv, SupervisorTyped
    <2> QED  BY <2>1, <2>2 DEF GoodAttempt
  <1>5. ASSUME NEW p \in Underway, p \in Underway' PROVE GoodMessage(p)'
    <2>1. GoodMessage(p) /\ p \in ItemType
      BY <1>5 DEF SupervisorInv, SupervisorTyped, Underway
    <2>2. p.version \in Nat  BY <2>1 DEF ItemType
    <2>3. /\ p.version <= told => p.version <= told'
          /\ p.version <= commits => p.version <= commits'
      BY <2>2 DEF SupervisorInv, SupervisorTyped
    <2>4. p.kind = "OK" =>
            /\ attempt'[p.of].awaited = attempt[p.of].awaited
            /\ attempt'[p.of].button = attempt[p.of].button
      BY <1>1, <2>1 DEF GoodMessage, Answers
    <2> QED  BY <2>1, <2>3, <2>4 DEF GoodMessage, FollowedUp
  <1> QED  BY <1>2, <1>3, <1>4, <1>5 DEF SupervisorInv

-----------------------------------------------------------------------------
(* The steps of the console.                                                *)

LEMMA SocketStepsKeepWhatIsSeen ==
    ASSUME SupervisorInv, ConnectConsole \/ EnterRoom \/ UNCHANGED scVars PROVE SupervisorInv'
  <1>1. /\ UNCHANGED <<commits, sent, attempt, replies, inbox, seen, told>>
        /\ linked /\ inRoom => (linked /\ inRoom)'
        /\ requested' \/ UNCHANGED <<requested, linked, mounted>>
    BY DEF ConnectConsole, EnterRoom, scVars, pageVars
  <1>2. UNCHANGED Underway  BY <1>1 DEF Underway
  <1>3. ASSUME (linked /\ mounted)' PROVE OnItsWay'
    <2>1. CASE requested'  BY <2>1 DEF OnItsWay
    <2>2. CASE UNCHANGED <<requested, linked, mounted>>
      <3>1. OnItsWay  BY <1>3, <2>2 DEF SupervisorInv
      <3> QED  BY <1>1, <1>2, <2>2, <3>1 DEF OnItsWay
    <2> QED  BY <1>1, <2>1, <2>2
  <1>4. told \in Nat /\ seen \in Nat /\ inbox \in Seq(ItemType) /\ told <= told /\ told <= commits
    BY DEF SupervisorInv, SupervisorTyped
  <1> QED  BY <1>1, <1>2, <1>3, <1>4, SameFades, FadingKeepsWhatIsSeen

LEMMA LoseConsoleKeepsWhatIsSeen ==
    ASSUME SupervisorInv, LoseConsole PROVE SupervisorInv'
  <1> DEFINE a(k) == [attempt[k] EXCEPT !.orphan = TRUE,
                                        !.stage = IF @ = "SENT" THEN "DONE" ELSE @]
  <1>1. ASSUME NEW k \in Attempts
        PROVE  /\ attempt'[k] \in AttemptType /\ Fades(k)
               /\ attempt'[k].orphan \/ attempt'[k].stage \in {"NONE", "DONE"}
    <2>1. attempt[k] \in AttemptType /\ attempt[k].version \in Nat
      BY AttemptIsTyped DEF AttemptType
    <2>2. CASE attempt[k].stage = "NONE"
      <3>1. attempt'[k] = attempt[k]  BY <2>2 DEF LoseConsole
      <3> QED  BY <2>1, <2>2, <3>1 DEF Fades
    <2>3. CASE attempt[k].stage # "NONE"
      <3>1. attempt'[k] = Kept(a(k))  BY <2>3 DEF LoseConsole
      <3>2. /\ a(k) \in AttemptType /\ a(k).version = attempt[k].version /\ a(k).orphan
            /\ a(k).button = attempt[k].button /\ a(k).awaited = attempt[k].awaited
        <4>1. TRUE \in BOOLEAN  OBVIOUS
        <4> QED  BY <2>1, <4>1 DEF AttemptType, Stages
      <3> HIDE DEF a
      <3>3. /\ Kept(a(k)) \in AttemptType /\ Kept(a(k)).version <= a(k).version
            /\ Kept(a(k)).stage = a(k).stage
            /\ Kept(a(k)).awaited \/ a(k).stage # "DONE" => Kept(a(k)) = a(k)
        BY <3>2, KeptIsTyped
      <3> QED  BY <2>3, <3>1, <3>2, <3>3 DEF Fades
    <2> QED  BY <2>2, <2>3
  <1> HIDE DEF a
  <1>2. attempt' \in [Attempts -> AttemptType]
    <2>1. attempt' = [k \in Attempts |-> attempt'[k]]  BY DEF LoseConsole
    <2> QED  BY <1>1, <2>1
  <1>3. /\ UNCHANGED <<commits, sent, seen, told>> /\ inbox' = <<>> /\ replies' = {} /\ ~linked'
    BY DEF LoseConsole
  <1>4. inbox' \in Seq(ItemType) /\ Underway' = {}  BY <1>3 DEF Underway
  <1>5. told \in Nat /\ seen \in Nat /\ told <= told /\ told <= commits
    BY DEF SupervisorInv, SupervisorTyped
  <1> QED  BY <1>1, <1>2, <1>3, <1>4, <1>5, FadingKeepsWhatIsSeen

\* A snapshot read now shows every commit.
LEMMA ReadStateKeepsWhatIsSeen ==
    ASSUME SupervisorInv, ReadState PROVE SupervisorInv'
  <1>1. commits \in Nat /\ told \in Nat /\ told <= told /\ seen \in Nat /\ told <= commits
        /\ inbox \in Seq(ItemType)
    BY DEF SupervisorInv, SupervisorTyped
  <1>2. /\ replies' = replies \cup {commits}
        /\ UNCHANGED <<commits, linked, mounted, inRoom, attempt, sent, inbox, seen, told>>
    BY DEF ReadState, pageVars
  <1>3. UNCHANGED Underway  BY <1>2 DEF Underway
  <1>4. OnItsWay'  BY <1>1, <1>2 DEF OnItsWay
  <1> QED  BY <1>1, <1>2, <1>3, <1>4, SameFades, FadingKeepsWhatIsSeen

LEMMA SendStateKeepsWhatIsSeen ==
    ASSUME SupervisorInv, NEW v \in replies, SendState(v) PROVE SupervisorInv'
  <1> PICK m : m = Item("STATE", 0, v)  OBVIOUS
  <1>1. commits \in Nat /\ told \in Nat /\ told <= told /\ seen \in Nat /\ sent \in Nat /\ told <= commits
        /\ inbox \in Seq(ItemType) /\ v \in Nat /\ v <= commits
    BY DEF SupervisorInv, SupervisorTyped
  <1>2. m \in ItemType /\ m.kind = "STATE" /\ m.of = 0 /\ m.version = v
    BY <1>1, ItemIsTyped
  <1>3. /\ inbox' = Append(inbox, m) /\ replies' = replies \ {v}
        /\ UNCHANGED <<commits, linked, mounted, inRoom, attempt, sent, requested, seen, told>>
    BY DEF SendState
  <1>4. inbox' \in Seq(ItemType) /\ Underway' = Underway \cup {m}
    BY <1>1, <1>2, <1>3, UnderwayAppend
  <1>5. GoodMessage(m)'  BY <1>1, <1>2, <1>3 DEF GoodMessage, FollowedUp, Answers
  <1>6. ASSUME (linked /\ mounted)' PROVE OnItsWay'
    <2>1. OnItsWay  BY <1>3, <1>6 DEF SupervisorInv
    <2>2. CASE v >= told  BY <1>2, <1>3, <1>4, <2>2 DEF OnItsWay
    <2>3. CASE ~(v >= told)  BY <1>3, <1>4, <2>1, <2>3 DEF OnItsWay
    <2> QED  BY <2>2, <2>3
  <1> QED  BY <1>1, <1>3, <1>4, <1>5, <1>6, SameFades, FadingKeepsWhatIsSeen

LEMMA PressKeepsWhatIsSeen ==
    ASSUME SupervisorInv, NEW b \in Buttons, Press(b) PROVE SupervisorInv'
  <1> DEFINE n == sent + 1
             a == [button |-> b, stage |-> "SENT", version |-> 0,
                   orphan |-> FALSE, awaited |-> TRUE]
  <1>1. /\ sent' = n /\ attempt' = [attempt EXCEPT ![n] = a] /\ sent < MaxCommands
        /\ UNCHANGED <<commits, linked, mounted, inRoom, requested, replies, inbox, seen, told>>
    BY DEF Press, pageVars
  <1>2. sent \in Nat /\ commits \in Nat /\ attempt \in [Attempts -> AttemptType]
    BY DEF SupervisorInv, SupervisorTyped
  <1>3. n \in Attempts /\ n \in Nat /\ n > sent
    BY <1>1, <1>2, SupervisorConsoleAssumption DEF Attempts
  <1>4. a \in AttemptType /\ a.version = 0 /\ a.stage = "SENT"  BY DEF AttemptType, Stages
  <1> HIDE DEF a, n
  <1>5. attempt' \in [Attempts -> AttemptType] /\ attempt'[n] = a
        /\ \A j \in Attempts : j # n => attempt'[j] = attempt[j]
    BY <1>1, <1>2, <1>3, <1>4
  <1>6. SupervisorTyped'  BY <1>1, <1>3, <1>5 DEF SupervisorInv, SupervisorTyped
  <1>7. ASSUME NEW j \in Attempts PROVE GoodAttempt(j)'
    <2>1. CASE j = n  BY <1>1, <1>2, <1>3, <1>4, <1>5, <2>1 DEF GoodAttempt
    <2>2. CASE j # n
      BY <1>1, <1>2, <1>3, <1>5, <2>2, AttemptIsTyped DEF GoodAttempt
    <2> QED  BY <2>1, <2>2
  <1>8. UNCHANGED Underway  BY <1>1 DEF Underway
  <1>9. ASSUME NEW p \in Underway PROVE GoodMessage(p)'
    <2>1. GoodMessage(p) /\ p.of \in Nat
      <3>1. p \in ItemType  BY DEF SupervisorInv, SupervisorTyped, Underway
      <3> QED  BY <3>1 DEF SupervisorInv, ItemType
    <2>2. p.of # n /\ p.of <= n  BY <1>2, <1>3, <2>1 DEF GoodMessage
    <2>3. p.of \in Attempts => attempt'[p.of] = attempt[p.of]  BY <1>5, <2>2
    <2> QED  BY <1>1, <2>1, <2>2, <2>3 DEF GoodMessage, FollowedUp, Answers
  <1>10. (linked /\ mounted)' => OnItsWay'
    BY <1>1, <1>8 DEF SupervisorInv, OnItsWay
  <1> QED  BY <1>1, <1>6, <1>7, <1>8, <1>9, <1>10 DEF SupervisorInv

LEMMA JoinRoomKeepsWhatIsSeen ==
    ASSUME SupervisorInv, NEW k \in Attempts, JoinRoom(k) PROVE SupervisorInv'
  <1> DEFINE a == [attempt[k] EXCEPT !.stage = "JOINED"]
  <1>1. /\ attempt[k] \in AttemptType /\ attempt[k].stage = "SENT"
        /\ attempt[k].version <= commits
    BY AttemptIsTyped DEF JoinRoom, At, GoodAttempt
  <1>2. /\ a \in AttemptType /\ a.stage = "JOINED" /\ a.button = attempt[k].button
        /\ a.awaited = attempt[k].awaited /\ a.version = attempt[k].version
    BY <1>1 DEF AttemptType, Stages
  <1>3. attempt' = [attempt EXCEPT ![k] = Kept(a)]  BY DEF JoinRoom, Moved
  <1> HIDE DEF a
  <1>4. attempt' = [attempt EXCEPT ![k] = a]  BY <1>2, <1>3, KeptIsTyped
  <1>5. linked' /\ inRoom' /\ UNCHANGED <<commits, linked, mounted, sent, requested, replies, inbox, seen, told>>
    BY DEF JoinRoom, Membership, pageVars
  <1>6. UNCHANGED Underway  BY <1>5 DEF Underway
  <1>7. told \in Nat /\ told <= told /\ told <= commits /\ commits \in Nat /\ commits <= commits
        /\ inbox \in Seq(ItemType)
    BY DEF SupervisorInv, SupervisorTyped
  <1>8. (linked /\ mounted)' => OnItsWay'  BY <1>5, <1>6 DEF SupervisorInv, OnItsWay
  <1> QED  BY <1>1, <1>2, <1>4, <1>5, <1>6, <1>7, <1>8, GrowingKeepsWhatIsSeen

LEMMA CommitKeepsWhatIsSeen ==
    ASSUME SupervisorInv, NEW k \in Attempts, Commit(k) PROVE SupervisorInv'
  <1> DEFINE a == [[attempt[k] EXCEPT !.stage = "COMMITTED"] EXCEPT !.version = commits + 1]
  <1>1. /\ attempt[k] \in AttemptType /\ attempt[k].stage = "JOINED"
        /\ ~attempt[k].orphan => linked /\ inRoom
    BY AttemptIsTyped DEF Commit, At, GoodAttempt
  <1>2. told \in Nat /\ told <= told /\ told <= commits /\ commits \in Nat /\ inbox \in Seq(ItemType)
    BY DEF SupervisorInv, SupervisorTyped
  <1>3. /\ a \in AttemptType /\ a.stage = "COMMITTED" /\ a.button = attempt[k].button
        /\ a.awaited = attempt[k].awaited /\ a.version = commits + 1
        /\ a.orphan = attempt[k].orphan
    <2>1. commits + 1 \in Nat  BY <1>2
    <2> QED  BY <1>1, <2>1 DEF AttemptType, Stages
  <1>4. attempt' = [attempt EXCEPT ![k] = a]
    BY <1>1 DEF Commit, SupervisorInv, SupervisorTyped, AttemptType
  <1> HIDE DEF a
  <1>5. commits' = commits + 1
        /\ UNCHANGED <<linked, mounted, inRoom, sent, requested, replies, inbox, seen, told>>
    BY DEF Commit, pageVars
  <1>6. UNCHANGED Underway  BY <1>5 DEF Underway
  <1>7. (linked /\ mounted)' => OnItsWay'  BY <1>5, <1>6 DEF SupervisorInv, OnItsWay
  <1>8. commits' \in Nat /\ commits <= commits' /\ told' \in Nat /\ told <= told' /\ told' <= commits'
        /\ inbox' \in Seq(ItemType) /\ a.version <= commits'
    BY <1>2, <1>3, <1>5
  <1>9. ~a.orphan => (linked /\ inRoom)'  BY <1>1, <1>3, <1>5
  <1>10. attempt[k].stage # "NONE" /\ a.stage # "NONE"  BY <1>1, <1>3
  <1> QED  BY <1>3, <1>4, <1>5, <1>6, <1>7, <1>8, <1>9, <1>10, GrowingKeepsWhatIsSeen

\* The event of a command makes a console that is in the room ask again.
LEMMA EmitEventKeepsWhatIsSeen ==
    ASSUME SupervisorInv, NEW k \in Attempts, EmitEvent(k) PROVE SupervisorInv'
  <1> DEFINE a == [[attempt[k] EXCEPT !.stage = "READ"] EXCEPT !.version = commits]
  <1> PICK v : v = attempt[k].version  OBVIOUS
  <1> PICK m : m = Item("EVENT", 0, v)  OBVIOUS
  <1>1. /\ attempt[k] \in AttemptType /\ attempt[k].stage = "COMMITTED"
        /\ ~attempt[k].orphan => linked /\ inRoom
        /\ v \in Nat /\ v <= commits
    BY AttemptIsTyped DEF EmitEvent, At, GoodAttempt, AttemptType
  <1>2. told \in Nat /\ told <= commits /\ commits \in Nat /\ inbox \in Seq(ItemType)
        /\ sent \in Nat
    BY DEF SupervisorInv, SupervisorTyped
  <1>3. /\ a \in AttemptType /\ a.stage = "READ" /\ a.button = attempt[k].button
        /\ a.awaited = attempt[k].awaited /\ a.version = commits
        /\ a.orphan = attempt[k].orphan
    BY <1>1, <1>2 DEF AttemptType, Stages
  <1>4. attempt' = [attempt EXCEPT ![k] = a]
    BY <1>1 DEF EmitEvent, SupervisorInv, SupervisorTyped, AttemptType
  <1> HIDE DEF a
  <1>5. UNCHANGED <<commits, linked, mounted, inRoom, sent, requested, replies, seen>>
    BY DEF EmitEvent, pageVars
  <1>6. m \in ItemType /\ m.kind = "EVENT" /\ m.of = 0 /\ m.version = v
    BY <1>1, ItemIsTyped
  <1>7. told' \in {told, Later(told, v)}
    BY DEF EmitEvent, Announced
  <1>8. told' \in Nat /\ told <= told' /\ told' <= commits  BY <1>1, <1>2, <1>7 DEF Later
  <1>9. \/ UNCHANGED <<inbox, told>>
        \/ inbox' = Append(inbox, m)
    <2>1. CASE UNCHANGED <<inbox, told>>  BY <2>1
    <2>2. CASE ToMatchRoom(m) /\ told' = Announced(k, v)
      BY <1>1, <2>2 DEF ToMatchRoom, Announced
    <2> QED  BY <2>1, <2>2 DEF EmitEvent
  <1>10. /\ inbox' \in Seq(ItemType)
         /\ \A p \in Underway' : p \in Underway \/ GoodMessage(p)'
         /\ (linked /\ mounted)' => OnItsWay'
    <2>1. CASE UNCHANGED <<inbox, told>>
      <3>1. UNCHANGED Underway  BY <2>1 DEF Underway
      <3> QED  BY <1>2, <1>5, <2>1, <3>1 DEF SupervisorInv, OnItsWay
    <2>2. CASE inbox' = Append(inbox, m)
      <3>1. inbox' \in Seq(ItemType) /\ Underway' = Underway \cup {m}
        BY <1>2, <1>6, <2>2, UnderwayAppend
      <3>2. GoodMessage(m)'  BY <1>1, <1>2, <1>5, <1>6 DEF GoodMessage, FollowedUp, Answers
      <3>3. OnItsWay'  BY <1>6, <3>1 DEF OnItsWay
      <3> QED  BY <3>1, <3>2, <3>3
    <2> QED  BY <1>9, <2>1, <2>2
  <1>11. commits <= commits  BY <1>2
  <1> QED  BY <1>1, <1>2, <1>3, <1>4, <1>5, <1>8, <1>10, <1>11, GrowingKeepsWhatIsSeen

LEMMA RejectCommandKeepsWhatIsSeen ==
    ASSUME SupervisorInv, NEW k \in Attempts, RejectCommand(k) PROVE SupervisorInv'
  <1>1. PICK answer \in {"FAILED", "AUTH"} :
          inbox' = IF attempt[k].orphan THEN inbox ELSE Append(inbox, Item(answer, k, 0))
    BY DEF RejectCommand
  <1> PICK m : m = Item(answer, k, 0)  OBVIOUS
  <1>2. /\ attempt' = Moved(k, "DONE") /\ attempt[k].stage \in {"SENT", "JOINED"}
        /\ UNCHANGED <<commits, linked, mounted, inRoom, sent, requested, replies, seen, told>>
    BY DEF RejectCommand, At, pageVars
  <1>3. /\ told \in Nat /\ told <= told /\ told <= commits /\ commits \in Nat /\ sent \in Nat
        /\ seen \in Nat /\ inbox \in Seq(ItemType)
    BY DEF SupervisorInv, SupervisorTyped
  <1>4. k \in Nat /\ k <= sent
    <2>1. k \in Nat /\ GoodAttempt(k)  BY AttemptIsTyped
    <2> QED  BY <1>2, <1>3, <2>1 DEF GoodAttempt
  <1>5. m \in ItemType /\ m.kind = answer /\ m.of = k /\ m.version = 0
    BY <1>4, ItemIsTyped DEF Answers
  <1>6. GoodMessage(m)'
    <2>1. m.kind # "OK"  BY <1>1, <1>5
    <2> QED  BY <1>2, <1>3, <1>4, <1>5, <2>1 DEF GoodMessage, FollowedUp
  <1>7. inbox' \in Seq(ItemType) /\ (UNCHANGED Underway \/ Underway' = Underway \cup {m})
    <2>1. CASE inbox' = inbox  BY <1>3, <2>1 DEF Underway
    <2>2. CASE inbox' = Append(inbox, m)  BY <1>3, <1>5, <2>2, UnderwayAppend
    <2> QED  BY <1>1, <2>1, <2>2
  <1>8. ASSUME (linked /\ mounted)' PROVE OnItsWay'
    <2>1. OnItsWay  BY <1>2, <1>8 DEF SupervisorInv
    <2> QED  BY <1>2, <1>7, <2>1 DEF OnItsWay
  <1>9. attempt' \in [Attempts -> AttemptType] /\ \A j \in Attempts : Fades(j)
    BY <1>2, MovedFades
  <1> QED  BY <1>2, <1>3, <1>6, <1>7, <1>8, <1>9, FadingKeepsWhatIsSeen

\* The snapshot of a command reaches its own socket, which is in the room.
LEMMA EmitSnapshotKeepsWhatIsSeen ==
    ASSUME SupervisorInv, NEW k \in Attempts, EmitSnapshotAndAnswer(k) PROVE SupervisorInv'
  <1> PICK v : v = attempt[k].version  OBVIOUS
  <1> PICK m : m = Item("STATE", 0, v)  OBVIOUS
  <1> PICK n : n = Item("OK", k, v)  OBVIOUS
  <1>1. /\ attempt' = Moved(k, "DONE") /\ attempt[k].stage = "READ"
        /\ UNCHANGED <<commits, linked, mounted, inRoom, sent, requested, replies, seen>>
        /\ told' = IF attempt[k].orphan THEN told ELSE Later(told, v)
    BY DEF EmitSnapshotAndAnswer, At, Announced
  <1>2. /\ told \in Nat /\ told <= commits /\ commits \in Nat /\ sent \in Nat
        /\ seen \in Nat /\ inbox \in Seq(ItemType)
    BY DEF SupervisorInv, SupervisorTyped
  <1>3. /\ k \in Nat /\ k <= sent /\ v \in Nat /\ v <= commits
        /\ ~attempt[k].orphan => linked /\ inRoom
    <2>1. k \in Nat /\ GoodAttempt(k) /\ attempt[k] \in AttemptType  BY AttemptIsTyped
    <2> QED  BY <1>1, <1>2, <2>1 DEF GoodAttempt, AttemptType
  <1>4. m \in ItemType /\ m.kind = "STATE" /\ m.of = 0 /\ m.version = v
    BY <1>3, ItemIsTyped
  <1>5. n \in ItemType /\ n.kind = "OK" /\ n.of = k /\ n.version = v
    BY <1>3, ItemIsTyped DEF Answers
  <1>6. told' \in Nat /\ told <= told' /\ told' <= commits  BY <1>1, <1>2, <1>3 DEF Later
  <1>7. GoodMessage(m)'  BY <1>1, <1>2, <1>3, <1>4 DEF GoodMessage, FollowedUp, Answers
  <1>8. attempt' \in [Attempts -> AttemptType] /\ \A j \in Attempts : Fades(j)
    BY <1>1, MovedFades
  <1>9. CASE attempt[k].orphan
    <2>1. inbox' = (IF inRoom THEN Append(inbox, m) ELSE inbox) /\ told' = told
      BY <1>1, <1>9 DEF EmitSnapshotAndAnswer, Answer
    <2>2. inbox' \in Seq(ItemType) /\ (UNCHANGED Underway \/ Underway' = Underway \cup {m})
      <3>1. CASE inbox' = inbox  BY <1>2, <3>1 DEF Underway
      <3>2. CASE inbox' = Append(inbox, m)  BY <1>2, <1>4, <3>2, UnderwayAppend
      <3> QED  BY <2>1, <3>1, <3>2
    <2>3. ASSUME (linked /\ mounted)' PROVE OnItsWay'
      <3>1. OnItsWay  BY <1>1, <2>3 DEF SupervisorInv
      <3> QED  BY <1>1, <2>1, <2>2, <3>1 DEF OnItsWay
    <2> QED  BY <1>1, <1>2, <1>6, <1>7, <1>8, <2>2, <2>3, FadingKeepsWhatIsSeen
  <1>10. CASE ~attempt[k].orphan
    <2>1. inbox' = Append(Append(inbox, m), n) /\ told' = Later(told, v)
      BY <1>1, <1>3, <1>10 DEF EmitSnapshotAndAnswer, Answer
    <2>2. /\ inbox' \in Seq(ItemType) /\ Len(inbox) \in Nat /\ Len(inbox') = Len(inbox) + 2
          /\ inbox'[Len(inbox) + 1] = m /\ inbox'[Len(inbox) + 2] = n
          /\ \A j \in 1..Len(inbox) : inbox'[j] = inbox[j]
      BY <1>2, <1>4, <1>5, <2>1
    <2>3. Underway' \subseteq Underway \cup {m, n}
      <3> SUFFICES ASSUME NEW j \in 1..Len(inbox') PROVE inbox'[j] \in Underway \cup {m, n}
        BY DEF Underway
      <3>1. j \in 1..Len(inbox) \/ j = Len(inbox) + 1 \/ j = Len(inbox) + 2  BY <2>2
      <3> QED  BY <2>2, <3>1 DEF Underway
    <2>4. Underway \cup {m} \subseteq Underway'  BY <2>2 DEF Underway
    <2>5. v <= told'  BY <1>2, <1>3, <2>1 DEF Later
    <2>6. GoodMessage(n)'  BY <1>1, <1>3, <1>5, <2>5 DEF GoodMessage, FollowedUp, Answers
    <2>7. ASSUME (linked /\ mounted)' PROVE OnItsWay'
      <3>1. CASE v > told
        <4>1. told' = v  BY <1>2, <1>3, <2>1, <3>1 DEF Later
        <4> QED  BY <1>3, <1>4, <2>4, <4>1 DEF OnItsWay
      <3>2. CASE ~(v > told)
        <4>1. told' = told  BY <1>2, <1>3, <2>1, <3>2 DEF Later
        <4>2. OnItsWay  BY <1>1, <2>7 DEF SupervisorInv
        <4> QED  BY <1>1, <2>4, <4>1, <4>2 DEF OnItsWay
      <3> QED  BY <3>1, <3>2
    <2>8. \A p \in Underway' : p \in Underway \/ GoodMessage(p)'  BY <1>7, <2>3, <2>6
    <2> QED  BY <1>1, <1>2, <1>6, <1>8, <2>2, <2>7, <2>8, FadingKeepsWhatIsSeen
  <1> QED  BY <1>9, <1>10

\* A confirmation without a publication goes to a button that follows it up.
LEMMA PublicationFailedKeepsWhatIsSeen ==
    ASSUME SupervisorInv, NEW k \in Attempts, PublicationFailed(k) PROVE SupervisorInv'
  <1> PICK v : v = attempt[k].version  OBVIOUS
  <1> PICK kind : kind = IF attempt[k].button.handler.logged THEN "OK" ELSE "FAILED"  OBVIOUS
  <1> PICK n : n = Item(kind, k, v)  OBVIOUS
  <1>1. /\ attempt' = Moved(k, "DONE") /\ attempt[k].stage = "READ"
        /\ UNCHANGED <<commits, linked, mounted, inRoom, sent, requested, replies, seen, told>>
        /\ inbox' = IF attempt[k].orphan THEN inbox ELSE Append(inbox, n)
    BY DEF PublicationFailed, At, Answer, pageVars
  <1>2. /\ told \in Nat /\ told <= told /\ told <= commits /\ commits \in Nat /\ sent \in Nat
        /\ seen \in Nat /\ inbox \in Seq(ItemType)
    BY DEF SupervisorInv, SupervisorTyped
  <1>3. k \in Nat /\ k <= sent /\ v \in Nat /\ v <= commits /\ attempt[k].button \in Buttons
    <2>1. k \in Nat /\ GoodAttempt(k) /\ attempt[k] \in AttemptType  BY AttemptIsTyped
    <2> QED  BY <1>1, <1>2, <2>1 DEF GoodAttempt, AttemptType
  <1>4. n \in ItemType /\ n.kind = kind /\ n.of = k /\ n.version = v /\ kind \in Answers
    BY <1>3, ItemIsTyped DEF Answers
  <1>5. attempt' \in [Attempts -> AttemptType] /\ \A j \in Attempts : Fades(j)
    BY <1>1, MovedFades
  <1>6. GoodMessage(n)'
    <2>1. attempt'[k].awaited => attempt'[k].button = attempt[k].button  BY <1>5 DEF Fades
    <2>2. kind = "OK" => "OK" \in attempt[k].button.asks \/ attempt[k].button.leaves
      BY <1>3, ButtonsFollowUp
    <2> QED  BY <1>1, <1>3, <1>4, <2>1, <2>2 DEF GoodMessage, FollowedUp
  <1>7. inbox' \in Seq(ItemType) /\ (UNCHANGED Underway \/ Underway' = Underway \cup {n})
    <2>1. CASE inbox' = inbox  BY <1>2, <2>1 DEF Underway
    <2>2. CASE inbox' = Append(inbox, n)  BY <1>2, <1>4, <2>2, UnderwayAppend
    <2> QED  BY <1>1, <2>1, <2>2
  <1>8. ASSUME (linked /\ mounted)' PROVE OnItsWay'
    <2>1. OnItsWay  BY <1>1, <1>8 DEF SupervisorInv
    <2> QED  BY <1>1, <1>7, <2>1 DEF OnItsWay
  <1> QED  BY <1>1, <1>2, <1>5, <1>6, <1>7, <1>8, FadingKeepsWhatIsSeen

LEMMA GiveUpKeepsWhatIsSeen ==
    ASSUME SupervisorInv, NEW k \in Attempts, GiveUp(k) PROVE SupervisorInv'
  <1>1. attempt' = NotAwaited(k)
        /\ UNCHANGED <<commits, linked, mounted, inRoom, sent, requested, replies, inbox, seen, told>>
    BY DEF GiveUp, pageVars
  <1>2. told \in Nat /\ told <= told /\ told <= commits /\ seen \in Nat /\ inbox \in Seq(ItemType)
    BY DEF SupervisorInv, SupervisorTyped
  <1>3. UNCHANGED Underway  BY <1>1 DEF Underway
  <1>4. ASSUME (linked /\ mounted)' PROVE OnItsWay'
    <2>1. OnItsWay  BY <1>1, <1>4 DEF SupervisorInv
    <2> QED  BY <1>1, <1>3, <2>1 DEF OnItsWay
  <1>5. attempt' \in [Attempts -> AttemptType] /\ \A j \in Attempts : Fades(j)
    BY <1>1, NotAwaitedFades
  <1> QED  BY <1>1, <1>2, <1>3, <1>4, <1>5, FadingKeepsWhatIsSeen

LEMMA TakeMessageKeepsWhatIsSeen ==
    ASSUME SupervisorInv, mounted, TakeMessage PROVE SupervisorInv'
  <1> PICK p : p = Head(inbox)  OBVIOUS
  <1>1. inbox # <<>> /\ inbox' = Tail(inbox) /\ UNCHANGED <<commits, linked, inRoom, sent, replies>>
    BY DEF TakeMessage
  <1>2. /\ told \in Nat /\ told <= told /\ told <= commits /\ commits \in Nat
        /\ seen \in Nat /\ inbox \in Seq(ItemType)
    BY DEF SupervisorInv, SupervisorTyped
  <1>3. /\ inbox' \in Seq(ItemType) /\ p \in Underway /\ p \in ItemType
        /\ Underway' \subseteq Underway /\ \A q \in Underway : q \in Underway' \/ q = p
    BY <1>1, <1>2, UnderwayTail
  <1>4. GoodMessage(p) /\ p.version \in Nat
    BY <1>3 DEF SupervisorInv, ItemType
  <1>5. linked /\ mounted => OnItsWay  BY DEF SupervisorInv
  <1>6. CASE p.kind = "STATE" /\ OnSnapshotOfMatch(p)
    <2>1. seen' = Later(seen, p.version) /\ UNCHANGED <<attempt, mounted, requested, told>>
      BY <1>6 DEF OnSnapshotOfMatch
    <2>2. seen' \in Nat /\ seen <= seen' /\ p.version <= seen'  BY <1>2, <1>4, <2>1 DEF Later
    <2>3. ASSUME (linked /\ mounted)' PROVE OnItsWay'
      <3>1. OnItsWay  BY <1>1, <1>5, <2>1, <2>3
      <3>2. CASE seen >= told \/ p.version >= told
        <4>1. seen' >= told'  BY <1>2, <1>4, <2>1, <2>2, <3>2
        <4> QED  BY <4>1 DEF OnItsWay
      <3>3. CASE requested \/ \E v \in replies : v >= told  BY <1>1, <2>1, <3>3 DEF OnItsWay
      <3>4. ASSUME NEW q \in Underway, q.kind = "EVENT" \/ (q.kind = "STATE" /\ q.version >= told),
                   ~(p.version >= told)
            PROVE  OnItsWay'
        <4>1. q # p  BY <1>6, <3>4
        <4>2. q \in Underway'  BY <1>3, <4>1
        <4> QED  BY <2>1, <3>4, <4>2 DEF OnItsWay
      <3> QED  BY <3>1, <3>2, <3>3, <3>4 DEF OnItsWay
    <2>4. attempt' \in [Attempts -> AttemptType] /\ \A j \in Attempts : Fades(j)
      BY <2>1, SameFades
    <2> QED  BY <1>1, <1>2, <1>3, <2>1, <2>2, <2>3, <2>4, FadingKeepsWhatIsSeen
  <1>7. CASE p.kind = "EVENT" /\ OnEventOfMatch
    <2>1. requested' /\ UNCHANGED <<attempt, mounted, seen, told>>
      BY <1>7 DEF OnEventOfMatch
    <2>2. OnItsWay'  BY <2>1 DEF OnItsWay
    <2>3. attempt' \in [Attempts -> AttemptType] /\ \A j \in Attempts : Fades(j)
      BY <2>1, SameFades
    <2> QED  BY <1>1, <1>2, <1>3, <2>1, <2>2, <2>3, FadingKeepsWhatIsSeen
  <1>8. CASE p.kind \in Answers /\ OnAnswerOf(p)
    <2>1. p.of \in Attempts  BY <1>4, <1>8 DEF GoodMessage
    \* An answer is neither an event nor a snapshot: what was on its way still is.
    <2>2. ASSUME UNCHANGED <<seen, told>>, requested => requested', OnItsWay PROVE OnItsWay'
      <3>1. CASE seen >= told  BY <2>2, <3>1 DEF OnItsWay
      <3>2. CASE requested \/ \E v \in replies : v >= told  BY <1>1, <2>2, <3>2 DEF OnItsWay
      <3>3. ASSUME NEW q \in Underway, q.kind = "EVENT" \/ (q.kind = "STATE" /\ q.version >= told)
            PROVE  OnItsWay'
        <4>1. q # p  BY <1>8, <3>3 DEF Answers
        <4>2. q \in Underway'  BY <1>3, <4>1
        <4> QED  BY <2>2, <3>3, <4>2 DEF OnItsWay
      <3> QED  BY <2>2, <3>1, <3>2, <3>3 DEF OnItsWay
    <2>3. CASE ~attempt[p.of].awaited
      <3>1. UNCHANGED <<attempt, mounted, requested, seen, told>>  BY <1>8, <2>3 DEF OnAnswerOf
      <3>2. (linked /\ mounted)' => OnItsWay'  BY <1>1, <1>5, <2>2, <3>1
      <3>3. attempt' \in [Attempts -> AttemptType] /\ \A j \in Attempts : Fades(j)
        BY <3>1, SameFades
      <3> QED  BY <1>1, <1>2, <1>3, <3>1, <3>2, <3>3, FadingKeepsWhatIsSeen
    <2>4. CASE attempt[p.of].awaited
      <3>1. /\ attempt' = NotAwaited(p.of) /\ UNCHANGED seen
            /\ requested => requested'
            /\ p.kind = "OK" /\ "OK" \in attempt[p.of].button.asks => requested'
            /\ p.kind = "OK" /\ attempt[p.of].button.leaves => ~mounted'
            /\ told' = IF p.kind = "OK" THEN Later(told, p.version) ELSE told
        BY <1>8, <2>4 DEF OnAnswerOf
      <3>2. told' \in Nat /\ told <= told' /\ told' <= commits
        BY <1>2, <1>4, <3>1 DEF Later, GoodMessage
      <3>3. told' = told \/ requested' \/ ~mounted'
        <4>1. CASE p.kind = "OK" /\ ~(p.version <= told)
          BY <1>4, <2>4, <3>1, <4>1 DEF GoodMessage, FollowedUp
        <4>2. CASE ~(p.kind = "OK" /\ ~(p.version <= told))
          BY <1>2, <1>4, <3>1, <4>2 DEF Later
        <4> QED  BY <4>1, <4>2
      <3>4. mounted  OBVIOUS
      <3>5. ASSUME (linked /\ mounted)' PROVE OnItsWay'
        <4>1. CASE requested'  BY <4>1 DEF OnItsWay
        <4>2. CASE told' = told  BY <1>1, <1>5, <2>2, <3>1, <3>4, <3>5, <4>2
        <4> QED  BY <3>3, <3>5, <4>1, <4>2
      <3>6. attempt' \in [Attempts -> AttemptType] /\ \A j \in Attempts : Fades(j)
        BY <2>1, <3>1, NotAwaitedFades
      <3> QED  BY <1>1, <1>2, <1>3, <3>1, <3>2, <3>5, <3>6, FadingKeepsWhatIsSeen
    <2> QED  BY <2>3, <2>4
  <1> QED  BY <1>6, <1>7, <1>8 DEF TakeMessage, Answers

LEMMA SupervisorStepKeepsWhatIsSeen == SupervisorInv /\ [SupervisorNext]_scVars => SupervisorInv'
  <1> SUFFICES ASSUME SupervisorInv, [SupervisorNext]_scVars PROVE SupervisorInv'  OBVIOUS
  <1>1. CASE ConnectConsole \/ EnterRoom \/ UNCHANGED scVars
    BY <1>1, SocketStepsKeepWhatIsSeen
  <1>2. CASE LoseConsole  BY <1>2, LoseConsoleKeepsWhatIsSeen
  <1>3. CASE ReadState \/ \E v \in replies : SendState(v)
    BY <1>3, ReadStateKeepsWhatIsSeen, SendStateKeepsWhatIsSeen
  <1>4. CASE \E b \in Buttons : Press(b)  BY <1>4, PressKeepsWhatIsSeen
  <1>5. ASSUME NEW k \in Attempts, JoinRoom(k) \/ Commit(k) \/ EmitEvent(k) PROVE SupervisorInv'
    BY <1>5, JoinRoomKeepsWhatIsSeen, CommitKeepsWhatIsSeen, EmitEventKeepsWhatIsSeen
  <1>6. ASSUME NEW k \in Attempts,
               \/ RejectCommand(k) \/ EmitSnapshotAndAnswer(k)
               \/ PublicationFailed(k) \/ GiveUp(k)
        PROVE  SupervisorInv'
    BY <1>6, RejectCommandKeepsWhatIsSeen, EmitSnapshotKeepsWhatIsSeen,
       PublicationFailedKeepsWhatIsSeen, GiveUpKeepsWhatIsSeen
  <1>7. CASE mounted /\ TakeMessage  BY <1>7, TakeMessageKeepsWhatIsSeen
  <1> HIDE DEF SupervisorInv
  <1> QED  BY <1>1, <1>2, <1>3, <1>4, <1>5, <1>6, <1>7 DEF SupervisorNext

LEMMA SupervisorStart == SupervisorInit => SupervisorInv
  <1> SUFFICES ASSUME SupervisorInit PROVE SupervisorInv  OBVIOUS
  <1>1. startRound \in Buttons  BY DEF Buttons
  <1>2. NoAttempt \in AttemptType /\ NoAttempt.stage = "NONE" /\ NoAttempt.version = 0
    BY <1>1 DEF NoAttempt, AttemptType, Stages
  <1>3. SupervisorTyped  BY <1>2 DEF SupervisorInit, SupervisorTyped
  <1>4. \A k \in Attempts : GoodAttempt(k)  BY <1>2 DEF SupervisorInit, GoodAttempt
  <1>5. Underway = {}  BY DEF SupervisorInit, Underway
  <1> QED  BY <1>3, <1>4, <1>5 DEF SupervisorInit, SupervisorInv, OnItsWay

-----------------------------------------------------------------------------
(* What the page shows: the snapshot sent last decides.                     *)

\* The snapshot that will arrive last, or the one shown when none is under way, is
\* the newest of those that were sent.
LastIsNewest(s, shows, newest) ==
    \/ shows = newest /\ \A i \in 1..Len(s) : s[i].kind # "STATE"
    \/ \E i \in 1..Len(s) :
         /\ s[i].kind = "STATE" /\ newest <= s[i].version
         /\ \A j \in 1..Len(s) : s[j].kind = "STATE" => j <= i /\ s[j].version <= s[i].version

PageInv ==
    /\ page \in Nat /\ page <= seen
    /\ ~overtaken => LastIsNewest(inbox, page, seen)

\* A message that is no snapshot does not matter.
LEMMA OtherAppended ==
    ASSUME NEW s \in Seq(ItemType), NEW m \in ItemType, m.kind # "STATE",
           NEW v \in Nat, NEW w \in Nat, LastIsNewest(s, v, w)
    PROVE  LastIsNewest(Append(s, m), v, w)
  <1> DEFINE u == Append(s, m)
  <1>1. /\ Len(s) \in Nat /\ Len(u) = Len(s) + 1 /\ u[Len(s) + 1] = m
        /\ \A i \in 1..Len(s) : u[i] = s[i]
    OBVIOUS
  <1>2. \A i \in 1..Len(u) : u[i].kind = "STATE" => i \in 1..Len(s) /\ u[i] = s[i]
    BY <1>1
  <1>3. \A i \in 1..Len(s) : i \in 1..Len(u) /\ u[i] = s[i]  BY <1>1
  <1> HIDE DEF u
  <1>4. CASE v = w /\ \A i \in 1..Len(s) : s[i].kind # "STATE"
    BY <1>2, <1>4 DEF LastIsNewest, u
  <1>5. CASE \E i \in 1..Len(s) :
               /\ s[i].kind = "STATE" /\ w <= s[i].version
               /\ \A j \in 1..Len(s) : s[j].kind = "STATE" => j <= i /\ s[j].version <= s[i].version
    <2>1. LastIsNewest(u, v, w)  BY <1>2, <1>3, <1>5 DEF LastIsNewest
    <2> QED  BY <2>1 DEF u
  <1> QED  BY <1>4, <1>5 DEF LastIsNewest

\* A snapshot that overtakes none is the newest.
LEMMA NewestAppended ==
    ASSUME NEW s \in Seq(ItemType), NEW m \in ItemType, m.kind = "STATE",
           NEW v \in Nat, NEW w \in Nat, w <= m.version,
           \A i \in 1..Len(s) : s[i].kind = "STATE" => s[i].version <= m.version
    PROVE  LastIsNewest(Append(s, m), v, w)
  <1> DEFINE u == Append(s, m)  n == Len(s) + 1
  <1>1. /\ Len(s) \in Nat /\ Len(u) = n /\ u[n] = m
        /\ \A i \in 1..Len(s) : u[i] = s[i]
    OBVIOUS
  <1>2. m.version \in Nat /\ m.version <= m.version  BY DEF ItemType
  <1>3. n \in 1..Len(u) /\ \A j \in 1..Len(u) : j <= n /\ (j \in 1..Len(s) \/ j = n)
    BY <1>1
  <1> HIDE DEF u, n
  <1>4. \A j \in 1..Len(u) : u[j].kind = "STATE" => j <= n /\ u[j].version <= u[n].version
    BY <1>1, <1>2, <1>3
  <1>5. LastIsNewest(u, v, w)  BY <1>1, <1>3, <1>4 DEF LastIsNewest
  <1> QED  BY <1>5 DEF u

\* The first message arrives.
LEMMA FirstTaken ==
    ASSUME NEW s \in Seq(ItemType), s # <<>>, NEW v \in Nat, NEW w \in Nat,
           LastIsNewest(s, v, w)
    PROVE  /\ Head(s).kind # "STATE" => LastIsNewest(Tail(s), v, w)
           /\ Head(s).kind = "STATE" =>
                LastIsNewest(Tail(s), Head(s).version, Later(w, Head(s).version))
  <1> DEFINE t == Tail(s)  h == Head(s)
  <1>1. /\ Len(s) \in Nat \ {0} /\ Len(t) = Len(s) - 1 /\ h = s[1] /\ h \in ItemType
        /\ \A j \in 1..Len(t) : t[j] = s[j + 1]
    OBVIOUS
  <1>2. h.version \in Nat  BY <1>1 DEF ItemType
  <1>3. \A j \in 1..Len(t) : j + 1 \in 1..Len(s) /\ t[j] = s[j + 1]  BY <1>1
  <1> HIDE DEF t, h
  <1>4. CASE v = w /\ \A i \in 1..Len(s) : s[i].kind # "STATE"
    BY <1>1, <1>3, <1>4 DEF LastIsNewest, t, h
  <1>5. CASE \E i \in 1..Len(s) :
               /\ s[i].kind = "STATE" /\ w <= s[i].version
               /\ \A j \in 1..Len(s) : s[j].kind = "STATE" => j <= i /\ s[j].version <= s[i].version
    <2>1. PICK i \in 1..Len(s) :
               /\ s[i].kind = "STATE" /\ w <= s[i].version
               /\ \A j \in 1..Len(s) : s[j].kind = "STATE" => j <= i /\ s[j].version <= s[i].version
      BY <1>5
    \* It is the last snapshot under way.
    <2>2. CASE i = 1
      <3>1. h.kind = "STATE" /\ w <= h.version  BY <1>1, <2>1, <2>2
      <3>2. \A j \in 1..Len(t) : t[j].kind # "STATE"  BY <1>3, <2>1, <2>2
      <3>3. Later(w, h.version) = h.version  BY <1>2, <3>1 DEF Later
      <3> QED  BY <3>1, <3>2, <3>3 DEF LastIsNewest, t, h
    \* Another one follows.
    <2>3. CASE i # 1
      <3>1. i - 1 \in 1..Len(t) /\ t[i - 1] = s[i]  BY <1>1, <1>3, <2>3
      <3>2. \A j \in 1..Len(t) : t[j].kind = "STATE" => j <= i - 1 /\ t[j].version <= s[i].version
        BY <1>3, <2>1
      <3>3. \A x, y \in Nat : y <= s[i].version => LastIsNewest(t, x, y)
        BY <2>1, <3>1, <3>2 DEF LastIsNewest
      <3>4. h.kind = "STATE" => h.version <= s[i].version  BY <1>1, <2>1
      <3>5. h.kind = "STATE" => Later(w, h.version) <= s[i].version /\ Later(w, h.version) \in Nat
        BY <1>2, <2>1, <3>4 DEF Later
      <3> QED  BY <1>2, <2>1, <3>3, <3>5 DEF t, h
    <2> QED  BY <2>2, <2>3
  <1> QED  BY <1>4, <1>5 DEF LastIsNewest

LEMMA StepsKeepPage == SupervisorInv /\ PageInv /\ [SupervisorNext]_scVars => PageInv'
  <1> SUFFICES ASSUME SupervisorInv, PageInv, [SupervisorNext]_scVars PROVE PageInv'  OBVIOUS
  <1>1. inbox \in Seq(ItemType) /\ seen \in Nat /\ page \in Nat /\ page <= seen
    BY DEF SupervisorInv, SupervisorTyped, PageInv
  \* A step that shows nothing new and sends no snapshot.
  <1>2. ASSUME UNCHANGED <<inbox, page, seen, overtaken>> PROVE PageInv'
    BY <1>2 DEF PageInv, LastIsNewest
  <1>3. ASSUME NEW m \in ItemType, m.kind # "STATE", inbox' = Append(inbox, m),
               UNCHANGED <<page, seen, overtaken>>
        PROVE  PageInv'
    <2>1. LastIsNewest(inbox, page, seen) => LastIsNewest(inbox', page, seen)
      BY <1>1, <1>3, OtherAppended
    <2> QED  BY <1>3, <2>1 DEF PageInv
  \* A step that sends a snapshot.
  <1>4. ASSUME NEW v \in Nat, NEW ms \in Seq(ItemType),
               ms = Append(inbox, Item("STATE", 0, v)), ~Overtakes(v)
        PROVE  LastIsNewest(ms, page, seen)
    <2> PICK m : m = Item("STATE", 0, v)  OBVIOUS
    <2>1. m \in ItemType /\ m.kind = "STATE" /\ m.version = v  BY ItemIsTyped
    <2>2. /\ ~(v < seen)
          /\ \A i \in 1..Len(inbox) : inbox[i].kind = "STATE" => ~(v < inbox[i].version)
      BY <1>4 DEF Overtakes
    <2>3. \A i \in 1..Len(inbox) : inbox[i].version \in Nat
      <3> TAKE i \in 1..Len(inbox)
      <3>1. inbox[i] \in ItemType  BY <1>1
      <3> QED  BY <3>1 DEF ItemType
    <2>4. seen <= v  BY <1>1, <2>2
    <2>5. \A i \in 1..Len(inbox) : inbox[i].kind = "STATE" => inbox[i].version <= v
      BY <2>2, <2>3
    <2> QED  BY <1>1, <1>4, <2>1, <2>4, <2>5, NewestAppended
  <1>5. ASSUME NEW v \in replies, SendState(v) PROVE PageInv'
    <2>1. v \in Nat /\ Item("STATE", 0, v) \in ItemType
      <3>1. v \in Nat  BY DEF SupervisorInv, SupervisorTyped
      <3> QED  BY <3>1, ItemIsTyped
    <2>2. /\ inbox' = Append(inbox, Item("STATE", 0, v)) /\ overtaken' = Overtakes(v)
          /\ UNCHANGED <<page, seen>>
      BY <1>5 DEF SendState
    <2>3. inbox' \in Seq(ItemType)  BY <1>1, <2>1, <2>2
    <2>4. ~overtaken' => LastIsNewest(inbox', page, seen)  BY <1>4, <2>1, <2>2, <2>3, Zenon
    <2> QED  BY <1>1, <2>2, <2>4 DEF PageInv
  <1>6. ASSUME NEW k \in Attempts, EmitSnapshotAndAnswer(k) PROVE PageInv'
    <2> PICK v : v = attempt[k].version  OBVIOUS
    <2> PICK m : m = Item("STATE", 0, v)  OBVIOUS
    <2> PICK n : n = Item("OK", k, v)  OBVIOUS
    <2> PICK ms : ms = IF inRoom THEN Append(inbox, m) ELSE inbox  OBVIOUS
    <2>1. v \in Nat /\ k \in Nat  BY AttemptIsTyped DEF AttemptType
    <2>2. m \in ItemType /\ n \in ItemType /\ n.kind # "STATE"
      <3>1. m \in ItemType  BY <2>1, ItemIsTyped
      <3>2. n \in ItemType /\ n.kind = "OK"  BY <2>1, ItemIsTyped DEF Answers
      <3> QED  BY <3>1, <3>2
    <2>3. /\ inbox' = IF attempt[k].orphan THEN ms ELSE Append(ms, n)
          /\ overtaken' = IF inRoom THEN Overtakes(v) ELSE overtaken
          /\ UNCHANGED <<page, seen>>
      BY <1>6 DEF EmitSnapshotAndAnswer, Answer
    <2>4. ms \in Seq(ItemType)  BY <1>1, <2>2
    <2>5. ASSUME ~overtaken' PROVE LastIsNewest(ms, page, seen)
      <3>1. CASE inRoom
        <4>1. ~Overtakes(v)  BY <2>3, <2>5, <3>1, Zenon
        <4>2. ms = Append(inbox, Item("STATE", 0, v))  BY <3>1
        <4> QED  BY <1>4, <2>1, <2>4, <4>1, <4>2
      <3>2. CASE ~inRoom
        <4>1. ~overtaken /\ ms = inbox  BY <2>3, <2>5, <3>2, Zenon
        <4> QED  BY <4>1 DEF PageInv
      <3> QED  BY <3>1, <3>2
    <2>6. LastIsNewest(ms, page, seen) => LastIsNewest(Append(ms, n), page, seen)
      BY <1>1, <2>2, <2>4, OtherAppended
    <2> QED  BY <1>1, <2>3, <2>5, <2>6 DEF PageInv
  <1>7. CASE LoseConsole
    <2>1. /\ UNCHANGED <<page, seen>> /\ Len(inbox') = 0
          /\ overtaken' = (page < seen)
      BY <1>7 DEF LoseConsole
    <2>2. ~(page < seen) => page = seen  BY <1>1
    <2>3. ~overtaken' => page = seen  BY <2>1, <2>2, Zenon
    <2>4. page = seen => LastIsNewest(inbox', page', seen')  BY <2>1 DEF LastIsNewest
    <2> QED  BY <1>1, <2>1, <2>3, <2>4 DEF PageInv
  <1>8. ASSUME NEW k \in Attempts, EmitEvent(k) \/ RejectCommand(k) \/ PublicationFailed(k)
        PROVE  PageInv'
    <2>1. k \in Nat /\ attempt[k].version \in Nat  BY AttemptIsTyped DEF AttemptType
    <2>2. /\ UNCHANGED <<page, seen, overtaken>>
          /\ \/ UNCHANGED inbox
             \/ inbox' = Append(inbox, Item("EVENT", 0, attempt[k].version))
             \/ \E kind \in Answers, v \in Nat : inbox' = Append(inbox, Item(kind, k, v))
      <3>1. CASE EmitEvent(k)  BY <3>1 DEF EmitEvent, ToMatchRoom, pageVars
      <3>2. CASE RejectCommand(k)  BY <3>2 DEF RejectCommand, pageVars, Answers
      <3>3. CASE PublicationFailed(k)  BY <2>1, <3>3 DEF PublicationFailed, Answer, pageVars, Answers
      <3> QED  BY <1>8, <3>1, <3>2, <3>3
    <2>3. Item("EVENT", 0, attempt[k].version) \in ItemType
          /\ Item("EVENT", 0, attempt[k].version).kind # "STATE"
      BY <2>1, ItemIsTyped
    <2>4. \A kind \in Answers, v \in Nat :
            Item(kind, k, v) \in ItemType /\ Item(kind, k, v).kind # "STATE"
      BY <2>1, ItemIsTyped DEF Answers
    <2> QED  BY <1>2, <1>3, <2>2, <2>3, <2>4
  <1>9. CASE TakeMessage
    <2> PICK p : p = Head(inbox)  OBVIOUS
    <2>1. /\ inbox # <<>> /\ inbox' = Tail(inbox) /\ overtaken' = overtaken
          /\ p.kind = "STATE" => page' = p.version /\ seen' = Later(seen, p.version)
          /\ p.kind # "STATE" => UNCHANGED <<page, seen>>
      BY <1>9 DEF TakeMessage, OnSnapshotOfMatch, OnEventOfMatch, OnAnswerOf
    <2>2. p.version \in Nat
      <3>1. p \in ItemType  BY <1>1, <2>1
      <3> QED  BY <3>1 DEF ItemType
    <2>3. page' \in Nat /\ page' <= seen'  BY <1>1, <2>1, <2>2 DEF Later
    <2>4. LastIsNewest(inbox, page, seen) => LastIsNewest(inbox', page', seen')
      BY <1>1, <2>1, FirstTaken
    <2> QED  BY <2>1, <2>3, <2>4 DEF PageInv
  <1>10. CASE ConnectConsole \/ EnterRoom \/ ReadState \/ UNCHANGED scVars
    BY <1>2, <1>10 DEF ConnectConsole, EnterRoom, ReadState, scVars, pageVars
  <1>11. CASE \E b \in Buttons : Press(b)  BY <1>2, <1>11 DEF Press, pageVars
  <1>12. ASSUME NEW k \in Attempts, JoinRoom(k) \/ Commit(k) \/ GiveUp(k) PROVE PageInv'
    BY <1>2, <1>12 DEF JoinRoom, Commit, GiveUp, pageVars
  <1> QED  BY <1>5, <1>6, <1>7, <1>8, <1>9, <1>10, <1>11, <1>12 DEF SupervisorNext

\* A console that is connected, and for which nothing is under way any more, has
\* received every commit that the room or an answer told its socket of, for any
\* number of commands of any of the buttons, lost sockets, late answers and failed
\* publications (ensureCommandRoomMembership, the asks of match-realtime.ts); and
\* it shows them, unless the snapshot sent last was read before one sent earlier
\* (handleMatchState).
THEOREM CommandsAreSeen == SupervisorSpec => []OwnCommandIsSeen
  <1>1. SupervisorInit => PageInv
    <2> SUFFICES ASSUME SupervisorInit PROVE PageInv  OBVIOUS
    <2>1. page = 0 /\ seen = 0 /\ Len(inbox) = 0  BY DEF SupervisorInit
    <2> QED  BY <2>1 DEF PageInv, LastIsNewest
  <1>2. SupervisorInv /\ PageInv => OwnCommandIsSeen
    <2> SUFFICES ASSUME SupervisorInv, PageInv, Settled, linked, mounted
                 PROVE  seen >= told /\ (~overtaken => page >= told)
      BY DEF OwnCommandIsSeen
    <2>1. Underway = {} /\ replies = {} /\ ~requested /\ Len(inbox) = 0
      BY DEF Settled, Underway
    <2>2. seen >= told  BY <2>1 DEF SupervisorInv, OnItsWay
    <2>3. ~overtaken => page = seen  BY <2>1 DEF PageInv, LastIsNewest
    <2> QED  BY <2>2, <2>3
  <1> QED
    BY <1>1, <1>2, SupervisorStart, SupervisorStepKeepsWhatIsSeen, StepsKeepPage, PTL
    DEF SupervisorSpec

\* Both halves of the run's invariant: once revokeSessions has run in a process, no
\* socket of a match session stays open there on the revoked session, for any number
\* of sessions, sockets and processes, and the console has received what it was told
\* and shows it unless an older snapshot was sent last.
THEOREM SocketsStayTold == Spec /\ SupervisorSpec => []SocketsAreTold
  <1>1. ConnectionsInv => RevocationReachesParticipants  BY DEF ConnectionsInv
  <1>2. Spec => []RevocationReachesParticipants
    BY <1>1, ConnectionsStart, ConnectionsStepKeepsRevocation, PTL DEF Spec
  <1>3. RevocationReachesParticipants /\ OwnCommandIsSeen => SocketsAreTold
    BY DEF SocketsAreTold
  <1> QED  BY <1>2, <1>3, CommandsAreSeen, PTL
=============================================================================
