--------------------------- MODULE RealtimeProofs ---------------------------
(***************************************************************************)
(* Proofs about what is counted and shown of the sockets: the presence       *)
(* counters cover the connections, the console of an official catches up     *)
(* with its match, and an assignment the official has left stays away.  The   *)
(* sets of sockets and matches, the numbers of commits and assignments and    *)
(* the lengths of the queues are arbitrary.                                   *)
(***************************************************************************)
EXTENDS Presence, AssignmentFeed, MatchFeed, FiniteSetTheorems, TLAPS

-----------------------------------------------------------------------------
(* Presence.                                                                *)

\* The sockets that a counter has to cover.
Here(w) == {x \in SocketsOf(w) : Registered(x)}

PresenceInv ==
    /\ phase \in [Sockets -> Phases]
    /\ count \in [Owners -> Nat]
    /\ CountersCoverConnections

\* The sockets of an owner are finitely many, so that they can be counted.
LEMMA HereIsFinite ==
    ASSUME NEW w PROVE IsFiniteSet(Here(w)) /\ Cardinality(Here(w)) \in Nat
  <1>1. Here(w) \subseteq Sockets  BY DEF Here, SocketsOf
  <1> QED  BY <1>1, PresenceAssumption, FS_Subset, FS_CardinalityType

\* Counters are kept by a step that registers nobody and takes nothing off them:
\* a handshake, an entry into a match, a crash.
LEMMA NobodyNewIsCovered ==
    ASSUME PresenceInv, phase' \in [Sockets -> Phases], UNCHANGED count,
           \A x \in Sockets : Registered(x)' => Registered(x)
    PROVE  PresenceInv'
  <1> SUFFICES ASSUME NEW w \in Owners PROVE count[w]' >= Cardinality(Here(w)')
    BY DEF PresenceInv, CountersCoverConnections, Owners, Here, SocketsOf
  <1>1. Here(w)' \subseteq Here(w)  BY DEF Here, SocketsOf
  <1>2. Cardinality(Here(w)') <= Cardinality(Here(w)) /\ Cardinality(Here(w)') \in Nat
    BY <1>1, HereIsFinite, FS_Subset, FS_CardinalityType
  <1>3. count[w] >= Cardinality(Here(w))
    BY DEF PresenceInv, CountersCoverConnections, Here
  <1> HIDE DEF Here
  <1> QED  BY <1>2, <1>3, HereIsFinite DEF PresenceInv

LEMMA CountInKeepsCounters ==
    ASSUME PresenceInv, NEW y \in Sockets, CountIn(y) PROVE PresenceInv'
  <1>1. phase' \in [Sockets -> Phases] /\ count' \in [Owners -> Nat]
    <2>1. OwnerOf[y] \in Owners  BY PresenceAssumption DEF Owners
    <2>2. count' \in [Owners -> Nat]  BY <2>1 DEF PresenceInv, CountIn
    <2> QED  BY <2>2 DEF PresenceInv, CountIn, Phases
  <1>2. ASSUME NEW w \in Owners PROVE count[w]' >= Cardinality(Here(w)')
    <2>1. count[w] \in Nat /\ count[w] >= Cardinality(Here(w)) /\ Cardinality(Here(w)) \in Nat
      BY HereIsFinite DEF PresenceInv, CountersCoverConnections, Here
    <2>2. CASE w = OwnerOf[y]
      <3>1. Here(w)' = Here(w) \cup {y} /\ y \notin Here(w)
        BY <2>2 DEF Here, SocketsOf, Registered, CountIn, PresenceInv, Phases
      <3>2. Cardinality(Here(w)') = Cardinality(Here(w)) + 1
        BY <3>1, HereIsFinite, FS_AddElement
      <3>3. count[w]' = count[w] + 1  BY <2>2 DEF CountIn, PresenceInv, Owners
      <3> HIDE DEF Here
      <3> QED  BY <2>1, <3>2, <3>3
    <2>3. CASE w # OwnerOf[y]
      <3>1. Here(w)' = Here(w)
        BY <2>3 DEF Here, SocketsOf, Registered, CountIn, PresenceInv
      <3>2. count[w]' = count[w]  BY <2>3 DEF CountIn, PresenceInv
      <3> QED  BY <2>1, <3>1, <3>2
    <2> QED  BY <2>2, <2>3
  <1> QED  BY <1>1, <1>2 DEF PresenceInv, CountersCoverConnections, Here, SocketsOf, Owners

LEMMA DisconnectKeepsCounters ==
    ASSUME PresenceInv, NEW y \in Sockets, Disconnect(y) PROVE PresenceInv'
  <1>0. Decrement(y) \in {0, 1} /\ (Decrement(y) = 1 <=> Registered(y))  BY DEF Decrement
  <1>1. phase' \in [Sockets -> Phases]  BY DEF PresenceInv, Disconnect, Phases
  <1>2. count' \in [Owners -> Nat]
    <2>1. OwnerOf[y] \in Owners  BY PresenceAssumption DEF Owners
    <2>2. (IF count[OwnerOf[y]] < Decrement(y) THEN 0 ELSE count[OwnerOf[y]] - Decrement(y)) \in Nat
      BY <1>0, <2>1 DEF PresenceInv
    <2> QED  BY <2>1, <2>2 DEF PresenceInv, Disconnect
  <1>3. ASSUME NEW w \in Owners PROVE count[w]' >= Cardinality(Here(w)')
    <2>1. count[w] \in Nat /\ count[w] >= Cardinality(Here(w)) /\ Cardinality(Here(w)) \in Nat
      BY HereIsFinite DEF PresenceInv, CountersCoverConnections, Here
    <2>2. CASE w = OwnerOf[y] /\ Registered(y)
      <3>1. Here(w)' = Here(w) \ {y} /\ y \in Here(w)
        BY <2>2 DEF Here, SocketsOf, Registered, Disconnect, PresenceInv
      <3>2. Cardinality(Here(w)') = Cardinality(Here(w)) - 1 /\ Cardinality(Here(w)') \in Nat
        BY <3>1, HereIsFinite, FS_RemoveElement, FS_CardinalityType
      <3>3. count[w]' = IF count[w] < 1 THEN 0 ELSE count[w] - 1
        BY <1>0, <2>2 DEF Disconnect, PresenceInv
      <3> HIDE DEF Here
      <3> QED  BY <2>1, <3>2, <3>3
    <2>3. CASE ~(w = OwnerOf[y] /\ Registered(y))
      <3>1. Here(w)' = Here(w)
        BY <2>3 DEF Here, SocketsOf, Registered, Disconnect, PresenceInv
      <3>2. count[w]' = count[w]
        BY <1>0, <2>1, <2>3 DEF Disconnect, PresenceInv
      <3> QED  BY <2>1, <3>1, <3>2
    <2> QED  BY <2>2, <2>3
  <1> QED  BY <1>1, <1>2, <1>3 DEF PresenceInv, CountersCoverConnections, Here, SocketsOf, Owners

\* Every step keeps the counters above the connections.
LEMMA PresenceStepKeepsCounters == PresenceInv /\ [Next]_vars => PresenceInv'
  <1> SUFFICES ASSUME PresenceInv, [Next]_vars PROVE PresenceInv'  OBVIOUS
  <1>1. CASE UNCHANGED vars
    BY <1>1, NobodyNewIsCovered DEF vars, Registered, PresenceInv
  <1>2. CASE \E x \in Sockets : RegisterOfficial(x) \/ RegisterScoreboard(x)
    BY <1>2, CountInKeepsCounters DEF RegisterOfficial, RegisterScoreboard
  <1>3. CASE \E x \in Sockets : Disconnect(x)
    BY <1>3, DisconnectKeepsCounters
  <1>4. CASE \E x \in Sockets : Connect(x)
    <2> PICK x \in Sockets : Connect(x)  BY <1>4
    <2>1. phase' \in [Sockets -> Phases] /\ \A y \in Sockets : Registered(y)' => Registered(y)
      BY DEF Connect, Registered, PresenceInv, Phases
    <2> QED  BY <2>1, NobodyNewIsCovered DEF Connect
  <1>5. CASE Crash
    <2>1. phase' \in [Sockets -> Phases] /\ \A y \in Sockets : Registered(y)' => Registered(y)
      BY <1>5 DEF Crash, Registered, PresenceInv, Phases
    <2> QED  BY <1>5, <2>1, NobodyNewIsCovered DEF Crash
  <1>6. CASE \/ \E x \in Sockets :
                 \/ EnterPresence(x) \/ Heartbeat(x) \/ LeavePresence(x)
                 \/ \E m \in Matches \cup {None} : FinishEntering(x, m)
                 \/ \E m \in Matches : PresenceExpires(m, x)
             \/ \E o \in Officials : Unassign(o) \/ \E m \in Matches : Assign(o, m)
    <2>1. UNCHANGED <<phase, count>>
      BY <1>6 DEF EnterPresence, Heartbeat, LeavePresence, FinishEntering, PresenceExpires,
                  Unassign, Assign
    <2> QED  BY <2>1, NobodyNewIsCovered DEF Registered, PresenceInv
  <1> QED  BY <1>1, <1>2, <1>3, <1>4, <1>5, <1>6 DEF Next

\* Whatever registers, disconnects and crashes, the counter of an official or of
\* the scoreboards of a match (incrementByWithExpiry, unregister) is at least the
\* number of sockets registered for it: readiness never misses one that is there.
THEOREM CountersStayAbove == Spec => []CountersCoverConnections
  <1>1. Init => PresenceInv
    <2> SUFFICES ASSUME Init PROVE PresenceInv  OBVIOUS
    <2>1. \A w : {x \in SocketsOf(w) : Registered(x)} = {}  BY DEF Init, Registered, SocketsOf
    <2>2. Cardinality({}) = 0  BY FS_EmptySet
    <2>3. CountersCoverConnections
      BY <2>1, <2>2 DEF CountersCoverConnections, Init
    <2> QED  BY <2>3 DEF Init, PresenceInv, Phases
  <1>2. PresenceInv => CountersCoverConnections  BY DEF PresenceInv
  <1> QED  BY <1>1, <1>2, PresenceStepKeepsCounters, PTL DEF Spec

-----------------------------------------------------------------------------
(* Messages under way.                                                       *)

UnderWay(s) == {s[j] : j \in 1 .. Len(s)}

LEMMA UnderWayAppended ==
    ASSUME NEW S, NEW s \in Seq(S), NEW t \in Seq(S)
    PROVE  s \o t \in Seq(S) /\ UnderWay(s \o t) = UnderWay(s) \cup UnderWay(t)
<1>1. /\ s \o t \in Seq(S)
      /\ \A j \in 1 .. Len(s) : j \in 1 .. Len(s \o t) /\ (s \o t)[j] = s[j]
      /\ \A j \in 1 .. Len(t) : Len(s) + j \in 1 .. Len(s \o t) /\ (s \o t)[Len(s) + j] = t[j]
    OBVIOUS
<1>2. \A j \in 1 .. Len(s \o t) :
        \/ j \in 1 .. Len(s) /\ (s \o t)[j] = s[j]
        \/ j - Len(s) \in 1 .. Len(t) /\ (s \o t)[j] = t[j - Len(s)]
    OBVIOUS
<1>3. UnderWay(s) \cup UnderWay(t) \subseteq UnderWay(s \o t)
    BY <1>1 DEF UnderWay
<1>4. UnderWay(s \o t) \subseteq UnderWay(s) \cup UnderWay(t)
    BY <1>2 DEF UnderWay
<1> QED  BY <1>1, <1>3, <1>4

LEMMA PacketsAppended ==
    \A s, t \in Seq(Packet) : s \o t \in Seq(Packet) /\ UnderWay(s \o t) = UnderWay(s) \cup UnderWay(t)
  BY UnderWayAppended, Zenon

LEMMA MessagesAppended ==
    \A s, t \in Seq(Message) : s \o t \in Seq(Message) /\ UnderWay(s \o t) = UnderWay(s) \cup UnderWay(t)
  BY UnderWayAppended, Zenon

LEMMA UnderWayShort ==
    ASSUME NEW S, NEW p \in S, NEW q \in S
    PROVE  /\ <<p>> \in Seq(S) /\ UnderWay(<<p>>) = {p}
           /\ <<p, q>> \in Seq(S) /\ UnderWay(<<p, q>>) = {p, q}
<1>1. <<p>> \in Seq(S) /\ <<p, q>> \in Seq(S)
    OBVIOUS
<1>2. Len(<<p>>) = 1 /\ Len(<<p, q>>) = 2 /\ <<p>>[1] = p /\ <<p, q>>[1] = p /\ <<p, q>>[2] = q
    OBVIOUS
<1>3. 1 .. 1 = {1} /\ 1 .. 2 = {1, 2}
    OBVIOUS
<1> QED  BY <1>1, <1>2, <1>3 DEF UnderWay

LEMMA UnderWayTail ==
    ASSUME NEW S, NEW s \in Seq(S), s # <<>>
    PROVE  /\ Head(s) \in S /\ Tail(s) \in Seq(S)
           /\ UnderWay(s) = {Head(s)} \cup UnderWay(Tail(s))
<1>1. /\ Head(s) = s[1] /\ 1 \in 1 .. Len(s) /\ Tail(s) \in Seq(S)
      /\ Head(s) \in S
    OBVIOUS
<1>2. \A j \in 1 .. Len(s) : j = 1 \/ (j - 1 \in 1 .. Len(Tail(s)) /\ Tail(s)[j - 1] = s[j])
    OBVIOUS
<1>3. \A j \in 1 .. Len(Tail(s)) : j + 1 \in 1 .. Len(s) /\ Tail(s)[j] = s[j + 1]
    OBVIOUS
<1>4. UnderWay(s) \subseteq {Head(s)} \cup UnderWay(Tail(s))
    BY <1>1, <1>2 DEF UnderWay
<1>5. {Head(s)} \cup UnderWay(Tail(s)) \subseteq UnderWay(s)
    BY <1>1, <1>3 DEF UnderWay
<1> QED  BY <1>1, <1>4, <1>5

-----------------------------------------------------------------------------
(* The match feed: what makes SubscribedConsoleHasTheNewest inductive.       *)

\* A message that makes the console catch up: it asks for a snapshot on hearing
\* it, or it is a snapshot of everything announced.
Prompts(p) ==
    \/ p.kind \in {"EVENT", "RESOLVED", "PRESENCE"}
    \/ p.kind = "STATE" /\ p.version >= announced

\* A snapshot that reaches the console alone and is new enough.
Answers(b) == b.direct /\ b.version >= announced

\* A console that lacks something announced has asked, or is about to be told.
Owed ==
    \/ received >= announced
    \/ asked
    \/ \E b \in building : Answers(b)
    \/ \E p \in UnderWay(wire) : Prompts(p)

\* Nothing claims more than what was committed.
ClaimsAreCommitted ==
    /\ announced <= version
    /\ \A p \in pending : p.version <= version
    /\ \A b \in building : b.version <= version /\ b.kind = "STATE"

\* Until it is welcomed, a console in the room may lack anything; while it
\* enters it is connected, and it is welcomed in the room.
Entering == (entry # "NONE" => online) /\ (entry = "JOINED" => joined)

CatchesUp == online /\ joined /\ entry = "NONE" => Owed

MatchFeedInv == MatchFeedTypeOK /\ ClaimsAreCommitted /\ Entering /\ CatchesUp

LEMMA PacketFacts ==
    /\ \A p \in Packet : p.version \in Versions /\ p.vote \in BOOLEAN /\ p.direct \in BOOLEAN
    /\ \A v \in Versions, k \in {"EVENT", "RESOLVED", "PRESENCE", "ACCEPTED"} :
        Plain(k, v) \in Packet /\ Plain(k, v).kind = k /\ Plain(k, v).version = v
    /\ \A k \in Submissions, kind \in {"OK", "FAILED"} :
        Reply(kind, k) \in Packet /\ Reply(kind, k).kind = kind
    /\ \A v \in Versions, vote, direct \in BOOLEAN :
        /\ Snapshot(v, vote, direct) \in Packet
        /\ Snapshot(v, vote, direct).kind = "STATE"
        /\ Snapshot(v, vote, direct).version = v
        /\ Snapshot(v, vote, direct).direct = direct
  BY MatchFeedAssumption DEF Packet, Plain, Reply, Snapshot, Versions, Submissions

LEMMA VersionsAreNaturals == Versions \subseteq Nat /\ 0 \in Versions
  BY MatchFeedAssumption DEF Versions

LEMMA PacketIsNumbered ==
    ASSUME NEW p \in Packet
    PROVE  p.version \in Versions /\ p.version \in Nat
<1>1. p.version \in Versions
    BY DEF Packet
<1> QED  BY <1>1, VersionsAreNaturals

LEMMA NewestIsEither ==
    ASSUME NEW v \in Versions, NEW w \in Versions
    PROVE  Newest(v, w) \in {v, w} /\ Newest(v, w) >= v /\ Newest(v, w) >= w
  BY VersionsAreNaturals DEF Newest

\* A message to the room is under way to the console that is in it.
LEMMA RoomMessage ==
    ASSUME wire \in Seq(Packet), NEW p \in Packet, ToRoom(<<p>>)
    PROVE  /\ wire' \in Seq(Packet) /\ UnderWay(wire) \subseteq UnderWay(wire')
           /\ joined => p \in UnderWay(wire')
<1>1. <<p>> \in Seq(Packet) /\ UnderWay(<<p>>) = {p}
    BY UnderWayShort
<1>2. wire \o <<p>> \in Seq(Packet) /\ UnderWay(wire \o <<p>>) = UnderWay(wire) \cup {p}
    BY <1>1, PacketsAppended
<1> QED  BY <1>2 DEF ToRoom

\* So is a message to its own socket.
LEMMA DirectMessage ==
    ASSUME NEW s \in Seq(Packet), NEW p \in Packet
    PROVE  Append(s, p) \in Seq(Packet) /\ UnderWay(Append(s, p)) = UnderWay(s) \cup {p}
<1>1. <<p>> \in Seq(Packet) /\ UnderWay(<<p>>) = {p}
    BY UnderWayShort
<1>2. Append(s, p) = s \o <<p>>
    OBVIOUS
<1> QED  BY <1>1, <1>2, PacketsAppended

\* A step that announces nothing new and loses neither the request nor a
\* message or a snapshot on its way keeps the console's claim.
LEMMA NothingLost ==
    ASSUME CatchesUp, announced' = announced, received' = received, asked => asked',
           online' = online, joined' = joined, entry' = entry,
           \A b \in building : b.direct => b \in building',
           \A p \in UnderWay(wire) : Prompts(p) => p \in UnderWay(wire')
    PROVE  CatchesUp'
  BY DEF CatchesUp, Owed, Answers, Prompts

LEMMA CommitsKeepConsole ==
    ASSUME MatchFeedInv,
           \/ OtherCommits("EVENT") \/ OtherCommits("NONE") \/ WindowResolves
    PROVE  MatchFeedInv'
<1> USE DEF MatchFeedInv
<1>1. version' = version + 1 /\ version' \in Versions /\ version \in Nat
    BY VersionsAreNaturals, MatchFeedAssumption
    DEF MatchFeedTypeOK, OtherCommits, WindowResolves, Versions
<1>2. /\ \A p \in pending' : p \in pending \/ p.version = version'
      /\ pending' \subseteq [version : Versions, event : {"EVENT", "RESOLVED", "NONE"}]
    BY <1>1 DEF MatchFeedTypeOK, OtherCommits, WindowResolves
<1>3. MatchFeedTypeOK'
    BY <1>1, <1>2
    DEF MatchFeedTypeOK, OtherCommits, WindowResolves, socketVars, consoleVars, pageVars, voteVars
<1>4. ClaimsAreCommitted'
  <2>1. announced \in Nat /\ \A p \in pending : p.version \in Nat
    BY VersionsAreNaturals DEF MatchFeedTypeOK
  <2>2. \A b \in building : b.version \in Nat
    BY VersionsAreNaturals, PacketFacts DEF MatchFeedTypeOK
  <2> QED  BY <1>1, <1>2, <2>1, <2>2 DEF ClaimsAreCommitted, OtherCommits, WindowResolves
<1>5. Entering' /\ CatchesUp'
  <2>1. UNCHANGED <<building, announced, wire, socketVars, consoleVars>>
    BY DEF OtherCommits, WindowResolves
  <2> QED  BY <2>1 DEF Entering, CatchesUp, Owed, Answers, Prompts, socketVars, consoleVars, pageVars
<1> QED  BY <1>3, <1>4, <1>5

LEMMA PublicationKeepsConsole ==
    ASSUME MatchFeedInv, NEW p \in pending, Publish(p)
    PROVE  MatchFeedInv'
<1> USE DEF MatchFeedInv
<1> DEFINE snap == Snapshot(version, FALSE, FALSE)
<1>1. /\ p.version \in Versions /\ p.event \in {"EVENT", "RESOLVED", "NONE"}
      /\ p.version <= version /\ version \in Versions /\ announced \in Versions
    BY DEF MatchFeedTypeOK, ClaimsAreCommitted
<1>2. snap \in Packet /\ snap.kind = "STATE" /\ snap.version = version /\ ~snap.direct
    BY <1>1, PacketFacts
<1>3. /\ building' = building \cup {snap} /\ pending' = pending \ {p}
      /\ UNCHANGED <<matchVars, socketVars, consoleVars, voteVars>>
    BY DEF Publish
<1> HIDE DEF snap
<1>4. announced' \in Versions /\ announced' <= version
  <2>1. Newest(announced, p.version) \in {announced, p.version}
    BY <1>1, NewestIsEither
  <2> QED  BY <1>1, <2>1 DEF Publish, ClaimsAreCommitted
<1>5. /\ wire' \in Seq(Packet) /\ UnderWay(wire) \subseteq UnderWay(wire')
      /\ \/ UNCHANGED announced
         \/ joined => \E q \in UnderWay(wire') : q.kind \in {"EVENT", "RESOLVED"}
  <2>1. CASE p.event = "NONE"
    BY <2>1 DEF Publish, MatchFeedTypeOK
  <2>2. CASE p.event # "NONE"
    <3>1. Plain(p.event, p.version) \in Packet /\ Plain(p.event, p.version).kind = p.event
        BY <1>1, <2>2, MatchFeedAssumption DEF Plain, Packet
    <3>2. ToRoom(<<Plain(p.event, p.version)>>)
        BY <2>2 DEF Publish
    <3> QED  BY <1>1, <2>2, <3>1, <3>2, RoomMessage DEF MatchFeedTypeOK
  <2> QED  BY <2>1, <2>2
<1>6. MatchFeedTypeOK'
    BY <1>2, <1>3, <1>4, <1>5 DEF MatchFeedTypeOK, matchVars, socketVars, consoleVars, pageVars, voteVars
<1>7. ClaimsAreCommitted'
    BY <1>1, <1>2, <1>3, <1>4, VersionsAreNaturals DEF ClaimsAreCommitted, matchVars
<1>8. Entering'
    BY <1>3 DEF Entering, socketVars
<1>9. CatchesUp'
  <2>1. CASE UNCHANGED announced
    BY <1>3, <1>5, <2>1, NothingLost DEF socketVars, consoleVars, pageVars
  <2>2. CASE joined => \E q \in UnderWay(wire') : q.kind \in {"EVENT", "RESOLVED"}
    BY <1>3, <2>2 DEF CatchesUp, Owed, Prompts, socketVars
  <2> QED  BY <1>5, <2>1, <2>2
<1> QED  BY <1>6, <1>7, <1>8, <1>9

LEMMA EmissionKeepsConsole ==
    ASSUME MatchFeedInv, NEW b \in building, EmitState(b)
    PROVE  MatchFeedInv'
<1> USE DEF MatchFeedInv
<1>1. /\ b \in Packet /\ b.version \in Versions /\ b.version <= version /\ b.kind = "STATE"
      /\ b.direct \in BOOLEAN /\ announced \in Versions
    BY PacketFacts DEF MatchFeedTypeOK, ClaimsAreCommitted
<1>2. /\ building' = building \ {b}
      /\ UNCHANGED <<matchVars, pending, socketVars, asked, page, received, voteVars>>
      /\ overtaken' \in BOOLEAN
    BY DEF EmitState, Overtakes, MatchFeedTypeOK
<1>3. /\ wire' \in Seq(Packet) /\ UnderWay(wire) \subseteq UnderWay(wire')
      /\ joined \/ b.direct => b \in UnderWay(wire')
  <2>1. wire \in Seq(Packet)
    BY DEF MatchFeedTypeOK
  <2>2. CASE wire' = Append(wire, b)
    BY <1>1, <2>1, <2>2, DirectMessage
  <2>3. CASE ~b.direct /\ ToRoom(<<b>>)
    BY <1>1, <2>1, <2>3, RoomMessage
  <2> QED  BY <2>2, <2>3 DEF EmitState
<1>4. /\ announced' \in {announced, b.version}
      /\ announced' # announced => ~b.direct
      /\ announced' = announced \/ announced' = b.version
    BY <1>1, NewestIsEither DEF EmitState
<1>5. MatchFeedTypeOK'
    BY <1>1, <1>2, <1>3, <1>4 DEF MatchFeedTypeOK, matchVars, socketVars, voteVars
<1>6. ClaimsAreCommitted'
    BY <1>1, <1>2, <1>4 DEF ClaimsAreCommitted, matchVars
<1>7. Entering'
    BY <1>2 DEF Entering, socketVars
<1>8. CatchesUp'
  <2> SUFFICES ASSUME online, joined, entry = "NONE" PROVE Owed'
    BY <1>2 DEF CatchesUp, socketVars
  <2>1. b \in UnderWay(wire')
    BY <1>3
  <2>2. CASE announced' = b.version
    <3>1. b.version \in Nat
      BY <1>1, VersionsAreNaturals
    <3>2. b.version >= announced'
      BY <2>2, <3>1
    <3> QED  BY <1>1, <2>1, <3>2 DEF Owed, Prompts
  <2>3. CASE announced' = announced
    <3>1. Owed /\ UNCHANGED <<received, asked>>
      BY <1>2 DEF CatchesUp
    <3>2. CASE \E c \in building : Answers(c)
      BY <1>1, <1>2, <2>1, <2>3, <3>2 DEF Owed, Answers, Prompts
    <3>3. CASE \E p \in UnderWay(wire) : Prompts(p)
      BY <1>3, <2>3, <3>3 DEF Owed, Prompts
    <3> QED  BY <2>3, <3>1, <3>2, <3>3 DEF Owed
  <2> QED  BY <1>4, <2>2, <2>3
<1> QED  BY <1>5, <1>6, <1>7, <1>8

LEMMA RoomKeepsConsole ==
    ASSUME MatchFeedInv,
           \/ \E b \in building : PublicationFails(b)
           \/ Online \/ Offline \/ EnterMatch \/ BroadcastPresence \/ AnswerRequest
    PROVE  MatchFeedInv'
<1> USE DEF MatchFeedInv
<1>1. CASE \E b \in building : PublicationFails(b)
  <2>1. PICK b \in building : PublicationFails(b)
    BY <1>1
  <2>2. /\ building' = building \ {b} /\ ~b.direct
        /\ UNCHANGED <<matchVars, pending, announced, socketVars, wire, consoleVars, voteVars>>
    BY <2>1 DEF PublicationFails
  <2>3. CatchesUp'
    BY <2>2, NothingLost DEF socketVars, consoleVars, pageVars
  <2> QED  BY <2>2, <2>3
           DEF MatchFeedTypeOK, ClaimsAreCommitted, Entering, matchVars, socketVars, consoleVars, pageVars, voteVars
<1>2. CASE Online
    BY <1>2 DEF Online, MatchFeedTypeOK, ClaimsAreCommitted, Entering, CatchesUp,
                matchVars, roomVars, pageVars, voteVars
<1>3. CASE Offline
  <2>1. <<>> \in Seq(Packet)
    OBVIOUS
  <2>2. submission' \in [Submissions -> [stage : {"NONE", "SENT", "COMMITTED"}, awaited : BOOLEAN]]
    BY <1>3 DEF Offline, MatchFeedTypeOK
  <2>3. overtaken' \in BOOLEAN
    BY <1>3 DEF Offline
  <2> QED  BY <1>3, <2>1, <2>2, <2>3 DEF Offline, MatchFeedTypeOK, ClaimsAreCommitted, Entering, CatchesUp, matchVars
<1>4. CASE EnterMatch
    BY <1>4 DEF EnterMatch, MatchFeedTypeOK, ClaimsAreCommitted, Entering, CatchesUp,
                matchVars, roomVars, consoleVars, pageVars, voteVars
<1>5. CASE BroadcastPresence
  <2> DEFINE hello == Plain("PRESENCE", 0)
  <2>1. hello \in Packet /\ hello.kind = "PRESENCE"
    BY PacketFacts, VersionsAreNaturals
  <2>2. /\ entry = "JOINED" /\ ToRoom(<<hello>>) /\ entry' = "NONE"
        /\ UNCHANGED <<matchVars, roomVars, online, joined, consoleVars, voteVars>>
    BY <1>5 DEF BroadcastPresence, Welcome
  <2> HIDE DEF hello
  <2>3. wire' \in Seq(Packet) /\ hello \in UnderWay(wire')
    BY <2>1, <2>2, RoomMessage DEF MatchFeedTypeOK, Entering
  <2>4. Owed'
    BY <2>1, <2>3 DEF Owed, Prompts
  <2> QED  BY <2>2, <2>3, <2>4
           DEF MatchFeedTypeOK, ClaimsAreCommitted, Entering, CatchesUp,
               matchVars, roomVars, consoleVars, pageVars, voteVars
<1>6. CASE AnswerRequest
  <2> DEFINE snap == Snapshot(version, voted, TRUE)
  <2>1. snap \in Packet /\ snap.kind = "STATE" /\ snap.version = version /\ snap.direct
    BY MatchFeedAssumption DEF MatchFeedTypeOK, Snapshot, Packet
  <2>2. /\ building' = building \cup {snap} /\ asked' = FALSE
        /\ UNCHANGED <<matchVars, pending, announced, socketVars, wire, pageVars, voteVars>>
    BY <1>6 DEF AnswerRequest
  <2> HIDE DEF snap
  <2>3. Owed'
    BY <2>1, <2>2 DEF Owed, Answers, ClaimsAreCommitted
  <2>4. \A b \in building' : b.version <= version /\ b.kind = "STATE"
    BY <2>1, <2>2, VersionsAreNaturals DEF ClaimsAreCommitted, MatchFeedTypeOK
  <2> QED  BY <2>1, <2>2, <2>3, <2>4
           DEF MatchFeedTypeOK, ClaimsAreCommitted, Entering, CatchesUp, matchVars, socketVars,
               pageVars, voteVars
<1> QED  BY <1>1, <1>2, <1>3, <1>4, <1>5, <1>6

LEMMA VotesKeepConsole ==
    ASSUME MatchFeedInv, NEW k \in Submissions,
           \/ SubmitVote(k) \/ CommitVote(k) \/ RefuseVote(k)
           \/ AnswerVote(k) \/ AnswerFails(k) \/ AnswerTimesOut(k)
    PROVE  MatchFeedInv'
<1> USE DEF MatchFeedInv
<1>1. wire \in Seq(Packet)
    BY DEF MatchFeedTypeOK
<1>2. Reply("FAILED", k) \in Packet /\ Plain("ACCEPTED", 0) \in Packet /\ Reply("OK", k) \in Packet
    BY PacketFacts, VersionsAreNaturals
<1>3. wire' \in Seq(Packet) /\ UnderWay(wire) \subseteq UnderWay(wire')
  <2>1. CASE wire' = wire \o <<Reply("FAILED", k)>>
    BY <1>1, <1>2, <2>1, UnderWayShort, PacketsAppended
  <2>2. CASE wire' = wire \o Recorded(k)
    BY <1>1, <1>2, <2>2, UnderWayShort, PacketsAppended DEF Recorded
  <2>3. CASE wire' = wire
    BY <1>1, <2>3
  <2> QED  BY <2>1, <2>2, <2>3
           DEF SubmitVote, CommitVote, RefuseVote, AnswerVote, AnswerFails, AnswerTimesOut, ToSocket
<1>4. /\ UNCHANGED <<version, roomVars, socketVars, consoleVars>> /\ voted' \in BOOLEAN
      /\ sending' \in BOOLEAN /\ locked' \in BOOLEAN
    BY DEF MatchFeedTypeOK, SubmitVote, CommitVote, RefuseVote, AnswerVote, AnswerFails,
           AnswerTimesOut, matchVars
<1>5. submission' \in [Submissions -> [stage : {"NONE", "SENT", "COMMITTED"}, awaited : BOOLEAN]]
  <2>1. CASE SubmitVote(k)
    BY <2>1 DEF MatchFeedTypeOK, SubmitVote
  <2>2. CASE AtServer(k, "NONE")
    BY <2>2 DEF MatchFeedTypeOK, AtServer
  <2>3. CASE AtServer(k, "COMMITTED")
    BY <2>3 DEF MatchFeedTypeOK, AtServer
  <2>4. CASE NoLongerAwaited(k)
    BY <2>4 DEF MatchFeedTypeOK, NoLongerAwaited
  <2> QED  BY <2>1, <2>2, <2>3, <2>4
           DEF CommitVote, RefuseVote, AnswerVote, AnswerFails, AnswerTimesOut
<1>6. MatchFeedTypeOK' /\ ClaimsAreCommitted' /\ Entering'
    BY <1>3, <1>4, <1>5
    DEF MatchFeedTypeOK, ClaimsAreCommitted, Entering, roomVars, socketVars, consoleVars, pageVars
<1>7. CatchesUp'
    BY <1>3, <1>4, NothingLost DEF roomVars, socketVars, consoleVars, pageVars
<1> QED  BY <1>6, <1>7

LEMMA ReceptionKeepsConsole ==
    ASSUME MatchFeedInv, Receive
    PROVE  MatchFeedInv'
<1> USE DEF MatchFeedInv
<1> DEFINE p == Head(wire)
<1>1. /\ p \in Packet /\ Tail(wire) \in Seq(Packet)
      /\ UnderWay(wire) = {p} \cup UnderWay(Tail(wire))
    BY UnderWayTail DEF Receive, MatchFeedTypeOK
<1>2. /\ wire' = Tail(wire)
      /\ UNCHANGED <<matchVars, roomVars, socketVars, overtaken>>
      /\ \/ p.kind = "STATE" /\ OnState(p)
         \/ p.kind \in {"EVENT", "RESOLVED", "PRESENCE"} /\ OnEvent(p)
         \/ p.kind = "ACCEPTED" /\ OnAccepted
         \/ p.kind \in {"OK", "FAILED"} /\ OnAnswer(p)
    BY DEF Receive
<1>3. /\ p.version \in Versions /\ p.vote \in BOOLEAN /\ received \in Versions
      /\ announced \in Versions
    BY <1>1, PacketFacts DEF MatchFeedTypeOK
<1> HIDE DEF p
<1>4. /\ received' \in Versions /\ received' >= received
      /\ p.kind = "STATE" => received' >= p.version
  <2>1. Newest(received, p.version) \in {received, p.version}
    BY <1>3, NewestIsEither
  <2>2. Newest(received, p.version) >= received /\ Newest(received, p.version) >= p.version
    BY <1>3, NewestIsEither
  <2>3. received' = received \/ (p.kind = "STATE" /\ received' = Newest(received, p.version))
    BY <1>2 DEF OnState, OnEvent, OnAccepted, OnAnswer
  <2>4. p.kind = "STATE" => received' = Newest(received, p.version)
    BY <1>2 DEF OnState
  <2>5. received >= received
    BY <1>3, VersionsAreNaturals
  <2> QED  BY <1>3, <2>1, <2>2, <2>3, <2>4, <2>5
<1>5. /\ asked' \in BOOLEAN /\ sending' \in BOOLEAN /\ locked' \in BOOLEAN /\ page' \in Versions
      /\ asked => asked'
      /\ p.kind \in {"EVENT", "RESOLVED", "PRESENCE"} => asked'
    BY <1>2, <1>3
    DEF MatchFeedTypeOK, OnState, OnEvent, OnAccepted, OnAnswer, Unlock
<1>6. submission' \in [Submissions -> [stage : {"NONE", "SENT", "COMMITTED"}, awaited : BOOLEAN]]
  <2>1. CASE UNCHANGED submission
    BY <2>1 DEF MatchFeedTypeOK
  <2>2. CASE NoLongerAwaited(p.of)
    BY <2>2 DEF MatchFeedTypeOK, NoLongerAwaited
  <2> QED  BY <1>2, <2>1, <2>2 DEF OnState, OnEvent, OnAccepted, OnAnswer
<1>7. MatchFeedTypeOK' /\ ClaimsAreCommitted' /\ Entering'
    BY <1>1, <1>2, <1>4, <1>5, <1>6
    DEF MatchFeedTypeOK, ClaimsAreCommitted, Entering, matchVars, roomVars, socketVars
<1>8. CatchesUp'
  <2> SUFFICES ASSUME online, joined, entry = "NONE" PROVE Owed'
    BY <1>2 DEF CatchesUp, socketVars
  <2>1. Owed /\ UNCHANGED <<building, announced>>
    BY <1>2 DEF CatchesUp, roomVars
  <2>2. CASE received >= announced
    BY <1>3, <1>4, <2>1, <2>2, VersionsAreNaturals DEF Owed
  <2>3. CASE asked \/ \E b \in building : Answers(b)
    BY <1>5, <2>1, <2>3 DEF Owed, Answers
  <2>4. CASE \E q \in UnderWay(wire) : Prompts(q)
    <3>1. PICK q \in UnderWay(wire) : Prompts(q)
      BY <2>4
    <3>2. CASE q \in UnderWay(Tail(wire))
      BY <1>2, <2>1, <3>1, <3>2 DEF Owed, Prompts
    <3>3. CASE q = p
      <4>1. received' \in Nat /\ p.version \in Nat /\ announced \in Nat
        BY <1>3, <1>4, VersionsAreNaturals
      <4>2. p.kind = "STATE" /\ p.version >= announced => received' >= announced'
        BY <1>4, <2>1, <4>1
      <4> QED  BY <1>5, <3>1, <3>3, <4>2 DEF Owed, Prompts
    <3> QED  BY <1>1, <3>1, <3>2, <3>3
  <2> QED  BY <2>1, <2>2, <2>3, <2>4 DEF Owed
<1> QED  BY <1>7, <1>8

-----------------------------------------------------------------------------
(* What the page shows: the snapshot sent last decides.                      *)

\* The snapshot that will arrive last, or the one shown when none is under way, is
\* the newest of those that were sent.
LastIsNewest(s, shows, newest) ==
    \/ shows = newest /\ \A i \in 1..Len(s) : s[i].kind # "STATE"
    \/ \E i \in 1..Len(s) :
         /\ s[i].kind = "STATE" /\ newest <= s[i].version
         /\ \A j \in 1..Len(s) : s[j].kind = "STATE" => j <= i /\ s[j].version <= s[i].version

PageInv == page <= received /\ (~overtaken => LastIsNewest(wire, page, received))

\* Messages that are no snapshots do not matter.
LEMMA OthersAppended ==
    ASSUME NEW s \in Seq(Packet), NEW t \in Seq(Packet), NEW v \in Versions, NEW w \in Versions,
           \A i \in 1..Len(t) : t[i].kind # "STATE", LastIsNewest(s, v, w)
    PROVE  LastIsNewest(s \o t, v, w)
<1>1. /\ Len(s) \in Nat /\ Len(t) \in Nat /\ Len(s \o t) = Len(s) + Len(t)
      /\ \A i \in 1..Len(s) : (s \o t)[i] = s[i]
      /\ \A i \in 1..Len(s \o t) : i > Len(s) => (s \o t)[i] = t[i - Len(s)] /\ i - Len(s) \in 1..Len(t)
    OBVIOUS
<1> DEFINE u == s \o t
<1>2. \A i \in 1..Len(u) : u[i].kind = "STATE" => i \in 1..Len(s) /\ u[i] = s[i]
    BY <1>1
<1>3. \A i \in 1..Len(s) : i \in 1..Len(u) /\ u[i] = s[i]
    BY <1>1
<1> HIDE DEF u
<1>4. CASE v = w /\ \A i \in 1..Len(s) : s[i].kind # "STATE"
    BY <1>2, <1>4 DEF LastIsNewest, u
<1>5. CASE \E i \in 1..Len(s) :
             /\ s[i].kind = "STATE" /\ w <= s[i].version
             /\ \A j \in 1..Len(s) : s[j].kind = "STATE" => j <= i /\ s[j].version <= s[i].version
  <2>1. LastIsNewest(u, v, w)
    BY <1>2, <1>3, <1>5 DEF LastIsNewest
  <2> QED  BY <2>1 DEF u
<1> QED  BY <1>4, <1>5 DEF LastIsNewest

\* A snapshot that overtakes none is the newest.
LEMMA NewestAppended ==
    ASSUME NEW s \in Seq(Packet), NEW b \in Packet, b.kind = "STATE",
           NEW v \in Versions, NEW w \in Versions, w <= b.version,
           \A i \in 1..Len(s) : s[i].kind = "STATE" => s[i].version <= b.version
    PROVE  LastIsNewest(s \o <<b>>, v, w)
<1> DEFINE u == s \o <<b>>  n == Len(s) + 1
<1>1. /\ Len(s) \in Nat /\ Len(u) = n /\ u[n] = b
      /\ \A i \in 1..Len(s) : u[i] = s[i]
    OBVIOUS
<1>2. b.version \in Nat /\ b.version <= b.version
    BY PacketIsNumbered
<1>3. n \in 1..Len(u) /\ \A j \in 1..Len(u) : j <= n /\ (j \in 1..Len(s) \/ j = n)
    BY <1>1
<1> HIDE DEF u, n
<1>4. \A j \in 1..Len(u) : u[j].kind = "STATE" => j <= n /\ u[j].version <= u[n].version
    BY <1>1, <1>2, <1>3
<1>5. LastIsNewest(u, v, w)
    BY <1>1, <1>3, <1>4 DEF LastIsNewest
<1> QED  BY <1>5 DEF u

\* The first message arrives.
LEMMA FirstTaken ==
    ASSUME NEW s \in Seq(Packet), s # <<>>, NEW v \in Versions, NEW w \in Versions,
           LastIsNewest(s, v, w)
    PROVE  /\ Head(s).kind # "STATE" => LastIsNewest(Tail(s), v, w)
           /\ Head(s).kind = "STATE" =>
                LastIsNewest(Tail(s), Head(s).version, Newest(w, Head(s).version))
<1> DEFINE t == Tail(s)  h == Head(s)
<1>1. /\ Len(s) \in Nat \ {0} /\ Len(t) = Len(s) - 1 /\ h = s[1] /\ h \in Packet
      /\ \A j \in 1..Len(t) : t[j] = s[j + 1]
    OBVIOUS
<1>2. h.version \in Nat /\ w \in Nat
    BY <1>1, PacketFacts, VersionsAreNaturals
<1>3. \A j \in 1..Len(t) : j + 1 \in 1..Len(s) /\ t[j] = s[j + 1]
    BY <1>1
<1> HIDE DEF t, h
<1>4. CASE v = w /\ \A i \in 1..Len(s) : s[i].kind # "STATE"
    BY <1>1, <1>3, <1>4 DEF LastIsNewest, t, h
<1>5. CASE \E i \in 1..Len(s) :
             /\ s[i].kind = "STATE" /\ w <= s[i].version
             /\ \A j \in 1..Len(s) : s[j].kind = "STATE" => j <= i /\ s[j].version <= s[i].version
  <2>1. PICK i \in 1..Len(s) :
             /\ s[i].kind = "STATE" /\ w <= s[i].version
             /\ \A j \in 1..Len(s) : s[j].kind = "STATE" => j <= i /\ s[j].version <= s[i].version
    BY <1>5
  \* It is the last snapshot under way.
  <2>2. CASE i = 1
    <3>1. h.kind = "STATE" /\ w <= h.version
      BY <1>1, <2>1, <2>2
    <3>2. \A j \in 1..Len(t) : t[j].kind # "STATE"
      BY <1>3, <2>1, <2>2
    <3>3. Newest(w, h.version) = h.version
      BY <1>2, <3>1 DEF Newest
    <3> QED  BY <3>1, <3>2, <3>3 DEF LastIsNewest, t, h
  \* Another one follows.
  <2>3. CASE i # 1
    <3>1. i - 1 \in 1..Len(t) /\ t[i - 1] = s[i]
      BY <1>1, <1>3, <2>3
    <3>2. \A j \in 1..Len(t) : t[j].kind = "STATE" => j <= i - 1 /\ t[j].version <= s[i].version
      BY <1>3, <2>1
    <3>3. \A x, y \in Nat : y <= s[i].version => LastIsNewest(t, x, y)
      BY <2>1, <3>1, <3>2 DEF LastIsNewest
    <3>4. h.kind = "STATE" => h.version <= s[i].version
      BY <1>1, <2>1
    <3>5. h.kind = "STATE" => Newest(w, h.version) <= s[i].version /\ Newest(w, h.version) \in Nat
      BY <1>2, <2>1, <3>4 DEF Newest
    <3>6. v \in Nat
      BY VersionsAreNaturals
    <3> QED  BY <1>2, <2>1, <3>3, <3>5, <3>6 DEF t, h
  <2> QED  BY <2>2, <2>3
<1> QED  BY <1>4, <1>5 DEF LastIsNewest

\* A step that shows nothing new and sends no snapshot.
LEMMA NoSnapshotKeepsPage ==
    ASSUME MatchFeedInv, PageInv, UNCHANGED pageVars,
           \/ UNCHANGED wire
           \/ \E t \in Seq(Packet) :
                wire' = wire \o t /\ \A i \in 1..Len(t) : t[i].kind # "STATE"
    PROVE  PageInv'
<1>1. wire \in Seq(Packet) /\ page \in Versions /\ received \in Versions
    BY DEF MatchFeedInv, MatchFeedTypeOK
<1>2. CASE UNCHANGED wire
    BY <1>2 DEF PageInv, LastIsNewest, pageVars
<1>3. ASSUME NEW t \in Seq(Packet), wire' = wire \o t, \A i \in 1..Len(t) : t[i].kind # "STATE"
      PROVE  PageInv'
  <2>1. LastIsNewest(wire, page, received) => LastIsNewest(wire', page, received)
    BY <1>1, <1>3, OthersAppended
  <2>2. page' = page /\ received' = received /\ overtaken' = overtaken
    BY DEF pageVars
  <2> QED  BY <2>1, <2>2 DEF PageInv
<1> QED  BY <1>2, <1>3

LEMMA StepsKeepPage == MatchFeedInv /\ PageInv /\ [MatchFeedNext]_mfVars => PageInv'
<1> SUFFICES ASSUME MatchFeedInv, PageInv, [MatchFeedNext]_mfVars PROVE PageInv'
    OBVIOUS
<1>1. /\ wire \in Seq(Packet) /\ page \in Versions /\ received \in Versions
      /\ page \in Nat /\ received \in Nat /\ page <= received
    BY VersionsAreNaturals DEF MatchFeedInv, MatchFeedTypeOK, PageInv
<1>2. ASSUME UNCHANGED <<wire, pageVars>> PROVE PageInv'
    BY <1>2, NoSnapshotKeepsPage
<1>3. ASSUME NEW ms \in Seq(Packet), \A i \in 1..Len(ms) : ms[i].kind # "STATE",
             wire' = wire \/ wire' = wire \o ms, UNCHANGED pageVars
      PROVE  PageInv'
    BY <1>3, NoSnapshotKeepsPage
<1>4. ASSUME NEW m \in Packet, m.kind # "STATE"
      PROVE  <<m>> \in Seq(Packet) /\ \A i \in 1..Len(<<m>>) : <<m>>[i].kind # "STATE"
    BY <1>4
<1>5. ASSUME NEW p \in pending, Publish(p) PROVE PageInv'
  <2>1. CASE p.event = "NONE"
    BY <1>2, <1>5, <2>1 DEF Publish, consoleVars
  <2>2. CASE p.event # "NONE"
    <3>1. p.version \in Versions /\ p.event \in {"EVENT", "RESOLVED"}
      BY <2>2 DEF MatchFeedInv, MatchFeedTypeOK
    <3>2. Plain(p.event, p.version) \in Packet /\ Plain(p.event, p.version).kind # "STATE"
      BY <3>1, PacketFacts
    <3>3. ToRoom(<<Plain(p.event, p.version)>>) /\ UNCHANGED pageVars
      BY <1>5, <2>2 DEF Publish, consoleVars
    <3> QED  BY <1>3, <1>4, <3>2, <3>3 DEF ToRoom
  <2> QED  BY <2>1, <2>2
<1>6. ASSUME NEW b \in building, EmitState(b) PROVE PageInv'
  <2>1. b \in Packet /\ b.kind = "STATE" /\ b.version \in Nat
    BY PacketIsNumbered DEF MatchFeedInv, MatchFeedTypeOK, ClaimsAreCommitted
  <2>2. UNCHANGED <<page, received>>
    BY <1>6 DEF EmitState
  <2>3. CASE b.direct \/ joined
    <3>1. Append(wire, b) = wire \o <<b>>
      BY <1>1, <2>1
    <3>2. wire' = wire \o <<b>> /\ overtaken' = Overtakes(b.version)
      BY <1>6, <2>3, <3>1, Zenon DEF EmitState, ToRoom
    <3>3. ASSUME ~overtaken' PROVE LastIsNewest(wire', page, received)
      <4>1. /\ ~(b.version < received)
            /\ \A i \in 1..Len(wire) : wire[i].kind = "STATE" => ~(b.version < wire[i].version)
        BY <3>2, <3>3 DEF Overtakes
      <4>2. \A i \in 1..Len(wire) : wire[i].version \in Nat
        <5> TAKE i \in 1..Len(wire)
        <5>1. wire[i] \in Packet
          BY <1>1
        <5> QED  BY <5>1, PacketIsNumbered
      <4>3. received <= b.version
        BY <1>1, <2>1, <4>1
      <4>4. \A i \in 1..Len(wire) : wire[i].kind = "STATE" => wire[i].version <= b.version
        BY <2>1, <4>1, <4>2
      <4> QED  BY <1>1, <2>1, <3>2, <4>3, <4>4, NewestAppended
    <3> QED  BY <1>1, <2>2, <3>3 DEF PageInv
  <2>4. CASE ~(b.direct \/ joined)
    BY <1>2, <1>6, <2>4 DEF EmitState, ToRoom, pageVars
  <2> QED  BY <2>3, <2>4
<1>7. CASE Offline
  <2>1. /\ UNCHANGED <<page, received>> /\ Len(wire') = 0
        /\ overtaken' = (page < received)
    BY <1>7 DEF Offline
  <2>2. ~(page < received) => page = received
    BY <1>1
  <2>3. ~overtaken' => page = received
    BY <2>1, <2>2, Zenon
  <2>4. page = received => LastIsNewest(wire', page', received')
    BY <2>1 DEF LastIsNewest
  <2> QED  BY <1>1, <2>1, <2>3, <2>4 DEF PageInv
<1>8. CASE BroadcastPresence
  <2>1. Plain("PRESENCE", 0) \in Packet /\ Plain("PRESENCE", 0).kind # "STATE"
    BY PacketFacts, VersionsAreNaturals
  <2>2. ToRoom(<<Plain("PRESENCE", 0)>>) /\ UNCHANGED pageVars
    BY <1>8 DEF BroadcastPresence, Welcome, consoleVars
  <2> QED  BY <1>3, <1>4, <2>1, <2>2 DEF ToRoom
<1>9. ASSUME NEW k \in Submissions,
             \/ SubmitVote(k) \/ CommitVote(k) \/ RefuseVote(k)
             \/ AnswerVote(k) \/ AnswerFails(k) \/ AnswerTimesOut(k)
      PROVE  PageInv'
  <2>1. /\ Reply("FAILED", k) \in Packet /\ Reply("FAILED", k).kind # "STATE"
        /\ Reply("OK", k) \in Packet /\ Reply("OK", k).kind # "STATE"
        /\ Plain("ACCEPTED", 0) \in Packet /\ Plain("ACCEPTED", 0).kind # "STATE"
    BY PacketFacts, VersionsAreNaturals
  <2>2. Recorded(k) \in Seq(Packet) /\ \A i \in 1..Len(Recorded(k)) : Recorded(k)[i].kind # "STATE"
    BY <2>1 DEF Recorded
  <2>3. /\ UNCHANGED pageVars
        /\ wire' = wire \/ wire' = wire \o <<Reply("FAILED", k)>> \/ wire' = wire \o Recorded(k)
    BY <1>9 DEF SubmitVote, CommitVote, RefuseVote, AnswerVote, AnswerFails, AnswerTimesOut,
                ToSocket, consoleVars
  <2> QED  BY <1>3, <1>4, <2>1, <2>2, <2>3
<1>10. CASE Receive
  <2> DEFINE p == Head(wire)
  <2>1. /\ wire # <<>> /\ wire' = Tail(wire) /\ overtaken' = overtaken
        /\ p.kind = "STATE" => page' = p.version /\ received' = Newest(received, p.version)
        /\ p.kind # "STATE" => UNCHANGED <<page, received>>
    BY <1>10 DEF Receive, OnState, OnEvent, OnAccepted, OnAnswer
  <2>2. p.version \in Nat
    <3>1. p \in Packet
      BY <1>1, <2>1
    <3> QED  BY <3>1, PacketIsNumbered
  <2>3. page' <= received'
    BY <1>1, <2>1, <2>2 DEF Newest
  <2>4. LastIsNewest(wire, page, received) => LastIsNewest(wire', page', received')
    BY <1>1, <2>1, FirstTaken
  <2> QED  BY <2>1, <2>3, <2>4 DEF PageInv
<1>11. CASE UNCHANGED mfVars
    BY <1>2, <1>11 DEF mfVars, consoleVars
<1>12. CASE OtherCommits("EVENT") \/ OtherCommits("NONE") \/ WindowResolves
    BY <1>2, <1>12 DEF OtherCommits, WindowResolves, consoleVars
<1>13. CASE (\E b \in building : PublicationFails(b)) \/ Online \/ EnterMatch \/ AnswerRequest
    BY <1>2, <1>13 DEF PublicationFails, Online, EnterMatch, AnswerRequest, consoleVars
<1> QED  BY <1>5, <1>6, <1>7, <1>8, <1>9, <1>10, <1>11, <1>12, <1>13 DEF MatchFeedNext

\* A console in the room has received a snapshot of everything that was announced
\* there, whatever was announced between its first snapshot and its joining; and it
\* shows it, unless the snapshot that was sent last had been read before one sent
\* earlier (handleMatchState).
THEOREM ConsolesCatchUp == MatchFeedSpec => []SubscribedConsoleHasTheNewest
<1>1. MatchFeedInit => MatchFeedInv
  <2> SUFFICES ASSUME MatchFeedInit PROVE MatchFeedInv
    OBVIOUS
  <2>1. <<>> \in Seq(Packet)
    OBVIOUS
  <2>2. MatchFeedTypeOK
    BY <2>1, VersionsAreNaturals DEF MatchFeedInit, MatchFeedTypeOK
  <2>3. ClaimsAreCommitted
    BY DEF MatchFeedInit, ClaimsAreCommitted
  <2> QED  BY <2>2, <2>3 DEF MatchFeedInit, MatchFeedInv, Entering, CatchesUp
<1>2. MatchFeedInv /\ [MatchFeedNext]_mfVars => MatchFeedInv'
  <2> SUFFICES ASSUME MatchFeedInv, [MatchFeedNext]_mfVars PROVE MatchFeedInv'
    OBVIOUS
  <2>1. CASE UNCHANGED mfVars
    BY <2>1 DEF mfVars, consoleVars, pageVars, voteVars, MatchFeedInv, MatchFeedTypeOK,
                ClaimsAreCommitted, Entering, CatchesUp, Owed, Answers, Prompts
  <2>2. CASE MatchFeedNext
    BY <2>2, CommitsKeepConsole, PublicationKeepsConsole, EmissionKeepsConsole, RoomKeepsConsole,
       VotesKeepConsole, ReceptionKeepsConsole DEF MatchFeedNext
  <2> QED  BY <2>1, <2>2
<1>3. MatchFeedInit => PageInv
  <2> SUFFICES ASSUME MatchFeedInit PROVE PageInv
    OBVIOUS
  <2>1. page = 0 /\ received = 0 /\ Len(wire) = 0
    BY DEF MatchFeedInit
  <2> QED  BY <2>1 DEF PageInv, LastIsNewest
<1>4. MatchFeedInv /\ PageInv => SubscribedConsoleHasTheNewest
  <2> SUFFICES ASSUME MatchFeedInv, PageInv, Quiet, online, joined
               PROVE  received >= announced /\ (~overtaken => page >= announced)
    BY DEF SubscribedConsoleHasTheNewest
  <2>1. UnderWay(wire) = {} /\ Len(wire) = 0
    BY DEF UnderWay, Quiet
  <2>2. received >= announced
    BY <2>1 DEF MatchFeedInv, CatchesUp, Owed, Quiet
  <2>3. ~overtaken => page = received
    BY <2>1 DEF PageInv, LastIsNewest
  <2> QED  BY <2>2, <2>3
<1> QED  BY <1>1, <1>2, <1>3, <1>4, StepsKeepPage, PTL DEF MatchFeedSpec

-----------------------------------------------------------------------------
(* The assignment feed: what makes RetiredStaysRetired hold.                 *)

\* Only seats are retired: an exit is answered with the seat that was left.
RetiredInv ==
    /\ seat \in Assignment /\ given \in Nat
    /\ posts \subseteq Message /\ \A p \in posts : p.kind # "EXITED"
    /\ reads \subseteq ReadType
    /\ down \in Seq(Message)
    /\ \A p \in UnderWay(down) : p.kind = "EXITED" => p.val # NoSeat
    /\ NoSeat \notin retired

LEMMA MessageFacts ==
    ASSUME NEW a \in Assignment, NEW k \in {"SNAPSHOT", "UPDATED", "RELEASED", "EXITED"}
    PROVE  Msg(k, a) \in Message /\ Msg(k, a).kind = k /\ Msg(k, a).val = a /\ NoSeat \in Assignment
  BY DEF Msg, Message, Assignment

\* What is published for a commit answers no exit.
LEMMA PublishedFacts ==
    ASSUME NEW p \in Message, p.kind # "EXITED"
    PROVE  Published(p) \in Seq(Message) /\ \A q \in UnderWay(Published(p)) : q.kind # "EXITED"
<1>1. Msg("UPDATED", NoSeat) \in Message /\ Msg("UPDATED", NoSeat).kind = "UPDATED"
    BY MessageFacts DEF Assignment
<1> QED  BY <1>1, UnderWayShort DEF Published

\* Messages that answer exits from seats only may be sent.
LEMMA SendKeepsRetired ==
    ASSUME RetiredInv, NEW ms \in Seq(Message), Send(ms),
           \A q \in UnderWay(ms) : q.kind = "EXITED" => q.val # NoSeat
    PROVE  /\ down' \in Seq(Message)
           /\ \A p \in UnderWay(down') : p.kind = "EXITED" => p.val # NoSeat
  BY MessagesAppended DEF Send, RetiredInv

LEMMA ServerKeepsRetired ==
    ASSUME RetiredInv,
           \/ TakeSeat \/ LoseSeat \/ ExitOwnMatch
           \/ \E p \in posts : Post(p) \/ PostFails(p)
    PROVE  RetiredInv' /\ UNCHANGED shown
<1>1. CASE TakeSeat
  <2>1. given + 1 \in Assignment /\ given + 1 \in Nat
    BY <1>1, AssignmentFeedAssumption DEF RetiredInv, TakeSeat, Assignment, Seats
  <2>2. Msg("UPDATED", given + 1) \in Message /\ Msg("UPDATED", given + 1).kind = "UPDATED"
    BY <2>1, MessageFacts
  <2> QED  BY <1>1, <2>1, <2>2 DEF RetiredInv, TakeSeat, feedClient
<1>2. CASE LoseSeat
  <2>1. Msg("RELEASED", seat) \in Message /\ Msg("RELEASED", seat).kind = "RELEASED"
    BY MessageFacts DEF RetiredInv
  <2> QED  BY <1>2, <2>1 DEF RetiredInv, LoseSeat, Assignment, feedClient
<1>3. CASE ExitOwnMatch
  <2> DEFINE answer == Msg("EXITED", seat)
             left == Msg("RELEASED", seat)
  <2>1. /\ answer \in Message /\ answer.val # NoSeat
        /\ left \in Message /\ left.kind # "EXITED"
    BY <1>3, MessageFacts DEF RetiredInv, ExitOwnMatch
  <2>2. PICK ms \in {Published(left), <<>>} : Send(ms \o <<answer>>)
    BY <1>3 DEF ExitOwnMatch
  <2> HIDE DEF answer, left
  <2>3. <<answer>> \in Seq(Message) /\ UnderWay(<<answer>>) = {answer}
    BY <2>1, UnderWayShort
  <2>4. ms \in Seq(Message) /\ \A q \in UnderWay(ms) : q.kind # "EXITED"
    <3>1. <<>> \in Seq(Message) /\ UnderWay(<<>>) = {}
      BY DEF UnderWay
    <3> QED  BY <2>1, <2>2, <3>1, PublishedFacts
  <2>5. /\ ms \o <<answer>> \in Seq(Message)
        /\ \A q \in UnderWay(ms \o <<answer>>) : q.kind = "EXITED" => q.val # NoSeat
    BY <2>1, <2>3, <2>4, MessagesAppended
  <2>6. /\ down' \in Seq(Message)
        /\ \A p \in UnderWay(down') : p.kind = "EXITED" => p.val # NoSeat
    BY <2>2, <2>5, SendKeepsRetired
  <2> QED  BY <1>3, <2>6 DEF RetiredInv, ExitOwnMatch, Assignment, feedClient
<1>4. CASE \E p \in posts : Post(p) \/ PostFails(p)
  <2>1. PICK p \in posts : Post(p) \/ PostFails(p)
    BY <1>4
  <2>2. CASE Post(p)
    <3>1. Published(p) \in Seq(Message) /\ \A q \in UnderWay(Published(p)) : q.kind # "EXITED"
      BY PublishedFacts DEF RetiredInv
    <3>2. /\ down' \in Seq(Message)
          /\ \A q \in UnderWay(down') : q.kind = "EXITED" => q.val # NoSeat
      BY <2>2, <3>1, SendKeepsRetired DEF Post
    <3> QED  BY <2>2, <3>2 DEF RetiredInv, Post, feedClient
  <2>3. CASE PostFails(p)
    BY <2>3 DEF RetiredInv, PostFails, feedClient
  <2> QED  BY <2>1, <2>2, <2>3
<1> QED  BY <1>1, <1>2, <1>3, <1>4

LEMMA SocketKeepsRetired ==
    ASSUME RetiredInv, OnConnect \/ OnDisconnect \/ Revoke \/ \E r \in reads : EmitSnapshot(r)
    PROVE  RetiredInv' /\ shown' \in {shown, NoSeat}
<1>1. <<>> \in Seq(Message) /\ UnderWay(<<>>) = {}
    BY DEF UnderWay
<1>2. CASE OnConnect
    BY <1>2 DEF RetiredInv, OnConnect, ReadType, feedServer
<1>3. CASE OnDisconnect \/ Revoke
    BY <1>1, <1>3 DEF RetiredInv, OnDisconnect, Revoke, feedServer, feedClient
<1>4. CASE \E r \in reads : EmitSnapshot(r)
  <2>1. PICK r \in reads : EmitSnapshot(r)
    BY <1>4
  <2> DEFINE snap == Msg("SNAPSHOT", r.val)
  <2>2. snap \in Message /\ snap.kind = "SNAPSHOT"
    BY MessageFacts DEF RetiredInv, ReadType
  <2>3. down' = Append(down, snap)
    BY <2>1 DEF EmitSnapshot
  <2> HIDE DEF snap
  <2>4. <<snap>> \in Seq(Message) /\ UnderWay(<<snap>>) = {snap} /\ down \in Seq(Message)
    BY <2>2, UnderWayShort DEF RetiredInv
  <2>5. down' = down \o <<snap>>
    BY <2>3, <2>4
  <2>6. down' \in Seq(Message) /\ UnderWay(down') = UnderWay(down) \cup {snap}
    BY <2>4, <2>5, MessagesAppended
  <2> QED  BY <2>1, <2>2, <2>6 DEF RetiredInv, EmitSnapshot, feedServer, feedClient
<1> QED  BY <1>2, <1>3, <1>4

\* A message shows nothing that was retired before it.
LEMMA DeliveryKeepsRetired ==
    ASSUME RetiredInv, Deliver
    PROVE  RetiredInv' /\ (shown' # shown => shown' \notin retired)
<1> DEFINE p == Head(down)
<1>1. /\ p \in Message /\ Tail(down) \in Seq(Message)
      /\ UnderWay(down) = {p} \cup UnderWay(Tail(down))
    BY UnderWayTail DEF RetiredInv, Deliver
<1>2. /\ down' = Tail(down) /\ UNCHANGED <<feedServer, link, reads, query>>
      /\ \/ OnSnapshot(p.val) \/ OnUpdated(p.val) \/ OnReleased(p.val)
         \/ p.kind = "EXITED" /\ AcknowledgeAssignmentRelease(p.val)
    BY DEF Deliver
<1> HIDE DEF p
<1>3. NoSeat \notin retired' /\ (shown' # shown => shown' \notin retired)
    BY <1>1, <1>2
    DEF RetiredInv, OnSnapshot, OnUpdated, OnReleased, AcknowledgeAssignmentRelease,
        Received, Apply, Accepts, Throws
<1> QED  BY <1>1, <1>2, <1>3 DEF RetiredInv, feedServer

LEMMA RequestsKeepRetired ==
    ASSUME RetiredInv,
           \/ Reconcile \/ ReconcileAnswered \/ RequestFails \/ Reconciled
           \/ AskSession \/ SessionAnswered \/ SessionShown
    PROVE  RetiredInv' /\ (shown' # shown => shown' \notin retired \/ SessionShown)
<1>1. UNCHANGED <<feedServer, reads, down, retired>>
    BY DEF Reconcile, ReconcileAnswered, RequestFails, Reconciled, AskSession,
           SessionAnswered, SessionShown
<1>2. shown' # shown => shown' \notin retired \/ SessionShown
    BY DEF RetiredInv, Reconcile, ReconcileAnswered, RequestFails, Reconciled, AskSession,
           SessionAnswered, Accepts
<1> QED  BY <1>1, <1>2 DEF RetiredInv, feedServer

\* Once the official's exit was answered, no delayed message and no
\* reconciliation brings the old assignment back; only the session query of the
\* page, which does not look at what is retired, can.
THEOREM RetirementHolds == FeedSpec => RetiredStaysRetired
<1> DEFINE Step == shown' # shown /\ shown' \in retired => SessionShown
<1>1. FeedInit => RetiredInv
  <2> SUFFICES ASSUME FeedInit PROVE RetiredInv
    OBVIOUS
  <2>1. <<>> \in Seq(Message) /\ UnderWay(<<>>) = {}
    BY DEF UnderWay
  <2> QED  BY <2>1 DEF FeedInit, RetiredInv, Assignment
<1>2. RetiredInv /\ [FeedNext]_feedVars => RetiredInv' /\ [Step]_feedVars
  <2> SUFFICES ASSUME RetiredInv, [FeedNext]_feedVars PROVE RetiredInv' /\ [Step]_feedVars
    OBVIOUS
  <2>1. CASE UNCHANGED feedVars
    BY <2>1 DEF RetiredInv, feedVars
  <2>2. CASE FeedNext
    <3>1. NoSeat \notin retired
      BY DEF RetiredInv
    <3> QED  BY <2>2, <3>1, ServerKeepsRetired, SocketKeepsRetired, DeliveryKeepsRetired,
                RequestsKeepRetired DEF FeedNext
  <2> QED  BY <2>1, <2>2
<1> QED  BY <1>1, <1>2, PTL DEF FeedSpec, RetiredStaysRetired
=============================================================================
