--------------------------- MODULE AssignmentFeed ---------------------------
(***************************************************************************)
(* How the browser of one official learns which assignment it has           *)
(* (official-realtime.ts).  Four sources tell it: messages of the official's *)
(* socket, the answer to its own exit command, an HTTP reconciliation every  *)
(* 12 seconds and the session query of the page.  None carries a version;    *)
(* the client orders them by epochs and by remembering what it has retired.  *)
(*                                                                          *)
(* The server reads the assignment and emits it in two steps, and what it    *)
(* emits while the socket is away is lost.                                   *)
(***************************************************************************)
EXTENDS Naturals, Sequences

CONSTANTS
    MaxSeats,       \* assignments the official is given, one after the other
    MaxQueue        \* messages under way to the browser

ASSUME AssignmentFeedAssumption == MaxSeats \in Nat \ {0} /\ MaxQueue \in Nat \ {0}

NoSeat == 0
Seats == 1..MaxSeats
Assignment == Seats \cup {NoSeat}

Message == [kind : {"SNAPSHOT", "UPDATED", "RELEASED", "EXITED"}, val : Assignment]
Msg(kind, a) == [kind |-> kind, val |-> a]
ReadType == [joins : BOOLEAN, val : Assignment]
\* state of a request for the session: its answer, and whether no event was
\* applied since it was sent
Request == [stage : {"IDLE", "SENT", "ANSWERED"}, val : Assignment, current : BOOLEAN]
Idle == [stage |-> "IDLE", val |-> NoSeat, current |-> FALSE]

VARIABLES
    seat,       \* the unreleased assignment in the database
    given,      \* assignments given so far
    posts,      \* commits whose publication is still to come
    link,       \* of the socket: DOWN, UP (connected), OPEN (in its rooms), REVOKED
    reads,      \* snapshots read by handlers of the socket, not emitted yet
    down,       \* messages under way
    shown,      \* the assignment the page renders (and keeps in its query cache)
    retired,    \* releasedAssignmentIds
    moved,      \* assignmentEventEpoch > 0
    http,       \* reconcile
    query       \* session query of the page

feedServer == <<seat, given, posts>>
feedClient == <<shown, retired, moved, http, query>>
feedVars == <<seat, given, posts, link, reads, down, shown, retired, moved, http, query>>

FeedTypeOK ==
    /\ seat \in Assignment /\ given \in 0..MaxSeats
    /\ posts \subseteq Message
    /\ link \in {"DOWN", "UP", "OPEN", "REVOKED"}
    /\ reads \subseteq ReadType
    /\ down \in Seq(Message)
    /\ shown \in Assignment /\ retired \subseteq Seats /\ moved \in BOOLEAN
    /\ http \in Request /\ query \in Request

FeedInit ==
    /\ seat = NoSeat /\ given = 0 /\ posts = {}
    /\ link = "DOWN" /\ reads = {} /\ down = <<>>
    /\ shown = NoSeat /\ retired = {} /\ moved = FALSE
    /\ http = Idle /\ query = Idle

-----------------------------------------------------------------------------
(* The server.                                                              *)

\* take commits; publishCommitted follows.
TakeSeat ==
    /\ seat = NoSeat /\ given < MaxSeats
    /\ seat' = given + 1 /\ given' = given + 1
    /\ posts' = posts \cup {Msg("UPDATED", given + 1)}
    /\ UNCHANGED <<link, reads, down, feedClient>>

\* A transition or a release by somebody else; publishReleased follows.
LoseSeat ==
    /\ seat # NoSeat
    /\ seat' = NoSeat
    /\ posts' = posts \cup {Msg("RELEASED", seat)}
    /\ UNCHANGED <<given, link, reads, down, feedClient>>

Room(n) == Len(down) + n <= MaxQueue
Send(ms) == down' = IF link = "OPEN" THEN down \o ms ELSE down

\* What is published for a commit: a release is followed by an empty assignment
\* in the official's private room.
Published(p) ==
    IF p.kind = "RELEASED" THEN <<p, Msg("UPDATED", NoSeat)>> ELSE <<p>>

Post(p) ==
    /\ p \in posts /\ Room(2)
    /\ posts' = posts \ {p}
    /\ Send(Published(p))
    /\ UNCHANGED <<seat, given, link, reads, feedClient>>

\* safePublish: a publication that fails, or whose process died, is not repeated.
PostFails(p) ==
    /\ p \in posts
    /\ posts' = posts \ {p}
    /\ UNCHANGED <<seat, given, link, reads, down, feedClient>>

\* exitMatch by this official as supervisor: commit, publication (which may
\* fail), answer.
ExitOwnMatch ==
    /\ seat # NoSeat /\ shown = seat /\ link = "OPEN" /\ Room(3)
    /\ seat' = NoSeat
    /\ \E ms \in {Published(Msg("RELEASED", seat)), <<>>} :
         Send(ms \o <<Msg("EXITED", seat)>>)
    /\ UNCHANGED <<given, posts, link, reads, feedClient>>

-----------------------------------------------------------------------------
(* The socket.                                                              *)

\* reconcile: one at a time; a request remembers the epoch it started in.
Started == IF http.stage = "IDLE" THEN [Idle EXCEPT !.stage = "SENT", !.current = TRUE]
           ELSE http

\* onConnect asks for a snapshot and for a reconciliation; connectOfficial reads
\* one more snapshot by itself.
OnConnect ==
    /\ link = "DOWN"
    /\ link' = "UP"
    /\ reads' = reads \cup {[joins |-> j, val |-> seat] : j \in BOOLEAN}
    /\ http' = Started
    /\ UNCHANGED <<feedServer, down, shown, retired, moved, query>>

\* The snapshot is emitted; the one of connectOfficial after joining the rooms.
EmitSnapshot(r) ==
    /\ r \in reads /\ link \in {"UP", "OPEN"} /\ Room(1)
    /\ reads' = reads \ {r}
    /\ link' = IF r.joins THEN "OPEN" ELSE link
    /\ down' = Append(down, Msg("SNAPSHOT", r.val))
    /\ UNCHANGED <<feedServer, feedClient>>

OnDisconnect ==
    /\ link \in {"UP", "OPEN"}
    /\ link' = "DOWN"
    /\ reads' = {} /\ down' = <<>>
    /\ UNCHANGED <<feedServer, feedClient>>

\* SESSION_REVOKED, or a reconciliation answered with 401.
Revoke ==
    /\ link # "REVOKED"
    /\ link' = "REVOKED"
    /\ reads' = {} /\ down' = <<>>
    /\ shown' = NoSeat /\ http' = Idle /\ query' = Idle
    /\ UNCHANGED <<feedServer, retired, moved>>

-----------------------------------------------------------------------------
(* The browser.                                                             *)

\* Mutant: a retired assignment is not remembered.
AcceptsAny(a) == TRUE

\* apply refuses what the official's own exit has retired.
Accepts(a) == a = NoSeat \/ a \notin retired

\* apply: an accepted assignment starts a new epoch.
Apply(a) ==
    /\ shown' = IF Accepts(a) THEN a ELSE shown
    /\ http' = [http EXCEPT !.current = @ /\ ~Accepts(a)]

\* Nothing is applied: assignmentFromSnapshot has no mapping for the status of
\* a match in appeal, overtime or publication, and throws.
Throws == UNCHANGED <<shown, http>>
Received(a) == Apply(a) \/ (a # NoSeat /\ Throws)

OnSnapshot(a) ==
    /\ IF moved THEN UNCHANGED <<shown, http>> ELSE Received(a)
    /\ UNCHANGED <<retired, moved>>

OnUpdated(a) ==
    /\ moved' = TRUE
    /\ Received(a)
    /\ UNCHANGED retired

\* The released seat is the one shown, or another seat in the same match: the
\* handler compares match ids.
OnReleased(a) ==
    /\ \/ shown # a /\ UNCHANGED <<shown, http, moved>>
       \/ shown # NoSeat /\ moved' = TRUE /\ Apply(NoSeat)
    /\ UNCHANGED retired

AcknowledgeAssignmentRelease(a) ==
    IF shown # a THEN UNCHANGED <<shown, http, moved, retired>>
    ELSE /\ retired' = retired \cup {a}
         /\ shown' = NoSeat /\ moved' = TRUE
         /\ http' = [http EXCEPT !.current = FALSE]

Deliver ==
    /\ down # <<>>
    /\ down' = Tail(down)
    /\ LET p == Head(down) IN
       \/ p.kind = "SNAPSHOT" /\ OnSnapshot(p.val)
       \/ p.kind = "UPDATED" /\ OnUpdated(p.val)
       \/ p.kind = "RELEASED" /\ OnReleased(p.val)
       \/ p.kind = "EXITED" /\ AcknowledgeAssignmentRelease(p.val)
    /\ UNCHANGED <<feedServer, link, reads, query>>

\* The interval of 12 seconds, or the window got the focus.
Reconcile ==
    /\ link # "REVOKED" /\ http.stage = "IDLE"
    /\ http' = Started
    /\ UNCHANGED <<feedServer, link, reads, down, shown, retired, moved, query>>

ReconcileAnswered ==
    /\ http.stage = "SENT"
    /\ http' = [http EXCEPT !.stage = "ANSWERED", !.val = seat]
    /\ UNCHANGED <<feedServer, link, reads, down, shown, retired, moved, query>>

\* A transient failure keeps what is shown.
RequestFails ==
    /\ \/ http.stage = "SENT" /\ http' = Idle /\ UNCHANGED query
       \/ query.stage = "SENT" /\ query' = Idle /\ UNCHANGED http
    /\ UNCHANGED <<feedServer, link, reads, down, shown, retired, moved>>

\* Mutant: a reconciliation yields to the socket once the socket has spoken.
UsableUntilMoved(r) == r.current /\ ~moved

\* A reconciliation is dropped when an event was applied since it started.
Usable(r) == r.current

Reconciled ==
    /\ http.stage = "ANSWERED"
    /\ shown' = IF Usable(http) /\ Accepts(http.val) THEN http.val ELSE shown
    /\ http' = Idle
    /\ UNCHANGED <<feedServer, link, reads, down, retired, moved, query>>

\* The page's session query (network back, or the answer to its own take).
AskSession ==
    /\ link # "REVOKED" /\ query.stage = "IDLE"
    /\ query' = [Idle EXCEPT !.stage = "SENT"]
    /\ UNCHANGED <<feedServer, link, reads, down, shown, retired, moved, http>>

SessionAnswered ==
    /\ query.stage = "SENT"
    /\ query' = [query EXCEPT !.stage = "ANSWERED", !.val = seat]
    /\ UNCHANGED <<feedServer, link, reads, down, shown, retired, moved, http>>

\* The effect on session.activeAssignment sets whatever the query brought.
SessionShown ==
    /\ query.stage = "ANSWERED"
    /\ shown' = query.val
    /\ query' = Idle
    /\ UNCHANGED <<feedServer, link, reads, down, retired, moved, http>>

-----------------------------------------------------------------------------
FeedNext ==
    \/ TakeSeat \/ LoseSeat \/ ExitOwnMatch
    \/ \E p \in posts : Post(p) \/ PostFails(p)
    \/ OnConnect \/ OnDisconnect \/ Revoke
    \/ \E r \in reads : EmitSnapshot(r)
    \/ Deliver
    \/ Reconcile \/ ReconcileAnswered \/ RequestFails \/ Reconciled
    \/ AskSession \/ SessionAnswered \/ SessionShown

\* The browser runs its interval timer, and the API is not unreachable for ever.
\* Nothing is asked of the socket.
FeedFairness ==
    WF_feedVars(Reconcile) /\ SF_feedVars(ReconcileAnswered) /\ WF_feedVars(Reconciled)

FeedSpec == FeedInit /\ [][FeedNext]_feedVars /\ FeedFairness

-----------------------------------------------------------------------------
(* Properties.                                                              *)

\* Once the official's exit was answered, no delayed message and no
\* reconciliation brings the old assignment back; only the session query of the
\* page, which does not look at what is retired, can.
RetiredStaysRetired ==
    [][shown' # shown /\ shown' \in retired => SessionShown]_feedVars

\* When the assignment no longer changes and the session is not revoked, the page
\* comes to show it, whatever was lost, late, unreadable or out of order before.
AssignmentConverges ==
    \A a \in Assignment :
        <>[](seat = a /\ link # "REVOKED") => <>[](shown = a)
=============================================================================
