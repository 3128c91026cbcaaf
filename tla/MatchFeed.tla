------------------------------ MODULE MatchFeed ------------------------------
(***************************************************************************)
(* How the console of one official follows its match (match-realtime.ts and *)
(* the handlers of realtime.gateway.ts).  Commits are numbered.  After a     *)
(* commit the gateway emits an event to the match room and then a snapshot;  *)
(* the console asks for a snapshot of its own whenever it connects, hears an *)
(* event or hears that somebody's presence changed.  Handlers of one socket  *)
(* run side by side, and what is sent to a room reaches only its members.    *)
(* The page shows the snapshot that arrives last, which need not be the      *)
(* newest: a snapshot is read and then emitted.                              *)
(*                                                                          *)
(* A judge's submission is awaited for ten seconds; the button is kept while *)
(* one is in flight, but a message of the match may free it while an earlier *)
(* submission is still at the server.  An accepted vote stays locked until   *)
(* its window is resolved.  The console is followed from the moment it is on *)
(* the page until it goes.                                                   *)
(***************************************************************************)
EXTENDS Naturals, Sequences, FiniteSets

CONSTANTS
    MaxCommits,     \* commits of the match
    MaxDown,        \* messages under way to the browser
    MaxReads,       \* snapshots read and not emitted yet
    MaxVotes        \* submissions of the judge in flight

ASSUME MatchFeedAssumption ==
    MaxCommits \in Nat \ {0} /\ MaxDown \in Nat \ {0} /\ MaxReads \in Nat \ {0} /\ MaxVotes \in Nat

Versions == 0..MaxCommits
Submissions == 1..MaxVotes
\* A snapshot carries the version it was read at; the ones built for this socket
\* carry its accepted vote, too.
Snapshot(v, vote, direct) ==
    [kind |-> "STATE", version |-> v, vote |-> vote, direct |-> direct, of |-> 0]
Plain(kind, v) == [kind |-> kind, version |-> v, vote |-> FALSE, direct |-> FALSE, of |-> 0]
\* The acknowledgement of submission k.
Reply(kind, k) == [kind |-> kind, version |-> 0, vote |-> FALSE, direct |-> FALSE, of |-> k]
Packet == [kind : {"STATE", "EVENT", "RESOLVED", "PRESENCE", "ACCEPTED", "OK", "FAILED"},
           version : Versions, vote : BOOLEAN, direct : BOOLEAN, of : 0..MaxVotes]

VARIABLES
    version,    \* newest commit
    voted,      \* this judge's vote is recorded in the open scoring window
    pending,    \* commits to be published: their event and snapshot
    building,   \* snapshots read and not emitted yet
    announced,  \* newest commit that anything emitted to the room stands for
    online,     \* the socket is connected
    joined,     \* it is in the match room
    entry,      \* MATCH_PRESENCE_ENTER: "NONE", "SENT", "JOINED"
    wire,       \* messages under way to the browser
    asked,      \* MATCH_STATE_REQUEST is under way
    page,       \* the commit the page shows: setSnapshot of the last message
    received,   \* history: newest commit in a snapshot that has arrived
    overtaken,  \* history: the snapshot sent last is older than one sent before it
    submission, \* each submission: its stage at the server, and whether the browser
                \* waits for its answer
    sending,    \* voteSubmissionInFlightRef
    locked      \* acceptedVoteRef is set

matchVars == <<version, voted>>
roomVars == <<pending, building, announced>>
socketVars == <<online, joined, entry>>
pageVars == <<page, received, overtaken>>
consoleVars == <<asked, pageVars>>
voteVars == <<submission, sending, locked>>
mfVars == <<version, voted, pending, building, announced, online, joined, entry,
            wire, consoleVars, voteVars>>

MatchFeedTypeOK ==
    /\ version \in Versions /\ voted \in BOOLEAN
    /\ pending \subseteq [version : Versions, event : {"EVENT", "RESOLVED", "NONE"}]
    /\ building \subseteq Packet /\ announced \in Versions
    /\ online \in BOOLEAN /\ joined \in BOOLEAN
    /\ entry \in {"NONE", "SENT", "JOINED"}
    /\ wire \in Seq(Packet)
    /\ asked \in BOOLEAN /\ overtaken \in BOOLEAN
    /\ page \in Versions /\ received \in Versions
    /\ submission \in [Submissions -> [stage : {"NONE", "SENT", "COMMITTED"}, awaited : BOOLEAN]]
    /\ sending \in BOOLEAN /\ locked \in BOOLEAN

MatchFeedInit ==
    /\ version = 0 /\ voted = FALSE
    /\ pending = {} /\ building = {} /\ announced = 0
    /\ online = FALSE /\ joined = FALSE /\ entry = "NONE"
    /\ wire = <<>> /\ asked = FALSE /\ page = 0 /\ received = 0 /\ overtaken = FALSE
    /\ submission = [k \in Submissions |-> [stage |-> "NONE", awaited |-> FALSE]]
    /\ sending = FALSE /\ locked = FALSE

Newest(v, w) == IF v > w THEN v ELSE w
Fits(n) == Len(wire) + n <= MaxDown
MayRead == Cardinality(building) < MaxReads
ToRoom(ms) == wire' = IF joined THEN wire \o ms ELSE wire
\* A snapshot of commit v, sent now, comes after a newer one.
Overtakes(v) ==
    \/ v < received
    \/ \E i \in 1..Len(wire) : wire[i].kind = "STATE" /\ v < wire[i].version

-----------------------------------------------------------------------------
(* Commits of others and their publication.                                 *)

\* Any other actor commits: with an event for the console or, like publishing a
\* result, with a snapshot only.
OtherCommits(event) ==
    /\ version < MaxCommits
    /\ version' = version + 1
    /\ pending' = pending \cup {[version |-> version + 1, event |-> event]}
    /\ UNCHANGED <<voted, building, announced, socketVars, wire, consoleVars, voteVars>>

\* The window is resolved; no vote of the next one is recorded yet.
WindowResolves ==
    /\ version < MaxCommits
    /\ version' = version + 1
    /\ voted' = FALSE
    /\ pending' = pending \cup {[version |-> version + 1, event |-> "RESOLVED"]}
    /\ UNCHANGED <<building, announced, socketVars, wire, consoleVars, voteVars>>

\* The gateway emits the event and reads the snapshot.
Publish(p) ==
    /\ p \in pending /\ Fits(1) /\ MayRead
    /\ pending' = pending \ {p}
    /\ \/ p.event # "NONE" /\ ToRoom(<<Plain(p.event, p.version)>>)
          /\ announced' = Newest(announced, p.version)
       \/ p.event = "NONE" /\ UNCHANGED <<wire, announced>>
    /\ building' = building \cup {Snapshot(version, FALSE, FALSE)}
    /\ UNCHANGED <<matchVars, socketVars, consoleVars, voteVars>>

\* broadcastMatchState and the answer to MATCH_STATE_REQUEST.
EmitState(b) ==
    /\ b \in building /\ Fits(1)
    /\ building' = building \ {b}
    /\ \/ b.direct /\ wire' = Append(wire, b) /\ UNCHANGED announced
       \/ ~b.direct /\ ToRoom(<<b>>) /\ announced' = Newest(announced, b.version)
    /\ overtaken' = IF b.direct \/ joined THEN Overtakes(b.version) ELSE overtaken
    /\ UNCHANGED <<matchVars, pending, socketVars, asked, page, received, voteVars>>

\* The snapshot of a broadcast cannot be read; the failure is only logged, or
\* answered as a failure of the command.
PublicationFails(b) ==
    /\ b \in building /\ ~b.direct
    /\ building' = building \ {b}
    /\ UNCHANGED <<matchVars, pending, announced, socketVars, wire, consoleVars, voteVars>>

-----------------------------------------------------------------------------
(* The socket and the room.                                                 *)

\* handleConnect: enter the match, ask for its state.
Online ==
    /\ ~online
    /\ online' = TRUE /\ entry' = "SENT" /\ asked' = TRUE
    /\ UNCHANGED <<matchVars, roomVars, joined, wire, pageVars, voteVars>>

\* The requests and answers under way are lost; what the server is already
\* doing for a submission is done.
Offline ==
    /\ online
    /\ online' = FALSE /\ joined' = FALSE /\ entry' = "NONE"
    /\ wire' = <<>> /\ asked' = FALSE /\ overtaken' = (page < received)
    /\ building' = {b \in building : ~b.direct}
    /\ submission' = [k \in Submissions |->
                        IF submission[k].stage = "SENT"
                        THEN [submission[k] EXCEPT !.stage = "NONE"] ELSE submission[k]]
    /\ UNCHANGED <<matchVars, pending, announced, page, received, sending, locked>>

\* enterOfficialMatchPresence: join the room, then tell everyone in it.
EnterMatch ==
    /\ entry = "SENT"
    /\ joined' = TRUE /\ entry' = "JOINED"
    /\ UNCHANGED <<matchVars, roomVars, online, wire, consoleVars, voteVars>>

\* Mutant: the presence is not announced to the room that was just joined.
WelcomeOthersOnly == entry = "JOINED" /\ UNCHANGED wire

Welcome == entry = "JOINED" /\ Fits(1) /\ ToRoom(<<Plain("PRESENCE", 0)>>)

BroadcastPresence ==
    /\ Welcome
    /\ entry' = "NONE"
    /\ UNCHANGED <<matchVars, roomVars, online, joined, consoleVars, voteVars>>

\* matchStateRequest: the snapshot for this socket is read.
AnswerRequest ==
    /\ asked /\ online /\ MayRead
    /\ asked' = FALSE
    /\ building' = building \cup {Snapshot(version, voted, TRUE)}
    /\ UNCHANGED <<matchVars, pending, announced, socketVars, wire, pageVars, voteVars>>

-----------------------------------------------------------------------------
(* A vote, from the button to the lock.                                     *)

\* Nothing of submission k is left, here or on its way.
Unused(k) ==
    /\ submission[k] = [stage |-> "NONE", awaited |-> FALSE]
    /\ \A i \in 1..Len(wire) : wire[i].of # k

AtServer(k, stage) == submission' = [submission EXCEPT ![k].stage = stage]
NoLongerAwaited(k) == submission' = [submission EXCEPT ![k].awaited = FALSE]
ToSocket(ms) == wire' = IF online THEN wire \o ms ELSE wire

\* One submission at a time as far as the browser knows; an earlier one may still
\* be at the server, or be awaited although its vote was freed.
SubmitVote(k) ==
    /\ online /\ ~sending /\ ~locked
    /\ Unused(k) /\ \A j \in 1..(k - 1) : ~Unused(j)
    /\ submission' = [submission EXCEPT ![k] = [stage |-> "SENT", awaited |-> TRUE]]
    /\ sending' = TRUE
    /\ UNCHANGED <<matchVars, roomVars, socketVars, wire, consoleVars, locked>>

\* scoring.submitVote: one vote of a judge per window.
CommitVote(k) ==
    /\ submission[k].stage = "SENT" /\ ~voted
    /\ voted' = TRUE
    /\ AtServer(k, "COMMITTED")
    /\ UNCHANGED <<version, roomVars, socketVars, wire, consoleVars, sending, locked>>

\* Refused: not running, paused, ended, pending, already voted.
RefuseVote(k) ==
    /\ submission[k].stage = "SENT" /\ Fits(1)
    /\ AtServer(k, "NONE")
    /\ ToSocket(<<Reply("FAILED", k)>>)
    /\ UNCHANGED <<matchVars, roomVars, socketVars, consoleVars, sending, locked>>

\* Mutant: the judge is answered, and left to find the vote in the next snapshot.
RecordedAnswered(k) == <<Reply("OK", k)>>

\* vote:accepted to this socket, then the answer.
Recorded(k) == <<Plain("ACCEPTED", 0), Reply("OK", k)>>

AnswerVote(k) ==
    /\ submission[k].stage = "COMMITTED" /\ Fits(2)
    /\ AtServer(k, "NONE")
    /\ ToSocket(Recorded(k))
    /\ UNCHANGED <<matchVars, roomVars, socketVars, consoleVars, sending, locked>>

\* The publication of an earlier resolution fails: a recorded vote is answered
\* as failed.
AnswerFails(k) ==
    /\ submission[k].stage = "COMMITTED" /\ Fits(1)
    /\ AtServer(k, "NONE")
    /\ ToSocket(<<Reply("FAILED", k)>>)
    /\ UNCHANGED <<matchVars, roomVars, socketVars, consoleVars, sending, locked>>

\* Ten seconds without an answer: the button is free, also of a later submission.
AnswerTimesOut(k) ==
    /\ submission[k].awaited
    /\ NoLongerAwaited(k)
    /\ sending' = FALSE
    /\ UNCHANGED <<matchVars, roomVars, socketVars, wire, consoleVars, locked>>

-----------------------------------------------------------------------------
(* The console's handlers.                                                  *)

Unlock == sending' = FALSE /\ locked' = FALSE

\* handleMatchState: whatever arrives is shown, newer or not.
OnState(p) ==
    /\ page' = p.version
    /\ received' = Newest(received, p.version)
    /\ \/ p.direct /\ sending' = FALSE /\ locked' = p.vote
       \/ ~p.direct /\ UNCHANGED <<sending, locked>>
    /\ UNCHANGED <<asked, submission>>

\* Events of the round and of the window ask for a snapshot; those that end a
\* window free the judge.
OnEvent(p) ==
    /\ asked' = TRUE
    /\ IF p.kind = "RESOLVED" THEN Unlock ELSE UNCHANGED <<sending, locked>>
    /\ UNCHANGED <<page, received, submission>>

\* vote:accepted is emitted to the socket of the judge who voted, so that it names
\* this console's match and judge (voteAcknowledgementMatchesReferee).
OnAccepted ==
    /\ locked' = TRUE /\ sending' = FALSE
    /\ UNCHANGED <<asked, page, received, submission>>

\* An answer after the timeout is ignored; a good one leaves the lock to the
\* vote:accepted message; a failure frees the button, also of a later submission.
OnAnswer(p) ==
    /\ IF submission[p.of].awaited
       THEN NoLongerAwaited(p.of) /\ sending' = (sending /\ p.kind = "OK")
       ELSE UNCHANGED <<submission, sending>>
    /\ UNCHANGED <<asked, page, received, locked>>

Receive ==
    /\ wire # <<>>
    /\ wire' = Tail(wire)
    /\ LET p == Head(wire) IN
       \/ p.kind = "STATE" /\ OnState(p)
       \/ p.kind \in {"EVENT", "RESOLVED", "PRESENCE"} /\ OnEvent(p)
       \/ p.kind = "ACCEPTED" /\ OnAccepted
       \/ p.kind \in {"OK", "FAILED"} /\ OnAnswer(p)
    /\ UNCHANGED <<matchVars, roomVars, socketVars, overtaken>>

-----------------------------------------------------------------------------
MatchFeedNext ==
    \/ OtherCommits("EVENT") \/ OtherCommits("NONE") \/ WindowResolves
    \/ \E p \in pending : Publish(p)
    \/ \E b \in building : EmitState(b) \/ PublicationFails(b)
    \/ Online \/ Offline
    \/ EnterMatch \/ BroadcastPresence \/ AnswerRequest
    \/ \E k \in Submissions :
         \/ SubmitVote(k) \/ CommitVote(k) \/ RefuseVote(k)
         \/ AnswerVote(k) \/ AnswerFails(k) \/ AnswerTimesOut(k)
    \/ Receive

\* Timers of the browser fire and it handles what arrives.
MatchFeedFairness ==
    (\A k \in Submissions : WF_mfVars(AnswerTimesOut(k))) /\ WF_mfVars(Receive)

MatchFeedSpec == MatchFeedInit /\ [][MatchFeedNext]_mfVars /\ MatchFeedFairness

-----------------------------------------------------------------------------
(* Properties.                                                              *)

Quiet == pending = {} /\ building = {} /\ wire = <<>> /\ entry = "NONE" /\ ~asked

\* A console in the room has received a snapshot of everything that was announced
\* there, whatever was announced between its first snapshot and its joining; and it
\* shows it, unless the snapshot that was sent last had been read before one sent
\* earlier (handleMatchState replaces what is shown).
SubscribedConsoleHasTheNewest ==
    Quiet /\ online /\ joined => received >= announced /\ (~overtaken => page >= announced)

\* A judge's submission does not hang: it is answered, recorded or given up,
\* although answers are lost, late or contradict what was committed.
SubmissionEnds == sending ~> ~sending
=============================================================================
