-------------------------- MODULE SupervisorConsole --------------------------
(***************************************************************************)
(* A supervisor's commands, from the button to the snapshot that shows their  *)
(* effect (match-realtime.ts and the command handlers of realtime.gateway.ts). *)
(* What a command does to the match is MatchLifecycle's; here it commits a     *)
(* version.  Handlers differ in what they tell the room after the commit and   *)
(* in what they answer when that fails; the functions of the browser differ in *)
(* the flag that keeps a second press out and in the answers after which they  *)
(* ask for a snapshot.  A snapshot is read and then sent, and the page shows   *)
(* the one that arrives last, which need not be the newest.                    *)
(***************************************************************************)
EXTENDS Naturals, Sequences, FiniteSets

CONSTANTS
    MaxCommands,    \* commands sent
    MaxInbox,       \* messages under way to the browser
    MaxReplies      \* snapshots being built for its socket

ASSUME SupervisorConsoleAssumption ==
    MaxCommands \in Nat \ {0} /\ MaxInbox \in Nat \ {0} /\ MaxReplies \in Nat \ {0}

Attempts == 1..MaxCommands
CommitNumbers == 0..MaxCommands

-----------------------------------------------------------------------------
(* The handlers of the gateway: whether one ever commits, whether it emits an  *)
(* event the console listens to, and whether a failed publication is only      *)
(* logged (or answered as a failure of the command).                           *)

HandlerType == [commits : BOOLEAN, event : BOOLEAN, logged : BOOLEAN]

roundStart == [commits |-> TRUE, event |-> TRUE, logged |-> TRUE]
overtimeStart == roundStart
completeMatchDisabled == [commits |-> FALSE, event |-> FALSE, logged |-> FALSE]
resultPublish == [commits |-> TRUE, event |-> FALSE, logged |-> FALSE]
appealComplete == [commits |-> TRUE, event |-> FALSE, logged |-> FALSE]
overtimeAction == [commits |-> TRUE, event |-> FALSE, logged |-> FALSE]
matchExit == [commits |-> TRUE, event |-> FALSE, logged |-> TRUE]
roundControl == [commits |-> TRUE, event |-> TRUE, logged |-> TRUE]
cancelResults == [commits |-> TRUE, event |-> TRUE, logged |-> TRUE]
cancellationUndo == [commits |-> TRUE, event |-> TRUE, logged |-> TRUE]
faultRecord == [commits |-> TRUE, event |-> TRUE, logged |-> FALSE]

-----------------------------------------------------------------------------
(* The functions of the browser: the flag, the answers after which a snapshot  *)
(* is asked for, whether success leaves the page, and whether the answer that    *)
(* the session is over ends it.                                                *)

Flags == {"roundStart", "completion", "result", "roundControl", "resultCancellation", "fault"}
ButtonType == [handler : HandlerType, flag : Flags, asks : SUBSET {"OK", "FAILED"},
               leaves : BOOLEAN, logsOut : BOOLEAN]

startRound == [handler |-> roundStart, flag |-> "roundStart", asks |-> {"OK", "FAILED"},
               leaves |-> FALSE, logsOut |-> TRUE]
completeMatch == [handler |-> completeMatchDisabled, flag |-> "completion",
                  asks |-> {"OK", "FAILED"}, leaves |-> FALSE, logsOut |-> FALSE]
publishResult == [handler |-> resultPublish, flag |-> "result", asks |-> {"OK"},
                  leaves |-> TRUE, logsOut |-> FALSE]
controlRound == [handler |-> roundControl, flag |-> "roundControl", asks |-> {"OK", "FAILED"},
                 leaves |-> FALSE, logsOut |-> TRUE]
undoResultCancellation ==
    [handler |-> cancellationUndo, flag |-> "resultCancellation", asks |-> {"OK", "FAILED"},
     leaves |-> FALSE, logsOut |-> FALSE]
changeResults == [handler |-> cancelResults, flag |-> "resultCancellation",
                  asks |-> {"OK", "FAILED"}, leaves |-> FALSE, logsOut |-> TRUE]
exitMatch == [handler |-> matchExit, flag |-> "resultCancellation", asks |-> {"FAILED"},
              leaves |-> TRUE, logsOut |-> FALSE]
submitFault == [handler |-> faultRecord, flag |-> "fault", asks |-> {},
                leaves |-> FALSE, logsOut |-> TRUE]
\* completeAppeal, startOvertime, restartOvertime, selectManualWinner
resultAction(handler) == [handler |-> handler, flag |-> "result", asks |-> {"OK", "FAILED"},
                          leaves |-> FALSE, logsOut |-> FALSE]

Buttons ==
    {startRound, completeMatch, publishResult, controlRound, undoResultCancellation,
     changeResults, exitMatch, submitFault}
      \cup {resultAction(h) : h \in {appealComplete, overtimeStart, overtimeAction}}

-----------------------------------------------------------------------------
VARIABLES
    commits,    \* commands committed
    linked,     \* the socket is connected
    mounted,    \* the console is on the page
    inRoom,     \* the socket is in the match room
    entering,   \* MATCH_PRESENCE_ENTER is under way
    attempt,    \* each command: its button, its stage at the server, its commit,
                \* whether the socket is still the one that sent it, and whether
                \* the browser waits for it
    sent,       \* commands sent
    requested,  \* MATCH_STATE_REQUEST is under way
    replies,    \* snapshots for this socket that are read and not sent yet
    inbox,      \* messages under way to the browser
    page,       \* the commit the page shows: setSnapshot of the last message
    seen,       \* history: newest commit in a snapshot that has arrived
    told,       \* history: newest commit that was announced, or confirmed, to this socket
    overtaken   \* history: the snapshot sent last is older than one sent before it

pageVars == <<page, seen, overtaken>>
scVars == <<commits, linked, mounted, inRoom, entering, attempt, sent,
            requested, replies, inbox, pageVars, told>>

Stages == {"NONE", "SENT", "JOINED", "COMMITTED", "READ", "DONE"}
NoAttempt == [button |-> startRound, stage |-> "NONE", version |-> 0,
              orphan |-> FALSE, awaited |-> FALSE]
Over == [NoAttempt EXCEPT !.stage = "DONE"]
Item(kind, k, v) == [kind |-> kind, of |-> k, version |-> v]

SupervisorTypeOK ==
    /\ commits \in CommitNumbers /\ sent \in CommitNumbers
    /\ linked \in BOOLEAN /\ mounted \in BOOLEAN /\ inRoom \in BOOLEAN /\ entering \in BOOLEAN
    /\ attempt \in [Attempts -> [button : ButtonType, stage : Stages, version : CommitNumbers,
                                 orphan : BOOLEAN, awaited : BOOLEAN]]
    /\ requested \in BOOLEAN /\ replies \subseteq CommitNumbers
    /\ inbox \in Seq([kind : {"STATE", "EVENT", "OK", "FAILED", "AUTH"},
                      of : 0..MaxCommands, version : CommitNumbers])
    /\ page \in CommitNumbers /\ seen \in CommitNumbers /\ told \in CommitNumbers
    /\ overtaken \in BOOLEAN

SupervisorInit ==
    /\ commits = 0 /\ sent = 0
    /\ linked = FALSE /\ mounted = TRUE /\ inRoom = FALSE /\ entering = FALSE
    /\ attempt = [k \in Attempts |-> NoAttempt]
    /\ requested = FALSE /\ replies = {} /\ inbox = <<>>
    /\ page = 0 /\ seen = 0 /\ told = 0 /\ overtaken = FALSE

Later(v, w) == IF v > w THEN v ELSE w
HasSpace(n) == Len(inbox) + n <= MaxInbox
At(k, stage) == attempt[k].stage = stage
\* A command that is done and not waited for is forgotten.
Kept(a) == IF a.stage = "DONE" /\ ~a.awaited THEN Over ELSE a
Moved(k, stage) == [attempt EXCEPT ![k] = Kept([@ EXCEPT !.stage = stage])]
NotAwaited(k) == [attempt EXCEPT ![k] = Kept([@ EXCEPT !.awaited = FALSE])]
\* What is emitted to the room for attempt k counts when its socket still lives.
Announced(k, v) == IF attempt[k].orphan THEN told ELSE Later(told, v)
ToMatchRoom(item) == inbox' = IF inRoom THEN Append(inbox, item) ELSE inbox
\* A snapshot of commit v, sent now, comes after a newer one.
Overtakes(v) ==
    \/ v < seen
    \/ \E i \in 1..Len(inbox) : inbox[i].kind = "STATE" /\ v < inbox[i].version

-----------------------------------------------------------------------------
(* The socket.                                                              *)

\* handleConnect
ConnectConsole ==
    /\ ~linked
    /\ linked' = TRUE /\ entering' = TRUE /\ requested' = TRUE
    /\ UNCHANGED <<commits, mounted, inRoom, attempt, sent, replies, inbox, pageVars, told>>

\* A handler that has started goes on without its socket.
LoseConsole ==
    /\ linked
    /\ linked' = FALSE /\ inRoom' = FALSE /\ entering' = FALSE
    /\ requested' = FALSE /\ replies' = {} /\ inbox' = <<>>
    /\ overtaken' = (page < seen)
    /\ attempt' = [k \in Attempts |->
                     IF attempt[k].stage = "NONE" THEN attempt[k]
                     ELSE Kept([attempt[k] EXCEPT !.orphan = TRUE,
                                                  !.stage = IF @ = "SENT" THEN "DONE" ELSE @])]
    /\ UNCHANGED <<commits, mounted, sent, page, seen, told>>

\* enterOfficialMatchPresence, as far as this socket is concerned: it joins the
\* room and hears of its own presence, which makes it ask for a snapshot.
EnterRoom ==
    /\ entering
    /\ entering' = FALSE /\ inRoom' = TRUE /\ requested' = TRUE
    /\ UNCHANGED <<commits, linked, mounted, attempt, sent, replies, inbox, pageVars, told>>

\* matchStateRequest: the snapshot for this socket is read, and sent later; the
\* handlers of two requests run side by side.
ReadState ==
    /\ requested /\ linked /\ Cardinality(replies) < MaxReplies
    /\ requested' = FALSE /\ replies' = replies \cup {commits}
    /\ UNCHANGED <<commits, linked, mounted, inRoom, entering, attempt, sent, inbox,
                   pageVars, told>>

SendState(v) ==
    /\ v \in replies /\ HasSpace(1)
    /\ replies' = replies \ {v}
    /\ inbox' = Append(inbox, Item("STATE", 0, v))
    /\ overtaken' = Overtakes(v)
    /\ UNCHANGED <<commits, linked, mounted, inRoom, entering, attempt, sent, requested,
                   page, seen, told>>

-----------------------------------------------------------------------------
(* A command.                                                               *)

\* One command of a flag at a time, and none without a connection.
Press(b) ==
    /\ linked /\ sent < MaxCommands
    /\ \A k \in Attempts : attempt[k].awaited => attempt[k].button.flag # b.flag
    /\ sent' = sent + 1
    /\ attempt' = [attempt EXCEPT ![sent + 1] =
                     [button |-> b, stage |-> "SENT", version |-> 0,
                      orphan |-> FALSE, awaited |-> TRUE]]
    /\ UNCHANGED <<commits, linked, mounted, inRoom, entering, requested, replies, inbox,
                   pageVars, told>>

\* Mutant: the command relies on the room that connecting joins.
MembershipAssumed == UNCHANGED inRoom

\* ensureCommandRoomMembership
Membership == inRoom' = TRUE

JoinRoom(k) ==
    /\ At(k, "SENT") /\ attempt[k].button.handler.commits /\ linked
    /\ Membership
    /\ attempt' = Moved(k, "JOINED")
    /\ UNCHANGED <<commits, linked, mounted, entering, sent, requested, replies, inbox,
                   pageVars, told>>

\* Not the supervisor, a bad payload, or an invalid state of the match; or the
\* session is over, which only some buttons tell apart.
RejectCommand(k) ==
    /\ At(k, "SENT") \/ At(k, "JOINED")
    /\ HasSpace(1)
    /\ attempt' = Moved(k, "DONE")
    /\ \E answer \in IF attempt[k].button.logsOut THEN {"FAILED", "AUTH"} ELSE {"FAILED"} :
         inbox' = IF attempt[k].orphan THEN inbox ELSE Append(inbox, Item(answer, k, 0))
    /\ UNCHANGED <<commits, linked, mounted, inRoom, entering, sent, requested, replies,
                   pageVars, told>>

Commit(k) ==
    /\ At(k, "JOINED")
    /\ commits' = commits + 1
    /\ attempt' = [attempt EXCEPT ![k].stage = "COMMITTED", ![k].version = commits + 1]
    /\ UNCHANGED <<linked, mounted, inRoom, entering, sent, requested, replies, inbox,
                   pageVars, told>>

\* The event, and the read of the snapshot (which is of this commit or a later one).
EmitEvent(k) ==
    /\ At(k, "COMMITTED") /\ HasSpace(1)
    /\ \/ /\ attempt[k].button.handler.event
          /\ ToMatchRoom(Item("EVENT", 0, attempt[k].version))
          /\ told' = Announced(k, attempt[k].version)
       \/ ~attempt[k].button.handler.event /\ UNCHANGED <<inbox, told>>
    /\ attempt' = [attempt EXCEPT ![k].stage = "READ", ![k].version = commits]
    /\ UNCHANGED <<commits, linked, mounted, inRoom, entering, sent, requested, replies,
                   pageVars>>

Answer(k, kind, ms) ==
    inbox' = IF attempt[k].orphan THEN ms ELSE Append(ms, Item(kind, k, attempt[k].version))

\* broadcastMatchState, then the answer.
EmitSnapshotAndAnswer(k) ==
    /\ At(k, "READ") /\ HasSpace(2)
    /\ attempt' = Moved(k, "DONE")
    /\ LET state == Item("STATE", 0, attempt[k].version)
       IN Answer(k, "OK", IF inRoom THEN Append(inbox, state) ELSE inbox)
    /\ overtaken' = IF inRoom THEN Overtakes(attempt[k].version) ELSE overtaken
    /\ told' = Announced(k, attempt[k].version)
    /\ UNCHANGED <<commits, linked, mounted, inRoom, entering, sent, requested, replies,
                   page, seen>>

\* The snapshot cannot be read: logged, or answered as a failure of the command.
PublicationFailed(k) ==
    /\ At(k, "READ") /\ HasSpace(1)
    /\ attempt' = Moved(k, "DONE")
    /\ Answer(k, IF attempt[k].button.handler.logged THEN "OK" ELSE "FAILED", inbox)
    /\ UNCHANGED <<commits, linked, mounted, inRoom, entering, sent, requested, replies,
                   pageVars, told>>

\* Ten seconds without an answer: the flag is free, and a late answer is ignored.
GiveUp(k) ==
    /\ attempt[k].awaited
    /\ attempt' = NotAwaited(k)
    /\ UNCHANGED <<commits, linked, mounted, inRoom, entering, sent, requested, replies,
                   inbox, pageVars, told>>

-----------------------------------------------------------------------------
(* The browser.                                                             *)

\* handleMatchState: whatever arrives is shown, newer or not.
OnSnapshotOfMatch(p) ==
    /\ page' = p.version
    /\ seen' = Later(seen, p.version)
    /\ UNCHANGED <<attempt, mounted, requested, told>>

OnEventOfMatch ==
    /\ requested' = TRUE
    /\ UNCHANGED <<attempt, mounted, page, seen, told>>

\* What the function of the button does with the answer.
OnAnswerOf(p) ==
    LET k == p.of
        b == attempt[k].button
        answer == IF p.kind = "OK" THEN "OK" ELSE "FAILED"
    IN IF ~attempt[k].awaited THEN UNCHANGED <<attempt, mounted, requested, page, seen, told>>
       ELSE /\ attempt' = NotAwaited(k)
            /\ requested' = (requested \/ answer \in b.asks)
            /\ mounted' = (p.kind # "AUTH" /\ ~(p.kind = "OK" /\ b.leaves))
            /\ told' = IF p.kind = "OK" THEN Later(told, p.version) ELSE told
            /\ UNCHANGED <<page, seen>>

TakeMessage ==
    /\ inbox # <<>>
    /\ inbox' = Tail(inbox)
    /\ LET p == Head(inbox) IN
       \/ p.kind = "STATE" /\ OnSnapshotOfMatch(p)
       \/ p.kind = "EVENT" /\ OnEventOfMatch
       \/ p.kind \in {"OK", "FAILED", "AUTH"} /\ OnAnswerOf(p)
    /\ UNCHANGED <<commits, linked, inRoom, entering, sent, replies, overtaken>>

-----------------------------------------------------------------------------
\* The console is followed until it leaves the page.
SupervisorNext ==
    /\ mounted
    /\ \/ ConnectConsole \/ LoseConsole \/ EnterRoom
       \/ ReadState \/ \E v \in replies : SendState(v)
       \/ \E b \in Buttons : Press(b)
       \/ \E k \in Attempts :
            \/ JoinRoom(k) \/ RejectCommand(k) \/ Commit(k) \/ EmitEvent(k)
            \/ EmitSnapshotAndAnswer(k) \/ PublicationFailed(k) \/ GiveUp(k)
       \/ TakeMessage

SupervisorSpec == SupervisorInit /\ [][SupervisorNext]_scVars

-----------------------------------------------------------------------------
(* Properties.                                                              *)

Settled ==
    /\ \A k \in Attempts : attempt[k].stage \in {"NONE", "DONE"}
    /\ ~requested /\ replies = {} /\ inbox = <<>>

\* A command never misses its own broadcast: when nothing is under way, the
\* console has received every commit that was announced or confirmed to its socket,
\* also when the socket has not come to enter the match
\* (ensureCommandRoomMembership); and it shows them, unless the snapshot that was
\* sent last had been read before one sent earlier (handleMatchState).
OwnCommandIsSeen ==
    Settled /\ linked /\ mounted => seen >= told /\ (~overtaken => page >= told)

\* What the comment of startRound says of the snapshot after the acknowledgement,
\* that it is authoritative for every displayed field: the page itself shows every
\* commit that was announced or confirmed to its socket.
OwnCommandIsShown == Settled /\ linked /\ mounted => page >= told
=============================================================================
