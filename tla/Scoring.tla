------------------------------- MODULE Scoring -------------------------------
(***************************************************************************)
(* Live scoring of one V2 match: judges' votes, the one-second scoring      *)
(* windows they open, the majority that turns a window into a point, the    *)
(* per-process timers that resolve windows, and the athlete summaries and   *)
(* the appeal that read the points.                                         *)
(*                                                                          *)
(* Every vote, resolution and round command locks the match row and is one  *)
(* step.  The resolution of a window by its timer is two: the callback      *)
(* fires, and its transaction runs later.                                   *)
(*                                                                          *)
(* Rounds are those of regulation and follow MatchLifecycle, without their  *)
(* timers: a due round may be ended.  Of the result operations only the     *)
(* newest can be undone.  Time is one bit per round and per window: `due'   *)
(* is TRUE once the database clock has reached endsAt.                      *)
(***************************************************************************)
EXTENDS Naturals, FiniteSets

CONSTANTS
    Instances,      \* API processes sharing the database
    Judges,         \* the judge assignments of the match, all required
    MaxRounds,      \* bound: rows of "rounds" ever created
    MaxWindows,     \* bound: rows of "scoring_windows" ever created
    MaxCancelled    \* bound: cancellations of results

ASSUME ScoringAssumption ==
    /\ IsFiniteSet(Judges) /\ Judges # {}
    /\ MaxRounds \in Nat /\ MaxWindows \in Nat /\ MaxCancelled \in Nat

Colours == {"RED", "BLUE"}
RoundIds == 1 .. MaxRounds
WindowIds == 1 .. MaxWindows

\* RUNNING and PAUSED stand for ROUND_n_RUNNING and ROUND_n_PAUSED, DECIDED for
\* the phases a completed regulation appeal leads to.
Phases == {"WAITING", "RUNNING", "PAUSED", "BREAK", "REGULATION_APPEAL", "DECIDED"}
Tally == [Colours -> 0 .. MaxWindows]
NoTally == [c \in Colours |-> 0]

RoundType == [number : 0 .. 2, due : BOOLEAN, ended : BOOLEAN, live : BOOLEAN,
              summary : Tally]
WindowType == [round : 0 .. MaxRounds, due : BOOLEAN, resolved : BOOLEAN,
               live : BOOLEAN, winner : Colours \cup {"NONE"}]
OpType == [status : {"NONE", "APPLIED", "UNDONE"}, phase : Phases, currentRound : 0 .. 2,
           resulting : Phases, rounds : SUBSET RoundIds, windows : SUBSET WindowIds,
           points : SUBSET WindowIds, nRounds : 0 .. MaxRounds,
           nWindows : 0 .. MaxWindows, awarded : SUBSET WindowIds]

VARIABLES
    phase,          \* of the match
    currentRound,   \* 0 for null
    rounds,         \* rows of "rounds" with their athlete summaries
    nRounds,
    windows,        \* rows of "scoring_windows"; live: not invalidated
    nWindows,
    votes,          \* votes[w]: pairs of a judge and the colour voted for in w
    awarded,        \* awarded[w]: number of score events of window w
    reverted,       \* windows whose score event is reverted
    op,             \* newest row of "match_result_operations"
    nCancelled,
    up,             \* TRUE while the API process runs
    timers,         \* windows whose resolution the process has scheduled
    handlers,       \* windows whose resolution is in flight in the process
    late            \* history: windows still open when their round ended

roundVars == <<phase, currentRound, rounds, nRounds>>
windowVars == <<windows, nWindows, votes, awarded, reverted>>
opVars == <<op, nCancelled>>
processVars == <<up, timers, handlers>>
vars == <<roundVars, windowVars, opVars, processVars, late>>

NoRound == [number |-> 0, due |-> FALSE, ended |-> FALSE, live |-> FALSE, summary |-> NoTally]
NoWindow == [round |-> 0, due |-> FALSE, resolved |-> FALSE, live |-> FALSE, winner |-> "NONE"]
NoOp == [status |-> "NONE", phase |-> "WAITING", currentRound |-> 0, resulting |-> "WAITING",
         rounds |-> {}, windows |-> {}, points |-> {}, nRounds |-> 0, nWindows |-> 0,
         awarded |-> {}]

Init ==
    /\ phase = "WAITING" /\ currentRound = 0
    /\ rounds = [r \in RoundIds |-> NoRound] /\ nRounds = 0
    /\ windows = [w \in WindowIds |-> NoWindow] /\ nWindows = 0
    /\ votes = [w \in WindowIds |-> {}]
    /\ awarded = [w \in WindowIds |-> 0]
    /\ reverted = {}
    /\ op = NoOp /\ nCancelled = 0
    /\ up = [i \in Instances |-> TRUE]
    /\ timers = [i \in Instances |-> {}]
    /\ handlers = [i \in Instances |-> {}]
    /\ late = {}

-----------------------------------------------------------------------------
(* Queries.                                                                 *)

LiveRounds == {r \in 1 .. nRounds : rounds[r].live}
\* Windows without resolvedAt, invalidated or not.
Pending == {w \in 1 .. nWindows : ~windows[w].resolved}
Open == {w \in Pending : windows[w].live}
\* Open windows past their deadline: what resolveDueWindowsLocked resolves.
Overdue == {w \in Open : windows[w].due}
\* Effective points of a round: score events that are not reverted.
PointsOf(r, c) == {w \in 1 .. nWindows : /\ windows[w].round = r /\ windows[w].winner = c
                                         /\ awarded[w] > 0 /\ w \notin reverted}
Voted(w, c) == {j \in Judges : <<j, c>> \in votes[w]}

JudgeMajority == Cardinality(Judges) \div 2 + 1

\* RED is looked at first.
WinningColour(w) ==
    CASE Cardinality(Voted(w, "RED")) >= JudgeMajority -> "RED"
      [] Cardinality(Voted(w, "RED")) < JudgeMajority
           /\ Cardinality(Voted(w, "BLUE")) >= JudgeMajority -> "BLUE"
      [] OTHER -> "NONE"

\* resolveLockedWindow for a set of at most one window.
ResolvedWindows(S) == [w \in WindowIds |->
    IF w \in S THEN [windows[w] EXCEPT !.resolved = TRUE, !.winner = WinningColour(w)]
    ELSE windows[w]]
AwardedAfter(S) == [w \in WindowIds |->
    IF w \in S /\ WinningColour(w) # "NONE" THEN awarded[w] + 1 ELSE awarded[w]]

-----------------------------------------------------------------------------
(* Votes.                                                                   *)

\* The un-ended rounds of the running number: the query has neither an order
\* nor a filter on invalidated rounds, so any of them may be taken as active.
ActiveRounds ==
    {r \in 1 .. nRounds : phase = "RUNNING" /\ rounds[r].number = currentRound /\ ~rounds[r].ended}

\* Mutant: a second vote of the same judge for the other colour is accepted.
MayVoteTwice(j, c, w) == <<j, c>> \notin votes[w]
\* judge_votes holds one row per window and assignment.
MayVote(j, c, w) == \A d \in Colours : <<j, d>> \notin votes[w]

\* The vote joins the open window.
JoinWindow(i, j, c, r) ==
    \E w \in Open :
        /\ ~windows[w].due
        /\ rounds[windows[w].round].number = rounds[r].number
        /\ MayVote(j, c, w)
        /\ votes' = [votes EXCEPT ![w] = @ \cup {<<j, c>>}]
        /\ timers' = [timers EXCEPT ![i] = @ \cup {w}]
        /\ UNCHANGED <<windows, nWindows, awarded>>

\* The vote opens a window; an open window past its deadline is resolved first.
\* The unique index on windows without resolvedAt counts invalidated ones.
OpenWindow(i, j, c, r) ==
    LET w == nWindows + 1 IN
    /\ Pending \subseteq Overdue
    /\ nWindows < MaxWindows
    /\ nWindows' = w
    /\ windows' = [ResolvedWindows(Overdue) EXCEPT ![w] =
           [NoWindow EXCEPT !.round = r, !.live = TRUE]]
    /\ awarded' = AwardedAfter(Overdue)
    /\ votes' = [votes EXCEPT ![w] = {<<j, c>>}]
    /\ timers' = [timers EXCEPT ![i] = @ \cup {w}]

\* vote:submit.
SubmitVote(i, j, c) ==
    /\ up[i]
    /\ \E r \in ActiveRounds : /\ ~rounds[r].due
                               /\ JoinWindow(i, j, c, r) \/ OpenWindow(i, j, c, r)
    /\ UNCHANGED <<roundVars, reverted, opVars, up, handlers, late>>

-----------------------------------------------------------------------------
(* Resolution of windows.                                                   *)

\* The database clock reaches a window's endsAt.
WindowDeadline(w) ==
    /\ w \in Pending /\ ~windows[w].due
    /\ windows' = [windows EXCEPT ![w].due = TRUE]
    /\ UNCHANGED <<roundVars, nWindows, votes, awarded, reverted, opVars, processVars, late>>

TimerFires(i, w) ==
    /\ up[i] /\ w \in timers[i]
    /\ timers' = [timers EXCEPT ![i] = @ \ {w}]
    /\ handlers' = [handlers EXCEPT ![i] = @ \cup {w}]
    /\ UNCHANGED <<roundVars, windowVars, opVars, up, late>>

\* Mutant: the window is not read again under the lock.
ResolvableByDeadline(w) == windows[w].live /\ windows[w].due
\* resolveIfDue reads the window under the match lock.
Resolvable(w) == w \in Open /\ windows[w].due

\* handleResolution: inactive, pending or resolved.
HandleResolution(i, w) ==
    /\ up[i] /\ w \in handlers[i]
    /\ handlers' = [handlers EXCEPT ![i] = @ \ {w}]
    /\ \/ /\ Resolvable(w)
          /\ windows' = ResolvedWindows({w}) /\ awarded' = AwardedAfter({w})
          /\ timers' = [timers EXCEPT ![i] = @ \ {w}]
       \/ /\ ~Resolvable(w) /\ w \in Open
          /\ timers' = [timers EXCEPT ![i] = @ \cup {w}]
          /\ UNCHANGED <<windows, awarded>>
       \/ /\ ~Resolvable(w) /\ w \notin Open
          /\ timers' = [timers EXCEPT ![i] = @ \ {w}]
          /\ UNCHANGED <<windows, awarded>>
    /\ UNCHANGED <<roundVars, nWindows, votes, reverted, opVars, up, late>>

\* The transaction of the handler throws; the window is scheduled once more.
HandlerFails(i, w) ==
    /\ up[i] /\ w \in handlers[i]
    /\ handlers' = [handlers EXCEPT ![i] = @ \ {w}]
    /\ timers' = [timers EXCEPT ![i] = @ \cup {w}]
    /\ UNCHANGED <<roundVars, windowVars, opVars, up, late>>

Crash(i) ==
    /\ up[i]
    /\ up' = [up EXCEPT ![i] = FALSE]
    /\ timers' = [timers EXCEPT ![i] = {}]
    /\ handlers' = [handlers EXCEPT ![i] = {}]
    /\ UNCHANGED <<roundVars, windowVars, opVars, late>>

\* Mutant: recovery resolves what is overdue and schedules nothing.
RecoveredNothing(S) == {}
\* The windows that startup recovery schedules, out of the open ones.
RecoveredTimers(S) == {w \in S : ~windows[w].due}

-----------------------------------------------------------------------------
(* Rounds, as far as scoring depends on them.                               *)

RunningRounds == {r \in LiveRounds : rounds[r].number = currentRound /\ ~rounds[r].ended}

\* The new round is the first of the match or the second after the break.
StartRound ==
    /\ phase \in {"WAITING", "BREAK"} /\ nRounds < MaxRounds
    /\ phase' = "RUNNING" /\ currentRound' = currentRound + 1
    /\ rounds' = [rounds EXCEPT ![nRounds + 1] =
           [NoRound EXCEPT !.number = currentRound + 1, !.live = TRUE]]
    /\ nRounds' = nRounds + 1
    /\ UNCHANGED <<windowVars, opVars, processVars, late>>

\* A pause stops the round's clock and leaves an open window alone.
PauseRound ==
    /\ phase = "RUNNING" /\ phase' = "PAUSED"
    /\ \E r \in RunningRounds : ~rounds[r].due
    /\ UNCHANGED <<currentRound, rounds, nRounds, windowVars, opVars, processVars, late>>

ResumeRound ==
    /\ phase = "PAUSED" /\ phase' = "RUNNING"
    /\ rounds' = [r \in RoundIds |->
           IF r \in RunningRounds THEN [rounds[r] EXCEPT !.due = FALSE] ELSE rounds[r]]
    /\ UNCHANGED <<currentRound, nRounds, windowVars, opVars, processVars, late>>

RoundDeadline(r) ==
    /\ r \in 1 .. nRounds /\ ~rounds[r].due /\ ~rounds[r].ended
    /\ rounds' = [rounds EXCEPT ![r].due = TRUE]
    /\ UNCHANGED <<phase, currentRound, nRounds, windowVars, opVars, processVars, late>>

\* Mutant: the summary is taken before the due windows are resolved.
SummaryBeforeResolution(r, S) == [c \in Colours |-> Cardinality(PointsOf(r, c))]
\* The points of a round once the windows S are resolved.
SummaryOf(r, S) == [c \in Colours |->
    Cardinality(PointsOf(r, c) \cup {w \in S : windows[w].round = r /\ WinningColour(w) = c})]

\* evaluateExpiration of the running round: the due windows are resolved, the
\* athlete summaries captured and the match moves on.
ExpireRound ==
    /\ phase = "RUNNING"
    /\ \E r \in RunningRounds :
        /\ rounds[r].due
        /\ rounds' = [rounds EXCEPT ![r].ended = TRUE, ![r].summary = SummaryOf(r, Overdue)]
        /\ late' = late \cup {w \in Open \ Overdue : windows[w].round = r}
    /\ windows' = ResolvedWindows(Overdue) /\ awarded' = AwardedAfter(Overdue)
    /\ phase' = IF currentRound = 1 THEN "BREAK" ELSE "REGULATION_APPEAL"
    /\ UNCHANGED <<currentRound, nRounds, nWindows, votes, reverted, opVars>>

EndRound(i) == up[i] /\ ExpireRound /\ UNCHANGED processVars

\* Startup recovery ends a due round first; then overdue windows are resolved
\* and the others are scheduled (initializeResolutionRecovery).
Restart(i) ==
    /\ ~up[i]
    /\ up' = [up EXCEPT ![i] = TRUE]
    /\ timers' = [timers EXCEPT ![i] = RecoveredTimers(Open)]
    /\ \/ ExpireRound
       \/ /\ ~(phase = "RUNNING" /\ \E r \in RunningRounds : rounds[r].due)
          /\ windows' = ResolvedWindows(Overdue) /\ awarded' = AwardedAfter(Overdue)
          /\ UNCHANGED <<roundVars, nWindows, votes, reverted, opVars, late>>
    /\ UNCHANGED handlers

\* Mutant: the appeal does not wait for open windows.
SettledAlways == TRUE
\* An appeal waits until no window of the match is open.
Settled == Open = {}

\* regulation-appeal:complete adds up the summaries of the two rounds.
CompleteAppeal ==
    LET sources == {r \in LiveRounds : rounds[r].ended} IN
    /\ phase = "REGULATION_APPEAL" /\ Settled
    /\ Cardinality(sources) = 2 /\ {rounds[r].number : r \in sources} = {1, 2}
    /\ phase' = "DECIDED"
    /\ UNCHANGED <<currentRound, rounds, nRounds, windowVars, opVars, processVars, late>>

-----------------------------------------------------------------------------
(* Cancellation of results and its undo.                                    *)

SelectedRounds(entireMatch) ==
    CASE entireMatch -> LiveRounds
      [] ~entireMatch /\ phase = "BREAK" -> {r \in LiveRounds : rounds[r].number = 1}
      [] ~entireMatch /\ phase = "REGULATION_APPEAL" -> {r \in LiveRounds : rounds[r].number = 2}
      [] OTHER -> {}

\* The score events a cancellation reverts: a reset takes those of the match.
RevertedPoints(entireMatch, selected) ==
    {w \in 1 .. nWindows : awarded[w] > 0 /\ (entireMatch \/ windows[w].round \in selected)}

\* match:reset (entireMatch) and round:cancel.  Timers of windows stay.
CancelResults(entireMatch) ==
    LET selected == SelectedRounds(entireMatch)
        invalidated == {w \in 1 .. nWindows : windows[w].live /\ windows[w].round \in selected}
        points == RevertedPoints(entireMatch, selected) \ reverted
        next == IF entireMatch \/ phase = "BREAK" THEN "WAITING" ELSE "BREAK"
    IN
    /\ nCancelled < MaxCancelled /\ nCancelled' = nCancelled + 1
    /\ selected # {}
    /\ rounds' = [r \in RoundIds |-> [rounds[r] EXCEPT !.live = @ /\ r \notin selected]]
    /\ windows' = [w \in WindowIds |-> [windows[w] EXCEPT !.live = @ /\ w \notin invalidated]]
    /\ reverted' = reverted \cup points
    /\ phase' = next /\ currentRound' = IF next = "WAITING" THEN 0 ELSE 1
    /\ op' = [status |-> "APPLIED", phase |-> phase, currentRound |-> currentRound,
              resulting |-> next, rounds |-> selected, windows |-> invalidated,
              points |-> points, nRounds |-> nRounds, nWindows |-> nWindows,
              awarded |-> {w \in 1 .. nWindows : awarded[w] > 0}]
    /\ UNCHANGED <<nRounds, nWindows, votes, awarded, processVars, late>>

\* result-cancellation:undo, refused after any new round, window or point.
Undo ==
    /\ op.status = "APPLIED" /\ phase = op.resulting
    /\ nRounds = op.nRounds /\ nWindows = op.nWindows
    /\ {w \in 1 .. nWindows : awarded[w] > 0} = op.awarded
    /\ rounds' = [r \in RoundIds |-> [rounds[r] EXCEPT !.live = @ \/ r \in op.rounds]]
    /\ windows' = [w \in WindowIds |-> [windows[w] EXCEPT !.live = @ \/ w \in op.windows]]
    /\ reverted' = reverted \ op.points
    /\ phase' = op.phase /\ currentRound' = op.currentRound
    /\ op' = [op EXCEPT !.status = "UNDONE"]
    /\ UNCHANGED <<nRounds, nWindows, votes, awarded, nCancelled, processVars, late>>

-----------------------------------------------------------------------------
Officials ==
    \/ \E i \in Instances, j \in Judges, c \in Colours : SubmitVote(i, j, c)
    \/ StartRound \/ PauseRound \/ ResumeRound \/ CompleteAppeal \/ Undo
    \/ \E entireMatch \in BOOLEAN : CancelResults(entireMatch)

Process(i) ==
    \/ \E w \in WindowIds : TimerFires(i, w) \/ HandleResolution(i, w) \/ HandlerFails(i, w)
    \/ Crash(i) \/ Restart(i) \/ EndRound(i)

Clock ==
    \/ \E w \in WindowIds : WindowDeadline(w)
    \/ \E r \in RoundIds : RoundDeadline(r)

Next == Officials \/ Clock \/ \E i \in Instances : Process(i)

Spec == Init /\ [][Next]_vars

\* The clock advances, timers call back, a process is restarted, and the
\* database does not refuse a resolution for ever.
Fairness ==
    /\ \A w \in WindowIds : WF_vars(WindowDeadline(w))
    /\ \A i \in Instances :
        /\ WF_vars(Restart(i))
        /\ \A w \in WindowIds : WF_vars(TimerFires(i, w)) /\ SF_vars(HandleResolution(i, w))

FairSpec == Spec /\ Fairness

-----------------------------------------------------------------------------
(* Properties.                                                              *)

\* Every variable stays in its type.
TypeOK ==
    /\ phase \in Phases /\ currentRound \in 0 .. 2
    /\ rounds \in [RoundIds -> RoundType] /\ nRounds \in 0 .. MaxRounds
    /\ windows \in [WindowIds -> WindowType] /\ nWindows \in 0 .. MaxWindows
    /\ votes \in [WindowIds -> SUBSET (Judges \X Colours)]
    /\ awarded \in [WindowIds -> Nat] /\ reverted \subseteq WindowIds
    /\ op \in OpType /\ nCancelled \in 0 .. MaxCancelled
    /\ up \in [Instances -> BOOLEAN]
    /\ timers \in [Instances -> SUBSET WindowIds]
    /\ handlers \in [Instances -> SUBSET WindowIds]
    /\ late \subseteq WindowIds

\* A window awards at most one point, and exactly the resolved windows with a
\* winner have one, although votes, round ends, timers of several processes and
\* startup recovery all resolve windows: the unique index on score events is
\* never hit.
AwardedOnce ==
    \A w \in WindowIds :
        awarded[w] = IF windows[w].resolved /\ windows[w].winner # "NONE" THEN 1 ELSE 0

\* A point is backed by more than half of the judges, each of whom voted for
\* that colour alone.
PointHasMajority ==
    \A w \in WindowIds : awarded[w] > 0 =>
        LET c == windows[w].winner
            backers == {j \in Judges : {d \in Colours : <<j, d>> \in votes[w]} = {c}}
        IN 2 * Cardinality(backers) > Cardinality(Judges)

\* A resolved window is final: no late vote, timer, recovery, cancellation or
\* undo changes its votes or its winner.
ResolvedIsFinal ==
    [][\A w \in WindowIds : windows[w].resolved =>
        /\ windows'[w].resolved /\ windows'[w].winner = windows[w].winner
        /\ votes'[w] = votes[w] /\ awarded'[w] = awarded[w]]_vars

\* The summary of an ended round that is part of the match holds every point of
\* the round except those of windows that were still open when it ended.
SummariesMissOnlyLateWindows ==
    \A r \in LiveRounds : rounds[r].ended =>
        \A c \in Colours : rounds[r].summary[c] = Cardinality(PointsOf(r, c) \ late)

\* A point whose window is invalidated does not count: cancellations and undos
\* keep windows and score events, which they select differently, in step.
InvalidatedWindowsHoldNoPoint ==
    \A w \in WindowIds : awarded[w] > 0 /\ ~windows[w].live => w \in reverted

\* Points are accounted for: invalidated ones do not count and summaries miss
\* none but those of late windows.
PointsAreAccounted == InvalidatedWindowsHoldNoPoint /\ SummariesMissOnlyLateWindows

\* Once the appeal is completed the points of the match no longer move.
AppealedPointsAreFrozen ==
    [][phase = "DECIDED" /\ phase' = "DECIDED" =>
        \A r \in LiveRounds, c \in Colours : PointsOf(r, c)' = PointsOf(r, c)]_vars

\* A window that a live process has scheduled is resolved or invalidated in the
\* end, whatever crashes and failed handlers intervene.
ScheduledWindowResolves ==
    \A w \in WindowIds :
        (\E i \in Instances : up[i] /\ w \in timers[i] \cup handlers[i] /\ w \in Open)
            ~> (w \notin Open)

-----------------------------------------------------------------------------
(* Statements of the documentation and the code comments that the code does *)
(* not meet.                                                                *)

\* "The first valid vote opens a persisted window": no invalidated window keeps
\* the votes of a running round out.
ValidVotesOpenWindows ==
    (phase = "RUNNING" /\ \E r \in RunningRounds : ~rounds[r].due) => Pending \subseteq Open

\* "A full reset invalidates every result artifact for this match": a match
\* that waits for its first round has neither open windows nor points.
ResetLeavesNothing ==
    phase = "WAITING" =>
        Open = {} /\ {w \in 1 .. nWindows : awarded[w] > 0 /\ w \notin reverted} = {}

\* No window leaves "a stale regulation summary behind": an appeal decides on
\* all the points of its rounds.
AppealCountsEveryPoint ==
    phase = "DECIDED" =>
        \A r \in LiveRounds, c \in Colours : rounds[r].summary[c] = Cardinality(PointsOf(r, c))

=============================================================================
