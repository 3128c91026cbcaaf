--------------------------- MODULE MatchLifecycle ---------------------------
(***************************************************************************)
(* The lifecycle of one standalone match: the "matches" row, its rounds,    *)
(* the result operations that cancel and undo them, the appeal, overtime    *)
(* and publication pipeline, the crew that is authorised to drive them, and *)
(* the per-process expiration timers that end a round.                      *)
(*                                                                          *)
(* Every command is one database transaction that first takes the match    *)
(* row FOR UPDATE, so a command is one atomic step; the timer it arms or    *)
(* cancels in its own API process after the commit belongs to the same      *)
(* step.  What is NOT atomic is the expiration of a round: the timer fires, *)
(* the handler waits for the row lock, and anything may commit in between.  *)
(*                                                                          *)
(* Time is abstracted to one bit per round: `due' is TRUE once the database *)
(* clock has reached endsAt.  Creation times are compared only with those   *)
(* of result operations, so a stamp is the number of operations that        *)
(* existed when something was written.                                      *)
(***************************************************************************)
EXTENDS Naturals, FiniteSets

CONSTANTS
    Instances,      \* API processes sharing the database
    MaxRounds,      \* bound: rows of "rounds" ever created
    MaxOps,         \* bound: rows of "match_result_operations"
    MaxAppeals,     \* bound: rows of "match_appeals"
    MaxScored,      \* bound: rounds on which anything is scored
    RulesVersion,   \* "V1" LEGACY_SCORE_PENALTY_V1, "V2" FAULT_APPEAL_OVERTIME_V2
    LegacyAccess    \* TRUE: a legacy per-match supervisor session is alive

ASSUME ConstantsAssumption ==
    /\ MaxRounds \in Nat \ {0}
    /\ MaxOps \in Nat
    /\ MaxAppeals \in Nat
    /\ MaxScored \in Nat
    /\ RulesVersion \in {"V1", "V2"}
    /\ LegacyAccess \in BOOLEAN

RoundIds == 1 .. MaxRounds
OpIds == 1 .. MaxOps
AppealIds == 1 .. MaxAppeals

\* `by' is 0 for an effective row, k for one invalidated by operation k, and
\* OtherAudit for one invalidated by an audit record that no undo refers to.
OtherAudit == MaxOps + 1
Audits == 0 .. OtherAudit
None == MaxOps + 2      \* no such row

RunningPhases == {"ROUND_1_RUNNING", "ROUND_2_RUNNING", "OVERTIME_RUNNING"}
PausedPhases == {"ROUND_1_PAUSED", "ROUND_2_PAUSED", "OVERTIME_PAUSED"}
OvertimePhases == {"OVERTIME_READY", "OVERTIME_RUNNING", "OVERTIME_PAUSED",
    "OVERTIME_APPEAL", "OVERTIME_TIEBREAK_DECISION", "RESULT_PUBLICATION_READY"}
RetainablePhases == OvertimePhases \cup {"REGULATION_APPEAL"}
Phases == {"WAITING", "BREAK", "AWAITING_RESULT_SAVE", "FINISHED"}
              \cup RunningPhases \cup PausedPhases \cup RetainablePhases

Lifecycles == {"NOT_STARTED", "IN_PROGRESS", "SUSPENDED", "COMPLETED"}
ExitModes == {"CANCEL_RESULTS", "SUSPEND_KEEP_ROUND_1",
              "SUSPEND_KEEP_ROUNDS_1_AND_2", "SUSPEND_KEEP_V2_PHASE"}
Colours == {"RED", "BLUE"}

\* The columns of a match row that a result operation saves and restores.
RowType == [phase : Phases, lifecycle : Lifecycles, currentRound : 0 .. 2,
            started : BOOLEAN, finished : BOOLEAN]
MatchType == [phase : Phases, lifecycle : Lifecycles, currentRound : 0 .. 2,
              started : BOOLEAN, finished : BOOLEAN, suspended : BOOLEAN]
RoundType == [stage : {"NONE", "REGULATION", "OVERTIME"}, number : 0 .. 2,
              attempt : 0 .. MaxRounds, due : BOOLEAN, paused : BOOLEAN,
              ended : BOOLEAN, by : Audits, summary : Audits \cup {None},
              stamp : 0 .. MaxOps,
              opened : 0 .. MaxOps \cup {None}, openedBy : Audits,
              scored : 0 .. MaxOps \cup {None}, scoredBy : Audits]
WindowType == [round : 0 .. MaxRounds, by : Audits]
OpType == [status : {"NONE", "APPLIED", "UNDONE"}, previous : RowType,
           resulting : RowType, before : SUBSET RoundIds, open : SUBSET RoundIds]
AppealType == [scope : {"NONE", "REGULATION", "OVERTIME"},
               attempt : 0 .. MaxRounds, source : 0 .. MaxRounds,
               rounds : SUBSET RoundIds, result : Colours \cup {"TIE"},
               by : Audits, stamp : 0 .. MaxOps,
               winner : Colours \cup {"NONE"}, winnerBy : Audits,
               winnerStamp : 0 .. MaxOps]

VARIABLES
    match,      \* the locked "matches" row
    crew,       \* TRUE: a complete unreleased crew holds the match
    rounds,     \* rows of "rounds" with their athlete summaries, their newest
                \* scoring window (opened) and newest score event or fault (scored)
    nRounds,
    window,     \* the one scoring window without resolvedAt, or NoWindow
    ops,        \* rows of "match_result_operations"
    nOps,
    appeals,    \* rows of "match_appeals" with their winner decision
    nAppeals,
    outcome,    \* the row of "match_outcomes", winner "NONE" while there is none
    server,     \* API process: "up", "down" or "failed" (bootstrap threw)
    timer,      \* round whose expiration the process has scheduled, or 0
    handler,    \* round of the expiration handler in flight, or 0
    misfired,   \* history: an expiration ended a round already invalidated
    disordered, \* history: an operation was undone before a later one
    stranded    \* history: an exit left an overtime round behind an earlier phase

dbVars == <<match, crew, rounds, nRounds, window, ops, nOps,
            appeals, nAppeals, outcome>>
processVars == <<server, timer, handler>>
history == <<misfired, disordered, stranded>>
vars == <<dbVars, processVars, history>>

NoRow == [phase |-> "WAITING", lifecycle |-> "NOT_STARTED", currentRound |-> 0,
          started |-> FALSE, finished |-> FALSE]
NoRound == [stage |-> "NONE", number |-> 0, attempt |-> 0, due |-> FALSE,
            paused |-> FALSE, ended |-> FALSE, by |-> 0, summary |-> None,
            stamp |-> 0, opened |-> None, openedBy |-> 0,
            scored |-> None, scoredBy |-> 0]
NoWindow == [round |-> 0, by |-> 0]
NoOp == [status |-> "NONE", previous |-> NoRow, resulting |-> NoRow,
         before |-> {}, open |-> {}]
NoAppeal == [scope |-> "NONE", attempt |-> 0, source |-> 0, rounds |-> {},
             result |-> "TIE", by |-> 0, stamp |-> 0, winner |-> "NONE",
             winnerBy |-> 0, winnerStamp |-> 0]

\* A match as admin creation or bracket preparation leaves it.
Init ==
    /\ match = [phase |-> "WAITING", lifecycle |-> "NOT_STARTED",
                currentRound |-> 0, started |-> FALSE, finished |-> FALSE,
                suspended |-> FALSE]
    /\ crew = FALSE
    /\ rounds = [r \in RoundIds |-> NoRound] /\ nRounds = 0
    /\ window = NoWindow
    /\ ops = [k \in OpIds |-> NoOp] /\ nOps = 0
    /\ appeals = [a \in AppealIds |-> NoAppeal] /\ nAppeals = 0
    /\ outcome = [winner |-> "NONE", stamp |-> 0]
    /\ server = [i \in Instances |-> "up"]
    /\ timer = [i \in Instances |-> 0]
    /\ handler = [i \in Instances |-> 0]
    /\ misfired = FALSE /\ disordered = FALSE /\ stranded = FALSE

-----------------------------------------------------------------------------
(* Queries that the commands make.                                         *)

Created == 1 .. nRounds
Effective == {r \in Created : rounds[r].by = 0}
EffectiveOf(stage, number) ==
    {r \in Effective : rounds[r].stage = stage /\ rounds[r].number = number}
Ended(S) == {r \in S : rounds[r].ended}
OpenRounds == {r \in Created : ~rounds[r].ended}

\* A non-invalidated scoring window without resolvedAt.
Unresolved == window.round # 0 /\ window.by = 0

Latest(S) == CHOOSE x \in S : \A y \in S : y <= x

\* Mutant: the session is not verified under the row lock.
AuthorisedUnchecked == TRUE

\* lockActiveSupervisorIdentity: an unreleased assignment, or a legacy session
\* as long as no assignment is active.
Authorised == crew \/ LegacyAccess

\* Mutant: only a reset of a finished match releases the crew.
ReleasesOnResetOnly(from, to) == from = "FINISHED"

\* assignmentReleaseReasonForTransition: the transitions that release the crew
\* unless the command gives a reason of its own.
ReleasesCrew(from, to) == to = "FINISHED" \/ from = "FINISHED"

LifecycleForPhase(phase) ==
    CASE phase = "WAITING" -> "NOT_STARTED"
      [] phase = "FINISHED" -> "COMPLETED"
      [] OTHER -> "IN_PROGRESS"

RunningStatus(number, stage) ==
    CASE stage = "OVERTIME" -> "OVERTIME_RUNNING"
      [] stage = "REGULATION" /\ number = 1 -> "ROUND_1_RUNNING"
      [] OTHER -> "ROUND_2_RUNNING"

PausedStatus(phase) ==
    CASE phase = "ROUND_1_RUNNING" -> "ROUND_1_PAUSED"
      [] phase = "ROUND_2_RUNNING" -> "ROUND_2_PAUSED"
      [] OTHER -> "OVERTIME_PAUSED"

ResumedStatus(phase) ==
    CASE phase = "ROUND_1_PAUSED" -> "ROUND_1_RUNNING"
      [] phase = "ROUND_2_PAUSED" -> "ROUND_2_RUNNING"
      [] OTHER -> "OVERTIME_RUNNING"

ExpectedNumber(phase) == IF phase \in {"ROUND_2_RUNNING", "ROUND_2_PAUSED"} THEN 2 ELSE 1

\* The CHECK constraints of the matches table: a write that breaks one aborts
\* the transaction.
DbChecks(m) ==
    /\ m.lifecycle = "COMPLETED" => m.phase = "FINISHED" /\ m.finished
    /\ m.lifecycle = "NOT_STARTED" =>
           m.phase = "WAITING" /\ ~m.started /\ m.currentRound = 0
    /\ m.lifecycle = "SUSPENDED" <=> m.suspended

Row(m) == [phase |-> m.phase, lifecycle |-> m.lifecycle,
           currentRound |-> m.currentRound, started |-> m.started,
           finished |-> m.finished]

\* UPDATE "matches" SET the columns of a row, suspendedAt given separately.
WriteMatch(row, suspended) ==
    /\ match' = [phase |-> row.phase, lifecycle |-> row.lifecycle,
                 currentRound |-> row.currentRound, started |-> row.started,
                 finished |-> row.finished, suspended |-> suspended]
    /\ DbChecks(match')

\* scheduleExpiration replaces whatever the process had scheduled for the match.
Schedule(i, r) == timer' = [timer EXCEPT ![i] = r]
CancelExpiration(i) == timer' = [timer EXCEPT ![i] = 0]

-----------------------------------------------------------------------------
(* Running the rounds: match-lifecycle.service.ts.                          *)

\* An overtime attempt is numbered past every earlier one, invalidated or not.
NextAttempt ==
    1 + Latest({0} \cup {rounds[r].attempt : r \in {c \in Created : rounds[c].stage = "OVERTIME"}})

\* nextRoundDescriptor: which round a start command may create, if any.
NextDescriptors ==
    {d \in [stage : {"REGULATION", "OVERTIME"}, number : {1, 2}, attempt : 0 .. MaxRounds] :
        \/ /\ d.stage = "REGULATION" /\ d.number = 1 /\ d.attempt = 0
           /\ match.phase = "WAITING" /\ match.currentRound = 0 /\ ~match.started
        \/ /\ d.stage = "REGULATION" /\ d.number = 2 /\ d.attempt = 0
           /\ match.phase = "BREAK" /\ match.currentRound = 1 /\ match.started
        \/ /\ d.stage = "OVERTIME" /\ d.number = 1 /\ d.attempt = NextAttempt
           /\ match.phase = "OVERTIME_READY"}

\* round:start.  Presence of the crew and of a scoreboard gates only the first
\* start; presence is the environment's, so the gate is an input.
StartRound(i) ==
    /\ server[i] = "up" /\ Authorised /\ nRounds < MaxRounds
    /\ \E d \in NextDescriptors :
        /\ WriteMatch([Row(match) EXCEPT
                           !.phase = RunningStatus(d.number, d.stage),
                           !.lifecycle = "IN_PROGRESS",
                           !.currentRound = d.number,
                           !.started = (d.stage = "REGULATION" /\ d.number = 1) \/ match.started],
                      match.suspended)
        /\ rounds' = [rounds EXCEPT ![nRounds + 1] =
               [NoRound EXCEPT !.stage = d.stage, !.number = d.number,
                               !.attempt = d.attempt, !.stamp = nOps]]
    /\ nRounds' = nRounds + 1
    /\ Schedule(i, nRounds + 1)
    /\ UNCHANGED <<crew, window, ops, nOps, appeals, nAppeals, outcome, server, handler, history>>

\* The round a pause or a resume acts on: the newest effective un-ended round
\* with the number of the phase.  The stage is not part of the query.
ControlledRounds ==
    {r \in Effective : rounds[r].number = ExpectedNumber(match.phase) /\ ~rounds[r].ended}

PauseRound(i) ==
    /\ server[i] = "up" /\ Authorised
    /\ match.phase \in RunningPhases
    /\ match.currentRound = ExpectedNumber(match.phase)
    /\ ControlledRounds # {}
    /\ LET r == Latest(ControlledRounds) IN
        /\ ~rounds[r].due
        /\ rounds' = [rounds EXCEPT ![r].paused = TRUE]
    /\ WriteMatch([Row(match) EXCEPT !.phase = PausedStatus(match.phase)], match.suspended)
    /\ CancelExpiration(i)
    /\ UNCHANGED <<crew, nRounds, window, ops, nOps, appeals, nAppeals, outcome, server, handler, history>>

ResumeRound(i) ==
    /\ server[i] = "up" /\ Authorised
    /\ match.phase \in PausedPhases
    /\ match.currentRound = ExpectedNumber(match.phase)
    /\ ControlledRounds # {}
    /\ LET r == Latest(ControlledRounds) IN
        /\ rounds[r].paused
        /\ rounds' = [rounds EXCEPT ![r].paused = FALSE, ![r].due = FALSE]
        /\ Schedule(i, r)
    /\ WriteMatch([Row(match) EXCEPT !.phase = ResumedStatus(match.phase)], match.suspended)
    /\ UNCHANGED <<crew, nRounds, window, ops, nOps, appeals, nAppeals, outcome, server, handler, history>>

\* The database clock reaches a round's endsAt; it does so while the round is
\* paused or invalidated as well.
DeadlinePasses(r) ==
    /\ r \in Created /\ ~rounds[r].due /\ ~rounds[r].ended
    /\ rounds' = [rounds EXCEPT ![r].due = TRUE]
    /\ UNCHANGED <<match, crew, nRounds, window, ops, nOps, appeals, nAppeals, outcome, processVars, history>>

-----------------------------------------------------------------------------
(* Ending a round: the expiration timer, its handler and startup recovery.  *)

\* Mutant: the phase is not read again under the lock.
ExpirableInAnyPhase(r) == ~rounds[r].ended /\ match.currentRound = rounds[r].number

\* The guards evaluateExpiration re-reads under the row lock.  The round is
\* fetched by id alone: an invalidated round passes.
Expirable(r) ==
    /\ ~rounds[r].ended
    /\ match.currentRound = rounds[r].number
    /\ match.phase = RunningStatus(rounds[r].number, rounds[r].stage)

PhaseAfter(r) ==
    CASE rounds[r].stage = "OVERTIME" -> "OVERTIME_APPEAL"
      [] rounds[r].stage = "REGULATION" /\ rounds[r].number = 1 -> "BREAK"
      [] OTHER -> IF RulesVersion = "V2" THEN "REGULATION_APPEAL" ELSE "AWAITING_RESULT_SAVE"

RowAfter(r) == [Row(match) EXCEPT !.phase = PhaseAfter(r), !.lifecycle = "IN_PROGRESS"]

\* Only a V2 round leaves athlete summaries behind.
CapturesSummary(r) == RulesVersion = "V2"

\* A window is resolved; a majority writes a score event on the window's round.
Resolve(rs) ==
    /\ window' = NoWindow
    /\ rounds' \in {rs, [rs EXCEPT ![window.round].scored = nOps,
                                   ![window.round].scoredBy = 0]}

\* The transaction that ends a due round: windows past their own deadline are
\* resolved first, then the V2 athlete summaries are captured.
EndRound(r) ==
    /\ rounds[r].due
    /\ WriteMatch(RowAfter(r), match.suspended)
    /\ LET ended == [rounds EXCEPT ![r].ended = TRUE,
                                   ![r].summary = IF CapturesSummary(r) THEN 0 ELSE None]
       IN \/ rounds' = ended /\ UNCHANGED window
          \/ Unresolved /\ Resolve(ended)
    /\ misfired' = (misfired \/ rounds[r].by # 0)

\* The write of EndRound breaks a CHECK constraint and the transaction aborts.
EndRoundAborts(r) ==
    /\ rounds[r].due
    /\ ~DbChecks([phase |-> PhaseAfter(r), lifecycle |-> "IN_PROGRESS",
                  currentRound |-> match.currentRound, started |-> match.started,
                  finished |-> match.finished, suspended |-> match.suspended])

CancelExpirationOf(i, r) ==
    timer' = [timer EXCEPT ![i] = IF timer[i] = r THEN 0 ELSE timer[i]]

\* setTimeout calls back; the handler now waits for the row lock.
TimerFires(i) ==
    /\ server[i] = "up" /\ timer[i] # 0 /\ handler[i] = 0
    /\ handler' = [handler EXCEPT ![i] = timer[i]]
    /\ timer' = [timer EXCEPT ![i] = 0]
    /\ UNCHANGED <<dbVars, server, history>>

\* handleExpiration: the decision is inactive, pending or ended.
HandleExpiration(i) ==
    LET r == handler[i] IN
    /\ server[i] = "up" /\ r # 0
    /\ handler' = [handler EXCEPT ![i] = 0]
    /\ \/ /\ ~Expirable(r)
          /\ CancelExpirationOf(i, r)
          /\ UNCHANGED <<match, rounds, window, misfired>>
       \/ /\ Expirable(r) /\ ~rounds[r].due
          /\ Schedule(i, r)
          /\ UNCHANGED <<match, rounds, window, misfired>>
       \/ /\ Expirable(r) /\ EndRound(r)
          /\ CancelExpirationOf(i, r)
    /\ UNCHANGED <<crew, nRounds, ops, nOps, appeals, nAppeals, outcome, server, disordered, stranded>>

\* The handler's transaction throws (the database is unreachable, or a CHECK
\* refuses the write): the catch block schedules the same round once more,
\* replacing whatever has been scheduled since.
HandlerFails(i) ==
    /\ server[i] = "up" /\ handler[i] # 0
    /\ Schedule(i, handler[i])
    /\ handler' = [handler EXCEPT ![i] = 0]
    /\ UNCHANGED <<dbVars, server, history>>

Crash(i) ==
    /\ server[i] = "up"
    /\ server' = [server EXCEPT ![i] = "down"]
    /\ timer' = [timer EXCEPT ![i] = 0]
    /\ handler' = [handler EXCEPT ![i] = 0]
    /\ UNCHANGED <<dbVars, history>>

\* Mutant: recovery looks for regulation rounds only.
RecoverableRegulation ==
    {r \in Effective :
        /\ match.phase \in RunningPhases
        /\ ~rounds[r].ended
        /\ rounds[r].number = match.currentRound
        /\ rounds[r].stage = "REGULATION"}

\* The rounds recoverActiveRounds may pick for a running match.
Recoverable ==
    {r \in Effective :
        /\ match.phase \in RunningPhases
        /\ ~rounds[r].ended
        /\ rounds[r].number = match.currentRound
        /\ rounds[r].stage = IF match.phase = "OVERTIME_RUNNING" THEN "OVERTIME" ELSE "REGULATION"}

\* onApplicationBootstrap awaits the recovery of the round expirations.
Restart(i) ==
    /\ server[i] # "up"
    /\ server' = [server EXCEPT ![i] = "up"]
    /\ \/ /\ Recoverable = {}
          /\ UNCHANGED <<match, rounds, window, timer, misfired>>
       \/ \E r \in Recoverable :
            \/ /\ ~rounds[r].due
               /\ Schedule(i, r)
               /\ UNCHANGED <<match, rounds, window, misfired>>
            \/ /\ EndRound(r)
               /\ UNCHANGED timer
    /\ UNCHANGED <<crew, nRounds, ops, nOps, appeals, nAppeals, outcome, handler, disordered, stranded>>

\* An exception of that recovery is not caught: the process does not start.
RestartFails(i) ==
    /\ server[i] = "down"
    /\ \E r \in Recoverable : EndRoundAborts(r)
    /\ server' = [server EXCEPT ![i] = "failed"]
    /\ UNCHANGED <<dbVars, timer, handler, history>>

-----------------------------------------------------------------------------
(* Crew, exit, cancellation of results and its undo.                        *)

\* POST /official/matches/:id/take: a complete crew claims the match; it is
\* the only way out of SUSPENDED.
Take ==
    /\ ~crew /\ match.lifecycle \in {"NOT_STARTED", "SUSPENDED"}
    /\ crew' = TRUE
    /\ WriteMatch([Row(match) EXCEPT
                       !.lifecycle = IF @ = "SUSPENDED" THEN "IN_PROGRESS" ELSE @],
                  FALSE)
    /\ UNCHANGED <<rounds, nRounds, window, ops, nOps, appeals, nAppeals, outcome, processVars, history>>

HasWindow(r) == rounds[r].opened # None /\ rounds[r].openedBy = 0
HasScore(r) == rounds[r].scored # None /\ rounds[r].scoredBy = 0

InvalidateWindow(k, scored) ==
    window' = IF Unresolved /\ window.round \in scored THEN [window EXCEPT !.by = k] ELSE window

\* The columns before and open are history: the rounds the operation found
\* effective and those it found still open.
RecordOperation(previous, resulting) ==
    /\ nOps < MaxOps
    /\ nOps' = nOps + 1
    /\ ops' = [ops EXCEPT ![nOps + 1] =
           [status |-> "APPLIED", previous |-> previous, resulting |-> resulting,
            before |-> Effective, open |-> OpenRounds]]

RetainedModeAllowed(mode) ==
    CASE mode = "SUSPEND_KEEP_V2_PHASE" -> match.phase \in RetainablePhases
      [] mode = "SUSPEND_KEEP_ROUND_1" ->
           /\ ~Unresolved
           /\ \E r \in Ended(Effective) : rounds[r].number = 1
      [] mode = "SUSPEND_KEEP_ROUNDS_1_AND_2" ->
           /\ ~Unresolved
           /\ \A n \in {1, 2} : \E r \in Ended(Effective) : rounds[r].number = n
      [] OTHER -> TRUE

\* Mutant: SUSPEND_KEEP_ROUND_1 leaves the current round as it is.
RowAfterExitKeepsRound(mode) ==
    CASE mode = "CANCEL_RESULTS" -> NoRow
      [] mode = "SUSPEND_KEEP_ROUND_1" ->
           [Row(match) EXCEPT !.lifecycle = "SUSPENDED", !.finished = FALSE, !.phase = "BREAK"]
      [] OTHER -> [Row(match) EXCEPT !.lifecycle = "SUSPENDED", !.finished = FALSE]

RowAfterExit(mode) ==
    CASE mode = "CANCEL_RESULTS" -> NoRow
      [] mode = "SUSPEND_KEEP_V2_PHASE" ->
           [Row(match) EXCEPT !.lifecycle = "SUSPENDED", !.finished = FALSE]
      [] mode = "SUSPEND_KEEP_ROUND_1" ->
           [Row(match) EXCEPT !.lifecycle = "SUSPENDED", !.finished = FALSE,
                              !.phase = "BREAK", !.currentRound = 1]
      [] OTHER ->
           [Row(match) EXCEPT !.lifecycle = "SUSPENDED", !.finished = FALSE,
                              !.phase = "AWAITING_RESULT_SAVE", !.currentRound = 2]

\* Mutant: a suspension keeps every round.
InvalidatedOnCancelOnly(mode) == IF mode = "CANCEL_RESULTS" THEN {1, 2} ELSE {}

InvalidatedNumbers(mode) ==
    CASE mode = "CANCEL_RESULTS" -> {1, 2}
      [] mode = "SUSPEND_KEEP_ROUND_1" -> {2}
      [] OTHER -> {}

ExitAllowed(mode) ==
    match.lifecycle # "COMPLETED" /\ match.phase # "FINISHED" /\ RetainedModeAllowed(mode)

\* Rounds, windows, votes, score events and faults are matched by round number;
\* athlete summaries and appeals are left as they are.
RoundsAfterExit(matching, k) ==
    [r \in RoundIds |->
        [rounds[r] EXCEPT
            !.by = IF r \in matching \cap Effective THEN k ELSE @,
            !.openedBy = IF r \in matching /\ HasWindow(r) THEN k ELSE @,
            !.scoredBy = IF r \in matching /\ HasScore(r) THEN k ELSE @]]

\* A suspension that goes back to regulation invalidates rounds by their number,
\* and keeps number 1: an overtime round stays effective.
StrandsOvertime(mode) ==
    /\ mode \in {"SUSPEND_KEEP_ROUND_1", "SUSPEND_KEEP_ROUNDS_1_AND_2"}
    /\ EffectiveOf("OVERTIME", 1) # {}

\* match:exit
ExitMatch(i, mode) ==
    LET matching == {r \in Created : rounds[r].number \in InvalidatedNumbers(mode)}
        k == nOps + 1
    IN
    /\ server[i] = "up" /\ Authorised
    /\ ExitAllowed(mode)
    /\ RecordOperation(Row(match), RowAfterExit(mode))
    /\ rounds' = RoundsAfterExit(matching, k)
    /\ InvalidateWindow(k, matching)
    /\ WriteMatch(RowAfterExit(mode), mode # "CANCEL_RESULTS")
    /\ crew' = FALSE
    /\ CancelExpiration(i)
    /\ stranded' = (stranded \/ StrandsOvertime(mode))
    /\ UNCHANGED <<nRounds, appeals, nAppeals, outcome, server, handler, misfired, disordered>>

\* The rounds whose result a cancellation removes.
SelectedRounds(entireMatch) ==
    CASE entireMatch -> Effective
      [] ~entireMatch /\ match.phase = "REGULATION_APPEAL" -> EffectiveOf("REGULATION", 2)
      [] ~entireMatch /\ match.phase \in OvertimePhases ->
           {r \in EffectiveOf("OVERTIME", 1) :
               \A q \in EffectiveOf("OVERTIME", 1) : rounds[q].attempt <= rounds[r].attempt}
      [] ~entireMatch /\ match.phase = "BREAK" /\ match.currentRound = 1 ->
           EffectiveOf("REGULATION", 1)
      [] ~entireMatch /\ match.phase \in {"FINISHED", "AWAITING_RESULT_SAVE"}
                      /\ match.currentRound = 2 -> EffectiveOf("REGULATION", 2)
      [] OTHER -> {}

\* Rows are matched by round id, summaries included; a reset also reverts every
\* score event and fault of the match.
RoundsAfterCancellation(selected, entireMatch, k) ==
    [r \in RoundIds |->
        [rounds[r] EXCEPT
            !.by = IF r \in selected THEN k ELSE @,
            !.summary = IF r \in selected /\ @ = 0 THEN k ELSE @,
            !.openedBy = IF r \in selected /\ HasWindow(r) THEN k ELSE @,
            !.scoredBy = IF (entireMatch \/ r \in selected) /\ HasScore(r) THEN k ELSE @]]

AffectedAppeals(selected, entireMatch) ==
    {a \in 1 .. nAppeals :
        appeals[a].by = 0 /\ (entireMatch \/ appeals[a].rounds \cap selected # {})}

AppealsAfterCancellation(affected, selected, k) ==
    [a \in AppealIds |->
        [appeals[a] EXCEPT
            !.by = IF a \in affected THEN k ELSE @,
            !.winnerBy = IF /\ appeals[a].winner # "NONE" /\ @ = 0
                            /\ a \in affected \/ appeals[a].source \in selected
                         THEN k ELSE @]]

\* round:cancel and match:reset
CancelResults(i, entireMatch) ==
    LET selected == SelectedRounds(entireMatch)
        k == nOps + 1
        firstRound == \E r \in selected : rounds[r].stage = "REGULATION" /\ rounds[r].number = 1
        nextPhase == IF entireMatch \/ firstRound THEN "WAITING"
                     ELSE IF \E r \in selected : rounds[r].stage = "OVERTIME"
                          THEN "OVERTIME_READY" ELSE "BREAK"
        next == [phase |-> nextPhase,
                 lifecycle |-> IF nextPhase = "WAITING" THEN "NOT_STARTED" ELSE "IN_PROGRESS",
                 currentRound |-> IF nextPhase = "WAITING" THEN 0 ELSE 1,
                 started |-> nextPhase # "WAITING" /\ match.started,
                 finished |-> FALSE]
        affected == AffectedAppeals(selected, entireMatch)
    IN
    /\ server[i] = "up" /\ Authorised
    /\ selected # {}
    /\ RecordOperation([Row(match) EXCEPT !.lifecycle = LifecycleForPhase(match.phase)], next)
    /\ rounds' = RoundsAfterCancellation(selected, entireMatch, k)
    /\ InvalidateWindow(k, selected)
    /\ appeals' = AppealsAfterCancellation(affected, selected, k)
    /\ WriteMatch(next, match.suspended)
    /\ crew' = (crew /\ ~ReleasesCrew(match.phase, nextPhase))
    /\ CancelExpiration(i)
    /\ UNCHANGED <<nRounds, nAppeals, outcome, server, handler, history>>

\* Nothing effective has been written after operation k.
NoActivitySince(k) ==
    /\ \A r \in Effective : rounds[r].stamp < k
    /\ \A r \in Created :
        /\ HasWindow(r) => rounds[r].opened < k
        /\ HasScore(r) => rounds[r].scored < k
    /\ \A a \in 1 .. nAppeals :
        /\ appeals[a].by = 0 => appeals[a].stamp < k
        /\ appeals[a].winner # "NONE" /\ appeals[a].winnerBy = 0 => appeals[a].winnerStamp < k
    /\ outcome.winner # "NONE" => outcome.stamp < k

\* Mutant: any applied operation can be undone at any time.
UndoByStatus(k) == ops[k].status = "APPLIED"

\* Any applied operation, an exit included, while the match still has the phase
\* and the round it left behind.
UndoAllowed(k) ==
    /\ ops[k].status = "APPLIED"
    /\ match.phase = ops[k].resulting.phase
    /\ match.currentRound = ops[k].resulting.currentRound
    /\ NoActivitySince(k)

\* result-cancellation:undo.
Undo(i, k) ==
    LET Restored(audit) == IF audit = k THEN 0 ELSE audit IN
    /\ server[i] = "up" /\ Authorised
    /\ UndoAllowed(k)
    /\ rounds' = [r \in RoundIds |->
           [rounds[r] EXCEPT !.by = Restored(@), !.summary = Restored(@),
                             !.openedBy = Restored(@), !.scoredBy = Restored(@)]]
    /\ window' = [window EXCEPT !.by = Restored(@)]
    /\ appeals' = [a \in AppealIds |->
           [appeals[a] EXCEPT !.by = Restored(@), !.winnerBy = Restored(@)]]
    /\ WriteMatch(ops[k].previous, match.suspended)
    /\ ops' = [ops EXCEPT ![k].status = "UNDONE"]
    /\ disordered' = (disordered \/ \E j \in k + 1 .. nOps : ops[j].status = "APPLIED")
    /\ UNCHANGED <<crew, nRounds, nOps, nAppeals, outcome, processVars, misfired, stranded>>

-----------------------------------------------------------------------------
(* Scoring activity, as far as the commands above depend on it.             *)

Scored == {r \in Created : rounds[r].opened # None \/ rounds[r].scored # None}
WithinScored(r) == r \in Scored \/ Cardinality(Scored) < MaxScored

\* The un-ended rounds a vote may pick as the active one: the query has neither
\* an order nor a filter on invalidated rounds.
VotableRounds ==
    {r \in Created : /\ match.phase \in RunningPhases
                     /\ ~rounds[r].ended
                     /\ rounds[r].number = match.currentRound
                     /\ match.phase = RunningStatus(rounds[r].number, rounds[r].stage)}

\* lockActiveJudgeAssignment, lockLegacyJudgeSession: a judge of the unreleased
\* crew, or one with a legacy session.
JudgeAuthorised == crew \/ LegacyAccess

\* vote:submit that opens a scoring window; the unique index on unresolved
\* windows counts invalidated ones too.
OpenWindow(r) ==
    /\ JudgeAuthorised
    /\ r \in VotableRounds /\ ~rounds[r].due
    /\ window = NoWindow /\ WithinScored(r)
    /\ window' = [round |-> r, by |-> 0]
    /\ rounds' = [rounds EXCEPT ![r].opened = nOps, ![r].openedBy = 0]
    /\ UNCHANGED <<match, crew, nRounds, ops, nOps, appeals, nAppeals, outcome, processVars, history>>

\* The window's own timer, the next vote or startup recovery resolves it.
ResolveWindow ==
    /\ Unresolved
    /\ Resolve(rounds)
    /\ UNCHANGED <<match, crew, nRounds, ops, nOps, appeals, nAppeals, outcome, processVars, history>>

\* fault:record; the stage of the round is not part of the query.
RecordFault(r) ==
    /\ Authorised
    /\ match.phase \in RunningPhases
    /\ r \in Effective /\ rounds[r].number = match.currentRound
    /\ ~rounds[r].ended /\ ~rounds[r].paused /\ ~rounds[r].due
    /\ WithinScored(r)
    /\ rounds' = [rounds EXCEPT ![r].scored = nOps, ![r].scoredBy = 0]
    /\ UNCHANGED <<match, crew, nRounds, window, ops, nOps, appeals, nAppeals, outcome, processVars, history>>

-----------------------------------------------------------------------------
(* Appeals, overtime and publication of a V2 match.                         *)

\* An appeal whose source round has been invalidated since.
StaleAppeals == {a \in 1 .. nAppeals : appeals[a].by = 0 /\ rounds[appeals[a].source].by # 0}

WithoutStale(as) == [a \in AppealIds |->
    IF a \in StaleAppeals THEN [as[a] EXCEPT !.by = OtherAudit] ELSE as[a]]

SupervisorDecides == Authorised /\ RulesVersion = "V2"

AppealUnchanged == UNCHANGED <<crew, rounds, nRounds, window, ops, nOps, outcome, processVars, history>>

\* The bonus and penalty points are free inputs, so any final result may come out.
RegulationAppeal(source, sources, result) ==
    [NoAppeal EXCEPT !.scope = "REGULATION", !.source = source, !.rounds = sources,
                     !.result = result, !.stamp = nOps]

PhaseAfterRegulation(result) ==
    IF result = "TIE" THEN "OVERTIME_READY" ELSE "RESULT_PUBLICATION_READY"

\* regulation-appeal:complete
CompleteRegulationAppeal(result) ==
    LET sources == Ended({r \in Effective : rounds[r].stage = "REGULATION"}) IN
    /\ SupervisorDecides /\ nAppeals < MaxAppeals
    /\ match.lifecycle = "IN_PROGRESS" /\ match.phase = "REGULATION_APPEAL"
    /\ ~Unresolved
    /\ Cardinality(sources) = 2
    /\ \E r1, r2 \in sources :
        /\ rounds[r1].number = 1 /\ rounds[r2].number = 2
        /\ ~\E a \in 1 .. nAppeals : /\ appeals[a].scope = "REGULATION" /\ appeals[a].by = 0
                                     /\ rounds[appeals[a].source].by = 0
        /\ \A r \in sources : rounds[r].summary = 0
        /\ appeals' = [WithoutStale(appeals) EXCEPT ![nAppeals + 1] =
                          RegulationAppeal(r2, sources, result)]
    /\ nAppeals' = nAppeals + 1
    /\ WriteMatch([Row(match) EXCEPT !.phase = PhaseAfterRegulation(result)], match.suspended)
    /\ AppealUnchanged

\* A repeated command with a known idempotency key answers from the stored
\* appeal, after having invalidated the stale appeals of the match.
ReplayRegulationAppeal ==
    /\ Authorised
    /\ \E a \in 1 .. nAppeals : appeals[a].scope = "REGULATION"
    /\ StaleAppeals # {}
    /\ appeals' = WithoutStale(appeals)
    /\ UNCHANGED <<match, nAppeals>> /\ AppealUnchanged

HighestAttempt(S) == CHOOSE r \in S : \A q \in S : rounds[q].attempt <= rounds[r].attempt

OvertimeAppeal(r, result) ==
    [NoAppeal EXCEPT !.scope = "OVERTIME", !.attempt = rounds[r].attempt, !.source = r,
                     !.rounds = {r}, !.result = result, !.stamp = nOps]

PhaseAfterOvertime(result) ==
    IF result = "TIE" THEN "OVERTIME_TIEBREAK_DECISION" ELSE "RESULT_PUBLICATION_READY"

\* appeal:complete of an overtime round
CompleteOvertimeAppeal(result) ==
    LET played == Ended(EffectiveOf("OVERTIME", 1)) IN
    /\ SupervisorDecides /\ nAppeals < MaxAppeals
    /\ match.lifecycle = "IN_PROGRESS" /\ match.phase = "OVERTIME_APPEAL"
    /\ played # {}
    /\ LET r == HighestAttempt(played) IN
        /\ ~(Unresolved /\ window.round = r)
        /\ ~\E a \in 1 .. nAppeals : /\ appeals[a].scope = "OVERTIME" /\ appeals[a].by = 0
                                     /\ appeals[a].attempt = rounds[r].attempt
        /\ rounds[r].summary = 0
        /\ appeals' = [appeals EXCEPT ![nAppeals + 1] = OvertimeAppeal(r, result)]
    /\ nAppeals' = nAppeals + 1
    /\ WriteMatch([Row(match) EXCEPT !.phase = PhaseAfterOvertime(result)], match.suspended)
    /\ AppealUnchanged

OvertimeAppeals == {a \in 1 .. nAppeals : appeals[a].scope = "OVERTIME" /\ appeals[a].by = 0}
TiedAppeal ==
    CHOOSE a \in OvertimeAppeals : \A b \in OvertimeAppeals : appeals[b].attempt <= appeals[a].attempt

\* overtime:restart invalidates the tied attempt for good.
RestartOvertime ==
    /\ SupervisorDecides
    /\ match.phase = "OVERTIME_TIEBREAK_DECISION" /\ OvertimeAppeals # {}
    /\ LET a == TiedAppeal
           r == appeals[a].source
       IN
        /\ rounds' = [rounds EXCEPT
               ![r].by = OtherAudit,
               ![r].summary = IF @ = 0 THEN OtherAudit ELSE @,
               ![r].openedBy = IF HasWindow(r) THEN OtherAudit ELSE @,
               ![r].scoredBy = IF HasScore(r) THEN OtherAudit ELSE @]
        /\ window' = IF Unresolved /\ window.round = r THEN [window EXCEPT !.by = OtherAudit] ELSE window
        /\ appeals' = [appeals EXCEPT
               ![a].by = OtherAudit,
               ![a].winnerBy = IF appeals[a].winner # "NONE" /\ @ = 0 THEN OtherAudit ELSE @]
    /\ WriteMatch([Row(match) EXCEPT !.phase = "OVERTIME_READY"], match.suspended)
    /\ UNCHANGED <<crew, nRounds, ops, nOps, nAppeals, outcome, processVars, history>>

\* overtime:manual-winner; one decision row per appeal, ever.
ManualWinner(colour) ==
    /\ SupervisorDecides
    /\ match.phase = "OVERTIME_TIEBREAK_DECISION" /\ OvertimeAppeals # {}
    /\ appeals[TiedAppeal].winner = "NONE"
    /\ appeals' = [appeals EXCEPT ![TiedAppeal].winner = colour, ![TiedAppeal].winnerStamp = nOps]
    /\ WriteMatch([Row(match) EXCEPT !.phase = "RESULT_PUBLICATION_READY"], match.suspended)
    /\ UNCHANGED nAppeals /\ AppealUnchanged

\* The appeal publication rests on, and the winner it yields.
Publishable == {a \in 1 .. nAppeals : appeals[a].by = 0 /\ rounds[appeals[a].source].by = 0}
HasDecision(a) == appeals[a].winner # "NONE" /\ appeals[a].winnerBy = 0
\* Mutant: the inspector's decision is not looked at.
WinnerOfAppeal(a) == appeals[a].result
WinnerOf(a) == IF HasDecision(a) THEN appeals[a].winner ELSE appeals[a].result

CanYieldWinner(a) ==
    IF HasDecision(a) THEN appeals[a].scope = "OVERTIME" /\ appeals[a].result = "TIE"
    ELSE appeals[a].result # "TIE"

MayPublish ==
    SupervisorDecides /\ match.phase = "RESULT_PUBLICATION_READY" /\ match.lifecycle = "IN_PROGRESS"

\* result:publish, the sole durable FINISHED transition; match_outcomes holds
\* at most one row per match.
Publish ==
    /\ MayPublish
    /\ Publishable # {} /\ CanYieldWinner(Latest(Publishable))
    /\ outcome.winner = "NONE"
    /\ outcome' = [winner |-> WinnerOf(Latest(Publishable)), stamp |-> nOps]
    /\ WriteMatch([Row(match) EXCEPT !.phase = "FINISHED", !.lifecycle = "COMPLETED",
                                     !.finished = TRUE], match.suspended)
    /\ crew' = (crew /\ ~ReleasesCrew(match.phase, "FINISHED"))
    /\ UNCHANGED <<rounds, nRounds, window, ops, nOps, appeals, nAppeals, processVars, history>>

-----------------------------------------------------------------------------
Command(i) ==
    \/ StartRound(i) \/ PauseRound(i) \/ ResumeRound(i)
    \/ \E mode \in ExitModes : ExitMatch(i, mode)
    \/ \E entireMatch \in BOOLEAN : CancelResults(i, entireMatch)
    \/ \E k \in OpIds : Undo(i, k)

Process(i) ==
    \/ TimerFires(i) \/ HandleExpiration(i) \/ HandlerFails(i)
    \/ Crash(i) \/ Restart(i) \/ RestartFails(i)

Officials ==
    \/ Take
    \/ \E r \in RoundIds : OpenWindow(r) \/ RecordFault(r)
    \/ \E result \in Colours \cup {"TIE"} :
           CompleteRegulationAppeal(result) \/ CompleteOvertimeAppeal(result)
    \/ ReplayRegulationAppeal \/ RestartOvertime \/ Publish
    \/ \E colour \in Colours : ManualWinner(colour)

Clock == ResolveWindow \/ \E r \in RoundIds : DeadlinePasses(r)

Next == Officials \/ Clock \/ \E i \in Instances : Command(i) \/ Process(i)

Spec == Init /\ [][Next]_vars

\* The processes are scheduled fairly and restarted after a crash, the database
\* clock advances, and the database does not refuse an expiration for ever.
\* Officials are never obliged to act.
Fairness ==
    /\ \A r \in RoundIds : WF_vars(DeadlinePasses(r))
    /\ \A i \in Instances :
        WF_vars(Restart(i)) /\ WF_vars(TimerFires(i)) /\ SF_vars(HandleExpiration(i))

FairSpec == Spec /\ Fairness

-----------------------------------------------------------------------------
(* Properties.                                                              *)

\* Every variable stays in its type: a published winner is a colour, saved rows
\* are rows, timers and handlers name rounds.
TypeOK ==
    /\ match \in MatchType /\ crew \in BOOLEAN
    /\ rounds \in [RoundIds -> RoundType] /\ nRounds \in 0 .. MaxRounds
    /\ window \in WindowType
    /\ ops \in [OpIds -> OpType] /\ nOps \in 0 .. MaxOps
    /\ appeals \in [AppealIds -> AppealType] /\ nAppeals \in 0 .. MaxAppeals
    /\ outcome \in [winner : Colours \cup {"NONE"}, stamp : 0 .. MaxOps]
    /\ server \in [Instances -> {"up", "down", "failed"}]
    /\ timer \in [Instances -> 0 .. MaxRounds]
    /\ handler \in [Instances -> 0 .. MaxRounds]
    /\ misfired \in BOOLEAN /\ disordered \in BOOLEAN /\ stranded \in BOOLEAN

\* The columns of one row agree: the phase, its coarse lifecycle, the current
\* round and finishedAt tell the same story.
AgreeingColumns(row) ==
    /\ row.phase = "FINISHED" <=> row.lifecycle = "COMPLETED"
    /\ row.phase = "FINISHED" <=> row.finished
    /\ row.phase = "WAITING" <=> row.lifecycle = "NOT_STARTED"
    /\ row.phase = "WAITING" <=> row.currentRound = 0
    /\ row.phase \in {"ROUND_1_RUNNING", "ROUND_1_PAUSED", "BREAK", "OVERTIME_RUNNING",
                      "OVERTIME_PAUSED", "OVERTIME_APPEAL", "OVERTIME_TIEBREAK_DECISION"}
           => row.currentRound = 1
    /\ row.phase \in {"ROUND_2_RUNNING", "ROUND_2_PAUSED", "AWAITING_RESULT_SAVE",
                      "REGULATION_APPEAL"}
           => row.currentRound = 2

\* The match row, and every row an undo could bring back, has agreeing columns
\* and passes the CHECK constraints: no sequence of starts, exits,
\* cancellations and undos leaves phase, lifecycle and currentRound at odds.
LegalRows ==
    /\ DbChecks(match) /\ AgreeingColumns(match)
    /\ \A k \in 1 .. nOps :
        AgreeingColumns(ops[k].previous) /\ AgreeingColumns(ops[k].resulting)

\* The rule that migration 20260920120000 leaves to the domain services because
\* it spans two tables: a suspended match holds no crew.  Unless a legacy
\* session can drive it, a completed match holds none either and a match in
\* progress is always held by one.
CrewCoversProgress ==
    /\ match.lifecycle = "SUSPENDED" => ~crew
    /\ ~LegacyAccess => /\ match.lifecycle = "COMPLETED" => ~crew
                        /\ match.lifecycle = "IN_PROGRESS" => crew

\* The partial unique index on effective rounds is never hit: replays after a
\* reset, undos in any order and overtime restarts never make the same round
\* effective twice, unless an exit has stranded an overtime round.
OneEffectiveRound ==
    ~stranded => \A q, r \in Effective :
        /\ rounds[q].stage = rounds[r].stage
        /\ rounds[q].number = rounds[r].number
        /\ rounds[q].attempt = rounds[r].attempt
        => q = r

\* As long as operations are undone newest first, the partial unique index on
\* effective appeals is never hit, although an exit leaves the appeals of the
\* rounds it invalidates in place.
OneEffectiveAppeal ==
    ~disordered => \A a, b \in {c \in 1 .. nAppeals : appeals[c].by = 0} :
        appeals[a].scope = appeals[b].scope /\ appeals[a].attempt = appeals[b].attempt => a = b

\* No stale expiration has ended an invalidated round, operations have been
\* undone newest first, and no exit has stranded an overtime round.
Orderly == ~misfired /\ ~disordered /\ ~stranded

\* In an orderly history a running or paused
\* phase has an effective round that is still open and belongs to that phase.
RunningPhaseHasRound ==
    Orderly /\ match.phase \in RunningPhases \cup PausedPhases =>
        \E r \in Effective :
            /\ ~rounds[r].ended
            /\ RunningStatus(rounds[r].number, rounds[r].stage) =
                   IF match.phase \in PausedPhases THEN ResumedStatus(match.phase) ELSE match.phase

\* In an orderly history the appeal, the
\* overtime and the publication phases rest on two ended effective regulation
\* rounds, through every exit, take, cancellation and undo.
AppealsRestOnRegulation ==
    Orderly /\ match.phase \in RetainablePhases =>
        \A n \in {1, 2} : Ended(EffectiveOf("REGULATION", n)) # {}

\* An effective ended round has effective athlete summaries, so an undo never
\* brings back a round that appeals would refuse for lack of them.
SummariesFollowRounds ==
    RulesVersion = "V2" => \A r \in Ended(Effective) : rounds[r].summary = 0

\* What the match row says rests on rounds: no two effective rounds of
\* one attempt, an open round behind a running phase, ended rounds with their
\* summaries behind the phases that follow.
RoundsBackTheMatch ==
    OneEffectiveRound /\ RunningPhaseHasRound /\ AppealsRestOnRegulation /\ SummariesFollowRounds

\* A replayed appeal command has retired an appeal whose round an undo has made
\* effective again.
AppealsRetired == \E a \in 1 .. nAppeals : appeals[a].by = OtherAudit /\ rounds[appeals[a].source].by = 0

\* As long as operations are undone newest first, the decision phases can be
\* left: a match waiting for publication has a winner to publish and a tie-break
\* has a tied overtime appeal to decide, although exits keep the appeals of the
\* rounds they invalidate and resets retire them.
DecisionPhasesAreBacked ==
    ~disordered /\ ~AppealsRetired =>
        /\ match.phase = "RESULT_PUBLICATION_READY" =>
               Publishable # {} /\ CanYieldWinner(Latest(Publishable))
        /\ match.phase = "OVERTIME_TIEBREAK_DECISION" =>
               OvertimeAppeals # {} /\ appeals[TiedAppeal].result = "TIE"

\* Appeals are unique, a phase that waits for a decision has what it needs, a
\* match is finished exactly when its outcome is published, and the published
\* winner is the one that the newest effective appeal yields; nothing moves it
\* afterwards.  As long as operations are undone newest first, that appeal is
\* over effective ended rounds.
PublishedResultIsBacked ==
    /\ OneEffectiveAppeal /\ DecisionPhasesAreBacked
    /\ ~LegacyAccess =>
        /\ (match.phase = "FINISHED") = (outcome.winner # "NONE")
        /\ outcome.winner # "NONE" =>
            /\ Publishable # {}
            /\ CanYieldWinner(Latest(Publishable))
            /\ outcome.winner = WinnerOf(Latest(Publishable))
            /\ ~disordered => appeals[Latest(Publishable)].rounds \subseteq Ended(Effective)

\* As long as operations are undone newest first, an undo brings back exactly
\* the rounds that were effective when the operation was applied, and none of
\* those still open then has been ended by a timer in the meantime.
OrderlyUndoIsExact ==
    [][\A k \in 1 .. nOps :
        ops[k].status = "APPLIED" /\ ops'[k].status = "UNDONE" /\ ~disordered'
            => Effective' = ops[k].before /\ ops[k].open \subseteq OpenRounds']_vars

\* No effective round of the same stage and number was created after r.
IsNewest(r) == \A q \in EffectiveOf(rounds[r].stage, rounds[r].number) : q <= r

\* As long as operations are undone newest first, a paused round keeps its
\* remaining time: no process ends it, although the process that did not serve
\* the pause still holds its timer.  It has to be the newest round of its stage
\* and number: EveryPausedRoundKeepsTime is false.
PausedRoundKeepsTime ==
    [][\A r \in Created :
        ~disordered /\ rounds[r].paused /\ rounds[r].by = 0 /\ IsNewest(r) /\ rounds'[r].ended
            => rounds[r].ended]_vars

\* Violated, with five rounds and two appeals: an exit that keeps round 1 leaves
\* a paused overtime round effective and open, and when a later attempt runs, a
\* handler or the recovery scan ends the paused one instead.
EveryPausedRoundKeepsTime ==
    [][\A r \in Created : rounds[r].paused /\ rounds[r].by = 0 /\ rounds'[r].ended
            => rounds[r].ended]_vars

Runs(r) == Expirable(r) /\ rounds[r].by = 0

\* A running round that a live process has scheduled, with no handler of an
\* older round in flight there, stops running: it ends, is paused, cancelled
\* or suspended, whatever crashes, restarts and failed handlers intervene.
ScheduledRoundEnds ==
    \A r \in RoundIds :
        (\E i \in Instances : /\ server[i] = "up" /\ handler[i] \in {0, r}
                              /\ r \in {timer[i], handler[i]} /\ Runs(r))
            ~> (~Runs(r) \/ match.suspended)

\* What the rest of the system sees of the match.
Contract == INSTANCE MatchContract
    WITH lifecycle <- match.lifecycle, crewed <- crew, result <- outcome.winner

\* Commands, expirations, crashes and recoveries together implement the
\* lifecycle of ADR 0006: only a crew moves a match, nobody holds a suspended or
\* completed one, and no late timer, undo or restart reopens a published result.
ImplementsContract == Contract!Spec

-----------------------------------------------------------------------------
(* Statements of the documentation and the code comments that the code does *)
(* not meet.                                                                *)

\* "Before ending a round, the API rechecks the persisted row": only a round
\* that is still part of the match is ended by its expiration.
OnlyEffectiveRoundsExpire == ~misfired

\* "Startup recovery ... immediately reconciles overdue timestamps": recovery
\* of the rounds never keeps a process from starting.
RecoveryNeverBlocksStartup == \A i \in Instances : server[i] # "failed"

\* A running round of a crewed match in progress stops running in the end.
RunningRoundEnds ==
    \A r \in RoundIds : (Runs(r) /\ ~match.suspended) ~> (~Runs(r) \/ match.suspended)

=============================================================================
