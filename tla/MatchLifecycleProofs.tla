------------------------ MODULE MatchLifecycleProofs ------------------------
(* Theorems about MatchLifecycle for every number of processes, rounds,     *)
(* operations and appeals.                                                  *)
EXTENDS MatchLifecycle, FiniteSetTheorems, TLAPS, WellFoundedInduction

\* Latest of a non-empty bounded set of numbers is its largest member.
LEMMA LatestIsMember ==
    ASSUME NEW N \in Nat, NEW S \in SUBSET (0 .. N), S # {}
    PROVE  Latest(S) \in S /\ \A y \in S : y <= Latest(S)
<1> DEFINE T == {N - x : x \in S}
           R == OpToRel(<, Nat)
<1>0. \A x \in S : x \in Nat /\ x <= N /\ N - x \in Nat
    OBVIOUS
<1>1. T \in SUBSET Nat /\ T # {}
    <2>1. PICK x \in S : TRUE
        OBVIOUS
    <2>2. N - x \in T
        OBVIOUS
    <2> QED
        BY <1>0, <2>2
<1>2. PICK t \in T : \A u \in T : ~(<<u, t>> \in R)
    BY <1>1, NatLessThanWellFounded, WFMin
<1>3. PICK m \in S : t = N - m
    OBVIOUS
<1>4. \A y \in S : y <= m
    <2> SUFFICES ASSUME NEW y \in S PROVE y <= m
        OBVIOUS
    <2>1. N - y \in T /\ N - y \in Nat /\ t \in Nat
        BY <1>1
    <2>2. ~(N - y < t)
        BY <2>1, <1>2 DEF OpToRel
    <2> QED
        BY <2>1, <2>2, <1>3, <1>0
<1> QED
    BY <1>4 DEF Latest

USE ConstantsAssumption

\* The phases and lifecycles the commands write are phases and lifecycles.
LEMMA PhaseSets ==
    /\ RunningPhases \subseteq Phases /\ PausedPhases \subseteq Phases
    /\ RetainablePhases \subseteq Phases
    /\ {"WAITING", "BREAK", "AWAITING_RESULT_SAVE", "FINISHED", "REGULATION_APPEAL",
        "OVERTIME_READY", "OVERTIME_APPEAL", "OVERTIME_TIEBREAK_DECISION",
        "RESULT_PUBLICATION_READY"} \subseteq Phases
    /\ {"NOT_STARTED", "IN_PROGRESS", "SUSPENDED", "COMPLETED"} \subseteq Lifecycles
BY DEF Phases, RunningPhases, PausedPhases, RetainablePhases, OvertimePhases, Lifecycles

\* The transition tables yield phases and lifecycles.
LEMMA StatusIsPhase ==
    /\ \A number, stage : RunningStatus(number, stage) \in Phases
    /\ \A phase : PausedStatus(phase) \in Phases /\ ResumedStatus(phase) \in Phases
    /\ \A r : PhaseAfter(r) \in Phases
    /\ \A phase : LifecycleForPhase(phase) \in Lifecycles
BY PhaseSets DEF RunningStatus, PausedStatus, ResumedStatus, PhaseAfter, LifecycleForPhase,
    RunningPhases, PausedPhases

\* Effective (0), operation numbers and OtherAudit are audits.
LEMMA AuditsAreNumbers ==
    /\ 0 \in Audits /\ OtherAudit \in Audits /\ None \in Nat
    /\ \A k \in OpIds : k \in Audits
BY DEF Audits, OtherAudit, None, OpIds

\* The rows that stand for "not created yet" are typed.
LEMMA BlankRowsAreTyped ==
    /\ NoRow \in RowType /\ NoRound \in RoundType /\ NoWindow \in WindowType
    /\ NoOp \in OpType /\ NoAppeal \in AppealType
<1>1. NoRow \in RowType
    BY PhaseSets DEF NoRow, RowType
<1>2. NoRound \in RoundType
    BY AuditsAreNumbers DEF NoRound, RoundType
<1>3. NoWindow \in WindowType
    BY AuditsAreNumbers DEF NoWindow, WindowType
<1>4. NoOp \in OpType
    BY <1>1 DEF NoOp, OpType
<1>5. NoAppeal \in AppealType
    BY AuditsAreNumbers DEF NoAppeal, AppealType, Colours
<1> QED
    BY <1>1, <1>2, <1>3, <1>4, <1>5

\* A freshly created match is typed.
LEMMA TypeInit == Init => TypeOK
<1> SUFFICES ASSUME Init PROVE TypeOK
    OBVIOUS
<1>1. match \in MatchType
    BY PhaseSets DEF Init, MatchType
<1>2. /\ outcome \in [winner : Colours \cup {"NONE"}, stamp : 0 .. MaxOps]
      /\ nRounds \in 0 .. MaxRounds /\ nOps \in 0 .. MaxOps /\ nAppeals \in 0 .. MaxAppeals
    BY DEF Init
<1>3. /\ rounds \in [RoundIds -> RoundType] /\ window \in WindowType
      /\ ops \in [OpIds -> OpType] /\ appeals \in [AppealIds -> AppealType]
    BY BlankRowsAreTyped DEF Init
<1>4. /\ server \in [Instances -> {"up", "down", "failed"}]
      /\ timer \in [Instances -> 0 .. MaxRounds]
      /\ handler \in [Instances -> 0 .. MaxRounds]
    BY DEF Init
<1>5. misfired \in BOOLEAN /\ disordered \in BOOLEAN /\ stranded \in BOOLEAN /\ crew \in BOOLEAN
    BY Zenon DEF Init
<1> QED
    BY <1>1, <1>2, <1>3, <1>4, <1>5 DEF TypeOK

\* The columns a result operation saves are typed.
LEMMA RowIsTyped == TypeOK => Row(match) \in RowType
BY DEF TypeOK, Row, RowType, MatchType

\* Writing a typed row leaves a typed match.
LEMMA WriteIsTyped ==
    ASSUME NEW row \in RowType, NEW suspended \in BOOLEAN, WriteMatch(row, suspended)
    PROVE  match' \in MatchType
BY DEF WriteMatch, RowType, MatchType

\* One-column updates of a round keep its type.
LEMMA RoundUpdates ==
    ASSUME NEW q \in RoundType
    PROVE  /\ \A x \in BOOLEAN :
                /\ [q EXCEPT !.due = x] \in RoundType
                /\ [q EXCEPT !.paused = x] \in RoundType
                /\ [q EXCEPT !.ended = x] \in RoundType
           /\ \A x \in Audits :
                /\ [q EXCEPT !.by = x] \in RoundType
                /\ [q EXCEPT !.openedBy = x] \in RoundType
                /\ [q EXCEPT !.scoredBy = x] \in RoundType
           /\ \A x \in Audits \cup {None} : [q EXCEPT !.summary = x] \in RoundType
           /\ \A x \in 0 .. MaxOps : [q EXCEPT !.stamp = x] \in RoundType
           /\ \A x \in {"REGULATION", "OVERTIME"} : [q EXCEPT !.stage = x] \in RoundType
           /\ \A x \in 0 .. 2 : [q EXCEPT !.number = x] \in RoundType
           /\ \A x \in 0 .. MaxRounds : [q EXCEPT !.attempt = x] \in RoundType
           /\ \A x \in 0 .. MaxOps \cup {None} :
                /\ [q EXCEPT !.opened = x] \in RoundType
                /\ [q EXCEPT !.scored = x] \in RoundType
BY DEF RoundType

\* One-column updates of a match row keep its type.
LEMMA RowUpdates ==
    ASSUME NEW q \in RowType
    PROVE  /\ \A x \in Phases : [q EXCEPT !.phase = x] \in RowType
           /\ \A x \in Lifecycles : [q EXCEPT !.lifecycle = x] \in RowType
           /\ \A x \in 0 .. 2 : [q EXCEPT !.currentRound = x] \in RowType
           /\ \A x \in BOOLEAN : [q EXCEPT !.started = x] \in RowType
           /\ \A x \in BOOLEAN : [q EXCEPT !.finished = x] \in RowType
BY DEF RowType

\* round:start keeps the types.
LEMMA StartRoundTyped ==
    ASSUME TypeOK, NEW i \in Instances, StartRound(i)
    PROVE  TypeOK'
<1>1. PICK d \in NextDescriptors :
        /\ WriteMatch([Row(match) EXCEPT
                           !.phase = RunningStatus(d.number, d.stage),
                           !.lifecycle = "IN_PROGRESS",
                           !.currentRound = d.number,
                           !.started = (d.stage = "REGULATION" /\ d.number = 1) \/ match.started],
                      match.suspended)
        /\ rounds' = [rounds EXCEPT ![nRounds + 1] =
               [NoRound EXCEPT !.stage = d.stage, !.number = d.number,
                               !.attempt = d.attempt, !.stamp = nOps]]
    BY DEF StartRound
<1>2. /\ d.stage \in {"REGULATION", "OVERTIME"} /\ d.number \in 0 .. 2
      /\ d.attempt \in 0 .. MaxRounds
    BY DEF NextDescriptors
<1>3. match' \in MatchType
    <2>1. [Row(match) EXCEPT !.phase = RunningStatus(d.number, d.stage),
                             !.lifecycle = "IN_PROGRESS",
                             !.currentRound = d.number,
                             !.started = (d.stage = "REGULATION" /\ d.number = 1) \/ match.started]
             \in RowType
        <3> DEFINE q1 == [Row(match) EXCEPT !.phase = RunningStatus(d.number, d.stage)]
                   q2 == [q1 EXCEPT !.lifecycle = "IN_PROGRESS"]
                   q3 == [q2 EXCEPT !.currentRound = d.number]
        <3>1. q1 \in RowType
            BY RowIsTyped, RowUpdates, StatusIsPhase
        <3>2. q2 \in RowType
            BY <3>1, RowUpdates, PhaseSets
        <3> HIDE DEF q1, q2
        <3>3. q3 \in RowType
            BY <3>2, <1>2, RowUpdates
        <3>4. ((d.stage = "REGULATION" /\ d.number = 1) \/ match.started) \in BOOLEAN
            OBVIOUS
        <3> QED
            BY <3>3, <3>4, RowUpdates DEF q1, q2
    <2> QED
        BY <1>1, <2>1, WriteIsTyped DEF TypeOK, MatchType
<1>4. rounds' \in [RoundIds -> RoundType]
    <2>1. [NoRound EXCEPT !.stage = d.stage, !.number = d.number,
                          !.attempt = d.attempt, !.stamp = nOps] \in RoundType
        <3> DEFINE q1 == [NoRound EXCEPT !.stage = d.stage]
                   q2 == [q1 EXCEPT !.number = d.number]
                   q3 == [q2 EXCEPT !.attempt = d.attempt]
        <3>1. q1 \in RoundType
            BY <1>2, BlankRowsAreTyped, RoundUpdates
        <3> HIDE DEF q1
        <3>2. q2 \in RoundType
            BY <3>1, <1>2, RoundUpdates
        <3> HIDE DEF q2
        <3>3. q3 \in RoundType
            BY <3>2, <1>2, RoundUpdates
        <3> HIDE DEF q3
        <3>4. [q3 EXCEPT !.stamp = nOps] \in RoundType
            BY <3>3, RoundUpdates DEF TypeOK
        <3> QED
            BY <3>4 DEF q1, q2, q3
    <2> QED
        BY <1>1, <2>1 DEF TypeOK
<1>5. nRounds' \in 0 .. MaxRounds /\ timer' \in [Instances -> 0 .. MaxRounds]
    BY DEF TypeOK, StartRound, Schedule
<1> QED
    BY <1>3, <1>4, <1>5 DEF TypeOK, StartRound, history

\* round:pause and round:resume keep the types.
LEMMA PauseResumeTyped ==
    ASSUME TypeOK, NEW i \in Instances, PauseRound(i) \/ ResumeRound(i)
    PROVE  TypeOK'
<1>1. ASSUME NEW phase \in Phases
      PROVE  [Row(match) EXCEPT !.phase = phase] \in RowType
    BY RowIsTyped DEF RowType
<1>2. CASE PauseRound(i)
    <2>1. match' \in MatchType
        BY <1>1, <1>2, WriteIsTyped, StatusIsPhase DEF PauseRound, TypeOK, MatchType
    <2>2. rounds' \in [RoundIds -> RoundType]
        <3>1. rounds' = [r \in RoundIds |-> IF r = Latest(ControlledRounds)
                                           THEN [rounds[r] EXCEPT !.paused = TRUE] ELSE rounds[r]]
            BY <1>2 DEF PauseRound, TypeOK
        <3> QED
            BY <3>1, RoundUpdates DEF TypeOK
    <2>3. timer' \in [Instances -> 0 .. MaxRounds]
        BY <1>2 DEF PauseRound, TypeOK, CancelExpiration
    <2> QED
        BY <1>2, <2>1, <2>2, <2>3 DEF PauseRound, TypeOK, history
<1>3. CASE ResumeRound(i)
    <2>1. match' \in MatchType
        BY <1>1, <1>3, WriteIsTyped, StatusIsPhase DEF ResumeRound, TypeOK, MatchType
    <2>2. rounds' \in [RoundIds -> RoundType]
        <3>1. \A r \in RoundIds :
                [[rounds[r] EXCEPT !.paused = FALSE] EXCEPT !.due = FALSE] \in RoundType
            BY RoundUpdates DEF TypeOK
        <3>2. rounds' = [r \in RoundIds |->
                IF r = Latest(ControlledRounds)
                THEN [[rounds[r] EXCEPT !.paused = FALSE] EXCEPT !.due = FALSE] ELSE rounds[r]]
            BY <1>3 DEF ResumeRound, TypeOK
        <3> QED
            BY <3>1, <3>2 DEF TypeOK
    <2>3. timer' \in [Instances -> 0 .. MaxRounds]
        <3>1. ControlledRounds \in SUBSET (0 .. MaxRounds) /\ ControlledRounds # {}
            BY <1>3 DEF ResumeRound, ControlledRounds, Effective, Created, TypeOK
        <3>2. Latest(ControlledRounds) \in ControlledRounds
            BY <3>1, LatestIsMember
        <3> QED
            BY <1>3, <3>1, <3>2 DEF ResumeRound, TypeOK, Schedule
    <2> QED
        BY <1>3, <2>1, <2>2, <2>3 DEF ResumeRound, TypeOK, history
<1> QED
    BY <1>2, <1>3

\* The passing of a deadline keeps the types.
LEMMA DeadlineTyped ==
    ASSUME TypeOK, NEW q \in RoundIds, DeadlinePasses(q)
    PROVE  TypeOK'
<1>1. rounds' = [r \in RoundIds |-> IF r = q THEN [rounds[r] EXCEPT !.due = TRUE] ELSE rounds[r]]
    BY DEF DeadlinePasses, TypeOK
<1>2. rounds' \in [RoundIds -> RoundType]
    BY <1>1, RoundUpdates DEF TypeOK
<1> QED
    BY <1>2 DEF DeadlinePasses, TypeOK, processVars, history

\* Resolving a window writes at most one score event, on the window's round.
LEMMA ResolveTyped ==
    ASSUME TypeOK, NEW rs \in [RoundIds -> RoundType], Resolve(rs)
    PROVE  rounds' \in [RoundIds -> RoundType] /\ window' \in WindowType
<1>1. CASE rounds' = rs
    BY <1>1, BlankRowsAreTyped DEF Resolve
<1>2. CASE rounds' = [rs EXCEPT ![window.round].scored = nOps, ![window.round].scoredBy = 0]
    <2>1. rounds' = [r \in RoundIds |->
                IF r = window.round
                THEN [[rs[r] EXCEPT !.scored = nOps] EXCEPT !.scoredBy = 0] ELSE rs[r]]
        BY <1>2
    <2>2. \A r \in RoundIds : [rs[r] EXCEPT !.scored = nOps] \in RoundType
        BY RoundUpdates DEF TypeOK
    <2>3. \A r \in RoundIds :
             [[rs[r] EXCEPT !.scored = nOps] EXCEPT !.scoredBy = 0] \in RoundType
        BY <2>2, RoundUpdates, AuditsAreNumbers
    <2> QED
        BY <2>1, <2>3, BlankRowsAreTyped DEF Resolve
<1> QED
    BY <1>1, <1>2 DEF Resolve

\* Ending a round keeps what it writes typed.
LEMMA EndRoundTyped ==
    ASSUME TypeOK, NEW q \in RoundIds, EndRound(q)
    PROVE  /\ match' \in MatchType /\ rounds' \in [RoundIds -> RoundType]
           /\ window' \in WindowType /\ misfired' \in BOOLEAN
<1> DEFINE summary == IF CapturesSummary(q) THEN 0 ELSE None
           ended == [rounds EXCEPT ![q].ended = TRUE, ![q].summary = summary]
<1>1. match' \in MatchType
    <2>1. [[Row(match) EXCEPT !.phase = PhaseAfter(q)] EXCEPT !.lifecycle = "IN_PROGRESS"] \in RowType
        BY RowIsTyped, RowUpdates, StatusIsPhase, PhaseSets
    <2>2. RowAfter(q) \in RowType
        BY <2>1 DEF RowAfter
    <2> QED
        BY <2>2, WriteIsTyped DEF EndRound, TypeOK, MatchType
<1>2. ended \in [RoundIds -> RoundType]
    <2>1. ended = [r \in RoundIds |->
                IF r = q THEN [[rounds[r] EXCEPT !.ended = TRUE] EXCEPT !.summary = summary]
                ELSE rounds[r]]
        BY DEF TypeOK
    <2>2. \A r \in RoundIds : [rounds[r] EXCEPT !.ended = TRUE] \in RoundType
        BY RoundUpdates DEF TypeOK
    <2>3. summary \in Audits \cup {None}
        BY AuditsAreNumbers
    <2>4. \A r \in RoundIds :
             [[rounds[r] EXCEPT !.ended = TRUE] EXCEPT !.summary = summary] \in RoundType
        BY <2>2, <2>3, RoundUpdates
    <2> QED
        BY <2>1, <2>4 DEF TypeOK
<1>3. (rounds' = ended /\ UNCHANGED window) \/ Resolve(ended)
    BY DEF EndRound
<1>4. misfired' \in BOOLEAN
    BY Zenon DEF EndRound, TypeOK
<1> HIDE DEF ended
<1> QED
    BY <1>1, <1>2, <1>3, <1>4, ResolveTyped DEF TypeOK

\* Timers, handlers, crashes and recoveries keep the types.
LEMMA ProcessTyped ==
    ASSUME TypeOK, NEW i \in Instances, Process(i)
    PROVE  TypeOK'
<1>1. CASE TimerFires(i)
    BY <1>1 DEF TimerFires, TypeOK, dbVars, history
<1>2. CASE HandleExpiration(i)
    <2>1. handler[i] \in RoundIds
        BY <1>2 DEF HandleExpiration, TypeOK, RoundIds
    <2>2. handler' \in [Instances -> 0 .. MaxRounds]
        BY <1>2 DEF HandleExpiration, TypeOK
    <2>3. timer' \in [Instances -> 0 .. MaxRounds]
        BY <1>2 DEF HandleExpiration, TypeOK, CancelExpirationOf, Schedule
    <2>4. \/ UNCHANGED <<match, rounds, window, misfired>>
          \/ EndRound(handler[i])
        BY <1>2 DEF HandleExpiration
    <2>5. /\ match' \in MatchType /\ rounds' \in [RoundIds -> RoundType]
          /\ window' \in WindowType /\ misfired' \in BOOLEAN
        BY <2>1, <2>4, EndRoundTyped DEF TypeOK
    <2> QED
        BY <1>2, <2>2, <2>3, <2>5 DEF HandleExpiration, TypeOK
<1>3. CASE HandlerFails(i)
    BY <1>3 DEF HandlerFails, Schedule, TypeOK, dbVars, history
<1>4. CASE Crash(i)
    BY <1>4 DEF Crash, TypeOK, dbVars, history
<1>5. CASE Restart(i)
    <2>1. server' \in [Instances -> {"up", "down", "failed"}]
        BY <1>5 DEF Restart, TypeOK
    <2>2. Recoverable \subseteq RoundIds
        BY DEF Recoverable, Effective, Created, RoundIds, TypeOK
    <2>3. timer' \in [Instances -> 0 .. MaxRounds]
        <3>1. timer' = timer \/ \E r \in Recoverable : timer' = [timer EXCEPT ![i] = r]
            BY <1>5 DEF Restart, Schedule
        <3>2. \A r \in RoundIds : [timer EXCEPT ![i] = r] \in [Instances -> 0 .. MaxRounds]
            BY DEF TypeOK, RoundIds
        <3> QED
            BY <2>2, <3>1, <3>2 DEF TypeOK
    <2>4. \/ UNCHANGED <<match, rounds, window, misfired>>
          \/ \E r \in Recoverable : EndRound(r)
        BY <1>5 DEF Restart
    <2>5. /\ match' \in MatchType /\ rounds' \in [RoundIds -> RoundType]
          /\ window' \in WindowType /\ misfired' \in BOOLEAN
        BY <2>2, <2>4, EndRoundTyped DEF TypeOK
    <2> QED
        BY <1>5, <2>1, <2>3, <2>5 DEF Restart, TypeOK
<1>6. CASE RestartFails(i)
    BY <1>6 DEF RestartFails, TypeOK, dbVars, history
<1> QED
    BY <1>1, <1>2, <1>3, <1>4, <1>5, <1>6 DEF Process

\* Windows and faults keep the types.
LEMMA ScoringTyped ==
    ASSUME TypeOK, ResolveWindow \/ \E r \in RoundIds : OpenWindow(r) \/ RecordFault(r)
    PROVE  TypeOK'
<1>1. CASE ResolveWindow
    BY <1>1, ResolveTyped DEF ResolveWindow, TypeOK, processVars, history
<1>2. ASSUME NEW q \in RoundIds, OpenWindow(q)
      PROVE  TypeOK'
    <2>1. window' \in WindowType
        BY <1>2, AuditsAreNumbers DEF OpenWindow, JudgeAuthorised, WindowType, RoundIds
    <2>2. rounds' = [r \in RoundIds |->
                IF r = q THEN [[rounds[r] EXCEPT !.opened = nOps] EXCEPT !.openedBy = 0]
                ELSE rounds[r]]
        BY <1>2 DEF OpenWindow, JudgeAuthorised, TypeOK
    <2>3. \A r \in RoundIds : [rounds[r] EXCEPT !.opened = nOps] \in RoundType
        BY RoundUpdates DEF TypeOK
    <2>4. \A r \in RoundIds :
             [[rounds[r] EXCEPT !.opened = nOps] EXCEPT !.openedBy = 0] \in RoundType
        BY <2>3, RoundUpdates, AuditsAreNumbers
    <2>5. rounds' \in [RoundIds -> RoundType]
        BY <2>2, <2>4 DEF TypeOK
    <2> QED
        BY <1>2, <2>1, <2>5 DEF OpenWindow, JudgeAuthorised, TypeOK, processVars, history
<1>3. ASSUME NEW q \in RoundIds, RecordFault(q)
      PROVE  TypeOK'
    <2>1. rounds' = [r \in RoundIds |->
                IF r = q THEN [[rounds[r] EXCEPT !.scored = nOps] EXCEPT !.scoredBy = 0]
                ELSE rounds[r]]
        BY <1>3 DEF RecordFault, TypeOK
    <2>2. \A r \in RoundIds : [rounds[r] EXCEPT !.scored = nOps] \in RoundType
        BY RoundUpdates DEF TypeOK
    <2>3. \A r \in RoundIds :
             [[rounds[r] EXCEPT !.scored = nOps] EXCEPT !.scoredBy = 0] \in RoundType
        BY <2>2, RoundUpdates, AuditsAreNumbers
    <2>4. rounds' \in [RoundIds -> RoundType]
        BY <2>1, <2>3 DEF TypeOK
    <2> QED
        BY <1>3, <2>4 DEF RecordFault, TypeOK, processVars, history
<1> QED
    BY <1>1, <1>2, <1>3

\* Taking a match keeps the types.
LEMMA TakeTyped == TypeOK /\ Take => TypeOK'
<1> SUFFICES ASSUME TypeOK, Take PROVE TypeOK'
    OBVIOUS
<1>1. match' \in MatchType
    <2>1. [Row(match) EXCEPT !.lifecycle = IF @ = "SUSPENDED" THEN "IN_PROGRESS" ELSE @] \in RowType
        <3>1. (IF Row(match).lifecycle = "SUSPENDED" THEN "IN_PROGRESS" ELSE Row(match).lifecycle)
                 \in Lifecycles
            BY RowIsTyped, PhaseSets DEF RowType
        <3> QED
            BY <3>1, RowIsTyped, RowUpdates
    <2> QED
        BY <2>1, WriteIsTyped DEF Take
<1> QED
    BY <1>1 DEF Take, TypeOK, processVars, history

\* Recording a result operation between typed rows keeps the operations typed.
LEMMA OperationTyped ==
    ASSUME TypeOK, NEW previous \in RowType, NEW resulting \in RowType,
           RecordOperation(previous, resulting)
    PROVE  ops' \in [OpIds -> OpType] /\ nOps' \in 0 .. MaxOps /\ nOps + 1 \in Audits
<1>1. [status |-> "APPLIED", previous |-> previous, resulting |-> resulting,
       before |-> Effective, open |-> OpenRounds] \in OpType
    BY DEF OpType, Effective, OpenRounds, Created, RoundIds, TypeOK
<1>2. nOps + 1 \in OpIds /\ nOps' \in 0 .. MaxOps
    BY DEF RecordOperation, TypeOK, OpIds
<1> QED
    BY <1>1, <1>2, AuditsAreNumbers DEF RecordOperation, TypeOK

\* Invalidating the window keeps it typed.
LEMMA InvalidatedWindowTyped ==
    ASSUME TypeOK, NEW k \in Audits, NEW scored, InvalidateWindow(k, scored)
    PROVE  window' \in WindowType
BY DEF InvalidateWindow, TypeOK, WindowType

\* Every exit mode leaves a typed row.
LEMMA RowAfterExitTyped ==
    ASSUME TypeOK, NEW mode
    PROVE  RowAfterExit(mode) \in RowType
<1> DEFINE q == [[Row(match) EXCEPT !.lifecycle = "SUSPENDED"] EXCEPT !.finished = FALSE]
<1>1. q \in RowType
    BY RowIsTyped, RowUpdates, PhaseSets
<1> HIDE DEF q
<1>a. [q EXCEPT !.phase = "BREAK"] \in RowType /\ [q EXCEPT !.phase = "AWAITING_RESULT_SAVE"] \in RowType
    BY <1>1, RowUpdates, PhaseSets
<1> DEFINE p1 == [q EXCEPT !.phase = "BREAK"]
           p2 == [q EXCEPT !.phase = "AWAITING_RESULT_SAVE"]
<1>b. p1 \in RowType /\ p2 \in RowType /\ 1 \in 0 .. 2 /\ 2 \in 0 .. 2
    BY <1>a
<1> HIDE DEF p1, p2
<1>2. [p1 EXCEPT !.currentRound = 1] \in RowType
    BY <1>b, RowUpdates
<1>3. [p2 EXCEPT !.currentRound = 2] \in RowType
    BY <1>b, RowUpdates
<1> QED
    BY <1>1, <1>2, <1>3, BlankRowsAreTyped DEF RowAfterExit, q, p1, p2

\* match:exit keeps the types.
LEMMA ExitTyped ==
    ASSUME TypeOK, NEW i \in Instances, NEW mode \in ExitModes, ExitMatch(i, mode)
    PROVE  TypeOK'
<1> DEFINE matching == {r \in Created : rounds[r].number \in InvalidatedNumbers(mode)}
           k == nOps + 1
           By(r) == IF r \in matching \cap Effective THEN k ELSE rounds[r].by
           OpenedBy(r) == IF r \in matching /\ HasWindow(r) THEN k ELSE rounds[r].openedBy
           ScoredBy(r) == IF r \in matching /\ HasScore(r) THEN k ELSE rounds[r].scoredBy
<1>1. ops' \in [OpIds -> OpType] /\ nOps' \in 0 .. MaxOps /\ k \in Audits
    BY OperationTyped, RowIsTyped, RowAfterExitTyped DEF ExitMatch, ExitAllowed, RoundsAfterExit
<1>2. match' \in MatchType
    BY WriteIsTyped, RowAfterExitTyped DEF ExitMatch, ExitAllowed, RoundsAfterExit
<1>3. window' \in WindowType
    BY <1>1, InvalidatedWindowTyped DEF ExitMatch, ExitAllowed, RoundsAfterExit
<1>4. rounds' \in [RoundIds -> RoundType]
    <2>1. rounds' = [r \in RoundIds |->
                        [[[rounds[r] EXCEPT !.by = By(r)] EXCEPT !.openedBy = OpenedBy(r)]
                            EXCEPT !.scoredBy = ScoredBy(r)]]
        BY DEF ExitMatch, ExitAllowed, RoundsAfterExit
    <2>2. \A r \in RoundIds :
             By(r) \in Audits /\ OpenedBy(r) \in Audits /\ ScoredBy(r) \in Audits
        BY <1>1 DEF TypeOK, RoundType
    <2> HIDE DEF By, OpenedBy, ScoredBy
    <2>3. \A r \in RoundIds : [rounds[r] EXCEPT !.by = By(r)] \in RoundType
        BY <2>2, RoundUpdates DEF TypeOK
    <2>4. \A r \in RoundIds :
             [[rounds[r] EXCEPT !.by = By(r)] EXCEPT !.openedBy = OpenedBy(r)] \in RoundType
        BY <2>2, <2>3, RoundUpdates
    <2>5. \A r \in RoundIds :
             [[[rounds[r] EXCEPT !.by = By(r)] EXCEPT !.openedBy = OpenedBy(r)]
                 EXCEPT !.scoredBy = ScoredBy(r)] \in RoundType
        BY <2>2, <2>4, RoundUpdates
    <2> QED
        BY <2>1, <2>5
<1>5. timer' \in [Instances -> 0 .. MaxRounds]
    <2>1. timer' = [timer EXCEPT ![i] = 0]
        BY DEF ExitMatch, ExitAllowed, RoundsAfterExit, CancelExpiration
    <2> QED
        BY <2>1 DEF TypeOK
<1>6. crew' \in BOOLEAN
    BY Zenon DEF ExitMatch, ExitAllowed, RoundsAfterExit
<1>7. stranded' \in BOOLEAN
    BY Zenon DEF ExitMatch, TypeOK
<1> QED
    BY <1>1, <1>2, <1>3, <1>4, <1>5, <1>6, <1>7 DEF ExitMatch, TypeOK

\* One-column updates of an appeal keep its type.
LEMMA AppealUpdates ==
    ASSUME NEW q \in AppealType
    PROVE  /\ \A x \in Audits : [q EXCEPT !.by = x] \in AppealType
           /\ \A x \in Audits : [q EXCEPT !.winnerBy = x] \in AppealType
           /\ \A x \in Colours : [q EXCEPT !.winner = x] \in AppealType
           /\ \A x \in 0 .. MaxOps : [q EXCEPT !.winnerStamp = x] \in AppealType
           /\ \A x \in 0 .. MaxOps : [q EXCEPT !.stamp = x] \in AppealType
           /\ \A x \in {"REGULATION", "OVERTIME"} : [q EXCEPT !.scope = x] \in AppealType
           /\ \A x \in 0 .. MaxRounds : [q EXCEPT !.attempt = x] \in AppealType
           /\ \A x \in 0 .. MaxRounds : [q EXCEPT !.source = x] \in AppealType
           /\ \A x \in SUBSET RoundIds : [q EXCEPT !.rounds = x] \in AppealType
           /\ \A x \in Colours \cup {"TIE"} : [q EXCEPT !.result = x] \in AppealType
BY DEF AppealType

\* round:cancel and match:reset keep the types.
LEMMA CancelTyped ==
    ASSUME TypeOK, NEW i \in Instances, NEW entireMatch \in BOOLEAN, CancelResults(i, entireMatch)
    PROVE  TypeOK'
<1> DEFINE selected == SelectedRounds(entireMatch)
           k == nOps + 1
           firstRound == \E r \in selected : rounds[r].stage = "REGULATION" /\ rounds[r].number = 1
           nextPhase == IF entireMatch \/ firstRound THEN "WAITING"
                        ELSE IF \E r \in selected : rounds[r].stage = "OVERTIME"
                             THEN "OVERTIME_READY" ELSE "BREAK"
           next == [phase |-> nextPhase,
                    lifecycle |-> IF nextPhase = "WAITING" THEN "NOT_STARTED" ELSE "IN_PROGRESS",
                    currentRound |-> IF nextPhase = "WAITING" THEN 0 ELSE 1,
                    started |-> nextPhase # "WAITING" /\ match.started,
                    finished |-> FALSE]
           affected == {a \in 1 .. nAppeals :
                        appeals[a].by = 0 /\ (entireMatch \/ appeals[a].rounds \cap selected # {})}
           By(r) == IF r \in selected THEN k ELSE rounds[r].by
           Summary(r) == IF r \in selected /\ rounds[r].summary = 0 THEN k ELSE rounds[r].summary
           OpenedBy(r) == IF r \in selected /\ HasWindow(r) THEN k ELSE rounds[r].openedBy
           ScoredBy(r) == IF (entireMatch \/ r \in selected) /\ HasScore(r)
                          THEN k ELSE rounds[r].scoredBy
           AppealBy(a) == IF a \in affected THEN k ELSE appeals[a].by
           WinnerBy(a) == IF /\ appeals[a].winner # "NONE" /\ appeals[a].winnerBy = 0
                             /\ a \in affected \/ appeals[a].source \in selected
                          THEN k ELSE appeals[a].winnerBy
<1>1. next \in RowType
    BY PhaseSets DEF RowType
<1>2. [Row(match) EXCEPT !.lifecycle = LifecycleForPhase(match.phase)] \in RowType
    BY RowIsTyped, RowUpdates, StatusIsPhase
<1>3. ops' \in [OpIds -> OpType] /\ nOps' \in 0 .. MaxOps /\ k \in Audits
    <2>1. RecordOperation([Row(match) EXCEPT !.lifecycle = LifecycleForPhase(match.phase)], next)
        BY DEF CancelResults, RoundsAfterCancellation, AffectedAppeals, AppealsAfterCancellation
    <2> HIDE DEF next
    <2> QED
        BY <1>1, <1>2, <2>1, OperationTyped
<1>4. match' \in MatchType
    <2>1. WriteMatch(next, match.suspended) /\ match.suspended \in BOOLEAN
        BY DEF CancelResults, RoundsAfterCancellation, AffectedAppeals,
          AppealsAfterCancellation, TypeOK, MatchType
    <2> HIDE DEF next
    <2> QED
        BY <1>1, <2>1, WriteIsTyped
<1>5. window' \in WindowType
    <2>1. InvalidateWindow(k, selected)
        BY DEF CancelResults, RoundsAfterCancellation, AffectedAppeals, AppealsAfterCancellation
    <2> HIDE DEF k, selected
    <2> QED
        BY <1>3, <2>1, InvalidatedWindowTyped
<1>6. rounds' \in [RoundIds -> RoundType]
    <2>1. rounds' = [r \in RoundIds |->
            [[[[rounds[r] EXCEPT !.by = By(r)] EXCEPT !.summary = Summary(r)]
                EXCEPT !.openedBy = OpenedBy(r)] EXCEPT !.scoredBy = ScoredBy(r)]]
        BY DEF CancelResults, RoundsAfterCancellation, AffectedAppeals, AppealsAfterCancellation
    <2>2. \A r \in RoundIds :
            /\ By(r) \in Audits /\ Summary(r) \in Audits \cup {None}
            /\ OpenedBy(r) \in Audits /\ ScoredBy(r) \in Audits
        <3> HIDE DEF selected, k
        <3> QED
            BY <1>3 DEF TypeOK, RoundType
    <2> HIDE DEF By, Summary, OpenedBy, ScoredBy
    <2>3. \A r \in RoundIds : [rounds[r] EXCEPT !.by = By(r)] \in RoundType
        BY <2>2, RoundUpdates DEF TypeOK
    <2>4. \A r \in RoundIds :
             [[rounds[r] EXCEPT !.by = By(r)] EXCEPT !.summary = Summary(r)] \in RoundType
        BY <2>2, <2>3, RoundUpdates
    <2>5. \A r \in RoundIds :
             [[[rounds[r] EXCEPT !.by = By(r)] EXCEPT !.summary = Summary(r)]
                 EXCEPT !.openedBy = OpenedBy(r)] \in RoundType
        BY <2>2, <2>4, RoundUpdates
    <2>6. \A r \in RoundIds :
             [[[[rounds[r] EXCEPT !.by = By(r)] EXCEPT !.summary = Summary(r)]
                 EXCEPT !.openedBy = OpenedBy(r)] EXCEPT !.scoredBy = ScoredBy(r)] \in RoundType
        BY <2>2, <2>5, RoundUpdates
    <2> QED
        BY <2>1, <2>6
<1>7. appeals' \in [AppealIds -> AppealType]
    <2>1. appeals' = [a \in AppealIds |->
            [[appeals[a] EXCEPT !.by = AppealBy(a)] EXCEPT !.winnerBy = WinnerBy(a)]]
        BY DEF CancelResults, RoundsAfterCancellation, AffectedAppeals, AppealsAfterCancellation
    <2>2. \A a \in AppealIds : AppealBy(a) \in Audits /\ WinnerBy(a) \in Audits
        <3> HIDE DEF selected, k, affected
        <3> QED
            BY <1>3 DEF TypeOK, AppealType
    <2> HIDE DEF AppealBy, WinnerBy
    <2>3. \A a \in AppealIds : [appeals[a] EXCEPT !.by = AppealBy(a)] \in AppealType
        BY <2>2, AppealUpdates DEF TypeOK
    <2>4. \A a \in AppealIds :
             [[appeals[a] EXCEPT !.by = AppealBy(a)] EXCEPT !.winnerBy = WinnerBy(a)] \in AppealType
        BY <2>2, <2>3, AppealUpdates
    <2> QED
        BY <2>1, <2>4
<1>8. timer' \in [Instances -> 0 .. MaxRounds]
    <2>1. timer' = [timer EXCEPT ![i] = 0]
        BY DEF CancelResults, RoundsAfterCancellation, AffectedAppeals,
          AppealsAfterCancellation, CancelExpiration
    <2> QED
        BY <2>1 DEF TypeOK
<1>9. crew' \in BOOLEAN
    BY Zenon DEF CancelResults, RoundsAfterCancellation, AffectedAppeals,
      AppealsAfterCancellation, TypeOK
<1> QED
    BY <1>3, <1>4, <1>5, <1>6, <1>7, <1>8, <1>9 DEF CancelResults, RoundsAfterCancellation,
      AffectedAppeals, AppealsAfterCancellation, TypeOK, history

\* result-cancellation:undo keeps the types.
LEMMA UndoTyped ==
    ASSUME TypeOK, NEW i \in Instances, NEW k \in OpIds, Undo(i, k)
    PROVE  TypeOK'
<1> DEFINE Restored(audit) == IF audit = k THEN 0 ELSE audit
<1>1. \A x \in Audits : Restored(x) \in Audits
    BY AuditsAreNumbers
<1>2. \A x \in Audits \cup {None} : Restored(x) \in Audits \cup {None}
    BY AuditsAreNumbers
<1>3. match' \in MatchType
    <2>1. ops[k].previous \in RowType /\ match.suspended \in BOOLEAN
        BY DEF TypeOK, OpType, MatchType
    <2> QED
        BY <2>1, WriteIsTyped DEF Undo
<1>4. rounds' = [r \in RoundIds |->
            [[[[rounds[r] EXCEPT !.by = Restored(rounds[r].by)]
                EXCEPT !.summary = Restored(rounds[r].summary)]
                EXCEPT !.openedBy = Restored(rounds[r].openedBy)]
                EXCEPT !.scoredBy = Restored(rounds[r].scoredBy)]]
    BY DEF Undo
<1>5. window' = [window EXCEPT !.by = Restored(window.by)]
    BY DEF Undo
<1>6. appeals' = [a \in AppealIds |->
            [[appeals[a] EXCEPT !.by = Restored(appeals[a].by)]
                EXCEPT !.winnerBy = Restored(appeals[a].winnerBy)]]
    BY DEF Undo
<1> HIDE DEF Restored
<1>7. rounds' \in [RoundIds -> RoundType]
    <2>1. \A r \in RoundIds : /\ rounds[r] \in RoundType /\ rounds[r].by \in Audits
                              /\ rounds[r].openedBy \in Audits
                              /\ rounds[r].scoredBy \in Audits
                              /\ rounds[r].summary \in Audits \cup {None}
        BY DEF TypeOK, RoundType
    <2>2. \A r \in RoundIds : [rounds[r] EXCEPT !.by = Restored(rounds[r].by)] \in RoundType
        BY <2>1, <1>1, RoundUpdates
    <2>3. \A r \in RoundIds : [[rounds[r] EXCEPT !.by = Restored(rounds[r].by)]
                EXCEPT !.summary = Restored(rounds[r].summary)] \in RoundType
        BY <2>1, <2>2, <1>2, RoundUpdates
    <2>4. \A r \in RoundIds : [[[rounds[r] EXCEPT !.by = Restored(rounds[r].by)]
                EXCEPT !.summary = Restored(rounds[r].summary)]
                EXCEPT !.openedBy = Restored(rounds[r].openedBy)] \in RoundType
        BY <2>1, <2>3, <1>1, RoundUpdates
    <2>5. \A r \in RoundIds : [[[[rounds[r] EXCEPT !.by = Restored(rounds[r].by)]
                EXCEPT !.summary = Restored(rounds[r].summary)]
                EXCEPT !.openedBy = Restored(rounds[r].openedBy)]
                EXCEPT !.scoredBy = Restored(rounds[r].scoredBy)] \in RoundType
        BY <2>1, <2>4, <1>1, RoundUpdates
    <2> QED
        BY <1>4, <2>5
<1>8. window' \in WindowType
    BY <1>5, <1>1 DEF TypeOK, WindowType
<1>9. appeals' \in [AppealIds -> AppealType]
    <2>1. \A a \in AppealIds : /\ appeals[a] \in AppealType /\ appeals[a].by \in Audits
                               /\ appeals[a].winnerBy \in Audits
        BY DEF TypeOK, AppealType
    <2>2. \A a \in AppealIds : [appeals[a] EXCEPT !.by = Restored(appeals[a].by)] \in AppealType
        BY <2>1, <1>1, AppealUpdates
    <2>3. \A a \in AppealIds : [[appeals[a] EXCEPT !.by = Restored(appeals[a].by)]
                EXCEPT !.winnerBy = Restored(appeals[a].winnerBy)] \in AppealType
        BY <2>1, <2>2, <1>1, AppealUpdates
    <2> QED
        BY <1>6, <2>3
<1>10. ops' \in [OpIds -> OpType]
    <2>1. \A op \in OpType : [op EXCEPT !.status = "UNDONE"] \in OpType
        BY DEF OpType
    <2> QED
        BY <2>1 DEF Undo, TypeOK
<1>11. disordered' \in BOOLEAN
    BY Zenon DEF Undo, TypeOK
<1> QED
    BY <1>3, <1>7, <1>8, <1>9, <1>10, <1>11 DEF Undo, TypeOK, processVars

\* Writing one phase and leaving the other columns keeps the row typed.
LEMMA PhaseWriteTyped ==
    ASSUME TypeOK, NEW phase \in Phases,
           WriteMatch([Row(match) EXCEPT !.phase = phase], match.suspended)
    PROVE  match' \in MatchType
<1>1. [Row(match) EXCEPT !.phase = phase] \in RowType
    BY RowIsTyped, RowUpdates
<1>2. match.suspended \in BOOLEAN
    BY DEF TypeOK, MatchType
<1> QED
    BY <1>1, <1>2, WriteIsTyped

\* Retiring stale appeals keeps the appeals typed.
LEMMA WithoutStaleTyped == TypeOK => WithoutStale(appeals) \in [AppealIds -> AppealType]
BY AppealUpdates, AuditsAreNumbers DEF WithoutStale, TypeOK

\* Completing the regulation appeal, or replaying the command, keeps the types.
LEMMA RegulationAppealTyped ==
    ASSUME TypeOK, NEW result \in Colours \cup {"TIE"},
           CompleteRegulationAppeal(result) \/ ReplayRegulationAppeal
    PROVE  TypeOK'
<1>1. CASE CompleteRegulationAppeal(result)
    <2> DEFINE sources == Ended({r \in Effective : rounds[r].stage = "REGULATION"})
    <2>1. sources \in SUBSET RoundIds
        BY DEF Ended, Effective, Created, RoundIds, TypeOK
    <2>2. PICK r2 \in sources : appeals' = [WithoutStale(appeals) EXCEPT ![nAppeals + 1] =
               [NoAppeal EXCEPT !.scope = "REGULATION", !.source = r2, !.rounds = sources,
                                !.result = result, !.stamp = nOps]]
        BY <1>1 DEF CompleteRegulationAppeal, RegulationAppeal, PhaseAfterRegulation
    <2>3. r2 \in 0 .. MaxRounds /\ nOps \in 0 .. MaxOps
        BY <2>1 DEF RoundIds, TypeOK
    <2> HIDE DEF sources
    <2> DEFINE q1 == [NoAppeal EXCEPT !.scope = "REGULATION"]
               q2 == [q1 EXCEPT !.source = r2]
               q3 == [q2 EXCEPT !.rounds = sources]
               q4 == [q3 EXCEPT !.result = result]
               q5 == [q4 EXCEPT !.stamp = nOps]
    <2>4. q1 \in AppealType
        BY BlankRowsAreTyped, AppealUpdates
    <2> HIDE DEF q1
    <2>5. q2 \in AppealType
        BY <2>4, <2>3, AppealUpdates
    <2> HIDE DEF q2
    <2>6. q3 \in AppealType
        BY <2>5, <2>1, AppealUpdates
    <2> HIDE DEF q3
    <2>7. q4 \in AppealType
        BY <2>6, AppealUpdates
    <2> HIDE DEF q4
    <2>8. q5 \in AppealType
        BY <2>7, <2>3, AppealUpdates
    <2>9. appeals' = [WithoutStale(appeals) EXCEPT ![nAppeals + 1] = q5]
        BY <2>2 DEF q1, q2, q3, q4
    <2> HIDE DEF q5
    <2>10. appeals' \in [AppealIds -> AppealType]
        BY <2>8, <2>9, WithoutStaleTyped
    <2>11. match' \in MatchType
        <3>1. (IF result = "TIE" THEN "OVERTIME_READY" ELSE "RESULT_PUBLICATION_READY") \in Phases
            BY PhaseSets
        <3> QED
            BY <1>1, <3>1, PhaseWriteTyped DEF CompleteRegulationAppeal, RegulationAppeal,
              PhaseAfterRegulation
    <2>12. nAppeals' \in 0 .. MaxAppeals
        <3>1. nAppeals' = nAppeals + 1 /\ nAppeals < MaxAppeals
            BY <1>1 DEF CompleteRegulationAppeal, RegulationAppeal, PhaseAfterRegulation
        <3> QED
            BY <3>1 DEF TypeOK
    <2> QED
        BY <1>1, <2>10, <2>11, <2>12
        DEF CompleteRegulationAppeal, RegulationAppeal, PhaseAfterRegulation, AppealUnchanged,
          TypeOK, processVars, history
<1>2. CASE ReplayRegulationAppeal
    BY <1>2, WithoutStaleTyped
    DEF ReplayRegulationAppeal, AppealUnchanged, TypeOK, processVars, history
<1> QED
    BY <1>1, <1>2

\* Completing the overtime appeal keeps the types.
LEMMA OvertimeAppealTyped ==
    ASSUME TypeOK, NEW result \in Colours \cup {"TIE"}, CompleteOvertimeAppeal(result)
    PROVE  TypeOK'
<1> DEFINE played == Ended(EffectiveOf("OVERTIME", 1))
           r == HighestAttempt(played)
<1>1. appeals' = [appeals EXCEPT ![nAppeals + 1] =
               [NoAppeal EXCEPT !.scope = "OVERTIME", !.attempt = rounds[r].attempt,
                                !.source = r, !.rounds = {r}, !.result = result, !.stamp = nOps]]
    BY DEF CompleteOvertimeAppeal, OvertimeAppeal, PhaseAfterOvertime
<1>2. r \in RoundIds
    <2>1. /\ played \in SUBSET (0 .. MaxRounds) /\ played # {}
          /\ \A x \in played : x \in RoundIds /\ rounds[x].attempt \in 0 .. MaxRounds
        BY DEF CompleteOvertimeAppeal, OvertimeAppeal, PhaseAfterOvertime, Ended, EffectiveOf,
          Effective, Created, RoundIds, TypeOK,
            RoundType
    <2> HIDE DEF played
    <2> DEFINE best == Latest({rounds[x].attempt : x \in played})
    <2>2. best \in {rounds[x].attempt : x \in played}
             /\ \A y \in {rounds[x].attempt : x \in played} : y <= best
        <3>1. /\ {rounds[x].attempt : x \in played} \in SUBSET (0 .. MaxRounds)
              /\ {rounds[x].attempt : x \in played} # {}
            BY <2>1
        <3> QED
            BY <3>1, LatestIsMember
    <2> HIDE DEF best
    <2>3. \E x \in played : \A y \in played : rounds[y].attempt <= rounds[x].attempt
        BY <2>2
    <2>4. r \in played
        BY <2>3 DEF HighestAttempt
    <2> QED
        BY <2>1, <2>4
<1>3. r \in 0 .. MaxRounds /\ rounds[r].attempt \in 0 .. MaxRounds /\ {r} \in SUBSET RoundIds
         /\ nOps \in 0 .. MaxOps
    BY <1>2 DEF RoundIds, TypeOK, RoundType
<1> HIDE DEF r
<1> DEFINE q1 == [NoAppeal EXCEPT !.scope = "OVERTIME"]
           q2 == [q1 EXCEPT !.attempt = rounds[r].attempt]
           q3 == [q2 EXCEPT !.source = r]
           q4 == [q3 EXCEPT !.rounds = {r}]
           q5 == [q4 EXCEPT !.result = result]
           q6 == [q5 EXCEPT !.stamp = nOps]
<1>4. q1 \in AppealType
    BY BlankRowsAreTyped, AppealUpdates
<1> HIDE DEF q1
<1>5. q2 \in AppealType
    BY <1>4, <1>3, AppealUpdates
<1> HIDE DEF q2
<1>6. q3 \in AppealType
    BY <1>5, <1>3, AppealUpdates
<1> HIDE DEF q3
<1>7. q4 \in AppealType
    BY <1>6, <1>3, AppealUpdates
<1> HIDE DEF q4
<1>8. q5 \in AppealType
    BY <1>7, AppealUpdates
<1> HIDE DEF q5
<1>9. q6 \in AppealType
    BY <1>8, <1>3, AppealUpdates
<1>10. appeals' = [appeals EXCEPT ![nAppeals + 1] = q6]
    BY <1>1 DEF q1, q2, q3, q4, q5
<1> HIDE DEF q6
<1>11. appeals' \in [AppealIds -> AppealType]
    BY <1>9, <1>10 DEF TypeOK
<1>12. match' \in MatchType
    <2>1. (IF result = "TIE" THEN "OVERTIME_TIEBREAK_DECISION" ELSE "RESULT_PUBLICATION_READY")
             \in Phases
        BY PhaseSets
    <2> QED
        BY <2>1, PhaseWriteTyped DEF CompleteOvertimeAppeal, OvertimeAppeal, PhaseAfterOvertime
<1>13. nAppeals' \in 0 .. MaxAppeals
    <2>1. nAppeals' = nAppeals + 1 /\ nAppeals < MaxAppeals
        BY DEF CompleteOvertimeAppeal, OvertimeAppeal, PhaseAfterOvertime
    <2> QED
        BY <2>1 DEF TypeOK
<1> QED
    BY <1>11, <1>12, <1>13
    DEF CompleteOvertimeAppeal, OvertimeAppeal, PhaseAfterOvertime, AppealUnchanged, TypeOK,
      processVars, history

\* Restarting the overtime, or deciding it by hand, keeps the types.
LEMMA TieBreakTyped ==
    ASSUME TypeOK, RestartOvertime \/ \E colour \in Colours : ManualWinner(colour)
    PROVE  TypeOK'
<1>1. CASE RestartOvertime
    <2> DEFINE a == TiedAppeal
               r == appeals[a].source
               Summary(q) == IF rounds[q].summary = 0 THEN OtherAudit ELSE rounds[q].summary
               OpenedBy(q) == IF HasWindow(r) THEN OtherAudit ELSE rounds[q].openedBy
               ScoredBy(q) == IF HasScore(r) THEN OtherAudit ELSE rounds[q].scoredBy
               WinnerBy(b) == IF appeals[a].winner # "NONE" /\ appeals[b].winnerBy = 0
                              THEN OtherAudit ELSE appeals[b].winnerBy
    <2>1. rounds' = [q \in RoundIds |-> IF q = r
             THEN [[[[rounds[q] EXCEPT !.by = OtherAudit] EXCEPT !.summary = Summary(q)]
                      EXCEPT !.openedBy = OpenedBy(q)] EXCEPT !.scoredBy = ScoredBy(q)]
             ELSE rounds[q]]
        BY <1>1 DEF RestartOvertime, TypeOK
    <2>2. appeals' = [b \in AppealIds |-> IF b = a
             THEN [[appeals[b] EXCEPT !.by = OtherAudit] EXCEPT !.winnerBy = WinnerBy(b)]
             ELSE appeals[b]]
        BY <1>1 DEF RestartOvertime, TypeOK
    <2>3. \A q \in RoundIds : /\ Summary(q) \in Audits \cup {None}
                              /\ OpenedBy(q) \in Audits /\ ScoredBy(q) \in Audits
        BY AuditsAreNumbers DEF TypeOK, RoundType
    <2>4. \A b \in AppealIds : WinnerBy(b) \in Audits
        BY AuditsAreNumbers DEF TypeOK, AppealType
    <2>5. window' \in WindowType
        <3>1. [window EXCEPT !.by = OtherAudit] \in WindowType
            BY AuditsAreNumbers DEF TypeOK, WindowType
        <3>2. window' = window \/ window' = [window EXCEPT !.by = OtherAudit]
            BY <1>1 DEF RestartOvertime
        <3> QED
            BY <3>1, <3>2 DEF TypeOK
    <2> HIDE DEF a, r, Summary, OpenedBy, ScoredBy, WinnerBy
    <2>6. rounds' \in [RoundIds -> RoundType]
        <3>1. \A q \in RoundIds : [rounds[q] EXCEPT !.by = OtherAudit] \in RoundType
            BY AuditsAreNumbers, RoundUpdates DEF TypeOK
        <3>2. \A q \in RoundIds :
                [[rounds[q] EXCEPT !.by = OtherAudit] EXCEPT !.summary = Summary(q)] \in RoundType
            BY <2>3, <3>1, RoundUpdates
        <3>3. \A q \in RoundIds :
                [[[rounds[q] EXCEPT !.by = OtherAudit] EXCEPT !.summary = Summary(q)]
                    EXCEPT !.openedBy = OpenedBy(q)] \in RoundType
            BY <2>3, <3>2, RoundUpdates
        <3>4. \A q \in RoundIds :
                [[[[rounds[q] EXCEPT !.by = OtherAudit] EXCEPT !.summary = Summary(q)]
                    EXCEPT !.openedBy = OpenedBy(q)] EXCEPT !.scoredBy = ScoredBy(q)] \in RoundType
            BY <2>3, <3>3, RoundUpdates
        <3> QED
            BY <2>1, <3>4 DEF TypeOK
    <2>7. appeals' \in [AppealIds -> AppealType]
        <3>1. \A b \in AppealIds : [appeals[b] EXCEPT !.by = OtherAudit] \in AppealType
            BY AuditsAreNumbers, AppealUpdates DEF TypeOK
        <3>2. \A b \in AppealIds :
                [[appeals[b] EXCEPT !.by = OtherAudit] EXCEPT !.winnerBy = WinnerBy(b)] \in AppealType
            BY <2>4, <3>1, AppealUpdates
        <3> QED
            BY <2>2, <3>2 DEF TypeOK
    <2>8. match' \in MatchType
        BY <1>1, PhaseWriteTyped, PhaseSets DEF RestartOvertime
    <2> QED
        BY <1>1, <2>5, <2>6, <2>7, <2>8 DEF RestartOvertime, TypeOK, processVars, history
<1>2. ASSUME NEW colour \in Colours, ManualWinner(colour)
      PROVE  TypeOK'
    <2> DEFINE a == TiedAppeal
    <2>1. appeals' = [b \in AppealIds |-> IF b = a
             THEN [[appeals[b] EXCEPT !.winner = colour] EXCEPT !.winnerStamp = nOps]
             ELSE appeals[b]]
        BY <1>2 DEF ManualWinner, TypeOK
    <2> HIDE DEF a
    <2>2. \A b \in AppealIds : [appeals[b] EXCEPT !.winner = colour] \in AppealType
        BY AppealUpdates DEF TypeOK
    <2>3. \A b \in AppealIds :
            [[appeals[b] EXCEPT !.winner = colour] EXCEPT !.winnerStamp = nOps] \in AppealType
        BY <2>2, AppealUpdates DEF TypeOK
    <2>4. appeals' \in [AppealIds -> AppealType]
        BY <2>1, <2>3 DEF TypeOK
    <2>5. match' \in MatchType
        BY <1>2, PhaseWriteTyped, PhaseSets DEF ManualWinner
    <2> QED
        BY <1>2, <2>4, <2>5 DEF ManualWinner, AppealUnchanged, TypeOK, processVars, history
<1> QED
    BY <1>1, <1>2

\* The appeal that publication rests on is one of the stored ones, and an appeal
\* that can yield a winner yields a colour.
LEMMA WinnerIsColour ==
    ASSUME TypeOK, Publishable # {}, CanYieldWinner(Latest(Publishable))
    PROVE  WinnerOf(Latest(Publishable)) \in Colours
<1> DEFINE a == Latest(Publishable)
<1>1. a \in AppealIds
    <2>1. Publishable \in SUBSET (0 .. MaxAppeals)
        BY DEF Publishable, TypeOK
    <2>2. a \in Publishable
        BY <2>1, LatestIsMember
    <2> HIDE DEF a
    <2>3. a \in 1 .. nAppeals
        BY <2>2 DEF Publishable
    <2> QED
        BY <2>3 DEF AppealIds, TypeOK
<1>2. CanYieldWinner(a)
    OBVIOUS
<1> HIDE DEF a
<1>3. appeals[a].winner \in Colours \cup {"NONE"} /\ appeals[a].result \in Colours \cup {"TIE"}
    BY <1>1 DEF TypeOK, AppealType
<1>4. WinnerOf(a) \in Colours
    BY <1>2, <1>3 DEF WinnerOf, CanYieldWinner, HasDecision
<1> QED
    BY <1>4 DEF a

\* Publishing keeps the types.
LEMMA PublishTyped == TypeOK /\ Publish => TypeOK'
<1> SUFFICES ASSUME TypeOK, Publish PROVE TypeOK'
    OBVIOUS
<1>1. outcome' \in [winner : Colours \cup {"NONE"}, stamp : 0 .. MaxOps]
    <2>1. outcome' = [winner |-> WinnerOf(Latest(Publishable)), stamp |-> nOps]
        BY DEF Publish, MayPublish
    <2>2. WinnerOf(Latest(Publishable)) \in Colours
        BY WinnerIsColour DEF Publish, MayPublish
    <2> QED
        BY <2>1, <2>2 DEF TypeOK
<1>2. match' \in MatchType
    <2>1. [[[Row(match) EXCEPT !.phase = "FINISHED"] EXCEPT !.lifecycle = "COMPLETED"]
              EXCEPT !.finished = TRUE] \in RowType
        BY RowIsTyped, RowUpdates, PhaseSets
    <2>2. match.suspended \in BOOLEAN
        BY DEF TypeOK, MatchType
    <2> QED
        BY <2>1, <2>2, WriteIsTyped DEF Publish, MayPublish
<1>3. crew' \in BOOLEAN
    BY Zenon DEF Publish, MayPublish
<1> QED
    BY <1>1, <1>2, <1>3 DEF Publish, MayPublish, TypeOK, processVars, history

\* Every step keeps the types.
LEMMA TypeStep == TypeOK /\ [Next]_vars => TypeOK'
<1> SUFFICES ASSUME TypeOK, [Next]_vars PROVE TypeOK'
    OBVIOUS
<1>1. CASE Officials
    BY <1>1, TakeTyped, ScoringTyped, RegulationAppealTyped, OvertimeAppealTyped, TieBreakTyped,
       PublishTyped DEF Officials, Colours
<1>2. CASE Clock
    BY <1>2, ScoringTyped, DeadlineTyped DEF Clock
<1>3. ASSUME NEW i \in Instances, Command(i)
      PROVE  TypeOK'
    BY <1>3, StartRoundTyped, PauseResumeTyped, ExitTyped, CancelTyped, UndoTyped DEF Command
<1>4. ASSUME NEW i \in Instances, Process(i)
      PROVE  TypeOK'
    BY <1>4, ProcessTyped
<1>5. CASE UNCHANGED vars
    BY <1>5 DEF vars, dbVars, processVars, history, TypeOK
<1> QED
    BY <1>1, <1>2, <1>3, <1>4, <1>5 DEF Next

\* Type correctness: whatever officials, timers, crashes and recoveries do, each
\* row keeps its columns' types; in particular a published winner is a colour.
THEOREM TypeCorrect == Spec => []TypeOK
<1>1. Init => TypeOK
    BY TypeInit
<1>2. TypeOK /\ [Next]_vars => TypeOK'
    BY TypeStep
<1> QED
    BY <1>1, <1>2, PTL DEF Spec

-----------------------------------------------------------------------------
(* Legal rows.                                                              *)

\* A match row written from agreeing columns agrees and passes the checks.
LEMMA WriteAgrees ==
    ASSUME NEW row, NEW suspended, AgreeingColumns(row), WriteMatch(row, suspended)
    PROVE  AgreeingColumns(match') /\ DbChecks(match')
BY DEF WriteMatch, AgreeingColumns

\* A step that records no operation keeps LegalRows when its row agrees.
LEMMA LegalWithoutOperation ==
    ASSUME LegalRows, UNCHANGED nOps, AgreeingColumns(match'), DbChecks(match'),
           \A k \in 1 .. nOps : /\ ops'[k].previous = ops[k].previous
                                /\ ops'[k].resulting = ops[k].resulting
    PROVE  LegalRows'
BY DEF LegalRows, AgreeingColumns

\* A step that records an operation keeps LegalRows when both rows agree.
LEMMA LegalWithOperation ==
    ASSUME TypeOK, LegalRows, AgreeingColumns(match'), DbChecks(match'),
           NEW previous, NEW resulting, AgreeingColumns(previous), AgreeingColumns(resulting),
           RecordOperation(previous, resulting)
    PROVE  LegalRows'
<1> DEFINE new == [status |-> "APPLIED", previous |-> previous, resulting |-> resulting,
                   before |-> Effective, open |-> OpenRounds]
<1>1. nOps' = nOps + 1 /\ nOps + 1 \in OpIds /\ ops' = [ops EXCEPT ![nOps + 1] = new]
    BY DEF RecordOperation, TypeOK, OpIds
<1>2. ops'[nOps + 1].previous = previous /\ ops'[nOps + 1].resulting = resulting
    BY <1>1 DEF TypeOK
<1>3. \A k \in 1 .. nOps : ops'[k] = ops[k]
    BY <1>1 DEF TypeOK, OpIds
<1>4. \A k \in 1 .. nOps' : k \in 1 .. nOps \/ k = nOps + 1
    BY <1>1 DEF TypeOK
<1>5. \A k \in 1 .. nOps' : AgreeingColumns(ops'[k].previous) /\ AgreeingColumns(ops'[k].resulting)
    BY <1>2, <1>3, <1>4 DEF LegalRows
<1> QED
    BY <1>5 DEF LegalRows, AgreeingColumns

\* Starting, pausing and resuming a round keep the rows legal.
LEMMA RunningLegal ==
    ASSUME LegalRows, NEW i \in Instances, StartRound(i) \/ PauseRound(i) \/ ResumeRound(i)
    PROVE  LegalRows'
<1>1. AgreeingColumns(match') /\ DbChecks(match')
    <2>1. CASE StartRound(i)
        <3>1. PICK d \in NextDescriptors :
                WriteMatch([Row(match) EXCEPT
                           !.phase = RunningStatus(d.number, d.stage),
                           !.lifecycle = "IN_PROGRESS",
                           !.currentRound = d.number,
                           !.started = (d.stage = "REGULATION" /\ d.number = 1) \/ match.started],
                      match.suspended)
            BY <2>1 DEF StartRound
        <3>2. AgreeingColumns([Row(match) EXCEPT
                           !.phase = RunningStatus(d.number, d.stage),
                           !.lifecycle = "IN_PROGRESS",
                           !.currentRound = d.number,
                           !.started = (d.stage = "REGULATION" /\ d.number = 1) \/ match.started])
            BY DEF LegalRows, AgreeingColumns, NextDescriptors, RunningStatus, Row
        <3> QED
            BY <3>1, <3>2, WriteAgrees
    <2>2. CASE PauseRound(i)
        <3>1. AgreeingColumns([Row(match) EXCEPT !.phase = PausedStatus(match.phase)])
            BY <2>2 DEF PauseRound, LegalRows, AgreeingColumns, PausedStatus, Row, ExpectedNumber,
                RunningPhases
        <3> QED
            BY <2>2, <3>1, WriteAgrees DEF PauseRound
    <2>3. CASE ResumeRound(i)
        <3>1. AgreeingColumns([Row(match) EXCEPT !.phase = ResumedStatus(match.phase)])
            BY <2>3 DEF ResumeRound, LegalRows, AgreeingColumns, ResumedStatus, Row, ExpectedNumber,
                PausedPhases
        <3> QED
            BY <2>3, <3>1, WriteAgrees DEF ResumeRound
    <2> QED
        BY <2>1, <2>2, <2>3
<1>2. UNCHANGED <<ops, nOps>>
    BY DEF StartRound, PauseRound, ResumeRound
<1> QED
    BY <1>1, <1>2, LegalWithoutOperation

\* Ending a round, by its timer or by recovery, writes an agreeing row.
LEMMA EndRoundLegal ==
    ASSUME LegalRows, NEW r, EndRound(r),
           Expirable(r) \/ r \in Recoverable
    PROVE  AgreeingColumns(match') /\ DbChecks(match')
<1>1. AgreeingColumns(RowAfter(r))
    BY DEF LegalRows, AgreeingColumns, RowAfter, PhaseAfter, Row, Expirable, Recoverable,
        RunningStatus, RunningPhases
<1> QED
    BY <1>1, WriteAgrees DEF EndRound

\* No step of a process, a crash or a recovery leaves the row at odds.
LEMMA ProcessLegal ==
    ASSUME LegalRows, NEW i \in Instances, Process(i)
    PROVE  LegalRows'
<1>1. UNCHANGED <<ops, nOps>>
    BY DEF Process, TimerFires, HandleExpiration, HandlerFails, Crash, Restart, RestartFails, dbVars
<1>2. \/ UNCHANGED match
      \/ \E r : EndRound(r) /\ (Expirable(r) \/ r \in Recoverable)
    BY DEF Process, TimerFires, HandleExpiration, HandlerFails, Crash, Restart, RestartFails, dbVars
<1>3. AgreeingColumns(match') /\ DbChecks(match')
    <2>1. CASE UNCHANGED match
        BY <2>1 DEF LegalRows
    <2>2. CASE \E r : EndRound(r) /\ (Expirable(r) \/ r \in Recoverable)
        BY <2>2, EndRoundLegal
    <2> QED
        BY <1>2, <2>1, <2>2
<1> QED
    BY <1>1, <1>3, LegalWithoutOperation

\* An exit keeps the rows legal.
LEMMA ExitLegal ==
    ASSUME TypeOK, LegalRows, NEW i \in Instances, NEW mode \in ExitModes, ExitMatch(i, mode)
    PROVE  LegalRows'
<1>1. AgreeingColumns(RowAfterExit(mode))
    <2>1. RetainedModeAllowed(mode) /\ match.phase # "FINISHED"
        BY DEF ExitMatch, ExitAllowed, RoundsAfterExit
    <2>2. mode = "SUSPEND_KEEP_V2_PHASE" => match.phase # "WAITING"
        BY <2>1 DEF RetainedModeAllowed, RetainablePhases, OvertimePhases
    <2>3. CASE mode = "CANCEL_RESULTS"
        BY <2>3 DEF RowAfterExit, AgreeingColumns, NoRow
    <2>4. CASE mode = "SUSPEND_KEEP_V2_PHASE"
        BY <2>1, <2>2, <2>4 DEF RowAfterExit, LegalRows, AgreeingColumns, Row
    <2>5. CASE mode = "SUSPEND_KEEP_ROUND_1"
        <3>1. RowAfterExit(mode) =
                 [phase |-> "BREAK", lifecycle |-> "SUSPENDED", currentRound |-> 1,
                  started |-> match.started, finished |-> FALSE]
            BY <2>5 DEF RowAfterExit, Row
        <3> QED
            BY <3>1 DEF AgreeingColumns
    <2>6. CASE mode = "SUSPEND_KEEP_ROUNDS_1_AND_2"
        <3>1. RowAfterExit(mode) =
                 [phase |-> "AWAITING_RESULT_SAVE", lifecycle |-> "SUSPENDED", currentRound |-> 2,
                  started |-> match.started, finished |-> FALSE]
            BY <2>6 DEF RowAfterExit, Row
        <3> QED
            BY <3>1 DEF AgreeingColumns
    <2> QED
        BY <2>3, <2>4, <2>5, <2>6 DEF ExitModes
<1>2. AgreeingColumns(Row(match))
    BY DEF LegalRows, AgreeingColumns, Row
<1>3. RecordOperation(Row(match), RowAfterExit(mode))
    BY DEF ExitMatch, ExitAllowed, RoundsAfterExit
<1>4. AgreeingColumns(match') /\ DbChecks(match')
    BY <1>1, WriteAgrees DEF ExitMatch, ExitAllowed, RoundsAfterExit
<1> QED
    BY <1>1, <1>2, <1>3, <1>4, LegalWithOperation

\* A cancellation of results keeps the rows legal.
LEMMA CancelLegal ==
    ASSUME TypeOK, LegalRows, NEW i \in Instances, NEW entireMatch \in BOOLEAN,
           CancelResults(i, entireMatch)
    PROVE  LegalRows'
<1> DEFINE previous == [Row(match) EXCEPT !.lifecycle = LifecycleForPhase(match.phase)]
<1>1. PICK phase \in {"WAITING", "OVERTIME_READY", "BREAK"}, started \in BOOLEAN :
        LET next == [phase |-> phase,
                     lifecycle |-> IF phase = "WAITING" THEN "NOT_STARTED" ELSE "IN_PROGRESS",
                     currentRound |-> IF phase = "WAITING" THEN 0 ELSE 1,
                     started |-> started,
                     finished |-> FALSE]
        IN  RecordOperation(previous, next) /\ WriteMatch(next, match.suspended)
    <2> DEFINE selected == SelectedRounds(entireMatch)
               firstRound == \E r \in selected : rounds[r].stage = "REGULATION" /\ rounds[r].number = 1
               nextPhase == IF entireMatch \/ firstRound THEN "WAITING"
                            ELSE IF \E r \in selected : rounds[r].stage = "OVERTIME"
                                 THEN "OVERTIME_READY" ELSE "BREAK"
    <2>1. nextPhase \in {"WAITING", "OVERTIME_READY", "BREAK"}
        OBVIOUS
    <2>2. (nextPhase # "WAITING" /\ match.started) \in BOOLEAN
        OBVIOUS
    <2> QED
        BY <2>1, <2>2 DEF CancelResults, RoundsAfterCancellation, AffectedAppeals,
          AppealsAfterCancellation
<1> DEFINE next == [phase |-> phase,
                    lifecycle |-> IF phase = "WAITING" THEN "NOT_STARTED" ELSE "IN_PROGRESS",
                    currentRound |-> IF phase = "WAITING" THEN 0 ELSE 1,
                    started |-> started,
                    finished |-> FALSE]
<1>2. AgreeingColumns(next)
    <2>1. next.phase = phase /\ next.finished = FALSE
        OBVIOUS
    <2>2. phase = "WAITING" => next.lifecycle = "NOT_STARTED" /\ next.currentRound = 0
        OBVIOUS
    <2>3. phase # "WAITING" => next.lifecycle = "IN_PROGRESS" /\ next.currentRound = 1
        OBVIOUS
    <2> HIDE DEF next
    <2> QED
        BY <2>1, <2>2, <2>3 DEF AgreeingColumns
<1>3. AgreeingColumns(previous)
    BY DEF LegalRows, AgreeingColumns, Row, LifecycleForPhase
<1>4. RecordOperation(previous, next) /\ WriteMatch(next, match.suspended)
    BY <1>1
<1> HIDE DEF next, previous
<1>5. AgreeingColumns(match') /\ DbChecks(match')
    BY <1>2, <1>4, WriteAgrees
<1> QED
    BY <1>2, <1>3, <1>4, <1>5, LegalWithOperation

\* An undo brings back the row its operation saved, which is legal.
LEMMA UndoLegal ==
    ASSUME TypeOK, LegalRows, NEW i \in Instances, NEW k \in OpIds, Undo(i, k), k \in 1 .. nOps
    PROVE  LegalRows'
<1>1. ops' = [ops EXCEPT ![k].status = "UNDONE"] /\ UNCHANGED nOps
    BY DEF Undo
<1>2. \A j \in OpIds : ops'[j].previous = ops[j].previous /\ ops'[j].resulting = ops[j].resulting
    BY <1>1 DEF TypeOK, OpType
<1>3. 1 .. nOps \subseteq OpIds
    BY DEF TypeOK, OpIds
<1>4. AgreeingColumns(match') /\ DbChecks(match')
    BY WriteAgrees DEF Undo, LegalRows
<1> QED
    BY <1>1, <1>2, <1>3, <1>4, LegalWithoutOperation

\* The take, the appeals, the overtime and the publication keep the rows legal.
LEMMA OfficialsLegal ==
    ASSUME LegalRows, Officials
    PROVE  LegalRows'
<1>1. UNCHANGED <<ops, nOps>>
    BY DEF Officials, Take, OpenWindow, JudgeAuthorised, RecordFault, CompleteRegulationAppeal,
      RegulationAppeal, PhaseAfterRegulation,
        CompleteOvertimeAppeal, OvertimeAppeal, PhaseAfterOvertime, ReplayRegulationAppeal,
        RestartOvertime, Publish, MayPublish, ManualWinner,
        AppealUnchanged
<1>2. AgreeingColumns(match') /\ DbChecks(match')
    <2>1. CASE Take
        <3>1. AgreeingColumns([Row(match) EXCEPT !.lifecycle = IF @ = "SUSPENDED" THEN "IN_PROGRESS" ELSE @])
            BY DEF LegalRows, AgreeingColumns, Row
        <3> QED
            BY <2>1, <3>1, WriteAgrees DEF Take
    <2>2. CASE UNCHANGED match
        BY <2>2 DEF LegalRows
    <2>3. ASSUME NEW result, CompleteRegulationAppeal(result)
          PROVE  AgreeingColumns(match') /\ DbChecks(match')
        <3>1. AgreeingColumns([Row(match) EXCEPT !.phase =
                 IF result = "TIE" THEN "OVERTIME_READY" ELSE "RESULT_PUBLICATION_READY"])
            BY <2>3 DEF CompleteRegulationAppeal, RegulationAppeal, PhaseAfterRegulation,
              LegalRows, AgreeingColumns, Row
        <3> QED
            BY <2>3, <3>1, WriteAgrees DEF CompleteRegulationAppeal, RegulationAppeal,
              PhaseAfterRegulation
    <2>4. ASSUME NEW result, CompleteOvertimeAppeal(result)
          PROVE  AgreeingColumns(match') /\ DbChecks(match')
        <3>1. AgreeingColumns([Row(match) EXCEPT !.phase =
                 IF result = "TIE" THEN "OVERTIME_TIEBREAK_DECISION" ELSE "RESULT_PUBLICATION_READY"])
            BY <2>4 DEF CompleteOvertimeAppeal, OvertimeAppeal, PhaseAfterOvertime, LegalRows,
              AgreeingColumns, Row
        <3> QED
            BY <2>4, <3>1, WriteAgrees DEF CompleteOvertimeAppeal, OvertimeAppeal,
              PhaseAfterOvertime
    <2>5. CASE RestartOvertime
        <3>1. AgreeingColumns([Row(match) EXCEPT !.phase = "OVERTIME_READY"])
            BY <2>5 DEF RestartOvertime, LegalRows, AgreeingColumns, Row
        <3> QED
            BY <2>5, <3>1, WriteAgrees DEF RestartOvertime
    <2>6. ASSUME NEW colour, ManualWinner(colour)
          PROVE  AgreeingColumns(match') /\ DbChecks(match')
        <3>1. AgreeingColumns([Row(match) EXCEPT !.phase = "RESULT_PUBLICATION_READY"])
            BY <2>6 DEF ManualWinner, LegalRows, AgreeingColumns, Row
        <3> QED
            BY <2>6, <3>1, WriteAgrees DEF ManualWinner
    <2>7. CASE Publish
        <3>1. AgreeingColumns([Row(match) EXCEPT !.phase = "FINISHED", !.lifecycle = "COMPLETED",
                                                 !.finished = TRUE])
            BY <2>7 DEF Publish, MayPublish, LegalRows, AgreeingColumns, Row
        <3> QED
            BY <2>7, <3>1, WriteAgrees DEF Publish, MayPublish
    <2>8. \/ Take \/ UNCHANGED match \/ RestartOvertime \/ Publish
          \/ \E result : CompleteRegulationAppeal(result) \/ CompleteOvertimeAppeal(result)
          \/ \E colour : ManualWinner(colour)
        BY DEF Officials, OpenWindow, JudgeAuthorised, RecordFault, ReplayRegulationAppeal
    <2> QED
        BY <2>1, <2>2, <2>3, <2>4, <2>5, <2>6, <2>7, <2>8
<1> QED
    BY <1>1, <1>2, LegalWithoutOperation

\* Result operations are numbered without gaps: only recorded ones can be undone.
OpsAreRecorded == \A k \in OpIds : ops[k].status # "NONE" => k <= nOps

\* The inductive invariant behind LegalRows.
LegalInv == TypeOK /\ LegalRows /\ OpsAreRecorded

\* Recording keeps the numbering.
LEMMA RecordingNumbers ==
    ASSUME TypeOK, OpsAreRecorded, NEW previous, NEW resulting, RecordOperation(previous, resulting)
    PROVE  OpsAreRecorded'
<1>1. \A k \in OpIds : k # nOps + 1 => ops'[k] = ops[k]
    BY DEF RecordOperation, TypeOK
<1>2. nOps' = nOps + 1 /\ nOps \in Nat
    BY DEF RecordOperation, TypeOK
<1> QED
    BY <1>1, <1>2 DEF OpsAreRecorded, OpIds

\* Every step keeps the invariant.
LEMMA LegalStep == LegalInv /\ [Next]_vars => LegalInv'
<1> SUFFICES ASSUME LegalInv, [Next]_vars PROVE LegalRows' /\ OpsAreRecorded'
    BY TypeStep DEF LegalInv
<1> USE DEF LegalInv
<1>1. CASE Officials
    <2>1. UNCHANGED <<ops, nOps>>
        BY <1>1 DEF Officials, Take, OpenWindow, JudgeAuthorised, RecordFault,
          CompleteRegulationAppeal, RegulationAppeal, PhaseAfterRegulation,
            CompleteOvertimeAppeal, OvertimeAppeal, PhaseAfterOvertime, ReplayRegulationAppeal,
            RestartOvertime, Publish, MayPublish, ManualWinner,
            AppealUnchanged
    <2> QED
        BY <1>1, <2>1, OfficialsLegal DEF OpsAreRecorded
<1>2. CASE Clock
    <2>1. UNCHANGED <<match, ops, nOps>>
        BY <1>2 DEF Clock, ResolveWindow, DeadlinePasses
    <2> QED
        BY <2>1 DEF LegalRows, OpsAreRecorded
<1>3. ASSUME NEW i \in Instances, Command(i)
      PROVE  LegalRows' /\ OpsAreRecorded'
    <2>1. CASE StartRound(i) \/ PauseRound(i) \/ ResumeRound(i)
        <3>1. UNCHANGED <<ops, nOps>>
            BY <2>1 DEF StartRound, PauseRound, ResumeRound
        <3> QED
            BY <2>1, <3>1, RunningLegal DEF OpsAreRecorded
    <2>2. ASSUME NEW mode \in ExitModes, ExitMatch(i, mode)
          PROVE  LegalRows' /\ OpsAreRecorded'
        BY <2>2, ExitLegal, RecordingNumbers DEF ExitMatch, ExitAllowed, RoundsAfterExit
    <2>3. ASSUME NEW entireMatch \in BOOLEAN, CancelResults(i, entireMatch)
          PROVE  LegalRows' /\ OpsAreRecorded'
        <3>1. \E previous, resulting : RecordOperation(previous, resulting)
            BY <2>3 DEF CancelResults, RoundsAfterCancellation, AffectedAppeals,
              AppealsAfterCancellation
        <3> QED
            BY <2>3, <3>1, CancelLegal, RecordingNumbers
    <2>4. ASSUME NEW k \in OpIds, Undo(i, k)
          PROVE  LegalRows' /\ OpsAreRecorded'
        <3>1. k \in 1 .. nOps
            <4>1. ops[k].status = "APPLIED"
                BY <2>4 DEF Undo, UndoAllowed
            <4>2. k <= nOps
                BY <4>1 DEF OpsAreRecorded
            <4> QED
                BY <4>2 DEF OpIds, TypeOK
        <3>2. OpsAreRecorded'
            <4>1. ops' = [ops EXCEPT ![k].status = "UNDONE"] /\ UNCHANGED nOps
                BY <2>4 DEF Undo
            <4>2. \A j \in OpIds : j # k => ops'[j] = ops[j]
                BY <4>1 DEF TypeOK
            <4> QED
                BY <3>1, <4>1, <4>2 DEF OpsAreRecorded
        <3> QED
            BY <2>4, <3>1, <3>2, UndoLegal
    <2> QED
        BY <1>3, <2>1, <2>2, <2>3, <2>4 DEF Command
<1>4. ASSUME NEW i \in Instances, Process(i)
      PROVE  LegalRows' /\ OpsAreRecorded'
    <2>1. UNCHANGED <<ops, nOps>>
        BY <1>4 DEF Process, TimerFires, HandleExpiration, HandlerFails, Crash, Restart,
            RestartFails, dbVars
    <2> QED
        BY <1>4, <2>1, ProcessLegal DEF OpsAreRecorded
<1>5. CASE UNCHANGED vars
    BY <1>5 DEF vars, dbVars, LegalRows, OpsAreRecorded
<1> QED
    BY <1>1, <1>2, <1>3, <1>4, <1>5 DEF Next

\* The invariant holds initially.
LEMMA LegalInit == Init => LegalInv
<1> SUFFICES ASSUME Init PROVE LegalInv
    OBVIOUS
<1>1. LegalRows
    BY DEF Init, LegalRows, DbChecks, AgreeingColumns
<1>2. OpsAreRecorded
    BY DEF Init, OpsAreRecorded, NoOp
<1> QED
    BY <1>1, <1>2, TypeInit DEF LegalInv

\* Rows stay legal: for any number of processes, rounds, operations and appeals,
\* the columns of the match row, and of every row an undo could bring back,
\* agree and pass the CHECK constraints.
THEOREM RowsAreLegal == Spec => []LegalRows
<1>1. LegalInv => LegalRows
    BY DEF LegalInv
<1> QED
    BY <1>1, LegalInit, LegalStep, PTL DEF Spec

-----------------------------------------------------------------------------
(* Who holds a match, and that MatchLifecycle implements MatchContract.      *)

\* No saved row is that of a finished match: a finished match has no crew, so
\* nobody can cancel its result.
NoFinishedSaved == \A k \in 1 .. nOps : ops[k].previous.phase # "FINISHED"

\* The inductive invariant behind CrewCoversProgress.
CrewInv ==
    /\ LegalInv
    /\ CrewCoversProgress
    /\ ~LegacyAccess => NoFinishedSaved

\* A step that the contract does not see.
Quiet == match'.lifecycle = match.lifecycle /\ UNCHANGED <<crew, outcome>>

\* Officials other than the take and the publication leave lifecycle, crew and
\* outcome alone.
LEMMA OfficialsAreQuiet == Officials => Take \/ Publish \/ Quiet
<1> SUFFICES ASSUME Officials PROVE Take \/ Publish \/ Quiet
    OBVIOUS
<1>1. CASE \E r \in RoundIds : OpenWindow(r) \/ RecordFault(r)
    BY <1>1 DEF OpenWindow, JudgeAuthorised, RecordFault, Quiet
<1>2. ASSUME NEW result, CompleteRegulationAppeal(result) \/ CompleteOvertimeAppeal(result)
      PROVE  Quiet
    <2>1. UNCHANGED <<crew, outcome>>
        BY <1>2 DEF CompleteRegulationAppeal, RegulationAppeal, PhaseAfterRegulation,
          CompleteOvertimeAppeal, OvertimeAppeal, PhaseAfterOvertime, AppealUnchanged
    <2>2. \E phase : WriteMatch([Row(match) EXCEPT !.phase = phase], match.suspended)
        BY <1>2 DEF CompleteRegulationAppeal, RegulationAppeal, PhaseAfterRegulation,
          CompleteOvertimeAppeal, OvertimeAppeal, PhaseAfterOvertime
    <2> QED
        BY <2>1, <2>2 DEF WriteMatch, Row, Quiet
<1>3. CASE ReplayRegulationAppeal
    BY <1>3 DEF ReplayRegulationAppeal, AppealUnchanged, Quiet
<1>4. CASE RestartOvertime
    BY <1>4 DEF RestartOvertime, WriteMatch, Row, Quiet
<1>5. ASSUME NEW colour, ManualWinner(colour)
      PROVE  Quiet
    BY <1>5 DEF ManualWinner, AppealUnchanged, WriteMatch, Row, Quiet
<1> QED
    BY <1>1, <1>2, <1>3, <1>4, <1>5 DEF Officials

\* Timers, crashes and recoveries only ever touch a match already in progress.
LEMMA ProcessIsQuiet ==
    ASSUME LegalInv, NEW i \in Instances, Process(i)
    PROVE  Quiet
<1>1. UNCHANGED <<crew, outcome>>
    BY DEF Process, TimerFires, HandleExpiration, HandlerFails, Crash, Restart, RestartFails, dbVars
<1>2. \/ UNCHANGED match
      \/ \E r : EndRound(r) /\ (Expirable(r) \/ r \in Recoverable)
    BY DEF Process, TimerFires, HandleExpiration, HandlerFails, Crash, Restart, RestartFails, dbVars
<1>3. ASSUME NEW r, EndRound(r), Expirable(r) \/ r \in Recoverable
      PROVE  match'.lifecycle = match.lifecycle
    <2>1. match.phase \in RunningPhases
        BY <1>3 DEF Expirable, Recoverable, RunningStatus, RunningPhases
    <2>2. match'.lifecycle = "IN_PROGRESS" /\ match'.suspended = match.suspended /\ DbChecks(match')
        BY <1>3 DEF EndRound, WriteMatch, RowAfter, Row
    <2>3. match.lifecycle \in Lifecycles /\ DbChecks(match) /\ AgreeingColumns(match)
        BY DEF LegalInv, LegalRows, TypeOK, MatchType
    <2>4. match.lifecycle \notin {"NOT_STARTED", "COMPLETED"}
        BY <2>1, <2>3 DEF AgreeingColumns, RunningPhases
    <2>5. match.lifecycle # "SUSPENDED"
        BY <2>2, <2>3 DEF DbChecks
    <2> QED
        BY <2>2, <2>3, <2>4, <2>5 DEF Lifecycles
<1> QED
    BY <1>1, <1>2, <1>3 DEF Quiet

\* What a supervisor's command does to lifecycle, crew and outcome.
LEMMA CommandEffect ==
    ASSUME LegalInv, NEW i \in Instances, Command(i)
    PROVE  /\ UNCHANGED outcome /\ Authorised
           /\ \/ Quiet
              \/ match'.lifecycle = "IN_PROGRESS" /\ UNCHANGED crew
              \/ match'.lifecycle \in {"NOT_STARTED", "SUSPENDED"} /\ crew' = FALSE
              \/ /\ match'.lifecycle \in {"NOT_STARTED", "IN_PROGRESS"}
                 /\ match.phase # "FINISHED" => crew' = crew
                 /\ crew' => crew
                 /\ match.phase # "FINISHED" /\ crew => crew'
              \/ \E k \in 1 .. nOps :
                    /\ match'.lifecycle = ops[k].previous.lifecycle
                    /\ match'.suspended = match.suspended /\ DbChecks(match')
                    /\ UNCHANGED crew
<1>1. CASE StartRound(i)
    BY <1>1 DEF StartRound, WriteMatch, Row
<1>2. CASE PauseRound(i) \/ ResumeRound(i)
    BY <1>2 DEF PauseRound, ResumeRound, WriteMatch, Row, Quiet
<1>3. ASSUME NEW mode \in ExitModes, ExitMatch(i, mode)
      PROVE  /\ UNCHANGED outcome /\ Authorised
             /\ match'.lifecycle \in {"NOT_STARTED", "SUSPENDED"} /\ crew' = FALSE
    <2>1. match'.lifecycle = RowAfterExit(mode).lifecycle /\ UNCHANGED outcome /\ Authorised
        BY <1>3 DEF ExitMatch, ExitAllowed, RoundsAfterExit, WriteMatch
    <2>2. crew' = FALSE
        BY <1>3, Zenon DEF ExitMatch, ExitAllowed, RoundsAfterExit
    <2>3. RowAfterExit(mode).lifecycle \in {"NOT_STARTED", "SUSPENDED"}
        BY DEF RowAfterExit, Row, NoRow
    <2> QED
        BY <2>1, <2>2, <2>3
<1>4. ASSUME NEW entireMatch \in BOOLEAN, CancelResults(i, entireMatch)
      PROVE  /\ UNCHANGED outcome /\ Authorised
             /\ match'.lifecycle \in {"NOT_STARTED", "IN_PROGRESS"}
             /\ match.phase # "FINISHED" => crew' = crew
             /\ crew' => crew
             /\ match.phase # "FINISHED" /\ crew => crew'
    <2>1. UNCHANGED outcome /\ Authorised
        BY <1>4 DEF CancelResults, RoundsAfterCancellation, AffectedAppeals,
          AppealsAfterCancellation
    <2>2. match'.lifecycle \in {"NOT_STARTED", "IN_PROGRESS"}
        BY <1>4 DEF CancelResults, RoundsAfterCancellation, AffectedAppeals,
          AppealsAfterCancellation, WriteMatch
    <2>3. PICK phase \in {"WAITING", "OVERTIME_READY", "BREAK"} :
              crew' = (crew /\ ~ReleasesCrew(match.phase, phase))
        BY <1>4 DEF CancelResults, RoundsAfterCancellation, AffectedAppeals,
          AppealsAfterCancellation
    <2>4. match.phase # "FINISHED" => ~ReleasesCrew(match.phase, phase)
        BY DEF ReleasesCrew
    <2>5. crew \in BOOLEAN
        BY DEF LegalInv, TypeOK
    <2>6. (match.phase # "FINISHED" => crew' = crew) /\ (crew' => crew)
        BY <2>3, <2>4, <2>5, Zenon
    <2>7. match.phase # "FINISHED" /\ crew => crew'
        BY <2>3, <2>4, Zenon
    <2> QED
        BY <2>1, <2>2, <2>6, <2>7
<1>5. ASSUME NEW k \in OpIds, Undo(i, k)
      PROVE  /\ UNCHANGED outcome /\ Authorised /\ k \in 1 .. nOps
             /\ match'.lifecycle = ops[k].previous.lifecycle
             /\ match'.suspended = match.suspended /\ DbChecks(match')
             /\ UNCHANGED crew
    <2>1. ops[k].status = "APPLIED"
        BY <1>5 DEF Undo, UndoAllowed
    <2>2. k <= nOps
        BY <2>1 DEF LegalInv, OpsAreRecorded
    <2>3. k \in 1 .. nOps
        BY <2>2 DEF OpIds, LegalInv, TypeOK
    <2> QED
        BY <1>5, <2>3 DEF Undo, WriteMatch
<1> QED
    BY <1>1, <1>2, <1>3, <1>4, <1>5 DEF Command

\* A finished match is not driven by anyone unless a legacy session is alive.
LEMMA FinishedIsLeftAlone ==
    ASSUME CrewInv, ~LegacyAccess, Authorised
    PROVE  crew /\ match.phase # "FINISHED" /\ match.lifecycle \notin {"SUSPENDED", "COMPLETED"}
BY DEF CrewInv, CrewCoversProgress, Authorised, LegalInv, LegalRows, AgreeingColumns

\* The rule about crews survives every step.
LEMMA CrewStep == CrewInv /\ [Next]_vars => CrewCoversProgress'
<1> SUFFICES ASSUME CrewInv, [Next]_vars PROVE CrewCoversProgress'
    OBVIOUS
<1> USE DEF CrewInv
<1>1. ASSUME Quiet PROVE CrewCoversProgress'
    BY <1>1 DEF Quiet, CrewCoversProgress
<1>2. CASE Take
    <2>1. /\ crew' = TRUE
          /\ match'.lifecycle = IF match.lifecycle = "SUSPENDED" THEN "IN_PROGRESS" ELSE match.lifecycle
          /\ match.lifecycle \in {"NOT_STARTED", "SUSPENDED"}
        BY <1>2 DEF Take, WriteMatch, Row
    <2> QED
        BY <2>1 DEF CrewCoversProgress
<1>3. CASE Publish
    <2>1. ReleasesCrew(match.phase, "FINISHED")
        BY DEF ReleasesCrew
    <2>2. ~crew'
        BY <1>3, <2>1, Zenon DEF Publish, MayPublish
    <2>3. match'.lifecycle = "COMPLETED"
        BY <1>3 DEF Publish, MayPublish, WriteMatch, Row
    <2> QED
        BY <2>2, <2>3 DEF CrewCoversProgress
<1>4. ASSUME NEW i \in Instances, Command(i) PROVE CrewCoversProgress'
    <2>1. CASE match'.lifecycle = "IN_PROGRESS" /\ UNCHANGED crew
        BY <1>4, <2>1, CommandEffect, FinishedIsLeftAlone DEF CrewCoversProgress
    <2>2. CASE match'.lifecycle \in {"NOT_STARTED", "SUSPENDED"} /\ crew' = FALSE
        BY <2>2 DEF CrewCoversProgress
    <2>3. CASE /\ match'.lifecycle \in {"NOT_STARTED", "IN_PROGRESS"}
               /\ match.phase # "FINISHED" => crew' = crew
               /\ crew' => crew
               /\ match.phase # "FINISHED" /\ crew => crew'
        <3>1. ~LegacyAccess => crew /\ match.phase # "FINISHED"
            BY <1>4, CommandEffect, FinishedIsLeftAlone
        <3>2. ~LegacyAccess => crew'
            BY <2>3, <3>1
        <3> QED
            BY <2>3, <3>2 DEF CrewCoversProgress
    <2>4. ASSUME NEW k \in 1 .. nOps,
                 match'.lifecycle = ops[k].previous.lifecycle,
                 match'.suspended = match.suspended, DbChecks(match'), UNCHANGED crew
          PROVE  CrewCoversProgress'
        <3>1. match'.lifecycle = "SUSPENDED" => ~crew'
            BY <2>4 DEF DbChecks, LegalInv, LegalRows, CrewCoversProgress
        <3>2. ~LegacyAccess => match'.lifecycle # "COMPLETED"
            BY <2>4 DEF NoFinishedSaved, LegalInv, LegalRows, AgreeingColumns
        <3>3. ~LegacyAccess => crew'
            BY <1>4, <2>4, CommandEffect, FinishedIsLeftAlone
        <3> QED
            BY <3>1, <3>2, <3>3 DEF CrewCoversProgress
    <2>5. CASE \E k \in 1 .. nOps :
                 /\ match'.lifecycle = ops[k].previous.lifecycle
                 /\ match'.suspended = match.suspended /\ DbChecks(match')
                 /\ UNCHANGED crew
        BY <2>4, <2>5
    <2> QED
        BY <1>1, <1>4, <2>1, <2>2, <2>3, <2>5, CommandEffect
<1>5. ASSUME NEW i \in Instances, Process(i) PROVE CrewCoversProgress'
    BY <1>1, <1>5, ProcessIsQuiet
<1>6. CASE Clock \/ UNCHANGED vars
    BY <1>1, <1>6 DEF Clock, ResolveWindow, DeadlinePasses, vars, dbVars, Quiet
<1> QED
    BY <1>1, <1>2, <1>3, <1>4, <1>5, <1>6, OfficialsAreQuiet DEF Next

\* No step saves the row of a finished match.
LEMMA SavedStep == CrewInv /\ [Next]_vars /\ ~LegacyAccess => NoFinishedSaved'
<1> SUFFICES ASSUME CrewInv, [Next]_vars, ~LegacyAccess PROVE NoFinishedSaved'
    OBVIOUS
<1> USE DEF CrewInv
<1>0. TypeOK
    BY DEF LegalInv
<1>1. ASSUME UNCHANGED <<ops, nOps>> PROVE NoFinishedSaved'
    BY <1>1 DEF NoFinishedSaved
<1>2. ASSUME NEW previous, NEW resulting, RecordOperation(previous, resulting),
             previous.phase = match.phase, Authorised
      PROVE  NoFinishedSaved'
    <2>1. previous.phase # "FINISHED"
        BY <1>2, FinishedIsLeftAlone
    <2>2. nOps' = nOps + 1 /\ nOps + 1 \in OpIds
        BY <1>0, <1>2 DEF RecordOperation, TypeOK, OpIds
    <2>3. ops'[nOps + 1].previous = previous
        BY <1>0, <1>2, <2>2 DEF RecordOperation, TypeOK
    <2>4. \A k \in 1 .. nOps : ops'[k] = ops[k]
        BY <1>0, <1>2, <2>2 DEF RecordOperation, TypeOK, OpIds
    <2>5. \A k \in 1 .. nOps' : k \in 1 .. nOps \/ k = nOps + 1
        BY <1>0, <2>2 DEF TypeOK
    <2> QED
        BY <2>1, <2>3, <2>4, <2>5 DEF NoFinishedSaved
<1>3. CASE Officials
    BY <1>1, <1>3 DEF Officials, Take, OpenWindow, JudgeAuthorised, RecordFault,
      CompleteRegulationAppeal, RegulationAppeal, PhaseAfterRegulation,
        CompleteOvertimeAppeal, OvertimeAppeal, PhaseAfterOvertime, ReplayRegulationAppeal,
        RestartOvertime, Publish, MayPublish, ManualWinner,
        AppealUnchanged
<1>4. ASSUME NEW i \in Instances, Command(i) PROVE NoFinishedSaved'
    <2>1. CASE StartRound(i) \/ PauseRound(i) \/ ResumeRound(i)
        BY <1>1, <2>1 DEF StartRound, PauseRound, ResumeRound
    <2>2. ASSUME NEW mode \in ExitModes, ExitMatch(i, mode) PROVE NoFinishedSaved'
        <3>1. Row(match).phase = match.phase
            BY DEF Row
        <3> QED
            BY <1>2, <2>2, <3>1 DEF ExitMatch, ExitAllowed, RoundsAfterExit
    <2>3. ASSUME NEW entireMatch \in BOOLEAN, CancelResults(i, entireMatch) PROVE NoFinishedSaved'
        <3> DEFINE previous == [Row(match) EXCEPT !.lifecycle = LifecycleForPhase(match.phase)]
        <3>1. previous.phase = match.phase
            BY DEF Row
        <3>2. Authorised /\ \E resulting : RecordOperation(previous, resulting)
            BY <2>3 DEF CancelResults, RoundsAfterCancellation, AffectedAppeals,
              AppealsAfterCancellation
        <3> HIDE DEF previous
        <3> QED
            BY <1>2, <3>1, <3>2
    <2>4. ASSUME NEW k \in OpIds, Undo(i, k) PROVE NoFinishedSaved'
        <3>1. ops' = [ops EXCEPT ![k].status = "UNDONE"] /\ UNCHANGED nOps
            BY <2>4 DEF Undo
        <3>2. \A j \in OpIds : ops'[j].previous = ops[j].previous
            BY <1>0, <3>1 DEF TypeOK, OpType
        <3>3. 1 .. nOps \subseteq OpIds
            BY <1>0 DEF TypeOK, OpIds
        <3> QED
            BY <3>1, <3>2, <3>3 DEF NoFinishedSaved
    <2> QED
        BY <1>4, <2>1, <2>2, <2>3, <2>4 DEF Command
<1>5. ASSUME NEW i \in Instances, Process(i) PROVE NoFinishedSaved'
    BY <1>1, <1>5 DEF Process, TimerFires, HandleExpiration, HandlerFails, Crash, Restart,
        RestartFails, dbVars
<1>6. CASE Clock \/ UNCHANGED vars
    BY <1>1, <1>6 DEF Clock, ResolveWindow, DeadlinePasses, vars, dbVars
<1> QED
    BY <1>3, <1>4, <1>5, <1>6 DEF Next

\* The invariant is inductive.
LEMMA CrewInductive ==
    /\ Init => CrewInv
    /\ CrewInv /\ [Next]_vars => CrewInv'
<1>1. ASSUME Init PROVE CrewInv
    BY <1>1, LegalInit DEF Init, CrewInv, CrewCoversProgress, NoFinishedSaved
<1>2. ASSUME CrewInv, [Next]_vars PROVE CrewInv'
    <2>1. LegalInv'
        BY <1>2, LegalStep DEF CrewInv
    <2> QED
        BY <1>2, <2>1, CrewStep, SavedStep DEF CrewInv
<1> QED
    BY <1>1, <1>2

\* The cross-table rule of migration 20260920120000: a suspended match holds no
\* crew, and without legacy sessions exactly the matches in progress must hold
\* one, whatever timers fire late and whatever is cancelled or undone.
THEOREM CrewCovers == Spec => []CrewCoversProgress
<1>1. CrewInv => CrewCoversProgress
    BY DEF CrewInv
<1> QED
    BY <1>1, CrewInductive, PTL DEF Spec

\* Without legacy sessions every step is a step of the contract, or invisible.
LEMMA ContractStep ==
    ASSUME ~LegacyAccess, CrewInv, [Next]_vars
    PROVE  [Contract!Next]_(Contract!vars)
<1> USE DEF CrewInv
<1> SUFFICES \/ Contract!Claim \/ Contract!Play \/ Contract!Leave \/ Contract!Publish
             \/ UNCHANGED <<match.lifecycle, crew, outcome.winner>>
    BY DEF Contract!Next, Contract!vars
<1>1. ASSUME Quiet PROVE UNCHANGED <<match.lifecycle, crew, outcome.winner>>
    BY <1>1 DEF Quiet
<1>2. CASE Take
    BY <1>2 DEF Take, WriteMatch, Row, Contract!Claim
<1>3. CASE Publish
    <2>1. ReleasesCrew(match.phase, "FINISHED")
        BY DEF ReleasesCrew
    <2>2. crew' = FALSE
        BY <1>3, <2>1, Zenon DEF Publish, MayPublish
    <2>3. match'.lifecycle = "COMPLETED" /\ match.lifecycle = "IN_PROGRESS"
        BY <1>3 DEF Publish, MayPublish, WriteMatch, Row
    <2>4. crew
        BY <2>3 DEF CrewCoversProgress
    <2>5. outcome'.winner \in {"RED", "BLUE"}
        BY <1>3, WinnerIsColour DEF Publish, MayPublish, LegalInv, Colours
    <2> QED
        BY <2>2, <2>3, <2>4, <2>5 DEF Contract!Publish
<1>4. ASSUME NEW i \in Instances, Command(i)
      PROVE  \/ Contract!Play \/ Contract!Leave
             \/ UNCHANGED <<match.lifecycle, crew, outcome.winner>>
    <2>1. UNCHANGED outcome /\ crew /\ match.phase # "FINISHED"
        BY <1>4, CommandEffect, FinishedIsLeftAlone
    <2>2. CASE match'.lifecycle = "IN_PROGRESS" /\ UNCHANGED crew
        BY <2>1, <2>2 DEF Contract!Play
    <2>3. CASE match'.lifecycle \in {"NOT_STARTED", "SUSPENDED"} /\ crew' = FALSE
        BY <2>1, <2>3 DEF Contract!Leave
    <2>4. CASE /\ match'.lifecycle \in {"NOT_STARTED", "IN_PROGRESS"}
               /\ match.phase # "FINISHED" => crew' = crew
               /\ crew' => crew
               /\ match.phase # "FINISHED" /\ crew => crew'
        BY <2>1, <2>4 DEF Contract!Play
    <2>5. ASSUME NEW k \in 1 .. nOps,
                 match'.lifecycle = ops[k].previous.lifecycle,
                 match'.suspended = match.suspended, DbChecks(match'), UNCHANGED crew
          PROVE  Contract!Play
        <3>1. match'.lifecycle # "SUSPENDED"
            BY <2>1, <2>5 DEF DbChecks, LegalInv, LegalRows, CrewCoversProgress
        <3>2. match'.lifecycle # "COMPLETED"
            BY <2>5 DEF NoFinishedSaved, LegalInv, LegalRows, AgreeingColumns
        <3>3. match'.lifecycle \in Lifecycles
            BY TypeStep DEF LegalInv, TypeOK, MatchType
        <3> QED
            BY <2>1, <2>5, <3>1, <3>2, <3>3 DEF Contract!Play, Lifecycles
    <2> QED
        BY <1>1, <1>4, <2>2, <2>3, <2>4, <2>5, CommandEffect
<1>5. ASSUME NEW i \in Instances, Process(i)
      PROVE  UNCHANGED <<match.lifecycle, crew, outcome.winner>>
    BY <1>1, <1>5, ProcessIsQuiet DEF LegalInv
<1>6. CASE Clock \/ UNCHANGED vars
    BY <1>1, <1>6 DEF Clock, ResolveWindow, DeadlinePasses, vars, dbVars, Quiet
<1> QED
    BY <1>1, <1>2, <1>3, <1>4, <1>5, <1>6, OfficialsAreQuiet DEF Next

\* The match lifecycle implements the contract the rest of the system relies
\* on, as long as no legacy session is alive: only a crew moves a match, nobody
\* holds a suspended or completed one, and a published result is final.
THEOREM LifecycleImplementsContract ==
    ASSUME ~LegacyAccess
    PROVE  Spec => ImplementsContract
<1>1. Init => Contract!Init
    BY DEF Init, Contract!Init
<1>2. CrewInv /\ [Next]_vars => [Contract!Next]_(Contract!vars)
    BY ContractStep
<1> QED
    BY <1>1, <1>2, CrewInductive, PTL DEF Spec, ImplementsContract, Contract!Spec

-----------------------------------------------------------------------------
(* What the steps do to the rounds.                                         *)

USE ConstantsAssumption

\* What identifies a round never changes.
SameIdentity(r) ==
    /\ rounds'[r].stage = rounds[r].stage /\ rounds'[r].number = rounds[r].number
    /\ rounds'[r].attempt = rounds[r].attempt /\ rounds'[r].stamp = rounds[r].stamp

SameRound(r) ==
    /\ SameIdentity(r) /\ rounds'[r].by = rounds[r].by
    /\ rounds'[r].ended = rounds[r].ended /\ rounds'[r].summary = rounds[r].summary

\* A row that has not been created is never due.
UncreatedIsNotDue == \A r \in RoundIds \ Created : ~rounds[r].due
DueIsCreated == \A r \in RoundIds : rounds'[r].due => rounds[r].due \/ r \in Created

\* A row q replaces the row p of a round without touching what identifies,
\* ends or invalidates it.
SameColumns(p, q) ==
    /\ q.stage = p.stage /\ q.number = p.number /\ q.attempt = p.attempt
    /\ q.stamp = p.stamp /\ q.by = p.by /\ q.ended = p.ended /\ q.summary = p.summary

\* No round is created, ended, invalidated or restored, and no operation is
\* applied or undone.
RoundsRest ==
    /\ nRounds' = nRounds /\ DueIsCreated /\ \A r \in RoundIds : SameRound(r)
    /\ ops' = ops /\ nOps' = nOps /\ history' = history

\* The phases a step may move between without touching a round.
Drifts(from, to) ==
    \/ to = from
    \/ from \in RunningPhases /\ to = PausedStatus(from)
    \/ from \in PausedPhases /\ to = ResumedStatus(from)
    \/ from = "REGULATION_APPEAL" /\ to \in {"OVERTIME_READY", "RESULT_PUBLICATION_READY"}
    \/ from = "OVERTIME_APPEAL" /\ to \in {"OVERTIME_TIEBREAK_DECISION", "RESULT_PUBLICATION_READY"}
    \/ from = "OVERTIME_TIEBREAK_DECISION" /\ to = "RESULT_PUBLICATION_READY"
    \/ from = "RESULT_PUBLICATION_READY" /\ to = "FINISHED"

PhaseDrifts ==
    Drifts(match.phase, match'.phase) /\ match'.currentRound = match.currentRound

\* A due round r ends in its own phase.
Ends(r) ==
    /\ r \in Created /\ Expirable(r) /\ rounds[r].due
    /\ nRounds' = nRounds /\ ops' = ops /\ nOps' = nOps /\ DueIsCreated
    /\ \A q \in RoundIds \ {r} : SameRound(q)
    /\ SameIdentity(r) /\ rounds'[r].by = rounds[r].by /\ rounds'[r].ended
    /\ RulesVersion = "V2" => rounds'[r].summary = 0
    /\ match'.phase = PhaseAfter(r) /\ match'.currentRound = match.currentRound
    /\ misfired' = (misfired \/ rounds[r].by # 0)
    /\ UNCHANGED <<disordered, stranded>>

\* Created and effective rounds are rounds.
LEMMA CreatedAreRounds ==
    TypeOK => Created \subseteq RoundIds /\ Effective \subseteq Created
<1>1. TypeOK => Created \subseteq RoundIds
    <2>1. TypeOK => nRounds \in 0 .. MaxRounds
        BY DEF TypeOK
    <2> QED
        BY <2>1 DEF Created, RoundIds
<1>2. Effective \subseteq Created
    BY DEF Effective
<1> QED
    BY <1>1, <1>2

\* Resolving a window over rounds that rs stands for leaves rs but for a score.
LEMMA ResolveKeeps ==
    ASSUME NEW rs \in [RoundIds -> RoundType], Resolve(rs), NEW r \in RoundIds
    PROVE  /\ rounds'[r].stage = rs[r].stage /\ rounds'[r].number = rs[r].number
           /\ rounds'[r].attempt = rs[r].attempt /\ rounds'[r].stamp = rs[r].stamp
           /\ rounds'[r].by = rs[r].by /\ rounds'[r].ended = rs[r].ended
           /\ rounds'[r].summary = rs[r].summary /\ rounds'[r].due = rs[r].due
           /\ rounds'[r].paused = rs[r].paused
BY DEF Resolve, RoundType

\* round:pause and round:resume rest the rounds.
LEMMA PauseShape ==
    ASSUME TypeOK, NEW i \in Instances, PauseRound(i) \/ ResumeRound(i)
    PROVE  RoundsRest /\ PhaseDrifts
<1> DEFINE q == Latest(ControlledRounds)
<1>1. CASE PauseRound(i)
    <2>1. ASSUME NEW r \in RoundIds
          PROVE  SameColumns(rounds[r], rounds'[r]) /\ (rounds'[r].due => rounds[r].due \/ r \in Created)
        <3> DEFINE row == [rounds[r] EXCEPT !.paused = TRUE]
        <3>1. rounds'[r] = rounds[r] \/ (r = q /\ rounds'[r] = row)
            BY <1>1 DEF PauseRound, TypeOK
        <3>2. rounds[r] \in RoundType
            BY DEF TypeOK
        <3>3. SameColumns(rounds[r], row) /\ row.due = rounds[r].due
            BY <3>2 DEF SameColumns, RoundType
        <3> HIDE DEF row
        <3> QED
            BY <3>1, <3>2, <3>3 DEF SameColumns
    <2>2. DueIsCreated /\ \A r \in RoundIds : SameRound(r)
        BY <2>1 DEF SameRound, SameIdentity, SameColumns, DueIsCreated
    <2>3. /\ match'.phase = PausedStatus(match.phase) /\ match.phase \in RunningPhases
          /\ match'.currentRound = match.currentRound
        BY <1>1 DEF PauseRound, WriteMatch, Row
    <2> QED
        BY <1>1, <2>2, <2>3 DEF PauseRound, RoundsRest, Drifts, PhaseDrifts, history
<1>2. CASE ResumeRound(i)
    <2>1. ASSUME NEW r \in RoundIds
          PROVE  SameColumns(rounds[r], rounds'[r]) /\ (rounds'[r].due => rounds[r].due \/ r \in Created)
        <3> DEFINE row == [rounds[r] EXCEPT !.paused = FALSE, !.due = FALSE]
        <3>1. rounds'[r] = rounds[r] \/ (r = q /\ rounds'[r] = row)
            BY <1>2 DEF ResumeRound, TypeOK
        <3>2. rounds[r] \in RoundType
            BY DEF TypeOK
        <3>3. SameColumns(rounds[r], row) /\ row.due = FALSE
            BY <3>2 DEF SameColumns, RoundType
        <3> HIDE DEF row
        <3> QED
            BY <3>1, <3>2, <3>3 DEF SameColumns
    <2>2. DueIsCreated /\ \A r \in RoundIds : SameRound(r)
        BY <2>1 DEF SameRound, SameIdentity, SameColumns, DueIsCreated
    <2>3. /\ match'.phase = ResumedStatus(match.phase) /\ match.phase \in PausedPhases
          /\ match'.currentRound = match.currentRound
        BY <1>2 DEF ResumeRound, WriteMatch, Row
    <2> QED
        BY <1>2, <2>2, <2>3 DEF ResumeRound, RoundsRest, Drifts, PhaseDrifts, history
<1> QED
    BY <1>1, <1>2

\* Windows, faults and the clock rest the rounds.
LEMMA ScoringShape ==
    ASSUME TypeOK,
           \/ \E r \in RoundIds : OpenWindow(r) \/ RecordFault(r) \/ DeadlinePasses(r)
           \/ ResolveWindow
    PROVE  RoundsRest /\ match' = match
<1>1. CASE \E r \in RoundIds : OpenWindow(r)
    <2>1. PICK q \in RoundIds : OpenWindow(q)
        BY <1>1
    <2>2. ASSUME NEW r \in RoundIds
          PROVE  SameColumns(rounds[r], rounds'[r]) /\ (rounds'[r].due => rounds[r].due \/ r \in Created)
        <3> DEFINE row == [rounds[r] EXCEPT !.opened = nOps, !.openedBy = 0]
        <3>1. rounds'[r] = rounds[r] \/ (r = q /\ rounds'[r] = row)
            BY <2>1 DEF OpenWindow, TypeOK
        <3>2. rounds[r] \in RoundType
            BY DEF TypeOK
        <3>3. SameColumns(rounds[r], row) /\ row.due = rounds[r].due
            BY <3>2 DEF SameColumns, RoundType
        <3> HIDE DEF row
        <3> QED
            BY <3>1, <3>2, <3>3 DEF SameColumns
    <2>3. DueIsCreated /\ \A r \in RoundIds : SameRound(r)
        BY <2>2 DEF SameRound, SameIdentity, SameColumns, DueIsCreated
    <2> QED
        BY <2>1, <2>3 DEF OpenWindow, RoundsRest, history
<1>2. CASE \E r \in RoundIds : RecordFault(r)
    <2>1. PICK q \in RoundIds : RecordFault(q)
        BY <1>2
    <2>2. ASSUME NEW r \in RoundIds
          PROVE  SameColumns(rounds[r], rounds'[r]) /\ (rounds'[r].due => rounds[r].due \/ r \in Created)
        <3> DEFINE row == [rounds[r] EXCEPT !.scored = nOps, !.scoredBy = 0]
        <3>1. rounds'[r] = rounds[r] \/ (r = q /\ rounds'[r] = row)
            BY <2>1 DEF RecordFault, TypeOK
        <3>2. rounds[r] \in RoundType
            BY DEF TypeOK
        <3>3. SameColumns(rounds[r], row) /\ row.due = rounds[r].due
            BY <3>2 DEF SameColumns, RoundType
        <3> HIDE DEF row
        <3> QED
            BY <3>1, <3>2, <3>3 DEF SameColumns
    <2>3. DueIsCreated /\ \A r \in RoundIds : SameRound(r)
        BY <2>2 DEF SameRound, SameIdentity, SameColumns, DueIsCreated
    <2> QED
        BY <2>1, <2>3 DEF RecordFault, RoundsRest, history
<1>3. CASE \E r \in RoundIds : DeadlinePasses(r)
    <2>1. PICK q \in RoundIds : DeadlinePasses(q)
        BY <1>3
    <2>2. ASSUME NEW r \in RoundIds
          PROVE  SameColumns(rounds[r], rounds'[r]) /\ (rounds'[r].due => rounds[r].due \/ r \in Created)
        <3> DEFINE row == [rounds[r] EXCEPT !.due = TRUE]
        <3>1. rounds'[r] = rounds[r] \/ (r = q /\ rounds'[r] = row)
            BY <2>1 DEF DeadlinePasses, TypeOK
        <3>2. rounds[r] \in RoundType
            BY DEF TypeOK
        <3>3. SameColumns(rounds[r], row) /\ row.due = TRUE
            BY <3>2 DEF SameColumns, RoundType
        <3> HIDE DEF row
        <3> QED
            BY <3>1, <3>2, <3>3, <2>1 DEF SameColumns, DeadlinePasses
    <2>3. DueIsCreated /\ \A r \in RoundIds : SameRound(r)
        BY <2>2 DEF SameRound, SameIdentity, SameColumns, DueIsCreated
    <2> QED
        BY <2>1, <2>3 DEF DeadlinePasses, RoundsRest, history
<1>4. CASE ResolveWindow
    <2>1. DueIsCreated /\ \A r \in RoundIds : SameRound(r)
        BY <1>4, ResolveKeeps DEF ResolveWindow, SameRound, SameIdentity, TypeOK, DueIsCreated
    <2> QED
        BY <1>4, <2>1 DEF ResolveWindow, RoundsRest, history
<1> QED
    BY <1>1, <1>2, <1>3, <1>4

\* Leaving the rounds, the operations and the history alone rests the rounds.
LEMMA UnchangedRests ==
    ASSUME UNCHANGED <<rounds, nRounds, ops, nOps, history>>
    PROVE  RoundsRest
BY DEF RoundsRest, SameRound, SameIdentity, DueIsCreated, history

\* Appeals, decisions, publication and the taking of a match rest the rounds.
LEMMA DecisionShape ==
    ASSUME TypeOK,
           \/ Take \/ ReplayRegulationAppeal \/ Publish
           \/ \E result \in Colours \cup {"TIE"} :
                  CompleteRegulationAppeal(result) \/ CompleteOvertimeAppeal(result)
           \/ \E colour \in Colours : ManualWinner(colour)
    PROVE  RoundsRest /\ PhaseDrifts
<1>1. UNCHANGED <<rounds, nRounds, ops, nOps, history>>
    BY DEF Take, ReplayRegulationAppeal, Publish, CompleteRegulationAppeal,
           CompleteOvertimeAppeal, ManualWinner, AppealUnchanged
<1>2. CASE Take
    BY <1>1, <1>2, UnchangedRests DEF Take, WriteMatch, Row, Drifts, PhaseDrifts
<1>3. CASE ReplayRegulationAppeal
    BY <1>1, <1>3, UnchangedRests DEF ReplayRegulationAppeal, Drifts, PhaseDrifts
<1>4. CASE Publish
    BY <1>1, <1>4, UnchangedRests DEF Publish, MayPublish, WriteMatch, Row, Drifts, PhaseDrifts
<1>5. ASSUME NEW result \in Colours \cup {"TIE"}, CompleteRegulationAppeal(result)
      PROVE  PhaseDrifts
    BY <1>5 DEF CompleteRegulationAppeal, WriteMatch, Row, PhaseAfterRegulation, Drifts, PhaseDrifts
<1>6. ASSUME NEW result \in Colours \cup {"TIE"}, CompleteOvertimeAppeal(result)
      PROVE  PhaseDrifts
    BY <1>6 DEF CompleteOvertimeAppeal, WriteMatch, Row, PhaseAfterOvertime, Drifts, PhaseDrifts
<1>7. ASSUME NEW colour \in Colours, ManualWinner(colour)
      PROVE  PhaseDrifts
    BY <1>7 DEF ManualWinner, WriteMatch, Row, Drifts, PhaseDrifts
<1> QED
    BY <1>1, <1>2, <1>3, <1>4, <1>5, <1>6, <1>7, UnchangedRests

\* The transaction that ends a round.
LEMMA EndRoundShape ==
    ASSUME TypeOK, UncreatedIsNotDue, NEW r \in RoundIds, Expirable(r), EndRound(r),
           UNCHANGED <<nRounds, ops, nOps, disordered, stranded>>
    PROVE  Ends(r)
<1> DEFINE summary == IF CapturesSummary(r) THEN 0 ELSE None
           ended == [rounds EXCEPT ![r].ended = TRUE, ![r].summary = summary]
<1>1. ended = [q \in RoundIds |->
                IF q = r THEN [[rounds[q] EXCEPT !.ended = TRUE] EXCEPT !.summary = summary]
                ELSE rounds[q]]
    BY DEF TypeOK
<1>2. ended \in [RoundIds -> RoundType]
    <2>1. \A q \in RoundIds : [rounds[q] EXCEPT !.ended = TRUE] \in RoundType
        BY RoundUpdates DEF TypeOK
    <2>2. summary \in Audits \cup {None}
        BY AuditsAreNumbers
    <2>3. \A q \in RoundIds :
             [[rounds[q] EXCEPT !.ended = TRUE] EXCEPT !.summary = summary] \in RoundType
        BY <2>1, <2>2, RoundUpdates
    <2> QED
        BY <1>1, <2>3 DEF TypeOK
<1>3. (rounds' = ended /\ UNCHANGED window) \/ Resolve(ended)
    BY DEF EndRound
<1> HIDE DEF ended
<1>4. \A q \in RoundIds :
          /\ rounds'[q].stage = ended[q].stage /\ rounds'[q].number = ended[q].number
          /\ rounds'[q].attempt = ended[q].attempt /\ rounds'[q].stamp = ended[q].stamp
          /\ rounds'[q].by = ended[q].by /\ rounds'[q].ended = ended[q].ended
          /\ rounds'[q].summary = ended[q].summary /\ rounds'[q].due = ended[q].due
    BY <1>2, <1>3, ResolveKeeps
<1>5. \A q \in RoundIds \ {r} : SameRound(q)
    BY <1>1, <1>4 DEF SameRound, SameIdentity, TypeOK, RoundType
<1>9. DueIsCreated
    <2>1. \A q \in RoundIds : ended[q].due = rounds[q].due
        <3> SUFFICES ASSUME NEW q \in RoundIds PROVE ended[q].due = rounds[q].due
            OBVIOUS
        <3>1. rounds[q] \in RoundType
            BY DEF TypeOK
        <3> QED
            BY <1>1, <3>1 DEF RoundType
    <2> QED
        BY <2>1, <1>4 DEF DueIsCreated
<1>6. /\ SameIdentity(r) /\ rounds'[r].by = rounds[r].by /\ rounds'[r].ended
      /\ RulesVersion = "V2" => rounds'[r].summary = 0
    <2>1. ended[r] = [[rounds[r] EXCEPT !.ended = TRUE] EXCEPT !.summary = summary]
        BY <1>1
    <2>2. /\ ended[r].stage = rounds[r].stage /\ ended[r].number = rounds[r].number
          /\ ended[r].attempt = rounds[r].attempt /\ ended[r].stamp = rounds[r].stamp
          /\ ended[r].by = rounds[r].by /\ ended[r].ended = TRUE /\ ended[r].summary = summary
        BY <2>1 DEF TypeOK, RoundType
    <2>3. RulesVersion = "V2" => summary = 0
        BY DEF CapturesSummary
    <2> HIDE DEF summary
    <2> QED
        BY <1>4, <2>2, <2>3 DEF SameIdentity
<1>7. /\ rounds[r].due /\ match'.phase = PhaseAfter(r) /\ match'.currentRound = match.currentRound
      /\ misfired' = (misfired \/ rounds[r].by # 0)
    BY DEF EndRound, WriteMatch, RowAfter, Row
<1>8. r \in Created
    BY <1>7 DEF UncreatedIsNotDue
<1> QED
    BY <1>5, <1>6, <1>7, <1>8, <1>9 DEF Ends

\* What a process does on its own: nothing to the rounds, or it ends one.
LEMMA ProcessShape ==
    ASSUME TypeOK, LegalRows, UncreatedIsNotDue, NEW i \in Instances, Process(i)
    PROVE  \/ RoundsRest /\ match' = match
           \/ \E r \in RoundIds : Ends(r)
<1>1. CASE TimerFires(i) \/ HandlerFails(i) \/ Crash(i) \/ RestartFails(i)
    <2>1. UNCHANGED <<match, rounds, nRounds, ops, nOps, history>>
        BY <1>1 DEF TimerFires, HandlerFails, Crash, RestartFails, dbVars
    <2> QED
        BY <2>1, UnchangedRests
<1>2. CASE HandleExpiration(i)
    <2>1. handler[i] \in RoundIds
        BY <1>2 DEF HandleExpiration, TypeOK, RoundIds
    <2>2. UNCHANGED <<nRounds, ops, nOps, disordered, stranded>>
        BY <1>2 DEF HandleExpiration
    <2>3. \/ UNCHANGED <<match, rounds, misfired>>
          \/ Expirable(handler[i]) /\ EndRound(handler[i])
        BY <1>2 DEF HandleExpiration
    <2> QED
        BY <2>1, <2>2, <2>3, EndRoundShape, UnchangedRests DEF history
<1>3. CASE Restart(i)
    <2>1. UNCHANGED <<nRounds, ops, nOps, disordered, stranded>>
        BY <1>3 DEF Restart
    <2>2. \/ UNCHANGED <<match, rounds, misfired>>
          \/ \E r \in Recoverable : EndRound(r)
        BY <1>3 DEF Restart
    <2>3. \A r \in Recoverable : r \in RoundIds /\ Expirable(r)
        <3> SUFFICES ASSUME NEW r \in Recoverable PROVE r \in RoundIds /\ Expirable(r)
            OBVIOUS
        <3>1. /\ r \in RoundIds /\ match.phase \in RunningPhases /\ ~rounds[r].ended
              /\ rounds[r].number = match.currentRound
              /\ rounds[r].stage = IF match.phase = "OVERTIME_RUNNING" THEN "OVERTIME" ELSE "REGULATION"
            <4>1. r \in RoundIds
                BY CreatedAreRounds DEF Recoverable
            <4> QED
                BY <4>1, Zenon DEF Recoverable
        <3>2. /\ match.phase \in {"ROUND_1_RUNNING", "OVERTIME_RUNNING"} => match.currentRound = 1
              /\ match.phase = "ROUND_2_RUNNING" => match.currentRound = 2
            BY DEF LegalRows, AgreeingColumns
        <3> QED
            BY <3>1, <3>2 DEF Expirable, RunningStatus, RunningPhases
    <2> QED
        BY <2>1, <2>2, <2>3, EndRoundShape, UnchangedRests DEF history
<1> QED
    BY <1>1, <1>2, <1>3 DEF Process

\* Every step is one of seven kinds.
LEMMA StepShape ==
    ASSUME TypeOK, LegalRows, UncreatedIsNotDue, [Next]_vars
    PROVE  \/ RoundsRest /\ PhaseDrifts
           \/ \E r \in RoundIds : Ends(r)
           \/ RestartOvertime
           \/ \E i \in Instances :
                \/ StartRound(i)
                \/ \E mode \in ExitModes : ExitMatch(i, mode)
                \/ \E entireMatch \in BOOLEAN : CancelResults(i, entireMatch)
                \/ \E k \in OpIds : Undo(i, k)
<1>1. CASE UNCHANGED vars
    BY <1>1, UnchangedRests DEF vars, dbVars, Drifts, PhaseDrifts
<1>2. CASE Officials
    <2>1. CASE RestartOvertime
        BY <2>1
    <2>2. CASE \E r \in RoundIds : OpenWindow(r) \/ RecordFault(r)
        BY <2>2, ScoringShape DEF Drifts, PhaseDrifts
    <2>3. CASE \/ Take \/ ReplayRegulationAppeal \/ Publish
               \/ \E result \in Colours \cup {"TIE"} :
                      CompleteRegulationAppeal(result) \/ CompleteOvertimeAppeal(result)
               \/ \E colour \in Colours : ManualWinner(colour)
        BY <2>3, DecisionShape
    <2> QED
        BY <1>2, <2>1, <2>2, <2>3 DEF Officials
<1>3. CASE Clock
    BY <1>3, ScoringShape DEF Clock, Drifts, PhaseDrifts
<1>4. CASE \E i \in Instances : Process(i)
    BY <1>4, ProcessShape DEF Drifts, PhaseDrifts
<1>5. CASE \E i \in Instances : Command(i)
    BY <1>5, PauseShape DEF Command
<1> QED
    BY <1>1, <1>2, <1>3, <1>4, <1>5 DEF Next

IsOf(r, stage, number) == rounds[r].stage = stage /\ rounds[r].number = number

\* The effect of a start on the rounds: one new open round, of the stage and
\* number that the phase calls for.
Starts(n, stage, number) ==
    /\ n = nRounds + 1 /\ n \in RoundIds /\ nRounds' = n
    /\ \A r \in RoundIds \ {n} : SameRound(r) /\ rounds'[r].due = rounds[r].due
    /\ rounds'[n].stage = stage /\ rounds'[n].number = number
    /\ rounds'[n].stamp = nOps /\ rounds'[n].by = 0
    /\ rounds'[n].ended = FALSE /\ rounds'[n].paused = FALSE
    /\ ops' = ops /\ nOps' = nOps /\ history' = history
    /\ stage = "OVERTIME" =>
           \A r \in Created : rounds[r].stage = "OVERTIME" => rounds[r].attempt < rounds'[n].attempt
    /\ match'.currentRound = number
    /\ \/ stage = "REGULATION" /\ number = 1 /\ match.phase = "WAITING" /\ match'.phase = "ROUND_1_RUNNING"
       \/ stage = "REGULATION" /\ number = 2 /\ match.phase = "BREAK" /\ match'.phase = "ROUND_2_RUNNING"
       \/ stage = "OVERTIME" /\ number = 1 /\ match.phase = "OVERTIME_READY" /\ match'.phase = "OVERTIME_RUNNING"

\* The effect of an exit or a cancellation: operation nOps + 1 invalidates S.
Invalidates(S) ==
    /\ nOps + 1 \in OpIds /\ nOps' = nOps + 1 /\ nRounds' = nRounds
    /\ S \subseteq Effective
    /\ \A r \in RoundIds :
        /\ SameIdentity(r) /\ rounds'[r].ended = rounds[r].ended /\ rounds'[r].due = rounds[r].due
        /\ rounds'[r].by = IF r \in S THEN nOps + 1 ELSE rounds[r].by
        /\ \/ rounds'[r].summary = rounds[r].summary
           \/ r \in S /\ rounds[r].summary = 0 /\ rounds'[r].summary = nOps + 1
    /\ \A k \in OpIds \ {nOps + 1} : ops'[k] = ops[k]
    /\ ops'[nOps + 1].status = "APPLIED" /\ ops'[nOps + 1].before = Effective
    /\ ops'[nOps + 1].open = OpenRounds
    /\ ops'[nOps + 1].previous.phase = match.phase
    /\ ops'[nOps + 1].previous.currentRound = match.currentRound
    /\ ops'[nOps + 1].resulting.phase = match'.phase
    /\ ops'[nOps + 1].resulting.currentRound = match'.currentRound
    /\ misfired' = misfired /\ disordered' = disordered

\* The effect of the undo of operation k.
Restores(k) ==
    /\ k \in OpIds /\ UndoAllowed(k) /\ nOps' = nOps /\ nRounds' = nRounds
    /\ \A r \in RoundIds :
        /\ SameIdentity(r) /\ rounds'[r].ended = rounds[r].ended /\ rounds'[r].due = rounds[r].due
        /\ rounds'[r].by = IF rounds[r].by = k THEN 0 ELSE rounds[r].by
        /\ rounds'[r].summary = IF rounds[r].summary = k THEN 0 ELSE rounds[r].summary
    /\ \A j \in OpIds \ {k} : ops'[j] = ops[j]
    /\ ops'[k].status = "UNDONE"
    /\ match'.phase = ops[k].previous.phase
    /\ match'.currentRound = ops[k].previous.currentRound
    /\ disordered' = (disordered \/ \E j \in k + 1 .. nOps : ops[j].status = "APPLIED")
    /\ misfired' = misfired /\ stranded' = stranded

\* The effect of a restart of overtime: round r is retired for good.
Retires(r) ==
    /\ r \in Created /\ IsOf(r, "OVERTIME", 1) /\ rounds[r].ended
    /\ nOps' = nOps /\ nRounds' = nRounds /\ ops' = ops /\ history' = history
    /\ \A q \in RoundIds : rounds'[q].due = rounds[q].due
    /\ \A q \in RoundIds \ {r} : SameRound(q)
    /\ SameIdentity(r) /\ rounds'[r].ended /\ rounds'[r].by = OtherAudit
    /\ match.phase = "OVERTIME_TIEBREAK_DECISION" /\ match'.phase = "OVERTIME_READY"
    /\ match'.currentRound = match.currentRound

\* An appeal is about a round that was played, an overtime appeal about an
\* overtime round.
AppealsAreSourced ==
    \A a \in 1 .. nAppeals :
        /\ appeals[a].source \in Created /\ rounds[appeals[a].source].ended
        /\ appeals[a].scope = "OVERTIME" => IsOf(appeals[a].source, "OVERTIME", 1)

\* A new overtime attempt is numbered past every earlier one.
LEMMA AttemptsAreBounded ==
    ASSUME TypeOK, NEW r \in Created, rounds[r].stage = "OVERTIME"
    PROVE  rounds[r].attempt < NextAttempt
<1> DEFINE S == {0} \cup {rounds[q].attempt : q \in {c \in Created : rounds[c].stage = "OVERTIME"}}
<1>1. \A q \in Created : rounds[q].attempt \in 0 .. MaxRounds
    BY CreatedAreRounds DEF TypeOK, RoundType
<1>2. S \in SUBSET (0 .. MaxRounds) /\ S # {} /\ rounds[r].attempt \in S
    <2>1. rounds[r].attempt \in S /\ 0 \in S
        OBVIOUS
    <2>2. \A x \in S : x = 0 \/ \E q \in Created : x = rounds[q].attempt
        OBVIOUS
    <2> QED
        BY <1>1, <2>1, <2>2
<1> HIDE DEF S
<1>3. rounds[r].attempt <= Latest(S) /\ Latest(S) \in 0 .. MaxRounds
    BY <1>2, LatestIsMember
<1>4. NextAttempt = 1 + Latest(S)
    BY DEF NextAttempt, S
<1>5. rounds[r].attempt \in Nat /\ Latest(S) \in Nat
    BY <1>1, <1>3
<1> QED
    BY <1>3, <1>4, <1>5

\* round:start
LEMMA StartShape ==
    ASSUME TypeOK, NEW i \in Instances, StartRound(i)
    PROVE  \E stage, number : Starts(nRounds + 1, stage, number)
<1>1. PICK d \in NextDescriptors :
        /\ WriteMatch([Row(match) EXCEPT
                           !.phase = RunningStatus(d.number, d.stage),
                           !.lifecycle = "IN_PROGRESS",
                           !.currentRound = d.number,
                           !.started = (d.stage = "REGULATION" /\ d.number = 1) \/ match.started],
                      match.suspended)
        /\ rounds' = [rounds EXCEPT ![nRounds + 1] =
               [NoRound EXCEPT !.stage = d.stage, !.number = d.number,
                               !.attempt = d.attempt, !.stamp = nOps]]
    BY DEF StartRound
<1>2. nRounds + 1 \in RoundIds /\ nRounds' = nRounds + 1
    BY DEF StartRound, TypeOK, RoundIds
<1>3. /\ ops' = ops /\ nOps' = nOps /\ history' = history
    BY DEF StartRound, history
<1>4. match'.phase = RunningStatus(d.number, d.stage) /\ match'.currentRound = d.number
    BY <1>1 DEF WriteMatch, Row
<1>5. \/ d.stage = "REGULATION" /\ d.number = 1 /\ match.phase = "WAITING"
      \/ d.stage = "REGULATION" /\ d.number = 2 /\ match.phase = "BREAK"
      \/ d.stage = "OVERTIME" /\ d.number = 1 /\ match.phase = "OVERTIME_READY" /\ d.attempt = NextAttempt
    BY DEF NextDescriptors
<1>6. \A r \in RoundIds \ {nRounds + 1} : SameRound(r) /\ rounds'[r].due = rounds[r].due
    <2>1. \A r \in RoundIds \ {nRounds + 1} : rounds'[r] = rounds[r]
        BY <1>1 DEF TypeOK
    <2> QED
        BY <2>1 DEF SameRound, SameIdentity
<1>7. /\ rounds'[nRounds + 1].stage = d.stage /\ rounds'[nRounds + 1].number = d.number
      /\ rounds'[nRounds + 1].attempt = d.attempt
      /\ rounds'[nRounds + 1].stamp = nOps /\ rounds'[nRounds + 1].by = 0
      /\ rounds'[nRounds + 1].ended = FALSE /\ rounds'[nRounds + 1].paused = FALSE
    <2>1. rounds'[nRounds + 1] = [NoRound EXCEPT !.stage = d.stage, !.number = d.number,
                               !.attempt = d.attempt, !.stamp = nOps]
        BY <1>1, <1>2 DEF TypeOK
    <2> QED
        BY <2>1 DEF NoRound
<1>8. d.stage = "OVERTIME" =>
        \A r \in Created : rounds[r].stage = "OVERTIME" => rounds[r].attempt < rounds'[nRounds + 1].attempt
    BY <1>5, <1>7, AttemptsAreBounded
<1>9. \/ d.stage = "REGULATION" /\ d.number = 1 /\ match.phase = "WAITING" /\ match'.phase = "ROUND_1_RUNNING"
      \/ d.stage = "REGULATION" /\ d.number = 2 /\ match.phase = "BREAK" /\ match'.phase = "ROUND_2_RUNNING"
      \/ d.stage = "OVERTIME" /\ d.number = 1 /\ match.phase = "OVERTIME_READY" /\ match'.phase = "OVERTIME_RUNNING"
    BY <1>4, <1>5 DEF RunningStatus
<1>10. Starts(nRounds + 1, d.stage, d.number)
    BY <1>2, <1>3, <1>4, <1>6, <1>7, <1>8, <1>9 DEF Starts
<1> QED
    BY <1>10

\* Operation numbers that a recording uses.
LEMMA RecordingShape ==
    ASSUME TypeOK, NEW previous \in RowType, NEW resulting \in RowType,
           RecordOperation(previous, resulting)
    PROVE  /\ nOps + 1 \in OpIds /\ nOps' = nOps + 1
           /\ \A k \in OpIds \ {nOps + 1} : ops'[k] = ops[k]
           /\ ops'[nOps + 1] = [status |-> "APPLIED", previous |-> previous,
                                resulting |-> resulting, before |-> Effective, open |-> OpenRounds]
<1>1. nOps + 1 \in OpIds
    BY DEF RecordOperation, TypeOK, OpIds
<1> QED
    BY <1>1 DEF RecordOperation, TypeOK

\* The rounds that an exit invalidates.
ExitRounds(mode) == {r \in Effective : rounds[r].number \in InvalidatedNumbers(mode)}

\* match:exit
LEMMA ExitShape ==
    ASSUME TypeOK, NEW i \in Instances, NEW mode \in ExitModes, ExitMatch(i, mode)
    PROVE  /\ Invalidates(ExitRounds(mode)) /\ ExitAllowed(mode)
           /\ match'.phase = RowAfterExit(mode).phase
           /\ match'.currentRound = RowAfterExit(mode).currentRound
           /\ stranded' = (stranded \/ StrandsOvertime(mode))
<1> DEFINE matching == {r \in Created : rounds[r].number \in InvalidatedNumbers(mode)}
<1>1. /\ nOps + 1 \in OpIds /\ nOps' = nOps + 1
      /\ \A k \in OpIds \ {nOps + 1} : ops'[k] = ops[k]
      /\ ops'[nOps + 1] = [status |-> "APPLIED", previous |-> Row(match),
                           resulting |-> RowAfterExit(mode), before |-> Effective, open |-> OpenRounds]
    BY RecordingShape, RowIsTyped, RowAfterExitTyped DEF ExitMatch
<1>2. /\ match'.phase = RowAfterExit(mode).phase
      /\ match'.currentRound = RowAfterExit(mode).currentRound
    BY DEF ExitMatch, WriteMatch
<1>3. ASSUME NEW r \in RoundIds
      PROVE  /\ SameIdentity(r) /\ rounds'[r].ended = rounds[r].ended /\ rounds'[r].due = rounds[r].due
             /\ rounds'[r].by = IF r \in ExitRounds(mode) THEN nOps + 1 ELSE rounds[r].by
             /\ rounds'[r].summary = rounds[r].summary
    <2> DEFINE A == IF r \in matching \cap Effective THEN nOps + 1 ELSE rounds[r].by
               B == IF r \in matching /\ HasWindow(r) THEN nOps + 1 ELSE rounds[r].openedBy
               C == IF r \in matching /\ HasScore(r) THEN nOps + 1 ELSE rounds[r].scoredBy
    <2>1. rounds'[r] = [rounds[r] EXCEPT !.by = A, !.openedBy = B, !.scoredBy = C]
        BY DEF ExitMatch, RoundsAfterExit
    <2>2. A = IF r \in ExitRounds(mode) THEN nOps + 1 ELSE rounds[r].by
        BY DEF ExitRounds, Effective
    <2> HIDE DEF A, B, C
    <2>3. rounds[r] \in RoundType
        BY DEF TypeOK
    <2>4. /\ SameIdentity(r) /\ rounds'[r].ended = rounds[r].ended /\ rounds'[r].due = rounds[r].due
          /\ rounds'[r].by = A /\ rounds'[r].summary = rounds[r].summary
        BY <2>1, <2>3 DEF RoundType, SameIdentity
    <2> QED
        BY <2>2, <2>4
<1>4. /\ nRounds' = nRounds /\ misfired' = misfired /\ disordered' = disordered
      /\ stranded' = (stranded \/ StrandsOvertime(mode)) /\ ExitAllowed(mode)
    BY DEF ExitMatch
<1>5. /\ ops'[nOps + 1].previous.phase = match.phase
      /\ ops'[nOps + 1].previous.currentRound = match.currentRound
    BY <1>1 DEF Row
<1>6. ExitRounds(mode) \subseteq Effective
    BY DEF ExitRounds
<1> QED
    BY <1>1, <1>2, <1>3, <1>4, <1>5, <1>6 DEF Invalidates

\* The operation that a cancellation records and the phase it moves to.
LEMMA CancelRecords ==
    ASSUME TypeOK, NEW i \in Instances, NEW entireMatch \in BOOLEAN, CancelResults(i, entireMatch)
    PROVE  \E previous, resulting \in RowType :
              /\ RecordOperation(previous, resulting)
              /\ previous.phase = match.phase /\ resulting.phase = match'.phase
              /\ previous.currentRound = match.currentRound
              /\ resulting.currentRound = match'.currentRound
              /\ match'.currentRound = IF match'.phase = "WAITING" THEN 0 ELSE 1
              /\ match'.phase =
                    IF entireMatch \/ \E r \in SelectedRounds(entireMatch) : IsOf(r, "REGULATION", 1)
                    THEN "WAITING"
                    ELSE IF \E r \in SelectedRounds(entireMatch) : rounds[r].stage = "OVERTIME"
                         THEN "OVERTIME_READY" ELSE "BREAK"
<1> DEFINE selected == SelectedRounds(entireMatch)
           firstRound == \E r \in selected : rounds[r].stage = "REGULATION" /\ rounds[r].number = 1
           nextPhase == IF entireMatch \/ firstRound THEN "WAITING"
                        ELSE IF \E r \in selected : rounds[r].stage = "OVERTIME"
                             THEN "OVERTIME_READY" ELSE "BREAK"
           next == [phase |-> nextPhase,
                    lifecycle |-> IF nextPhase = "WAITING" THEN "NOT_STARTED" ELSE "IN_PROGRESS",
                    currentRound |-> IF nextPhase = "WAITING" THEN 0 ELSE 1,
                    started |-> nextPhase # "WAITING" /\ match.started,
                    finished |-> FALSE]
           previous == [Row(match) EXCEPT !.lifecycle = LifecycleForPhase(match.phase)]
<1>1. RecordOperation(previous, next) /\ WriteMatch(next, match.suspended)
    BY DEF CancelResults
<1>2. nextPhase \in {"WAITING", "OVERTIME_READY", "BREAK"} /\ nextPhase \in Phases
    BY PhaseSets
<1>3. nextPhase = IF entireMatch \/ \E r \in SelectedRounds(entireMatch) : IsOf(r, "REGULATION", 1)
                  THEN "WAITING"
                  ELSE IF \E r \in SelectedRounds(entireMatch) : rounds[r].stage = "OVERTIME"
                       THEN "OVERTIME_READY" ELSE "BREAK"
    BY DEF IsOf
<1> HIDE DEF nextPhase
<1>4. next \in RowType
    BY <1>2, PhaseSets DEF RowType
<1>5. /\ previous \in RowType /\ previous.phase = match.phase
      /\ previous.currentRound = match.currentRound
    <2>1. previous \in RowType
        BY RowIsTyped, RowUpdates, StatusIsPhase
    <2> QED
        BY <2>1 DEF Row
<1>6. /\ match'.phase = nextPhase /\ next.phase = nextPhase
      /\ match'.currentRound = next.currentRound
      /\ next.currentRound = IF nextPhase = "WAITING" THEN 0 ELSE 1
    BY <1>1 DEF WriteMatch
<1> HIDE DEF next, previous
<1> QED
    BY <1>1, <1>3, <1>4, <1>5, <1>6

\* Only effective rounds are selected for cancellation.
LEMMA SelectedAreEffective ==
    ASSUME NEW entireMatch \in BOOLEAN
    PROVE  SelectedRounds(entireMatch) \subseteq Effective
BY DEF SelectedRounds, EffectiveOf

\* round:cancel and match:reset
LEMMA CancelShape ==
    ASSUME TypeOK, NEW i \in Instances, NEW entireMatch \in BOOLEAN, CancelResults(i, entireMatch)
    PROVE  /\ Invalidates(SelectedRounds(entireMatch)) /\ SelectedRounds(entireMatch) # {}
           /\ match'.phase =
                    IF entireMatch \/ \E r \in SelectedRounds(entireMatch) : IsOf(r, "REGULATION", 1)
                    THEN "WAITING"
                    ELSE IF \E r \in SelectedRounds(entireMatch) : rounds[r].stage = "OVERTIME"
                         THEN "OVERTIME_READY" ELSE "BREAK"
           /\ match'.currentRound = IF match'.phase = "WAITING" THEN 0 ELSE 1
           /\ stranded' = stranded
<1> DEFINE selected == SelectedRounds(entireMatch)
<1>1. PICK previous, resulting \in RowType :
              /\ RecordOperation(previous, resulting)
              /\ previous.phase = match.phase /\ resulting.phase = match'.phase
              /\ previous.currentRound = match.currentRound
              /\ resulting.currentRound = match'.currentRound
              /\ match'.currentRound = IF match'.phase = "WAITING" THEN 0 ELSE 1
              /\ match'.phase =
                    IF entireMatch \/ \E r \in selected : IsOf(r, "REGULATION", 1)
                    THEN "WAITING"
                    ELSE IF \E r \in selected : rounds[r].stage = "OVERTIME"
                         THEN "OVERTIME_READY" ELSE "BREAK"
    BY CancelRecords
<1>2. /\ nOps + 1 \in OpIds /\ nOps' = nOps + 1
      /\ \A k \in OpIds \ {nOps + 1} : ops'[k] = ops[k]
      /\ ops'[nOps + 1] = [status |-> "APPLIED", previous |-> previous,
                           resulting |-> resulting, before |-> Effective, open |-> OpenRounds]
    BY <1>1, RecordingShape
<1>3. ASSUME NEW r \in RoundIds
      PROVE  /\ SameIdentity(r) /\ rounds'[r].ended = rounds[r].ended /\ rounds'[r].due = rounds[r].due
             /\ rounds'[r].by = IF r \in selected THEN nOps + 1 ELSE rounds[r].by
             /\ \/ rounds'[r].summary = rounds[r].summary
                \/ r \in selected /\ rounds[r].summary = 0 /\ rounds'[r].summary = nOps + 1
    <2> DEFINE A == IF r \in selected THEN nOps + 1 ELSE rounds[r].by
               D == IF r \in selected /\ rounds[r].summary = 0 THEN nOps + 1 ELSE rounds[r].summary
               B == IF r \in selected /\ HasWindow(r) THEN nOps + 1 ELSE rounds[r].openedBy
               C == IF (entireMatch \/ r \in selected) /\ HasScore(r) THEN nOps + 1 ELSE rounds[r].scoredBy
    <2>1. rounds'[r] = [rounds[r] EXCEPT !.by = A, !.summary = D, !.openedBy = B, !.scoredBy = C]
        BY DEF CancelResults, RoundsAfterCancellation
    <2>2. D = rounds[r].summary \/ (r \in selected /\ rounds[r].summary = 0 /\ D = nOps + 1)
        OBVIOUS
    <2> HIDE DEF A, B, C, D
    <2>3. rounds[r] \in RoundType
        BY DEF TypeOK
    <2>4. /\ SameIdentity(r) /\ rounds'[r].ended = rounds[r].ended /\ rounds'[r].due = rounds[r].due
          /\ rounds'[r].by = A /\ rounds'[r].summary = D
        BY <2>1, <2>3 DEF RoundType, SameIdentity
    <2> QED
        BY <2>2, <2>4 DEF A
<1>4. /\ nRounds' = nRounds /\ misfired' = misfired /\ disordered' = disordered
      /\ stranded' = stranded /\ selected # {}
    BY DEF CancelResults, history
<1> HIDE DEF selected
<1>5. /\ ops'[nOps + 1].status = "APPLIED" /\ ops'[nOps + 1].before = Effective
      /\ ops'[nOps + 1].open = OpenRounds
      /\ ops'[nOps + 1].previous.currentRound = match.currentRound
      /\ ops'[nOps + 1].resulting.currentRound = match'.currentRound
      /\ ops'[nOps + 1].previous.phase = match.phase
      /\ ops'[nOps + 1].resulting.phase = match'.phase
    BY <1>1, <1>2
<1>6. selected \subseteq Effective
    BY SelectedAreEffective DEF selected
<1>7. Invalidates(selected)
    BY <1>2, <1>3, <1>4, <1>5, <1>6 DEF Invalidates
<1> QED
    BY <1>1, <1>4, <1>7 DEF selected

\* result-cancellation:undo
LEMMA UndoShape ==
    ASSUME TypeOK, NEW i \in Instances, NEW k \in OpIds, Undo(i, k)
    PROVE  Restores(k)
<1>1. ASSUME NEW r \in RoundIds
      PROVE  /\ SameIdentity(r) /\ rounds'[r].ended = rounds[r].ended /\ rounds'[r].due = rounds[r].due
             /\ rounds'[r].by = IF rounds[r].by = k THEN 0 ELSE rounds[r].by
             /\ rounds'[r].summary = IF rounds[r].summary = k THEN 0 ELSE rounds[r].summary
    <2> DEFINE A == IF rounds[r].by = k THEN 0 ELSE rounds[r].by
               D == IF rounds[r].summary = k THEN 0 ELSE rounds[r].summary
               B == IF rounds[r].openedBy = k THEN 0 ELSE rounds[r].openedBy
               C == IF rounds[r].scoredBy = k THEN 0 ELSE rounds[r].scoredBy
    <2>1. rounds'[r] = [rounds[r] EXCEPT !.by = A, !.summary = D, !.openedBy = B, !.scoredBy = C]
        BY DEF Undo
    <2> HIDE DEF A, B, C, D
    <2>3. rounds[r] \in RoundType
        BY DEF TypeOK
    <2>4. /\ SameIdentity(r) /\ rounds'[r].ended = rounds[r].ended /\ rounds'[r].due = rounds[r].due
          /\ rounds'[r].by = A /\ rounds'[r].summary = D
        BY <2>1, <2>3 DEF RoundType, SameIdentity
    <2> QED
        BY <2>4 DEF A, D
<1>2. ops'[k].status = "UNDONE" /\ \A j \in OpIds \ {k} : ops'[j] = ops[j]
    <2>1. ops' = [ops EXCEPT ![k].status = "UNDONE"]
        BY DEF Undo
    <2>2. ops \in [OpIds -> OpType]
        BY DEF TypeOK
    <2> QED
        BY <2>1, <2>2 DEF OpType
<1>3. /\ match'.phase = ops[k].previous.phase
      /\ match'.currentRound = ops[k].previous.currentRound
    BY DEF Undo, WriteMatch
<1>4. /\ UndoAllowed(k) /\ nOps' = nOps /\ nRounds' = nRounds
      /\ disordered' = (disordered \/ \E j \in k + 1 .. nOps : ops[j].status = "APPLIED")
      /\ misfired' = misfired /\ stranded' = stranded
    BY DEF Undo
<1> QED
    BY <1>1, <1>2, <1>3, <1>4 DEF Restores

\* The overtime appeal of the highest attempt is an overtime appeal.
LEMMA TiedAppealIsOvertime ==
    ASSUME TypeOK, OvertimeAppeals # {}
    PROVE  /\ TiedAppeal \in OvertimeAppeals
           /\ \A b \in OvertimeAppeals : appeals[b].attempt <= appeals[TiedAppeal].attempt
<1> DEFINE S == {appeals[a].attempt : a \in OvertimeAppeals}
<1>1. \A a \in OvertimeAppeals : a \in AppealIds /\ appeals[a].attempt \in 0 .. MaxRounds
    BY DEF OvertimeAppeals, TypeOK, AppealType, AppealIds
<1>2. S \in SUBSET (0 .. MaxRounds) /\ S # {}
    BY <1>1
<1>3. Latest(S) \in S /\ \A y \in S : y <= Latest(S)
    BY <1>2, LatestIsMember
<1>4. \E a \in OvertimeAppeals : \A b \in OvertimeAppeals : appeals[b].attempt <= appeals[a].attempt
    BY <1>3
<1> QED
    BY <1>4, Zenon DEF TiedAppeal

\* overtime:restart
LEMMA RestartShape ==
    ASSUME TypeOK, AppealsAreSourced, RestartOvertime
    PROVE  Retires(appeals[TiedAppeal].source)
<1> DEFINE q == appeals[TiedAppeal].source
<1>1. q \in Created /\ IsOf(q, "OVERTIME", 1) /\ rounds[q].ended
    BY TiedAppealIsOvertime DEF RestartOvertime, OvertimeAppeals, AppealsAreSourced
<1>2. q \in RoundIds
    BY <1>1, CreatedAreRounds
<1>3. \A r \in RoundIds \ {q} : rounds'[r] = rounds[r]
    BY DEF RestartOvertime, TypeOK
<1>4. /\ SameIdentity(q) /\ rounds'[q].ended = rounds[q].ended /\ rounds'[q].by = OtherAudit
      /\ rounds'[q].due = rounds[q].due
    <2> DEFINE D == IF rounds[q].summary = 0 THEN OtherAudit ELSE rounds[q].summary
               B == IF HasWindow(q) THEN OtherAudit ELSE rounds[q].openedBy
               C == IF HasScore(q) THEN OtherAudit ELSE rounds[q].scoredBy
    <2>1. rounds'[q] = [rounds[q] EXCEPT !.by = OtherAudit, !.summary = D, !.openedBy = B, !.scoredBy = C]
        BY <1>2 DEF RestartOvertime, TypeOK
    <2> HIDE DEF B, C, D
    <2>2. rounds[q] \in RoundType
        BY <1>2 DEF TypeOK
    <2> QED
        BY <2>1, <2>2 DEF RoundType, SameIdentity
<1>5. /\ match.phase = "OVERTIME_TIEBREAK_DECISION" /\ match'.phase = "OVERTIME_READY"
      /\ match'.currentRound = match.currentRound
    BY DEF RestartOvertime, WriteMatch, Row
<1>6. nOps' = nOps /\ nRounds' = nRounds /\ ops' = ops /\ history' = history
    BY DEF RestartOvertime, history
<1> HIDE DEF q
<1>7. \A r \in RoundIds \ {q} : SameRound(r)
    BY <1>3 DEF SameRound, SameIdentity
<1>8. \A r \in RoundIds : rounds'[r].due = rounds[r].due
    BY <1>3, <1>4
<1>9. Retires(q)
    BY <1>1, <1>4, <1>5, <1>6, <1>7, <1>8 DEF Retires
<1> QED
    BY <1>9 DEF q

-----------------------------------------------------------------------------
(* Well-formed rounds, operations and appeals.                              *)

\* A created round is a regulation round 1 or 2 or an overtime round; it is
\* invalidated by an applied operation younger than itself, or for good if it is
\* an overtime round; its summaries share its fate.
FormedRound(r) ==
    /\ IsOf(r, "REGULATION", 1) \/ IsOf(r, "REGULATION", 2) \/ IsOf(r, "OVERTIME", 1)
    /\ rounds[r].stamp <= nOps
    /\ rounds[r].stage = "REGULATION" => rounds[r].by # OtherAudit
    /\ rounds[r].by \in OpIds =>
        /\ rounds[r].by <= nOps /\ ops[rounds[r].by].status = "APPLIED"
        /\ rounds[r].stamp < rounds[r].by
    /\ RulesVersion = "V2" /\ rounds[r].ended =>
        rounds[r].by = OtherAudit \/ rounds[r].summary \in {0, rounds[r].by}

RoundsAreFormed == \A r \in Created : FormedRound(r)

\* No two overtime rounds have the same attempt.
AttemptsDiffer ==
    \A q, r \in Created :
        rounds[q].stage = "OVERTIME" /\ rounds[r].stage = "OVERTIME"
            /\ rounds[q].attempt = rounds[r].attempt => q = r

FormInv ==
    LegalInv /\ UncreatedIsNotDue /\ RoundsAreFormed /\ AttemptsDiffer /\ AppealsAreSourced

\* Facts about a round that the steps below keep using.
LEMMA RoundNumbers ==
    ASSUME TypeOK, NEW r \in Created
    PROVE  /\ r \in RoundIds /\ rounds[r] \in RoundType
           /\ rounds[r].stamp \in Nat /\ rounds[r].attempt \in Nat /\ rounds[r].by \in Nat
           /\ rounds[r].by \in Audits /\ nOps \in Nat
<1>1. r \in RoundIds
    BY CreatedAreRounds
<1>2. rounds[r] \in RoundType /\ nOps \in 0 .. MaxOps
    BY <1>1 DEF TypeOK
<1> QED
    BY <1>1, <1>2 DEF RoundType, Audits, OtherAudit

\* An audit is none, an operation or another one.
LEMMA AuditKinds ==
    \A x \in Audits : x = 0 \/ x \in OpIds \/ x = OtherAudit
BY DEF Audits, OpIds, OtherAudit
\* An operation is neither the mark of an effective row nor that of a retired one.
LEMMA AuditsDiffer == 0 \notin OpIds /\ OtherAudit \notin OpIds /\ OtherAudit # 0
BY DEF OpIds, OtherAudit

\* Rounds stay well formed through a step that touches none of them, ...
LEMMA FormedRest ==
    ASSUME FormInv, RoundsRest
    PROVE  (RoundsAreFormed /\ AttemptsDiffer /\ UncreatedIsNotDue)'
<1>0. TypeOK
    BY DEF FormInv, LegalInv
<1>1. Created' = Created /\ \A r \in Created : SameRound(r)
    BY <1>0, CreatedAreRounds DEF RoundsRest, Created
<1>2. \A r \in Created : FormedRound(r) => FormedRound(r)'
    BY <1>1 DEF RoundsRest, FormedRound, IsOf, SameRound, SameIdentity
<1>3. RoundsAreFormed'
    BY <1>1, <1>2 DEF FormInv, RoundsAreFormed
<1>4. AttemptsDiffer'
    BY <1>1 DEF FormInv, AttemptsDiffer, SameRound, SameIdentity
<1>5. UncreatedIsNotDue'
    BY <1>1 DEF FormInv, UncreatedIsNotDue, RoundsRest, DueIsCreated
<1> QED
    BY <1>3, <1>4, <1>5

\* ... through the end of a round, ...
LEMMA FormedEnds ==
    ASSUME FormInv, NEW q \in RoundIds, Ends(q)
    PROVE  (RoundsAreFormed /\ AttemptsDiffer /\ UncreatedIsNotDue)'
<1>0. TypeOK
    BY DEF FormInv, LegalInv
<1>1. Created' = Created /\ \A r \in Created : r # q => SameRound(r)
    BY <1>0, CreatedAreRounds DEF Ends, Created
<1>2. \A r \in Created : r # q /\ FormedRound(r) => FormedRound(r)'
    BY <1>1 DEF Ends, FormedRound, IsOf, SameRound, SameIdentity
<1>3. FormedRound(q) => FormedRound(q)'
    BY DEF Ends, FormedRound, IsOf, SameIdentity
<1>4. RoundsAreFormed'
    BY <1>1, <1>2, <1>3 DEF FormInv, RoundsAreFormed
<1>5. AttemptsDiffer'
    BY <1>1 DEF FormInv, AttemptsDiffer, Ends, SameRound, SameIdentity
<1>6. UncreatedIsNotDue'
    BY <1>1 DEF FormInv, UncreatedIsNotDue, Ends, DueIsCreated
<1> QED
    BY <1>4, <1>5, <1>6

\* ... through a start, ...
LEMMA FormedStarts ==
    ASSUME FormInv, NEW n, NEW stage, NEW number, Starts(n, stage, number)
    PROVE  (RoundsAreFormed /\ AttemptsDiffer /\ UncreatedIsNotDue)'
<1>0. TypeOK
    BY DEF FormInv, LegalInv
<1>1. /\ Created' = Created \cup {n} /\ n \notin Created /\ n \in RoundIds
      /\ \A r \in Created : SameRound(r) /\ r # n
    BY <1>0, CreatedAreRounds DEF Starts, Created, TypeOK
<1>2. \A r \in Created : FormedRound(r) => FormedRound(r)'
    BY <1>1 DEF Starts, FormedRound, IsOf, SameRound, SameIdentity
<1>3. FormedRound(n)'
    <2>1. nOps \in Nat
        BY <1>0 DEF TypeOK
    <2> QED
        BY <2>1, AuditsDiffer DEF Starts, FormedRound, IsOf
<1>4. RoundsAreFormed'
    BY <1>1, <1>2, <1>3 DEF FormInv, RoundsAreFormed
<1>5. AttemptsDiffer'
    <2> SUFFICES ASSUME NEW q \in Created', NEW r \in Created',
                        rounds'[q].stage = "OVERTIME", rounds'[r].stage = "OVERTIME",
                        rounds'[q].attempt = rounds'[r].attempt
                 PROVE  q = r
        BY DEF AttemptsDiffer
    <2>1. \A c \in Created : rounds[c].attempt \in Nat
        BY <1>0, RoundNumbers
    <2>2. \A c \in Created : rounds'[n].stage = "OVERTIME" /\ rounds'[c].stage = "OVERTIME"
                                => rounds'[c].attempt # rounds'[n].attempt
        BY <1>1, <2>1 DEF Starts, SameRound, SameIdentity
    <2>3. CASE q \in Created /\ r \in Created
        BY <2>3, <1>1 DEF FormInv, AttemptsDiffer, SameRound, SameIdentity
    <2>4. (q \in Created \/ q = n) /\ (r \in Created \/ r = n)
        BY <1>1
    <2> QED
        BY <2>2, <2>3, <2>4
<1>6. UncreatedIsNotDue'
    <2> SUFFICES ASSUME NEW r \in RoundIds, r \notin Created' PROVE ~rounds'[r].due
        BY DEF UncreatedIsNotDue
    <2>1. r # n /\ r \notin Created
        BY <1>1
    <2>2. rounds'[r].due = rounds[r].due
        BY <2>1 DEF Starts
    <2> QED
        BY <2>1, <2>2 DEF FormInv, UncreatedIsNotDue
<1> QED
    BY <1>4, <1>5, <1>6

\* ... through an exit or a cancellation, ...
LEMMA FormedInvalidates ==
    ASSUME FormInv, NEW S, Invalidates(S)
    PROVE  (RoundsAreFormed /\ AttemptsDiffer /\ UncreatedIsNotDue)'
<1>0. TypeOK
    BY DEF FormInv, LegalInv
<1>1. Created' = Created /\ \A r \in Created : r \in RoundIds
    BY <1>0, CreatedAreRounds DEF Invalidates, Created
<1>2. ASSUME NEW r \in Created PROVE FormedRound(r)'
    <2>1. FormedRound(r)
        BY DEF FormInv, RoundsAreFormed
    <2>2. /\ rounds[r].stamp \in Nat /\ nOps \in Nat /\ rounds[r].by \in Nat
          /\ r \in RoundIds
        BY <1>0, RoundNumbers
    <2>3. nOps + 1 \in OpIds /\ nOps + 1 # OtherAudit
        BY AuditsDiffer DEF Invalidates
    <2>4. CASE r \in S
        <3>1. rounds[r].by = 0 /\ rounds'[r].by = nOps + 1
            BY <2>2, <2>4 DEF Invalidates, Effective
        <3>2. rounds[r].stamp < nOps + 1 /\ rounds'[r].stamp <= nOps'
            BY <2>1, <2>2 DEF Invalidates, SameIdentity, FormedRound
        <3> QED
            BY <2>1, <2>2, <2>3, <3>1, <3>2, AuditsDiffer
            DEF Invalidates, FormedRound, IsOf, SameIdentity
    <2>5. CASE r \notin S
        <3>1. rounds'[r].by = rounds[r].by /\ rounds'[r].summary = rounds[r].summary
            BY <2>2, <2>5 DEF Invalidates
        <3>2. rounds[r].by \in OpIds => rounds[r].by # nOps + 1
            BY <2>1, <2>2 DEF FormedRound
        <3>3. rounds[r].by \in OpIds => ops'[rounds[r].by] = ops[rounds[r].by]
            BY <3>2 DEF Invalidates
        <3>4. rounds'[r].stamp = rounds[r].stamp /\ nOps' = nOps + 1
            BY <2>2 DEF Invalidates, SameIdentity
        <3>5. rounds'[r].stamp <= nOps'
            BY <3>4, <2>1, <2>2 DEF FormedRound
        <3>6. rounds[r].by \in OpIds => rounds[r].by <= nOps'
            BY <3>4, <2>1, <2>2 DEF FormedRound
        <3> QED
            BY <2>1, <2>2, <3>1, <3>3, <3>4, <3>5, <3>6
            DEF Invalidates, FormedRound, IsOf, SameIdentity
    <2> QED
        BY <2>4, <2>5
<1>3. RoundsAreFormed'
    BY <1>1, <1>2 DEF RoundsAreFormed
<1>4. AttemptsDiffer'
    BY <1>1 DEF FormInv, AttemptsDiffer, Invalidates, SameIdentity
<1>5. UncreatedIsNotDue'
    BY <1>1 DEF FormInv, UncreatedIsNotDue, Invalidates
<1> QED
    BY <1>3, <1>4, <1>5

\* ... through an undo, ...
LEMMA FormedRestores ==
    ASSUME FormInv, NEW k \in OpIds, Restores(k)
    PROVE  (RoundsAreFormed /\ AttemptsDiffer /\ UncreatedIsNotDue)'
<1>0. TypeOK
    BY DEF FormInv, LegalInv
<1>1. Created' = Created /\ \A r \in Created : r \in RoundIds
    BY <1>0, CreatedAreRounds DEF Restores, Created
<1>2. ASSUME NEW r \in Created PROVE FormedRound(r)'
    <2>1. FormedRound(r)
        BY DEF FormInv, RoundsAreFormed
    <2>2. r \in RoundIds /\ 0 \notin OpIds /\ OtherAudit # 0 /\ k # OtherAudit /\ k # 0
        BY <1>0, RoundNumbers, AuditsDiffer
    <2>3. rounds'[r].by \in OpIds => rounds'[r].by = rounds[r].by /\ rounds[r].by # k
        BY <2>2 DEF Restores
    <2>4. rounds'[r].by \in OpIds => ops'[rounds'[r].by] = ops[rounds[r].by]
        BY <2>3 DEF Restores
    <2> QED
        BY <2>1, <2>2, <2>3, <2>4 DEF Restores, FormedRound, IsOf, SameIdentity
<1>3. RoundsAreFormed'
    BY <1>1, <1>2 DEF RoundsAreFormed
<1>4. AttemptsDiffer'
    BY <1>1 DEF FormInv, AttemptsDiffer, Restores, SameIdentity
<1>5. UncreatedIsNotDue'
    BY <1>1 DEF FormInv, UncreatedIsNotDue, Restores
<1> QED
    BY <1>3, <1>4, <1>5

\* ... and through a restart of overtime.
LEMMA FormedRetires ==
    ASSUME FormInv, NEW q, Retires(q)
    PROVE  (RoundsAreFormed /\ AttemptsDiffer /\ UncreatedIsNotDue)'
<1>0. TypeOK
    BY DEF FormInv, LegalInv
<1>1. Created' = Created /\ (\A r \in Created : r \in RoundIds) /\ q \in Created
    BY <1>0, CreatedAreRounds DEF Retires, Created
<1>2. ASSUME NEW r \in Created PROVE FormedRound(r)'
    <2>1. FormedRound(r)
        BY DEF FormInv, RoundsAreFormed
    <2>2. CASE r = q
        BY <1>1, <2>1, <2>2, AuditsDiffer DEF Retires, FormedRound, IsOf, SameIdentity
    <2>3. CASE r # q
        BY <1>1, <2>1, <2>3 DEF Retires, FormedRound, IsOf, SameRound, SameIdentity
    <2> QED
        BY <2>2, <2>3
<1>3. RoundsAreFormed'
    BY <1>1, <1>2 DEF RoundsAreFormed
<1>4. AttemptsDiffer'
    BY <1>1 DEF FormInv, AttemptsDiffer, Retires, SameRound, SameIdentity
<1>5. UncreatedIsNotDue'
    BY <1>1 DEF FormInv, UncreatedIsNotDue, Retires
<1> QED
    BY <1>3, <1>4, <1>5

\* Creating an appeal, deciding it, retiring it or leaving it keeps its round.
SourcesRest ==
    /\ nAppeals' = nAppeals
    /\ \A a \in 1 .. nAppeals : /\ appeals'[a].source = appeals[a].source
                                /\ appeals'[a].scope = appeals[a].scope

\* A played round stays a played round, of the same stage and number.
RoundsStay ==
    /\ Created \subseteq Created'
    /\ \A r \in Created : SameIdentity(r) /\ (rounds[r].ended => rounds'[r].ended)

\* No step takes a round away, changes what it is or reopens it.
LEMMA RoundsStayStep ==
    ASSUME TypeOK, LegalRows, UncreatedIsNotDue, AppealsAreSourced, [Next]_vars
    PROVE  RoundsStay
<1>1. \A r \in Created : r \in RoundIds
    BY CreatedAreRounds
<1>2. CASE RoundsRest
    BY <1>1, <1>2 DEF RoundsRest, RoundsStay, SameRound, Created
<1>3. ASSUME NEW q \in RoundIds, Ends(q) PROVE RoundsStay
    BY <1>1, <1>3 DEF Ends, RoundsStay, SameRound, SameIdentity, Created
<1>4. ASSUME NEW stage, NEW number, Starts(nRounds + 1, stage, number) PROVE RoundsStay
    <2>1. nRounds \in Nat
        BY DEF TypeOK
    <2>2. Created \subseteq Created' /\ \A r \in Created : r # nRounds + 1
        BY <2>1, <1>4 DEF Created, Starts
    <2> QED
        BY <1>1, <1>4, <2>2 DEF Starts, RoundsStay, SameRound
<1>5. ASSUME NEW S, Invalidates(S) PROVE RoundsStay
    BY <1>1, <1>5 DEF Invalidates, RoundsStay, Created
<1>6. ASSUME NEW k, Restores(k) PROVE RoundsStay
    BY <1>1, <1>6 DEF Restores, RoundsStay, Created
<1>7. ASSUME NEW q, Retires(q) PROVE RoundsStay
    BY <1>1, <1>7 DEF Retires, RoundsStay, SameRound, Created
<1> QED
    BY StepShape, StartShape, ExitShape, CancelShape, UndoShape, RestartShape,
       <1>2, <1>3, <1>4, <1>5, <1>6, <1>7

\* A new appeal, over a round just found ended.
SourcesGrow(n) ==
    /\ n = nAppeals + 1 /\ nAppeals' = n
    /\ \A a \in 1 .. nAppeals : /\ appeals'[a].source = appeals[a].source
                                /\ appeals'[a].scope = appeals[a].scope
    /\ appeals'[n].source \in Created /\ rounds[appeals'[n].source].ended
    /\ appeals'[n].scope = "OVERTIME" => IsOf(appeals'[n].source, "OVERTIME", 1)

\* regulation-appeal:complete appeals the second regulation round.
LEMMA RegulationSource ==
    ASSUME TypeOK, NEW result, CompleteRegulationAppeal(result)
    PROVE  SourcesGrow(nAppeals + 1)
<1> DEFINE sources == Ended({r \in Effective : rounds[r].stage = "REGULATION"})
<1>1. PICK r2 \in sources :
        appeals' = [WithoutStale(appeals) EXCEPT ![nAppeals + 1] =
                          RegulationAppeal(r2, sources, result)]
    BY DEF CompleteRegulationAppeal
<1>2. nAppeals + 1 \in AppealIds /\ nAppeals' = nAppeals + 1
    BY DEF CompleteRegulationAppeal, TypeOK, AppealIds
<1>3. \A a \in 1 .. nAppeals : a \in AppealIds /\ a # nAppeals + 1
    BY <1>2 DEF TypeOK, AppealIds
<1>4. ASSUME NEW a \in 1 .. nAppeals
      PROVE  appeals'[a].source = appeals[a].source /\ appeals'[a].scope = appeals[a].scope
    <2>1. a \in AppealIds /\ a # nAppeals + 1 /\ appeals[a] \in AppealType
        BY <1>3 DEF TypeOK
    <2>2. appeals'[a] = IF a \in StaleAppeals THEN [appeals[a] EXCEPT !.by = OtherAudit] ELSE appeals[a]
        BY <1>1, <2>1 DEF WithoutStale
    <2> QED
        BY <2>1, <2>2 DEF AppealType
<1>5. appeals'[nAppeals + 1] = RegulationAppeal(r2, sources, result)
    BY <1>1, <1>2 DEF WithoutStale
<1>6. appeals'[nAppeals + 1].source = r2 /\ appeals'[nAppeals + 1].scope = "REGULATION"
    BY <1>5 DEF RegulationAppeal, NoAppeal
<1>7. r2 \in Created /\ rounds[r2].ended
    BY DEF Ended, Effective
<1> QED
    BY <1>2, <1>4, <1>6, <1>7 DEF SourcesGrow

\* The round of the highest attempt is one of the rounds.
LEMMA HighestAttemptIsMember ==
    ASSUME TypeOK, NEW S \in SUBSET Created, S # {}
    PROVE  HighestAttempt(S) \in S /\ \A q \in S : rounds[q].attempt <= rounds[HighestAttempt(S)].attempt
<1> DEFINE T == {rounds[r].attempt : r \in S}
<1>1. \A r \in S : rounds[r].attempt \in 0 .. MaxRounds
    BY CreatedAreRounds DEF TypeOK, RoundType
<1>2. T \in SUBSET (0 .. MaxRounds) /\ T # {}
    BY <1>1
<1>3. Latest(T) \in T /\ \A y \in T : y <= Latest(T)
    BY <1>2, LatestIsMember
<1>4. \E r \in S : \A q \in S : rounds[q].attempt <= rounds[r].attempt
    BY <1>3
<1> QED
    BY <1>4, Zenon DEF HighestAttempt

\* appeal:complete of an overtime round appeals the newest ended attempt.
LEMMA OvertimeSource ==
    ASSUME TypeOK, NEW result, CompleteOvertimeAppeal(result)
    PROVE  SourcesGrow(nAppeals + 1)
<1> DEFINE played == Ended(EffectiveOf("OVERTIME", 1))
           q == HighestAttempt(played)
<1>1. appeals' = [appeals EXCEPT ![nAppeals + 1] = OvertimeAppeal(q, result)] /\ played # {}
    BY DEF CompleteOvertimeAppeal
<1>2. nAppeals + 1 \in AppealIds /\ nAppeals' = nAppeals + 1
    BY DEF CompleteOvertimeAppeal, TypeOK, AppealIds
<1>3. \A a \in 1 .. nAppeals : a \in AppealIds /\ a # nAppeals + 1
    BY <1>2 DEF TypeOK, AppealIds
<1>4. \A a \in 1 .. nAppeals : appeals'[a] = appeals[a]
    BY <1>1, <1>3 DEF TypeOK
<1>5. appeals'[nAppeals + 1] = OvertimeAppeal(q, result)
    BY <1>1, <1>2 DEF TypeOK
<1>6. appeals'[nAppeals + 1].source = q
    BY <1>5 DEF OvertimeAppeal, NoAppeal
<1>7. \A r \in played : r \in Created /\ rounds[r].ended /\ IsOf(r, "OVERTIME", 1)
    BY DEF Ended, EffectiveOf, Effective, IsOf
<1>8. q \in played
    <2>1. played \in SUBSET Created
        BY <1>7
    <2> QED
        BY <2>1, <1>1, HighestAttemptIsMember
<1> HIDE DEF q, played
<1> QED
    BY <1>2, <1>4, <1>6, <1>7, <1>8 DEF SourcesGrow

\* What the other steps do to the appeals leaves their rounds alone.
LEMMA SourcesStep ==
    ASSUME TypeOK, [Next]_vars
    PROVE  SourcesRest \/ SourcesGrow(nAppeals + 1)
<1>0. \A a \in 1 .. nAppeals : a \in AppealIds /\ appeals[a] \in AppealType
    BY DEF TypeOK, AppealIds
<1>1. CASE UNCHANGED <<appeals, nAppeals>>
    BY <1>1 DEF SourcesRest
<1>2. ASSUME NEW result \in Colours \cup {"TIE"},
             CompleteRegulationAppeal(result) \/ CompleteOvertimeAppeal(result)
      PROVE  SourcesGrow(nAppeals + 1)
    BY <1>2, RegulationSource, OvertimeSource
<1>3. CASE ReplayRegulationAppeal
    <2>1. appeals' = WithoutStale(appeals) /\ nAppeals' = nAppeals
        BY <1>3 DEF ReplayRegulationAppeal
    <2>2. ASSUME NEW a \in 1 .. nAppeals
          PROVE  appeals'[a].source = appeals[a].source /\ appeals'[a].scope = appeals[a].scope
        <3>1. appeals'[a] = IF a \in StaleAppeals THEN [appeals[a] EXCEPT !.by = OtherAudit] ELSE appeals[a]
            BY <1>0, <2>1 DEF WithoutStale
        <3> QED
            BY <1>0, <3>1 DEF AppealType
    <2> QED
        BY <2>1, <2>2 DEF SourcesRest
<1>4. CASE RestartOvertime
    <2>1. ASSUME NEW a \in 1 .. nAppeals
          PROVE  appeals'[a].source = appeals[a].source /\ appeals'[a].scope = appeals[a].scope
        <3> DEFINE W == IF appeals[TiedAppeal].winner # "NONE" /\ appeals[TiedAppeal].winnerBy = 0
                        THEN OtherAudit ELSE appeals[TiedAppeal].winnerBy
        <3>1. \/ appeals'[a] = appeals[a]
              \/ a = TiedAppeal /\ appeals'[a] = [appeals[a] EXCEPT !.by = OtherAudit, !.winnerBy = W]
            BY <1>0, <1>4 DEF RestartOvertime, TypeOK
        <3> HIDE DEF W
        <3> QED
            BY <1>0, <3>1 DEF AppealType
    <2> QED
        BY <1>4, <2>1 DEF RestartOvertime, SourcesRest
<1>5. ASSUME NEW colour \in Colours, ManualWinner(colour) PROVE SourcesRest
    <2>1. ASSUME NEW a \in 1 .. nAppeals
          PROVE  appeals'[a].source = appeals[a].source /\ appeals'[a].scope = appeals[a].scope
        <3>1. \/ appeals'[a] = appeals[a]
              \/ appeals'[a] = [appeals[a] EXCEPT !.winner = colour, !.winnerStamp = nOps]
            BY <1>0, <1>5 DEF ManualWinner, TypeOK
        <3> QED
            BY <1>0, <3>1 DEF AppealType
    <2> QED
        BY <1>5, <2>1 DEF ManualWinner, SourcesRest
<1>6. ASSUME NEW i \in Instances, NEW entireMatch \in BOOLEAN, CancelResults(i, entireMatch)
      PROVE  SourcesRest
    <2> DEFINE selected == SelectedRounds(entireMatch)
               affected == AffectedAppeals(selected, entireMatch)
    <2>1. appeals' = AppealsAfterCancellation(affected, selected, nOps + 1) /\ nAppeals' = nAppeals
        BY <1>6 DEF CancelResults
    <2> HIDE DEF selected, affected
    <2>2. ASSUME NEW a \in 1 .. nAppeals
          PROVE  appeals'[a].source = appeals[a].source /\ appeals'[a].scope = appeals[a].scope
        <3> DEFINE A == IF a \in affected THEN nOps + 1 ELSE appeals[a].by
                   W == IF /\ appeals[a].winner # "NONE" /\ appeals[a].winnerBy = 0
                           /\ a \in affected \/ appeals[a].source \in selected
                        THEN nOps + 1 ELSE appeals[a].winnerBy
        <3>1. appeals'[a] = [appeals[a] EXCEPT !.by = A, !.winnerBy = W]
            BY <1>0, <2>1 DEF AppealsAfterCancellation
        <3> HIDE DEF A, W
        <3> QED
            BY <1>0, <3>1 DEF AppealType
    <2> QED
        BY <2>1, <2>2 DEF SourcesRest
<1>7. ASSUME NEW i \in Instances, NEW k \in OpIds, Undo(i, k) PROVE SourcesRest
    <2>1. ASSUME NEW a \in 1 .. nAppeals
          PROVE  appeals'[a].source = appeals[a].source /\ appeals'[a].scope = appeals[a].scope
        <3> DEFINE A == IF appeals[a].by = k THEN 0 ELSE appeals[a].by
                   W == IF appeals[a].winnerBy = k THEN 0 ELSE appeals[a].winnerBy
        <3>1. appeals'[a] = [appeals[a] EXCEPT !.by = A, !.winnerBy = W]
            BY <1>0, <1>7 DEF Undo
        <3> HIDE DEF A, W
        <3> QED
            BY <1>0, <3>1 DEF AppealType
    <2> QED
        BY <1>7, <2>1 DEF Undo, SourcesRest
<1>8. CASE \/ Take \/ Publish \/ Clock
           \/ \E r \in RoundIds : OpenWindow(r) \/ RecordFault(r)
           \/ \E i \in Instances : \/ StartRound(i) \/ PauseRound(i) \/ ResumeRound(i) \/ Process(i)
                                   \/ \E mode \in ExitModes : ExitMatch(i, mode)
    <2>1. UNCHANGED <<appeals, nAppeals>>
        BY <1>8 DEF Take, Publish, Clock, ResolveWindow, DeadlinePasses, OpenWindow, RecordFault,
            StartRound, PauseRound, ResumeRound, ExitMatch, Process, TimerFires, HandleExpiration,
            HandlerFails, Crash, Restart, RestartFails, dbVars
    <2> QED
        BY <2>1, <1>1
<1>9. CASE UNCHANGED vars
    BY <1>9, <1>1 DEF vars, dbVars
<1> QED
    BY <1>2, <1>3, <1>4, <1>5, <1>6, <1>7, <1>8, <1>9 DEF Next, Officials, Command

\* Every step keeps the sources of the appeals.
LEMMA SourcedStep ==
    ASSUME TypeOK, LegalRows, UncreatedIsNotDue, AppealsAreSourced, [Next]_vars
    PROVE  AppealsAreSourced'
<1>1. RoundsStay /\ (SourcesRest \/ SourcesGrow(nAppeals + 1)) /\ nAppeals \in Nat
    BY RoundsStayStep, SourcesStep DEF TypeOK
<1> SUFFICES ASSUME NEW a \in 1 .. nAppeals', NEW s, s = appeals'[a].source
             PROVE  /\ s \in Created' /\ rounds'[s].ended
                    /\ appeals'[a].scope = "OVERTIME" =>
                          rounds'[s].stage = "OVERTIME" /\ rounds'[s].number = 1
    BY DEF AppealsAreSourced, IsOf
<1>2. /\ s \in Created /\ rounds[s].ended
      /\ appeals'[a].scope = "OVERTIME" => IsOf(s, "OVERTIME", 1)
    <2>1. CASE a \in 1 .. nAppeals
        BY <1>1, <2>1 DEF SourcesRest, SourcesGrow, AppealsAreSourced
    <2>2. CASE a \notin 1 .. nAppeals
        <3>1. SourcesGrow(nAppeals + 1) /\ a = nAppeals + 1
            BY <1>1, <2>2 DEF SourcesRest, SourcesGrow
        <3> QED
            BY <3>1 DEF SourcesGrow
    <2> QED
        BY <2>1, <2>2
<1> QED
    BY <1>1, <1>2 DEF RoundsStay, SameIdentity, IsOf

\* Every step keeps the form of rounds and appeals.
LEMMA FormStep == FormInv /\ [Next]_vars => FormInv'
<1> SUFFICES ASSUME FormInv, [Next]_vars PROVE FormInv'
    OBVIOUS
<1>1. LegalInv' /\ TypeOK /\ LegalRows /\ UncreatedIsNotDue /\ AppealsAreSourced
    BY LegalStep DEF FormInv, LegalInv
<1>2. AppealsAreSourced'
    BY <1>1, SourcedStep
<1>3. (RoundsAreFormed /\ AttemptsDiffer /\ UncreatedIsNotDue)'
    BY <1>1, StepShape, StartShape, ExitShape, CancelShape, UndoShape, RestartShape,
       FormedRest, FormedEnds, FormedStarts, FormedInvalidates, FormedRestores, FormedRetires
<1> QED
    BY <1>1, <1>2, <1>3 DEF FormInv

\* It holds at first: there is no round.
LEMMA FormInit == Init => FormInv
<1> SUFFICES ASSUME Init PROVE FormInv
    OBVIOUS
<1>1. LegalInv
    BY LegalInit
<1>2. Created = {} /\ 1 .. nAppeals = {}
    BY DEF Init, Created
<1>3. UncreatedIsNotDue
    BY DEF Init, UncreatedIsNotDue, NoRound
<1> QED
    BY <1>1, <1>2, <1>3 DEF FormInv, RoundsAreFormed, AttemptsDiffer, AppealsAreSourced

-----------------------------------------------------------------------------
(* The effective rounds fit the phase of the match and of every saved row.  *)

BeforeSecond == {"WAITING", "ROUND_1_RUNNING", "ROUND_1_PAUSED", "BREAK"}
BeforeOvertime(row) == row.phase \in BeforeSecond \/ row.currentRound = 2

\* The rounds of E, as rs has them, fit a row: none of a stage that the row has
\* not reached, and no regulation round twice.
Fits(rs, row, E) ==
    /\ row.phase = "WAITING" => \A r \in E : ~(rs[r].stage = "REGULATION" /\ rs[r].number = 1)
    /\ row.phase \in BeforeSecond => \A r \in E : ~(rs[r].stage = "REGULATION" /\ rs[r].number = 2)
    /\ BeforeOvertime(row) => \A r \in E : rs[r].stage # "OVERTIME"
    /\ \A q, r \in E : rs[q].stage = "REGULATION" /\ rs[r].stage = "REGULATION"
                           /\ rs[q].number = rs[r].number => q = r

InvalidatedBy(k) == {r \in Created : rounds[r].by = k}

\* What operation k invalidated fits the row it saved, and leaves only rounds
\* that fit the row it wrote.
OperationFits(k) ==
    LET from == ops[k].previous
        to == ops[k].resulting
    IN
    /\ Fits(rounds, from, InvalidatedBy(k))
    /\ \/ to.phase = "WAITING"
       \/ /\ to.phase = "BREAK" /\ from.phase # "WAITING"
          /\ \A r \in InvalidatedBy(k) : IsOf(r, "REGULATION", 2)
       \/ /\ to.phase = "AWAITING_RESULT_SAVE" /\ from.phase \notin BeforeSecond
          /\ InvalidatedBy(k) = {}
       \/ /\ to.phase = "OVERTIME_READY" /\ from.phase \in OvertimePhases /\ ~BeforeOvertime(from)
          /\ \A r \in InvalidatedBy(k) : IsOf(r, "OVERTIME", 1)
       \/ /\ to.phase \in RetainablePhases /\ from.phase = to.phase
          /\ from.currentRound = to.currentRound /\ InvalidatedBy(k) = {}

RoundsFit ==
    /\ Fits(rounds, match, Effective)
    /\ \A k \in OpIds : ops[k].status = "APPLIED" => OperationFits(k)

\* Unless an exit strands an overtime round.
FitInv == ~stranded => RoundsFit

\* Fewer rounds of the same kinds fit the same phase.
LEMMA FitsKept ==
    ASSUME NEW rs, NEW ts, NEW row, NEW next, NEW E, NEW F, F \subseteq E,
           \A r \in F : ts[r].stage = rs[r].stage /\ ts[r].number = rs[r].number,
           next.phase = row.phase, next.currentRound = row.currentRound,
           Fits(rs, row, E)
    PROVE  Fits(ts, next, F)
BY DEF Fits, BeforeOvertime

\* A fit survives the phases that follow without touching a round.
LEMMA FitsDrift ==
    ASSUME NEW rs, NEW row, NEW next, NEW E, Drifts(row.phase, next.phase),
           next.currentRound = row.currentRound, Fits(rs, row, E)
    PROVE  Fits(rs, next, E)
BY DEF Fits, BeforeOvertime, BeforeSecond, Drifts, RunningPhases, PausedPhases, PausedStatus, ResumedStatus

\* What an operation invalidated may only shrink.
LEMMA OperationFitsKept ==
    ASSUME NEW k, OperationFits(k), ops'[k].previous = ops[k].previous,
           ops'[k].resulting = ops[k].resulting,
           InvalidatedBy(k)' \subseteq InvalidatedBy(k),
           \A r \in InvalidatedBy(k)' : SameIdentity(r)
    PROVE  OperationFits(k)'
<1>1. Fits(rounds', ops'[k].previous, InvalidatedBy(k)')
    BY FitsKept DEF OperationFits, SameIdentity
<1> QED
    BY <1>1 DEF OperationFits, IsOf, SameIdentity

\* The rounds go on fitting the phase through a step that touches none, ...
LEMMA FitRest ==
    ASSUME FormInv, RoundsFit, RoundsRest, PhaseDrifts
    PROVE  RoundsFit'
<1>0. TypeOK
    BY DEF FormInv, LegalInv
<1>1. Created' = Created /\ \A r \in Created : SameRound(r)
    BY <1>0, CreatedAreRounds DEF RoundsRest, Created
<1>2. Effective' = Effective /\ \A k : InvalidatedBy(k)' = InvalidatedBy(k)
    BY <1>1 DEF Effective, InvalidatedBy, SameRound
<1>3. \A r \in Created : SameIdentity(r)
    BY <1>1 DEF SameRound
<1>4. Fits(rounds, match', Effective)
    BY FitsDrift DEF RoundsFit, PhaseDrifts
<1>5. Fits(rounds', match', Effective')
    BY <1>2, <1>3, <1>4, FitsKept DEF Effective, SameIdentity
<1>6. ASSUME NEW k \in OpIds, ops'[k].status = "APPLIED" PROVE OperationFits(k)'
    BY <1>2, <1>3, <1>6, OperationFitsKept DEF RoundsRest, RoundsFit, InvalidatedBy
<1> QED
    BY <1>5, <1>6 DEF RoundsFit

\* ... through the end of a round, ...
LEMMA FitEnds ==
    ASSUME FormInv, RoundsFit, NEW q \in RoundIds, Ends(q)
    PROVE  RoundsFit'
<1>0. TypeOK
    BY DEF FormInv, LegalInv
<1>1. Created' = Created /\ \A r \in Created : SameIdentity(r) /\ rounds'[r].by = rounds[r].by
    BY <1>0, CreatedAreRounds DEF Ends, Created, SameRound
<1>2. Effective' = Effective /\ \A k : InvalidatedBy(k)' = InvalidatedBy(k)
    BY <1>1 DEF Effective, InvalidatedBy
<1>3. FormedRound(q)
    BY DEF Ends, FormInv, RoundsAreFormed
<1>4. Fits(rounds, match', Effective)
    BY <1>3 DEF RoundsFit, Fits, BeforeOvertime, BeforeSecond, Ends, Expirable, PhaseAfter, RunningStatus,
        FormedRound, IsOf
<1>5. Fits(rounds', match', Effective')
    BY <1>1, <1>2, <1>4, FitsKept DEF Effective, SameIdentity
<1>6. ASSUME NEW k \in OpIds, ops'[k].status = "APPLIED" PROVE OperationFits(k)'
    BY <1>1, <1>2, <1>6, OperationFitsKept DEF Ends, RoundsFit, InvalidatedBy
<1> QED
    BY <1>5, <1>6 DEF RoundsFit

\* ... and through a start.
LEMMA FitStarts ==
    ASSUME FormInv, RoundsFit, NEW n, NEW stage, NEW number, Starts(n, stage, number)
    PROVE  RoundsFit'
<1>0. TypeOK
    BY DEF FormInv, LegalInv
<1>1. /\ Created' = Created \cup {n} /\ n \notin Created /\ n \in RoundIds
      /\ \A r \in Created : SameRound(r) /\ r # n
    BY <1>0, CreatedAreRounds DEF Starts, Created, TypeOK
<1>2. Effective' = Effective \cup {n} /\ n \notin Effective
    BY <1>1 DEF Effective, Starts, SameRound
<1>3. \A k \in OpIds : InvalidatedBy(k)' = InvalidatedBy(k)
    BY <1>1, AuditsDiffer DEF InvalidatedBy, Starts, SameRound
<1>4. \A r \in Effective : rounds'[r].stage = rounds[r].stage /\ rounds'[r].number = rounds[r].number
    BY <1>1 DEF Effective, SameRound, SameIdentity
<1>5. Fits(rounds', match', Effective')
    <2>1. Fits(rounds, match, Effective)
        BY DEF RoundsFit
    <2> QED
        BY <1>2, <1>4, <2>1 DEF Fits, Starts, BeforeOvertime, BeforeSecond
<1>6. ASSUME NEW k \in OpIds, ops'[k].status = "APPLIED" PROVE OperationFits(k)'
    BY <1>1, <1>3, <1>6, OperationFitsKept DEF Starts, RoundsFit, InvalidatedBy, SameRound
<1> QED
    BY <1>5, <1>6 DEF RoundsFit

\* What an invalidation does to the sets of rounds.
LEMMA InvalidatedSets ==
    ASSUME FormInv, NEW S, Invalidates(S)
    PROVE  /\ Created' = Created /\ \A r \in Created : SameIdentity(r)
           /\ Effective' = Effective \ S
           /\ \A k \in OpIds : IF k = nOps + 1 THEN InvalidatedBy(k)' = S
                               ELSE InvalidatedBy(k)' = InvalidatedBy(k)
<1>0. TypeOK /\ nOps + 1 \in OpIds /\ nOps \in Nat
    BY DEF FormInv, LegalInv, Invalidates, TypeOK
<1>1. Created' = Created /\ \A r \in Created : r \in RoundIds /\ SameIdentity(r)
    BY <1>0, CreatedAreRounds DEF Invalidates, Created
<1>2. \A r \in Created : rounds'[r].by = IF r \in S THEN nOps + 1 ELSE rounds[r].by
    BY <1>1 DEF Invalidates
<1>3. \A r \in S : r \in Created /\ rounds[r].by = 0
    BY DEF Invalidates, Effective
<1>4. Effective' = Effective \ S
    BY <1>0, <1>1, <1>2, AuditsDiffer DEF Effective
<1>5. \A r \in Created : rounds[r].by # nOps + 1
    BY <1>0, RoundNumbers DEF FormInv, RoundsAreFormed, FormedRound
<1>6. ASSUME NEW k \in OpIds
      PROVE  IF k = nOps + 1 THEN InvalidatedBy(k)' = S ELSE InvalidatedBy(k)' = InvalidatedBy(k)
    <2>1. CASE k = nOps + 1
        BY <1>1, <1>2, <1>3, <1>5, <2>1 DEF InvalidatedBy
    <2>2. CASE k # nOps + 1
        BY <1>1, <1>2, <1>3, <2>2, AuditsDiffer DEF InvalidatedBy
    <2> QED
        BY <2>1, <2>2
<1> QED
    BY <1>1, <1>4, <1>6

\* An invalidation whose new row and saved row fit keeps all the others.
LEMMA FitInvalidates ==
    ASSUME FormInv, RoundsFit, NEW S, Invalidates(S),
           Fits(rounds, match', Effective \ S),
           \/ match'.phase = "WAITING"
           \/ /\ match'.phase = "BREAK" /\ match.phase # "WAITING"
              /\ \A r \in S : IsOf(r, "REGULATION", 2)
           \/ match'.phase = "AWAITING_RESULT_SAVE" /\ match.phase \notin BeforeSecond /\ S = {}
           \/ /\ match'.phase = "OVERTIME_READY" /\ match.phase \in OvertimePhases
              /\ ~BeforeOvertime(match)
              /\ \A r \in S : IsOf(r, "OVERTIME", 1)
           \/ /\ match'.phase \in RetainablePhases /\ match.phase = match'.phase
              /\ match.currentRound = match'.currentRound /\ S = {}
    PROVE  RoundsFit'
<1>1. /\ Created' = Created /\ \A r \in Created : SameIdentity(r)
      /\ Effective' = Effective \ S
      /\ \A k \in OpIds : IF k = nOps + 1 THEN InvalidatedBy(k)' = S
                          ELSE InvalidatedBy(k)' = InvalidatedBy(k)
    BY InvalidatedSets
<1>2. S \subseteq Effective /\ Effective \subseteq Created
    BY DEF Invalidates, Effective
<1>3. Fits(rounds', match', Effective')
    BY <1>1, <1>2, FitsKept DEF SameIdentity
<1>4. ASSUME NEW k \in OpIds, ops'[k].status = "APPLIED" PROVE OperationFits(k)'
    <2>1. CASE k = nOps + 1
        <3>1. InvalidatedBy(k)' = S
            BY <1>1, <2>1
        <3>2. /\ ops'[k].previous.phase = match.phase
              /\ ops'[k].previous.currentRound = match.currentRound
              /\ ops'[k].resulting.phase = match'.phase
              /\ ops'[k].resulting.currentRound = match'.currentRound
            BY <2>1 DEF Invalidates
        <3>3. Fits(rounds', ops'[k].previous, S)
            BY <1>1, <1>2, <3>2, FitsKept DEF SameIdentity, RoundsFit
        <3>4. \A r \in S : /\ IsOf(r, "REGULATION", 2) => IsOf(r, "REGULATION", 2)'
                           /\ IsOf(r, "OVERTIME", 1) => IsOf(r, "OVERTIME", 1)'
            BY <1>1, <1>2 DEF IsOf, SameIdentity
        <3> QED
            BY <3>1, <3>2, <3>3, <3>4 DEF OperationFits, BeforeOvertime
    <2>2. CASE k # nOps + 1
        <3>1. InvalidatedBy(k)' = InvalidatedBy(k) /\ ops'[k] = ops[k]
            BY <1>1, <2>2 DEF Invalidates
        <3> QED
            BY <1>1, <1>4, <3>1, OperationFitsKept DEF RoundsFit, InvalidatedBy
    <2> QED
        BY <2>1, <2>2
<1> QED
    BY <1>3, <1>4 DEF RoundsFit

\* The kinds of the effective rounds.
LEMMA EffectiveKinds ==
    ASSUME FormInv, NEW r \in Effective
    PROVE  /\ IsOf(r, "REGULATION", 1) \/ IsOf(r, "REGULATION", 2) \/ IsOf(r, "OVERTIME", 1)
           /\ r \in Created /\ r \in RoundIds
BY CreatedAreRounds DEF FormInv, LegalInv, RoundsAreFormed, FormedRound, Effective

\* match:exit that strands nothing
LEMMA FitExit ==
    ASSUME FormInv, RoundsFit, NEW i \in Instances, NEW mode \in ExitModes, ExitMatch(i, mode),
           ~StrandsOvertime(mode)
    PROVE  RoundsFit'
<1> DEFINE S == ExitRounds(mode)
<1>0. TypeOK
    BY DEF FormInv, LegalInv
<1>1. /\ Invalidates(S) /\ ExitAllowed(mode)
      /\ match'.phase = RowAfterExit(mode).phase
      /\ match'.currentRound = RowAfterExit(mode).currentRound
    BY <1>0, ExitShape
<1>2. \A r \in Effective : rounds[r].number \in {1, 2}
    BY EffectiveKinds DEF IsOf
<1>3. CASE mode = "CANCEL_RESULTS"
    <2>1. S = Effective
        BY <1>2, <1>3 DEF ExitRounds, InvalidatedNumbers
    <2>2. match'.phase = "WAITING"
        BY <1>1, <1>3 DEF RowAfterExit, NoRow
    <2>3. Fits(rounds, match', Effective \ S)
        BY <2>1 DEF Fits
    <2> HIDE DEF S
    <2> QED
        BY <1>1, <2>2, <2>3, FitInvalidates
<1>4. CASE mode \in {"SUSPEND_KEEP_ROUND_1", "SUSPEND_KEEP_ROUNDS_1_AND_2"}
    <2>1. \A r \in Effective : IsOf(r, "REGULATION", 1) \/ IsOf(r, "REGULATION", 2)
        BY <1>4, EffectiveKinds DEF StrandsOvertime, EffectiveOf, IsOf
    <2>2. CASE mode = "SUSPEND_KEEP_ROUND_1"
        <3>1. S = {r \in Effective : rounds[r].number = 2}
            BY <2>2 DEF ExitRounds, InvalidatedNumbers
        <3>2. match'.phase = "BREAK" /\ match'.currentRound = 1
            BY <1>1, <2>2 DEF RowAfterExit, Row
        <3>3. \E r \in Effective : rounds[r].number = 1
            BY <1>1, <2>2 DEF ExitAllowed, RetainedModeAllowed, Ended
        <3>4. match.phase # "WAITING"
            BY <2>1, <3>3 DEF RoundsFit, Fits, IsOf
        <3>5. \A r \in S : IsOf(r, "REGULATION", 2)
            BY <2>1, <3>1 DEF IsOf
        <3>6. Fits(rounds, match', Effective \ S)
            BY <2>1, <3>1, <3>2 DEF Fits, RoundsFit, IsOf
        <3> HIDE DEF S
        <3> QED
            BY <1>1, <3>2, <3>4, <3>5, <3>6, FitInvalidates
    <2>3. CASE mode = "SUSPEND_KEEP_ROUNDS_1_AND_2"
        <3>1. S = {}
            BY <2>3 DEF ExitRounds, InvalidatedNumbers
        <3>2. match'.phase = "AWAITING_RESULT_SAVE"
            BY <1>1, <2>3 DEF RowAfterExit, Row
        <3>3. \E r \in Effective : rounds[r].number = 2
            BY <1>1, <2>3 DEF ExitAllowed, RetainedModeAllowed, Ended
        <3>4. match.phase \notin BeforeSecond
            BY <2>1, <3>3 DEF RoundsFit, Fits, IsOf
        <3>5. Fits(rounds, match', Effective \ S)
            BY <2>1, <3>1, <3>2 DEF Fits, RoundsFit, IsOf, BeforeSecond
        <3> HIDE DEF S
        <3> QED
            BY <1>1, <3>1, <3>2, <3>4, <3>5, FitInvalidates
    <2> QED
        BY <1>4, <2>2, <2>3
<1>5. CASE mode = "SUSPEND_KEEP_V2_PHASE"
    <2>1. S = {}
        BY <1>5 DEF ExitRounds, InvalidatedNumbers
    <2>2. match'.phase = match.phase /\ match'.currentRound = match.currentRound
        BY <1>1, <1>5 DEF RowAfterExit, Row
    <2>3. match.phase \in RetainablePhases
        BY <1>1, <1>5 DEF ExitAllowed, RetainedModeAllowed
    <2>4. Fits(rounds, match', Effective \ S)
        BY <2>1, <2>2 DEF Fits, RoundsFit, BeforeOvertime
    <2> HIDE DEF S
    <2> QED
        BY <1>1, <2>1, <2>2, <2>3, <2>4, FitInvalidates
<1> QED
    BY <1>3, <1>4, <1>5 DEF ExitModes

\* The rounds a cancellation of one round selects, phase by phase.
LEMMA SelectedByPhase ==
    ASSUME SelectedRounds(FALSE) # {}
    PROVE  LET S == SelectedRounds(FALSE) IN
           \/ match.phase = "REGULATION_APPEAL" /\ S = EffectiveOf("REGULATION", 2)
           \/ /\ match.phase \in OvertimePhases
              /\ S = {r \in EffectiveOf("OVERTIME", 1) :
                       \A q \in EffectiveOf("OVERTIME", 1) : rounds[q].attempt <= rounds[r].attempt}
           \/ match.phase = "BREAK" /\ S = EffectiveOf("REGULATION", 1)
           \/ /\ match.phase \in {"FINISHED", "AWAITING_RESULT_SAVE"} /\ match.currentRound = 2
              /\ S = EffectiveOf("REGULATION", 2)
BY DEF SelectedRounds, OvertimePhases

\* round:cancel and match:reset
LEMMA FitCancel ==
    ASSUME FormInv, RoundsFit, NEW i \in Instances, NEW entireMatch \in BOOLEAN,
           CancelResults(i, entireMatch)
    PROVE  RoundsFit'
<1> DEFINE S == SelectedRounds(entireMatch)
<1>0. TypeOK /\ AgreeingColumns(match)
    BY DEF FormInv, LegalInv, LegalRows
<1>1. /\ Invalidates(S) /\ S # {}
      /\ match'.phase =
            IF entireMatch \/ \E r \in S : IsOf(r, "REGULATION", 1) THEN "WAITING"
            ELSE IF \E r \in S : rounds[r].stage = "OVERTIME" THEN "OVERTIME_READY" ELSE "BREAK"
      /\ match'.currentRound = IF match'.phase = "WAITING" THEN 0 ELSE 1
    BY <1>0, CancelShape
<1>2. CASE entireMatch
    <2>1. S = Effective
        BY <1>2 DEF SelectedRounds
    <2>2. match'.phase = "WAITING"
        BY <1>1, <1>2
    <2>3. Fits(rounds, match', Effective \ S)
        BY <2>1 DEF Fits
    <2> HIDE DEF S
    <2> QED
        BY <1>1, <2>2, <2>3, FitInvalidates
<1>3. CASE ~entireMatch
    <2>1. S = SelectedRounds(FALSE)
        <3>1. entireMatch = FALSE
            BY <1>3
        <3> QED
            BY <3>1
    <2> HIDE DEF S
    <2>2. Fits(rounds, match, Effective)
        BY DEF RoundsFit
    <2>3. CASE S = EffectiveOf("REGULATION", 2) /\ match.phase # "WAITING" /\ match.currentRound = 2
        <3>1. \A r \in S : r \in Effective /\ IsOf(r, "REGULATION", 2)
            BY <2>3 DEF EffectiveOf, IsOf
        <3>2. match'.phase = "BREAK" /\ match'.currentRound = 1
            BY <1>1, <1>3, <3>1 DEF IsOf
        <3>3. Fits(rounds, match', Effective \ S)
            BY <2>2, <2>3, <3>2 DEF Fits, BeforeOvertime, EffectiveOf
        <3> QED
            BY <1>1, <2>3, <3>1, <3>2, <3>3, FitInvalidates
    <2>4. CASE match.phase \in OvertimePhases /\ S \subseteq EffectiveOf("OVERTIME", 1)
        <3>1. \A r \in S : r \in Effective /\ IsOf(r, "OVERTIME", 1)
            BY <2>4 DEF EffectiveOf, IsOf
        <3>2. match'.phase = "OVERTIME_READY" /\ match'.currentRound = 1
            BY <1>1, <1>3, <3>1 DEF IsOf
        <3>3. ~BeforeOvertime(match)
            BY <1>1, <3>1, <2>2 DEF Fits, IsOf
        <3>4. Fits(rounds, match', Effective \ S)
            BY <2>2, <3>2 DEF Fits, BeforeOvertime, BeforeSecond
        <3> QED
            BY <1>1, <2>4, <3>1, <3>2, <3>3, <3>4, FitInvalidates
    <2>5. CASE match.phase = "BREAK" /\ S = EffectiveOf("REGULATION", 1)
        <3>1. \A r \in S : IsOf(r, "REGULATION", 1)
            BY <2>5 DEF EffectiveOf, IsOf
        <3>2. match'.phase = "WAITING"
            BY <1>1, <3>1
        <3>3. Fits(rounds, match', Effective \ S)
            BY <2>2, <2>5, <3>2 DEF Fits, BeforeOvertime, BeforeSecond, EffectiveOf
        <3> QED
            BY <1>1, <3>2, <3>3, FitInvalidates
    <2>6. match.phase = "REGULATION_APPEAL" => match.currentRound = 2
        BY <1>0 DEF AgreeingColumns
    <2>7. \/ match.phase = "REGULATION_APPEAL" /\ S = EffectiveOf("REGULATION", 2)
          \/ match.phase \in OvertimePhases /\ S \subseteq EffectiveOf("OVERTIME", 1)
          \/ match.phase = "BREAK" /\ S = EffectiveOf("REGULATION", 1)
          \/ /\ match.phase \in {"FINISHED", "AWAITING_RESULT_SAVE"} /\ match.currentRound = 2
             /\ S = EffectiveOf("REGULATION", 2)
        <3>1. SelectedRounds(FALSE) # {}
            BY <1>1, <2>1
        <3> QED
            BY <2>1, <3>1, SelectedByPhase
    <2> QED
        BY <2>3, <2>4, <2>5, <2>6, <2>7
<1> QED
    BY <1>2, <1>3

\* What an undo does to the sets of rounds.
LEMMA RestoredSets ==
    ASSUME FormInv, NEW k \in OpIds, Restores(k)
    PROVE  /\ Created' = Created /\ \A r \in Created : SameIdentity(r)
           /\ Effective' = Effective \cup InvalidatedBy(k)
           /\ \A j \in OpIds \ {k} : InvalidatedBy(j)' = InvalidatedBy(j)
<1>0. TypeOK
    BY DEF FormInv, LegalInv
<1>1. Created' = Created /\ \A r \in Created : r \in RoundIds /\ SameIdentity(r)
    BY <1>0, CreatedAreRounds DEF Restores, Created
<1>2. \A r \in Created : rounds'[r].by = IF rounds[r].by = k THEN 0 ELSE rounds[r].by
    BY <1>1 DEF Restores
<1>3. Effective' = Effective \cup InvalidatedBy(k)
    BY <1>1, <1>2 DEF Effective, InvalidatedBy
<1>4. \A j \in OpIds \ {k} : InvalidatedBy(j)' = InvalidatedBy(j)
    BY <1>1, <1>2, AuditsDiffer DEF InvalidatedBy
<1> QED
    BY <1>1, <1>3, <1>4

\* result-cancellation:undo
LEMMA FitRestores ==
    ASSUME FormInv, RoundsFit, NEW k \in OpIds, Restores(k)
    PROVE  RoundsFit'
<1> DEFINE B == InvalidatedBy(k)
           from == ops[k].previous
           to == ops[k].resulting
<1>0. TypeOK /\ AgreeingColumns(match)
    BY DEF FormInv, LegalInv, LegalRows
<1>1. /\ Created' = Created /\ \A r \in Created : SameIdentity(r)
      /\ Effective' = Effective \cup B
      /\ \A j \in OpIds \ {k} : InvalidatedBy(j)' = InvalidatedBy(j)
    BY RestoredSets
<1>2. /\ ops[k].status = "APPLIED" /\ match.phase = to.phase
      /\ match.currentRound = to.currentRound
    BY DEF Restores, UndoAllowed
<1>3. OperationFits(k) /\ Fits(rounds, match, Effective)
    BY <1>2 DEF RoundsFit
<1>4. Fits(rounds, from, B)
    BY <1>3 DEF OperationFits
<1>5. Fits(rounds, from, Effective \cup B)
    <2>1. CASE to.phase = "WAITING"
        <3>1. \A r \in Effective : ~IsOf(r, "REGULATION", 1) /\ ~IsOf(r, "REGULATION", 2)
                                   /\ rounds[r].stage # "OVERTIME"
            BY <1>2, <1>3, <2>1 DEF Fits, BeforeOvertime, BeforeSecond, IsOf
        <3>2. Effective = {}
            BY <3>1, EffectiveKinds DEF IsOf
        <3> QED
            BY <1>4, <3>2 DEF Fits
    <2>2. CASE /\ to.phase = "BREAK" /\ from.phase # "WAITING"
               /\ \A r \in B : IsOf(r, "REGULATION", 2)
        <3>1. \A r \in Effective : rounds[r].stage # "OVERTIME"
                    /\ ~(rounds[r].stage = "REGULATION" /\ rounds[r].number = 2)
            BY <1>2, <1>3, <2>2 DEF Fits, BeforeOvertime, BeforeSecond
        <3>2. \A q, r \in Effective \cup B :
                 rounds[q].stage = "REGULATION" /\ rounds[r].stage = "REGULATION"
                           /\ rounds[q].number = rounds[r].number => q = r
            BY <1>3, <1>4, <2>2, <3>1 DEF Fits, IsOf
        <3> QED
            BY <1>4, <2>2, <3>1, <3>2 DEF Fits, IsOf
    <2>3. CASE /\ to.phase = "AWAITING_RESULT_SAVE" /\ from.phase \notin BeforeSecond /\ B = {}
        <3>1. match.currentRound = 2
            BY <1>0, <1>2, <2>3 DEF AgreeingColumns
        <3>2. \A r \in Effective : rounds[r].stage # "OVERTIME"
            BY <1>3, <3>1 DEF Fits, BeforeOvertime
        <3>3. from.phase # "WAITING"
            BY <2>3 DEF BeforeSecond
        <3> QED
            BY <1>3, <2>3, <3>2, <3>3 DEF Fits
    <2>4. CASE /\ to.phase = "OVERTIME_READY" /\ from.phase \in OvertimePhases /\ ~BeforeOvertime(from)
               /\ \A r \in B : IsOf(r, "OVERTIME", 1)
        <3>1. from.phase \notin BeforeSecond /\ from.phase # "WAITING"
            BY <2>4 DEF BeforeOvertime, BeforeSecond
        <3>2. \A q, r \in Effective \cup B :
                 rounds[q].stage = "REGULATION" /\ rounds[r].stage = "REGULATION"
                           /\ rounds[q].number = rounds[r].number => q = r
            BY <1>3, <2>4 DEF Fits, IsOf
        <3> QED
            BY <2>4, <3>1, <3>2 DEF Fits
    <2>5. CASE /\ to.phase \in RetainablePhases /\ from.phase = to.phase
               /\ from.currentRound = to.currentRound /\ B = {}
        BY <1>2, <1>3, <2>5 DEF Fits, BeforeOvertime
    <2> QED
        BY <1>3, <2>1, <2>2, <2>3, <2>4, <2>5 DEF OperationFits
<1>6. Effective \cup B \subseteq Created
    BY DEF Effective, InvalidatedBy
<1>7. Fits(rounds', match', Effective')
    BY <1>1, <1>5, <1>6, FitsKept DEF SameIdentity, Restores
<1>8. ASSUME NEW j \in OpIds, ops'[j].status = "APPLIED" PROVE OperationFits(j)'
    <2>1. j # k /\ ops'[j] = ops[j]
        BY <1>8 DEF Restores
    <2> QED
        BY <1>1, <1>8, <2>1, OperationFitsKept DEF RoundsFit, InvalidatedBy
<1> QED
    BY <1>7, <1>8 DEF RoundsFit

\* overtime:restart
LEMMA FitRetires ==
    ASSUME FormInv, RoundsFit, NEW q, Retires(q)
    PROVE  RoundsFit'
<1>0. TypeOK /\ AgreeingColumns(match)
    BY DEF FormInv, LegalInv, LegalRows
<1>1. Created' = Created /\ \A r \in Created : r \in RoundIds /\ SameIdentity(r)
    BY <1>0, CreatedAreRounds DEF Retires, Created, SameRound
<1>2. /\ Effective' \subseteq Effective
      /\ \A k \in OpIds : InvalidatedBy(k)' \subseteq InvalidatedBy(k)
    BY <1>1, AuditsDiffer DEF Effective, InvalidatedBy, Retires, SameRound
<1>3. match'.phase = "OVERTIME_READY" /\ match'.currentRound = 1
    BY <1>0 DEF Retires, AgreeingColumns
<1>4. Fits(rounds, match', Effective)
    BY <1>3 DEF RoundsFit, Fits, BeforeOvertime, BeforeSecond
<1>5. Fits(rounds', match', Effective')
    BY <1>1, <1>2, <1>4, FitsKept DEF SameIdentity, Effective
<1>6. ASSUME NEW k \in OpIds, ops'[k].status = "APPLIED" PROVE OperationFits(k)'
    BY <1>1, <1>2, <1>6, OperationFitsKept DEF Retires, RoundsFit, InvalidatedBy
<1> QED
    BY <1>5, <1>6 DEF RoundsFit

\* Every step keeps the rounds fitting, unless it strands one.
LEMMA FitStep == FormInv /\ FitInv /\ [Next]_vars => FitInv'
<1> SUFFICES ASSUME FormInv, FitInv, [Next]_vars, ~stranded' PROVE RoundsFit'
    BY DEF FitInv
<1>1. TypeOK /\ LegalRows /\ UncreatedIsNotDue /\ AppealsAreSourced
    BY DEF FormInv, LegalInv
<1>2. CASE RoundsRest /\ PhaseDrifts
    BY <1>2, FitRest DEF FitInv, RoundsRest, history
<1>3. ASSUME NEW r \in RoundIds, Ends(r) PROVE RoundsFit'
    BY <1>3, FitEnds DEF FitInv, Ends
<1>4. CASE RestartOvertime
    <2>1. Retires(appeals[TiedAppeal].source)
        BY <1>1, <1>4, RestartShape
    <2> QED
        BY <2>1, FitRetires DEF FitInv, Retires, history
<1>5. ASSUME NEW i \in Instances, StartRound(i) PROVE RoundsFit'
    <2>1. PICK stage, number : Starts(nRounds + 1, stage, number)
        BY <1>1, <1>5, StartShape
    <2>2. stranded' = stranded
        BY <2>1 DEF Starts, history
    <2> QED
        BY <2>1, <2>2, FitStarts DEF FitInv
<1>6. ASSUME NEW i \in Instances, NEW mode \in ExitModes, ExitMatch(i, mode) PROVE RoundsFit'
    BY <1>6, FitExit DEF FitInv, ExitMatch
<1>7. ASSUME NEW i \in Instances, NEW entireMatch \in BOOLEAN, CancelResults(i, entireMatch)
      PROVE  RoundsFit'
    BY <1>7, FitCancel DEF FitInv, CancelResults, history
<1>8. ASSUME NEW i \in Instances, NEW k \in OpIds, Undo(i, k) PROVE RoundsFit'
    <2>1. Restores(k)
        BY <1>1, <1>8, UndoShape
    <2> QED
        BY <2>1, FitRestores DEF FitInv, Restores
<1> QED
    BY <1>1, <1>2, <1>3, <1>4, <1>5, <1>6, <1>7, <1>8, StepShape

-----------------------------------------------------------------------------
(* The phase rests on an open round, or on rounds that have ended.          *)

InPlay == RunningPhases \cup PausedPhases
AfterFirst == {"BREAK", "ROUND_2_RUNNING", "ROUND_2_PAUSED", "AWAITING_RESULT_SAVE", "FINISHED"}
                  \cup RetainablePhases
AfterSecond == {"AWAITING_RESULT_SAVE", "FINISHED"} \cup RetainablePhases

\* Round r is the open round of the phase, and the newest of its kind in E.
Carries(rs, phase, r, E) ==
    /\ ~rs[r].ended
    /\ RunningStatus(rs[r].number, rs[r].stage) =
           IF phase \in PausedPhases THEN ResumedStatus(phase) ELSE phase
    /\ \A q \in E : rs[q].stage = rs[r].stage /\ rs[q].number = rs[r].number
                        => rs[q].attempt <= rs[r].attempt

\* The ended regulation rounds that a phase rests on are among E.
Backed(rs, phase, E) ==
    /\ phase \in AfterFirst =>
           \E r \in E : rs[r].stage = "REGULATION" /\ rs[r].number = 1 /\ rs[r].ended
    /\ phase \in AfterSecond =>
           \E r \in E : rs[r].stage = "REGULATION" /\ rs[r].number = 2 /\ rs[r].ended

\* The rounds that are effective again once operation k and every later one have
\* been undone.
Restorable(k) ==
    {r \in Created : /\ rounds[r].stamp < k
                     /\ rounds[r].by = 0 \/ (rounds[r].by \in OpIds /\ k <= rounds[r].by)}

\* The row that operation k saved rests on rounds that its undo brings back.
OperationBacked(k) ==
    /\ Backed(rounds, ops[k].previous.phase, Restorable(k))
    /\ ops[k].previous.phase \in InPlay /\ ops[k].previous.phase # ops[k].resulting.phase =>
           \E r \in InvalidatedBy(k) : Carries(rounds, ops[k].previous.phase, r, Restorable(k))

RoundsBack ==
    /\ Backed(rounds, match.phase, Effective)
    /\ match.phase \in InPlay => \E r \in Effective : Carries(rounds, match.phase, r, Effective)
    /\ \A k \in OpIds : ops[k].status = "APPLIED" => OperationBacked(k)

BackInv == Orderly => RoundsBack

\* Backing needs no more than the regulation rounds, and ending one helps.
LEMMA BackedKept ==
    ASSUME NEW rs, NEW ts, NEW phase, NEW E, NEW F, Backed(rs, phase, E),
           \A r \in E : ts[r].stage = rs[r].stage /\ ts[r].number = rs[r].number,
           \A r \in E : rs[r].ended => ts[r].ended,
           \A r \in E : rs[r].stage = "REGULATION" => r \in F
    PROVE  Backed(ts, phase, F)
BY DEF Backed

\* A round goes on carrying its phase when fewer rounds are effective.
LEMMA CarriesKept ==
    ASSUME NEW rs, NEW ts, NEW phase, NEW E, NEW F, NEW r, Carries(rs, phase, r, E), F \subseteq E,
           \A q \in F \cup {r} : /\ ts[q].stage = rs[q].stage /\ ts[q].number = rs[q].number
                                 /\ ts[q].attempt = rs[q].attempt,
           ~ts[r].ended
    PROVE  Carries(ts, phase, r, F)
BY DEF Carries

\* A step that keeps what an undo of operation k would bring back, but for
\* overtime rounds that have ended.
LEMMA OperationBackedKept ==
    ASSUME NEW k, OperationBacked(k), ops'[k].previous = ops[k].previous,
           ops'[k].resulting = ops[k].resulting, Restorable(k)' \subseteq Restorable(k),
           \A r \in Restorable(k) : /\ SameIdentity(r)
                                    /\ rounds[r].ended => rounds'[r].ended
                                    /\ rounds[r].stage = "REGULATION" => r \in Restorable(k)',
           \A r \in InvalidatedBy(k) : ~rounds[r].ended =>
                r \in InvalidatedBy(k)' /\ ~rounds'[r].ended /\ SameIdentity(r)
    PROVE  OperationBacked(k)'
<1>1. Backed(rounds', ops'[k].previous.phase, Restorable(k)')
    <2>1. Backed(rounds, ops'[k].previous.phase, Restorable(k))
        BY DEF OperationBacked
    <2>2. \A r \in Restorable(k) : rounds'[r].stage = rounds[r].stage /\ rounds'[r].number = rounds[r].number
        BY DEF SameIdentity
    <2> QED
        BY <2>1, <2>2, BackedKept
<1>2. ASSUME ops[k].previous.phase \in InPlay, ops[k].previous.phase # ops[k].resulting.phase
      PROVE  \E r \in InvalidatedBy(k)' : Carries(rounds', ops[k].previous.phase, r, Restorable(k)')
    <2>1. PICK r \in InvalidatedBy(k) : Carries(rounds, ops[k].previous.phase, r, Restorable(k))
        BY <1>2 DEF OperationBacked
    <2>2. ~rounds[r].ended
        BY <2>1 DEF Carries
    <2>3. r \in InvalidatedBy(k)' /\ ~rounds'[r].ended /\ SameIdentity(r)
        BY <2>2
    <2>4. \A q \in Restorable(k)' \cup {r} :
            /\ rounds'[q].stage = rounds[q].stage /\ rounds'[q].number = rounds[q].number
            /\ rounds'[q].attempt = rounds[q].attempt
        BY <2>3 DEF SameIdentity
    <2>5. Carries(rounds', ops[k].previous.phase, r, Restorable(k)')
        BY <2>1, <2>3, <2>4, CarriesKept
    <2> QED
        BY <2>3, <2>5
<1> QED
    BY <1>1, <1>2 DEF OperationBacked

\* The numbers of applied operations.
LEMMA AppliedNumbers ==
    ASSUME FormInv, NEW k \in OpIds, ops[k].status = "APPLIED"
    PROVE  k \in Nat /\ k <= nOps /\ nOps \in Nat
BY DEF FormInv, LegalInv, OpsAreRecorded, TypeOK, OpIds

\* Every phase that follows without a round being touched rests on the same rounds.
LEMMA BackedDrifts ==
    ASSUME NEW rs, NEW from, NEW to, NEW E, Drifts(from, to)
    PROVE  /\ Backed(rs, from, E) => Backed(rs, to, E)
           /\ to \in InPlay => from \in InPlay
           /\ \A r : from \in InPlay /\ to \in InPlay /\ Carries(rs, from, r, E) => Carries(rs, to, r, E)
<1>1. Backed(rs, from, E) => Backed(rs, to, E)
    BY DEF Backed, AfterFirst, AfterSecond, Drifts, RunningPhases, PausedPhases, PausedStatus, ResumedStatus,
        RetainablePhases, OvertimePhases
<1>2. to \in InPlay => from \in InPlay
    BY DEF InPlay, Drifts, RunningPhases, PausedPhases, PausedStatus, ResumedStatus
<1>3. from \in InPlay /\ to \in InPlay =>
        (IF from \in PausedPhases THEN ResumedStatus(from) ELSE from) =
        (IF to \in PausedPhases THEN ResumedStatus(to) ELSE to)
    BY DEF InPlay, Drifts, RunningPhases, PausedPhases, PausedStatus, ResumedStatus
<1> QED
    BY <1>1, <1>2, <1>3 DEF Carries

\* The rounds go on backing the match through a step that touches none, ...
LEMMA BackRest ==
    ASSUME FormInv, RoundsBack, RoundsRest, PhaseDrifts
    PROVE  RoundsBack'
<1>0. TypeOK
    BY DEF FormInv, LegalInv
<1>1. Created' = Created /\ \A r \in Created : SameRound(r) /\ SameIdentity(r)
    BY <1>0, CreatedAreRounds DEF RoundsRest, Created, SameRound
<1>2. Effective' = Effective /\ \A k : InvalidatedBy(k)' = InvalidatedBy(k)
    BY <1>1 DEF Effective, InvalidatedBy, SameRound
<1>3. \A k : Restorable(k)' = Restorable(k)
    BY <1>1 DEF Restorable, SameRound, SameIdentity
<1>4. Effective \subseteq Created
    BY DEF Effective
<1>5. Backed(rounds', match'.phase, Effective')
    <2>1. Backed(rounds, match'.phase, Effective)
        BY BackedDrifts DEF RoundsBack, PhaseDrifts
    <2> QED
        BY <1>1, <1>2, <1>4, <2>1, BackedKept DEF SameRound, SameIdentity
<1>6. ASSUME match'.phase \in InPlay
      PROVE  \E r \in Effective' : Carries(rounds', match'.phase, r, Effective')
    <2>1. PICK r \in Effective : Carries(rounds, match.phase, r, Effective) /\ match.phase \in InPlay
        BY <1>6, BackedDrifts DEF RoundsBack, PhaseDrifts
    <2>2. Carries(rounds, match'.phase, r, Effective)
        BY <1>6, <2>1, BackedDrifts DEF PhaseDrifts
    <2>3. ~rounds'[r].ended
        BY <1>1, <1>4, <2>1 DEF Carries, SameRound
    <2>4. Carries(rounds', match'.phase, r, Effective')
        BY <1>1, <1>2, <1>4, <2>2, <2>3, CarriesKept DEF SameIdentity
    <2> QED
        BY <1>2, <2>4
<1>7. ASSUME NEW k \in OpIds, ops'[k].status = "APPLIED" PROVE OperationBacked(k)'
    <2>1. OperationBacked(k) /\ ops'[k] = ops[k]
        BY <1>7 DEF RoundsRest, RoundsBack
    <2>2. \A r \in Restorable(k) : r \in Created
        BY DEF Restorable
    <2>3. \A r \in InvalidatedBy(k) : r \in Created
        BY DEF InvalidatedBy
    <2> QED
        BY <1>1, <1>2, <1>3, <2>1, <2>2, <2>3, OperationBackedKept DEF SameRound
<1> QED
    BY <1>5, <1>6, <1>7 DEF RoundsBack

\* ... and through the end of an effective round.
LEMMA BackEnds ==
    ASSUME FormInv, RoundsBack, NEW q \in RoundIds, Ends(q), ~misfired'
    PROVE  RoundsBack'
<1>0. TypeOK
    BY DEF FormInv, LegalInv
<1>1. Created' = Created /\ \A r \in Created : SameIdentity(r) /\ rounds'[r].by = rounds[r].by
    BY <1>0, CreatedAreRounds DEF Ends, Created, SameRound
<1>2. Effective' = Effective /\ \A k : InvalidatedBy(k)' = InvalidatedBy(k)
    BY <1>1 DEF Effective, InvalidatedBy
<1>3. \A k : Restorable(k)' = Restorable(k)
    BY <1>1 DEF Restorable, SameIdentity
<1>4. rounds[q].by = 0 /\ q \in Effective /\ rounds'[q].ended
    BY DEF Ends, Effective
<1>5. \A r \in Created : /\ rounds[r].ended => rounds'[r].ended
                         /\ r # q => rounds'[r].ended = rounds[r].ended
    BY <1>0, CreatedAreRounds DEF Ends, SameRound
<1>6. Effective \subseteq Created /\ q \in Created
    BY <1>4 DEF Effective
<1>7. IsOf(q, "REGULATION", 1) \/ IsOf(q, "REGULATION", 2) \/ IsOf(q, "OVERTIME", 1)
    BY <1>6 DEF FormInv, RoundsAreFormed, FormedRound
<1>8. match.phase = RunningStatus(rounds[q].number, rounds[q].stage) /\ match'.phase = PhaseAfter(q)
    BY DEF Ends, Expirable
<1>9. Backed(rounds', match.phase, Effective')
    BY <1>1, <1>2, <1>5, <1>6, BackedKept DEF RoundsBack, SameIdentity
<1>10. Backed(rounds', match'.phase, Effective') /\ match'.phase \notin InPlay
    <2>1. CASE IsOf(q, "REGULATION", 1)
        <3>1. match'.phase = "BREAK"
            BY <1>8, <2>1 DEF PhaseAfter, IsOf
        <3>2. rounds'[q].stage = "REGULATION" /\ rounds'[q].number = 1 /\ rounds'[q].ended /\ q \in Effective'
            BY <1>1, <1>2, <1>4, <1>6, <2>1 DEF SameIdentity, IsOf
        <3> QED
            BY <3>1, <3>2 DEF Backed, AfterSecond, RetainablePhases, OvertimePhases, InPlay, RunningPhases, PausedPhases
    <2>2. CASE IsOf(q, "REGULATION", 2)
        <3>1. match.phase = "ROUND_2_RUNNING" /\ match'.phase \in {"REGULATION_APPEAL", "AWAITING_RESULT_SAVE"}
            BY <1>8, <2>2 DEF PhaseAfter, IsOf, RunningStatus
        <3>2. rounds'[q].stage = "REGULATION" /\ rounds'[q].number = 2 /\ rounds'[q].ended /\ q \in Effective'
            BY <1>1, <1>2, <1>4, <1>6, <2>2 DEF SameIdentity, IsOf
        <3> QED
            BY <1>9, <3>1, <3>2 DEF Backed, AfterFirst, InPlay, RunningPhases, PausedPhases
    <2>3. CASE IsOf(q, "OVERTIME", 1)
        <3>1. match.phase = "OVERTIME_RUNNING" /\ match'.phase = "OVERTIME_APPEAL"
            BY <1>8, <2>3 DEF PhaseAfter, IsOf, RunningStatus
        <3> QED
            BY <1>9, <3>1 DEF Backed, AfterFirst, AfterSecond, RetainablePhases, OvertimePhases, InPlay,
                RunningPhases, PausedPhases
    <2> QED
        BY <1>7, <2>1, <2>2, <2>3
<1>11. ASSUME NEW k \in OpIds, ops'[k].status = "APPLIED" PROVE OperationBacked(k)'
    <2>1. OperationBacked(k) /\ ops'[k] = ops[k]
        BY <1>11 DEF Ends, RoundsBack
    <2>2. \A r \in Restorable(k) : r \in Created
        BY DEF Restorable
    <2>3. \A r \in InvalidatedBy(k) : r \in Created /\ r # q
        BY <1>4, AuditsDiffer DEF InvalidatedBy
    <2> QED
        BY <1>1, <1>2, <1>3, <1>5, <2>1, <2>2, <2>3, OperationBackedKept
<1> QED
    BY <1>10, <1>11 DEF RoundsBack

\* round:start
LEMMA BackStarts ==
    ASSUME FormInv, TypeOK', RoundsFit, RoundsBack, NEW n, NEW stage, NEW number, Starts(n, stage, number)
    PROVE  RoundsBack'
<1>0. TypeOK
    BY DEF FormInv, LegalInv
<1>1. /\ Created' = Created \cup {n} /\ n \notin Created /\ n \in RoundIds
      /\ \A r \in Created : SameRound(r) /\ r # n
    BY <1>0, CreatedAreRounds DEF Starts, Created, TypeOK
<1>2. Effective' = Effective \cup {n} /\ n \notin Effective /\ Effective \subseteq Created
    BY <1>1 DEF Effective, Starts, SameRound
<1>3. \A k \in OpIds : InvalidatedBy(k)' = InvalidatedBy(k)
    BY <1>1, AuditsDiffer DEF InvalidatedBy, Starts, SameRound
<1>4. \A r \in Effective : rounds'[r].stage = rounds[r].stage /\ rounds'[r].number = rounds[r].number
    BY <1>1, <1>2 DEF SameRound, SameIdentity
<1>5. \A r \in Created : rounds'[r].ended = rounds[r].ended /\ SameIdentity(r)
    BY <1>1 DEF SameRound
<1>6. Backed(rounds', match.phase, Effective')
    BY <1>2, <1>4, <1>5, BackedKept DEF RoundsBack
<1>7. Backed(rounds', match'.phase, Effective')
    BY <1>6 DEF Backed, Starts, AfterFirst, AfterSecond, RetainablePhases, OvertimePhases
<1>8. Carries(rounds', match'.phase, n, Effective')
    <2>1. ~rounds'[n].ended
        BY DEF Starts
    <2>2. RunningStatus(rounds'[n].number, rounds'[n].stage) = match'.phase /\ match'.phase \notin PausedPhases
        BY DEF Starts, RunningStatus, PausedPhases
    <2>3. ASSUME NEW q \in Effective', rounds'[q].stage = rounds'[n].stage, rounds'[q].number = rounds'[n].number
          PROVE  rounds'[q].attempt <= rounds'[n].attempt
        <3>1. rounds'[n].attempt \in Nat
            BY <1>1 DEF TypeOK, RoundType
        <3>2. CASE q \in Effective
            <4>1. rounds[q].stage = stage /\ rounds[q].number = number /\ q \in Created
                BY <1>2, <1>4, <2>3, <3>2 DEF Starts
            <4>2. stage = "OVERTIME"
                BY <3>2, <4>1 DEF RoundsFit, Fits, Starts, BeforeSecond
            <4>3. rounds[q].attempt < rounds'[n].attempt /\ rounds'[q].attempt = rounds[q].attempt
                BY <1>5, <4>1, <4>2 DEF Starts, SameIdentity
            <4>4. rounds[q].attempt \in Nat
                BY <1>0, <4>1, RoundNumbers
            <4> QED
                BY <3>1, <4>3, <4>4
        <3>3. CASE q = n
            BY <3>1, <3>3
        <3> QED
            BY <1>2, <3>2, <3>3
    <2> QED
        BY <2>1, <2>2, <2>3 DEF Carries
<1>9. ASSUME NEW k \in OpIds, ops'[k].status = "APPLIED" PROVE OperationBacked(k)'
    <2>1. OperationBacked(k) /\ ops'[k] = ops[k]
        BY <1>9 DEF Starts, RoundsBack
    <2>2. k \in Nat /\ k <= nOps /\ nOps \in Nat
        BY <1>9, <2>1, AppliedNumbers
    <2>3. Restorable(k)' = Restorable(k)
        <3>1. ~(rounds'[n].stamp < k)
            BY <2>2 DEF Starts
        <3> QED
            BY <1>1, <3>1 DEF Restorable, SameRound, SameIdentity
    <2>4. \A r \in Restorable(k) : r \in Created
        BY DEF Restorable
    <2>5. \A r \in InvalidatedBy(k) : r \in Created
        BY DEF InvalidatedBy
    <2> QED
        BY <1>3, <1>5, <2>1, <2>3, <2>4, <2>5, OperationBackedKept
<1> QED
    BY <1>2, <1>7, <1>8, <1>9 DEF RoundsBack

\* What an undo of operation k would bring back is not changed by a later
\* invalidation.
LEMMA RestorableStays ==
    ASSUME FormInv, NEW S, Invalidates(S), NEW k \in OpIds
    PROVE  IF k = nOps + 1 THEN Restorable(k)' = Effective
           ELSE ops[k].status = "APPLIED" => Restorable(k)' = Restorable(k)
<1>0. TypeOK /\ nOps + 1 \in OpIds /\ nOps \in Nat /\ k \in Nat
    BY DEF FormInv, LegalInv, Invalidates, TypeOK, OpIds
<1>1. Created' = Created /\ \A r \in Created : r \in RoundIds /\ SameIdentity(r)
    BY <1>0, CreatedAreRounds DEF Invalidates, Created
<1>2. \A r \in Created : rounds'[r].by = IF r \in S THEN nOps + 1 ELSE rounds[r].by
    BY <1>1 DEF Invalidates
<1>3. \A r \in S : r \in Created /\ rounds[r].by = 0
    BY DEF Invalidates, Effective
<1>4. \A r \in Created : /\ rounds[r].stamp \in Nat /\ rounds[r].stamp <= nOps
                         /\ rounds[r].by \in OpIds => rounds[r].by \in Nat /\ rounds[r].by <= nOps
    BY <1>0, RoundNumbers DEF FormInv, RoundsAreFormed, FormedRound
<1>5. CASE k = nOps + 1
    <2>1. \A r \in Created : r \in Restorable(k)' <=> rounds[r].by = 0
        <3> SUFFICES ASSUME NEW r \in Created PROVE r \in Restorable(k)' <=> rounds[r].by = 0
            OBVIOUS
        <3>1. rounds'[r].stamp < k
            BY <1>0, <1>1, <1>4, <1>5 DEF SameIdentity
        <3>2. rounds'[r].by = 0 \/ (rounds'[r].by \in OpIds /\ k <= rounds'[r].by) <=> rounds[r].by = 0
            <4>1. CASE r \in S
                BY <1>0, <1>2, <1>3, <1>5, <4>1
            <4>2. CASE r \notin S
                <5>1. rounds'[r].by = rounds[r].by
                    BY <1>2, <4>2
                <5>2. ~(rounds[r].by \in OpIds /\ k <= rounds[r].by)
                    BY <1>0, <1>4, <1>5
                <5> QED
                    BY <5>1, <5>2
            <4> QED
                BY <4>1, <4>2
        <3> QED
            BY <1>1, <3>1, <3>2 DEF Restorable
    <2>2. Restorable(k)' \subseteq Created
        BY <1>1 DEF Restorable
    <2> QED
        BY <1>5, <2>1, <2>2 DEF Effective
<1>6. CASE k # nOps + 1 /\ ops[k].status = "APPLIED"
    <2>1. k <= nOps
        BY <1>6, AppliedNumbers
    <2>2. \A r \in Created : r \in Restorable(k)' <=> r \in Restorable(k)
        <3> SUFFICES ASSUME NEW r \in Created PROVE r \in Restorable(k)' <=> r \in Restorable(k)
            OBVIOUS
        <3>1. rounds'[r].stamp = rounds[r].stamp
            BY <1>1 DEF SameIdentity
        <3>2. CASE r \in S
            <4>1. rounds[r].by = 0 /\ rounds'[r].by = nOps + 1 /\ k <= nOps + 1
                BY <1>0, <1>2, <1>3, <2>1, <3>2
            <4> QED
                BY <1>0, <1>1, <3>1, <4>1 DEF Restorable
        <3>3. CASE r \notin S
            BY <1>1, <1>2, <3>1, <3>3 DEF Restorable
        <3> QED
            BY <3>2, <3>3
    <2>3. Restorable(k)' \subseteq Created /\ Restorable(k) \subseteq Created
        BY <1>1 DEF Restorable
    <2> QED
        BY <1>6, <2>2, <2>3
<1> QED
    BY <1>5, <1>6

\* An invalidation whose new row and saved row are backed keeps all the others.
LEMMA BackInvalidates ==
    ASSUME FormInv, RoundsBack, NEW S, Invalidates(S),
           Backed(rounds, match'.phase, Effective \ S),
           match'.phase \in InPlay => match'.phase = match.phase /\ S = {},
           match.phase \in InPlay /\ match.phase # match'.phase =>
               \A r \in Effective : Carries(rounds, match.phase, r, Effective) => r \in S
    PROVE  RoundsBack'
<1>1. /\ Created' = Created /\ \A r \in Created : SameIdentity(r)
      /\ Effective' = Effective \ S
      /\ \A k \in OpIds : IF k = nOps + 1 THEN InvalidatedBy(k)' = S
                          ELSE InvalidatedBy(k)' = InvalidatedBy(k)
    BY InvalidatedSets
<1>2. S \subseteq Effective /\ Effective \subseteq Created
    BY DEF Invalidates, Effective
<1>3. \A r \in Created : rounds'[r].ended = rounds[r].ended /\ SameIdentity(r)
    BY <1>1, CreatedAreRounds DEF Invalidates, FormInv, LegalInv
<1>4. Backed(rounds', match'.phase, Effective')
    BY <1>1, <1>2, <1>3, BackedKept DEF SameIdentity
<1>5. ASSUME match'.phase \in InPlay
      PROVE  \E r \in Effective' : Carries(rounds', match'.phase, r, Effective')
    <2>1. match'.phase = match.phase /\ Effective' = Effective
        BY <1>1, <1>5
    <2>2. PICK r \in Effective : Carries(rounds, match.phase, r, Effective)
        BY <1>5, <2>1 DEF RoundsBack
    <2>3. ~rounds'[r].ended
        BY <1>2, <1>3, <2>2 DEF Carries
    <2>4. Carries(rounds', match'.phase, r, Effective')
        BY <1>2, <1>3, <2>1, <2>2, <2>3, CarriesKept DEF SameIdentity
    <2> QED
        BY <2>1, <2>4
<1>6. ASSUME NEW k \in OpIds, ops'[k].status = "APPLIED" PROVE OperationBacked(k)'
    <2>1. CASE k = nOps + 1
        <3>1. InvalidatedBy(k)' = S /\ Restorable(k)' = Effective
            BY <1>1, <2>1, RestorableStays
        <3>2. ops'[k].previous.phase = match.phase /\ ops'[k].resulting.phase = match'.phase
            BY <2>1 DEF Invalidates
        <3>3. Backed(rounds', match.phase, Effective)
            BY <1>2, <1>3, BackedKept DEF SameIdentity, RoundsBack
        <3>4. ASSUME match.phase \in InPlay, match.phase # match'.phase
              PROVE  \E r \in S : Carries(rounds', match.phase, r, Effective)
            <4>1. PICK r \in Effective : Carries(rounds, match.phase, r, Effective)
                BY <3>4 DEF RoundsBack
            <4>2. r \in S
                BY <3>4, <4>1
            <4>3. ~rounds'[r].ended
                BY <1>2, <1>3, <4>1 DEF Carries
            <4>4. Carries(rounds', match.phase, r, Effective)
                BY <1>2, <1>3, <4>1, <4>3, CarriesKept DEF SameIdentity
            <4> QED
                BY <4>2, <4>4
        <3> QED
            BY <3>1, <3>2, <3>3, <3>4 DEF OperationBacked
    <2>2. CASE k # nOps + 1
        <3>1. InvalidatedBy(k)' = InvalidatedBy(k) /\ ops'[k] = ops[k]
            BY <1>1, <2>2 DEF Invalidates
        <3>2. OperationBacked(k) /\ Restorable(k)' = Restorable(k)
            BY <1>6, <2>2, <3>1, RestorableStays DEF RoundsBack
        <3>3. \A r \in Restorable(k) : r \in Created
            BY DEF Restorable
        <3>4. \A r \in InvalidatedBy(k) : r \in Created
            BY DEF InvalidatedBy
        <3> QED
            BY <1>3, <3>1, <3>2, <3>3, <3>4, OperationBackedKept
    <2> QED
        BY <2>1, <2>2
<1> QED
    BY <1>4, <1>5, <1>6 DEF RoundsBack

\* The phase that a carrier stands for names its kind.
LEMMA CarrierKind ==
    ASSUME FormInv, NEW phase, NEW r \in Effective, phase \in InPlay, Carries(rounds, phase, r, Effective)
    PROVE  /\ ~rounds[r].ended
           /\ phase \in OvertimePhases => IsOf(r, "OVERTIME", 1)
BY EffectiveKinds DEF Carries, InPlay, RunningPhases, PausedPhases, OvertimePhases, RunningStatus, ResumedStatus, IsOf

\* match:exit that strands nothing
LEMMA BackExit ==
    ASSUME FormInv, RoundsFit, RoundsBack, NEW i \in Instances, NEW mode \in ExitModes, ExitMatch(i, mode),
           ~StrandsOvertime(mode)
    PROVE  RoundsBack'
<1> DEFINE S == ExitRounds(mode)
<1>0. TypeOK
    BY DEF FormInv, LegalInv
<1>1. /\ Invalidates(S) /\ ExitAllowed(mode)
      /\ match'.phase = RowAfterExit(mode).phase
    BY <1>0, ExitShape
<1>2. \A r \in Effective : rounds[r].number \in {1, 2}
    BY EffectiveKinds DEF IsOf
<1>3. CASE mode = "CANCEL_RESULTS"
    <2>1. S = Effective
        BY <1>2, <1>3 DEF ExitRounds, InvalidatedNumbers
    <2>2. match'.phase = "WAITING"
        BY <1>1, <1>3 DEF RowAfterExit, NoRow
    <2>3. Backed(rounds, match'.phase, Effective \ S) /\ match'.phase \notin InPlay
        BY <2>2 DEF Backed, AfterFirst, AfterSecond, RetainablePhases, OvertimePhases, InPlay, RunningPhases,
            PausedPhases
    <2> HIDE DEF S
    <2> QED
        BY <1>1, <2>1, <2>3, BackInvalidates
<1>4. CASE mode \in {"SUSPEND_KEEP_ROUND_1", "SUSPEND_KEEP_ROUNDS_1_AND_2"}
    <2>1. \A r \in Effective : IsOf(r, "REGULATION", 1) \/ IsOf(r, "REGULATION", 2)
        BY <1>4, EffectiveKinds DEF StrandsOvertime, EffectiveOf, IsOf
    <2>2. \A q, r \in Effective : rounds[q].number = rounds[r].number => q = r
        BY <2>1 DEF RoundsFit, Fits, IsOf
    <2>3. CASE mode = "SUSPEND_KEEP_ROUND_1"
        <3>1. S = {r \in Effective : rounds[r].number = 2}
            BY <2>3 DEF ExitRounds, InvalidatedNumbers
        <3>2. match'.phase = "BREAK"
            BY <1>1, <2>3 DEF RowAfterExit, Row
        <3>3. PICK q \in Effective : rounds[q].number = 1 /\ rounds[q].ended
            BY <1>1, <2>3 DEF ExitAllowed, RetainedModeAllowed, Ended
        <3>4. rounds[q].stage = "REGULATION" /\ q \notin S
            BY <2>1, <3>1, <3>3 DEF IsOf
        <3>5. Backed(rounds, match'.phase, Effective \ S) /\ match'.phase \notin InPlay
            BY <3>2, <3>3, <3>4 DEF Backed, AfterSecond, RetainablePhases, OvertimePhases, InPlay, RunningPhases,
                PausedPhases
        <3>6. ASSUME NEW r \in Effective, match.phase \in InPlay, Carries(rounds, match.phase, r, Effective)
              PROVE  r \in S
            <4>1. ~rounds[r].ended
                BY <3>6 DEF Carries
            <4>2. rounds[r].number # 1
                BY <2>2, <3>3, <4>1
            <4> QED
                BY <1>2, <3>1, <4>2
        <3> HIDE DEF S
        <3> QED
            BY <1>1, <3>5, <3>6, BackInvalidates
    <2>4. CASE mode = "SUSPEND_KEEP_ROUNDS_1_AND_2"
        <3>1. S = {}
            BY <2>4 DEF ExitRounds, InvalidatedNumbers
        <3>2. match'.phase = "AWAITING_RESULT_SAVE"
            BY <1>1, <2>4 DEF RowAfterExit, Row
        <3>3. \A n \in {1, 2} : \E r \in Effective : rounds[r].number = n /\ rounds[r].ended
            BY <1>1, <2>4 DEF ExitAllowed, RetainedModeAllowed, Ended
        <3>4. Backed(rounds, match'.phase, Effective \ S) /\ match'.phase \notin InPlay
            BY <2>1, <3>1, <3>2, <3>3 DEF Backed, IsOf, InPlay, RunningPhases, PausedPhases
        <3>5. \A r \in Effective : rounds[r].ended
            BY <1>2, <2>2, <3>3
        <3>6. \A r \in Effective : ~Carries(rounds, match.phase, r, Effective)
            BY <3>5 DEF Carries
        <3> HIDE DEF S
        <3> QED
            BY <1>1, <3>4, <3>6, BackInvalidates
    <2> QED
        BY <1>4, <2>3, <2>4
<1>5. CASE mode = "SUSPEND_KEEP_V2_PHASE"
    <2>1. S = {}
        BY <1>5 DEF ExitRounds, InvalidatedNumbers
    <2>2. match'.phase = match.phase
        BY <1>1, <1>5 DEF RowAfterExit, Row
    <2>3. Effective \ S = Effective
        BY <2>1
    <2>4. Backed(rounds, match'.phase, Effective \ S)
        BY <2>2, <2>3 DEF RoundsBack
    <2> HIDE DEF S
    <2> QED
        BY <1>1, <2>1, <2>2, <2>4, BackInvalidates
<1> QED
    BY <1>3, <1>4, <1>5 DEF ExitModes

\* round:cancel and match:reset
LEMMA BackCancel ==
    ASSUME FormInv, RoundsBack, NEW i \in Instances, NEW entireMatch \in BOOLEAN,
           CancelResults(i, entireMatch)
    PROVE  RoundsBack'
<1> DEFINE S == SelectedRounds(entireMatch)
<1>0. TypeOK
    BY DEF FormInv, LegalInv
<1>1. /\ Invalidates(S) /\ S # {}
      /\ match'.phase =
            IF entireMatch \/ \E r \in S : IsOf(r, "REGULATION", 1) THEN "WAITING"
            ELSE IF \E r \in S : rounds[r].stage = "OVERTIME" THEN "OVERTIME_READY" ELSE "BREAK"
    BY <1>0, CancelShape
<1>2. match'.phase \notin InPlay
    BY <1>1 DEF InPlay, RunningPhases, PausedPhases
<1>3. CASE entireMatch
    <2>1. S = Effective
        BY <1>3 DEF SelectedRounds
    <2>2. match'.phase = "WAITING"
        BY <1>1, <1>3
    <2>3. Backed(rounds, match'.phase, Effective \ S)
        BY <2>2 DEF Backed, AfterFirst, AfterSecond, RetainablePhases, OvertimePhases
    <2> HIDE DEF S
    <2> QED
        BY <1>1, <1>2, <2>1, <2>3, BackInvalidates
<1>4. CASE ~entireMatch
    <2>1. S = SelectedRounds(FALSE)
        <3>1. entireMatch = FALSE
            BY <1>4
        <3> QED
            BY <3>1
    <2> HIDE DEF S
    <2>2. Backed(rounds, match.phase, Effective)
        BY DEF RoundsBack
    <2>3. CASE /\ S = EffectiveOf("REGULATION", 2)
               /\ match.phase \in {"REGULATION_APPEAL", "FINISHED", "AWAITING_RESULT_SAVE"}
        <3>1. \A r \in S : IsOf(r, "REGULATION", 2)
            BY <2>3 DEF EffectiveOf, IsOf
        <3>2. match'.phase = "BREAK"
            BY <1>1, <1>4, <3>1 DEF IsOf
        <3>3. \E r \in Effective : rounds[r].stage = "REGULATION" /\ rounds[r].number = 1 /\ rounds[r].ended
            BY <2>2, <2>3 DEF Backed, AfterFirst, RetainablePhases
        <3>4. Backed(rounds, match'.phase, Effective \ S)
            BY <3>1, <3>2, <3>3 DEF Backed, AfterSecond, RetainablePhases, OvertimePhases, IsOf
        <3>5. match.phase \notin InPlay
            BY <2>3 DEF InPlay, RunningPhases, PausedPhases
        <3> QED
            BY <1>1, <1>2, <3>4, <3>5, BackInvalidates
    <2>4. CASE /\ match.phase \in OvertimePhases
               /\ S = {r \in EffectiveOf("OVERTIME", 1) :
                       \A q \in EffectiveOf("OVERTIME", 1) : rounds[q].attempt <= rounds[r].attempt}
        <3>1. \A r \in S : IsOf(r, "OVERTIME", 1)
            BY <2>4 DEF EffectiveOf, IsOf
        <3>2. match'.phase = "OVERTIME_READY"
            BY <1>1, <1>4, <3>1 DEF IsOf
        <3>3. Backed(rounds, match'.phase, Effective)
            BY <2>2, <2>4 DEF Backed, AfterFirst, AfterSecond, RetainablePhases
        <3>4. \A r \in Effective : rounds[r].stage = "REGULATION" => r \in Effective \ S
            BY <3>1 DEF IsOf
        <3>5. Backed(rounds, match'.phase, Effective \ S)
            BY <3>3, <3>4, BackedKept
        <3>6. ASSUME NEW r \in Effective, match.phase \in InPlay, Carries(rounds, match.phase, r, Effective)
              PROVE  r \in S
            <4>1. IsOf(r, "OVERTIME", 1)
                BY <2>4, <3>6, CarrierKind
            <4>2. \A q \in EffectiveOf("OVERTIME", 1) : rounds[q].attempt <= rounds[r].attempt
                BY <3>6, <4>1 DEF Carries, EffectiveOf, IsOf
            <4>3. r \in EffectiveOf("OVERTIME", 1)
                BY <4>1 DEF EffectiveOf, IsOf
            <4> QED
                BY <2>4, <4>2, <4>3
        <3> QED
            BY <1>1, <1>2, <3>5, <3>6, BackInvalidates
    <2>5. CASE match.phase = "BREAK" /\ S = EffectiveOf("REGULATION", 1)
        <3>1. \A r \in S : IsOf(r, "REGULATION", 1)
            BY <2>5 DEF EffectiveOf, IsOf
        <3>2. match'.phase = "WAITING"
            BY <1>1, <3>1
        <3>3. Backed(rounds, match'.phase, Effective \ S)
            BY <3>2 DEF Backed, AfterFirst, AfterSecond, RetainablePhases, OvertimePhases
        <3>4. match.phase \notin InPlay
            BY <2>5 DEF InPlay, RunningPhases, PausedPhases
        <3> QED
            BY <1>1, <1>2, <3>3, <3>4, BackInvalidates
    <2>6. SelectedRounds(FALSE) # {}
        BY <1>1, <2>1
    <2> QED
        BY <2>1, <2>3, <2>4, <2>5, <2>6, SelectedByPhase
<1> QED
    BY <1>3, <1>4

\* result-cancellation:undo of the newest applied operation
LEMMA BackRestores ==
    ASSUME FormInv, RoundsFit, RoundsBack, NEW k \in OpIds, Restores(k), ~disordered'
    PROVE  RoundsBack' /\ Effective' = Restorable(k)
<1> DEFINE B == InvalidatedBy(k)
           from == ops[k].previous.phase
           to == ops[k].resulting.phase
<1>0. TypeOK /\ k \in Nat /\ nOps \in Nat
    BY DEF FormInv, LegalInv, TypeOK, OpIds
<1>1. /\ Created' = Created /\ \A r \in Created : SameIdentity(r)
      /\ Effective' = Effective \cup B
      /\ \A j \in OpIds \ {k} : InvalidatedBy(j)' = InvalidatedBy(j)
    BY RestoredSets
<1>2. /\ ops[k].status = "APPLIED" /\ match.phase = to /\ match'.phase = from
      /\ \A r \in Effective : rounds[r].stamp < k
    BY DEF Restores, UndoAllowed, NoActivitySince
<1>3. OperationFits(k) /\ OperationBacked(k)
    BY <1>2 DEF RoundsFit, RoundsBack
<1>4. \A j \in OpIds : ops[j].status = "APPLIED" => j <= k
    <2> SUFFICES ASSUME NEW j \in OpIds, ops[j].status = "APPLIED" PROVE j <= k
        OBVIOUS
    <2>1. j \in Nat /\ j <= nOps
        BY AppliedNumbers
    <2>2. \A l \in k + 1 .. nOps : ops[l].status # "APPLIED"
        BY DEF Restores
    <2> QED
        BY <1>0, <2>1, <2>2
<1>5. Effective' = Restorable(k)
    <2>1. ASSUME NEW r \in Restorable(k) PROVE r \in Effective \cup B
        <3>1. CASE rounds[r].by = 0
            BY <3>1 DEF Restorable, Effective
        <3>2. CASE rounds[r].by \in OpIds /\ k <= rounds[r].by
            <4>1. r \in Created /\ ops[rounds[r].by].status = "APPLIED"
                BY <3>2 DEF Restorable, FormInv, RoundsAreFormed, FormedRound
            <4>2. rounds[r].by <= k /\ rounds[r].by \in Nat
                BY <1>4, <3>2, <4>1 DEF OpIds
            <4>3. rounds[r].by = k
                BY <1>0, <3>2, <4>2
            <4> QED
                BY <4>1, <4>3 DEF InvalidatedBy
        <3> QED
            BY <3>1, <3>2 DEF Restorable
    <2>2. ASSUME NEW r \in Effective PROVE r \in Restorable(k)
        BY <1>2 DEF Restorable, Effective
    <2>3. ASSUME NEW r \in B PROVE r \in Restorable(k)
        BY <1>0 DEF Restorable, InvalidatedBy, FormInv, RoundsAreFormed, FormedRound
    <2> QED
        BY <1>1, <2>1, <2>2, <2>3
<1>6. \A r \in Created : rounds'[r].ended = rounds[r].ended /\ SameIdentity(r)
    BY <1>0, <1>1, CreatedAreRounds DEF Restores
<1>7. Restorable(k) \subseteq Created
    BY DEF Restorable
<1>8. Backed(rounds', match'.phase, Effective')
    <2>1. Backed(rounds, from, Restorable(k))
        BY <1>3 DEF OperationBacked
    <2> QED
        BY <1>2, <1>5, <1>6, <1>7, <2>1, BackedKept DEF SameIdentity
<1>9. ASSUME match'.phase \in InPlay
      PROVE  \E r \in Effective' : Carries(rounds', match'.phase, r, Effective')
    <2>1. \E r \in Effective' : Carries(rounds, from, r, Effective')
        <3>1. CASE from # to
            <4>1. PICK r \in B : Carries(rounds, from, r, Restorable(k))
                BY <1>2, <1>3, <1>9, <3>1 DEF OperationBacked
            <4> QED
                BY <1>1, <1>5, <4>1
        <3>2. CASE from = to
            <4>1. to \notin {"WAITING", "BREAK", "AWAITING_RESULT_SAVE", "OVERTIME_READY"}
                BY <1>2, <1>9, <3>2 DEF InPlay, RunningPhases, PausedPhases
            <4>2. B = {}
                BY <1>3, <4>1 DEF OperationFits
            <4>3. Effective' = Effective
                BY <1>1, <4>2
            <4> QED
                BY <1>2, <1>9, <3>2, <4>3 DEF RoundsBack
        <3> QED
            BY <3>1, <3>2
    <2>2. PICK r \in Effective' : Carries(rounds, from, r, Effective')
        BY <2>1
    <2>3. ~rounds'[r].ended
        BY <1>5, <1>6, <1>7, <2>2 DEF Carries
    <2>4. Carries(rounds', match'.phase, r, Effective')
        BY <1>2, <1>5, <1>6, <1>7, <2>2, <2>3, CarriesKept DEF SameIdentity
    <2> QED
        BY <2>4
<1>10. ASSUME NEW j \in OpIds, ops'[j].status = "APPLIED" PROVE OperationBacked(j)'
    <2>1. j # k /\ ops'[j] = ops[j] /\ OperationBacked(j)
        BY <1>10 DEF Restores, RoundsBack
    <2>2. j <= k
        BY <1>4, <1>10, <2>1
    <2>3. \A r \in Created : rounds'[r].by = IF rounds[r].by = k THEN 0 ELSE rounds[r].by
        BY <1>0, CreatedAreRounds DEF Restores
    <2>4. Restorable(j)' = Restorable(j)
        <3>1. \A r \in Created : rounds'[r].stamp = rounds[r].stamp
            BY <1>1 DEF SameIdentity
        <3> QED
            BY <1>1, <2>2, <2>3, <3>1 DEF Restorable
    <2>5. \A r \in Restorable(j) : r \in Created
        BY DEF Restorable
    <2>6. \A r \in InvalidatedBy(j) : r \in Created
        BY DEF InvalidatedBy
    <2>7. InvalidatedBy(j)' = InvalidatedBy(j)
        BY <1>1, <2>1
    <2> QED
        BY <1>6, <2>1, <2>4, <2>5, <2>6, <2>7, OperationBackedKept
<1> QED
    BY <1>5, <1>8, <1>9, <1>10 DEF RoundsBack

\* overtime:restart
LEMMA BackRetires ==
    ASSUME FormInv, RoundsBack, NEW q, Retires(q)
    PROVE  RoundsBack'
<1>0. TypeOK
    BY DEF FormInv, LegalInv
<1>1. Created' = Created /\ \A r \in Created : r \in RoundIds /\ SameIdentity(r)
    BY <1>0, CreatedAreRounds DEF Retires, Created, SameRound
<1>2. /\ \A r \in Created : r # q => rounds'[r].by = rounds[r].by /\ rounds'[r].ended = rounds[r].ended
      /\ rounds'[q].by = OtherAudit /\ rounds'[q].ended /\ rounds[q].ended /\ rounds[q].stage # "REGULATION"
    BY <1>1 DEF Retires, SameRound, IsOf
<1>3. \A r \in Created : rounds[r].ended => rounds'[r].ended
    BY <1>2
<1>4. \A r \in Effective : r # q => r \in Effective'
    BY <1>1, <1>2 DEF Effective
<1>5. Backed(rounds', match'.phase, Effective') /\ match'.phase \notin InPlay
    <2>1. Backed(rounds, match'.phase, Effective) /\ match'.phase \notin InPlay
        BY DEF RoundsBack, Retires, Backed, AfterFirst, AfterSecond, RetainablePhases, OvertimePhases, InPlay,
            RunningPhases, PausedPhases
    <2>2. \A r \in Effective : r \in Created
        BY DEF Effective
    <2> QED
        BY <1>1, <1>2, <1>3, <1>4, <2>1, <2>2, BackedKept DEF SameIdentity
<1>6. ASSUME NEW k \in OpIds, ops'[k].status = "APPLIED" PROVE OperationBacked(k)'
    <2>1. OperationBacked(k) /\ ops'[k] = ops[k]
        BY <1>6 DEF Retires, RoundsBack
    <2>2. \A r \in Restorable(k) : r \in Created
        BY DEF Restorable
    <2>3. Restorable(k)' = Restorable(k) \ {q}
        <3>1. \A r \in Created : rounds'[r].stamp = rounds[r].stamp
            BY <1>1 DEF SameIdentity
        <3> QED
            BY <1>1, <1>2, <3>1, AuditsDiffer DEF Restorable
    <2>4. \A r \in InvalidatedBy(k) : /\ r \in Created
                                      /\ r # q => r \in InvalidatedBy(k)'
        BY <1>1, <1>2 DEF InvalidatedBy
    <2>5. \A r \in InvalidatedBy(k) : ~rounds[r].ended =>
                r \in InvalidatedBy(k)' /\ ~rounds'[r].ended /\ SameIdentity(r)
        BY <1>1, <1>2, <2>4
    <2> QED
        BY <1>1, <1>2, <1>3, <2>1, <2>2, <2>3, <2>5, OperationBackedKept
<1> QED
    BY <1>5, <1>6 DEF RoundsBack

\* A history that is orderly after a step was orderly before it.
LEMMA OrderlyBefore ==
    ASSUME FormInv, [Next]_vars, Orderly'
    PROVE  Orderly
<1>1. TypeOK /\ LegalRows /\ UncreatedIsNotDue /\ AppealsAreSourced
    BY DEF FormInv, LegalInv
<1>2. CASE RoundsRest
    BY <1>2 DEF Orderly, RoundsRest, history
<1>3. ASSUME NEW r \in RoundIds, Ends(r) PROVE Orderly
    BY <1>3 DEF Orderly, Ends
<1>4. CASE RestartOvertime
    BY <1>4 DEF Orderly, RestartOvertime, history
<1>5. ASSUME NEW i \in Instances, StartRound(i) PROVE Orderly
    BY <1>5 DEF Orderly, StartRound, history
<1>6. ASSUME NEW i \in Instances, NEW mode \in ExitModes, ExitMatch(i, mode) PROVE Orderly
    BY <1>6 DEF Orderly, ExitMatch
<1>7. ASSUME NEW i \in Instances, NEW entireMatch \in BOOLEAN, CancelResults(i, entireMatch) PROVE Orderly
    BY <1>7 DEF Orderly, CancelResults, history
<1>8. ASSUME NEW i \in Instances, NEW k \in OpIds, Undo(i, k) PROVE Orderly
    BY <1>8 DEF Orderly, Undo
<1> QED
    BY <1>1, <1>2, <1>3, <1>4, <1>5, <1>6, <1>7, <1>8, StepShape

\* Every step keeps the backing of the match row and of every saved row.
LEMMA BackStep == FormInv /\ FitInv /\ BackInv /\ [Next]_vars => BackInv'
<1> SUFFICES ASSUME FormInv, FitInv, BackInv, [Next]_vars, Orderly' PROVE RoundsBack'
    BY DEF BackInv
<1>1. TypeOK /\ LegalRows /\ UncreatedIsNotDue /\ AppealsAreSourced
    BY DEF FormInv, LegalInv
<1>2. RoundsFit /\ RoundsBack
    BY OrderlyBefore DEF FitInv, BackInv, Orderly
<1>3. TypeOK'
    BY FormStep DEF FormInv, LegalInv
<1>4. ~misfired' /\ ~disordered' /\ ~stranded'
    BY DEF Orderly
<1>5. CASE RoundsRest /\ PhaseDrifts
    BY <1>2, <1>5, BackRest
<1>6. ASSUME NEW r \in RoundIds, Ends(r) PROVE RoundsBack'
    BY <1>2, <1>4, <1>6, BackEnds
<1>7. CASE RestartOvertime
    <2>1. Retires(appeals[TiedAppeal].source)
        BY <1>1, <1>7, RestartShape
    <2> QED
        BY <1>2, <2>1, BackRetires
<1>8. ASSUME NEW i \in Instances, StartRound(i) PROVE RoundsBack'
    <2>1. PICK stage, number : Starts(nRounds + 1, stage, number)
        BY <1>1, <1>8, StartShape
    <2> QED
        BY <1>2, <1>3, <2>1, BackStarts
<1>9. ASSUME NEW i \in Instances, NEW mode \in ExitModes, ExitMatch(i, mode) PROVE RoundsBack'
    <2>1. ~StrandsOvertime(mode)
        BY <1>4, <1>9 DEF ExitMatch
    <2> QED
        BY <1>2, <1>9, <2>1, BackExit
<1>10. ASSUME NEW i \in Instances, NEW entireMatch \in BOOLEAN, CancelResults(i, entireMatch)
       PROVE  RoundsBack'
    BY <1>2, <1>10, BackCancel
<1>11. ASSUME NEW i \in Instances, NEW k \in OpIds, Undo(i, k) PROVE RoundsBack'
    <2>1. Restores(k)
        BY <1>1, <1>11, UndoShape
    <2> QED
        BY <1>2, <1>4, <2>1, BackRestores
<1> QED
    BY <1>1, <1>5, <1>6, <1>7, <1>8, <1>9, <1>10, <1>11, StepShape

\* Nothing has been played and nothing recorded at first.
LEMMA BackInit == Init => FitInv /\ BackInv
<1> SUFFICES ASSUME Init PROVE RoundsFit /\ RoundsBack
    BY DEF FitInv, BackInv
<1>1. Effective = {} /\ match.phase = "WAITING"
    BY DEF Init, Effective, Created, NoRow
<1>2. \A k \in OpIds : ops[k].status # "APPLIED"
    BY DEF Init, NoOp
<1>3. Fits(rounds, match, Effective)
    BY <1>1 DEF Fits
<1>4. Backed(rounds, match.phase, Effective) /\ match.phase \notin InPlay
    BY <1>1 DEF Backed, AfterFirst, AfterSecond, RetainablePhases, OvertimePhases, InPlay, RunningPhases,
        PausedPhases
<1> QED
    BY <1>2, <1>3, <1>4 DEF RoundsFit, RoundsBack

\* What the match row says rests on rounds, through every interleaving of
\* expirations, exits, cancellations, undos and restarts of overtime: no two
\* effective rounds of one attempt, an open round behind a running phase, ended
\* rounds with their summaries behind the phases that follow.
THEOREM MatchRestsOnRounds == Spec => []RoundsBackTheMatch
<1>1. ASSUME FormInv, FitInv PROVE OneEffectiveRound
    <2> SUFFICES ASSUME ~stranded, NEW q \in Effective, NEW r \in Effective,
                        rounds[q].stage = rounds[r].stage, rounds[q].number = rounds[r].number,
                        rounds[q].attempt = rounds[r].attempt
                 PROVE  q = r
        BY DEF OneEffectiveRound
    <2>1. CASE rounds[q].stage = "REGULATION"
        BY <1>1, <2>1 DEF FitInv, RoundsFit, Fits
    <2>2. CASE rounds[q].stage = "OVERTIME"
        BY <1>1, <2>2 DEF FormInv, AttemptsDiffer, Effective
    <2> QED
        BY <1>1, <2>1, <2>2, EffectiveKinds DEF IsOf
<1>2. ASSUME BackInv PROVE RunningPhaseHasRound
    BY <1>2 DEF BackInv, RoundsBack, RunningPhaseHasRound, InPlay, Carries
<1>3. ASSUME BackInv PROVE AppealsRestOnRegulation
    <2> SUFFICES ASSUME Orderly, match.phase \in RetainablePhases, NEW n \in {1, 2}
                 PROVE  \E r \in Effective : rounds[r].stage = "REGULATION" /\ rounds[r].number = n
                                             /\ rounds[r].ended
        BY DEF AppealsRestOnRegulation, Ended, EffectiveOf
    <2> QED
        BY <1>3 DEF BackInv, RoundsBack, Backed, AfterFirst, AfterSecond
<1>4. ASSUME FormInv PROVE SummariesFollowRounds
    BY <1>4, AuditsDiffer DEF FormInv, RoundsAreFormed, FormedRound, SummariesFollowRounds, Ended, Effective
<1>5. FormInv /\ FitInv /\ BackInv => RoundsBackTheMatch
    BY <1>1, <1>2, <1>3, <1>4 DEF RoundsBackTheMatch
<1>6. Init => FormInv /\ FitInv /\ BackInv
    BY FormInit, BackInit
<1> QED
    BY <1>5, <1>6, FormStep, FitStep, BackStep, PTL DEF Spec
=============================================================================
