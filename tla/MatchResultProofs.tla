------------------------- MODULE MatchResultProofs --------------------------
(***************************************************************************)
(* Theorems about the results of a match, for every number of processes,    *)
(* rounds, operations and appeals: what an undo brings back, what a          *)
(* published winner rests on, and that a paused round keeps its time.        *)
(***************************************************************************)
EXTENDS MatchLifecycleProofs

USE ConstantsAssumption

-----------------------------------------------------------------------------
(* What the steps do to the appeals.                                        *)

\* What an appeal decided about never changes.
SameAppeal(a) ==
    /\ appeals'[a].source = appeals[a].source /\ appeals'[a].scope = appeals[a].scope
    /\ appeals'[a].attempt = appeals[a].attempt /\ appeals'[a].rounds = appeals[a].rounds
    /\ appeals'[a].result = appeals[a].result /\ appeals'[a].stamp = appeals[a].stamp

SameDecision(a) ==
    /\ appeals'[a].winner = appeals[a].winner /\ appeals'[a].winnerBy = appeals[a].winnerBy
    /\ appeals'[a].winnerStamp = appeals[a].winnerStamp

\* No appeal is added, decided or recalled; stale ones may be retired.
AppealsKept ==
    /\ nAppeals' = nAppeals
    /\ \A a \in 1 .. nAppeals :
        /\ SameAppeal(a) /\ SameDecision(a)
        /\ appeals'[a].by = appeals[a].by \/ (a \in StaleAppeals /\ appeals'[a].by = OtherAudit)

\* Appeal n is added, over effective ended rounds, the only one of its attempt.
Adds(n) ==
    /\ n = nAppeals + 1 /\ n \in AppealIds /\ nAppeals' = n
    /\ \A a \in 1 .. nAppeals :
        /\ SameAppeal(a) /\ SameDecision(a)
        /\ appeals'[a].by = appeals[a].by \/ (a \in StaleAppeals /\ appeals'[a].by = OtherAudit)
    /\ appeals'[n].by = 0 /\ appeals'[n].stamp = nOps
    /\ appeals'[n].winner = "NONE" /\ appeals'[n].winnerBy = 0 /\ appeals'[n].winnerStamp = 0
    /\ appeals'[n].source \in Ended(Effective) /\ appeals'[n].rounds \subseteq Ended(Effective)
    /\ \A a \in 1 .. nAppeals : appeals'[a].by = 0 =>
        ~(appeals[a].scope = appeals'[n].scope /\ appeals[a].attempt = appeals'[n].attempt)

\* The regulation appeal n retires every stale appeal.
AddsRegulation(n) ==
    /\ Adds(n)
    /\ \A a \in 1 .. nAppeals : appeals'[a].by = 0 => rounds[appeals[a].source].by = 0
    /\ appeals'[n].scope = "REGULATION" /\ appeals'[n].attempt = 0
    /\ IsOf(appeals'[n].source, "REGULATION", 2)
    /\ \A r \in appeals'[n].rounds : rounds[r].stage = "REGULATION"
    /\ match.phase = "REGULATION_APPEAL" /\ match'.phase = PhaseAfterRegulation(appeals'[n].result)

\* The overtime appeal n is over the newest overtime round that has ended.
AddsOvertime(n) ==
    /\ Adds(n)
    /\ \A a \in 1 .. nAppeals : appeals'[a].by = appeals[a].by
    /\ appeals'[n].scope = "OVERTIME" /\ IsOf(appeals'[n].source, "OVERTIME", 1)
    /\ appeals'[n].attempt = rounds[appeals'[n].source].attempt
    /\ appeals'[n].rounds = {appeals'[n].source}
    /\ \A q \in Ended(EffectiveOf("OVERTIME", 1)) : rounds[q].attempt <= appeals'[n].attempt
    /\ match.phase = "OVERTIME_APPEAL" /\ match'.phase = PhaseAfterOvertime(appeals'[n].result)

\* The inspector decides the tied appeal a.
Decides(a) ==
    /\ nAppeals' = nAppeals /\ a = TiedAppeal /\ a \in OvertimeAppeals
    /\ \A b \in 1 .. nAppeals : SameAppeal(b) /\ appeals'[b].by = appeals[b].by
    /\ \A b \in (1 .. nAppeals) \ {a} : SameDecision(b)
    /\ appeals[a].winner = "NONE" /\ appeals'[a].winner # "NONE"
    /\ appeals'[a].winnerBy = appeals[a].winnerBy /\ appeals'[a].winnerStamp = nOps
    /\ match.phase = "OVERTIME_TIEBREAK_DECISION" /\ match'.phase = "RESULT_PUBLICATION_READY"

\* Operation nOps + 1 takes appeals and decisions with it.
Withdraws ==
    /\ nAppeals' = nAppeals
    /\ \A a \in 1 .. nAppeals :
        /\ SameAppeal(a)
        /\ appeals'[a].winner = appeals[a].winner /\ appeals'[a].winnerStamp = appeals[a].winnerStamp
        /\ appeals'[a].by = appeals[a].by \/ (appeals[a].by = 0 /\ appeals'[a].by = nOps + 1)
        /\ \/ appeals'[a].winnerBy = appeals[a].winnerBy
           \/ /\ appeals[a].winner # "NONE" /\ appeals[a].winnerBy = 0
              /\ appeals'[a].winnerBy = nOps + 1

\* The undo of operation k brings them back.
Recalls(k) ==
    /\ nAppeals' = nAppeals
    /\ \A a \in 1 .. nAppeals :
        /\ SameAppeal(a)
        /\ appeals'[a].winner = appeals[a].winner /\ appeals'[a].winnerStamp = appeals[a].winnerStamp
        /\ appeals'[a].by = (IF appeals[a].by = k THEN 0 ELSE appeals[a].by)
        /\ appeals'[a].winnerBy = (IF appeals[a].winnerBy = k THEN 0 ELSE appeals[a].winnerBy)

\* A restart of overtime retires the tied appeal a.
RetiresAppeal(a) ==
    /\ nAppeals' = nAppeals /\ a \in OvertimeAppeals /\ a = TiedAppeal
    /\ \A b \in (1 .. nAppeals) \ {a} :
        SameAppeal(b) /\ SameDecision(b) /\ appeals'[b].by = appeals[b].by
    /\ SameAppeal(a) /\ appeals'[a].by = OtherAudit
    /\ appeals'[a].winner = appeals[a].winner /\ appeals'[a].winnerStamp = appeals[a].winnerStamp
    /\ \/ appeals'[a].winnerBy = appeals[a].winnerBy
       \/ appeals[a].winner # "NONE" /\ appeals'[a].winnerBy = OtherAudit

\* The numbers of appeals.
LEMMA AppealNumbers ==
    ASSUME TypeOK
    PROVE  /\ \A a \in 1 .. nAppeals : a \in AppealIds /\ appeals[a] \in AppealType /\ a # nAppeals + 1
           /\ nAppeals \in Nat
BY DEF TypeOK, AppealIds

\* Appeals that are not written are kept.
LEMMA UntouchedAppeals ==
    ASSUME UNCHANGED <<appeals, nAppeals>>
    PROVE  AppealsKept
BY DEF AppealsKept, SameAppeal, SameDecision

\* What the retirement of stale appeals leaves of an appeal.
LEMMA WithoutStaleShape ==
    ASSUME TypeOK, NEW a \in 1 .. nAppeals, appeals'[a] = WithoutStale(appeals)[a]
    PROVE  /\ SameAppeal(a) /\ SameDecision(a)
           /\ appeals'[a].by = IF a \in StaleAppeals THEN OtherAudit ELSE appeals[a].by
<1>1. a \in AppealIds /\ appeals[a] \in AppealType
    BY AppealNumbers
<1>2. appeals'[a] = IF a \in StaleAppeals THEN [appeals[a] EXCEPT !.by = OtherAudit] ELSE appeals[a]
    BY <1>1 DEF WithoutStale
<1> QED
    BY <1>1, <1>2 DEF AppealType, SameAppeal, SameDecision

\* regulation-appeal:complete
LEMMA AddsRegulationShape ==
    ASSUME TypeOK, NEW result, CompleteRegulationAppeal(result)
    PROVE  AddsRegulation(nAppeals + 1)
<1> DEFINE sources == Ended({r \in Effective : rounds[r].stage = "REGULATION"})
           row(r) == RegulationAppeal(r, sources, result)
           n == nAppeals + 1
<1>1. PICK r2 \in sources :
        /\ rounds[r2].number = 2
        /\ ~\E a \in 1 .. nAppeals : /\ appeals[a].scope = "REGULATION" /\ appeals[a].by = 0
                                     /\ rounds[appeals[a].source].by = 0
        /\ appeals' = [WithoutStale(appeals) EXCEPT ![n] = row(r2)]
    BY DEF CompleteRegulationAppeal
<1>2. n \in AppealIds /\ nAppeals' = n
    BY DEF CompleteRegulationAppeal, TypeOK, AppealIds
<1>3. ASSUME NEW a \in 1 .. nAppeals
      PROVE  /\ SameAppeal(a) /\ SameDecision(a)
             /\ appeals'[a].by = IF a \in StaleAppeals THEN OtherAudit ELSE appeals[a].by
    <2>1. appeals'[a] = WithoutStale(appeals)[a]
        BY <1>1, AppealNumbers DEF WithoutStale
    <2> QED
        BY <2>1, WithoutStaleShape
<1>4. appeals'[n] = row(r2)
    BY <1>1, <1>2 DEF WithoutStale
<1>5. /\ appeals'[n].scope = "REGULATION" /\ appeals'[n].attempt = 0 /\ appeals'[n].source = r2
      /\ appeals'[n].rounds = sources /\ appeals'[n].result = result /\ appeals'[n].stamp = nOps
      /\ appeals'[n].by = 0 /\ appeals'[n].winner = "NONE" /\ appeals'[n].winnerBy = 0
      /\ appeals'[n].winnerStamp = 0
    BY <1>4 DEF RegulationAppeal, NoAppeal
<1>6. sources \subseteq Ended(Effective) /\ \A r \in sources : rounds[r].stage = "REGULATION"
    BY DEF Ended
<1>7. \A a \in 1 .. nAppeals : appeals'[a].by = 0 => rounds[appeals[a].source].by = 0 /\ appeals[a].by = 0
    BY <1>3, AuditsDiffer DEF StaleAppeals
<1>8. match.phase = "REGULATION_APPEAL" /\ match'.phase = PhaseAfterRegulation(result)
    BY DEF CompleteRegulationAppeal, WriteMatch, Row
<1>9. \A a \in 1 .. nAppeals : appeals'[a].by = 0 => appeals[a].scope # "REGULATION"
    BY <1>1, <1>7
<1> HIDE DEF sources, row
<1>10. Adds(n)
    BY <1>1, <1>2, <1>3, <1>5, <1>6, <1>9 DEF Adds
<1> QED
    BY <1>1, <1>5, <1>6, <1>7, <1>8, <1>10 DEF AddsRegulation, IsOf

\* appeal:complete of an overtime round
LEMMA AddsOvertimeShape ==
    ASSUME TypeOK, NEW result, CompleteOvertimeAppeal(result)
    PROVE  AddsOvertime(nAppeals + 1)
<1> DEFINE played == Ended(EffectiveOf("OVERTIME", 1))
           q == HighestAttempt(played)
           n == nAppeals + 1
<1>1. /\ appeals' = [appeals EXCEPT ![n] = OvertimeAppeal(q, result)] /\ played # {}
      /\ ~\E a \in 1 .. nAppeals : /\ appeals[a].scope = "OVERTIME" /\ appeals[a].by = 0
                                   /\ appeals[a].attempt = rounds[q].attempt
    BY DEF CompleteOvertimeAppeal
<1>2. n \in AppealIds /\ nAppeals' = n
    BY DEF CompleteOvertimeAppeal, TypeOK, AppealIds
<1>3. \A a \in 1 .. nAppeals : appeals'[a] = appeals[a]
    BY <1>1, AppealNumbers DEF TypeOK
<1>4. appeals'[n] = OvertimeAppeal(q, result)
    BY <1>1, <1>2 DEF TypeOK
<1>5. /\ appeals'[n].scope = "OVERTIME" /\ appeals'[n].attempt = rounds[q].attempt
      /\ appeals'[n].source = q
      /\ appeals'[n].rounds = {q} /\ appeals'[n].result = result /\ appeals'[n].stamp = nOps
      /\ appeals'[n].by = 0 /\ appeals'[n].winner = "NONE" /\ appeals'[n].winnerBy = 0
      /\ appeals'[n].winnerStamp = 0
    BY <1>4 DEF OvertimeAppeal, NoAppeal
<1>6. \A r \in played : r \in Created /\ r \in Ended(Effective) /\ IsOf(r, "OVERTIME", 1)
    BY DEF Ended, EffectiveOf, Effective, IsOf
<1>7. q \in played /\ \A r \in played : rounds[r].attempt <= rounds[q].attempt
    <2>1. played \in SUBSET Created
        BY <1>6
    <2> QED
        BY <2>1, <1>1, HighestAttemptIsMember
<1>8. match.phase = "OVERTIME_APPEAL" /\ match'.phase = PhaseAfterOvertime(result)
    BY DEF CompleteOvertimeAppeal, WriteMatch, Row
<1>9. \A a \in 1 .. nAppeals : SameAppeal(a) /\ SameDecision(a) /\ appeals'[a].by = appeals[a].by
    BY <1>3 DEF SameAppeal, SameDecision
<1> HIDE DEF q
<1>10. Adds(n)
    BY <1>1, <1>2, <1>3, <1>5, <1>6, <1>7, <1>9 DEF Adds
<1> QED
    BY <1>5, <1>6, <1>7, <1>8, <1>9, <1>10 DEF AddsOvertime

\* overtime:manual-winner
LEMMA DecidesShape ==
    ASSUME TypeOK, NEW colour \in Colours, ManualWinner(colour)
    PROVE  Decides(TiedAppeal)
<1> DEFINE a == TiedAppeal
           row == [appeals[a] EXCEPT !.winner = colour, !.winnerStamp = nOps]
<1>1. /\ appeals' = [appeals EXCEPT ![a].winner = colour, ![a].winnerStamp = nOps]
      /\ appeals[a].winner = "NONE" /\ OvertimeAppeals # {} /\ nAppeals' = nAppeals
      /\ match.phase = "OVERTIME_TIEBREAK_DECISION" /\ match'.phase = "RESULT_PUBLICATION_READY"
    BY DEF ManualWinner, WriteMatch, Row
<1>2. a \in OvertimeAppeals
    BY <1>1, TiedAppealIsOvertime
<1>3. a \in 1 .. nAppeals /\ a \in AppealIds /\ appeals[a] \in AppealType
    BY <1>2, AppealNumbers DEF OvertimeAppeals
<1>4. appeals'[a] = row /\ \A b \in (1 .. nAppeals) \ {a} : appeals'[b] = appeals[b]
    BY <1>1, <1>3, AppealNumbers DEF TypeOK
<1>5. colour # "NONE"
    BY DEF Colours
<1> HIDE DEF a
<1>6. SameAppeal(a) /\ appeals'[a].by = appeals[a].by /\ appeals'[a].winner = colour
      /\ appeals'[a].winnerBy = appeals[a].winnerBy /\ appeals'[a].winnerStamp = nOps
    BY <1>3, <1>4 DEF AppealType, SameAppeal
<1>7. \A b \in (1 .. nAppeals) \ {a} : SameAppeal(b) /\ SameDecision(b) /\ appeals'[b].by = appeals[b].by
    BY <1>4 DEF SameAppeal, SameDecision
<1>8. a = TiedAppeal
    BY DEF a
<1> QED
    BY <1>1, <1>2, <1>5, <1>6, <1>7, <1>8 DEF Decides

\* round:cancel and match:reset
LEMMA WithdrawsShape ==
    ASSUME TypeOK, NEW i \in Instances, NEW entireMatch \in BOOLEAN, CancelResults(i, entireMatch)
    PROVE  /\ Withdraws
           /\ \A a \in 1 .. nAppeals :
                appeals[a].by = 0 /\ appeals[a].rounds \cap SelectedRounds(entireMatch) # {}
                    => appeals'[a].by = nOps + 1
<1> DEFINE selected == SelectedRounds(entireMatch)
           affected == AffectedAppeals(selected, entireMatch)
<1>1. appeals' = AppealsAfterCancellation(affected, selected, nOps + 1) /\ nAppeals' = nAppeals
    BY DEF CancelResults
<1>2. \A a \in 1 .. nAppeals : /\ a \in affected => appeals[a].by = 0
                               /\ appeals[a].by = 0 /\ appeals[a].rounds \cap selected # {} => a \in affected
    BY DEF AffectedAppeals
<1> HIDE DEF selected, affected
<1>3. ASSUME NEW a \in 1 .. nAppeals
      PROVE  /\ SameAppeal(a)
             /\ appeals'[a].winner = appeals[a].winner /\ appeals'[a].winnerStamp = appeals[a].winnerStamp
             /\ appeals'[a].by = IF a \in affected THEN nOps + 1 ELSE appeals[a].by
             /\ \/ appeals'[a].winnerBy = appeals[a].winnerBy
                \/ /\ appeals[a].winner # "NONE" /\ appeals[a].winnerBy = 0
                   /\ appeals'[a].winnerBy = nOps + 1
    <2> DEFINE A == IF a \in affected THEN nOps + 1 ELSE appeals[a].by
               W == IF /\ appeals[a].winner # "NONE" /\ appeals[a].winnerBy = 0
                       /\ a \in affected \/ appeals[a].source \in selected
                    THEN nOps + 1 ELSE appeals[a].winnerBy
    <2>1. a \in AppealIds /\ appeals[a] \in AppealType
        BY AppealNumbers
    <2>2. appeals'[a] = [appeals[a] EXCEPT !.by = A, !.winnerBy = W]
        BY <1>1, <2>1 DEF AppealsAfterCancellation
    <2>3. \/ W = appeals[a].winnerBy
          \/ appeals[a].winner # "NONE" /\ appeals[a].winnerBy = 0 /\ W = nOps + 1
        OBVIOUS
    <2> HIDE DEF W
    <2>4. A = IF a \in affected THEN nOps + 1 ELSE appeals[a].by
        OBVIOUS
    <2> HIDE DEF A
    <2>5. /\ SameAppeal(a) /\ appeals'[a].winner = appeals[a].winner
          /\ appeals'[a].winnerStamp = appeals[a].winnerStamp
          /\ appeals'[a].by = A /\ appeals'[a].winnerBy = W
        BY <2>1, <2>2 DEF AppealType, SameAppeal
    <2> QED
        BY <2>3, <2>4, <2>5
<1> QED
    BY <1>1, <1>2, <1>3 DEF Withdraws, selected

\* result-cancellation:undo
LEMMA RecallsShape ==
    ASSUME TypeOK, NEW i \in Instances, NEW k \in OpIds, Undo(i, k)
    PROVE  Recalls(k)
<1>1. ASSUME NEW a \in 1 .. nAppeals
      PROVE  /\ SameAppeal(a)
             /\ appeals'[a].winner = appeals[a].winner /\ appeals'[a].winnerStamp = appeals[a].winnerStamp
             /\ appeals'[a].by = (IF appeals[a].by = k THEN 0 ELSE appeals[a].by)
             /\ appeals'[a].winnerBy = (IF appeals[a].winnerBy = k THEN 0 ELSE appeals[a].winnerBy)
    <2> DEFINE A == IF appeals[a].by = k THEN 0 ELSE appeals[a].by
               W == IF appeals[a].winnerBy = k THEN 0 ELSE appeals[a].winnerBy
    <2>1. a \in AppealIds /\ appeals[a] \in AppealType
        BY AppealNumbers
    <2>2. appeals'[a] = [appeals[a] EXCEPT !.by = A, !.winnerBy = W]
        BY <2>1 DEF Undo
    <2> HIDE DEF A, W
    <2>3. /\ SameAppeal(a) /\ appeals'[a].winner = appeals[a].winner
          /\ appeals'[a].winnerStamp = appeals[a].winnerStamp
          /\ appeals'[a].by = A /\ appeals'[a].winnerBy = W
        BY <2>1, <2>2 DEF AppealType, SameAppeal
    <2> QED
        BY <2>3 DEF A, W
<1> QED
    BY <1>1 DEF Undo, Recalls

\* overtime:restart
LEMMA RetiresAppealShape ==
    ASSUME TypeOK, RestartOvertime
    PROVE  RetiresAppeal(TiedAppeal)
<1> DEFINE a == TiedAppeal
           W == IF appeals[a].winner # "NONE" /\ appeals[a].winnerBy = 0
                THEN OtherAudit ELSE appeals[a].winnerBy
<1>1. /\ appeals' = [appeals EXCEPT ![a].by = OtherAudit, ![a].winnerBy = W]
      /\ OvertimeAppeals # {} /\ nAppeals' = nAppeals
    BY DEF RestartOvertime
<1>2. a \in OvertimeAppeals
    BY <1>1, TiedAppealIsOvertime
<1>3. a \in 1 .. nAppeals /\ a \in AppealIds /\ appeals[a] \in AppealType
    BY <1>2, AppealNumbers DEF OvertimeAppeals
<1>4. W = appeals[a].winnerBy \/ (appeals[a].winner # "NONE" /\ W = OtherAudit)
    OBVIOUS
<1> HIDE DEF W
<1>5. /\ appeals'[a] = [appeals[a] EXCEPT !.by = OtherAudit, !.winnerBy = W]
      /\ \A b \in (1 .. nAppeals) \ {a} : appeals'[b] = appeals[b]
    BY <1>1, <1>3, AppealNumbers DEF TypeOK
<1>6. a = TiedAppeal
    OBVIOUS
<1> HIDE DEF a
<1>7. /\ SameAppeal(a) /\ appeals'[a].by = OtherAudit /\ appeals'[a].winnerBy = W
      /\ appeals'[a].winner = appeals[a].winner /\ appeals'[a].winnerStamp = appeals[a].winnerStamp
    BY <1>3, <1>5 DEF AppealType, SameAppeal
<1>8. \A b \in (1 .. nAppeals) \ {a} : SameAppeal(b) /\ SameDecision(b) /\ appeals'[b].by = appeals[b].by
    BY <1>5 DEF SameAppeal, SameDecision
<1> QED
    BY <1>1, <1>2, <1>4, <1>6, <1>7, <1>8 DEF RetiresAppeal

\* The phases that a step may move between without touching a round or deciding
\* anything.
IdlePhases(from, to) ==
    \/ to = from
    \/ from \in RunningPhases /\ to = PausedStatus(from)
    \/ from \in PausedPhases /\ to = ResumedStatus(from)
    \/ from = "RESULT_PUBLICATION_READY" /\ to = "FINISHED"

\* Rounds, operations and decisions rest; stale appeals may be retired.
Idles == RoundsRest /\ AppealsKept /\ IdlePhases(match.phase, match'.phase)

\* Pauses, scoring, the clock and what a process does leave the appeals alone.
LEMMA OthersLeaveAppeals ==
    ASSUME \/ UNCHANGED vars \/ Clock \/ Take \/ Publish
           \/ \E r \in RoundIds : OpenWindow(r) \/ RecordFault(r)
           \/ \E i \in Instances : \/ Process(i) \/ StartRound(i) \/ PauseRound(i) \/ ResumeRound(i)
                                   \/ \E mode \in ExitModes : ExitMatch(i, mode)
    PROVE  UNCHANGED <<appeals, nAppeals>>
<1>1. CASE UNCHANGED vars
    BY <1>1 DEF vars, dbVars
<1>2. CASE Clock
    BY <1>2 DEF Clock, ResolveWindow, DeadlinePasses
<1>3. CASE Take \/ Publish
    BY <1>3 DEF Take, Publish
<1>4. CASE \E r \in RoundIds : OpenWindow(r) \/ RecordFault(r)
    BY <1>4 DEF OpenWindow, RecordFault
<1>5. ASSUME NEW i \in Instances, Process(i) PROVE UNCHANGED <<appeals, nAppeals>>
    BY <1>5 DEF Process, TimerFires, HandleExpiration, HandlerFails, Crash, Restart, RestartFails, dbVars
<1>6. ASSUME NEW i \in Instances, StartRound(i) \/ PauseRound(i) \/ ResumeRound(i)
      PROVE  UNCHANGED <<appeals, nAppeals>>
    BY <1>6 DEF StartRound, PauseRound, ResumeRound
<1>7. ASSUME NEW i \in Instances, NEW mode \in ExitModes, ExitMatch(i, mode)
      PROVE  UNCHANGED <<appeals, nAppeals>>
    BY <1>7 DEF ExitMatch
<1> QED
    BY <1>1, <1>2, <1>3, <1>4, <1>5, <1>6, <1>7

\* A repeated appeal command retires the stale appeals.
LEMMA ReplayShape ==
    ASSUME TypeOK, ReplayRegulationAppeal
    PROVE  Idles
<1>1. \A a \in 1 .. nAppeals : appeals'[a] = WithoutStale(appeals)[a]
    BY DEF ReplayRegulationAppeal
<1>2. nAppeals' = nAppeals /\ match' = match
    BY DEF ReplayRegulationAppeal
<1>3. AppealsKept
    BY <1>1, <1>2, WithoutStaleShape DEF AppealsKept
<1>4. RoundsRest
    BY UnchangedRests DEF ReplayRegulationAppeal, AppealUnchanged
<1> QED
    BY <1>2, <1>3, <1>4 DEF Idles, IdlePhases

\* The kinds of steps, with what they do to the appeals.
StepKinds ==
    \/ Idles
    \/ \E r \in RoundIds : Ends(r) /\ UNCHANGED <<appeals, nAppeals>>
    \/ \E stage, number : Starts(nRounds + 1, stage, number) /\ UNCHANGED <<appeals, nAppeals>>
    \/ RestartOvertime
    \/ \E result \in Colours \cup {"TIE"} :
           CompleteRegulationAppeal(result) \/ CompleteOvertimeAppeal(result)
    \/ \E colour \in Colours : ManualWinner(colour)
    \/ \E i \in Instances :
         \/ \E mode \in ExitModes : ExitMatch(i, mode)
         \/ \E entireMatch \in BOOLEAN : CancelResults(i, entireMatch)
         \/ \E k \in OpIds : Undo(i, k)

\* Every step is of one of these kinds.
LEMMA StepsAreKinds ==
    ASSUME TypeOK, LegalRows, UncreatedIsNotDue, [Next]_vars
    PROVE  StepKinds
<1>1. CASE UNCHANGED vars
    BY <1>1, UnchangedRests, OthersLeaveAppeals, UntouchedAppeals DEF vars, dbVars, Idles, IdlePhases, StepKinds
<1>2. CASE Officials
    <2>1. CASE \E r \in RoundIds : OpenWindow(r) \/ RecordFault(r)
        <3>1. RoundsRest /\ match' = match
            BY <2>1, ScoringShape
        <3> QED
            BY <2>1, <3>1, OthersLeaveAppeals, UntouchedAppeals DEF Idles, IdlePhases, StepKinds
    <2>2. CASE Take \/ Publish
        <3>1. RoundsRest
            BY <2>2, DecisionShape
        <3>2. IdlePhases(match.phase, match'.phase)
            BY <2>2 DEF Take, Publish, MayPublish, WriteMatch, Row, IdlePhases
        <3> QED
            BY <2>2, <3>1, <3>2, OthersLeaveAppeals, UntouchedAppeals DEF Idles, StepKinds
    <2>3. CASE ReplayRegulationAppeal
        BY <2>3, ReplayShape DEF StepKinds
    <2> QED
        BY <1>2, <2>1, <2>2, <2>3 DEF Officials, StepKinds
<1>3. CASE Clock
    <2>1. RoundsRest /\ match' = match
        BY <1>3, ScoringShape DEF Clock
    <2> QED
        BY <1>3, <2>1, OthersLeaveAppeals, UntouchedAppeals DEF Idles, IdlePhases, StepKinds
<1>4. ASSUME NEW i \in Instances, Process(i) PROVE StepKinds
    <2>1. \/ RoundsRest /\ match' = match
          \/ \E r \in RoundIds : Ends(r)
        BY <1>4, ProcessShape
    <2> QED
        BY <1>4, <2>1, OthersLeaveAppeals, UntouchedAppeals DEF Idles, IdlePhases, StepKinds
<1>5. ASSUME NEW i \in Instances, Command(i) PROVE StepKinds
    <2>1. CASE StartRound(i)
        BY <2>1, StartShape, OthersLeaveAppeals DEF StepKinds
    <2>2. CASE PauseRound(i) \/ ResumeRound(i)
        <3>1. RoundsRest
            BY <2>2, PauseShape
        <3>2. IdlePhases(match.phase, match'.phase)
            BY <2>2 DEF PauseRound, ResumeRound, WriteMatch, Row, IdlePhases
        <3> QED
            BY <2>2, <3>1, <3>2, OthersLeaveAppeals, UntouchedAppeals DEF Idles, StepKinds
    <2> QED
        BY <1>5, <2>1, <2>2 DEF Command, StepKinds
<1> QED
    BY <1>1, <1>2, <1>3, <1>4, <1>5 DEF Next

-----------------------------------------------------------------------------
(* What an appeal is over, and who may have invalidated it.                 *)

\* An appeal is over rounds that were played before it: the two regulation
\* rounds, or the overtime round of its attempt.
AppealMatter(a) ==
    /\ appeals[a].scope \in {"REGULATION", "OVERTIME"}
    /\ rounds[appeals[a].source].stamp <= appeals[a].stamp
    /\ \A r \in appeals[a].rounds : r \in Created /\ rounds[r].ended
    /\ appeals[a].scope = "OVERTIME" =>
        /\ appeals[a].attempt = rounds[appeals[a].source].attempt
        /\ appeals[a].rounds = {appeals[a].source}
    /\ appeals[a].scope = "REGULATION" =>
        /\ appeals[a].attempt = 0 /\ IsOf(appeals[a].source, "REGULATION", 2)
        /\ \A r \in appeals[a].rounds : rounds[r].stage = "REGULATION"

\* An appeal and its decision are withdrawn by applied operations younger than
\* themselves, or for good.
AppealFate(a) ==
    /\ appeals[a].stamp <= nOps /\ appeals[a].winnerStamp <= nOps
    /\ appeals[a].winner = "NONE" => appeals[a].winnerBy = 0
    /\ appeals[a].winner # "NONE" => appeals[a].stamp <= appeals[a].winnerStamp
    /\ appeals[a].by \in OpIds =>
        /\ appeals[a].by <= nOps /\ ops[appeals[a].by].status = "APPLIED"
        /\ appeals[a].stamp < appeals[a].by
    /\ appeals[a].winnerBy \in OpIds =>
        /\ appeals[a].winnerBy <= nOps /\ ops[appeals[a].winnerBy].status = "APPLIED"
        /\ appeals[a].winnerStamp < appeals[a].winnerBy

AppealsAreFormed == \A a \in 1 .. nAppeals : AppealMatter(a) /\ AppealFate(a)

\* Rounds, operations and appeals are well formed.
FormedInv == FormInv /\ AppealsAreFormed

\* The columns of an appeal.
LEMMA AppealColumns ==
    ASSUME TypeOK, NEW a \in 1 .. nAppeals
    PROVE  /\ appeals[a].stamp \in Nat /\ appeals[a].winnerStamp \in Nat /\ appeals[a].attempt \in Nat
           /\ appeals[a].by \in Audits /\ appeals[a].winnerBy \in Audits
           /\ appeals[a].by \in Nat /\ appeals[a].winnerBy \in Nat
           /\ nOps \in Nat /\ a \in Nat
<1>1. appeals[a] \in AppealType /\ a \in AppealIds
    BY AppealNumbers
<1>2. nOps \in Nat
    BY DEF TypeOK
<1> QED
    BY <1>1, <1>2 DEF AppealType, Audits, OtherAudit, AppealIds

\* An appeal that is kept stays well formed.
LEMMA MatterKept ==
    ASSUME NEW a, AppealMatter(a), appeals[a].source \in Created, RoundsStay, SameAppeal(a)
    PROVE  AppealMatter(a)'
<1>1. /\ appeals'[a].source = appeals[a].source /\ appeals'[a].scope = appeals[a].scope
      /\ appeals'[a].attempt = appeals[a].attempt /\ appeals'[a].rounds = appeals[a].rounds
      /\ appeals'[a].stamp = appeals[a].stamp
    BY DEF SameAppeal
<1>2. SameIdentity(appeals[a].source)
    BY DEF RoundsStay
<1>3. \A r \in appeals[a].rounds : r \in Created' /\ rounds'[r].ended /\ rounds'[r].stage = rounds[r].stage
    BY DEF RoundsStay, AppealMatter, SameIdentity
<1> QED
    BY <1>1, <1>2, <1>3 DEF AppealMatter, SameIdentity, IsOf

\* A new appeal is well formed.
LEMMA MatterAdded ==
    ASSUME FormInv, NEW n, AddsRegulation(n) \/ AddsOvertime(n), RoundsStay, nOps' = nOps, ops' = ops
    PROVE  (AppealMatter(n) /\ AppealFate(n))'
<1> DEFINE s == appeals'[n].source
<1>1. Adds(n) /\ TypeOK
    BY DEF AddsRegulation, AddsOvertime, FormInv, LegalInv
<1>2. s \in Created /\ \A r \in appeals'[n].rounds : r \in Created /\ rounds[r].ended
    BY <1>1 DEF Adds, Ended, Effective
<1>3. rounds[s].stamp <= nOps /\ nOps \in Nat
    BY <1>1, <1>2 DEF FormInv, RoundsAreFormed, FormedRound, TypeOK
<1>4. SameIdentity(s) /\ \A r \in appeals'[n].rounds : /\ r \in Created' /\ rounds'[r].ended
                                                      /\ rounds'[r].stage = rounds[r].stage
    BY <1>2 DEF RoundsStay, SameIdentity
<1>5. AppealMatter(n)'
    BY <1>1, <1>3, <1>4 DEF AddsRegulation, AddsOvertime, Adds, AppealMatter, SameIdentity, IsOf
<1>6. AppealFate(n)'
    BY <1>1, <1>3, AuditsDiffer DEF Adds, AppealFate
<1> QED
    BY <1>5, <1>6

\* An appeal whose operations stay as they are keeps its fate.
LEMMA FateKept ==
    ASSUME FormedInv, NEW a \in 1 .. nAppeals, SameAppeal(a), nOps <= nOps', nOps' \in Nat,
           appeals'[a].winnerStamp = appeals[a].winnerStamp \/ appeals'[a].winnerStamp = nOps,
           appeals'[a].winner = "NONE" => appeals'[a].winnerBy = 0,
           appeals'[a].winner # "NONE" => \/ appeals'[a].winnerStamp = nOps
                                          \/ /\ appeals[a].winner # "NONE"
                                             /\ appeals'[a].winnerStamp = appeals[a].winnerStamp,
           appeals'[a].by \in OpIds =>
               /\ appeals'[a].by = appeals[a].by
               /\ ops'[appeals[a].by].status = "APPLIED",
           appeals'[a].winnerBy \in OpIds =>
               /\ appeals'[a].winnerBy = appeals[a].winnerBy
               /\ appeals'[a].winnerStamp = appeals[a].winnerStamp
               /\ ops'[appeals[a].winnerBy].status = "APPLIED"
    PROVE  AppealFate(a)'
<1>0. TypeOK
    BY DEF FormedInv, FormInv, LegalInv
<1>1. AppealFate(a) /\ appeals'[a].stamp = appeals[a].stamp
    BY DEF FormedInv, AppealsAreFormed, SameAppeal
<1>2. appeals[a].stamp \in Nat /\ appeals[a].winnerStamp \in Nat /\ nOps \in Nat
      /\ appeals[a].by \in Nat /\ appeals[a].winnerBy \in Nat
    BY <1>0, AppealColumns
<1>3. appeals'[a].stamp <= nOps' /\ appeals'[a].winnerStamp <= nOps'
    BY <1>1, <1>2 DEF AppealFate
<1>4. appeals'[a].by \in OpIds =>
        /\ appeals'[a].by <= nOps' /\ ops'[appeals'[a].by].status = "APPLIED"
        /\ appeals'[a].stamp < appeals'[a].by
    BY <1>1, <1>2 DEF AppealFate
<1>5. appeals'[a].winnerBy \in OpIds =>
        /\ appeals'[a].winnerBy <= nOps' /\ ops'[appeals'[a].winnerBy].status = "APPLIED"
        /\ appeals'[a].winnerStamp < appeals'[a].winnerBy
    BY <1>1, <1>2 DEF AppealFate
<1>6. appeals'[a].winner # "NONE" => appeals'[a].stamp <= appeals'[a].winnerStamp
    BY <1>1, <1>2 DEF AppealFate
<1> QED
    BY <1>3, <1>4, <1>5, <1>6 DEF AppealFate

\* round:cancel and match:reset
LEMMA FateWithdrawn ==
    ASSUME FormedInv, NEW S, Invalidates(S), Withdraws, NEW a \in 1 .. nAppeals
    PROVE  AppealFate(a)'
<1> DEFINE n == nOps + 1
<1>0. TypeOK
    BY DEF FormedInv, FormInv, LegalInv
<1>1. AppealFate(a)
    BY DEF FormedInv, AppealsAreFormed
<1>2. appeals[a].stamp \in Nat /\ appeals[a].winnerStamp \in Nat /\ nOps \in Nat
      /\ appeals[a].by \in Nat /\ appeals[a].winnerBy \in Nat
    BY <1>0, AppealColumns
<1>3. nOps' = n /\ ops'[n].status = "APPLIED" /\ \A k \in OpIds \ {n} : ops'[k] = ops[k]
    BY DEF Invalidates
<1>4. /\ appeals'[a].stamp = appeals[a].stamp /\ appeals'[a].winnerStamp = appeals[a].winnerStamp
      /\ appeals'[a].winner = appeals[a].winner
      /\ appeals'[a].by = appeals[a].by \/ appeals'[a].by = n
      /\ \/ appeals'[a].winnerBy = appeals[a].winnerBy
         \/ appeals'[a].winnerBy = n /\ appeals[a].winner # "NONE"
    BY DEF Withdraws, SameAppeal
<1>5. appeals[a].by \in OpIds => ops'[appeals[a].by] = ops[appeals[a].by]
    BY <1>1, <1>2, <1>3 DEF AppealFate
<1>6. appeals[a].winnerBy \in OpIds => ops'[appeals[a].winnerBy] = ops[appeals[a].winnerBy]
    BY <1>1, <1>2, <1>3 DEF AppealFate
<1>7. appeals'[a].stamp <= nOps' /\ appeals'[a].winnerStamp <= nOps'
    BY <1>1, <1>2, <1>3, <1>4 DEF AppealFate
<1>8. appeals'[a].by \in OpIds =>
        /\ appeals'[a].by <= nOps' /\ ops'[appeals'[a].by].status = "APPLIED"
        /\ appeals'[a].stamp < appeals'[a].by
    <2>1. CASE appeals'[a].by = n
        BY <2>1, <1>1, <1>2, <1>3, <1>4 DEF AppealFate
    <2>2. CASE appeals'[a].by = appeals[a].by
        BY <2>2, <1>1, <1>2, <1>3, <1>4, <1>5 DEF AppealFate
    <2> QED
        BY <1>4, <2>1, <2>2
<1>9. appeals'[a].winnerBy \in OpIds =>
        /\ appeals'[a].winnerBy <= nOps' /\ ops'[appeals'[a].winnerBy].status = "APPLIED"
        /\ appeals'[a].winnerStamp < appeals'[a].winnerBy
    <2>1. CASE appeals'[a].winnerBy = n
        BY <2>1, <1>1, <1>2, <1>3, <1>4 DEF AppealFate
    <2>2. CASE appeals'[a].winnerBy = appeals[a].winnerBy
        BY <2>2, <1>1, <1>2, <1>3, <1>4, <1>6 DEF AppealFate
    <2> QED
        BY <1>4, <2>1, <2>2
<1>10. appeals'[a].winner = "NONE" => appeals'[a].winnerBy = 0
    BY <1>1, <1>4 DEF AppealFate
<1>11. appeals'[a].winner # "NONE" => appeals'[a].stamp <= appeals'[a].winnerStamp
    BY <1>1, <1>4 DEF AppealFate
<1> QED
    BY <1>7, <1>8, <1>9, <1>10, <1>11 DEF AppealFate

\* A step that adds no appeal keeps them well formed once their fates are.
LEMMA FormedKept ==
    ASSUME FormedInv, RoundsStay, nAppeals' = nAppeals,
           \A a \in 1 .. nAppeals : SameAppeal(a) /\ AppealFate(a)'
    PROVE  AppealsAreFormed'
<1>1. ASSUME NEW a \in 1 .. nAppeals PROVE AppealMatter(a)'
    <2>1. AppealMatter(a) /\ appeals[a].source \in Created
        BY DEF FormedInv, AppealsAreFormed, FormInv, AppealsAreSourced
    <2> QED
        BY <2>1, MatterKept
<1> QED
    BY <1>1 DEF AppealsAreFormed

\* A step that adds appeal n.
LEMMA FormedAdds ==
    ASSUME FormedInv, RoundsStay, NEW n, AddsRegulation(n) \/ AddsOvertime(n), nOps' = nOps, ops' = ops
    PROVE  AppealsAreFormed'
<1>0. FormInv /\ TypeOK /\ nOps \in Nat /\ nAppeals \in Nat
    BY DEF FormedInv, FormInv, LegalInv, TypeOK
<1>1. Adds(n)
    BY DEF AddsRegulation, AddsOvertime
<1>2. ASSUME NEW a \in 1 .. nAppeals PROVE AppealMatter(a)' /\ AppealFate(a)'
    <2>1. /\ AppealMatter(a) /\ AppealFate(a) /\ appeals[a].source \in Created
          /\ SameAppeal(a) /\ SameDecision(a)
          /\ appeals'[a].by = appeals[a].by \/ appeals'[a].by = OtherAudit
        BY <1>1 DEF FormedInv, AppealsAreFormed, FormInv, AppealsAreSourced, Adds
    <2>2. AppealMatter(a)'
        BY <2>1, MatterKept
    <2>3. AppealFate(a)'
        BY <1>0, <2>1, FateKept, AuditsDiffer DEF SameDecision, AppealFate
    <2> QED
        BY <2>2, <2>3
<1>3. (AppealMatter(n) /\ AppealFate(n))'
    BY <1>0, MatterAdded
<1>4. \A a \in 1 .. nAppeals' : a \in 1 .. nAppeals \/ a = n
    BY <1>0, <1>1 DEF Adds
<1> QED
    BY <1>2, <1>3, <1>4 DEF AppealsAreFormed

\* The steps that write no operation keep the fates of the appeals.
LEMMA FatesKept ==
    ASSUME FormedInv, nOps' = nOps, ops' = ops, NEW a \in 1 .. nAppeals, SameAppeal(a),
           appeals'[a].by = appeals[a].by \/ appeals'[a].by = OtherAudit,
           \/ SameDecision(a)
           \/ /\ appeals[a].winner # "NONE" /\ appeals'[a].winner = appeals[a].winner
              /\ appeals'[a].winnerStamp = appeals[a].winnerStamp
              /\ appeals'[a].winnerBy \in {appeals[a].winnerBy, OtherAudit}
           \/ /\ appeals[a].winner = "NONE" /\ appeals'[a].winner # "NONE"
              /\ appeals'[a].winnerBy = appeals[a].winnerBy /\ appeals'[a].winnerStamp = nOps
    PROVE  AppealFate(a)'
<1>1. AppealFate(a) /\ nOps \in Nat
    BY DEF FormedInv, AppealsAreFormed, FormInv, LegalInv, TypeOK
<1>2. nOps <= nOps'
    BY <1>1
<1>3. appeals'[a].winner = "NONE" => appeals'[a].winnerBy = 0
    BY <1>1 DEF AppealFate, SameDecision
<1>4. appeals'[a].by \in OpIds => appeals'[a].by = appeals[a].by /\ ops'[appeals[a].by].status = "APPLIED"
    BY <1>1, AuditsDiffer DEF AppealFate
<1>5. appeals'[a].winnerBy \in OpIds =>
               /\ appeals'[a].winnerBy = appeals[a].winnerBy
               /\ appeals'[a].winnerStamp = appeals[a].winnerStamp
               /\ ops'[appeals[a].winnerBy].status = "APPLIED"
    BY <1>1, AuditsDiffer DEF AppealFate, SameDecision
<1> QED
    BY <1>1, <1>2, <1>3, <1>4, <1>5, FateKept DEF SameDecision

\* result-cancellation:undo
LEMMA FateRecalled ==
    ASSUME FormedInv, NEW k \in OpIds, Restores(k), Recalls(k), NEW a \in 1 .. nAppeals
    PROVE  AppealFate(a)'
<1>1. AppealFate(a) /\ nOps \in Nat /\ nOps' = nOps
    BY DEF FormedInv, AppealsAreFormed, FormInv, LegalInv, TypeOK, Restores
<1>2. nOps <= nOps'
    BY <1>1
<1>3. /\ SameAppeal(a)
      /\ appeals'[a].winner = appeals[a].winner /\ appeals'[a].winnerStamp = appeals[a].winnerStamp
      /\ appeals'[a].by = (IF appeals[a].by = k THEN 0 ELSE appeals[a].by)
      /\ appeals'[a].winnerBy = (IF appeals[a].winnerBy = k THEN 0 ELSE appeals[a].winnerBy)
    BY DEF Recalls
<1>4. \A j \in OpIds \ {k} : ops'[j] = ops[j]
    BY DEF Restores
<1>5. appeals'[a].by \in OpIds => appeals'[a].by = appeals[a].by /\ ops'[appeals[a].by].status = "APPLIED"
    BY <1>1, <1>3, <1>4, AuditsDiffer DEF AppealFate
<1>6. appeals'[a].winnerBy \in OpIds =>
        appeals'[a].winnerBy = appeals[a].winnerBy /\ ops'[appeals[a].winnerBy].status = "APPLIED"
    BY <1>1, <1>3, <1>4, AuditsDiffer DEF AppealFate
<1>7. appeals'[a].winner = "NONE" => appeals'[a].winnerBy = 0
    BY <1>1, <1>3 DEF AppealFate
<1> QED
    BY <1>1, <1>2, <1>3, <1>5, <1>6, <1>7, FateKept

\* Every step keeps rounds, operations and appeals well formed.
LEMMA FormedStep == FormedInv /\ [Next]_vars => FormedInv'
<1> SUFFICES ASSUME FormedInv, [Next]_vars PROVE AppealsAreFormed'
    BY FormStep DEF FormedInv
<1>1. TypeOK /\ LegalRows /\ UncreatedIsNotDue /\ AppealsAreSourced /\ FormInv
    BY DEF FormedInv, FormInv, LegalInv
<1>2. RoundsStay /\ StepKinds
    BY <1>1, RoundsStayStep, StepsAreKinds
<1>3. ASSUME UNCHANGED <<appeals, nAppeals, ops, nOps>> PROVE AppealsAreFormed'
    <2>1. \A a \in 1 .. nAppeals : SameAppeal(a) /\ SameDecision(a)
        BY <1>3 DEF SameAppeal, SameDecision
    <2>2. \A a \in 1 .. nAppeals : AppealFate(a)'
        BY <1>3, <2>1, FatesKept
    <2> QED
        BY <1>2, <1>3, <2>1, <2>2, FormedKept
<1>4. CASE Idles
    <2>1. /\ nAppeals' = nAppeals /\ nOps' = nOps /\ ops' = ops
          /\ \A a \in 1 .. nAppeals : /\ SameAppeal(a) /\ SameDecision(a)
                                      /\ appeals'[a].by = appeals[a].by \/ appeals'[a].by = OtherAudit
        BY <1>4 DEF Idles, AppealsKept, RoundsRest
    <2>2. \A a \in 1 .. nAppeals : AppealFate(a)'
        BY <2>1, FatesKept
    <2> QED
        BY <1>2, <2>1, <2>2, FormedKept
<1>5. ASSUME NEW r \in RoundIds, Ends(r), UNCHANGED <<appeals, nAppeals>> PROVE AppealsAreFormed'
    BY <1>3, <1>5 DEF Ends
<1>6. ASSUME NEW stage, NEW number, Starts(nRounds + 1, stage, number), UNCHANGED <<appeals, nAppeals>>
      PROVE  AppealsAreFormed'
    BY <1>3, <1>6 DEF Starts
<1>7. CASE RestartOvertime
    <2>1. RetiresAppeal(TiedAppeal) /\ Retires(appeals[TiedAppeal].source)
        BY <1>1, <1>7, RetiresAppealShape, RestartShape
    <2>2. ASSUME NEW a \in 1 .. nAppeals PROVE SameAppeal(a) /\ AppealFate(a)'
        <3>1. nOps' = nOps /\ ops' = ops
            BY <2>1 DEF Retires
        <3>2. AppealFate(a)
            BY DEF FormedInv, AppealsAreFormed
        <3>3. /\ SameAppeal(a)
              /\ appeals'[a].by = appeals[a].by \/ appeals'[a].by = OtherAudit
              /\ \/ SameDecision(a)
                 \/ /\ appeals[a].winner # "NONE" /\ appeals'[a].winner = appeals[a].winner
              /\ appeals'[a].winnerStamp = appeals[a].winnerStamp
                    /\ appeals'[a].winnerBy \in {appeals[a].winnerBy, OtherAudit}
            BY <2>1 DEF RetiresAppeal, SameDecision
        <3> QED
            BY <3>1, <3>3, FatesKept
    <2> QED
        BY <1>2, <2>1, <2>2, FormedKept DEF RetiresAppeal
<1>8. ASSUME NEW result, CompleteRegulationAppeal(result) \/ CompleteOvertimeAppeal(result)
      PROVE  AppealsAreFormed'
    <2>1. AddsRegulation(nAppeals + 1) \/ AddsOvertime(nAppeals + 1)
        BY <1>1, <1>8, AddsRegulationShape, AddsOvertimeShape
    <2>2. nOps' = nOps /\ ops' = ops
        BY <1>8 DEF CompleteRegulationAppeal, CompleteOvertimeAppeal, AppealUnchanged
    <2> QED
        BY <1>2, <2>1, <2>2, FormedAdds
<1>9. ASSUME NEW colour \in Colours, ManualWinner(colour) PROVE AppealsAreFormed'
    <2>1. Decides(TiedAppeal)
        BY <1>1, <1>9, DecidesShape
    <2>2. nOps' = nOps /\ ops' = ops
        BY <1>9 DEF ManualWinner, AppealUnchanged
    <2>3. ASSUME NEW a \in 1 .. nAppeals PROVE SameAppeal(a) /\ AppealFate(a)'
        <3>1. /\ SameAppeal(a) /\ appeals'[a].by = appeals[a].by
              /\ \/ SameDecision(a)
                 \/ /\ appeals[a].winner = "NONE" /\ appeals'[a].winner # "NONE"
                    /\ appeals'[a].winnerBy = appeals[a].winnerBy /\ appeals'[a].winnerStamp = nOps
            BY <2>1 DEF Decides
        <3> QED
            BY <2>2, <3>1, FatesKept
    <2> QED
        BY <1>2, <2>1, <2>3, FormedKept DEF Decides
<1>10. ASSUME NEW i \in Instances, NEW mode \in ExitModes, ExitMatch(i, mode) PROVE AppealsAreFormed'
    <2>1. Invalidates(ExitRounds(mode))
        BY <1>1, <1>10, ExitShape
    <2>2. appeals' = appeals /\ nAppeals' = nAppeals
        BY <1>10 DEF ExitMatch
    <2>3. Withdraws
        BY <2>2 DEF Withdraws, SameAppeal
    <2>4. \A a \in 1 .. nAppeals : SameAppeal(a) /\ AppealFate(a)'
        BY <2>1, <2>3, FateWithdrawn DEF Withdraws
    <2> QED
        BY <1>2, <2>2, <2>4, FormedKept
<1>11. ASSUME NEW i \in Instances, NEW entireMatch \in BOOLEAN, CancelResults(i, entireMatch)
       PROVE  AppealsAreFormed'
    <2>1. Invalidates(SelectedRounds(entireMatch)) /\ Withdraws
        BY <1>1, <1>11, CancelShape, WithdrawsShape
    <2>2. \A a \in 1 .. nAppeals : SameAppeal(a) /\ AppealFate(a)'
        BY <2>1, FateWithdrawn DEF Withdraws
    <2> QED
        BY <1>2, <2>1, <2>2, FormedKept DEF Withdraws
<1>12. ASSUME NEW i \in Instances, NEW k \in OpIds, Undo(i, k) PROVE AppealsAreFormed'
    <2>1. Restores(k) /\ Recalls(k)
        BY <1>1, <1>12, UndoShape, RecallsShape
    <2>2. \A a \in 1 .. nAppeals : SameAppeal(a) /\ AppealFate(a)'
        BY <2>1, FateRecalled DEF Recalls
    <2> QED
        BY <1>2, <2>1, <2>2, FormedKept DEF Recalls
<1> QED
    BY <1>2, <1>4, <1>5, <1>6, <1>7, <1>8, <1>9, <1>10, <1>11, <1>12 DEF StepKinds

-----------------------------------------------------------------------------
(* The rounds that the undo of an operation brings back.                    *)

Applied(k) == ops[k].status = "APPLIED"

\* The rounds effective before operation k that a restart of overtime has
\* retired for good since.
Lost(k) == {r \in ops[k].before : rounds[r].by = OtherAudit}

\* Once operation k and every later one are undone, the rounds effective before
\* it are effective again, but for those lost.
Recoups(k) ==
    /\ ops[k].before = Restorable(k) \cup Lost(k)
    /\ \A r \in ops[k].before : r \in Created /\ rounds[r].stamp < k

LossInv == ~disordered => \A k \in OpIds : Applied(k) => Recoups(k)

\* No round is retired.
NoneRetired == \A r \in Created : rounds'[r].by = OtherAudit <=> rounds[r].by = OtherAudit

\* An undo in order undoes the newest applied operation.
LEMMA NewestIsUndone ==
    ASSUME FormInv, NEW k \in OpIds, Restores(k), ~disordered', NEW j \in OpIds, Applied(j)
    PROVE  j <= k /\ j \in Nat /\ k \in Nat
<1>0. k \in Nat /\ j \in Nat /\ nOps \in Nat /\ j <= nOps
    BY AppliedNumbers DEF Applied, OpIds
<1>1. \A l \in k + 1 .. nOps : ops[l].status # "APPLIED"
    BY DEF Restores
<1> QED
    BY <1>0, <1>1 DEF Applied

\* An undo in order makes effective what it could restore.
LEMMA UndoRestores ==
    ASSUME FormInv, NEW k \in OpIds, Restores(k), ~disordered'
    PROVE  Effective' = Restorable(k)
<1>0. TypeOK /\ k \in Nat
    BY DEF FormInv, LegalInv, OpIds
<1>1. Effective' = Effective \cup InvalidatedBy(k)
    BY RestoredSets
<1>2. \A r \in Effective : rounds[r].stamp < k
    BY DEF Restores, UndoAllowed, NoActivitySince
<1>3. ASSUME NEW r \in Restorable(k) PROVE r \in Effective \cup InvalidatedBy(k)
    <2>1. CASE rounds[r].by = 0
        BY <2>1 DEF Restorable, Effective
    <2>2. CASE rounds[r].by \in OpIds /\ k <= rounds[r].by
        <3>1. r \in Created /\ Applied(rounds[r].by)
            BY <2>2 DEF Restorable, FormInv, RoundsAreFormed, FormedRound, Applied
        <3>2. rounds[r].by <= k /\ rounds[r].by \in Nat
            BY <2>2, <3>1, NewestIsUndone
        <3>3. rounds[r].by = k
            BY <1>0, <2>2, <3>2
        <3> QED
            BY <3>1, <3>3 DEF InvalidatedBy
    <2> QED
        BY <2>1, <2>2 DEF Restorable
<1>4. ASSUME NEW r \in Effective PROVE r \in Restorable(k)
    BY <1>2 DEF Restorable, Effective
<1>5. ASSUME NEW r \in InvalidatedBy(k) PROVE r \in Restorable(k)
    BY <1>0 DEF Restorable, InvalidatedBy, FormInv, RoundsAreFormed, FormedRound
<1> QED
    BY <1>1, <1>3, <1>4, <1>5

\* Rounds that keep their audits keep what an undo could restore.
LEMMA RestorableKept ==
    ASSUME FormInv, NEW k \in OpIds, Applied(k), Created \subseteq Created', nOps \in Nat,
           \A r \in Created : rounds'[r].stamp = rounds[r].stamp /\ rounds'[r].by = rounds[r].by,
           \A r \in Created' \ Created : rounds'[r].stamp = nOps
    PROVE  Restorable(k)' = Restorable(k)
<1>1. k \in Nat /\ k <= nOps
    BY AppliedNumbers DEF Applied
<1>2. \A r \in Created' \ Created : ~(rounds'[r].stamp < k)
    BY <1>1
<1> QED
    BY <1>2 DEF Restorable

\* What the steps do to what an undo of operation k could restore.
LEMMA SavedRounds ==
    ASSUME FormInv, [Next]_vars, ~disordered', NEW k \in OpIds, Applied(k), Applied(k)'
    PROVE  /\ ops'[k] = ops[k]
           /\ ~RestartOvertime => Restorable(k)' = Restorable(k) /\ NoneRetired
<1>1. TypeOK /\ LegalRows /\ UncreatedIsNotDue /\ AppealsAreSourced /\ nOps \in Nat
    BY DEF FormInv, LegalInv, TypeOK
<1>2. \A r \in Created : r \in RoundIds
    BY <1>1, CreatedAreRounds
<1>3. k # nOps + 1 /\ k \in Nat
    BY <1>1, AppliedNumbers DEF Applied
<1>4. CASE RoundsRest
    <2>1. /\ Created' = Created /\ ops' = ops
          /\ \A r \in Created : rounds'[r].stamp = rounds[r].stamp /\ rounds'[r].by = rounds[r].by
        BY <1>2, <1>4 DEF RoundsRest, Created, SameRound, SameIdentity
    <2>2. Restorable(k)' = Restorable(k) /\ NoneRetired
        BY <2>1 DEF Restorable, NoneRetired
    <2> QED
        BY <2>1, <2>2
<1>5. ASSUME NEW q \in RoundIds, Ends(q)
      PROVE  ops'[k] = ops[k] /\ Restorable(k)' = Restorable(k) /\ NoneRetired
    <2>1. /\ Created' = Created /\ ops' = ops
          /\ \A r \in Created : rounds'[r].stamp = rounds[r].stamp /\ rounds'[r].by = rounds[r].by
        BY <1>2, <1>5 DEF Ends, Created, SameRound, SameIdentity
    <2>2. Restorable(k)' = Restorable(k) /\ NoneRetired
        BY <2>1 DEF Restorable, NoneRetired
    <2> QED
        BY <2>1, <2>2
<1>6. ASSUME NEW stage, NEW number, Starts(nRounds + 1, stage, number)
      PROVE  ops'[k] = ops[k] /\ Restorable(k)' = Restorable(k) /\ NoneRetired
    <2> DEFINE n == nRounds + 1
    <2>0. Created' = Created \cup {n} /\ n \notin Created
        <3>1. nRounds \in Nat /\ nRounds' = n
            BY <1>1, <1>6 DEF Starts, TypeOK
        <3> QED
            BY <3>1 DEF Created
    <2>1. /\ Created' = Created \cup {n} /\ n \notin Created /\ ops' = ops /\ rounds'[n].stamp = nOps
          /\ \A r \in Created : rounds'[r].stamp = rounds[r].stamp /\ rounds'[r].by = rounds[r].by
        <3>1. \A r \in Created : r \in RoundIds \ {n}
            BY <1>2, <2>0
        <3> QED
            BY <2>0, <3>1, <1>6 DEF Starts, SameRound, SameIdentity
    <2>2. NoneRetired
        BY <2>1 DEF NoneRetired
    <2> HIDE DEF n
    <2>3. Restorable(k)' = Restorable(k)
        BY <1>1, <2>1, RestorableKept
    <2> QED
        BY <2>1, <2>2, <2>3
<1>7. ASSUME NEW S, Invalidates(S)
      PROVE  ops'[k] = ops[k] /\ Restorable(k)' = Restorable(k) /\ NoneRetired
    <2>1. ops'[k] = ops[k] /\ nOps + 1 # OtherAudit
        BY <1>3, <1>7, AuditsDiffer DEF Invalidates
    <2>2. Restorable(k)' = Restorable(k)
        BY <1>3, <1>7, RestorableStays DEF Applied
    <2>3. \A r \in S : r \in Created /\ rounds[r].by = 0
        BY <1>7 DEF Invalidates, Effective
    <2>4. \A r \in Created : rounds'[r].by = IF r \in S THEN nOps + 1 ELSE rounds[r].by
        BY <1>2, <1>7 DEF Invalidates
    <2> QED
        BY <2>1, <2>2, <2>3, <2>4, AuditsDiffer DEF NoneRetired
<1>8. ASSUME NEW j \in OpIds, Restores(j)
      PROVE  ops'[k] = ops[k] /\ Restorable(k)' = Restorable(k) /\ NoneRetired
    <2>1. k # j /\ ops'[k] = ops[k] /\ k <= j /\ j \in Nat
        BY <1>8, NewestIsUndone DEF Restores, Applied
    <2>2. /\ \A r \in Created : rounds'[r].by = IF rounds[r].by = j THEN 0 ELSE rounds[r].by
          /\ Created' = Created /\ \A r \in Created : rounds'[r].stamp = rounds[r].stamp
        BY <1>2, <1>8 DEF Restores, SameIdentity, Created
    <2>3. Restorable(k)' = Restorable(k)
        BY <2>1, <2>2 DEF Restorable
    <2> QED
        BY <2>1, <2>2, <2>3, AuditsDiffer DEF NoneRetired
<1>9. CASE RestartOvertime
    BY <1>9 DEF RestartOvertime
<1> QED
    BY <1>1, <1>4, <1>5, <1>6, <1>7, <1>8, <1>9, StepShape, StartShape, ExitShape, CancelShape, UndoShape

\* What a restart of overtime that retires round q does to it.
LEMMA SavedRetires ==
    ASSUME FormInv, NEW q, Retires(q)
    PROVE  /\ \A k : Restorable(k)' = Restorable(k) \ {q}
           /\ Effective' = Effective \ {q} /\ Created' = Created
           /\ \A r \in Created : rounds'[r].by = OtherAudit <=> rounds[r].by = OtherAudit \/ r = q
           /\ \A r \in Created : SameIdentity(r)
<1>1. Created' = Created /\ \A r \in Created : r \in RoundIds /\ SameIdentity(r)
    BY CreatedAreRounds DEF Retires, Created, SameRound, FormInv, LegalInv
<1>2. /\ \A r \in Created : r # q => rounds'[r].by = rounds[r].by
      /\ rounds'[q].by = OtherAudit
    BY <1>1 DEF Retires, SameRound
<1>3. \A r \in Created : rounds'[r].stamp = rounds[r].stamp
    BY <1>1 DEF SameIdentity
<1>4. \A k : Restorable(k)' = Restorable(k) \ {q}
    BY <1>1, <1>2, <1>3, AuditsDiffer DEF Restorable
<1>5. Effective' = Effective \ {q}
    BY <1>1, <1>2, AuditsDiffer DEF Effective
<1> QED
    BY <1>1, <1>2, <1>4, <1>5

\* Operations undone in order after a step were undone in order before it.
LEMMA OrderedBefore ==
    ASSUME FormInv, [Next]_vars, ~disordered'
    PROVE  ~disordered
<1>1. TypeOK /\ LegalRows /\ UncreatedIsNotDue /\ AppealsAreSourced
    BY DEF FormInv, LegalInv
<1>2. CASE RoundsRest
    BY <1>2 DEF RoundsRest, history
<1>3. ASSUME NEW r \in RoundIds, Ends(r) PROVE ~disordered
    BY <1>3 DEF Ends
<1>4. CASE RestartOvertime
    BY <1>4 DEF RestartOvertime, history
<1>5. ASSUME NEW i \in Instances, StartRound(i) PROVE ~disordered
    BY <1>5 DEF StartRound, history
<1>6. ASSUME NEW i \in Instances, NEW mode \in ExitModes, ExitMatch(i, mode) PROVE ~disordered
    BY <1>6 DEF ExitMatch
<1>7. ASSUME NEW i \in Instances, NEW entireMatch \in BOOLEAN, CancelResults(i, entireMatch) PROVE ~disordered
    BY <1>7 DEF CancelResults, history
<1>8. ASSUME NEW i \in Instances, NEW k \in OpIds, Undo(i, k) PROVE ~disordered
    BY <1>8 DEF Undo
<1> QED
    BY <1>1, <1>2, <1>3, <1>4, <1>5, <1>6, <1>7, <1>8, StepShape

\* Only exits and cancellations apply an operation.
LEMMA NewlyApplied ==
    ASSUME FormInv, [Next]_vars, NEW k \in OpIds, Applied(k)', ~Applied(k)
    PROVE  k = nOps + 1 /\ \E S : Invalidates(S)
<1>1. TypeOK /\ LegalRows /\ UncreatedIsNotDue /\ AppealsAreSourced
    BY DEF FormInv, LegalInv
<1>2. ~RoundsRest
    BY DEF RoundsRest, Applied
<1>3. \A r \in RoundIds : ~Ends(r)
    BY DEF Ends, Applied
<1>4. ~RestartOvertime
    BY DEF RestartOvertime, Applied
<1>5. \A i \in Instances : ~StartRound(i)
    BY DEF StartRound, Applied
<1>6. ASSUME NEW j \in OpIds, Restores(j) PROVE FALSE
    BY <1>6 DEF Restores, Applied
<1>7. ASSUME NEW S, Invalidates(S) PROVE k = nOps + 1
    BY <1>7 DEF Invalidates, Applied
<1> QED
    BY <1>1, <1>2, <1>3, <1>4, <1>5, <1>6, <1>7, StepShape, ExitShape, CancelShape, UndoShape

\* An operation that has just been applied has lost nothing.
LEMMA NothingLostYet ==
    ASSUME FormInv, NEW S, Invalidates(S), NEW k, k = nOps + 1
    PROVE  Lost(k)' = {} /\ Recoups(k)'
<1>0. TypeOK /\ nOps \in Nat /\ k \in OpIds
    BY DEF FormInv, LegalInv, TypeOK, Invalidates
<1>1. ops'[k].before = Effective /\ Restorable(k)' = Effective
    BY <1>0, RestorableStays DEF Invalidates
<1>2. Created' = Created /\ \A r \in Created : r \in RoundIds /\ SameIdentity(r)
    BY <1>0, CreatedAreRounds DEF Invalidates, Created
<1>3. \A r \in Effective : r \in Created /\ rounds'[r].by \in {0, k}
    BY <1>2 DEF Invalidates, Effective
<1>4. Lost(k)' = {}
    BY <1>0, <1>1, <1>3, AuditsDiffer DEF Lost
<1>5. \A r \in Effective : rounds'[r].stamp < k
    BY <1>0, <1>2, <1>3, RoundNumbers DEF SameIdentity, FormInv, RoundsAreFormed, FormedRound
<1> QED
    BY <1>1, <1>2, <1>3, <1>4, <1>5 DEF Recoups

\* Every step keeps what undos in order would recoup.
LEMMA LossStep == FormInv /\ LossInv /\ [Next]_vars => LossInv'
<1> SUFFICES ASSUME FormInv, LossInv, [Next]_vars, ~disordered', NEW k \in OpIds, Applied(k)'
             PROVE  Recoups(k)'
    BY DEF LossInv
<1>1. TypeOK /\ LegalRows /\ UncreatedIsNotDue /\ AppealsAreSourced
    BY DEF FormInv, LegalInv
<1>2. ~disordered /\ RoundsStay
    BY <1>1, OrderedBefore, RoundsStayStep
<1>3. CASE ~Applied(k)
    BY <1>3, NewlyApplied, NothingLostYet
<1>4. CASE Applied(k)
    <2>1. ops'[k] = ops[k] /\ Recoups(k)
        BY <1>2, <1>4, SavedRounds DEF LossInv
    <2>2. \A r \in ops[k].before : r \in Created /\ r \in Created' /\ rounds'[r].stamp < k
        BY <1>2, <2>1 DEF Recoups, RoundsStay, SameIdentity
    <2>3. CASE RestartOvertime
        <3>1. PICK q : Retires(q)
            BY <1>1, <2>3, RestartShape
        <3>2. /\ Restorable(k)' = Restorable(k) \ {q}
              /\ \A r \in Created : rounds'[r].by = OtherAudit <=> rounds[r].by = OtherAudit \/ r = q
            BY <3>1, SavedRetires
        <3>3. Lost(k)' = Lost(k) \cup ({q} \cap ops[k].before)
            BY <2>1, <2>2, <3>2 DEF Lost
        <3>4. ops[k].before = Restorable(k) \cup Lost(k)
            BY <2>1 DEF Recoups
        <3>5. ops[k].before = Restorable(k)' \cup Lost(k)'
            BY <3>2, <3>3, <3>4
        <3> QED
            BY <2>1, <2>2, <3>5 DEF Recoups
    <2>4. CASE ~RestartOvertime
        <3>1. Restorable(k)' = Restorable(k) /\ NoneRetired
            BY <1>4, <2>4, SavedRounds
        <3>2. Lost(k)' = Lost(k)
            BY <2>1, <2>2, <3>1 DEF Lost, NoneRetired
        <3> QED
            BY <2>1, <2>2, <3>1, <3>2 DEF Recoups
    <2> QED
        BY <2>3, <2>4
<1> QED
    BY <1>3, <1>4

-----------------------------------------------------------------------------
(* The appeals and decisions that stand, and those that stood when an        *)
(* operation was applied.                                                    *)

Standing == {a \in 1 .. nAppeals : appeals[a].by = 0}
Recallable(k) ==
    {a \in 1 .. nAppeals : /\ appeals[a].stamp < k
                           /\ appeals[a].by = 0 \/ (appeals[a].by \in OpIds /\ k <= appeals[a].by)}
Decided == {a \in 1 .. nAppeals : appeals[a].winner # "NONE" /\ appeals[a].winnerBy = 0}
DecidedAt(k) ==
    {a \in 1 .. nAppeals :
        /\ appeals[a].winner # "NONE" /\ appeals[a].winnerStamp < k
        /\ appeals[a].winnerBy = 0 \/ (appeals[a].winnerBy \in OpIds /\ k <= appeals[a].winnerBy)}

\* What stood when operation k was applied stays as it is, but for appeals that
\* are retired.
AppealsStay(k) ==
    /\ DecidedAt(k)' = DecidedAt(k)
    /\ Recallable(k)' \subseteq Recallable(k)
    /\ \A a \in Recallable(k) : a \notin Recallable(k)' => appeals'[a].by = OtherAudit

\* An undo in order brings back the appeals and the decisions that stood.
LEMMA UndoRecalls ==
    ASSUME FormedInv, NEW k \in OpIds, Restores(k), Recalls(k), ~disordered'
    PROVE  Standing' = Recallable(k) /\ Decided' = DecidedAt(k)
<1>0. FormInv /\ TypeOK /\ k \in Nat /\ k # 0
    BY DEF FormedInv, FormInv, LegalInv, OpIds
<1>1. \A x \in OpIds : Applied(x) => x <= k /\ x \in Nat
    BY <1>0, NewestIsUndone
<1>2. NoActivitySince(k) /\ nAppeals' = nAppeals
    BY DEF Restores, UndoAllowed, Recalls
<1>3. ASSUME NEW a \in 1 .. nAppeals PROVE a \in Standing' <=> a \in Recallable(k)
    <2>1. AppealFate(a) /\ appeals[a].by \in Audits
        BY <1>0, AppealColumns DEF FormedInv, AppealsAreFormed
    <2>2. a \in Standing' <=> appeals[a].by = 0 \/ appeals[a].by = k
        <3>1. appeals'[a].by = IF appeals[a].by = k THEN 0 ELSE appeals[a].by
            BY DEF Recalls
        <3> QED
            BY <1>2, <3>1 DEF Standing
    <2>3. appeals[a].by = 0 => appeals[a].stamp < k
        BY <1>2 DEF NoActivitySince
    <2>4. appeals[a].by = k => appeals[a].stamp < k
        BY <2>1 DEF AppealFate
    <2>5. (appeals[a].by \in OpIds /\ k <= appeals[a].by) <=> appeals[a].by = k
        <3>1. appeals[a].by \in OpIds => Applied(appeals[a].by)
            BY <2>1 DEF AppealFate, Applied
        <3>2. appeals[a].by \in OpIds => appeals[a].by <= k /\ appeals[a].by \in Nat
            BY <1>1, <3>1
        <3> QED
            BY <1>0, <3>2
    <2> QED
        BY <2>2, <2>3, <2>4, <2>5 DEF Recallable
<1>4. ASSUME NEW a \in 1 .. nAppeals PROVE a \in Decided' <=> a \in DecidedAt(k)
    <2>1. AppealFate(a)
        BY DEF FormedInv, AppealsAreFormed
    <2>2. a \in Decided' <=> appeals[a].winner # "NONE" /\ (appeals[a].winnerBy = 0 \/ appeals[a].winnerBy = k)
        <3>1. /\ appeals'[a].winnerBy = IF appeals[a].winnerBy = k THEN 0 ELSE appeals[a].winnerBy
              /\ appeals'[a].winner = appeals[a].winner
            BY DEF Recalls
        <3> QED
            BY <1>2, <3>1 DEF Decided
    <2>3. appeals[a].winner # "NONE" /\ appeals[a].winnerBy = 0 => appeals[a].winnerStamp < k
        BY <1>2 DEF NoActivitySince
    <2>4. appeals[a].winnerBy = k => appeals[a].winnerStamp < k
        BY <2>1 DEF AppealFate
    <2>5. (appeals[a].winnerBy \in OpIds /\ k <= appeals[a].winnerBy) <=> appeals[a].winnerBy = k
        <3>1. appeals[a].winnerBy \in OpIds => Applied(appeals[a].winnerBy)
            BY <2>1 DEF AppealFate, Applied
        <3>2. appeals[a].winnerBy \in OpIds => appeals[a].winnerBy <= k /\ appeals[a].winnerBy \in Nat
            BY <1>1, <3>1
        <3> QED
            BY <1>0, <3>2
    <2> QED
        BY <2>2, <2>3, <2>4, <2>5 DEF DecidedAt
<1>5. Standing' \subseteq 1 .. nAppeals /\ Decided' \subseteq 1 .. nAppeals
    BY <1>2 DEF Standing, Decided
<1>6. Recallable(k) \subseteq 1 .. nAppeals /\ DecidedAt(k) \subseteq 1 .. nAppeals
    BY DEF Recallable, DecidedAt
<1> QED
    BY <1>3, <1>4, <1>5, <1>6

\* A new operation saves the appeals and the decisions that stand.
LEMMA OperationSaves ==
    ASSUME FormedInv, NEW S, Invalidates(S), Withdraws, NEW k, k = nOps + 1
    PROVE  Recallable(k)' = Standing /\ DecidedAt(k)' = Decided
<1>0. TypeOK /\ k \in OpIds /\ nOps \in Nat /\ k \in Nat /\ k # 0
    BY DEF FormedInv, FormInv, LegalInv, TypeOK, Invalidates
<1>1. nAppeals' = nAppeals
    BY DEF Withdraws
<1>2. ASSUME NEW a \in 1 .. nAppeals PROVE a \in Recallable(k)' <=> a \in Standing
    <2>1. /\ AppealFate(a) /\ appeals[a].stamp \in Nat /\ appeals[a].by \in Nat
        BY <1>0, AppealColumns DEF FormedInv, AppealsAreFormed
    <2>2. appeals'[a].stamp < k
        BY <1>0, <2>1 DEF Withdraws, SameAppeal, AppealFate
    <2>3. appeals'[a].by = appeals[a].by \/ (appeals[a].by = 0 /\ appeals'[a].by = k)
        BY DEF Withdraws
    <2>4. ~(appeals[a].by \in OpIds /\ k <= appeals[a].by)
        BY <1>0, <2>1 DEF AppealFate
    <2> QED
        BY <1>0, <1>1, <2>2, <2>3, <2>4 DEF Recallable, Standing
<1>3. ASSUME NEW a \in 1 .. nAppeals PROVE a \in DecidedAt(k)' <=> a \in Decided
    <2>1. /\ AppealFate(a) /\ appeals[a].winnerStamp \in Nat /\ appeals[a].winnerBy \in Nat
        BY <1>0, AppealColumns DEF FormedInv, AppealsAreFormed
    <2>2. appeals'[a].winnerStamp < k /\ appeals'[a].winner = appeals[a].winner
        BY <1>0, <2>1 DEF Withdraws, AppealFate
    <2>3. \/ appeals'[a].winnerBy = appeals[a].winnerBy
          \/ appeals[a].winnerBy = 0 /\ appeals'[a].winnerBy = k
        BY DEF Withdraws
    <2>4. ~(appeals[a].winnerBy \in OpIds /\ k <= appeals[a].winnerBy)
        BY <1>0, <2>1 DEF AppealFate
    <2> QED
        BY <1>0, <1>1, <2>2, <2>3, <2>4 DEF DecidedAt, Decided
<1>4. Standing \subseteq 1 .. nAppeals /\ Decided \subseteq 1 .. nAppeals
    BY DEF Standing, Decided
<1>5. Recallable(k)' \subseteq 1 .. nAppeals /\ DecidedAt(k)' \subseteq 1 .. nAppeals
    BY <1>1 DEF Recallable, DecidedAt
<1> QED
    BY <1>2, <1>3, <1>4, <1>5

\* Undoing operation k and the later ones leads from the audit x to effective
\* as it does from the audit y.
Follows(k, x, y) ==
    \/ y = x
    \/ x = 0 /\ y \in OpIds /\ k <= y
    \/ y = 0 /\ x \in OpIds /\ k <= x

\* The numbers of appeals only grow.
LEMMA AppealsGrow ==
    ASSUME TypeOK, nAppeals' = nAppeals \/ nAppeals' = nAppeals + 1
    PROVE  /\ \A a \in 1 .. nAppeals : a \in 1 .. nAppeals'
           /\ \A a \in 1 .. nAppeals' : a \in 1 .. nAppeals \/ (a = nAppeals + 1 /\ nAppeals' = a)
BY DEF TypeOK

\* What stood when operation k was applied follows the audits.
LEMMA RecallableFollows ==
    ASSUME FormedInv, NEW k \in OpIds, Applied(k), nAppeals' = nAppeals \/ nAppeals' = nAppeals + 1,
           \A a \in 1 .. nAppeals :
               /\ appeals'[a].stamp = appeals[a].stamp
               /\ Follows(k, appeals[a].by, appeals'[a].by) \/ appeals'[a].by = OtherAudit,
           nAppeals' = nAppeals + 1 => appeals'[nAppeals + 1].stamp = nOps
    PROVE  /\ Recallable(k)' \subseteq Recallable(k)
           /\ \A a \in Recallable(k) : a \notin Recallable(k)' => appeals'[a].by = OtherAudit
<1>0. TypeOK /\ k \in Nat /\ nOps \in Nat /\ k <= nOps
    BY AppliedNumbers DEF FormedInv, FormInv, LegalInv, Applied
<1>1. /\ \A a \in 1 .. nAppeals : a \in 1 .. nAppeals'
      /\ \A a \in 1 .. nAppeals' : a \in 1 .. nAppeals \/ (a = nAppeals + 1 /\ nAppeals' = a)
    BY <1>0, AppealsGrow
<1>2. ASSUME NEW a \in Recallable(k)' PROVE a \in Recallable(k)
    <2>1. a \in 1 .. nAppeals' /\ appeals'[a].stamp < k
        BY DEF Recallable
    <2>2. a \in 1 .. nAppeals
        BY <1>0, <1>1, <2>1
    <2>3. appeals'[a].by # OtherAudit
        BY AuditsDiffer DEF Recallable
    <2> QED
        BY <2>2, <2>3 DEF Recallable, Follows
<1>3. ASSUME NEW a \in Recallable(k), a \notin Recallable(k)' PROVE appeals'[a].by = OtherAudit
    BY <1>1, <1>3 DEF Recallable, Follows
<1> QED
    BY <1>2, <1>3

\* What was decided before an operation stays decided through new appeals and decisions.
LEMMA DecidedFollows ==
    ASSUME FormedInv, NEW k \in OpIds, Applied(k), nAppeals' = nAppeals \/ nAppeals' = nAppeals + 1,
           \A a \in 1 .. nAppeals :
               \/ /\ appeals'[a].winner = appeals[a].winner
                  /\ appeals'[a].winnerStamp = appeals[a].winnerStamp
                  /\ Follows(k, appeals[a].winnerBy, appeals'[a].winnerBy)
               \/ appeals[a].winner = "NONE" /\ appeals'[a].winnerStamp = nOps
               \/ appeals[a].winnerStamp >= k /\ appeals'[a].winnerStamp = appeals[a].winnerStamp,
           nAppeals' = nAppeals + 1 => appeals'[nAppeals + 1].winner = "NONE"
    PROVE  DecidedAt(k)' = DecidedAt(k)
<1>0. TypeOK /\ k \in Nat /\ nOps \in Nat /\ k <= nOps
    BY AppliedNumbers DEF FormedInv, FormInv, LegalInv, Applied
<1>1. /\ \A a \in 1 .. nAppeals : a \in 1 .. nAppeals'
      /\ \A a \in 1 .. nAppeals' : a \in 1 .. nAppeals \/ (a = nAppeals + 1 /\ nAppeals' = a)
    BY <1>0, AppealsGrow
<1>2. ASSUME NEW a \in 1 .. nAppeals PROVE a \in DecidedAt(k)' <=> a \in DecidedAt(k)
    <2>0. a \in 1 .. nAppeals' /\ appeals[a].winnerStamp \in Nat
        BY <1>0, <1>1, AppealColumns
    <2>1. CASE /\ appeals'[a].winner = appeals[a].winner
               /\ appeals'[a].winnerStamp = appeals[a].winnerStamp
               /\ Follows(k, appeals[a].winnerBy, appeals'[a].winnerBy)
        BY <2>0, <2>1 DEF DecidedAt, Follows
    <2>2. CASE appeals[a].winner = "NONE" /\ appeals'[a].winnerStamp = nOps
        BY <1>0, <2>0, <2>2 DEF DecidedAt
    <2>3. CASE appeals[a].winnerStamp >= k /\ appeals'[a].winnerStamp = appeals[a].winnerStamp
        BY <1>0, <2>0, <2>3 DEF DecidedAt
    <2> QED
        BY <2>1, <2>2, <2>3
<1>3. ASSUME NEW a \in DecidedAt(k)' PROVE a \in 1 .. nAppeals
    BY <1>1 DEF DecidedAt
<1>4. DecidedAt(k) \subseteq 1 .. nAppeals
    BY DEF DecidedAt
<1> QED
    BY <1>2, <1>3, <1>4

\* The matter of an appeal never changes, and a retired appeal stays retired.
AppealsLast ==
    /\ nAppeals' = nAppeals \/ nAppeals' = nAppeals + 1
    /\ \A a \in 1 .. nAppeals : SameAppeal(a) /\ (appeals[a].by = OtherAudit => appeals'[a].by = OtherAudit)

\* What the steps do to what stood when operation k was applied.
LEMMA SavedAppeals ==
    ASSUME FormedInv, [Next]_vars, ~disordered', NEW k \in OpIds, Applied(k), Applied(k)'
    PROVE  /\ Recallable(k)' \subseteq Recallable(k)
           /\ \A a \in Recallable(k) : a \notin Recallable(k)' => appeals'[a].by = OtherAudit
           /\ ~RestartOvertime => DecidedAt(k)' = DecidedAt(k)
<1>1. TypeOK /\ LegalRows /\ UncreatedIsNotDue /\ AppealsAreSourced /\ FormInv
    BY DEF FormedInv, FormInv, LegalInv
<1>2. StepKinds /\ k \in Nat /\ nOps \in Nat /\ k <= nOps
    BY <1>1, StepsAreKinds, AppliedNumbers DEF Applied
<1> DEFINE Result == /\ Recallable(k)' \subseteq Recallable(k)
                     /\ \A a \in Recallable(k) : a \notin Recallable(k)' => appeals'[a].by = OtherAudit
                     /\ ~RestartOvertime => DecidedAt(k)' = DecidedAt(k)
<1> SUFFICES Result
    OBVIOUS
<1>3. ASSUME nAppeals' = nAppeals \/ nAppeals' = nAppeals + 1,
             \A a \in 1 .. nAppeals :
                 /\ SameAppeal(a) /\ SameDecision(a)
                 /\ appeals'[a].by = appeals[a].by \/ appeals'[a].by = OtherAudit,
             nAppeals' = nAppeals + 1 =>
                 appeals'[nAppeals + 1].stamp = nOps /\ appeals'[nAppeals + 1].winner = "NONE"
      PROVE  Result
    BY <1>3, RecallableFollows, DecidedFollows DEF Follows, SameAppeal, SameDecision
<1>4. CASE UNCHANGED <<appeals, nAppeals>>
    <2>1. \A a \in 1 .. nAppeals : SameAppeal(a) /\ SameDecision(a)
        BY <1>4 DEF SameAppeal, SameDecision
    <2>2. nAppeals # nAppeals + 1
        BY <1>1 DEF TypeOK
    <2> QED
        BY <1>3, <1>4, <2>1, <2>2
<1>5. CASE Idles
    <2>1. /\ nAppeals' = nAppeals /\ nAppeals # nAppeals + 1
          /\ \A a \in 1 .. nAppeals :
                 /\ SameAppeal(a) /\ SameDecision(a)
                 /\ appeals'[a].by = appeals[a].by \/ appeals'[a].by = OtherAudit
        BY <1>1, <1>5 DEF Idles, AppealsKept, TypeOK
    <2> QED
        BY <1>3, <2>1
<1>6. CASE RestartOvertime
    <2>1. RetiresAppeal(TiedAppeal)
        BY <1>1, <1>6, RetiresAppealShape
    <2>2. /\ nAppeals' = nAppeals /\ nAppeals # nAppeals + 1
          /\ \A a \in 1 .. nAppeals :
                 /\ SameAppeal(a)
                 /\ appeals'[a].by = appeals[a].by \/ appeals'[a].by = OtherAudit
        BY <1>1, <2>1 DEF RetiresAppeal, TypeOK
    <2> QED
        BY <1>6, <2>2, RecallableFollows DEF Follows, SameAppeal
<1>7. ASSUME NEW result, CompleteRegulationAppeal(result) \/ CompleteOvertimeAppeal(result)
      PROVE  Result
    <2>1. Adds(nAppeals + 1)
        BY <1>1, <1>7, AddsRegulationShape, AddsOvertimeShape DEF AddsRegulation, AddsOvertime
    <2>2. /\ nAppeals' = nAppeals + 1
          /\ appeals'[nAppeals + 1].stamp = nOps /\ appeals'[nAppeals + 1].winner = "NONE"
          /\ \A a \in 1 .. nAppeals :
                 /\ SameAppeal(a) /\ SameDecision(a)
                 /\ appeals'[a].by = appeals[a].by \/ appeals'[a].by = OtherAudit
        BY <2>1 DEF Adds
    <2> QED
        BY <1>3, <2>2
<1>8. ASSUME NEW colour \in Colours, ManualWinner(colour) PROVE Result
    <2>1. Decides(TiedAppeal)
        BY <1>1, <1>8, DecidesShape
    <2>2. /\ nAppeals' = nAppeals /\ nAppeals # nAppeals + 1
          /\ \A a \in 1 .. nAppeals :
                 /\ SameAppeal(a) /\ appeals'[a].by = appeals[a].by
                 /\ SameDecision(a) \/ (appeals[a].winner = "NONE" /\ appeals'[a].winnerStamp = nOps)
        BY <1>1, <2>1 DEF Decides, TypeOK
    <2> QED
        BY <2>2, RecallableFollows, DecidedFollows DEF Follows, SameAppeal, SameDecision
<1>9. ASSUME NEW i \in Instances, NEW mode \in ExitModes, ExitMatch(i, mode) PROVE Result
    BY <1>4, <1>9, OthersLeaveAppeals
<1>10. ASSUME NEW i \in Instances, NEW entireMatch \in BOOLEAN, CancelResults(i, entireMatch) PROVE Result
    <2>1. Withdraws /\ nOps + 1 \in OpIds /\ k <= nOps + 1
        BY <1>1, <1>2, <1>10, WithdrawsShape, CancelShape DEF Invalidates
    <2>2. /\ nAppeals' = nAppeals /\ nAppeals # nAppeals + 1
          /\ \A a \in 1 .. nAppeals :
                 /\ appeals'[a].stamp = appeals[a].stamp
                 /\ appeals'[a].winner = appeals[a].winner /\ appeals'[a].winnerStamp = appeals[a].winnerStamp
                 /\ Follows(k, appeals[a].by, appeals'[a].by)
                 /\ Follows(k, appeals[a].winnerBy, appeals'[a].winnerBy)
        BY <1>1, <2>1 DEF Withdraws, SameAppeal, TypeOK, Follows
    <2> QED
        BY <2>2, RecallableFollows, DecidedFollows
<1>11. ASSUME NEW i \in Instances, NEW j \in OpIds, Undo(i, j) PROVE Result
    <2>1. Restores(j) /\ Recalls(j)
        BY <1>1, <1>11, UndoShape, RecallsShape
    <2>2. k <= j
        BY <1>1, <2>1, NewestIsUndone
    <2>3. /\ nAppeals' = nAppeals /\ nAppeals # nAppeals + 1
          /\ \A a \in 1 .. nAppeals :
                 /\ appeals'[a].stamp = appeals[a].stamp
                 /\ appeals'[a].winner = appeals[a].winner /\ appeals'[a].winnerStamp = appeals[a].winnerStamp
                 /\ Follows(k, appeals[a].by, appeals'[a].by)
                 /\ Follows(k, appeals[a].winnerBy, appeals'[a].winnerBy)
        BY <1>1, <2>1, <2>2 DEF Recalls, SameAppeal, TypeOK, Follows
    <2> QED
        BY <2>3, RecallableFollows, DecidedFollows
<1> HIDE DEF Result
<1> QED
    BY <1>2, <1>4, <1>5, <1>6, <1>7, <1>8, <1>9, <1>10, <1>11 DEF StepKinds

\* An exit leaves the appeals alone, which is a way to withdraw none.
LEMMA ExitWithdraws ==
    ASSUME NEW i \in Instances, NEW mode \in ExitModes, ExitMatch(i, mode)
    PROVE  Withdraws /\ appeals' = appeals /\ nAppeals' = nAppeals
BY DEF ExitMatch, Withdraws, SameAppeal

\* An operation that is applied saves what is effective and what stands.
LEMMA NewlySaved ==
    ASSUME FormedInv, [Next]_vars, NEW k \in OpIds, Applied(k)', ~Applied(k)
    PROVE  /\ k = nOps + 1 /\ nOps' = k
           /\ ops'[k].previous.phase = match.phase /\ ops'[k].resulting.phase = match'.phase
           /\ Restorable(k)' = Effective /\ Lost(k)' = {}
           /\ Recallable(k)' = Standing /\ DecidedAt(k)' = Decided
           /\ \E S : Invalidates(S) /\ Withdraws
<1>1. TypeOK /\ LegalRows /\ UncreatedIsNotDue /\ AppealsAreSourced /\ FormInv
    BY DEF FormedInv, FormInv, LegalInv
<1>2. k = nOps + 1
    BY <1>1, NewlyApplied
<1>3. PICK S : Invalidates(S) /\ Withdraws
    <2>1. ~RoundsRest
        BY DEF RoundsRest, Applied
    <2>2. \A r \in RoundIds : ~Ends(r)
        BY DEF Ends, Applied
    <2>3. ~RestartOvertime
        BY DEF RestartOvertime, Applied
    <2>4. \A i \in Instances : ~StartRound(i)
        BY DEF StartRound, Applied
    <2>5. ASSUME NEW j \in OpIds, Restores(j) PROVE FALSE
        BY <2>5 DEF Restores, Applied
    <2> QED
        BY <1>1, <2>1, <2>2, <2>3, <2>4, <2>5, StepShape, ExitShape, ExitWithdraws, CancelShape,
           WithdrawsShape, UndoShape
<1>4. Restorable(k)' = Effective
    BY <1>1, <1>2, <1>3, RestorableStays
<1>5. Lost(k)' = {} /\ Recallable(k)' = Standing /\ DecidedAt(k)' = Decided
    BY <1>1, <1>2, <1>3, NothingLostYet, OperationSaves
<1>6. /\ ops'[k].previous.phase = match.phase /\ ops'[k].resulting.phase = match'.phase
      /\ nOps' = k
    BY <1>2, <1>3 DEF Invalidates
<1> QED
    BY <1>2, <1>3, <1>4, <1>5, <1>6

\* Every step keeps the matter of the appeals.
LEMMA AppealsLastStep ==
    ASSUME FormedInv, [Next]_vars
    PROVE  AppealsLast
<1>1. TypeOK /\ LegalRows /\ UncreatedIsNotDue /\ AppealsAreSourced /\ FormInv
    BY DEF FormedInv, FormInv, LegalInv
<1>2. StepKinds
    BY <1>1, StepsAreKinds
<1>3. CASE UNCHANGED <<appeals, nAppeals>>
    BY <1>3 DEF AppealsLast, SameAppeal
<1>4. CASE Idles
    BY <1>4 DEF Idles, AppealsKept, AppealsLast
<1>5. CASE RestartOvertime
    BY <1>1, <1>5, RetiresAppealShape DEF RetiresAppeal, AppealsLast
<1>6. ASSUME NEW result, CompleteRegulationAppeal(result) \/ CompleteOvertimeAppeal(result)
      PROVE  AppealsLast
    <2>1. Adds(nAppeals + 1)
        BY <1>1, <1>6, AddsRegulationShape, AddsOvertimeShape DEF AddsRegulation, AddsOvertime
    <2> QED
        BY <2>1 DEF Adds, AppealsLast
<1>7. ASSUME NEW colour \in Colours, ManualWinner(colour) PROVE AppealsLast
    BY <1>1, <1>7, DecidesShape DEF Decides, AppealsLast
<1>8. ASSUME NEW i \in Instances, NEW mode \in ExitModes, ExitMatch(i, mode) PROVE AppealsLast
    BY <1>3, <1>8, OthersLeaveAppeals
<1>9. ASSUME NEW i \in Instances, NEW entireMatch \in BOOLEAN, CancelResults(i, entireMatch) PROVE AppealsLast
    BY <1>1, <1>9, WithdrawsShape, AuditsDiffer DEF Withdraws, AppealsLast
<1>10. ASSUME NEW i \in Instances, NEW j \in OpIds, Undo(i, j) PROVE AppealsLast
    BY <1>1, <1>10, RecallsShape, AuditsDiffer DEF Recalls, AppealsLast
<1> QED
    BY <1>2, <1>3, <1>4, <1>5, <1>6, <1>7, <1>8, <1>9, <1>10 DEF StepKinds

\* What a step does to the appeals that stand.
LEMMA StandingStep ==
    ASSUME FormedInv, [Next]_vars, ~disordered'
    PROVE  \/ nAppeals' = nAppeals /\ Standing' \subseteq Standing
           \/ \E n : Adds(n) /\ Standing' \subseteq Standing \cup {n}
           \/ \E k \in OpIds : Applied(k) /\ Standing' = Recallable(k)
<1>1. TypeOK /\ LegalRows /\ UncreatedIsNotDue /\ AppealsAreSourced /\ FormInv /\ nAppeals \in Nat
    BY DEF FormedInv, FormInv, LegalInv, TypeOK
<1>2. StepKinds
    BY <1>1, StepsAreKinds
<1>3. CASE UNCHANGED <<appeals, nAppeals>>
    BY <1>3 DEF Standing
<1>4. CASE Idles
    BY <1>4, AuditsDiffer DEF Idles, AppealsKept, Standing
<1>5. CASE RestartOvertime
    BY <1>1, <1>5, RetiresAppealShape, AuditsDiffer DEF RetiresAppeal, Standing
<1>6. ASSUME NEW result, CompleteRegulationAppeal(result) \/ CompleteOvertimeAppeal(result)
      PROVE  \E n : Adds(n) /\ Standing' \subseteq Standing \cup {n}
    <2>1. Adds(nAppeals + 1)
        BY <1>1, <1>6, AddsRegulationShape, AddsOvertimeShape DEF AddsRegulation, AddsOvertime
    <2>2. \A a \in 1 .. nAppeals' : a \in 1 .. nAppeals \/ a = nAppeals + 1
        BY <1>1, <2>1 DEF Adds
    <2>3. Standing' \subseteq Standing \cup {nAppeals + 1}
        BY <2>1, <2>2, AuditsDiffer DEF Adds, Standing
    <2> QED
        BY <2>1, <2>3
<1>7. ASSUME NEW colour \in Colours, ManualWinner(colour)
      PROVE  nAppeals' = nAppeals /\ Standing' \subseteq Standing
    BY <1>1, <1>7, DecidesShape DEF Decides, Standing
<1>8. ASSUME NEW i \in Instances, NEW mode \in ExitModes, ExitMatch(i, mode)
      PROVE  nAppeals' = nAppeals /\ Standing' \subseteq Standing
    BY <1>3, <1>8, OthersLeaveAppeals DEF Standing
<1>9. ASSUME NEW i \in Instances, NEW entireMatch \in BOOLEAN, CancelResults(i, entireMatch)
      PROVE  nAppeals' = nAppeals /\ Standing' \subseteq Standing
    BY <1>1, <1>9, WithdrawsShape DEF Withdraws, Standing
<1>10. ASSUME NEW i \in Instances, NEW j \in OpIds, Undo(i, j)
       PROVE  Applied(j) /\ Standing' = Recallable(j)
    <2>1. Restores(j) /\ Recalls(j)
        BY <1>1, <1>10, UndoShape, RecallsShape
    <2> QED
        BY <2>1, UndoRecalls DEF Restores, UndoAllowed, Applied
<1> QED
    BY <1>2, <1>3, <1>4, <1>5, <1>6, <1>7, <1>8, <1>9, <1>10 DEF StepKinds

\* No two appeals of A, as as has them, are of the same attempt.
Unique(as, A) ==
    \A a, b \in A : as[a].scope = as[b].scope /\ as[a].attempt = as[b].attempt => a = b

UniqueInv ==
    ~disordered => /\ Unique(appeals, Standing)
                   /\ \A k \in OpIds : Applied(k) => Unique(appeals, Recallable(k))

\* Appeals that are kept stay unique.
LEMMA UniqueKept ==
    ASSUME AppealsLast, NEW A, NEW B, Unique(appeals, A), B \subseteq A, A \subseteq 1 .. nAppeals
    PROVE  Unique(appeals', B)
<1>1. \A a \in B : appeals'[a].scope = appeals[a].scope /\ appeals'[a].attempt = appeals[a].attempt
    BY DEF AppealsLast, SameAppeal
<1> QED
    BY <1>1 DEF Unique

\* Every step keeps the appeals that stand, or can be recalled, unique.
LEMMA UniqueStep == FormedInv /\ UniqueInv /\ [Next]_vars => UniqueInv'
<1> SUFFICES ASSUME FormedInv, UniqueInv, [Next]_vars, ~disordered'
             PROVE  /\ Unique(appeals', Standing')
                    /\ \A k \in OpIds : Applied(k)' => Unique(appeals', Recallable(k)')
    BY DEF UniqueInv
<1>1. FormInv
    BY DEF FormedInv
<1>2. ~disordered /\ AppealsLast
    BY <1>1, OrderedBefore, AppealsLastStep
<1>3. Unique(appeals, Standing) /\ Standing \subseteq 1 .. nAppeals
    BY <1>2 DEF UniqueInv, Standing
<1>4. \A k \in OpIds : Recallable(k) \subseteq 1 .. nAppeals /\ (Applied(k) => Unique(appeals, Recallable(k)))
    BY <1>2 DEF UniqueInv, Recallable
<1>5. Unique(appeals', Standing')
    <2>1. CASE Standing' \subseteq Standing
        BY <1>2, <1>3, <2>1, UniqueKept
    <2>2. ASSUME NEW n, Adds(n), Standing' \subseteq Standing \cup {n} PROVE Unique(appeals', Standing')
        <3>1. Unique(appeals', Standing)
            BY <1>2, <1>3, UniqueKept
        <3>2. \A a \in Standing : a \in Standing' =>
                ~(appeals'[a].scope = appeals'[n].scope /\ appeals'[a].attempt = appeals'[n].attempt)
            BY <2>2 DEF Adds, Standing, SameAppeal
        <3> QED
            BY <2>2, <3>1, <3>2 DEF Unique
    <2>3. ASSUME NEW k \in OpIds, Applied(k), Standing' = Recallable(k) PROVE Unique(appeals', Standing')
        BY <1>2, <1>4, <2>3, UniqueKept
    <2> QED
        BY <2>1, <2>2, <2>3, StandingStep
<1>6. ASSUME NEW k \in OpIds, Applied(k)' PROVE Unique(appeals', Recallable(k)')
    <2>1. CASE Applied(k)
        BY <1>2, <1>4, <1>6, <2>1, SavedAppeals, UniqueKept
    <2>2. CASE ~Applied(k)
        BY <1>2, <1>3, <1>6, <2>2, NewlySaved, UniqueKept
    <2> QED
        BY <2>1, <2>2
<1> QED
    BY <1>5, <1>6

-----------------------------------------------------------------------------
(* Restarts of overtime: no undo in order misses what they retired.         *)

\* In the overtime phases the overtime appeals of A, as as has them, are over
\* rounds of E.
Sourced(as, phase, E, A) ==
    phase \in OvertimePhases => \A a \in A : as[a].scope = "OVERTIME" => as[a].source \in E

StaleInv ==
    ~disordered =>
        /\ Sourced(appeals, match.phase, Effective, Standing)
        /\ \A k \in OpIds : Applied(k) /\ Lost(k) = {} =>
               Sourced(appeals, ops[k].previous.phase, Restorable(k), Recallable(k))

\* The phases in which the newest overtime round is being played or was tied.
Playing == {"OVERTIME_RUNNING", "OVERTIME_PAUSED", "OVERTIME_APPEAL", "OVERTIME_TIEBREAK_DECISION"}
Weight(phase) == IF phase \in Playing THEN 1 ELSE 0

\* The overtime rounds of E, as rs has them, started since operation k.
Fresh(rs, E, k) == {r \in E : rs[r].stage = "OVERTIME" /\ rs[r].stamp >= k}

\* Between two phases no more rounds are lost than were started.
Balanced(lost, fresh, from, to) ==
    Cardinality(lost) + Weight(to) <= Cardinality(fresh) + Weight(from)

Newest(k) == \A l \in OpIds : Applied(l) => l <= k
Adjacent(k, j) == k < j /\ \A l \in OpIds : Applied(l) => l <= k \/ j <= l

\* A restart of overtime retires a round that started since the newest
\* operation, or leaves a phase that the undo of that operation needs.
CountInv ==
    ~disordered => \A k \in OpIds : Applied(k) =>
        /\ Newest(k) =>
               Balanced(Lost(k), Fresh(rounds, Effective, k), ops[k].resulting.phase, match.phase)
        /\ \A j \in OpIds : Applied(j) /\ Adjacent(k, j) /\ Lost(j) = {} =>
               Balanced(Lost(k), Fresh(rounds, Restorable(j), k), ops[k].resulting.phase,
                        ops[j].previous.phase)

\* What undos in order rely on.
OrderInv == FormedInv /\ LossInv /\ UniqueInv /\ StaleInv /\ CountInv

\* The sizes of sets of rounds.
LEMMA RoundSets ==
    ASSUME NEW A, A \subseteq RoundIds
    PROVE  /\ IsFiniteSet(A) /\ Cardinality(A) \in Nat
           /\ Cardinality(A) = 0 <=> A = {}
           /\ \A x \in A : Cardinality(A \ {x}) = Cardinality(A) - 1
           /\ \A x : x \notin A => Cardinality(A \cup {x}) = Cardinality(A) + 1
<1>1. IsFiniteSet(RoundIds)
    BY FS_Interval DEF RoundIds
<1>2. IsFiniteSet(A)
    BY <1>1, FS_Subset
<1> QED
    BY <1>2, FS_CardinalityType, FS_EmptySet, FS_RemoveElement, FS_AddElement

\* The round that a restart of overtime retires is effective.
LEMMA RetiredIsEffective ==
    ASSUME FormedInv, StaleInv, ~disordered, RestartOvertime
    PROVE  /\ appeals[TiedAppeal].source \in Effective
           /\ TiedAppeal \in Standing /\ appeals[TiedAppeal].scope = "OVERTIME"
<1>1. TiedAppeal \in OvertimeAppeals /\ match.phase = "OVERTIME_TIEBREAK_DECISION"
    BY TiedAppealIsOvertime DEF RestartOvertime, FormedInv, FormInv, LegalInv
<1>2. TiedAppeal \in Standing /\ appeals[TiedAppeal].scope = "OVERTIME"
    BY <1>1 DEF OvertimeAppeals, Standing
<1> QED
    BY <1>1, <1>2 DEF StaleInv, Sourced, OvertimePhases

\* Effective rounds older than operation k were effective before it.
LEMMA EffectiveBefore ==
    ASSUME FormedInv, LossInv, ~disordered, NEW k \in OpIds, Applied(k), NEW q \in Effective,
           q \notin ops[k].before
    PROVE  rounds[q].stamp >= k /\ q \notin Restorable(k) /\ q \in Created
<1>1. q \in Created /\ rounds[q].by = 0 /\ k \in Nat /\ TypeOK
    BY AppliedNumbers DEF Effective, FormedInv, FormInv, LegalInv, Applied
<1>2. q \notin Restorable(k)
    BY DEF LossInv, Recoups
<1>3. ~(rounds[q].stamp < k)
    BY <1>1, <1>2 DEF Restorable
<1> QED
    BY <1>1, <1>2, <1>3, RoundNumbers

\* The view of an operation that has lost nothing is not touched.
LEMMA SavedViews ==
    ASSUME FormedInv, LossInv, StaleInv, [Next]_vars, ~disordered', NEW k \in OpIds,
           Applied(k), Applied(k)', Lost(k)' = {}
    PROVE  /\ Lost(k) = {} /\ ops'[k] = ops[k] /\ Restorable(k)' = Restorable(k)
           /\ AppealsStay(k)
<1>1. TypeOK /\ LegalRows /\ UncreatedIsNotDue /\ AppealsAreSourced /\ FormInv
    BY DEF FormedInv, FormInv, LegalInv
<1>2. ~disordered /\ ops'[k] = ops[k]
    BY <1>1, OrderedBefore, SavedRounds
<1>3. \A r \in ops[k].before : r \in Created
    BY <1>2 DEF LossInv, Recoups
<1>4. /\ Recallable(k)' \subseteq Recallable(k)
      /\ \A a \in Recallable(k) : a \notin Recallable(k)' => appeals'[a].by = OtherAudit
      /\ ~RestartOvertime => DecidedAt(k)' = DecidedAt(k)
    BY SavedAppeals
<1>5. CASE ~RestartOvertime
    <2>1. Restorable(k)' = Restorable(k) /\ NoneRetired
        BY <1>1, <1>5, SavedRounds
    <2>2. Lost(k) = {}
        BY <1>2, <1>3, <2>1 DEF Lost, NoneRetired
    <2> QED
        BY <1>2, <1>4, <1>5, <2>1, <2>2 DEF AppealsStay
<1>6. CASE RestartOvertime
    <2> DEFINE t == TiedAppeal
               q == appeals[t].source
    <2>1. Retires(q) /\ RetiresAppeal(t) /\ q \in Effective /\ t \in Standing
        BY <1>1, <1>2, <1>6, RestartShape, RetiresAppealShape, RetiredIsEffective
    <2> HIDE DEF t
    <2>2. /\ Restorable(k)' = Restorable(k) \ {q} /\ q \in Created
          /\ \A r \in Created : rounds'[r].by = OtherAudit <=> rounds[r].by = OtherAudit \/ r = q
        BY <1>1, <2>1, SavedRetires DEF Retires
    <2>3. q \notin ops[k].before /\ Lost(k) = {}
        BY <1>2, <1>3, <2>2 DEF Lost
    <2>4. rounds[q].stamp >= k /\ q \notin Restorable(k)
        BY <1>2, <2>1, <2>3, EffectiveBefore
    <2>5. t \in 1 .. nAppeals /\ AppealMatter(t) /\ AppealFate(t)
        BY <2>1 DEF Standing, FormedInv, AppealsAreFormed
    <2>6. /\ appeals[t].winnerStamp \in Nat /\ appeals[t].stamp \in Nat /\ k \in Nat
          /\ rounds[q].stamp \in Nat
        BY <1>1, <2>2, <2>5, AppealColumns, RoundNumbers DEF OpIds
    <2>7. appeals[t].winner # "NONE" => appeals[t].winnerStamp >= k
        BY <2>4, <2>5, <2>6 DEF AppealMatter, AppealFate
    <2>8. /\ nAppeals' = nAppeals /\ nAppeals # nAppeals + 1
          /\ \A a \in 1 .. nAppeals :
               \/ /\ appeals'[a].winner = appeals[a].winner
                  /\ appeals'[a].winnerStamp = appeals[a].winnerStamp
                  /\ Follows(k, appeals[a].winnerBy, appeals'[a].winnerBy)
               \/ appeals[a].winnerStamp >= k /\ appeals'[a].winnerStamp = appeals[a].winnerStamp
        <3>1. nAppeals' = nAppeals /\ nAppeals # nAppeals + 1
            BY <1>1, <2>1 DEF RetiresAppeal, TypeOK
        <3>2. ASSUME NEW a \in 1 .. nAppeals, a # t
              PROVE  /\ appeals'[a].winner = appeals[a].winner
                     /\ appeals'[a].winnerStamp = appeals[a].winnerStamp
                     /\ Follows(k, appeals[a].winnerBy, appeals'[a].winnerBy)
            BY <2>1, <3>2 DEF RetiresAppeal, SameDecision, Follows
        <3>3. \/ /\ appeals'[t].winner = appeals[t].winner
                 /\ appeals'[t].winnerStamp = appeals[t].winnerStamp
                 /\ Follows(k, appeals[t].winnerBy, appeals'[t].winnerBy)
              \/ appeals[t].winnerStamp >= k /\ appeals'[t].winnerStamp = appeals[t].winnerStamp
            BY <2>1, <2>7 DEF RetiresAppeal, Follows
        <3> QED
            BY <3>1, <3>2, <3>3
    <2>9. DecidedAt(k)' = DecidedAt(k)
        BY <2>8, DecidedFollows
    <2> QED
        BY <1>2, <1>4, <2>2, <2>3, <2>4, <2>9 DEF AppealsStay
<1> QED
    BY <1>5, <1>6

\* An undo in order leaves nothing lost behind.
LEMMA UndoLosesNothing ==
    ASSUME FormedInv, LossInv, CountInv, NEW k \in OpIds, Restores(k), ~disordered'
    PROVE  Lost(k) = {} /\ ~disordered /\ Applied(k) /\ Newest(k)
<1>0. disordered \in BOOLEAN /\ UndoAllowed(k) /\ (disordered => disordered')
    BY DEF FormedInv, FormInv, LegalInv, TypeOK, Restores
<1>1. FormInv /\ TypeOK /\ k \in Nat /\ Applied(k) /\ ~disordered /\ UndoAllowed(k)
    BY <1>0 DEF FormedInv, FormInv, LegalInv, OpIds, UndoAllowed, Applied
<1>2. Newest(k)
    BY <1>1, NewestIsUndone DEF Newest
<1>3. Balanced(Lost(k), Fresh(rounds, Effective, k), match.phase, match.phase)
    BY <1>1, <1>2 DEF CountInv, UndoAllowed
<1>4. Fresh(rounds, Effective, k) = {}
    <2>1. \A r \in Effective : rounds[r].stamp < k /\ rounds[r].stamp \in Nat
        BY <1>1, RoundNumbers DEF UndoAllowed, NoActivitySince, Effective
    <2> QED
        BY <1>1, <2>1 DEF Fresh
<1>5. Lost(k) \subseteq RoundIds
    BY <1>1, CreatedAreRounds DEF LossInv, Recoups, Lost
<1>6. Cardinality(Lost(k)) \in Nat /\ (Cardinality(Lost(k)) = 0 <=> Lost(k) = {})
    BY <1>5, RoundSets
<1>7. Cardinality({}) = 0 /\ Weight(match.phase) \in Nat
    BY FS_EmptySet DEF Weight
<1> QED
    BY <1>1, <1>2, <1>3, <1>4, <1>6, <1>7 DEF Balanced

\* The effective rounds after the steps that invalidate nothing.
LEMMA EffectiveGrows ==
    ASSUME FormInv
    PROVE  /\ RoundsRest => Effective' = Effective /\ Created' = Created
           /\ \A q \in RoundIds : Ends(q) => Effective' = Effective /\ Created' = Created
           /\ \A n, stage, number : Starts(n, stage, number) =>
                  Effective' = Effective \cup {n} /\ n \notin Created /\ n \in Nat
<1>1. TypeOK /\ \A r \in Created : r \in RoundIds
    BY CreatedAreRounds DEF FormInv, LegalInv
<1>2. RoundsRest => Effective' = Effective /\ Created' = Created
    BY <1>1 DEF RoundsRest, SameRound, Created, Effective
<1>3. ASSUME NEW q \in RoundIds, Ends(q) PROVE Effective' = Effective /\ Created' = Created
    BY <1>1, <1>3 DEF Ends, SameRound, Created, Effective
<1>4. ASSUME NEW n, NEW stage, NEW number, Starts(n, stage, number)
      PROVE  Effective' = Effective \cup {n} /\ n \notin Created /\ n \in Nat
    <2>1. n \in Nat /\ n \notin Created /\ Created' = Created \cup {n} /\ rounds'[n].by = 0
        <3>1. n = nRounds + 1 /\ nRounds \in Nat /\ nRounds' = n /\ rounds'[n].by = 0
            BY <1>1, <1>4 DEF Starts, TypeOK
        <3> QED
            BY <3>1 DEF Created
    <2>2. \A r \in Created : rounds'[r].by = rounds[r].by
        BY <1>1, <1>4, <2>1 DEF Starts, SameRound
    <2> QED
        BY <2>1, <2>2 DEF Effective
<1> QED
    BY <1>2, <1>3, <1>4

\* Appeals that are kept stay over effective rounds while those stay.
LEMMA SourcedKept ==
    ASSUME AppealsLast, NEW phase, NEW next, NEW A, NEW B, NEW E, NEW F, Sourced(appeals, phase, E, A),
           B \subseteq A, A \subseteq 1 .. nAppeals, E \subseteq F,
           next \in OvertimePhases => phase \in OvertimePhases
    PROVE  Sourced(appeals', next, F, B)
<1>1. \A a \in B : appeals'[a].scope = appeals[a].scope /\ appeals'[a].source = appeals[a].source
    BY DEF AppealsLast, SameAppeal
<1> QED
    BY <1>1 DEF Sourced

\* The steps that move between overtime phases without writing a round.
LEMMA OvertimeIsEntered ==
    /\ \A from, to : IdlePhases(from, to) /\ to \in OvertimePhases => from \in OvertimePhases
    /\ \A n, stage, number : Starts(n, stage, number) /\ match'.phase \in OvertimePhases =>
           match.phase \in OvertimePhases
    /\ \A r \in RoundIds : Ends(r) /\ match'.phase \in OvertimePhases => match.phase \in OvertimePhases
<1>1. ASSUME NEW from, NEW to, IdlePhases(from, to), to \in OvertimePhases PROVE from \in OvertimePhases
    BY <1>1 DEF IdlePhases, OvertimePhases, RunningPhases, PausedPhases, PausedStatus, ResumedStatus
<1>2. ASSUME NEW n, NEW stage, NEW number, Starts(n, stage, number), match'.phase \in OvertimePhases
      PROVE  match.phase \in OvertimePhases
    BY <1>2 DEF Starts, OvertimePhases
<1>3. ASSUME NEW r \in RoundIds, Ends(r), match'.phase \in OvertimePhases
      PROVE  match.phase \in OvertimePhases
    <2>1. match'.phase = PhaseAfter(r) /\ match.phase = RunningStatus(rounds[r].number, rounds[r].stage)
        BY <1>3 DEF Ends, Expirable
    <2>2. rounds[r].stage = "OVERTIME"
        BY <1>3, <2>1 DEF PhaseAfter, OvertimePhases
    <2> QED
        BY <2>1, <2>2 DEF RunningStatus, OvertimePhases
<1> QED
    BY <1>1, <1>2, <1>3

\* A cancellation withdraws the appeals over the overtime rounds it invalidates.
LEMMA CancelLeavesSourced ==
    ASSUME FormedInv, StaleInv, ~disordered, NEW i \in Instances, NEW entireMatch \in BOOLEAN,
           CancelResults(i, entireMatch)
    PROVE  Sourced(appeals', match'.phase, Effective', Standing')
<1> DEFINE S == SelectedRounds(entireMatch)
<1>1. TypeOK /\ FormInv
    BY DEF FormedInv, FormInv, LegalInv
<1>2. Invalidates(S) /\ S # {} /\ Effective' = Effective \ S
    BY <1>1, CancelShape, InvalidatedSets
<1>3. /\ Withdraws
      /\ \A a \in 1 .. nAppeals : appeals[a].by = 0 /\ appeals[a].rounds \cap S # {} => appeals'[a].by = nOps + 1
    BY <1>1, WithdrawsShape
<1> SUFFICES ASSUME match'.phase \in OvertimePhases, NEW a \in Standing', appeals'[a].scope = "OVERTIME"
             PROVE  appeals'[a].source \in Effective'
    BY DEF Sourced
<1>4. ~entireMatch /\ \E r \in S : rounds[r].stage = "OVERTIME"
    BY <1>1, CancelShape DEF OvertimePhases
<1>5. match.phase \in OvertimePhases
    BY <1>2, <1>4, SelectedByPhase DEF EffectiveOf
<1>6. a \in Standing /\ a \in 1 .. nAppeals /\ appeals[a].scope = "OVERTIME" /\ appeals'[a].source = appeals[a].source
    BY <1>3 DEF Standing, Withdraws, SameAppeal
<1>7. appeals[a].source \in Effective /\ appeals[a].rounds = {appeals[a].source}
    BY <1>5, <1>6 DEF StaleInv, Sourced, FormedInv, AppealsAreFormed, AppealMatter
<1>8. appeals[a].source \notin S
    <2>1. appeals'[a].by = 0 /\ nOps + 1 # 0 /\ appeals[a].by = 0
        BY <1>1, <1>6 DEF Standing, TypeOK
    <2> QED
        BY <1>3, <1>6, <1>7, <2>1
<1> QED
    BY <1>2, <1>6, <1>7, <1>8

\* match:exit
LEMMA ExitLeavesSourced ==
    ASSUME FormedInv, StaleInv, ~disordered, NEW i \in Instances, NEW mode \in ExitModes, ExitMatch(i, mode)
    PROVE  Sourced(appeals', match'.phase, Effective', Standing')
<1>1. TypeOK /\ FormInv
    BY DEF FormedInv, FormInv, LegalInv
<1>2. /\ Effective' = Effective \ ExitRounds(mode) /\ appeals' = appeals /\ nAppeals' = nAppeals
      /\ match'.phase = RowAfterExit(mode).phase
    BY <1>1, ExitShape, InvalidatedSets, ExitWithdraws
<1>3. CASE mode = "SUSPEND_KEEP_V2_PHASE"
    <2>1. match'.phase = match.phase /\ ExitRounds(mode) = {}
        BY <1>2, <1>3 DEF RowAfterExit, Row, ExitRounds, InvalidatedNumbers
    <2>2. Standing' = Standing /\ Effective' = Effective
        BY <1>2, <2>1 DEF Standing
    <2> QED
        BY <1>2, <2>1, <2>2 DEF StaleInv
<1>4. CASE mode # "SUSPEND_KEEP_V2_PHASE"
    <2>1. match'.phase \in {"WAITING", "BREAK", "AWAITING_RESULT_SAVE"}
        BY <1>2, <1>4 DEF RowAfterExit, ExitModes, Row, NoRow
    <2> QED
        BY <2>1 DEF Sourced, OvertimePhases
<1> QED
    BY <1>3, <1>4

\* overtime:restart
LEMMA RestartLeavesSourced ==
    ASSUME FormedInv, UniqueInv, StaleInv, ~disordered, RestartOvertime
    PROVE  Sourced(appeals', match'.phase, Effective', Standing')
<1> DEFINE t == TiedAppeal
           q == appeals[t].source
<1>1. TypeOK /\ FormInv /\ AppealsAreSourced
    BY DEF FormedInv, FormInv, LegalInv
<1>2. Retires(q) /\ RetiresAppeal(t) /\ t \in Standing /\ appeals[t].scope = "OVERTIME"
    BY <1>1, RestartShape, RetiresAppealShape, RetiredIsEffective
<1>3. Effective' = Effective \ {q} /\ match.phase \in OvertimePhases
    BY <1>1, <1>2, SavedRetires DEF Retires, OvertimePhases
<1> HIDE DEF t
<1> SUFFICES ASSUME NEW a \in Standing', appeals'[a].scope = "OVERTIME"
             PROVE  appeals'[a].source \in Effective'
    BY DEF Sourced
<1>4. a \in 1 .. nAppeals /\ a # t
    BY <1>2, AuditsDiffer DEF RetiresAppeal, Standing
<1>5. /\ a \in Standing /\ appeals[a].scope = "OVERTIME" /\ appeals'[a].source = appeals[a].source
    BY <1>2, <1>4 DEF RetiresAppeal, Standing, SameAppeal
<1>6. appeals[a].source \in Effective
    BY <1>3, <1>5 DEF StaleInv, Sourced
<1>7. /\ appeals[a].attempt = rounds[appeals[a].source].attempt
      /\ appeals[t].attempt = rounds[q].attempt
    BY <1>2, <1>5 DEF Standing, FormedInv, AppealsAreFormed, AppealMatter
<1>8. appeals[a].source # q
    BY <1>2, <1>4, <1>5, <1>7 DEF UniqueInv, Unique
<1> QED
    BY <1>3, <1>5, <1>6, <1>8

\* The appeal commands.
LEMMA AppealLeavesSourced ==
    ASSUME FormedInv, StaleInv, ~disordered, NEW n, AddsRegulation(n) \/ AddsOvertime(n), RoundsRest
    PROVE  Sourced(appeals', match'.phase, Effective', Standing')
<1>1. Adds(n) /\ nAppeals \in Nat /\ FormInv
    BY DEF AddsRegulation, AddsOvertime, FormedInv, FormInv, LegalInv, TypeOK
<1>2. Effective' = Effective
    BY <1>1, EffectiveGrows
<1> SUFFICES ASSUME NEW a \in Standing', appeals'[a].scope = "OVERTIME"
             PROVE  appeals'[a].source \in Effective
    BY <1>2 DEF Sourced
<1>3. CASE a = n
    BY <1>1, <1>3 DEF Adds, Ended
<1>4. CASE a # n
    <2>1. a \in 1 .. nAppeals
        BY <1>1, <1>4 DEF Adds, Standing
    <2>2. /\ a \in Standing /\ appeals[a].scope = "OVERTIME" /\ appeals'[a].source = appeals[a].source
          /\ appeals'[a].by = 0
        BY <1>1, <2>1, AuditsDiffer DEF Adds, Standing, SameAppeal
    <2>3. CASE AddsRegulation(n)
        <3>1. rounds[appeals[a].source].by = 0 /\ appeals[a].source \in Created
            BY <2>1, <2>2, <2>3 DEF AddsRegulation, FormedInv, FormInv, AppealsAreSourced
        <3> QED
            BY <2>2, <3>1 DEF Effective
    <2>4. CASE AddsOvertime(n)
        BY <2>2, <2>4 DEF AddsOvertime, StaleInv, Sourced, OvertimePhases
    <2> QED
        BY <2>3, <2>4
<1> QED
    BY <1>3, <1>4

\* Every step keeps the overtime appeals over effective rounds.
LEMMA StaleStep == OrderInv /\ [Next]_vars => StaleInv'
<1> SUFFICES ASSUME OrderInv, [Next]_vars, ~disordered'
             PROVE  /\ Sourced(appeals', match'.phase, Effective', Standing')
                    /\ \A k \in OpIds : Applied(k)' /\ Lost(k)' = {} =>
                           Sourced(appeals', ops'[k].previous.phase, Restorable(k)', Recallable(k)')
    BY DEF StaleInv
<1>1. FormedInv /\ LossInv /\ UniqueInv /\ StaleInv /\ CountInv /\ FormInv
    BY DEF OrderInv, FormedInv
<1>2. ~disordered /\ AppealsLast /\ TypeOK /\ StepKinds /\ LegalRows /\ UncreatedIsNotDue /\ AppealsAreSourced
    BY <1>1, OrderedBefore, AppealsLastStep, StepsAreKinds DEF FormInv, LegalInv
<1>3. Sourced(appeals, match.phase, Effective, Standing) /\ Standing \subseteq 1 .. nAppeals
    BY <1>1, <1>2 DEF StaleInv, Standing
<1>4. ASSUME NEW k \in OpIds
      PROVE  /\ Recallable(k) \subseteq 1 .. nAppeals
             /\ Applied(k) /\ Lost(k) = {} =>
                    Sourced(appeals, ops[k].previous.phase, Restorable(k), Recallable(k))
    BY <1>1, <1>2 DEF StaleInv, Recallable
<1>5. ASSUME NEW k \in OpIds, Applied(k)', Lost(k)' = {}
      PROVE  Sourced(appeals', ops'[k].previous.phase, Restorable(k)', Recallable(k)')
    <2>1. CASE Applied(k)
        <3>1. /\ Lost(k) = {} /\ ops'[k] = ops[k] /\ Restorable(k)' = Restorable(k)
              /\ Recallable(k)' \subseteq Recallable(k)
            BY <1>1, <1>5, <2>1, SavedViews DEF AppealsStay
        <3> QED
            BY <1>2, <1>4, <2>1, <3>1, SourcedKept
    <2>2. CASE ~Applied(k)
        <3>1. ops'[k].previous.phase = match.phase /\ Restorable(k)' = Effective /\ Recallable(k)' = Standing
            BY <1>1, <1>5, <2>2, NewlySaved
        <3> QED
            BY <1>2, <1>3, <3>1, SourcedKept
    <2> QED
        BY <2>1, <2>2
<1> DEFINE Goal == Sourced(appeals', match'.phase, Effective', Standing')
<1>6. ASSUME Standing' \subseteq Standing, Effective \subseteq Effective',
             match'.phase \in OvertimePhases => match.phase \in OvertimePhases
      PROVE  Goal
    BY <1>2, <1>3, <1>6, SourcedKept
<1>7. ASSUME Idles PROVE Goal
    <2>1. RoundsRest /\ AppealsKept /\ IdlePhases(match.phase, match'.phase)
        BY <1>7 DEF Idles
    <2>2. Standing' \subseteq Standing
        BY <2>1, AuditsDiffer DEF AppealsKept, Standing
    <2>3. Effective' = Effective
        BY <1>1, <2>1, EffectiveGrows
    <2>4. match'.phase \in OvertimePhases => match.phase \in OvertimePhases
        BY <2>1, OvertimeIsEntered
    <2> QED
        BY <1>6, <2>2, <2>3, <2>4
<1>8. ASSUME NEW r \in RoundIds, Ends(r), UNCHANGED <<appeals, nAppeals>> PROVE Goal
    <2>1. Standing' = Standing
        BY <1>8 DEF Standing
    <2> QED
        BY <1>1, <1>6, <1>8, <2>1, EffectiveGrows, OvertimeIsEntered
<1>9. ASSUME NEW stage, NEW number, Starts(nRounds + 1, stage, number), UNCHANGED <<appeals, nAppeals>>
      PROVE  Goal
    <2>1. Standing' = Standing
        BY <1>9 DEF Standing
    <2>2. Effective \subseteq Effective'
        BY <1>1, <1>9, EffectiveGrows
    <2>3. match'.phase \in OvertimePhases => match.phase \in OvertimePhases
        BY <1>9, OvertimeIsEntered
    <2> QED
        BY <1>6, <2>1, <2>2, <2>3
<1>10. ASSUME NEW result \in Colours \cup {"TIE"}, CompleteRegulationAppeal(result) \/ CompleteOvertimeAppeal(result)
       PROVE  Goal
    <2>1. AddsRegulation(nAppeals + 1) \/ AddsOvertime(nAppeals + 1)
        BY <1>2, <1>10, AddsRegulationShape, AddsOvertimeShape
    <2>2. RoundsRest
        BY <1>2, <1>10, DecisionShape
    <2> QED
        BY <1>1, <1>2, <2>1, <2>2, AppealLeavesSourced
<1>11. ASSUME NEW colour \in Colours, ManualWinner(colour) PROVE Goal
    <2>1. RoundsRest /\ Decides(TiedAppeal)
        BY <1>2, <1>11, DecisionShape, DecidesShape
    <2>2. Standing' = Standing /\ match.phase \in OvertimePhases
        BY <2>1 DEF Decides, Standing, OvertimePhases
    <2> QED
        BY <1>1, <1>6, <2>1, <2>2, EffectiveGrows
<1>12. ASSUME NEW i \in Instances, NEW j \in OpIds, Undo(i, j) PROVE Goal
    <2>1. Restores(j) /\ Recalls(j)
        BY <1>2, <1>12, UndoShape, RecallsShape
    <2>2. /\ Standing' = Recallable(j) /\ Effective' = Restorable(j) /\ Lost(j) = {} /\ Applied(j)
          /\ match'.phase = ops[j].previous.phase
        BY <1>1, <2>1, UndoRecalls, UndoRestores, UndoLosesNothing DEF Restores
    <2> QED
        BY <1>2, <1>4, <2>2, SourcedKept
<1>13. ASSUME RestartOvertime PROVE Goal
    BY <1>1, <1>2, <1>13, RestartLeavesSourced
<1>14. ASSUME NEW i \in Instances, NEW mode \in ExitModes, ExitMatch(i, mode) PROVE Goal
    BY <1>1, <1>2, <1>14, ExitLeavesSourced
<1>15. ASSUME NEW i \in Instances, NEW entireMatch \in BOOLEAN, CancelResults(i, entireMatch) PROVE Goal
    BY <1>1, <1>2, <1>15, CancelLeavesSourced
<1>16. Goal
    BY <1>2, <1>7, <1>8, <1>9, <1>10, <1>11, <1>12, <1>13, <1>14, <1>15 DEF StepKinds
<1> QED
    BY <1>5, <1>16

\* A step that does not retire a round effective before operation k loses none.
LEMMA LostKept ==
    ASSUME FormedInv, LossInv, [Next]_vars, ~disordered', NEW k \in OpIds, Applied(k), Applied(k)',
           RestartOvertime => appeals[TiedAppeal].source \notin ops[k].before
    PROVE  Lost(k)' = Lost(k) /\ ops'[k] = ops[k]
<1>1. FormInv /\ TypeOK /\ AppealsAreSourced /\ ~disordered
    BY OrderedBefore DEF FormedInv, FormInv, LegalInv
<1>2. ops'[k] = ops[k] /\ (~RestartOvertime => NoneRetired)
    BY <1>1, SavedRounds
<1>3. \A r \in ops[k].before : r \in Created
    BY <1>1 DEF LossInv, Recoups
<1>4. CASE ~RestartOvertime
    BY <1>2, <1>3, <1>4 DEF Lost, NoneRetired
<1>5. CASE RestartOvertime
    <2> DEFINE q == appeals[TiedAppeal].source
    <2>1. \A r \in Created : rounds'[r].by = OtherAudit <=> rounds[r].by = OtherAudit \/ r = q
        BY <1>1, <1>5, RestartShape, SavedRetires
    <2> HIDE DEF q
    <2>2. q \notin ops[k].before
        BY <1>5 DEF q
    <2> QED
        BY <1>2, <1>3, <2>1, <2>2 DEF Lost
<1> QED
    BY <1>4, <1>5

\* Rounds keep what makes them fresh.
LEMMA FreshKept ==
    ASSUME RoundsStay, NEW E, E \subseteq Created, NEW k
    PROVE  Fresh(rounds', E, k) = Fresh(rounds, E, k)
BY DEF RoundsStay, SameIdentity, Fresh

\* Weights and sizes are numbers.
LEMMA Counts ==
    ASSUME FormedInv, LossInv, ~disordered, NEW k \in OpIds, Applied(k)
    PROVE  /\ \A E : E \subseteq Created => Fresh(rounds, E, k) \subseteq RoundIds
           /\ Lost(k) \subseteq RoundIds /\ Effective \subseteq Created
           /\ \A j : Restorable(j) \subseteq Created
           /\ \A phase : Weight(phase) \in Nat
<1>1. TypeOK
    BY DEF FormedInv, FormInv, LegalInv
<1>2. \A r \in ops[k].before : r \in Created
    BY DEF LossInv, Recoups
<1>3. Created \subseteq RoundIds
    BY <1>1, CreatedAreRounds
<1>4. Lost(k) \subseteq RoundIds
    BY <1>2, <1>3 DEF Lost
<1>5. \A E : E \subseteq Created => Fresh(rounds, E, k) \subseteq RoundIds
    BY <1>3 DEF Fresh
<1>6. Effective \subseteq Created /\ \A j : Restorable(j) \subseteq Created
    BY DEF Effective, Restorable
<1>7. \A phase : Weight(phase) \in Nat
    BY DEF Weight
<1> QED
    BY <1>4, <1>5, <1>6, <1>7

\* What no longer weighs keeps the balance.
LEMMA BalancedLess ==
    ASSUME NEW lost, NEW fresh, NEW from, NEW to, NEW next, lost \subseteq RoundIds, fresh \subseteq RoundIds,
           Balanced(lost, fresh, from, to), next \in Playing => to \in Playing
    PROVE  Balanced(lost, fresh, from, next)
<1>1. Cardinality(lost) \in Nat /\ Cardinality(fresh) \in Nat
    BY RoundSets
<1>2. Weight(from) \in Nat /\ Weight(to) \in Nat /\ Weight(next) \in Nat /\ Weight(next) <= Weight(to)
    BY DEF Weight
<1> QED
    BY <1>1, <1>2 DEF Balanced

\* The balance of the newest operation through the steps that retire nothing.
LEMMA CountRests ==
    ASSUME OrderInv, [Next]_vars, ~disordered', NEW k \in OpIds, Applied(k), Applied(k)', Newest(k),
           \/ RoundsRest /\ PhaseDrifts
           \/ \E r \in RoundIds : Ends(r)
           \/ \E i \in Instances : StartRound(i)
    PROVE  Balanced(Lost(k)', Fresh(rounds', Effective', k), ops'[k].resulting.phase, match'.phase)
<1>1. FormedInv /\ LossInv /\ CountInv /\ FormInv
    BY DEF OrderInv, FormedInv
<1>2. ~disordered /\ TypeOK /\ LegalRows /\ UncreatedIsNotDue /\ AppealsAreSourced /\ RoundsStay
    BY <1>1, OrderedBefore, RoundsStayStep DEF FormInv, LegalInv
<1>3. Balanced(Lost(k), Fresh(rounds, Effective, k), ops[k].resulting.phase, match.phase)
    BY <1>1, <1>2 DEF CountInv
<1>4. ASSUME ~RestartOvertime PROVE Lost(k)' = Lost(k) /\ ops'[k] = ops[k]
    BY <1>1, <1>4, LostKept
<1>5. Lost(k) \subseteq RoundIds /\ Fresh(rounds, Effective, k) \subseteq RoundIds /\ Effective \subseteq Created
    BY <1>1, <1>2, Counts
<1>6. RestartOvertime => match'.phase = "OVERTIME_READY" /\ nRounds' = nRounds /\ match.phase = "OVERTIME_TIEBREAK_DECISION"
    BY <1>2, RestartShape DEF Retires
<1> DEFINE Goal == Balanced(Lost(k)', Fresh(rounds', Effective', k), ops'[k].resulting.phase, match'.phase)
<1>7. ASSUME Effective' = Effective, match'.phase \in Playing => match.phase \in Playing, ~RestartOvertime
      PROVE  Goal
    <2>1. Fresh(rounds', Effective', k) = Fresh(rounds, Effective, k)
        BY <1>2, <1>5, <1>7, FreshKept
    <2> QED
        BY <1>3, <1>4, <1>5, <1>7, <2>1, BalancedLess
<1>8. ASSUME RoundsRest, PhaseDrifts PROVE Goal
    <2>1. Drifts(match.phase, match'.phase) /\ Effective' = Effective
        BY <1>1, <1>8, EffectiveGrows DEF PhaseDrifts
    <2>2. match'.phase \in Playing => match.phase \in Playing
        BY <2>1 DEF Drifts, Playing, RunningPhases, PausedPhases, PausedStatus, ResumedStatus
    <2>3. ~RestartOvertime
        BY <1>6, <2>1 DEF Drifts, RunningPhases, PausedPhases
    <2> QED
        BY <1>7, <2>1, <2>2, <2>3
<1>9. ASSUME NEW r \in RoundIds, Ends(r) PROVE Goal
    <2>1. /\ match'.phase = PhaseAfter(r) /\ match.phase = RunningStatus(rounds[r].number, rounds[r].stage)
          /\ Effective' = Effective
        BY <1>1, <1>9, EffectiveGrows DEF Ends, Expirable
    <2>2. match'.phase \in Playing => match.phase \in Playing
        BY <2>1 DEF PhaseAfter, RunningStatus, Playing
    <2>3. ~RestartOvertime
        BY <1>6, <2>1 DEF RunningStatus
    <2> QED
        BY <1>7, <2>1, <2>2, <2>3
<1>10. ASSUME NEW i \in Instances, StartRound(i) PROVE Goal
    <2>1. PICK stage, number : Starts(nRounds + 1, stage, number)
        BY <1>2, <1>10, StartShape
    <2> DEFINE n == nRounds + 1
    <2>2. Starts(n, stage, number) /\ Effective' = Effective \cup {n} /\ n \notin Created
        BY <1>1, <2>1, EffectiveGrows
    <2>3. ~RestartOvertime
        BY <1>2, <1>6, <2>2 DEF Starts, TypeOK
    <2>4. rounds'[n].stage = stage /\ rounds'[n].stamp >= k
        BY <1>1, <2>2, AppliedNumbers DEF Starts, Applied
    <2>5. \A r \in Effective : rounds'[r].stage = rounds[r].stage /\ rounds'[r].stamp = rounds[r].stamp
        BY <1>2, <1>5 DEF RoundsStay, SameIdentity
    <2> HIDE DEF n
    <2>6. CASE stage = "OVERTIME"
        <3>1. Fresh(rounds', Effective', k) = Fresh(rounds, Effective, k) \cup {n}
            BY <2>2, <2>4, <2>5, <2>6 DEF Fresh
        <3>2. n \notin Fresh(rounds, Effective, k)
            BY <1>5, <2>2 DEF Fresh
        <3>3. /\ Cardinality(Fresh(rounds, Effective, k) \cup {n}) = Cardinality(Fresh(rounds, Effective, k)) + 1
              /\ Cardinality(Fresh(rounds, Effective, k)) \in Nat /\ Cardinality(Lost(k)) \in Nat
            BY <1>5, <3>2, RoundSets
        <3>4. Weight(match.phase) = 0 /\ Weight(match'.phase) = 1 /\ Weight(ops[k].resulting.phase) \in Nat
            BY <2>2, <2>6 DEF Starts, Weight, Playing
        <3>5. Lost(k)' = Lost(k) /\ ops'[k] = ops[k]
            BY <1>4, <2>3
        <3> QED
            BY <1>3, <3>1, <3>3, <3>4, <3>5 DEF Balanced
    <2>7. CASE stage # "OVERTIME"
        <3>1. Fresh(rounds', Effective', k) = Fresh(rounds, Effective, k)
            BY <2>2, <2>4, <2>5, <2>7 DEF Fresh
        <3>2. match'.phase \in Playing => match.phase \in Playing
            BY <2>2, <2>7 DEF Starts, Playing
        <3>3. Lost(k)' = Lost(k) /\ ops'[k] = ops[k]
            BY <1>4, <2>3
        <3> QED
            BY <1>3, <1>5, <3>1, <3>2, <3>3, BalancedLess
    <2> QED
        BY <2>6, <2>7
<1> QED
    BY <1>8, <1>9, <1>10

\* The balance of the newest operation when overtime is restarted.
LEMMA CountRetires ==
    ASSUME OrderInv, [Next]_vars, ~disordered', NEW k \in OpIds, Applied(k), Applied(k)', Newest(k),
           RestartOvertime
    PROVE  Balanced(Lost(k)', Fresh(rounds', Effective', k), ops'[k].resulting.phase, match'.phase)
<1> DEFINE q == appeals[TiedAppeal].source
<1>1. FormedInv /\ LossInv /\ CountInv /\ FormInv /\ StaleInv
    BY DEF OrderInv, FormedInv
<1>2. ~disordered /\ TypeOK /\ LegalRows /\ UncreatedIsNotDue /\ AppealsAreSourced /\ RoundsStay
    BY <1>1, OrderedBefore, RoundsStayStep DEF FormInv, LegalInv
<1>3. Retires(q) /\ q \in Effective
    BY <1>1, <1>2, RestartShape, RetiredIsEffective
<1>4. /\ Effective' = Effective \ {q}
      /\ \A r \in Created : rounds'[r].by = OtherAudit <=> rounds[r].by = OtherAudit \/ r = q
    BY <1>1, <1>3, SavedRetires
<1> HIDE DEF q
<1>5. Balanced(Lost(k), Fresh(rounds, Effective, k), ops[k].resulting.phase, match.phase)
    BY <1>1, <1>2 DEF CountInv
<1>6. Lost(k) \subseteq RoundIds /\ Fresh(rounds, Effective, k) \subseteq RoundIds /\ Effective \subseteq Created
    BY <1>1, <1>2, Counts
<1>7. Weight(match.phase) = 1 /\ Weight(match'.phase) = 0 /\ Weight(ops[k].resulting.phase) \in Nat
    BY <1>3 DEF Retires, Weight, Playing
<1>8. Cardinality(Lost(k)) \in Nat /\ Cardinality(Fresh(rounds, Effective, k)) \in Nat
    BY <1>6, RoundSets
<1>9. /\ ops'[k] = ops[k] /\ q \in Created /\ rounds[q].by = 0 /\ rounds[q].stage = "OVERTIME"
      /\ rounds[q].stamp \in Nat /\ k \in Nat
    BY <1>1, <1>2, <1>3, SavedRounds, RoundNumbers, AppliedNumbers DEF Effective, Retires, IsOf, Applied
<1>10. \A r \in ops[k].before : r \in Created /\ rounds[r].stamp < k
    BY <1>1, <1>2 DEF LossInv, Recoups
<1>11. Fresh(rounds', Effective', k) = Fresh(rounds, Effective, k) \ {q}
    <2>1. Fresh(rounds', Effective', k) = Fresh(rounds, Effective', k)
        BY <1>2, <1>4, <1>6, FreshKept
    <2> QED
        BY <1>4, <2>1 DEF Fresh
<1>12. CASE rounds[q].stamp >= k
    <2>1. q \notin ops[k].before
        BY <1>9, <1>10, <1>12
    <2>2. Lost(k)' = Lost(k)
        BY <1>4, <1>9, <1>10, <2>1 DEF Lost
    <2>3. q \in Fresh(rounds, Effective, k)
        BY <1>3, <1>9, <1>12 DEF Fresh
    <2>4. Cardinality(Fresh(rounds, Effective, k) \ {q}) = Cardinality(Fresh(rounds, Effective, k)) - 1
        BY <1>6, <2>3, RoundSets
    <2> QED
        BY <1>5, <1>7, <1>8, <1>9, <1>11, <2>2, <2>4 DEF Balanced
<1>13. CASE rounds[q].stamp < k
    <2>1. q \in ops[k].before
        BY <1>1, <1>2, <1>9, <1>13 DEF LossInv, Recoups, Restorable
    <2>2. Lost(k)' = Lost(k) \cup {q} /\ q \notin Lost(k)
        BY <1>4, <1>9, <1>10, <2>1, AuditsDiffer DEF Lost
    <2>3. q \notin Fresh(rounds, Effective, k)
        BY <1>9, <1>13 DEF Fresh
    <2>4. Fresh(rounds', Effective', k) = Fresh(rounds, Effective, k)
        BY <1>11, <2>3
    <2>5. Cardinality(Lost(k) \cup {q}) = Cardinality(Lost(k)) + 1
        BY <1>6, <2>2, RoundSets
    <2> QED
        BY <1>5, <1>7, <1>8, <1>9, <2>2, <2>4, <2>5 DEF Balanced
<1> QED
    BY <1>9, <1>12, <1>13

\* The applied operations before and after a step.
LEMMA AppliedStep ==
    ASSUME FormInv, [Next]_vars, ~disordered', NEW l \in OpIds, Applied(l), ~Applied(l)'
    PROVE  Restores(l) /\ Newest(l)
<1>1. TypeOK /\ LegalRows /\ UncreatedIsNotDue /\ AppealsAreSourced /\ l # nOps + 1
    <2>1. l \in Nat /\ l <= nOps /\ nOps \in Nat
        BY AppliedNumbers DEF Applied
    <2> QED
        BY <2>1 DEF FormInv, LegalInv
<1>2. ~RoundsRest
    BY DEF RoundsRest, Applied
<1>3. \A r \in RoundIds : ~Ends(r)
    BY DEF Ends, Applied
<1>4. ~RestartOvertime
    BY DEF RestartOvertime, Applied
<1>5. \A i \in Instances : ~StartRound(i)
    BY DEF StartRound, Applied
<1>6. \A S : ~Invalidates(S)
    BY <1>1 DEF Invalidates, Applied
<1>7. \A j \in OpIds : Restores(j) => j = l
    BY DEF Restores, Applied
<1>8. Restores(l)
    BY <1>1, <1>2, <1>3, <1>4, <1>5, <1>6, <1>7, StepShape, ExitShape, CancelShape, UndoShape
<1> QED
    BY <1>8, NewestIsUndone DEF Newest

\* The balance between two operations applied one after the other.
LEMMA CountSaved ==
    ASSUME OrderInv, [Next]_vars, ~disordered', NEW k \in OpIds, NEW j \in OpIds, Applied(k)', Applied(j)',
           Adjacent(k, j)', Lost(j)' = {}
    PROVE  Balanced(Lost(k)', Fresh(rounds', Restorable(j)', k), ops'[k].resulting.phase,
                    ops'[j].previous.phase)
<1>1. FormedInv /\ LossInv /\ CountInv /\ FormInv /\ StaleInv
    BY DEF OrderInv, FormedInv
<1>2. ~disordered /\ TypeOK /\ LegalRows /\ UncreatedIsNotDue /\ AppealsAreSourced /\ RoundsStay
    BY <1>1, OrderedBefore, RoundsStayStep DEF FormInv, LegalInv
<1>3. k \in Nat /\ j \in Nat /\ k < j /\ nOps \in Nat
    BY <1>2 DEF OpIds, Adjacent, TypeOK
<1>4. Applied(k)
    <2>1. SUFFICES ASSUME ~Applied(k) PROVE FALSE
        OBVIOUS
    <2>2. k = nOps + 1 /\ nOps' = k
        BY <1>1, <2>1, NewlySaved
    <2>3. j \in Nat /\ j <= nOps'
        <3>1. FormInv'
            BY <1>1, FormedStep DEF FormedInv
        <3> QED
            BY <3>1 DEF FormInv, LegalInv, OpsAreRecorded, TypeOK, OpIds, Applied
    <2> QED
        BY <1>3, <2>2, <2>3
<1>5. CASE ~Applied(j)
    <2>1. /\ j = nOps + 1 /\ nOps' = j /\ Restorable(j)' = Effective
          /\ ops'[j].previous.phase = match.phase
        BY <1>1, <1>5, NewlySaved
    <2>2. \A l \in OpIds : Applied(l) => Applied(l)' /\ l \in Nat /\ l <= nOps
        <3>1. SUFFICES ASSUME NEW l \in OpIds, Applied(l) PROVE Applied(l)' /\ l \in Nat /\ l <= nOps
            OBVIOUS
        <3>2. l \in Nat /\ l <= nOps
            BY <1>1, <3>1, AppliedNumbers DEF Applied
        <3>3. Restores(l) => nOps' = nOps
            BY DEF Restores
        <3> QED
            BY <1>1, <1>3, <2>1, <3>1, <3>2, <3>3, AppliedStep
    <2>3. Newest(k)
        BY <1>3, <2>1, <2>2 DEF Adjacent, Newest
    <2>4. Balanced(Lost(k), Fresh(rounds, Effective, k), ops[k].resulting.phase, match.phase)
        BY <1>1, <1>2, <1>4, <2>3 DEF CountInv
    <2>5. ~RestartOvertime
        BY <1>3, <2>1 DEF RestartOvertime
    <2>6. Lost(k)' = Lost(k) /\ ops'[k] = ops[k]
        BY <1>1, <1>4, <2>5, LostKept
    <2>7. Fresh(rounds', Effective, k) = Fresh(rounds, Effective, k)
        BY <1>2, FreshKept DEF Effective
    <2> QED
        BY <2>1, <2>4, <2>6, <2>7
<1>6. CASE Applied(j)
    <2>1. Lost(j) = {} /\ ops'[j] = ops[j] /\ Restorable(j)' = Restorable(j)
        BY <1>1, <1>6, SavedViews
    <2>2. Adjacent(k, j)
        <3>1. SUFFICES ASSUME NEW l \in OpIds, Applied(l) PROVE l <= k \/ j <= l
            BY <1>3 DEF Adjacent
        <3>2. CASE Applied(l)'
            BY <3>2 DEF Adjacent
        <3>3. CASE ~Applied(l)'
            BY <1>1, <1>6, <3>1, <3>3, AppliedStep DEF Newest
        <3> QED
            BY <3>2, <3>3
    <2>3. Balanced(Lost(k), Fresh(rounds, Restorable(j), k), ops[k].resulting.phase, ops[j].previous.phase)
        BY <1>1, <1>2, <1>4, <1>6, <2>1, <2>2 DEF CountInv
    <2>4. ASSUME RestartOvertime PROVE appeals[TiedAppeal].source \notin ops[k].before
        <3> DEFINE q == appeals[TiedAppeal].source
        <3>1. Retires(q) /\ q \in Effective
            BY <1>1, <1>2, <2>4, RestartShape, RetiredIsEffective
        <3>2. Restorable(j)' = Restorable(j) \ {q}
            BY <1>1, <3>1, SavedRetires
        <3> HIDE DEF q
        <3>3. q \in Created /\ rounds[q].by = 0 /\ rounds[q].stamp \in Nat /\ q \notin Restorable(j)
            BY <1>2, <2>1, <3>1, <3>2, RoundNumbers DEF Effective
        <3>4. ~(rounds[q].stamp < j)
            BY <3>3 DEF Restorable
        <3>5. ~(rounds[q].stamp < k)
            BY <1>3, <3>3, <3>4
        <3>6. q \notin ops[k].before
            BY <1>1, <1>2, <1>4, <3>5 DEF LossInv, Recoups
        <3> QED
            BY <3>6 DEF q
    <2>5. Lost(k)' = Lost(k) /\ ops'[k] = ops[k]
        BY <1>1, <1>4, <2>4, LostKept
    <2>6. Fresh(rounds', Restorable(j), k) = Fresh(rounds, Restorable(j), k)
        BY <1>2, FreshKept DEF Restorable
    <2> QED
        BY <2>1, <2>3, <2>5, <2>6
<1> QED
    BY <1>5, <1>6

\* Every step keeps the balance of every operation.
LEMMA CountStep == OrderInv /\ [Next]_vars => CountInv'
<1> SUFFICES ASSUME OrderInv, [Next]_vars, ~disordered', NEW k \in OpIds, Applied(k)'
             PROVE  /\ Newest(k)' =>
                         Balanced(Lost(k)', Fresh(rounds', Effective', k), ops'[k].resulting.phase, match'.phase)
                    /\ \A j \in OpIds : Applied(j)' /\ Adjacent(k, j)' /\ Lost(j)' = {} =>
                         Balanced(Lost(k)', Fresh(rounds', Restorable(j)', k), ops'[k].resulting.phase,
                                  ops'[j].previous.phase)
    BY DEF CountInv
<1>1. FormedInv /\ LossInv /\ CountInv /\ FormInv /\ StaleInv
    BY DEF OrderInv, FormedInv
<1>2. ~disordered /\ TypeOK /\ LegalRows /\ UncreatedIsNotDue /\ AppealsAreSourced /\ RoundsStay
    BY <1>1, OrderedBefore, RoundsStayStep DEF FormInv, LegalInv
<1>3. k \in Nat /\ nOps \in Nat
    BY <1>2 DEF OpIds, TypeOK
<1> DEFINE Goal == Balanced(Lost(k)', Fresh(rounds', Effective', k), ops'[k].resulting.phase, match'.phase)
<1>4. ASSUME Newest(k)', ~Applied(k) PROVE Goal
    <2>1. Lost(k)' = {} /\ ops'[k].resulting.phase = match'.phase
        BY <1>1, <1>4, NewlySaved
    <2>2. Fresh(rounds', Effective', k) \subseteq RoundIds
        <3>1. TypeOK'
            BY <1>1, FormedStep DEF FormedInv, FormInv, LegalInv
        <3>2. Created' \subseteq RoundIds
            BY <3>1 DEF TypeOK, Created, RoundIds
        <3> QED
            BY <3>2 DEF Fresh, Effective
    <2>3. Cardinality(Fresh(rounds', Effective', k)) \in Nat
        BY <2>2, RoundSets
    <2>4. Cardinality({}) = 0 /\ Weight(match'.phase) \in Nat
        BY FS_EmptySet DEF Weight
    <2> QED
        BY <2>1, <2>3, <2>4 DEF Balanced
<1>5. ASSUME Newest(k)', Applied(k) PROVE Goal
    <2>1. ASSUME \A l \in OpIds : Applied(l) => Applied(l)' PROVE Newest(k)
        BY <1>5, <2>1 DEF Newest
    <2>2. ASSUME NEW S, Invalidates(S) PROVE FALSE
        <3>1. PICK m \in OpIds : m = nOps + 1 /\ Applied(m)'
            BY <2>2 DEF Invalidates, Applied
        <3>2. m <= k
            BY <1>5, <3>1 DEF Newest
        <3>3. k <= nOps
            BY <1>1, <1>5, AppliedNumbers DEF Applied
        <3> QED
            BY <1>3, <3>1, <3>2, <3>3
    <2>3. ASSUME NEW l \in OpIds, Restores(l) PROVE Goal
        <3>1. /\ Lost(l) = {} /\ Applied(l) /\ Newest(l) /\ Effective' = Restorable(l)
              /\ match'.phase = ops[l].previous.phase
            BY <1>1, <2>3, UndoLosesNothing, UndoRestores DEF Restores
        <3>2. k # l /\ \A j \in OpIds : j # l /\ Applied(j) => Applied(j)'
            BY <2>3 DEF Restores, Applied
        <3>3. Adjacent(k, l)
            <4>1. k < l /\ l \in Nat
                BY <1>3, <1>5, <3>1, <3>2 DEF Newest, OpIds
            <4>2. ASSUME NEW j \in OpIds, Applied(j) PROVE j <= k \/ l <= j
                <5>1. CASE j = l
                    BY <4>1, <5>1
                <5>2. CASE j # l
                    BY <1>5, <3>2, <4>2, <5>2 DEF Newest
                <5> QED
                    BY <5>1, <5>2
            <4> QED
                BY <4>1, <4>2 DEF Adjacent
        <3>4. Balanced(Lost(k), Fresh(rounds, Restorable(l), k), ops[k].resulting.phase, ops[l].previous.phase)
            BY <1>1, <1>2, <1>5, <3>1, <3>3 DEF CountInv
        <3>5. ~RestartOvertime
            BY <2>3, <3>1 DEF Restores, RestartOvertime, Applied
        <3>6. Lost(k)' = Lost(k) /\ ops'[k] = ops[k]
            BY <1>1, <1>5, <3>5, LostKept
        <3>7. Fresh(rounds', Restorable(l), k) = Fresh(rounds, Restorable(l), k)
            BY <1>2, FreshKept DEF Restorable
        <3> QED
            BY <3>1, <3>4, <3>6, <3>7
    <2>4. CASE \A l \in OpIds : ~Restores(l)
        <3>1. Newest(k)
            BY <1>1, <2>1, <2>4, AppliedStep
        <3>2. CASE RestartOvertime
            BY <1>5, <3>1, <3>2, CountRetires
        <3>3. CASE \/ RoundsRest /\ PhaseDrifts
                   \/ \E r \in RoundIds : Ends(r)
                   \/ \E i \in Instances : StartRound(i)
            BY <1>5, <3>1, <3>3, CountRests
        <3> QED
            BY <1>2, <2>2, <2>4, <3>2, <3>3, StepShape, ExitShape, CancelShape, UndoShape
    <2> QED
        BY <2>3, <2>4
<1>6. ASSUME NEW j \in OpIds, Applied(j)', Adjacent(k, j)', Lost(j)' = {}
      PROVE  Balanced(Lost(k)', Fresh(rounds', Restorable(j)', k), ops'[k].resulting.phase,
                      ops'[j].previous.phase)
    BY <1>6, CountSaved
<1> QED
    BY <1>4, <1>5, <1>6

\* Every step keeps what undos in order rely on.
LEMMA OrderStep == OrderInv /\ [Next]_vars => OrderInv'
<1> SUFFICES ASSUME OrderInv, [Next]_vars PROVE OrderInv'
    OBVIOUS
<1>1. FormedInv' /\ LossInv' /\ UniqueInv'
    BY FormedStep, LossStep, UniqueStep DEF OrderInv, FormedInv
<1> QED
    BY <1>1, StaleStep, CountStep DEF OrderInv

\* Nothing has been played, recorded or appealed at first.
LEMMA OrderInit == Init => OrderInv
<1> SUFFICES ASSUME Init PROVE OrderInv
    OBVIOUS
<1>1. nAppeals = 0 /\ nRounds = 0 /\ \A k \in OpIds : ~Applied(k)
    BY DEF Init, NoOp, Applied
<1>2. 1 .. nAppeals = {}
    BY <1>1
<1>3. FormedInv
    BY <1>2, FormInit DEF FormedInv, AppealsAreFormed
<1>4. Standing = {} /\ UniqueInv
    BY <1>1, <1>2 DEF Standing, UniqueInv, Unique
<1>5. LossInv /\ StaleInv /\ CountInv
    BY <1>1, <1>4 DEF LossInv, StaleInv, Sourced, CountInv
<1> QED
    BY <1>3, <1>4, <1>5 DEF OrderInv

-----------------------------------------------------------------------------
(* An appeal is over rounds that come and go together.                      *)

\* Before the second round no second regulation round is among E.
NoSecond(rs, phase, E) ==
    phase \in BeforeSecond => \A r \in E : ~(rs[r].stage = "REGULATION" /\ rs[r].number = 2)

SecondInv ==
    ~disordered =>
        /\ NoSecond(rounds, match.phase, Effective)
        /\ \A k \in OpIds : Applied(k) => NoSecond(rounds, ops[k].previous.phase, Restorable(k))

\* Fewer rounds, in a phase that has not gone back.
LEMMA NoSecondKept ==
    ASSUME RoundsStay, NEW phase, NEW next, NEW E, NEW F, NoSecond(rounds, phase, E), E \subseteq Created,
           \A r \in F : r \in E \/ rounds'[r].number # 2, next \in BeforeSecond => phase \in BeforeSecond
    PROVE  NoSecond(rounds', next, F)
BY DEF NoSecond, RoundsStay, SameIdentity

\* match:exit
LEMMA ExitLeavesNoSecond ==
    ASSUME FormInv, RoundsStay, NEW i \in Instances, NEW mode \in ExitModes, ExitMatch(i, mode)
    PROVE  NoSecond(rounds', match'.phase, Effective')
<1>1. TypeOK
    BY DEF FormInv, LegalInv
<1>2. /\ Effective' = Effective \ ExitRounds(mode) /\ match'.phase = RowAfterExit(mode).phase
      /\ RetainedModeAllowed(mode)
    BY <1>1, ExitShape, InvalidatedSets DEF ExitAllowed
<1>3. CASE mode \in {"CANCEL_RESULTS", "SUSPEND_KEEP_ROUND_1"}
    <2>1. \A r \in Effective : rounds[r].number = 2 => r \in ExitRounds(mode)
        BY <1>3 DEF ExitRounds, InvalidatedNumbers
    <2>2. \A r \in Effective : rounds'[r].number = rounds[r].number
        BY DEF RoundsStay, SameIdentity, Effective
    <2> QED
        BY <1>2, <2>1, <2>2 DEF NoSecond
<1>4. CASE mode = "SUSPEND_KEEP_V2_PHASE"
    <2>1. match'.phase \in RetainablePhases
        BY <1>2, <1>4 DEF RowAfterExit, Row, RetainedModeAllowed
    <2> QED
        BY <2>1 DEF NoSecond, RetainablePhases, OvertimePhases, BeforeSecond
<1>5. CASE mode = "SUSPEND_KEEP_ROUNDS_1_AND_2"
    <2>1. match'.phase = "AWAITING_RESULT_SAVE"
        BY <1>2, <1>5 DEF RowAfterExit, Row
    <2> QED
        BY <2>1 DEF NoSecond, BeforeSecond
<1> QED
    BY <1>3, <1>4, <1>5 DEF ExitModes

\* round:cancel and match:reset
LEMMA CancelLeavesNoSecond ==
    ASSUME FormInv, RoundsStay, NoSecond(rounds, match.phase, Effective), NEW i \in Instances,
           NEW entireMatch \in BOOLEAN, CancelResults(i, entireMatch)
    PROVE  NoSecond(rounds', match'.phase, Effective')
<1> DEFINE S == SelectedRounds(entireMatch)
<1>1. TypeOK
    BY DEF FormInv, LegalInv
<1>2. Effective' = Effective \ S /\ S # {}
    BY <1>1, CancelShape, InvalidatedSets
<1>3. CASE entireMatch
    <2>1. S = Effective
        BY <1>3 DEF SelectedRounds
    <2> QED
        BY <1>2, <2>1 DEF NoSecond
<1>4. CASE ~entireMatch
    <2>1. entireMatch = FALSE
        BY <1>4
    <2>2. CASE S = EffectiveOf("REGULATION", 2)
        <3>1. \A r \in Effective : rounds'[r].stage = rounds[r].stage /\ rounds'[r].number = rounds[r].number
            BY DEF RoundsStay, SameIdentity, Effective
        <3> QED
            BY <1>2, <2>2, <3>1 DEF NoSecond, EffectiveOf
    <2>3. CASE match.phase = "BREAK"
        <3>1. Effective \subseteq Created /\ Effective' \subseteq Effective
            BY <1>2 DEF Effective
        <3> QED
            BY <2>3, <3>1, NoSecondKept DEF BeforeSecond
    <2>4. CASE match.phase \in OvertimePhases /\ S \subseteq EffectiveOf("OVERTIME", 1)
        <3>1. \A r \in S : rounds[r].stage = "OVERTIME"
            BY <2>4 DEF EffectiveOf
        <3>2. match'.phase = "OVERTIME_READY"
            BY <1>1, <1>2, <1>4, <3>1, CancelShape DEF IsOf
        <3> QED
            BY <3>2 DEF NoSecond, BeforeSecond
    <2> QED
        BY <1>2, <2>1, <2>2, <2>3, <2>4, SelectedByPhase
<1> QED
    BY <1>3, <1>4

\* Every step leaves no second round behind an earlier phase.
LEMMA SecondStep == OrderInv /\ SecondInv /\ [Next]_vars => SecondInv'
<1> SUFFICES ASSUME OrderInv, SecondInv, [Next]_vars, ~disordered'
             PROVE  /\ NoSecond(rounds', match'.phase, Effective')
                    /\ \A k \in OpIds : Applied(k)' => NoSecond(rounds', ops'[k].previous.phase, Restorable(k)')
    BY DEF SecondInv
<1>1. FormedInv /\ FormInv
    BY DEF OrderInv, FormedInv
<1>2. ~disordered /\ TypeOK /\ LegalRows /\ UncreatedIsNotDue /\ AppealsAreSourced /\ RoundsStay
    BY <1>1, OrderedBefore, RoundsStayStep DEF FormInv, LegalInv
<1>3. NoSecond(rounds, match.phase, Effective) /\ Effective \subseteq Created
    BY <1>2 DEF SecondInv, Effective
<1>4. ASSUME NEW k \in OpIds, Applied(k)
      PROVE  NoSecond(rounds, ops[k].previous.phase, Restorable(k)) /\ Restorable(k) \subseteq Created
    BY <1>2, <1>4 DEF SecondInv, Restorable
<1>5. ASSUME NEW k \in OpIds, Applied(k)' PROVE NoSecond(rounds', ops'[k].previous.phase, Restorable(k)')
    <2>1. CASE Applied(k)
        <3>1. ops'[k] = ops[k] /\ (~RestartOvertime => Restorable(k)' = Restorable(k))
            BY <1>1, <1>5, <2>1, SavedRounds
        <3>2. RestartOvertime => Restorable(k)' \subseteq Restorable(k)
            BY <1>1, <1>2, RestartShape, SavedRetires
        <3> QED
            BY <1>2, <1>4, <2>1, <3>1, <3>2, NoSecondKept
    <2>2. CASE ~Applied(k)
        <3>1. ops'[k].previous.phase = match.phase /\ Restorable(k)' = Effective
            BY <1>1, <1>5, <2>2, NewlySaved
        <3> QED
            BY <1>2, <1>3, <3>1, NoSecondKept
    <2> QED
        BY <2>1, <2>2
<1> DEFINE Goal == NoSecond(rounds', match'.phase, Effective')
<1>6. ASSUME RoundsRest, PhaseDrifts PROVE Goal
    <2>1. Effective' = Effective /\ Drifts(match.phase, match'.phase)
        BY <1>1, <1>6, EffectiveGrows DEF PhaseDrifts
    <2>2. match'.phase \in BeforeSecond => match.phase \in BeforeSecond
        BY <2>1 DEF Drifts, BeforeSecond, RunningPhases, PausedPhases, PausedStatus, ResumedStatus
    <2> QED
        BY <1>2, <1>3, <2>1, <2>2, NoSecondKept
<1>7. ASSUME NEW r \in RoundIds, Ends(r) PROVE Goal
    <2>1. /\ match'.phase = PhaseAfter(r) /\ match.phase = RunningStatus(rounds[r].number, rounds[r].stage)
          /\ Effective' = Effective
        BY <1>1, <1>7, EffectiveGrows DEF Ends, Expirable
    <2>2. match'.phase \in BeforeSecond => match.phase \in BeforeSecond
        BY <2>1 DEF PhaseAfter, RunningStatus, BeforeSecond
    <2> QED
        BY <1>2, <1>3, <2>1, <2>2, NoSecondKept
<1>8. ASSUME NEW i \in Instances, StartRound(i) PROVE Goal
    <2>1. PICK stage, number : Starts(nRounds + 1, stage, number)
        BY <1>2, <1>8, StartShape
    <2> DEFINE n == nRounds + 1
    <2>2. Starts(n, stage, number) /\ Effective' = Effective \cup {n}
        BY <1>1, <2>1, EffectiveGrows
    <2> HIDE DEF n
    <2>3. match'.phase \in BeforeSecond => match.phase \in BeforeSecond /\ rounds'[n].number # 2
        BY <2>2 DEF Starts, BeforeSecond
    <2>4. CASE match'.phase \in BeforeSecond
        BY <1>2, <1>3, <2>2, <2>3, <2>4, NoSecondKept
    <2>5. CASE match'.phase \notin BeforeSecond
        BY <2>5 DEF NoSecond
    <2> QED
        BY <2>4, <2>5
<1>9. ASSUME NEW i \in Instances, NEW j \in OpIds, Undo(i, j) PROVE Goal
    <2>1. Restores(j)
        BY <1>2, <1>9, UndoShape
    <2>2. Effective' = Restorable(j) /\ Applied(j) /\ match'.phase = ops[j].previous.phase
        BY <1>1, <2>1, UndoRestores DEF Restores, UndoAllowed, Applied
    <2> QED
        BY <1>2, <1>4, <2>2, NoSecondKept
<1>10. ASSUME RestartOvertime PROVE Goal
    BY <1>2, <1>10, RestartShape DEF Retires, NoSecond, BeforeSecond
<1>11. ASSUME NEW i \in Instances, NEW mode \in ExitModes, ExitMatch(i, mode) PROVE Goal
    BY <1>1, <1>2, <1>11, ExitLeavesNoSecond
<1>12. ASSUME NEW i \in Instances, NEW entireMatch \in BOOLEAN, CancelResults(i, entireMatch) PROVE Goal
    BY <1>1, <1>2, <1>3, <1>12, CancelLeavesNoSecond
<1>13. Goal
    BY <1>2, <1>6, <1>7, <1>8, <1>9, <1>10, <1>11, <1>12, StepShape
<1> QED
    BY <1>5, <1>13

\* A round with the audit y is effective whenever one with the audit x is, now
\* and after every undo.
Together(x, y) ==
    /\ x = 0 => y = 0
    /\ x \in OpIds => y = 0 \/ (y \in OpIds /\ x <= y)

\* The rounds of an appeal are effective whenever its source is.
PairInv ==
    ~disordered => \A a \in 1 .. nAppeals : \A r \in appeals[a].rounds :
        Together(rounds[appeals[a].source].by, rounds[r].by)

\* Whoever invalidates a regulation round invalidates the second one with it.
TakesSecond(S) ==
    \A r \in S, s \in Effective : rounds[r].stage = "REGULATION" /\ IsOf(s, "REGULATION", 2) => s \in S

\* match:exit
LEMMA ExitTakesSecond ==
    ASSUME NEW mode \in ExitModes
    PROVE  TakesSecond(ExitRounds(mode))
BY DEF TakesSecond, ExitRounds, ExitModes, InvalidatedNumbers, IsOf

\* round:cancel and match:reset
LEMMA CancelTakesSecond ==
    ASSUME NoSecond(rounds, match.phase, Effective), NEW entireMatch \in BOOLEAN,
           SelectedRounds(entireMatch) # {}
    PROVE  TakesSecond(SelectedRounds(entireMatch))
<1>1. CASE entireMatch
    <2>1. SelectedRounds(entireMatch) = Effective
        BY <1>1 DEF SelectedRounds
    <2> QED
        BY <2>1 DEF TakesSecond
<1>2. CASE ~entireMatch
    <2>1. entireMatch = FALSE
        BY <1>2
    <2> DEFINE S == SelectedRounds(FALSE)
    <2>2. CASE S = EffectiveOf("REGULATION", 2)
        BY <2>1, <2>2 DEF TakesSecond, EffectiveOf, IsOf
    <2>3. CASE match.phase = "BREAK"
        BY <2>3 DEF TakesSecond, NoSecond, BeforeSecond, IsOf
    <2>4. CASE S \subseteq EffectiveOf("OVERTIME", 1)
        BY <2>1, <2>4 DEF TakesSecond, EffectiveOf
    <2> QED
        BY <2>1, <2>2, <2>3, <2>4, SelectedByPhase
<1> QED
    BY <1>1, <1>2

\* The source of an appeal and one of its rounds.
LEMMA AppealPair ==
    ASSUME FormedInv, NEW a \in 1 .. nAppeals, NEW r \in appeals[a].rounds
    PROVE  /\ appeals[a].source \in Created /\ r \in Created
           /\ appeals[a].source \in RoundIds /\ r \in RoundIds
           /\ rounds[appeals[a].source].by \in Audits /\ rounds[r].by \in Audits
           /\ \/ r = appeals[a].source
              \/ IsOf(appeals[a].source, "REGULATION", 2) /\ rounds[r].stage = "REGULATION"
<1>1. TypeOK /\ AppealMatter(a) /\ appeals[a].source \in Created
    BY DEF FormedInv, FormInv, LegalInv, AppealsAreFormed, AppealsAreSourced
<1>2. r \in Created
    BY <1>1 DEF AppealMatter
<1>3. \/ r = appeals[a].source
      \/ IsOf(appeals[a].source, "REGULATION", 2) /\ rounds[r].stage = "REGULATION"
    BY <1>1 DEF AppealMatter
<1> QED
    BY <1>1, <1>2, <1>3, RoundNumbers

\* An operation that takes the second round keeps pairs together.
LEMMA PairInvalidates ==
    ASSUME FormedInv, NEW S, Invalidates(S), TakesSecond(S), NEW a \in 1 .. nAppeals,
           NEW r \in appeals[a].rounds, Together(rounds[appeals[a].source].by, rounds[r].by)
    PROVE  Together(rounds'[appeals[a].source].by, rounds'[r].by)
<1> DEFINE s == appeals[a].source
<1>1. /\ s \in Created /\ r \in Created /\ s \in RoundIds /\ r \in RoundIds
      /\ rounds[s].by \in Audits /\ rounds[r].by \in Audits
      /\ r = s \/ (IsOf(s, "REGULATION", 2) /\ rounds[r].stage = "REGULATION")
    BY AppealPair
<1>2. FormedRound(s) /\ nOps \in Nat
    BY <1>1 DEF FormedInv, FormInv, RoundsAreFormed, LegalInv, TypeOK
<1> HIDE DEF s
<1>3. /\ rounds'[s].by = IF s \in S THEN nOps + 1 ELSE rounds[s].by
      /\ rounds'[r].by = IF r \in S THEN nOps + 1 ELSE rounds[r].by
      /\ nOps + 1 \in OpIds
    BY <1>1 DEF Invalidates
<1>4. \A x \in S : x \in Effective /\ rounds[x].by = 0
    BY DEF Invalidates, Effective
<1>5. Together(rounds[s].by, rounds[r].by)
    BY DEF s
<1>6. CASE s \in S
    <2>1. rounds'[s].by = nOps + 1 /\ rounds[r].by = 0
        BY <1>3, <1>4, <1>5, <1>6 DEF Together
    <2>2. rounds'[r].by = 0 \/ rounds'[r].by = nOps + 1
        BY <1>3, <2>1
    <2>3. Together(nOps + 1, 0) /\ Together(nOps + 1, nOps + 1)
        BY <1>2, <1>3 DEF Together
    <2> QED
        BY <2>1, <2>2, <2>3 DEF s
<1>7. CASE s \notin S
    <2>1. rounds'[s].by = rounds[s].by
        BY <1>3, <1>7
    <2>2. CASE r \notin S
        <3>1. rounds'[r].by = rounds[r].by
            BY <1>3, <2>2
        <3> QED
            BY <1>5, <2>1, <3>1 DEF s
    <2>3. CASE r \in S
        <3>1. rounds'[r].by = nOps + 1 /\ r # s
            BY <1>3, <1>7, <2>3
        <3>2. rounds[s].by # 0
            BY <1>1, <1>7, <2>3, <3>1 DEF TakesSecond, Effective
        <3>3. rounds[s].by \in OpIds => rounds[s].by \in Nat /\ rounds[s].by <= nOps + 1
            BY <1>2 DEF FormedRound, OpIds
        <3> QED
            BY <1>3, <2>1, <3>1, <3>2, <3>3 DEF Together, s
    <2> QED
        BY <2>2, <2>3
<1> QED
    BY <1>6, <1>7

\* An undo in order keeps pairs together.
LEMMA PairRestores ==
    ASSUME FormedInv, NEW k \in OpIds, Restores(k), ~disordered', NEW a \in 1 .. nAppeals,
           NEW r \in appeals[a].rounds, Together(rounds[appeals[a].source].by, rounds[r].by)
    PROVE  Together(rounds'[appeals[a].source].by, rounds'[r].by)
<1> DEFINE s == appeals[a].source
<1>1. /\ s \in Created /\ r \in Created /\ s \in RoundIds /\ r \in RoundIds
      /\ rounds[s].by \in Audits /\ rounds[r].by \in Audits
    BY AppealPair
<1>2. FormInv /\ FormedRound(r) /\ k \in Nat /\ k # 0
    BY <1>1 DEF FormedInv, FormInv, RoundsAreFormed, OpIds
<1> HIDE DEF s
<1>3. /\ rounds'[s].by = IF rounds[s].by = k THEN 0 ELSE rounds[s].by
      /\ rounds'[r].by = IF rounds[r].by = k THEN 0 ELSE rounds[r].by
    BY <1>1 DEF Restores
<1>4. Together(rounds[s].by, rounds[r].by)
    BY DEF s
<1>5. CASE rounds[r].by = 0 \/ rounds[r].by = k
    <2>1. rounds'[r].by = 0
        BY <1>2, <1>3, <1>5
    <2> QED
        BY <2>1 DEF Together
<1>6. CASE rounds[r].by # 0 /\ rounds[r].by # k
    <2>1. rounds'[r].by = rounds[r].by
        BY <1>3, <1>6
    <2>2. rounds[s].by # k
        <3>1. SUFFICES ASSUME rounds[s].by = k PROVE FALSE
            OBVIOUS
        <3>2. rounds[r].by \in OpIds /\ k <= rounds[r].by /\ rounds[r].by \in Nat
            BY <1>4, <1>6, <3>1 DEF Together, OpIds
        <3>3. Applied(rounds[r].by)
            BY <1>2, <3>2 DEF FormedRound, Applied
        <3>4. rounds[r].by <= k
            BY <1>2, <3>2, <3>3, NewestIsUndone
        <3> QED
            BY <1>2, <1>6, <3>2, <3>4
    <2> QED
        BY <1>3, <1>4, <2>1, <2>2 DEF s
<1> QED
    BY <1>5, <1>6

\* A restart of overtime keeps pairs together.
LEMMA PairRetires ==
    ASSUME FormedInv, NEW q, Retires(q), NEW a \in 1 .. nAppeals,
           NEW r \in appeals[a].rounds, Together(rounds[appeals[a].source].by, rounds[r].by)
    PROVE  Together(rounds'[appeals[a].source].by, rounds'[r].by)
<1> DEFINE s == appeals[a].source
<1>1. /\ s \in RoundIds /\ r \in RoundIds
      /\ r = s \/ (IsOf(s, "REGULATION", 2) /\ rounds[r].stage = "REGULATION")
    BY AppealPair
<1> HIDE DEF s
<1>2. /\ \A x \in RoundIds : x # q => rounds'[x].by = rounds[x].by
      /\ rounds'[q].by = OtherAudit /\ rounds[q].stage = "OVERTIME"
    BY DEF Retires, SameRound, IsOf
<1>3. CASE s = q
    BY <1>2, <1>3, AuditsDiffer DEF Together, s
<1>4. CASE s # q
    <2>1. r # q
        BY <1>1, <1>2, <1>4
    <2> QED
        BY <1>1, <1>2, <1>4, <2>1 DEF s
<1> QED
    BY <1>3, <1>4

\* Every step keeps the rounds of an appeal together.
LEMMA PairStep == OrderInv /\ SecondInv /\ PairInv /\ [Next]_vars => PairInv'
<1> SUFFICES ASSUME OrderInv, SecondInv, PairInv, [Next]_vars, ~disordered', NEW a \in 1 .. nAppeals',
                    NEW r \in appeals'[a].rounds
             PROVE  Together(rounds'[appeals'[a].source].by, rounds'[r].by)
    BY DEF PairInv
<1>1. FormedInv /\ FormInv
    BY DEF OrderInv, FormedInv
<1>2. /\ ~disordered /\ TypeOK /\ LegalRows /\ UncreatedIsNotDue /\ AppealsAreSourced /\ AppealsLast
      /\ nAppeals \in Nat /\ StepKinds
    BY <1>1, OrderedBefore, AppealsLastStep, StepsAreKinds DEF FormInv, LegalInv, TypeOK
<1> DEFINE Goal == Together(rounds'[appeals'[a].source].by, rounds'[r].by)
<1>3. ASSUME a \in 1 .. nAppeals
      PROVE  /\ appeals'[a].source = appeals[a].source /\ appeals'[a].rounds = appeals[a].rounds
             /\ Together(rounds[appeals[a].source].by, rounds[r].by)
             /\ appeals[a].source \in RoundIds /\ r \in RoundIds
             /\ appeals[a].source \in Created /\ r \in Created
    <2>1. appeals'[a].source = appeals[a].source /\ appeals'[a].rounds = appeals[a].rounds
        BY <1>2, <1>3 DEF AppealsLast, SameAppeal
    <2> QED
        BY <1>1, <1>2, <1>3, <2>1, AppealPair DEF PairInv
<1>4. ASSUME nAppeals' = nAppeals PROVE a \in 1 .. nAppeals
    BY <1>4
<1>5. ASSUME \A x \in Created : rounds'[x].by = rounds[x].by, a \in 1 .. nAppeals PROVE Goal
    BY <1>3, <1>5
<1>6. ASSUME RoundsRest PROVE \A x \in Created : rounds'[x].by = rounds[x].by
    BY <1>2, <1>6, CreatedAreRounds DEF RoundsRest, SameRound
<1>7. ASSUME Idles PROVE Goal
    BY <1>4, <1>5, <1>6, <1>7 DEF Idles, AppealsKept
<1>8. ASSUME NEW x \in RoundIds, Ends(x), UNCHANGED <<appeals, nAppeals>> PROVE Goal
    <2>1. \A y \in Created : rounds'[y].by = rounds[y].by
        BY <1>2, <1>8, CreatedAreRounds DEF Ends, SameRound
    <2> QED
        BY <1>4, <1>5, <1>8, <2>1
<1>9. ASSUME NEW stage, NEW number, Starts(nRounds + 1, stage, number), UNCHANGED <<appeals, nAppeals>>
      PROVE  Goal
    <2>1. \A y \in Created : y \in RoundIds \ {nRounds + 1}
        <3>1. nRounds \in Nat
            BY <1>2 DEF TypeOK
        <3>2. nRounds + 1 \notin Created
            BY <3>1 DEF Created
        <3> QED
            BY <1>2, <3>2, CreatedAreRounds
    <2>2. \A y \in Created : rounds'[y].by = rounds[y].by
        BY <1>9, <2>1 DEF Starts, SameRound
    <2> QED
        BY <1>4, <1>5, <1>9, <2>2
<1>10. ASSUME NEW result \in Colours \cup {"TIE"}, CompleteRegulationAppeal(result) \/ CompleteOvertimeAppeal(result)
       PROVE  Goal
    <2>1. Adds(nAppeals + 1) /\ RoundsRest
        BY <1>2, <1>10, AddsRegulationShape, AddsOvertimeShape, DecisionShape DEF AddsRegulation, AddsOvertime
    <2>2. CASE a \in 1 .. nAppeals
        BY <1>5, <1>6, <2>1, <2>2
    <2>3. CASE a = nAppeals + 1
        <3>1. r \in Ended(Effective)
            BY <2>1, <2>3 DEF Adds
        <3>2. r \in Created /\ rounds[r].by = 0
            BY <3>1 DEF Ended, Effective
        <3>3. rounds'[r].by = 0
            BY <1>6, <2>1, <3>2
        <3> QED
            BY <3>3 DEF Together
    <2>4. nAppeals' = nAppeals + 1
        BY <2>1 DEF Adds
    <2> QED
        BY <1>2, <2>2, <2>3, <2>4
<1>11. ASSUME NEW colour \in Colours, ManualWinner(colour) PROVE Goal
    <2>1. RoundsRest /\ Decides(TiedAppeal)
        BY <1>2, <1>11, DecisionShape, DecidesShape
    <2> QED
        BY <1>4, <1>5, <1>6, <2>1 DEF Decides
<1>12. ASSUME NEW i \in Instances, NEW j \in OpIds, Undo(i, j) PROVE Goal
    <2>1. Restores(j) /\ a \in 1 .. nAppeals
        BY <1>2, <1>4, <1>12, UndoShape, RecallsShape DEF Recalls
    <2> QED
        BY <1>1, <1>3, <2>1, PairRestores
<1>13. ASSUME RestartOvertime PROVE Goal
    <2>1. Retires(appeals[TiedAppeal].source) /\ a \in 1 .. nAppeals
        BY <1>2, <1>4, <1>13, RestartShape, RetiresAppealShape DEF RetiresAppeal
    <2> QED
        BY <1>1, <1>3, <2>1, PairRetires
<1>14. ASSUME NEW S, Invalidates(S), TakesSecond(S), nAppeals' = nAppeals PROVE Goal
    BY <1>1, <1>3, <1>4, <1>14, PairInvalidates
<1>15. ASSUME NEW i \in Instances, NEW mode \in ExitModes, ExitMatch(i, mode) PROVE Goal
    BY <1>2, <1>14, <1>15, ExitShape, ExitWithdraws, ExitTakesSecond
<1>16. ASSUME NEW i \in Instances, NEW entireMatch \in BOOLEAN, CancelResults(i, entireMatch) PROVE Goal
    <2>1. NoSecond(rounds, match.phase, Effective)
        BY <1>2 DEF SecondInv
    <2> QED
        BY <1>2, <1>14, <1>16, <2>1, CancelShape, WithdrawsShape, CancelTakesSecond DEF Withdraws
<1> QED
    BY <1>2, <1>7, <1>8, <1>9, <1>10, <1>11, <1>12, <1>13, <1>15, <1>16 DEF StepKinds

-----------------------------------------------------------------------------
(* The phases that wait for a decision have what they need.                 *)

\* A repeated appeal command has retired one of the n appeals over a round of E.
Purged(as, n, E) == \E a \in 1 .. n : as[a].by = OtherAudit /\ as[a].source \in E

\* Appeal a is the newest of A over a round of E.
IsLast(as, a, E, A) == a \in A /\ as[a].source \in E /\ \A b \in A : as[b].source \in E => b <= a

\* With the rounds E, the appeals A and the decisions D a phase has what it
\* needs: a winner to publish, or a tied overtime appeal to decide.
Settled(as, phase, E, A, D) ==
    /\ phase = "RESULT_PUBLICATION_READY" =>
           \E a \in A : /\ IsLast(as, a, E, A)
                        /\ a \in D => as[a].scope = "OVERTIME" /\ as[a].result = "TIE"
                        /\ a \notin D => as[a].result # "TIE"
    /\ phase = "OVERTIME_TIEBREAK_DECISION" =>
           \E a \in A : /\ IsLast(as, a, E, A) /\ as[a].scope = "OVERTIME" /\ as[a].result = "TIE"
                        /\ \A b \in A : as[b].scope = "OVERTIME" => as[b].attempt <= as[a].attempt

DecisionInv ==
    ~disordered =>
        /\ Purged(appeals, nAppeals, Effective)
             \/ Settled(appeals, match.phase, Effective, Standing, Decided)
        /\ \A k \in OpIds : Applied(k) /\ Lost(k) = {} =>
             \/ Purged(appeals, nAppeals, Restorable(k))
             \/ Settled(appeals, ops[k].previous.phase, Restorable(k), Recallable(k), DecidedAt(k))

\* A view is settled as long as it loses no appeal over a round of its own.
LEMMA SettledKept ==
    ASSUME AppealsLast, NEW phase, NEW E, NEW A, NEW B, NEW D, NEW F, A \subseteq 1 .. nAppeals,
           Settled(appeals, phase, E, A, D), B \subseteq A,
           \A a \in A : appeals[a].source \in E => a \in B,
           \A a \in B : a \in F <=> a \in D
    PROVE  Settled(appeals', phase, E, B, F)
<1>1. \A a \in A : /\ appeals'[a].source = appeals[a].source /\ appeals'[a].scope = appeals[a].scope
                   /\ appeals'[a].result = appeals[a].result /\ appeals'[a].attempt = appeals[a].attempt
    BY DEF AppealsLast, SameAppeal
<1>2. \A a \in A : IsLast(appeals, a, E, A) => IsLast(appeals', a, E, B)
    BY <1>1 DEF IsLast
<1>3. \A a \in A : IsLast(appeals, a, E, A) => a \in B
    BY DEF IsLast
<1>4. ASSUME phase = "RESULT_PUBLICATION_READY"
      PROVE  \E a \in B : /\ IsLast(appeals', a, E, B)
                          /\ a \in F => appeals'[a].scope = "OVERTIME" /\ appeals'[a].result = "TIE"
                          /\ a \notin F => appeals'[a].result # "TIE"
    BY <1>1, <1>2, <1>3, <1>4 DEF Settled
<1>5. ASSUME phase = "OVERTIME_TIEBREAK_DECISION"
      PROVE  \E a \in B : /\ IsLast(appeals', a, E, B) /\ appeals'[a].scope = "OVERTIME"
                          /\ appeals'[a].result = "TIE"
                          /\ \A b \in B : appeals'[b].scope = "OVERTIME" => appeals'[b].attempt <= appeals'[a].attempt
    BY <1>1, <1>2, <1>3, <1>5 DEF Settled
<1> QED
    BY <1>4, <1>5 DEF Settled

\* What has been purged stays purged.
LEMMA PurgedStays ==
    ASSUME TypeOK, AppealsLast, NEW E, Purged(appeals, nAppeals, E)
    PROVE  Purged(appeals', nAppeals', E)
<1>1. PICK a \in 1 .. nAppeals : appeals[a].by = OtherAudit /\ appeals[a].source \in E
    BY DEF Purged
<1>2. a \in 1 .. nAppeals'
    BY DEF AppealsLast, TypeOK
<1>3. appeals'[a].by = OtherAudit /\ appeals'[a].source = appeals[a].source
    BY <1>1 DEF AppealsLast, SameAppeal
<1> QED
    BY <1>1, <1>2, <1>3 DEF Purged

\* The phases that wait for no decision are settled.
LEMMA SettledElsewhere ==
    ASSUME NEW as, NEW phase, NEW E, NEW A, NEW D,
           phase \notin {"RESULT_PUBLICATION_READY", "OVERTIME_TIEBREAK_DECISION"}
    PROVE  Settled(as, phase, E, A, D)
BY DEF Settled

\* The views of the operations stay settled.
LEMMA SettledSaved ==
    ASSUME OrderInv, DecisionInv, [Next]_vars, ~disordered', NEW k \in OpIds, Applied(k)', Lost(k)' = {}
    PROVE  \/ Purged(appeals', nAppeals', Restorable(k)')
           \/ Settled(appeals', ops'[k].previous.phase, Restorable(k)', Recallable(k)', DecidedAt(k)')
<1>1. FormedInv /\ FormInv /\ LossInv /\ StaleInv /\ TypeOK
    BY DEF OrderInv, FormedInv, FormInv, LegalInv
<1>2. ~disordered /\ AppealsLast
    BY <1>1, OrderedBefore, AppealsLastStep
<1>3. CASE Applied(k)
    <2>1. /\ Lost(k) = {} /\ ops'[k] = ops[k] /\ Restorable(k)' = Restorable(k)
          /\ AppealsStay(k) /\ Recallable(k) \subseteq 1 .. nAppeals
        BY <1>1, <1>3, SavedViews DEF Recallable
    <2>2. SUFFICES ASSUME ~Purged(appeals', nAppeals', Restorable(k))
                   PROVE  Settled(appeals', ops[k].previous.phase, Restorable(k), Recallable(k)', DecidedAt(k)')
        BY <2>1
    <2>3. Settled(appeals, ops[k].previous.phase, Restorable(k), Recallable(k), DecidedAt(k))
        BY <1>1, <1>2, <1>3, <2>1, <2>2, PurgedStays DEF DecisionInv
    <2>4. ASSUME NEW a \in Recallable(k), appeals[a].source \in Restorable(k) PROVE a \in Recallable(k)'
        <3>1. SUFFICES ASSUME a \notin Recallable(k)' PROVE FALSE
            OBVIOUS
        <3>2. appeals'[a].by = OtherAudit /\ a \in 1 .. nAppeals
            BY <2>1, <3>1 DEF AppealsStay
        <3>3. appeals'[a].source = appeals[a].source /\ a \in 1 .. nAppeals'
            BY <1>1, <1>2, <3>2 DEF AppealsLast, SameAppeal, TypeOK
        <3> QED
            BY <2>2, <2>4, <3>2, <3>3 DEF Purged
    <2> QED
        BY <1>2, <2>1, <2>3, <2>4, SettledKept DEF AppealsStay
<1>4. CASE ~Applied(k)
    <2>1. /\ ops'[k].previous.phase = match.phase /\ Restorable(k)' = Effective
          /\ Recallable(k)' = Standing /\ DecidedAt(k)' = Decided /\ Standing \subseteq 1 .. nAppeals
        BY <1>1, <1>4, NewlySaved DEF Standing
    <2>2. \/ Purged(appeals, nAppeals, Effective)
          \/ Settled(appeals, match.phase, Effective, Standing, Decided)
        BY <1>2 DEF DecisionInv
    <2>3. CASE Purged(appeals, nAppeals, Effective)
        BY <1>1, <1>2, <2>1, <2>3, PurgedStays
    <2>4. CASE Settled(appeals, match.phase, Effective, Standing, Decided)
        BY <1>2, <2>1, <2>4, SettledKept
    <2> QED
        BY <2>2, <2>3, <2>4
<1> QED
    BY <1>3, <1>4

\* A new appeal settles the phase that it leads to.
LEMMA SettledByAppeal ==
    ASSUME FormedInv, StaleInv, ~disordered, NEW n, AddsRegulation(n) \/ AddsOvertime(n), RoundsRest
    PROVE  Settled(appeals', match'.phase, Effective', Standing', Decided')
<1>1. Adds(n) /\ FormInv /\ TypeOK /\ nAppeals \in Nat /\ n = nAppeals + 1 /\ nAppeals' = n
    BY DEF AddsRegulation, AddsOvertime, FormedInv, FormInv, LegalInv, TypeOK, Adds
<1>2. Effective' = Effective
    BY <1>1, EffectiveGrows
<1>3. n \in Standing' /\ n \notin Decided' /\ appeals'[n].source \in Effective /\ n \in Nat
    BY <1>1 DEF Adds, Standing, Decided, Ended
<1>4. \A b \in Standing' : b \in 1 .. nAppeals \/ b = n
    BY <1>1 DEF Standing
<1>5. IsLast(appeals', n, Effective', Standing')
    BY <1>1, <1>2, <1>3, <1>4 DEF IsLast
<1>6. ASSUME match'.phase = "RESULT_PUBLICATION_READY" PROVE appeals'[n].result # "TIE"
    BY <1>6 DEF AddsRegulation, AddsOvertime, PhaseAfterRegulation, PhaseAfterOvertime
<1>7. ASSUME match'.phase = "OVERTIME_TIEBREAK_DECISION"
      PROVE  /\ appeals'[n].result = "TIE" /\ appeals'[n].scope = "OVERTIME"
             /\ \A b \in Standing' : appeals'[b].scope = "OVERTIME" => appeals'[b].attempt <= appeals'[n].attempt
    <2>1. AddsOvertime(n) /\ appeals'[n].result = "TIE"
        BY <1>7 DEF AddsRegulation, AddsOvertime, PhaseAfterRegulation, PhaseAfterOvertime
    <2>2. appeals'[n].scope = "OVERTIME"
        BY <2>1 DEF AddsOvertime
    <2>3. ASSUME NEW b \in Standing', appeals'[b].scope = "OVERTIME"
          PROVE  appeals'[b].attempt <= appeals'[n].attempt
        <3>1. CASE b = n
            <4>1. appeals'[n].attempt = rounds[appeals'[n].source].attempt /\ appeals'[n].source \in Created
                BY <1>3, <2>1 DEF AddsOvertime, Effective
            <4>2. appeals'[n].attempt \in Nat
                BY <1>1, <4>1, RoundNumbers
            <4> QED
                BY <3>1, <4>2
        <3>2. CASE b # n
            <4>1. b \in 1 .. nAppeals
                BY <1>4, <3>2
            <4>2. /\ b \in Standing /\ appeals[b].scope = "OVERTIME"
                  /\ appeals'[b].attempt = appeals[b].attempt
                BY <1>1, <2>3, <4>1, AuditsDiffer DEF Adds, Standing, SameAppeal
            <4>3. appeals[b].source \in Effective
                BY <2>1, <4>2 DEF AddsOvertime, StaleInv, Sourced, OvertimePhases
            <4>4. IsOf(appeals[b].source, "OVERTIME", 1) /\ rounds[appeals[b].source].ended
                BY <4>1, <4>2 DEF FormedInv, FormInv, AppealsAreSourced
            <4>5. appeals[b].attempt = rounds[appeals[b].source].attempt
                BY <4>1, <4>2 DEF FormedInv, AppealsAreFormed, AppealMatter
            <4>6. appeals[b].source \in Ended(EffectiveOf("OVERTIME", 1))
                BY <4>3, <4>4 DEF Ended, EffectiveOf, IsOf
            <4> QED
                BY <2>1, <4>2, <4>5, <4>6 DEF AddsOvertime
        <3> QED
            BY <3>1, <3>2
    <2> QED
        BY <2>1, <2>2, <2>3
<1> QED
    BY <1>3, <1>5, <1>6, <1>7 DEF Settled

\* The tied appeal is the one that a tie-break waits for.
LEMMA TiedIsSettled ==
    ASSUME FormedInv, UniqueInv, ~disordered, match.phase = "OVERTIME_TIEBREAK_DECISION",
           Settled(appeals, match.phase, Effective, Standing, Decided)
    PROVE  /\ OvertimeAppeals # {}
           /\ IsLast(appeals, TiedAppeal, Effective, Standing)
           /\ appeals[TiedAppeal].scope = "OVERTIME" /\ appeals[TiedAppeal].result = "TIE"
<1>1. PICK w \in Standing :
            /\ IsLast(appeals, w, Effective, Standing) /\ appeals[w].scope = "OVERTIME"
            /\ appeals[w].result = "TIE"
            /\ \A b \in Standing : appeals[b].scope = "OVERTIME" => appeals[b].attempt <= appeals[w].attempt
    BY DEF Settled
<1>2. w \in OvertimeAppeals /\ TypeOK
    BY <1>1 DEF OvertimeAppeals, Standing, FormedInv, FormInv, LegalInv
<1> DEFINE t == TiedAppeal
<1>3. t \in OvertimeAppeals /\ \A b \in OvertimeAppeals : appeals[b].attempt <= appeals[t].attempt
    BY <1>2, TiedAppealIsOvertime
<1> HIDE DEF t
<1>4. t \in Standing /\ appeals[t].scope = "OVERTIME" /\ t \in 1 .. nAppeals /\ w \in 1 .. nAppeals
    BY <1>1, <1>3 DEF OvertimeAppeals, Standing
<1>5. appeals[t].attempt \in Nat /\ appeals[w].attempt \in Nat
    BY <1>2, <1>4, AppealColumns
<1>6. appeals[t].attempt = appeals[w].attempt
    BY <1>1, <1>2, <1>3, <1>4, <1>5
<1>7. t = w
    BY <1>1, <1>4, <1>6 DEF UniqueInv, Unique
<1> QED
    BY <1>1, <1>2, <1>7 DEF t

\* The inspector's decision settles the publication.
LEMMA SettledByDecision ==
    ASSUME FormedInv, UniqueInv, ~disordered, Decides(TiedAppeal), Effective' = Effective,
           Settled(appeals, match.phase, Effective, Standing, Decided)
    PROVE  Settled(appeals', match'.phase, Effective', Standing', Decided')
<1> DEFINE t == TiedAppeal
<1>1. /\ IsLast(appeals, t, Effective, Standing)
      /\ appeals[t].scope = "OVERTIME" /\ appeals[t].result = "TIE"
    BY TiedIsSettled DEF Decides
<1>2. Decides(t)
    OBVIOUS
<1> HIDE DEF t
<1>3. /\ Standing' = Standing /\ t \in 1 .. nAppeals /\ nAppeals' = nAppeals
      /\ match'.phase = "RESULT_PUBLICATION_READY"
      /\ \A b \in 1 .. nAppeals : SameAppeal(b)
    BY <1>1, <1>2 DEF Decides, Standing, IsLast
<1>4. appeals[t].winnerBy = 0
    BY <1>2, <1>3 DEF Decides, FormedInv, AppealsAreFormed, AppealFate
<1>5. t \in Decided'
    BY <1>2, <1>3, <1>4 DEF Decides, Decided
<1>6. /\ appeals'[t].scope = "OVERTIME" /\ appeals'[t].result = "TIE"
      /\ \A b \in Standing : appeals'[b].source = appeals[b].source
    BY <1>1, <1>3 DEF SameAppeal, Standing
<1>7. IsLast(appeals', t, Effective', Standing')
    BY <1>1, <1>3, <1>6 DEF IsLast
<1>8. t \in Standing'
    BY <1>7 DEF IsLast
<1> QED
    BY <1>3, <1>5, <1>6, <1>7, <1>8 DEF Settled

\* Every step leaves the phases that wait for a decision with what they need.
LEMMA DecisionStep == OrderInv /\ DecisionInv /\ [Next]_vars => DecisionInv'
<1> SUFFICES ASSUME OrderInv, DecisionInv, [Next]_vars, ~disordered'
             PROVE  \/ Purged(appeals', nAppeals', Effective')
                    \/ Settled(appeals', match'.phase, Effective', Standing', Decided')
    BY SettledSaved DEF DecisionInv
<1>1. FormedInv /\ FormInv /\ LossInv /\ StaleInv /\ UniqueInv /\ CountInv /\ TypeOK
    BY DEF OrderInv, FormedInv, FormInv, LegalInv
<1>2. /\ ~disordered /\ LegalRows /\ UncreatedIsNotDue /\ AppealsAreSourced /\ AppealsLast
      /\ StepKinds
    BY <1>1, OrderedBefore, AppealsLastStep, StepsAreKinds DEF FormInv, LegalInv
<1>3. \/ Purged(appeals, nAppeals, Effective)
      \/ Settled(appeals, match.phase, Effective, Standing, Decided)
    BY <1>2 DEF DecisionInv
<1> DEFINE Goal == \/ Purged(appeals', nAppeals', Effective')
                   \/ Settled(appeals', match'.phase, Effective', Standing', Decided')
<1>4. ASSUME match'.phase \notin {"RESULT_PUBLICATION_READY", "OVERTIME_TIEBREAK_DECISION"} PROVE Goal
    BY <1>4, SettledElsewhere
<1>5. Standing \subseteq 1 .. nAppeals
    BY DEF Standing
<1>6. ASSUME match'.phase = match.phase, Effective' = Effective, AppealsKept PROVE Goal
    <2>1. CASE Purged(appeals, nAppeals, Effective)
        BY <1>1, <1>2, <1>6, <2>1, PurgedStays
    <2>2. CASE Settled(appeals, match.phase, Effective, Standing, Decided)
        <3>1. Standing' \subseteq Standing /\ Decided' = Decided
            BY <1>6, AuditsDiffer DEF AppealsKept, Standing, SameDecision, Decided
        <3>2. ASSUME NEW a \in Standing, appeals[a].source \in Effective PROVE a \in Standing'
            <4>1. a \in 1 .. nAppeals /\ rounds[appeals[a].source].by = 0
                BY <3>2 DEF Standing, Effective
            <4>2. a \notin StaleAppeals
                BY <4>1 DEF StaleAppeals
            <4> QED
                BY <1>6, <3>2, <4>1, <4>2 DEF AppealsKept, Standing
        <3> QED
            BY <1>2, <1>5, <1>6, <2>2, <3>1, <3>2, SettledKept
    <2> QED
        BY <1>3, <2>1, <2>2
<1>7. ASSUME Idles PROVE Goal
    <2>1. RoundsRest /\ AppealsKept /\ IdlePhases(match.phase, match'.phase) /\ Effective' = Effective
        BY <1>1, <1>7, EffectiveGrows DEF Idles
    <2>2. CASE match'.phase = match.phase
        BY <1>6, <2>1, <2>2
    <2>3. CASE match'.phase # match.phase
        <3>1. match'.phase \notin {"RESULT_PUBLICATION_READY", "OVERTIME_TIEBREAK_DECISION"}
            BY <2>1, <2>3 DEF IdlePhases, PausedStatus, ResumedStatus
        <3> QED
            BY <1>4, <3>1
    <2> QED
        BY <2>2, <2>3
<1>8. ASSUME NEW r \in RoundIds, Ends(r) PROVE Goal
    <2>1. match'.phase = PhaseAfter(r)
        BY <1>8 DEF Ends
    <2> QED
        BY <1>4, <2>1 DEF PhaseAfter
<1>9. ASSUME NEW stage, NEW number, Starts(nRounds + 1, stage, number) PROVE Goal
    <2>1. match'.phase \in {"ROUND_1_RUNNING", "ROUND_2_RUNNING", "OVERTIME_RUNNING"}
        BY <1>9 DEF Starts
    <2> QED
        BY <1>4, <2>1
<1>10. ASSUME NEW result \in Colours \cup {"TIE"}, CompleteRegulationAppeal(result) \/ CompleteOvertimeAppeal(result)
       PROVE  Goal
    <2>1. AddsRegulation(nAppeals + 1) \/ AddsOvertime(nAppeals + 1)
        BY <1>1, <1>10, AddsRegulationShape, AddsOvertimeShape
    <2>2. RoundsRest
        BY <1>1, <1>10, DecisionShape
    <2> QED
        BY <1>1, <1>2, <2>1, <2>2, SettledByAppeal
<1>11. ASSUME NEW colour \in Colours, ManualWinner(colour) PROVE Goal
    <2>1. RoundsRest /\ Decides(TiedAppeal)
        BY <1>1, <1>11, DecisionShape, DecidesShape
    <2>2. Effective' = Effective
        BY <1>1, <2>1, EffectiveGrows
    <2>3. CASE Purged(appeals, nAppeals, Effective)
        BY <1>1, <1>2, <2>2, <2>3, PurgedStays
    <2>4. CASE Settled(appeals, match.phase, Effective, Standing, Decided)
        BY <1>1, <1>2, <2>1, <2>2, <2>4, SettledByDecision
    <2> QED
        BY <1>3, <2>3, <2>4
<1>12. ASSUME NEW i \in Instances, NEW j \in OpIds, Undo(i, j) PROVE Goal
    <2>1. Restores(j) /\ Recalls(j)
        BY <1>1, <1>12, UndoShape, RecallsShape
    <2>2. /\ Standing' = Recallable(j) /\ Decided' = DecidedAt(j) /\ Effective' = Restorable(j)
          /\ Lost(j) = {} /\ Applied(j) /\ match'.phase = ops[j].previous.phase
          /\ Recallable(j) \subseteq 1 .. nAppeals
        BY <1>1, <2>1, UndoRecalls, UndoRestores, UndoLosesNothing DEF Restores, Recallable
    <2>3. \/ Purged(appeals, nAppeals, Restorable(j))
          \/ Settled(appeals, ops[j].previous.phase, Restorable(j), Recallable(j), DecidedAt(j))
        BY <1>2, <2>2 DEF DecisionInv
    <2>4. CASE Purged(appeals, nAppeals, Restorable(j))
        BY <1>1, <1>2, <2>2, <2>4, PurgedStays
    <2>5. CASE Settled(appeals, ops[j].previous.phase, Restorable(j), Recallable(j), DecidedAt(j))
        BY <1>2, <2>2, <2>5, SettledKept
    <2> QED
        BY <2>3, <2>4, <2>5
<1>13. ASSUME RestartOvertime PROVE Goal
    <2>1. match'.phase = "OVERTIME_READY"
        BY <1>1, <1>2, <1>13, RestartShape DEF Retires
    <2> QED
        BY <1>4, <2>1
<1>14. ASSUME NEW i \in Instances, NEW mode \in ExitModes, ExitMatch(i, mode) PROVE Goal
    <2>1. /\ match'.phase = RowAfterExit(mode).phase /\ Effective' = Effective \ ExitRounds(mode)
          /\ UNCHANGED <<appeals, nAppeals>>
        BY <1>1, <1>14, ExitShape, InvalidatedSets, ExitWithdraws
    <2>2. CASE mode = "SUSPEND_KEEP_V2_PHASE"
        <3>1. match'.phase = match.phase /\ ExitRounds(mode) = {}
            BY <2>1, <2>2 DEF RowAfterExit, Row, ExitRounds, InvalidatedNumbers
        <3>2. Effective' = Effective
            BY <2>1, <3>1
        <3> QED
            BY <1>6, <2>1, <3>1, <3>2, UntouchedAppeals
    <2>3. CASE mode # "SUSPEND_KEEP_V2_PHASE"
        <3>1. match'.phase \in {"WAITING", "BREAK", "AWAITING_RESULT_SAVE"}
            BY <2>1, <2>3 DEF RowAfterExit, ExitModes, Row, NoRow
        <3> QED
            BY <1>4, <3>1
    <2> QED
        BY <2>2, <2>3
<1>15. ASSUME NEW i \in Instances, NEW entireMatch \in BOOLEAN, CancelResults(i, entireMatch) PROVE Goal
    <2>1. match'.phase \in {"WAITING", "BREAK", "OVERTIME_READY"}
        BY <1>1, <1>15, CancelShape
    <2> QED
        BY <1>4, <2>1
<1> QED
    BY <1>2, <1>7, <1>8, <1>9, <1>10, <1>11, <1>12, <1>13, <1>14, <1>15 DEF StepKinds

-----------------------------------------------------------------------------
(* The published result.                                                    *)

\* The outcome is what the newest effective appeal yields.
OutcomeIsYielded ==
    /\ Publishable # {}
    /\ CanYieldWinner(Latest(Publishable))
    /\ outcome.winner = WinnerOf(Latest(Publishable))

OutcomeInv ==
    ~LegacyAccess =>
        /\ match.phase = "FINISHED" <=> outcome.winner # "NONE"
        /\ outcome.winner # "NONE" => OutcomeIsYielded

\* Without legacy sessions nothing that a result rests on moves once the match
\* is finished.
LEMMA FinishedRests ==
    ASSUME ~LegacyAccess, CrewInv, UncreatedIsNotDue, [Next]_vars, match.phase = "FINISHED"
    PROVE  RoundsRest /\ match'.phase = match.phase /\ UNCHANGED <<appeals, nAppeals, outcome>>
<1>1. LegalInv /\ TypeOK /\ LegalRows /\ ~Authorised /\ match.lifecycle = "COMPLETED"
    BY FinishedIsLeftAlone DEF CrewInv, LegalInv, LegalRows, AgreeingColumns
<1>2. ~Officials
    BY <1>1 DEF Officials, Take, OpenWindow, JudgeAuthorised, RecordFault, CompleteRegulationAppeal,
        CompleteOvertimeAppeal, ReplayRegulationAppeal, RestartOvertime, Publish, MayPublish, ManualWinner,
        SupervisorDecides, Authorised
<1>3. CASE UNCHANGED vars
    BY <1>3, UnchangedRests DEF vars, dbVars, history
<1>4. CASE Clock
    <2>1. RoundsRest /\ match' = match
        BY <1>1, <1>4, ScoringShape DEF Clock
    <2>2. UNCHANGED <<appeals, nAppeals, outcome>>
        BY <1>4 DEF Clock, ResolveWindow, DeadlinePasses
    <2> QED
        BY <2>1, <2>2
<1>5. ASSUME NEW i \in Instances, Command(i) PROVE FALSE
    BY <1>1, <1>5, CommandEffect
<1>6. ASSUME NEW i \in Instances, Process(i)
      PROVE  RoundsRest /\ match'.phase = match.phase /\ UNCHANGED <<appeals, nAppeals, outcome>>
    <2>1. UNCHANGED <<appeals, nAppeals, outcome>>
        BY <1>6 DEF Process, TimerFires, HandleExpiration, HandlerFails, Crash, Restart, RestartFails, dbVars
    <2>2. \A r \in RoundIds : ~Ends(r)
        BY DEF Ends, Expirable, RunningStatus
    <2> QED
        BY <1>1, <1>6, <2>1, <2>2, ProcessShape
<1> QED
    BY <1>2, <1>3, <1>4, <1>5, <1>6 DEF Next

\* Only a publication finishes a match.
LEMMA OnlyPublishFinishes ==
    ASSUME ~LegacyAccess, CrewInv, [Next]_vars, match.phase # "FINISHED", ~Publish
    PROVE  match'.phase # "FINISHED" /\ UNCHANGED outcome
<1>1. LegalInv /\ TypeOK /\ LegalRows /\ match.lifecycle # "COMPLETED" /\ NoFinishedSaved
    BY DEF CrewInv, LegalInv, LegalRows, AgreeingColumns
<1>2. match'.phase = "FINISHED" <=> match'.lifecycle = "COMPLETED"
    BY CrewInductive DEF CrewInv, LegalInv, LegalRows, AgreeingColumns
<1>3. ASSUME Quiet PROVE match'.lifecycle # "COMPLETED" /\ UNCHANGED outcome
    BY <1>1, <1>3 DEF Quiet
<1>4. ASSUME Take PROVE match'.lifecycle # "COMPLETED" /\ UNCHANGED outcome
    <2>1. /\ match'.lifecycle = IF match.lifecycle = "SUSPENDED" THEN "IN_PROGRESS" ELSE match.lifecycle
          /\ UNCHANGED outcome
        BY <1>4 DEF Take, WriteMatch, Row
    <2> QED
        BY <1>1, <2>1
<1>5. ASSUME NEW i \in Instances, Command(i) PROVE match'.lifecycle # "COMPLETED" /\ UNCHANGED outcome
    <2>1. UNCHANGED outcome
        BY <1>1, <1>5, CommandEffect
    <2>2. ASSUME NEW k \in 1 .. nOps, match'.lifecycle = ops[k].previous.lifecycle
          PROVE  match'.lifecycle # "COMPLETED"
        BY <1>1, <2>2 DEF NoFinishedSaved, LegalRows, AgreeingColumns
    <2> QED
        BY <1>1, <1>3, <1>5, <2>1, <2>2, CommandEffect
<1>6. ASSUME NEW i \in Instances, Process(i) PROVE Quiet
    BY <1>1, <1>6, ProcessIsQuiet
<1>7. CASE Clock \/ UNCHANGED vars
    BY <1>2, <1>3, <1>7 DEF Clock, ResolveWindow, DeadlinePasses, vars, dbVars, Quiet
<1> QED
    BY <1>2, <1>3, <1>4, <1>5, <1>6, <1>7, OfficialsAreQuiet DEF Next

\* What the publication reads is the same when appeals and audits are.
LEMMA PublishableKept ==
    ASSUME FormInv, RoundsRest, UNCHANGED <<appeals, nAppeals>>
    PROVE  /\ Publishable' = Publishable
           /\ \A a : (CanYieldWinner(a)' <=> CanYieldWinner(a)) /\ WinnerOf(a)' = WinnerOf(a)
<1>1. \A a \in 1 .. nAppeals : appeals[a].source \in RoundIds
    BY CreatedAreRounds DEF FormInv, LegalInv, AppealsAreSourced
<1>2. \A a \in 1 .. nAppeals : rounds'[appeals[a].source].by = rounds[appeals[a].source].by
    BY <1>1 DEF RoundsRest, SameRound
<1>3. Publishable' = Publishable
    BY <1>2 DEF Publishable
<1>4. \A a : (CanYieldWinner(a)' <=> CanYieldWinner(a)) /\ WinnerOf(a)' = WinnerOf(a)
    BY DEF CanYieldWinner, WinnerOf, HasDecision
<1> QED
    BY <1>3, <1>4

\* A published result is not moved by any step.
LEMMA OutcomeStep == FormInv /\ CrewInv /\ OutcomeInv /\ [Next]_vars => OutcomeInv'
<1> SUFFICES ASSUME FormInv, CrewInv, OutcomeInv, [Next]_vars, ~LegacyAccess
             PROVE  /\ match'.phase = "FINISHED" <=> outcome'.winner # "NONE"
                    /\ outcome'.winner # "NONE" => OutcomeIsYielded'
    BY DEF OutcomeInv
<1>0. TypeOK /\ UncreatedIsNotDue
    BY DEF FormInv, LegalInv
<1>1. CASE match.phase = "FINISHED"
    <2>1. RoundsRest /\ match'.phase = match.phase /\ UNCHANGED <<appeals, nAppeals, outcome>>
        BY <1>0, <1>1, FinishedRests
    <2>2. outcome.winner # "NONE" /\ OutcomeIsYielded
        BY <1>1 DEF OutcomeInv
    <2>3. Publishable' = Publishable
        BY <2>1, PublishableKept
    <2>4. PICK a : a = Latest(Publishable)
        OBVIOUS
    <2>5. CanYieldWinner(a)' /\ WinnerOf(a)' = outcome'.winner
        BY <2>1, <2>2, <2>4, PublishableKept DEF OutcomeIsYielded
    <2>6. Latest(Publishable)' = a
        BY <2>3, <2>4 DEF Latest
    <2>7. CanYieldWinner(Latest(Publishable))' /\ WinnerOf(Latest(Publishable))' = outcome'.winner
        BY <2>5, <2>6 DEF CanYieldWinner, WinnerOf, HasDecision
    <2>8. OutcomeIsYielded'
        BY <2>2, <2>3, <2>7 DEF OutcomeIsYielded
    <2> QED
        BY <1>1, <2>1, <2>2, <2>8
<1>2. CASE match.phase # "FINISHED" /\ ~Publish
    <2>1. match'.phase # "FINISHED" /\ UNCHANGED outcome
        BY <1>2, OnlyPublishFinishes
    <2>2. ~(outcome.winner # "NONE")
        BY <1>2 DEF OutcomeInv
    <2> QED
        BY <2>1, <2>2
<1>3. CASE Publish
    <2>1. /\ outcome'.winner = WinnerOf(Latest(Publishable)) /\ match'.phase = "FINISHED"
          /\ UNCHANGED <<appeals, nAppeals, rounds>>
          /\ Publishable # {} /\ CanYieldWinner(Latest(Publishable))
        BY <1>3 DEF Publish, WriteMatch, Row
    <2>2. outcome'.winner # "NONE"
        BY <1>0, <1>3, <2>1, WinnerIsColour DEF Colours, Publish
    <2>3. Publishable' = Publishable
        BY <2>1 DEF Publishable
    <2>4. Latest(Publishable)' = Latest(Publishable)
        BY <2>3 DEF Latest
    <2>5. /\ CanYieldWinner(Latest(Publishable))' <=> CanYieldWinner(Latest(Publishable))
          /\ WinnerOf(Latest(Publishable))' = WinnerOf(Latest(Publishable))
        BY <2>1, <2>4 DEF CanYieldWinner, WinnerOf, HasDecision
    <2>6. OutcomeIsYielded'
        BY <2>1, <2>3, <2>5 DEF OutcomeIsYielded
    <2> QED
        BY <2>1, <2>2, <2>6
<1> QED
    BY <1>1, <1>2, <1>3

\* What the published result rests on.
ResultInv == OrderInv /\ SecondInv /\ PairInv /\ DecisionInv /\ CrewInv /\ OutcomeInv

\* Every step keeps it, and it holds at first.
LEMMA ResultInductive ==
    /\ Init => ResultInv
    /\ ResultInv /\ [Next]_vars => ResultInv'
<1>1. ASSUME Init PROVE ResultInv
    <2>1. OrderInv /\ CrewInv /\ nAppeals = 0 /\ nRounds = 0 /\ match.phase = "WAITING" /\ outcome.winner = "NONE"
        BY <1>1, OrderInit, CrewInductive DEF Init
    <2>2. \A k \in OpIds : ~Applied(k)
        BY <1>1 DEF Init, NoOp, Applied
    <2>3. 1 .. nAppeals = {} /\ Effective = {}
        BY <2>1 DEF Effective, Created
    <2>4. SecondInv /\ PairInv /\ DecisionInv
        BY <2>1, <2>2, <2>3 DEF SecondInv, NoSecond, PairInv, DecisionInv, Settled
    <2>5. OutcomeInv
        BY <2>1 DEF OutcomeInv
    <2> QED
        BY <2>1, <2>4, <2>5 DEF ResultInv
<1>2. ASSUME ResultInv, [Next]_vars PROVE ResultInv'
    <2>1. OrderInv' /\ SecondInv' /\ PairInv' /\ DecisionInv'
        BY <1>2, OrderStep, SecondStep, PairStep, DecisionStep DEF ResultInv
    <2>2. CrewInv'
        BY <1>2, CrewInductive DEF ResultInv
    <2>3. OutcomeInv'
        BY <1>2, OutcomeStep DEF ResultInv, OrderInv, FormedInv
    <2> QED
        BY <2>1, <2>2, <2>3 DEF ResultInv
<1> QED
    BY <1>1, <1>2

\* The newest standing appeal over an effective round is the one published.
LEMMA LastIsPublished ==
    ASSUME FormedInv, NEW w, IsLast(appeals, w, Effective, Standing)
    PROVE  Publishable # {} /\ Latest(Publishable) = w
<1>1. TypeOK /\ nAppeals \in Nat
    BY DEF FormedInv, FormInv, LegalInv, TypeOK
<1>2. Publishable = {a \in Standing : appeals[a].source \in Effective}
    BY DEF Publishable, Standing, Effective, FormedInv, FormInv, AppealsAreSourced
<1>3. w \in Publishable /\ \A b \in Publishable : b <= w
    BY <1>2 DEF IsLast
<1>4. \A b \in Publishable : b \in Nat
    BY <1>1 DEF Publishable
<1>5. Latest(Publishable) \in Publishable /\ \A b \in Publishable : b <= Latest(Publishable)
    <2>1. Publishable \in SUBSET (0 .. MaxAppeals) /\ Publishable # {}
        BY <1>1, <1>3 DEF Publishable, TypeOK
    <2> QED
        BY <2>1, LatestIsMember
<1> QED
    BY <1>3, <1>4, <1>5

\* The phases that wait for a decision can be left.
LEMMA DecisionsAreBacked == ResultInv => DecisionPhasesAreBacked
<1> SUFFICES ASSUME ResultInv, ~disordered, ~AppealsRetired
             PROVE  /\ match.phase = "RESULT_PUBLICATION_READY" =>
                           Publishable # {} /\ CanYieldWinner(Latest(Publishable))
                    /\ match.phase = "OVERTIME_TIEBREAK_DECISION" =>
                           OvertimeAppeals # {} /\ appeals[TiedAppeal].result = "TIE"
    BY DEF DecisionPhasesAreBacked
<1>1. FormedInv /\ UniqueInv
    BY DEF ResultInv, OrderInv
<1>2. ~Purged(appeals, nAppeals, Effective)
    BY DEF Purged, AppealsRetired, Effective
<1>3. Settled(appeals, match.phase, Effective, Standing, Decided)
    BY <1>2 DEF ResultInv, DecisionInv
<1>4. ASSUME match.phase = "RESULT_PUBLICATION_READY"
      PROVE  Publishable # {} /\ CanYieldWinner(Latest(Publishable))
    <2>1. PICK w \in Standing :
                /\ IsLast(appeals, w, Effective, Standing)
                /\ w \in Decided => appeals[w].scope = "OVERTIME" /\ appeals[w].result = "TIE"
                /\ w \notin Decided => appeals[w].result # "TIE"
        BY <1>3, <1>4 DEF Settled
    <2>2. HasDecision(w) <=> w \in Decided
        BY DEF HasDecision, Decided, Standing
    <2>3. CanYieldWinner(w)
        BY <2>1, <2>2 DEF CanYieldWinner
    <2> QED
        BY <1>1, <2>1, <2>3, LastIsPublished
<1>5. ASSUME match.phase = "OVERTIME_TIEBREAK_DECISION"
      PROVE  OvertimeAppeals # {} /\ appeals[TiedAppeal].result = "TIE"
    BY <1>1, <1>3, <1>5, TiedIsSettled
<1> QED
    BY <1>4, <1>5

\* Appeals are unique, a phase that waits for a decision has what it needs, and
\* a published result is the one that the newest effective appeal yields, over
\* effective ended rounds; nothing moves it afterwards.
THEOREM PublishedIsBacked == Spec => []PublishedResultIsBacked
<1>1. ASSUME ResultInv PROVE PublishedResultIsBacked
    <2>1. FormedInv /\ UniqueInv /\ PairInv /\ OutcomeInv /\ TypeOK
        BY <1>1 DEF ResultInv, OrderInv, FormedInv, FormInv, LegalInv
    <2>2. OneEffectiveAppeal
        BY <2>1 DEF OneEffectiveAppeal, UniqueInv, Unique, Standing
    <2>3. DecisionPhasesAreBacked
        BY <1>1, DecisionsAreBacked
    <2>4. ASSUME ~LegacyAccess
          PROVE  /\ (match.phase = "FINISHED") = (outcome.winner # "NONE")
                 /\ outcome.winner # "NONE" => OutcomeIsYielded
        BY <2>1, <2>4 DEF OutcomeInv
    <2>5. ASSUME OutcomeIsYielded, ~disordered
          PROVE  appeals[Latest(Publishable)].rounds \subseteq Ended(Effective)
        <3> DEFINE a == Latest(Publishable)
        <3>1. a \in Publishable
            <4>1. Publishable \in SUBSET (0 .. MaxAppeals) /\ Publishable # {}
                BY <2>1, <2>5 DEF Publishable, OutcomeIsYielded, TypeOK
            <4> QED
                BY <4>1, LatestIsMember
        <3> HIDE DEF a
        <3>2. a \in 1 .. nAppeals /\ rounds[appeals[a].source].by = 0
            BY <3>1 DEF Publishable
        <3>3. ASSUME NEW r \in appeals[a].rounds PROVE r \in Ended(Effective)
            <4>1. rounds[r].by = 0
                BY <2>1, <2>5, <3>2 DEF PairInv, Together
            <4>2. r \in Created /\ rounds[r].ended
                BY <2>1, <3>2 DEF FormedInv, AppealsAreFormed, AppealMatter
            <4> QED
                BY <4>1, <4>2 DEF Ended, Effective
        <3> QED
            BY <3>3 DEF a
    <2> QED
        BY <2>2, <2>3, <2>4, <2>5 DEF PublishedResultIsBacked, OutcomeIsYielded
<1> QED
    BY <1>1, ResultInductive, PTL DEF Spec

-----------------------------------------------------------------------------
(* No round that an operation found open is ended before the operation is   *)
(* undone: while it is running again another open round must have started.  *)

\* An operation finds open the rounds that started before it and have not ended.
OpenInv ==
    ~disordered => \A k \in OpIds : Applied(k) =>
        /\ \A r \in ops[k].open : r \in Created /\ rounds[r].stamp < k
        /\ \A r \in Created : rounds[r].stamp < k /\ ~rounds[r].ended => r \in ops[k].open

\* The rounds that operation k found open and that have ended since.
Spent(k) == {r \in ops[k].open : rounds[r].ended}

\* The open effective rounds started since operation k, now and as operation j
\* found them.
OpenSince(k) == {r \in Effective : ~rounds[r].ended /\ rounds[r].stamp >= k}
SavedSince(j, k) == {r \in ops[j].before \cap ops[j].open : rounds[r].stamp >= k}

Load(phase) == IF phase \in InPlay THEN 1 ELSE 0

\* Between two phases no more rounds end than start.
Even(spent, open, from, to) == Cardinality(spent) + Load(to) <= Cardinality(open) + Load(from)

SpentInv ==
    ~disordered => \A k \in OpIds : Applied(k) =>
        /\ Newest(k) => Even(Spent(k), OpenSince(k), ops[k].resulting.phase, match.phase)
        /\ \A j \in OpIds : Applied(j) /\ Adjacent(k, j) /\ Spent(j) = {} =>
               Even(Spent(k), SavedSince(j, k), ops[k].resulting.phase, ops[j].previous.phase)

\* Only its expiration ends a round.
LEMMA OnlyTimersEnd ==
    ASSUME FormInv, [Next]_vars, NEW r \in Created, rounds'[r].ended # rounds[r].ended
    PROVE  Ends(r)
<1>1. TypeOK /\ LegalRows /\ UncreatedIsNotDue /\ AppealsAreSourced /\ r \in RoundIds
    BY CreatedAreRounds DEF FormInv, LegalInv
<1>2. ~RoundsRest
    BY <1>1 DEF RoundsRest, SameRound
<1>3. \A q \in RoundIds : Ends(q) => q = r
    BY <1>1 DEF Ends, SameRound
<1>4. ASSUME NEW q, Retires(q) PROVE FALSE
    <2>1. rounds[r] \in RoundType /\ rounds[r].ended \in BOOLEAN
        BY <1>1 DEF TypeOK, RoundType
    <2>2. CASE r = q
        BY <1>4, <2>1, <2>2 DEF Retires
    <2>3. CASE r # q
        BY <1>1, <1>4, <2>3 DEF Retires, SameRound
    <2> QED
        BY <2>2, <2>3
<1>5. \A stage, number : ~Starts(nRounds + 1, stage, number)
    <2>1. r # nRounds + 1
        BY <1>1 DEF Created, TypeOK
    <2> QED
        BY <1>1, <2>1 DEF Starts, SameRound
<1>6. \A S : ~Invalidates(S)
    BY <1>1 DEF Invalidates
<1>7. \A k : ~Restores(k)
    BY <1>1 DEF Restores
<1> QED
    BY <1>1, <1>2, <1>3, <1>4, <1>5, <1>6, <1>7, StepShape, StartShape, ExitShape, CancelShape, UndoShape,
       RestartShape

\* Every step keeps what operations found open.
LEMMA OpenStep == FormedInv /\ OpenInv /\ [Next]_vars => OpenInv'
<1> SUFFICES ASSUME FormedInv, OpenInv, [Next]_vars, ~disordered', NEW k \in OpIds, Applied(k)'
             PROVE  /\ \A r \in ops'[k].open : r \in Created' /\ rounds'[r].stamp < k
                    /\ \A r \in Created' : rounds'[r].stamp < k /\ ~rounds'[r].ended => r \in ops'[k].open
    BY DEF OpenInv
<1>1. FormInv /\ TypeOK /\ ~disordered /\ RoundsStay /\ RoundsAreFormed /\ k \in Nat /\ nOps \in Nat
    BY OrderedBefore, RoundsStayStep DEF FormedInv, FormInv, LegalInv, OpIds, TypeOK
<1>2. CASE Applied(k)
    <2>1. ops'[k] = ops[k] /\ k <= nOps
        BY <1>1, <1>2, SavedRounds, AppliedNumbers DEF Applied
    <2>2. /\ \A r \in ops[k].open : r \in Created /\ rounds[r].stamp < k
          /\ \A r \in Created : rounds[r].stamp < k /\ ~rounds[r].ended => r \in ops[k].open
        BY <1>1, <1>2 DEF OpenInv
    <2>3. ASSUME NEW r \in Created', r \notin Created PROVE rounds'[r].stamp = nOps
        <3>1. PICK stage, number : Starts(nRounds + 1, stage, number)
            <4>1. ~RoundsRest /\ (\A q \in RoundIds : ~Ends(q)) /\ (\A q : ~Retires(q))
                  /\ (\A S : ~Invalidates(S)) /\ (\A j : ~Restores(j))
                BY <2>3 DEF RoundsRest, Ends, Retires, Invalidates, Restores, Created
            <4> QED
                BY <1>1, <4>1, StepShape, StartShape, ExitShape, CancelShape, UndoShape, RestartShape
                   DEF FormInv, LegalInv
        <3>2. r = nRounds + 1
            BY <1>1, <2>3, <3>1 DEF Starts, Created, TypeOK
        <3> QED
            BY <3>1, <3>2 DEF Starts
    <2>4. ASSUME NEW r \in ops'[k].open PROVE r \in Created' /\ rounds'[r].stamp < k
        BY <1>1, <2>1, <2>2 DEF RoundsStay, SameIdentity
    <2>5. ASSUME NEW r \in Created', rounds'[r].stamp < k, ~rounds'[r].ended PROVE r \in ops'[k].open
        <3>1. r \in Created
            BY <1>1, <2>1, <2>3, <2>5
        <3>2. rounds[r].stamp < k /\ ~rounds[r].ended
            BY <1>1, <2>5, <3>1 DEF RoundsStay, SameIdentity
        <3> QED
            BY <2>1, <2>2, <3>1, <3>2
    <2> QED
        BY <2>4, <2>5
<1>3. CASE ~Applied(k)
    <2>1. k = nOps + 1 /\ \E S : Invalidates(S)
        BY <1>3, NewlySaved
    <2>2. /\ ops'[k].open = OpenRounds /\ Created' = Created
          /\ \A r \in RoundIds : rounds'[r].stamp = rounds[r].stamp /\ rounds'[r].ended = rounds[r].ended
        BY <2>1 DEF Invalidates, SameIdentity, Created
    <2>3. \A r \in Created : r \in RoundIds /\ rounds[r].stamp \in Nat /\ rounds[r].stamp <= nOps
        BY <1>1, RoundNumbers DEF RoundsAreFormed, FormedRound
    <2>4. \A r \in Created : rounds[r].stamp < k
        BY <1>1, <2>1, <2>3
    <2> QED
        BY <2>2, <2>3, <2>4 DEF OpenRounds
<1> QED
    BY <1>2, <1>3

\* An undo in order finds open what the operation found open.
LEMMA UndoSpendsNothing ==
    ASSUME OrderInv, OpenInv, SpentInv, NEW k \in OpIds, Restores(k), ~disordered'
    PROVE  Spent(k) = {} /\ Effective' = ops[k].before /\ Applied(k) /\ Newest(k) /\ ~disordered
<1>1. FormedInv /\ FormInv /\ TypeOK /\ LossInv /\ CountInv
    BY DEF OrderInv, FormedInv, FormInv, LegalInv
<1>2. Lost(k) = {} /\ Applied(k) /\ Newest(k) /\ ~disordered /\ Effective' = Restorable(k)
    BY <1>1, UndoLosesNothing, UndoRestores
<1>3. ops[k].before = Effective'
    BY <1>1, <1>2 DEF LossInv, Recoups
<1>4. match.phase = ops[k].resulting.phase /\ \A r \in Effective : rounds[r].stamp < k
    BY DEF Restores, UndoAllowed, NoActivitySince
<1>5. OpenSince(k) = {}
    <2>1. \A r \in Effective : rounds[r].stamp \in Nat /\ k \in Nat
        BY <1>1, RoundNumbers DEF Effective, OpIds
    <2> QED
        BY <1>4, <2>1 DEF OpenSince
<1>6. Spent(k) \subseteq RoundIds
    BY <1>1, <1>2, CreatedAreRounds DEF Spent, OpenInv
<1>7. Even(Spent(k), {}, match.phase, match.phase)
    BY <1>2, <1>4, <1>5 DEF SpentInv
<1>8. Cardinality(Spent(k)) \in Nat /\ Cardinality({}) = 0 /\ Load(match.phase) \in Nat
    BY <1>6, RoundSets, FS_EmptySet DEF Load
<1>9. Cardinality(Spent(k)) = 0
    BY <1>7, <1>8 DEF Even
<1> QED
    BY <1>2, <1>3, <1>6, <1>9, RoundSets

\* Sizes and loads are numbers.
LEMMA SpentCounts ==
    ASSUME FormInv, OpenInv, ~disordered, NEW k \in OpIds, Applied(k)
    PROVE  /\ Spent(k) \subseteq RoundIds /\ Cardinality(Spent(k)) \in Nat
           /\ OpenSince(k) \subseteq RoundIds /\ Cardinality(OpenSince(k)) \in Nat
           /\ \A phase : Load(phase) \in {0, 1} /\ (Load(phase) = 1 <=> phase \in InPlay)
<1>1. TypeOK /\ \A r \in Created : r \in RoundIds
    BY CreatedAreRounds DEF FormInv, LegalInv
<1>2. Spent(k) \subseteq RoundIds /\ OpenSince(k) \subseteq RoundIds
    BY <1>1 DEF Spent, OpenSince, OpenInv, Effective
<1>3. \A phase : Load(phase) \in {0, 1} /\ (Load(phase) = 1 <=> phase \in InPlay)
    BY DEF Load
<1> QED
    BY <1>2, <1>3, RoundSets

\* The newest operation through the steps that neither apply nor undo one.
LEMMA EvenRests ==
    ASSUME OrderInv, OpenInv, SpentInv, [Next]_vars, ~disordered', NEW k \in OpIds, Applied(k), Applied(k)',
           Newest(k),
           \/ RoundsRest /\ PhaseDrifts
           \/ \E r \in RoundIds : Ends(r)
           \/ \E i \in Instances : StartRound(i)
           \/ RestartOvertime
    PROVE  Even(Spent(k)', OpenSince(k)', ops'[k].resulting.phase, match'.phase)
<1>1. FormedInv /\ FormInv /\ TypeOK /\ AppealsAreSourced /\ LegalRows /\ UncreatedIsNotDue
    BY DEF OrderInv, FormedInv, FormInv, LegalInv
<1>2. ~disordered /\ ops'[k] = ops[k]
    BY <1>1, OrderedBefore, SavedRounds
<1>3. Even(Spent(k), OpenSince(k), ops[k].resulting.phase, match.phase)
    BY <1>2 DEF SpentInv
<1>4. /\ \A r \in Created : r \in RoundIds /\ rounds[r] \in RoundType /\ rounds[r].stamp \in Nat
      /\ k \in Nat /\ k <= nOps /\ nOps \in Nat
      /\ \A r \in ops[k].open : r \in Created /\ rounds[r].stamp < k
    BY <1>1, <1>2, RoundNumbers, AppliedNumbers DEF OpenInv, Applied
<1>5. /\ Spent(k) \subseteq RoundIds /\ Cardinality(Spent(k)) \in Nat
      /\ OpenSince(k) \subseteq RoundIds /\ Cardinality(OpenSince(k)) \in Nat
      /\ \A phase : Load(phase) \in {0, 1} /\ (Load(phase) = 1 <=> phase \in InPlay)
    BY <1>1, <1>2, SpentCounts
<1> DEFINE Goal == Even(Spent(k)', OpenSince(k)', ops'[k].resulting.phase, match'.phase)
<1>6. ASSUME Spent(k)' = Spent(k), OpenSince(k)' = OpenSince(k), match'.phase \in InPlay => match.phase \in InPlay
      PROVE  Goal
    BY <1>2, <1>3, <1>5, <1>6 DEF Even
<1>7. ASSUME RoundsRest, PhaseDrifts PROVE Goal
    <2>1. Effective' = Effective /\ \A r \in Created : SameRound(r)
        BY <1>1, <1>4, <1>7, EffectiveGrows DEF RoundsRest
    <2>2. Spent(k)' = Spent(k)
        BY <1>2, <1>4, <2>1 DEF Spent, SameRound
    <2>3. OpenSince(k)' = OpenSince(k)
        BY <2>1 DEF OpenSince, SameRound, SameIdentity, Effective
    <2>4. match'.phase \in InPlay => match.phase \in InPlay
        BY <1>7, BackedDrifts DEF PhaseDrifts
    <2> QED
        BY <1>6, <2>2, <2>3, <2>4
<1>8. ASSUME NEW r \in RoundIds, Ends(r) PROVE Goal
    <2>1. /\ Effective' = Effective /\ r \in Created /\ ~rounds[r].ended /\ rounds'[r].ended
          /\ \A q \in Created : SameIdentity(q) /\ (q # r => rounds'[q].ended = rounds[q].ended)
        BY <1>1, <1>4, <1>8, EffectiveGrows DEF Ends, Expirable, SameRound
    <2>2. match.phase \in InPlay /\ match'.phase \notin InPlay
        BY <1>8 DEF Ends, Expirable, RunningStatus, PhaseAfter, InPlay, RunningPhases, PausedPhases
    <2>3. CASE r \in ops[k].open
        <3>1. Spent(k)' = Spent(k) \cup {r} /\ r \notin Spent(k)
            BY <1>2, <1>4, <2>1, <2>3 DEF Spent
        <3>2. OpenSince(k)' = OpenSince(k)
            <4>1. ~(rounds[r].stamp >= k)
                BY <1>4, <2>3
            <4> QED
                BY <2>1, <4>1 DEF OpenSince, SameIdentity, Effective
        <3>3. Cardinality(Spent(k) \cup {r}) = Cardinality(Spent(k)) + 1
            BY <1>5, <3>1, RoundSets
        <3> QED
            BY <1>2, <1>3, <1>5, <2>2, <3>1, <3>2, <3>3 DEF Even
    <2>4. CASE r \notin ops[k].open
        <3>1. Spent(k)' = Spent(k)
            BY <1>2, <1>4, <2>1, <2>4 DEF Spent
        <3>2. OpenSince(k)' = OpenSince(k) \ {r}
            BY <2>1 DEF OpenSince, SameIdentity, Effective
        <3>3. Cardinality(OpenSince(k) \ {r}) \in Nat /\ Cardinality(OpenSince(k)) <= Cardinality(OpenSince(k) \ {r}) + 1
            <4>1. CASE r \in OpenSince(k)
                BY <1>5, <4>1, RoundSets
            <4>2. CASE r \notin OpenSince(k)
                <5>1. OpenSince(k) \ {r} = OpenSince(k)
                    BY <4>2
                <5> QED
                    BY <1>5, <5>1
            <4> QED
                BY <4>1, <4>2
        <3> QED
            BY <1>2, <1>3, <1>5, <2>2, <3>1, <3>2, <3>3 DEF Even
    <2> QED
        BY <2>3, <2>4
<1>9. ASSUME NEW i \in Instances, StartRound(i) PROVE Goal
    <2>1. PICK stage, number : Starts(nRounds + 1, stage, number)
        BY <1>1, <1>9, StartShape
    <2> DEFINE n == nRounds + 1
    <2>2. Starts(n, stage, number) /\ Effective' = Effective \cup {n} /\ n \notin Created
        BY <1>1, <2>1, EffectiveGrows
    <2> HIDE DEF n
    <2>3. /\ rounds'[n].stamp = nOps /\ ~rounds'[n].ended
          /\ \A q \in Created : SameIdentity(q) /\ rounds'[q].ended = rounds[q].ended
        BY <1>4, <2>2 DEF Starts, SameRound
    <2>4. Spent(k)' = Spent(k)
        BY <1>2, <1>4, <2>3 DEF Spent
    <2>5. OpenSince(k)' = OpenSince(k) \cup {n} /\ n \notin OpenSince(k)
        BY <1>4, <2>2, <2>3 DEF OpenSince, SameIdentity, Effective
    <2>6. Cardinality(OpenSince(k) \cup {n}) = Cardinality(OpenSince(k)) + 1
        BY <1>5, <2>5, RoundSets
    <2>7. match.phase \notin InPlay
        BY <2>2 DEF Starts, InPlay, RunningPhases, PausedPhases
    <2> QED
        BY <1>2, <1>3, <1>5, <2>4, <2>5, <2>6, <2>7 DEF Even
<1>10. ASSUME RestartOvertime PROVE Goal
    <2>1. PICK q : Retires(q)
        BY <1>1, <1>10, RestartShape
    <2>2. /\ Effective' = Effective \ {q} /\ rounds[q].ended /\ rounds'[q].ended
          /\ \A r \in Created : SameIdentity(r) /\ (r # q => rounds'[r].ended = rounds[r].ended)
        BY <1>1, <1>4, <2>1, SavedRetires DEF Retires, SameRound
    <2>3. Spent(k)' = Spent(k)
        BY <1>2, <1>4, <2>2 DEF Spent
    <2>4. OpenSince(k)' = OpenSince(k)
        BY <2>2 DEF OpenSince, SameIdentity, Effective
    <2>5. match'.phase \notin InPlay
        BY <2>1 DEF Retires, InPlay, RunningPhases, PausedPhases
    <2> QED
        BY <1>6, <2>3, <2>4, <2>5
<1> QED
    BY <1>7, <1>8, <1>9, <1>10

\* What operation k found open ends for an operation j that was applied later, too.
LEMMA SpentKept ==
    ASSUME FormedInv, OpenInv, [Next]_vars, ~disordered', NEW k \in OpIds, Applied(k), Applied(k)',
           \A r \in ops[k].open : ~Ends(r)
    PROVE  Spent(k)' = Spent(k) /\ ops'[k] = ops[k]
<1>1. FormInv /\ ~disordered
    BY OrderedBefore DEF FormedInv
<1>2. ops'[k] = ops[k]
    BY <1>1, SavedRounds
<1>3. \A r \in ops[k].open : r \in Created
    BY <1>1 DEF OpenInv
<1>4. \A r \in ops[k].open : rounds'[r].ended = rounds[r].ended
    BY <1>1, <1>3, OnlyTimersEnd
<1> QED
    BY <1>2, <1>4 DEF Spent

\* Two operations applied one after the other.
LEMMA EvenSaved ==
    ASSUME OrderInv, OpenInv, SpentInv, [Next]_vars, ~disordered', NEW k \in OpIds, NEW j \in OpIds,
           Applied(k)', Applied(j)', Adjacent(k, j)', Spent(j)' = {}
    PROVE  Even(Spent(k)', SavedSince(j, k)', ops'[k].resulting.phase, ops'[j].previous.phase)
<1>1. FormedInv /\ FormInv /\ LossInv
    BY DEF OrderInv, FormedInv
<1>2. ~disordered /\ TypeOK /\ RoundsStay
    BY <1>1, OrderedBefore, RoundsStayStep DEF FormInv, LegalInv
<1>3. k \in Nat /\ j \in Nat /\ k < j /\ nOps \in Nat
    BY <1>2 DEF OpIds, Adjacent, TypeOK
<1>4. Applied(k)
    <2>1. SUFFICES ASSUME ~Applied(k) PROVE FALSE
        OBVIOUS
    <2>2. k = nOps + 1 /\ nOps' = k
        BY <1>1, <2>1, NewlySaved
    <2>3. j \in Nat /\ j <= nOps'
        <3>1. FormInv'
            BY <1>1, FormedStep DEF FormedInv
        <3> QED
            BY <3>1 DEF FormInv, LegalInv, OpsAreRecorded, TypeOK, OpIds, Applied
    <2> QED
        BY <1>3, <2>2, <2>3
<1>5. CASE ~Applied(j)
    <2>1. /\ j = nOps + 1 /\ nOps' = j /\ ops'[j].previous.phase = match.phase
          /\ \E S : Invalidates(S)
        BY <1>1, <1>5, NewlySaved
    <2>2. \A l \in OpIds : Applied(l) => Applied(l)' /\ l \in Nat /\ l <= nOps
        <3>1. SUFFICES ASSUME NEW l \in OpIds, Applied(l) PROVE Applied(l)' /\ l \in Nat /\ l <= nOps
            OBVIOUS
        <3>2. l \in Nat /\ l <= nOps
            BY <1>1, <3>1, AppliedNumbers DEF Applied
        <3>3. Restores(l) => nOps' = nOps
            BY DEF Restores
        <3> QED
            BY <1>1, <1>3, <2>1, <3>1, <3>2, <3>3, AppliedStep
    <2>3. Newest(k)
        BY <1>3, <2>1, <2>2 DEF Adjacent, Newest
    <2>4. Even(Spent(k), OpenSince(k), ops[k].resulting.phase, match.phase)
        BY <1>2, <1>4, <2>3 DEF SpentInv
    <2>5. \A r : ~Ends(r)
        BY <1>3, <2>1 DEF Ends
    <2>6. Spent(k)' = Spent(k) /\ ops'[k] = ops[k]
        BY <1>1, <1>4, <2>5, SpentKept
    <2>7. ops'[j].before = Effective /\ ops'[j].open = OpenRounds
        BY <2>1 DEF Invalidates
    <2>8. \A r \in Created : rounds'[r].stamp = rounds[r].stamp
        BY <1>2 DEF RoundsStay, SameIdentity
    <2>9. SavedSince(j, k)' = OpenSince(k)
        BY <2>7, <2>8 DEF SavedSince, OpenSince, OpenRounds, Effective
    <2> QED
        BY <2>1, <2>4, <2>6, <2>9
<1>6. CASE Applied(j)
    <2>1. ops'[j] = ops[j]
        BY <1>1, <1>6, SavedRounds
    <2>2. Adjacent(k, j)
        <3>1. SUFFICES ASSUME NEW l \in OpIds, Applied(l) PROVE l <= k \/ j <= l
            BY <1>3 DEF Adjacent
        <3>2. CASE Applied(l)'
            BY <3>2 DEF Adjacent
        <3>3. CASE ~Applied(l)'
            BY <1>1, <1>6, <3>1, <3>3, AppliedStep DEF Newest
        <3> QED
            BY <3>2, <3>3
    <2>3. \A r \in ops[j].open : r \in Created /\ rounds[r].stamp < j
        BY <1>2, <1>6 DEF OpenInv
    <2>4. \A r \in ops[j].open : ~Ends(r) /\ ~rounds[r].ended
        BY <1>2, <2>1, <2>3 DEF Spent, Ends, RoundsStay
    <2>5. Spent(j) = {}
        BY <2>4 DEF Spent
    <2>6. Even(Spent(k), SavedSince(j, k), ops[k].resulting.phase, ops[j].previous.phase)
        BY <1>2, <1>4, <1>6, <2>2, <2>5 DEF SpentInv
    <2>7. ASSUME NEW r \in ops[k].open PROVE ~Ends(r)
        <3>1. r \in Created /\ rounds[r].stamp < k /\ rounds[r].stamp \in Nat
            BY <1>2, <1>4, RoundNumbers DEF OpenInv
        <3>2. rounds[r].stamp < j
            BY <1>3, <3>1
        <3>3. CASE rounds[r].ended
            BY <3>3 DEF Ends, Expirable
        <3>4. CASE ~rounds[r].ended
            BY <1>2, <1>6, <2>4, <3>1, <3>2, <3>4 DEF OpenInv
        <3> QED
            BY <3>3, <3>4
    <2>8. Spent(k)' = Spent(k) /\ ops'[k] = ops[k]
        BY <1>1, <1>4, <2>7, SpentKept
    <2>9. SavedSince(j, k)' = SavedSince(j, k)
        BY <1>2, <2>1, <2>3 DEF SavedSince, RoundsStay, SameIdentity
    <2> QED
        BY <2>1, <2>6, <2>8, <2>9
<1> QED
    BY <1>5, <1>6

\* The newest operation left when the one after it is undone.
LEMMA EvenUndone ==
    ASSUME OrderInv, OpenInv, SpentInv, [Next]_vars, ~disordered', NEW k \in OpIds, Applied(k), Applied(k)',
           Newest(k)', NEW l \in OpIds, Restores(l)
    PROVE  Even(Spent(k)', OpenSince(k)', ops'[k].resulting.phase, match'.phase)
<1>1. FormedInv /\ FormInv /\ LossInv /\ TypeOK /\ k \in Nat
    BY DEF OrderInv, FormedInv, FormInv, LegalInv, OpIds
<1>2. Spent(l) = {} /\ Effective' = ops[l].before /\ Applied(l) /\ Newest(l) /\ ~disordered
    BY UndoSpendsNothing
<1>3. k # l /\ match'.phase = ops[l].previous.phase /\ \A j \in OpIds : j # l /\ Applied(j) => Applied(j)'
    BY DEF Restores, Applied
<1>4. Adjacent(k, l)
    <2>1. k < l /\ l \in Nat
        BY <1>1, <1>2, <1>3 DEF Newest, OpIds
    <2>2. ASSUME NEW j \in OpIds, Applied(j) PROVE j <= k \/ l <= j
        <3>1. CASE j = l
            BY <2>1, <3>1
        <3>2. CASE j # l
            BY <1>3, <2>2, <3>2 DEF Newest
        <3> QED
            BY <3>1, <3>2
    <2> QED
        BY <2>1, <2>2 DEF Adjacent
<1>5. Even(Spent(k), SavedSince(l, k), ops[k].resulting.phase, ops[l].previous.phase)
    BY <1>2, <1>4 DEF SpentInv
<1>6. \A r : ~Ends(r)
    BY <1>2 DEF Ends, Restores, Applied
<1>7. Spent(k)' = Spent(k) /\ ops'[k] = ops[k]
    BY <1>1, <1>6, SpentKept
<1>8. \A r \in ops[l].before : r \in Created /\ rounds[r].stamp < l
    BY <1>1, <1>2 DEF LossInv, Recoups
<1>9. \A r \in Created : rounds'[r].stamp = rounds[r].stamp /\ rounds'[r].ended = rounds[r].ended
    BY <1>1, CreatedAreRounds DEF Restores, SameIdentity
<1>10. \A r \in ops[l].before : r \in ops[l].open <=> ~rounds[r].ended
    BY <1>2, <1>8 DEF OpenInv, Spent
<1>11. OpenSince(k)' = SavedSince(l, k)
    BY <1>2, <1>8, <1>9, <1>10 DEF OpenSince, SavedSince
<1> QED
    BY <1>3, <1>5, <1>7, <1>11

\* Every step keeps the balance of rounds ended and started.
LEMMA SpentStep == OrderInv /\ OpenInv /\ SpentInv /\ [Next]_vars => SpentInv'
<1> SUFFICES ASSUME OrderInv, OpenInv, SpentInv, [Next]_vars, ~disordered', NEW k \in OpIds, Applied(k)'
             PROVE  /\ Newest(k)' => Even(Spent(k)', OpenSince(k)', ops'[k].resulting.phase, match'.phase)
                    /\ \A j \in OpIds : Applied(j)' /\ Adjacent(k, j)' /\ Spent(j)' = {} =>
                         Even(Spent(k)', SavedSince(j, k)', ops'[k].resulting.phase, ops'[j].previous.phase)
    BY DEF SpentInv
<1>1. FormedInv /\ FormInv /\ ~disordered /\ TypeOK /\ LegalRows /\ UncreatedIsNotDue /\ k \in Nat /\ nOps \in Nat
    BY OrderedBefore DEF OrderInv, FormedInv, FormInv, LegalInv, OpIds, TypeOK
<1> DEFINE Goal == Even(Spent(k)', OpenSince(k)', ops'[k].resulting.phase, match'.phase)
<1>2. ASSUME ~Applied(k) PROVE Goal
    <2>1. ops'[k].resulting.phase = match'.phase /\ k = nOps + 1 /\ \E S : Invalidates(S)
        BY <1>1, <1>2, NewlySaved
    <2>2. ops'[k].open = OpenRounds /\ \A r \in Created : rounds'[r].ended = rounds[r].ended
        BY <1>1, <2>1, CreatedAreRounds DEF Invalidates
    <2>3. Spent(k)' = {}
        BY <2>2 DEF Spent, OpenRounds
    <2>4. OpenSince(k)' \subseteq RoundIds
        <3>1. TypeOK'
            BY <1>1, FormedStep DEF FormedInv, FormInv, LegalInv
        <3>2. Created' \subseteq RoundIds
            BY <3>1 DEF TypeOK, Created, RoundIds
        <3> QED
            BY <3>2 DEF OpenSince, Effective
    <2>5. Cardinality(OpenSince(k)') \in Nat
        BY <2>4, RoundSets
    <2>6. Cardinality({}) = 0 /\ Load(match'.phase) \in Nat
        BY FS_EmptySet DEF Load
    <2>7. Cardinality(Spent(k)') = 0 /\ Load(ops'[k].resulting.phase) = Load(match'.phase)
        BY <2>1, <2>3, <2>6
    <2>8. Cardinality(Spent(k)') + Load(match'.phase) <= Cardinality(OpenSince(k)') + Load(ops'[k].resulting.phase)
        BY <2>5, <2>6, <2>7
    <2> QED
        BY <2>8 DEF Even
<1>3. ASSUME Newest(k)', Applied(k) PROVE Goal
    <2>1. ASSUME NEW S, Invalidates(S) PROVE FALSE
        <3>1. PICK m \in OpIds : m = nOps + 1 /\ Applied(m)'
            BY <2>1 DEF Invalidates, Applied
        <3>2. m <= k /\ k <= nOps
            BY <1>1, <1>3, <3>1, AppliedNumbers DEF Newest, Applied
        <3> QED
            BY <1>1, <3>1, <3>2
    <2>2. CASE \E l \in OpIds : Restores(l)
        BY <1>3, <2>2, EvenUndone
    <2>3. CASE \A l \in OpIds : ~Restores(l)
        <3>1. Newest(k)
            BY <1>1, <1>3, <2>3, AppliedStep DEF Newest
        <3>2. \/ RoundsRest /\ PhaseDrifts
              \/ \E r \in RoundIds : Ends(r)
              \/ \E i \in Instances : StartRound(i)
              \/ RestartOvertime
            BY <1>1, <2>1, <2>3, StepShape, ExitShape, CancelShape, UndoShape
        <3> QED
            BY <1>3, <3>1, <3>2, EvenRests
    <2> QED
        BY <2>2, <2>3
<1>4. ASSUME NEW j \in OpIds, Applied(j)', Adjacent(k, j)', Spent(j)' = {}
      PROVE  Even(Spent(k)', SavedSince(j, k)', ops'[k].resulting.phase, ops'[j].previous.phase)
    BY <1>4, EvenSaved
<1> QED
    BY <1>2, <1>3, <1>4

\* What undos in order rely on when timers run.
UndoInv == OrderInv /\ OpenInv /\ SpentInv

\* Every step keeps it, and it holds at first.
LEMMA UndoInductive ==
    /\ Init => UndoInv
    /\ UndoInv /\ [Next]_vars => UndoInv'
<1>1. ASSUME Init PROVE UndoInv
    <2>1. \A k \in OpIds : ~Applied(k)
        BY <1>1 DEF Init, NoOp, Applied
    <2> QED
        BY <1>1, <2>1, OrderInit DEF UndoInv, OpenInv, SpentInv
<1>2. ASSUME UndoInv, [Next]_vars PROVE UndoInv'
    BY <1>2, OrderStep, OpenStep, SpentStep DEF UndoInv, OrderInv
<1> QED
    BY <1>1, <1>2

\* As long as operations are undone newest first, an undo brings back exactly
\* the rounds that were effective when the operation was applied, whatever
\* overtime restarts retired in between, and finds open every round that was
\* open then, whatever timers of rounds that were invalidated fired in between.
THEOREM OrderlyUndo == Spec => OrderlyUndoIsExact
<1> DEFINE Exact == \A k \in 1 .. nOps :
        ops[k].status = "APPLIED" /\ ops'[k].status = "UNDONE" /\ ~disordered'
            => Effective' = ops[k].before /\ ops[k].open \subseteq OpenRounds'
<1>1. UndoInv /\ [Next]_vars => [Exact]_vars
    <2>1. SUFFICES ASSUME UndoInv, [Next]_vars, NEW k \in 1 .. nOps, Applied(k), ops'[k].status = "UNDONE",
                          ~disordered'
                   PROVE  Effective' = ops[k].before /\ ops[k].open \subseteq OpenRounds'
        BY DEF Applied
    <2>2. FormInv /\ TypeOK /\ OrderInv /\ OpenInv /\ SpentInv
        BY <2>1 DEF UndoInv, OrderInv, FormedInv, FormInv, LegalInv
    <2>3. k \in OpIds /\ ~Applied(k)'
        BY <2>1, <2>2 DEF TypeOK, OpIds, Applied
    <2>4. Restores(k)
        BY <2>1, <2>2, <2>3, AppliedStep
    <2>5. Spent(k) = {} /\ Effective' = ops[k].before /\ ~disordered
        BY <2>1, <2>2, <2>3, <2>4, UndoSpendsNothing
    <2>6. \A r \in ops[k].open : r \in Created /\ ~rounds[r].ended
        BY <2>1, <2>2, <2>3, <2>5 DEF OpenInv, Spent
    <2>7. Created' = Created /\ \A r \in Created : rounds'[r].ended = rounds[r].ended
        BY <2>2, <2>4, CreatedAreRounds DEF Restores, Created
    <2> QED
        BY <2>5, <2>6, <2>7 DEF OpenRounds
<1> QED
    BY <1>1, UndoInductive, PTL DEF Spec, OrderlyUndoIsExact

-----------------------------------------------------------------------------
(* A paused round keeps its time.                                           *)

PausesStay == \A r \in Created : rounds'[r].paused = rounds[r].paused

\* The transaction that ends a round leaves every pause alone.
LEMMA EndKeepsPause ==
    ASSUME TypeOK, NEW r \in RoundIds, EndRound(r), NEW q \in RoundIds
    PROVE  rounds'[q].paused = rounds[q].paused
<1> DEFINE summary == IF CapturesSummary(r) THEN 0 ELSE None
           ended == [rounds EXCEPT ![r].ended = TRUE, ![r].summary = summary]
<1>1. (rounds' = ended /\ UNCHANGED window) \/ Resolve(ended)
    BY DEF EndRound
<1>2. ended = [p \in RoundIds |->
                IF p = r THEN [rounds[p] EXCEPT !.ended = TRUE, !.summary = summary] ELSE rounds[p]]
    BY DEF TypeOK
<1>3. summary \in Audits \cup {None}
    BY AuditsAreNumbers
<1> HIDE DEF summary
<1>4. \A p \in RoundIds : rounds[p] \in RoundType
    BY DEF TypeOK
<1>5. ended \in [RoundIds -> RoundType]
    <2>1. \A p \in RoundIds : [rounds[p] EXCEPT !.ended = TRUE] \in RoundType
        BY <1>4, RoundUpdates
    <2>2. \A p \in RoundIds : [[rounds[p] EXCEPT !.ended = TRUE] EXCEPT !.summary = summary] \in RoundType
        BY <1>3, <2>1, RoundUpdates
    <2> QED
        BY <1>2, <1>4, <2>2
<1>6. ended[q].paused = rounds[q].paused
    <2>1. rounds[q] \in RoundType
        BY <1>4
    <2>2. [rounds[q] EXCEPT !.ended = TRUE, !.summary = summary].paused = rounds[q].paused
        BY <2>1 DEF RoundType
    <2> QED
        BY <1>2, <2>2
<1> HIDE DEF ended
<1>7. rounds'[q].paused = ended[q].paused
    BY <1>1, <1>5, ResolveKeeps
<1> QED
    BY <1>6, <1>7

\* Only round:pause and round:resume touch a pause.
LEMMA PausesStayStep ==
    ASSUME FormInv, [Next]_vars, \A i \in Instances : ~PauseRound(i) /\ ~ResumeRound(i)
    PROVE  PausesStay
<1>1. TypeOK /\ AppealsAreSourced /\ \A r \in Created : r \in RoundIds
    BY CreatedAreRounds DEF FormInv, LegalInv
<1>2. \A r \in RoundIds : rounds[r] \in RoundType
    BY <1>1 DEF TypeOK
<1>3. ASSUME UNCHANGED rounds PROVE PausesStay
    BY <1>3 DEF PausesStay
<1>4. CASE UNCHANGED vars
    BY <1>3, <1>4 DEF vars, dbVars
<1>5. CASE Officials
    <2>1. ASSUME NEW q \in RoundIds, OpenWindow(q) PROVE PausesStay
        <3>1. SUFFICES ASSUME NEW r \in RoundIds PROVE rounds'[r].paused = rounds[r].paused
            BY <1>1 DEF PausesStay
        <3> DEFINE row == [rounds[r] EXCEPT !.opened = nOps, !.openedBy = 0]
        <3>2. rounds'[r] = rounds[r] \/ rounds'[r] = row
            BY <1>1, <2>1 DEF OpenWindow, TypeOK
        <3>3. row.paused = rounds[r].paused
            BY <1>2 DEF RoundType
        <3> HIDE DEF row
        <3> QED
            BY <3>2, <3>3
    <2>2. ASSUME NEW q \in RoundIds, RecordFault(q) PROVE PausesStay
        <3>1. SUFFICES ASSUME NEW r \in RoundIds PROVE rounds'[r].paused = rounds[r].paused
            BY <1>1 DEF PausesStay
        <3> DEFINE row == [rounds[r] EXCEPT !.scored = nOps, !.scoredBy = 0]
        <3>2. rounds'[r] = rounds[r] \/ rounds'[r] = row
            BY <1>1, <2>2 DEF RecordFault, TypeOK
        <3>3. row.paused = rounds[r].paused
            BY <1>2 DEF RoundType
        <3> HIDE DEF row
        <3> QED
            BY <3>2, <3>3
    <2>3. CASE RestartOvertime
        <3> DEFINE q == appeals[TiedAppeal].source
                   D == IF rounds[q].summary = 0 THEN OtherAudit ELSE rounds[q].summary
                   B == IF HasWindow(q) THEN OtherAudit ELSE rounds[q].openedBy
                   C == IF HasScore(q) THEN OtherAudit ELSE rounds[q].scoredBy
        <3>1. q \in RoundIds
            BY <1>1, <2>3, RestartShape DEF Retires
        <3>2. \A r \in RoundIds \ {q} : rounds'[r] = rounds[r]
            BY <1>1, <2>3 DEF RestartOvertime, TypeOK
        <3>3. rounds'[q] = [rounds[q] EXCEPT !.by = OtherAudit, !.summary = D, !.openedBy = B, !.scoredBy = C]
            BY <1>1, <2>3, <3>1 DEF RestartOvertime, TypeOK
        <3> HIDE DEF q, B, C, D
        <3>4. rounds[q] \in RoundType
            BY <1>2, <3>1
        <3>5. rounds'[q].paused = rounds[q].paused
            BY <3>3, <3>4 DEF RoundType
        <3> QED
            BY <1>1, <3>2, <3>5 DEF PausesStay
    <2>4. CASE \/ Take \/ ReplayRegulationAppeal \/ Publish
               \/ \E result \in Colours \cup {"TIE"} :
                      CompleteRegulationAppeal(result) \/ CompleteOvertimeAppeal(result)
               \/ \E colour \in Colours : ManualWinner(colour)
        BY <1>3, <2>4 DEF Take, ReplayRegulationAppeal, Publish, CompleteRegulationAppeal,
           CompleteOvertimeAppeal, ManualWinner, AppealUnchanged
    <2> QED
        BY <1>5, <2>1, <2>2, <2>3, <2>4 DEF Officials
<1>6. CASE Clock
    <2>1. CASE ResolveWindow
        BY <1>1, <2>1, ResolveKeeps DEF ResolveWindow, TypeOK, PausesStay
    <2>2. ASSUME NEW q \in RoundIds, DeadlinePasses(q) PROVE PausesStay
        <3>1. SUFFICES ASSUME NEW r \in RoundIds PROVE rounds'[r].paused = rounds[r].paused
            BY <1>1 DEF PausesStay
        <3> DEFINE row == [rounds[r] EXCEPT !.due = TRUE]
        <3>2. rounds'[r] = rounds[r] \/ rounds'[r] = row
            BY <1>1, <2>2 DEF DeadlinePasses, TypeOK
        <3>3. row.paused = rounds[r].paused
            BY <1>2 DEF RoundType
        <3> HIDE DEF row
        <3> QED
            BY <3>2, <3>3
    <2> QED
        BY <1>6, <2>1, <2>2 DEF Clock
<1>7. ASSUME NEW i \in Instances, Process(i) PROVE PausesStay
    <2>1. \/ UNCHANGED rounds
          \/ handler[i] # 0 /\ EndRound(handler[i])
          \/ \E r \in Recoverable : EndRound(r)
        BY <1>7 DEF Process, TimerFires, HandlerFails, Crash, RestartFails, HandleExpiration, Restart, dbVars
    <2>2. handler[i] # 0 => handler[i] \in RoundIds
        BY <1>1 DEF TypeOK, RoundIds
    <2>3. \A r \in Recoverable : r \in RoundIds
        BY <1>1 DEF Recoverable, Effective
    <2> QED
        BY <1>1, <1>3, <2>1, <2>2, <2>3, EndKeepsPause DEF PausesStay
<1>8. ASSUME NEW i \in Instances, Command(i) PROVE PausesStay
    <2>1. CASE StartRound(i)
        <3>1. \A r \in RoundIds : r # nRounds + 1 => rounds'[r] = rounds[r]
            BY <1>1, <2>1 DEF StartRound, TypeOK
        <3>2. \A r \in Created : r # nRounds + 1
            BY <1>1 DEF Created, TypeOK
        <3> QED
            BY <1>1, <3>1, <3>2 DEF PausesStay
    <2>2. ASSUME NEW mode \in ExitModes, ExitMatch(i, mode) PROVE PausesStay
        <3>1. SUFFICES ASSUME NEW r \in RoundIds PROVE rounds'[r].paused = rounds[r].paused
            BY <1>1 DEF PausesStay
        <3>2. PICK a, b, c : rounds'[r] = [rounds[r] EXCEPT !.by = a, !.openedBy = b, !.scoredBy = c]
            BY <2>2 DEF ExitMatch, RoundsAfterExit
        <3>3. rounds[r] \in RoundType
            BY <1>2
        <3> QED
            BY <3>2, <3>3 DEF RoundType
    <2>3. ASSUME NEW entireMatch \in BOOLEAN, CancelResults(i, entireMatch) PROVE PausesStay
        <3>1. SUFFICES ASSUME NEW r \in RoundIds PROVE rounds'[r].paused = rounds[r].paused
            BY <1>1 DEF PausesStay
        <3>2. PICK a, b, c, d : rounds'[r] = [rounds[r] EXCEPT !.by = a, !.summary = b, !.openedBy = c, !.scoredBy = d]
            BY <2>3 DEF CancelResults, RoundsAfterCancellation
        <3>3. rounds[r] \in RoundType
            BY <1>2
        <3> QED
            BY <3>2, <3>3 DEF RoundType
    <2>4. ASSUME NEW k \in OpIds, Undo(i, k) PROVE PausesStay
        <3>1. SUFFICES ASSUME NEW r \in RoundIds PROVE rounds'[r].paused = rounds[r].paused
            BY <1>1 DEF PausesStay
        <3>2. PICK a, b, c, d : rounds'[r] = [rounds[r] EXCEPT !.by = a, !.summary = b, !.openedBy = c, !.scoredBy = d]
            BY <2>4 DEF Undo
        <3>3. rounds[r] \in RoundType
            BY <1>2
        <3> QED
            BY <3>2, <3>3 DEF RoundType
    <2> QED
        BY <1>8, <2>1, <2>2, <2>3, <2>4 DEF Command
<1> QED
    BY <1>4, <1>5, <1>6, <1>7, <1>8 DEF Next

\* Operation k left play: it did not find and leave the match running or paused.
Leaves(k) == ops[k].resulting.phase \notin InPlay

\* Round n is the newest of E and the one that a phase in play is about; while
\* the phase is running, n is not paused.
Leads(rs, phase, n, E) ==
    /\ n \in E /\ \A q \in E : q <= n
    /\ RunningStatus(rs[n].number, rs[n].stage) =
           IF phase \in PausedPhases THEN ResumedStatus(phase) ELSE phase
    /\ phase \in RunningPhases => ~rs[n].paused

\* Round n started after every operation that left play, or after those before k.
Recent(n) == \A j \in OpIds : Applied(j) /\ Leaves(j) => rounds[n].stamp >= j
StartedSince(n, k) == \A j \in OpIds : Applied(j) /\ Leaves(j) /\ j < k => rounds[n].stamp >= j

\* While the match is in play its newest effective round is open and leads it,
\* and so it was when an operation left play; the other operations have
\* invalidated nothing.
LeadInv ==
    ~disordered =>
        /\ match.phase \in InPlay =>
               \E n \in Effective : /\ Leads(rounds, match.phase, n, Effective)
                                    /\ ~rounds[n].ended /\ Recent(n)
        /\ \A k \in OpIds : Applied(k) /\ Leaves(k) /\ ops[k].previous.phase \in InPlay =>
               \E n \in ops[k].open : /\ Leads(rounds, ops[k].previous.phase, n, ops[k].before)
                                      /\ StartedSince(n, k)
        /\ \A k \in OpIds : Applied(k) /\ ~Leaves(k) =>
               ops[k].previous.phase = ops[k].resulting.phase /\ \A r \in Created : rounds[r].by # k

\* A round that keeps its pause keeps its lead.
LEMMA LeadsKept ==
    ASSUME NEW phase, NEW n, NEW E, Leads(rounds, phase, n, E), SameIdentity(n),
           rounds'[n].paused = rounds[n].paused
    PROVE  Leads(rounds', phase, n, E)
BY DEF Leads, SameIdentity

\* The kind of a round is told by the phase in which it runs.
LEMMA KindOfPhase ==
    ASSUME FormInv, NEW r \in Created
    PROVE  /\ RunningStatus(rounds[r].number, rounds[r].stage) \in RunningPhases
           /\ rounds[r].number = ExpectedNumber(RunningStatus(rounds[r].number, rounds[r].stage))
           /\ \A q \in Created :
                  RunningStatus(rounds[q].number, rounds[q].stage) = RunningStatus(rounds[r].number, rounds[r].stage)
                      => rounds[q].number = rounds[r].number /\ rounds[q].stage = rounds[r].stage
<1>1. \A q \in Created : IsOf(q, "REGULATION", 1) \/ IsOf(q, "REGULATION", 2) \/ IsOf(q, "OVERTIME", 1)
    BY DEF FormInv, RoundsAreFormed, FormedRound
<1>2. \A q \in Created :
        \/ rounds[q].stage = "REGULATION" /\ rounds[q].number = 1
           /\ RunningStatus(rounds[q].number, rounds[q].stage) = "ROUND_1_RUNNING"
        \/ rounds[q].stage = "REGULATION" /\ rounds[q].number = 2
           /\ RunningStatus(rounds[q].number, rounds[q].stage) = "ROUND_2_RUNNING"
        \/ rounds[q].stage = "OVERTIME" /\ rounds[q].number = 1
           /\ RunningStatus(rounds[q].number, rounds[q].stage) = "OVERTIME_RUNNING"
    BY <1>1 DEF IsOf, RunningStatus
<1>3. ExpectedNumber("ROUND_1_RUNNING") = 1 /\ ExpectedNumber("ROUND_2_RUNNING") = 2
      /\ ExpectedNumber("OVERTIME_RUNNING") = 1
    BY DEF ExpectedNumber
<1>4. {"ROUND_1_RUNNING", "ROUND_2_RUNNING", "OVERTIME_RUNNING"} = RunningPhases
    BY DEF RunningPhases
<1> QED
    BY <1>2, <1>3, <1>4

\* A pause or a resume acts on the round that leads the match.
LEMMA LeaderIsControlled ==
    ASSUME FormInv, match.phase \in InPlay, NEW n \in Effective, Leads(rounds, match.phase, n, Effective),
           ~rounds[n].ended
    PROVE  Latest(ControlledRounds) = n
<1>1. n \in Created /\ TypeOK /\ \A q \in Effective : q \in Created /\ q \in Nat
    BY CreatedAreRounds DEF FormInv, LegalInv, Effective, Created
<1>2. rounds[n].number = ExpectedNumber(match.phase)
    <2>1. rounds[n].number = ExpectedNumber(IF match.phase \in PausedPhases THEN ResumedStatus(match.phase) ELSE match.phase)
        BY <1>1, KindOfPhase DEF Leads
    <2>2. \A p \in PausedPhases : ExpectedNumber(ResumedStatus(p)) = ExpectedNumber(p)
        BY DEF PausedPhases, ExpectedNumber, ResumedStatus
    <2> QED
        BY <2>1, <2>2
<1>3. n \in ControlledRounds /\ \A q \in ControlledRounds : q <= n /\ q \in Nat
    BY <1>1, <1>2 DEF ControlledRounds, Leads
<1>4. \A x \in ControlledRounds : (\A y \in ControlledRounds : y <= x) => x = n
    BY <1>3
<1> QED
    BY <1>3, <1>4 DEF Latest

\* Steps that touch no round and are neither a pause nor a resume do not move
\* the match within play.
LEMMA PhaseStaysInPlay ==
    ASSUME FormInv, [Next]_vars, RoundsRest, match'.phase \in InPlay,
           \A i \in Instances : ~PauseRound(i) /\ ~ResumeRound(i)
    PROVE  match'.phase = match.phase
<1>1. TypeOK
    BY DEF FormInv, LegalInv
<1>2. ASSUME NEW r, EndRound(r) PROVE FALSE
    BY <1>2 DEF EndRound, WriteMatch, RowAfter, Row, PhaseAfter, InPlay, RunningPhases, PausedPhases
<1>3. CASE UNCHANGED vars
    BY <1>3 DEF vars, dbVars
<1>4. CASE Officials
    <2>1. CASE Take
        BY <2>1 DEF Take, WriteMatch, Row
    <2>2. CASE \E r \in RoundIds : OpenWindow(r) \/ RecordFault(r)
        BY <2>2 DEF OpenWindow, RecordFault
    <2>3. ASSUME NEW result \in Colours \cup {"TIE"}, CompleteRegulationAppeal(result) PROVE FALSE
        BY <2>3 DEF CompleteRegulationAppeal, PhaseAfterRegulation, WriteMatch, Row, InPlay, RunningPhases, PausedPhases
    <2>4. ASSUME NEW result \in Colours \cup {"TIE"}, CompleteOvertimeAppeal(result) PROVE FALSE
        BY <2>4 DEF CompleteOvertimeAppeal, PhaseAfterOvertime, WriteMatch, Row, InPlay, RunningPhases, PausedPhases
    <2>5. CASE ReplayRegulationAppeal
        BY <2>5 DEF ReplayRegulationAppeal
    <2>6. CASE RestartOvertime
        BY <2>6 DEF RestartOvertime, WriteMatch, Row, InPlay, RunningPhases, PausedPhases
    <2>7. CASE Publish
        BY <2>7 DEF Publish, WriteMatch, Row, InPlay, RunningPhases, PausedPhases
    <2>8. ASSUME NEW colour \in Colours, ManualWinner(colour) PROVE FALSE
        BY <2>8 DEF ManualWinner, WriteMatch, Row, InPlay, RunningPhases, PausedPhases
    <2> QED
        BY <1>4, <2>1, <2>2, <2>3, <2>4, <2>5, <2>6, <2>7, <2>8 DEF Officials
<1>5. CASE Clock
    BY <1>5 DEF Clock, ResolveWindow, DeadlinePasses
<1>6. ASSUME NEW i \in Instances, Process(i) PROVE match'.phase = match.phase
    <2>1. UNCHANGED match \/ \E r : EndRound(r)
        BY <1>6 DEF Process, TimerFires, HandlerFails, Crash, RestartFails, HandleExpiration, Restart, dbVars
    <2> QED
        BY <1>2, <2>1
<1>7. ASSUME NEW i \in Instances, Command(i) PROVE match'.phase = match.phase
    <2>1. nRounds' = nRounds /\ nOps' = nOps /\ ops' = ops /\ nRounds \in Nat /\ nOps \in Nat
        BY <1>1 DEF RoundsRest, TypeOK
    <2>2. ~StartRound(i)
        <3>1. nRounds + 1 # nRounds
            BY <2>1
        <3> QED
            BY <2>1, <3>1 DEF StartRound
    <2>3. \A mode \in ExitModes : ~ExitMatch(i, mode)
        BY <2>1 DEF ExitMatch, RecordOperation
    <2>4. \A entireMatch \in BOOLEAN : ~CancelResults(i, entireMatch)
        BY <2>1 DEF CancelResults, RecordOperation
    <2>5. \A k \in OpIds : ~Undo(i, k)
        BY <1>1, <2>1, UndoShape DEF Restores, UndoAllowed
    <2> QED
        BY <1>7, <2>2, <2>3, <2>4, <2>5 DEF Command
<1> QED
    BY <1>3, <1>4, <1>5, <1>6, <1>7 DEF Next

\* After a pause or a resume the same round leads, and no other has changed.
LEMMA LeaderIsPaused ==
    ASSUME FormInv, LeadInv, ~disordered, NEW i \in Instances, PauseRound(i) \/ ResumeRound(i)
    PROVE  \E n \in Effective :
               /\ Leads(rounds', match'.phase, n, Effective) /\ ~rounds[n].ended /\ Recent(n)
               /\ \A r \in RoundIds : r # n => rounds'[r] = rounds[r]
<1>1. match.phase \in InPlay
    BY DEF PauseRound, ResumeRound, InPlay
<1>2. PICK n \in Effective : /\ Leads(rounds, match.phase, n, Effective)
                             /\ ~rounds[n].ended /\ Recent(n)
    BY <1>1 DEF LeadInv
<1>3. Latest(ControlledRounds) = n
    BY <1>1, <1>2, LeaderIsControlled
<1>4. n \in RoundIds /\ rounds \in [RoundIds -> RoundType] /\ rounds[n] \in RoundType
    BY CreatedAreRounds DEF FormInv, LegalInv, TypeOK
<1>5. CASE PauseRound(i)
    <2>1. /\ rounds' = [rounds EXCEPT ![n].paused = TRUE]
          /\ match.phase \in RunningPhases /\ match'.phase = PausedStatus(match.phase)
        BY <1>3, <1>5 DEF PauseRound, WriteMatch, Row
    <2>2. /\ \A r \in RoundIds : r # n => rounds'[r] = rounds[r]
          /\ rounds'[n] = [rounds[n] EXCEPT !.paused = TRUE]
        BY <1>4, <2>1
    <2>3. rounds'[n].number = rounds[n].number /\ rounds'[n].stage = rounds[n].stage
        BY <1>4, <2>2 DEF RoundType
    <2>4. \A p \in RunningPhases : /\ PausedStatus(p) \in PausedPhases /\ PausedStatus(p) \notin RunningPhases
                                   /\ ResumedStatus(PausedStatus(p)) = p /\ p \notin PausedPhases
        BY DEF RunningPhases, PausedPhases, PausedStatus, ResumedStatus
    <2>5. Leads(rounds', match'.phase, n, Effective)
        BY <1>2, <2>1, <2>3, <2>4 DEF Leads
    <2> QED
        BY <1>2, <2>2, <2>5
<1>6. CASE ResumeRound(i)
    <2>1. /\ rounds' = [rounds EXCEPT ![n].paused = FALSE, ![n].due = FALSE]
          /\ match.phase \in PausedPhases /\ match'.phase = ResumedStatus(match.phase)
        BY <1>3, <1>6 DEF ResumeRound, WriteMatch, Row
    <2>2. /\ \A r \in RoundIds : r # n => rounds'[r] = rounds[r]
          /\ rounds'[n] = [rounds[n] EXCEPT !.paused = FALSE, !.due = FALSE]
        BY <1>4, <2>1
    <2>3. /\ rounds'[n].number = rounds[n].number /\ rounds'[n].stage = rounds[n].stage
          /\ rounds'[n].paused = FALSE
        BY <1>4, <2>2 DEF RoundType
    <2>4. \A p \in PausedPhases : ResumedStatus(p) \in RunningPhases /\ ResumedStatus(p) \notin PausedPhases
        BY DEF RunningPhases, PausedPhases, ResumedStatus
    <2>5. Leads(rounds', match'.phase, n, Effective)
        BY <1>2, <2>1, <2>3, <2>4 DEF Leads
    <2> QED
        BY <1>2, <2>2, <2>5
<1> QED
    BY <1>5, <1>6

\* Only the round that leads the match, and no round that an operation that left
\* play had found, changes its pause.
LEMMA OnlyLeaderChanges ==
    ASSUME FormInv, OpenInv, LeadInv, [Next]_vars, ~disordered', NEW k \in OpIds, Applied(k), Leaves(k),
           NEW r \in ops[k].open
    PROVE  r \in Created /\ SameIdentity(r) /\ rounds'[r].paused = rounds[r].paused
<1>1. ~disordered /\ TypeOK /\ RoundsStay
    BY OrderedBefore, RoundsStayStep DEF FormInv, LegalInv
<1>2. r \in Created /\ rounds[r].stamp < k /\ k \in Nat /\ k <= nOps /\ nOps \in Nat /\ r \in RoundIds
      /\ rounds[r].stamp \in Nat
    BY <1>1, AppliedNumbers, RoundNumbers DEF OpenInv, Applied
<1>3. SameIdentity(r)
    BY <1>1, <1>2 DEF RoundsStay
<1>4. ASSUME NEW i \in Instances, PauseRound(i) \/ ResumeRound(i) PROVE rounds'[r].paused = rounds[r].paused
    <2>1. PICK n \in Effective : /\ Recent(n)
                                 /\ \A q \in RoundIds : q # n => rounds'[q] = rounds[q]
        BY <1>1, <1>4, LeaderIsPaused
    <2>2. rounds[n].stamp >= k /\ rounds[n].stamp \in Nat
        <3>1. n \in Created
            BY DEF Effective
        <3> QED
            BY <1>1, <2>1, <3>1, RoundNumbers DEF Recent
    <2>3. r # n
        BY <1>2, <2>2
    <2> QED
        BY <1>2, <2>1, <2>3
<1>5. CASE \A i \in Instances : ~PauseRound(i) /\ ~ResumeRound(i)
    BY <1>2, <1>3, <1>5, PausesStayStep DEF PausesStay
<1> QED
    BY <1>2, <1>3, <1>4, <1>5

\* An operation invalidates nothing and leaves the phase, or leaves play.
LEMMA SuspendsOrLeaves ==
    ASSUME FormInv, [Next]_vars, NEW T, Invalidates(T)
    PROVE  /\ \A i \in Instances : ~PauseRound(i) /\ ~ResumeRound(i)
           /\ \/ match'.phase \notin InPlay
              \/ Invalidates({}) /\ match'.phase = match.phase
<1>1. TypeOK /\ LegalRows /\ UncreatedIsNotDue /\ AppealsAreSourced /\ nOps \in Nat /\ nOps' = nOps + 1
    BY DEF FormInv, LegalInv, Invalidates, TypeOK
<1>2. \A i \in Instances : ~PauseRound(i) /\ ~ResumeRound(i)
    BY <1>1 DEF PauseRound, ResumeRound
<1>3. ~RoundsRest /\ (\A r \in RoundIds : ~Ends(r)) /\ (\A q : ~Retires(q)) /\ (\A k : ~Restores(k))
      /\ \A stage, number : ~Starts(nRounds + 1, stage, number)
    BY <1>1 DEF RoundsRest, Ends, Retires, Restores, Starts
<1>4. PICK i \in Instances : \/ \E mode \in ExitModes : ExitMatch(i, mode)
                             \/ \E entireMatch \in BOOLEAN : CancelResults(i, entireMatch)
    BY <1>1, <1>3, StepShape, StartShape, RestartShape, UndoShape
<1>5. ASSUME NEW mode \in ExitModes, ExitMatch(i, mode)
      PROVE  match'.phase \notin InPlay \/ (Invalidates({}) /\ match'.phase = match.phase)
    <2>1. Invalidates(ExitRounds(mode)) /\ match'.phase = RowAfterExit(mode).phase
        BY <1>1, <1>5, ExitShape
    <2>2. CASE mode = "SUSPEND_KEEP_V2_PHASE"
        <3>1. RowAfterExit(mode).phase = match.phase
            BY <2>2 DEF RowAfterExit, Row
        <3>2. ExitRounds(mode) = {}
            BY <2>2 DEF ExitRounds, InvalidatedNumbers
        <3> QED
            BY <2>1, <3>1, <3>2
    <2>3. CASE mode # "SUSPEND_KEEP_V2_PHASE"
        <3>1. RowAfterExit(mode).phase \in {"WAITING", "BREAK", "AWAITING_RESULT_SAVE"}
            <4>1. mode \in {"CANCEL_RESULTS", "SUSPEND_KEEP_ROUND_1", "SUSPEND_KEEP_ROUNDS_1_AND_2"}
                BY <2>3 DEF ExitModes
            <4>2. CASE mode = "CANCEL_RESULTS"
                BY <4>2 DEF RowAfterExit, NoRow
            <4>3. CASE mode = "SUSPEND_KEEP_ROUND_1"
                BY <4>3 DEF RowAfterExit, Row
            <4>4. CASE mode = "SUSPEND_KEEP_ROUNDS_1_AND_2"
                BY <4>4 DEF RowAfterExit, Row
            <4> QED
                BY <4>1, <4>2, <4>3, <4>4
        <3> QED
            BY <2>1, <3>1 DEF InPlay, RunningPhases, PausedPhases
    <2> QED
        BY <2>2, <2>3
<1>6. ASSUME NEW entireMatch \in BOOLEAN, CancelResults(i, entireMatch) PROVE match'.phase \notin InPlay
    <2>1. match'.phase \in {"WAITING", "OVERTIME_READY", "BREAK"}
        BY <1>1, <1>6, CancelShape
    <2> QED
        BY <2>1 DEF InPlay, RunningPhases, PausedPhases
<1> QED
    BY <1>2, <1>4, <1>5, <1>6

\* The operations that were applied before a step in order are the ones before k
\* that are applied after it.
LEMMA EarlierApplied ==
    ASSUME FormedInv, [Next]_vars, ~disordered', NEW j \in OpIds, Applied(j)', j < nOps + 1
    PROVE  Applied(j) /\ ops'[j] = ops[j]
<1>1. FormInv /\ nOps \in Nat /\ j \in Nat
    BY DEF FormedInv, FormInv, LegalInv, TypeOK, OpIds
<1>2. Applied(j)
    BY <1>1, NewlySaved
<1> QED
    BY <1>1, <1>2, SavedRounds

\* What an operation that left play saved goes on leading the phase it saved.
LEMMA LeadSaved ==
    ASSUME FormedInv, OpenInv, LeadInv, [Next]_vars, ~disordered', NEW k \in OpIds, Applied(k)', Leaves(k)',
           ops'[k].previous.phase \in InPlay
    PROVE  \E n \in ops'[k].open : /\ Leads(rounds', ops'[k].previous.phase, n, ops'[k].before)
                                   /\ StartedSince(n, k)'
<1>1. FormInv /\ ~disordered /\ TypeOK /\ RoundsStay /\ nOps \in Nat /\ k \in Nat
    BY OrderedBefore, RoundsStayStep DEF FormedInv, FormInv, LegalInv, TypeOK, OpIds
<1>2. ASSUME k <= nOps + 1, NEW n \in Created, StartedSince(n, k) PROVE StartedSince(n, k)'
    <2>1. SUFFICES ASSUME NEW j \in OpIds, Applied(j)', Leaves(j)', j < k PROVE rounds'[n].stamp >= j
        BY DEF StartedSince
    <2>2. j < nOps + 1
        BY <1>1, <1>2, <2>1 DEF OpIds
    <2>3. Applied(j) /\ ops'[j] = ops[j]
        BY <2>1, <2>2, EarlierApplied
    <2>4. Leaves(j)
        BY <2>1, <2>3 DEF Leaves
    <2>5. rounds'[n].stamp = rounds[n].stamp
        BY <1>1, <1>2 DEF RoundsStay, SameIdentity
    <2> QED
        BY <1>2, <2>1, <2>3, <2>4, <2>5 DEF StartedSince
<1>3. CASE Applied(k)
    <2>1. ops'[k] = ops[k] /\ k <= nOps
        BY <1>1, <1>3, SavedRounds, AppliedNumbers DEF Applied
    <2>2. Leaves(k) /\ ops[k].previous.phase \in InPlay
        BY <2>1 DEF Leaves
    <2>3. PICK n \in ops[k].open : Leads(rounds, ops[k].previous.phase, n, ops[k].before) /\ StartedSince(n, k)
        BY <1>1, <1>3, <2>2 DEF LeadInv
    <2>4. n \in Created /\ SameIdentity(n) /\ rounds'[n].paused = rounds[n].paused
        BY <1>1, <1>3, <2>2, OnlyLeaderChanges
    <2>5. Leads(rounds', ops[k].previous.phase, n, ops[k].before)
        BY <2>3, <2>4, LeadsKept
    <2>6. StartedSince(n, k)'
        BY <1>1, <1>2, <2>1, <2>3, <2>4
    <2> QED
        BY <2>1, <2>3, <2>5, <2>6
<1>4. CASE ~Applied(k)
    <2>1. /\ k = nOps + 1 /\ ops'[k].previous.phase = match.phase
          /\ \E S : Invalidates(S)
        BY <1>4, NewlySaved
    <2>2. ops'[k].before = Effective /\ ops'[k].open = OpenRounds
        BY <2>1 DEF Invalidates
    <2>3. PICK n \in Effective : /\ Leads(rounds, match.phase, n, Effective)
                                 /\ ~rounds[n].ended /\ Recent(n)
        BY <1>1, <2>1 DEF LeadInv
    <2>4. n \in OpenRounds /\ n \in Created /\ SameIdentity(n) /\ rounds'[n].paused = rounds[n].paused
        <3>1. n \in OpenRounds /\ n \in Created
            BY <2>3 DEF OpenRounds, Effective
        <3>2. \A i \in Instances : ~PauseRound(i) /\ ~ResumeRound(i)
            BY <1>1, <2>1, SuspendsOrLeaves
        <3> QED
            BY <1>1, <3>1, <3>2, PausesStayStep DEF PausesStay, RoundsStay
    <2>5. Leads(rounds', match.phase, n, Effective)
        BY <2>3, <2>4, LeadsKept
    <2>6. StartedSince(n, k)'
        <3>1. StartedSince(n, k)
            BY <2>3 DEF Recent, StartedSince
        <3> QED
            BY <1>1, <1>2, <2>1, <2>4, <3>1
    <2> QED
        BY <2>1, <2>2, <2>4, <2>5, <2>6
<1> QED
    BY <1>3, <1>4

\* An operation that did not leave play has invalidated nothing.
LEMMA SuspensionKeeps ==
    ASSUME FormedInv, LeadInv, [Next]_vars, ~disordered', NEW k \in OpIds, Applied(k)', ~Leaves(k)'
    PROVE  ops'[k].previous.phase = ops'[k].resulting.phase /\ \A r \in Created' : rounds'[r].by # k
<1>1. FormInv /\ ~disordered /\ TypeOK /\ LegalRows /\ UncreatedIsNotDue /\ AppealsAreSourced
      /\ nOps \in Nat /\ k \in Nat /\ k # 0 /\ k # OtherAudit
    BY OrderedBefore DEF FormedInv, FormInv, LegalInv, TypeOK, OpIds, OtherAudit
<1>2. \A r \in Created : r \in RoundIds
    BY <1>1, CreatedAreRounds
<1>3. CASE Applied(k)
    <2>1. ops'[k] = ops[k] /\ k <= nOps
        BY <1>1, <1>3, SavedRounds, AppliedNumbers DEF Applied
    <2>2. ops[k].previous.phase = ops[k].resulting.phase /\ \A r \in Created : rounds[r].by # k
        BY <1>1, <1>3, <2>1 DEF LeadInv, Leaves
    <2> DEFINE Goal == \A r \in Created' : rounds'[r].by # k
    <2>3. ASSUME RoundsRest PROVE Goal
        BY <1>1, <1>2, <2>2, <2>3, EffectiveGrows DEF RoundsRest, SameRound
    <2>4. ASSUME NEW q \in RoundIds, Ends(q) PROVE Goal
        BY <1>1, <1>2, <2>2, <2>4, EffectiveGrows DEF Ends, SameRound
    <2>5. ASSUME NEW stage, NEW number, Starts(nRounds + 1, stage, number) PROVE Goal
        <3>1. SUFFICES ASSUME NEW r \in Created' PROVE rounds'[r].by # k
            OBVIOUS
        <3>2. r \in Created \/ r = nRounds + 1
            BY <1>1, <2>5 DEF Starts, Created, TypeOK
        <3>3. CASE r = nRounds + 1
            BY <1>1, <2>5, <3>3 DEF Starts
        <3>4. CASE r \in Created
            <4>1. r # nRounds + 1
                BY <1>1, <3>4 DEF Created, TypeOK
            <4>2. rounds'[r].by = rounds[r].by
                BY <1>2, <2>5, <3>4, <4>1 DEF Starts, SameRound
            <4> QED
                BY <2>2, <3>4, <4>2
        <3> QED
            BY <3>2, <3>3, <3>4
    <2>6. ASSUME NEW q, Retires(q) PROVE Goal
        <3>1. Created' = Created
            BY <1>1, <2>6, SavedRetires
        <3> QED
            BY <1>1, <1>2, <2>2, <2>6, <3>1 DEF Retires, SameRound
    <2>7. ASSUME NEW S, Invalidates(S) PROVE Goal
        <3>1. Created' = Created /\ k # nOps + 1
            BY <1>1, <2>1, <2>7 DEF Invalidates, Created
        <3> QED
            BY <1>2, <2>2, <2>7, <3>1 DEF Invalidates
    <2>8. ASSUME NEW j, Restores(j) PROVE Goal
        <3>1. Created' = Created
            BY <2>8 DEF Restores, Created
        <3> QED
            BY <1>1, <1>2, <2>2, <2>8, <3>1 DEF Restores
    <2>9. Goal
        BY <1>1, <2>3, <2>4, <2>5, <2>6, <2>7, <2>8, StepShape, StartShape, ExitShape, CancelShape, UndoShape,
           RestartShape
    <2> QED
        BY <2>1, <2>2, <2>9
<1>4. CASE ~Applied(k)
    <2>1. /\ k = nOps + 1 /\ ops'[k].previous.phase = match.phase /\ ops'[k].resulting.phase = match'.phase
          /\ \E S : Invalidates(S)
        BY <1>4, NewlySaved
    <2>2. Invalidates({}) /\ match'.phase = match.phase
        BY <1>1, <2>1, SuspendsOrLeaves DEF Leaves
    <2>3. Created' = Created /\ \A r \in Created : rounds'[r].by = rounds[r].by
        BY <1>2, <2>2 DEF Invalidates, Created
    <2>4. \A r \in Created : rounds[r].by # k
        BY <1>1, <2>1 DEF FormInv, RoundsAreFormed, FormedRound
    <2> QED
        BY <2>1, <2>2, <2>3, <2>4
<1> QED
    BY <1>3, <1>4

\* While the match is in play a round leads it.
LEMMA LeadNow ==
    ASSUME UndoInv, LeadInv, [Next]_vars, ~disordered', match'.phase \in InPlay
    PROVE  \E n \in Effective' : /\ Leads(rounds', match'.phase, n, Effective')
                                 /\ ~rounds'[n].ended /\ Recent(n)'
<1>1. /\ FormedInv /\ FormInv /\ ~disordered /\ TypeOK /\ LegalRows /\ UncreatedIsNotDue /\ AppealsAreSourced
      /\ OrderInv /\ OpenInv /\ SpentInv /\ RoundsStay /\ nOps \in Nat
    BY OrderedBefore, RoundsStayStep DEF UndoInv, OrderInv, FormedInv, FormInv, LegalInv, TypeOK
<1> DEFINE Led == \E n \in Effective : /\ Leads(rounds, match.phase, n, Effective)
                                       /\ ~rounds[n].ended /\ Recent(n)
           Goal == \E n \in Effective' : /\ Leads(rounds', match'.phase, n, Effective')
                                         /\ ~rounds'[n].ended /\ Recent(n)'
<1>2. match.phase \in InPlay => Led
    BY <1>1 DEF LeadInv
<1>3. \A r \in Created : r \in RoundIds
    BY <1>1, CreatedAreRounds
<1> DEFINE NoneLeaves == \A j \in OpIds : Applied(j)' /\ ~Applied(j) => ~Leaves(j)'
<1>4. ASSUME NEW n \in Created, Recent(n), NoneLeaves
      PROVE  Recent(n)'
    <2>1. SUFFICES ASSUME NEW j \in OpIds, Applied(j)', Leaves(j)' PROVE rounds'[n].stamp >= j
        BY DEF Recent
    <2>2. Applied(j)
        BY <1>4, <2>1
    <2>3. ops'[j] = ops[j]
        BY <1>1, <2>1, <2>2, SavedRounds
    <2>4. Leaves(j)
        BY <2>1, <2>3 DEF Leaves
    <2>5. rounds'[n].stamp = rounds[n].stamp
        BY <1>1, <1>4 DEF RoundsStay, SameIdentity
    <2> QED
        BY <1>4, <2>2, <2>4, <2>5 DEF Recent
\* The leader stays when neither the phase nor the effective rounds change.
<1>5. ASSUME match'.phase = match.phase, Effective' = Effective,
             \A i \in Instances : ~PauseRound(i) /\ ~ResumeRound(i),
             \A r \in Created : rounds'[r].ended = rounds[r].ended,
             NoneLeaves
      PROVE  Goal
    <2>1. PICK n \in Effective : /\ Leads(rounds, match.phase, n, Effective)
                                 /\ ~rounds[n].ended /\ Recent(n)
        BY <1>2, <1>5
    <2>2. n \in Created /\ SameIdentity(n) /\ rounds'[n].paused = rounds[n].paused
        BY <1>1, <1>5, PausesStayStep DEF PausesStay, RoundsStay, Effective
    <2>3. Leads(rounds', match'.phase, n, Effective')
        BY <1>5, <2>1, <2>2, LeadsKept
    <2>4. Recent(n)'
        BY <1>4, <1>5, <2>1, <2>2
    <2> QED
        BY <1>5, <2>1, <2>2, <2>3, <2>4
<1>6. ASSUME RoundsRest, PhaseDrifts PROVE Goal
    <2>0. NoneLeaves
        BY <1>6 DEF RoundsRest, Applied
    <2>1. Effective' = Effective /\ \A r \in Created : rounds'[r].ended = rounds[r].ended
        BY <1>1, <1>3, <1>6, EffectiveGrows DEF RoundsRest, SameRound
    <2>2. ASSUME NEW i \in Instances, PauseRound(i) \/ ResumeRound(i) PROVE Goal
        <3>1. PICK n \in Effective : /\ Leads(rounds', match'.phase, n, Effective)
                                     /\ ~rounds[n].ended /\ Recent(n)
            BY <1>1, <2>2, LeaderIsPaused
        <3>2. n \in Created
            BY DEF Effective
        <3>3. Recent(n)'
            BY <1>4, <2>0, <3>1, <3>2
        <3> QED
            BY <2>1, <3>1, <3>2, <3>3
    <2>3. ASSUME \A i \in Instances : ~PauseRound(i) /\ ~ResumeRound(i) PROVE Goal
        BY <1>1, <1>5, <1>6, <2>0, <2>1, <2>3, PhaseStaysInPlay
    <2> QED
        BY <2>2, <2>3
<1>7. ASSUME NEW r \in RoundIds, Ends(r) PROVE FALSE
    BY <1>7 DEF Ends, PhaseAfter, InPlay, RunningPhases, PausedPhases
<1>8. ASSUME NEW q, Retires(q) PROVE FALSE
    BY <1>8 DEF Retires, InPlay, RunningPhases, PausedPhases
<1>9. ASSUME NEW S, Invalidates(S) PROVE Goal
    <2>1. /\ \A i \in Instances : ~PauseRound(i) /\ ~ResumeRound(i)
          /\ Invalidates({}) /\ match'.phase = match.phase
        BY <1>1, <1>9, SuspendsOrLeaves
    <2>2. Created' = Created
          /\ \A r \in Created : rounds'[r].by = rounds[r].by /\ rounds'[r].ended = rounds[r].ended
        BY <1>3, <2>1 DEF Invalidates, Created
    <2>3. Effective' = Effective
        BY <2>2 DEF Effective
    <2>4. \A j \in OpIds : Applied(j)' /\ ~Applied(j) => ops'[j].resulting.phase = match'.phase
        BY <1>1, NewlySaved
    <2>5. NoneLeaves
        BY <2>4 DEF Leaves
    <2> QED
        BY <1>5, <2>1, <2>2, <2>3, <2>5
<1>10. ASSUME NEW stage, NEW number, NEW n, Starts(n, stage, number) PROVE Goal
    <2>1. Effective' = Effective \cup {n} /\ n \notin Created /\ n \in Nat /\ n = nRounds + 1 /\ nRounds \in Nat
        <3>1. n = nRounds + 1
            BY <1>10 DEF Starts
        <3>2. nRounds \in Nat
            BY <1>1 DEF TypeOK
        <3>3. Effective' = Effective \cup {n} /\ n \notin Created /\ n \in Nat
            BY <1>1, <1>10, EffectiveGrows
        <3> QED
            BY <3>1, <3>2, <3>3
    <2>2. \A q \in Effective' : q <= n
        BY <2>1 DEF Effective, Created
    <2>3. /\ RunningStatus(rounds'[n].number, rounds'[n].stage) = match'.phase
          /\ match'.phase \notin PausedPhases /\ ~rounds'[n].paused
        BY <1>10 DEF Starts, RunningStatus, PausedPhases
    <2>4. Leads(rounds', match'.phase, n, Effective')
        BY <2>1, <2>2, <2>3 DEF Leads
    <2>5. ~rounds'[n].ended /\ rounds'[n].stamp = nOps /\ nOps' = nOps
        BY <1>10 DEF Starts
    <2>6. Recent(n)'
        <3>1. \A j \in OpIds : Applied(j)' => j <= nOps
            BY <1>1, <1>10, AppliedNumbers DEF Starts, Applied
        <3> QED
            BY <1>1, <2>5, <3>1 DEF Recent, OpIds
    <2> QED
        BY <2>1, <2>4, <2>5, <2>6
<1>11. ASSUME NEW k \in OpIds, Restores(k) PROVE Goal
    <2>1. Spent(k) = {} /\ Effective' = ops[k].before /\ Applied(k) /\ Newest(k) /\ ~disordered
        BY <1>1, <1>11, UndoSpendsNothing
    <2>2. /\ match'.phase = ops[k].previous.phase /\ match.phase = ops[k].resulting.phase /\ nOps' = nOps
          /\ \A r \in Created : SameIdentity(r) /\ rounds'[r].ended = rounds[r].ended
          /\ \A r \in Created : rounds'[r].by = IF rounds[r].by = k THEN 0 ELSE rounds[r].by
          /\ Created' = Created /\ ops'[k].status = "UNDONE" /\ \A j \in OpIds : j # k => ops'[j] = ops[j]
        BY <1>3, <1>11 DEF Restores, UndoAllowed, Created
    <2>3. CASE Leaves(k)
        <3>1. PICK n \in ops[k].open : Leads(rounds, ops[k].previous.phase, n, ops[k].before) /\ StartedSince(n, k)
            BY <1>1, <2>1, <2>2, <2>3 DEF LeadInv
        <3>2. n \in Created /\ SameIdentity(n) /\ rounds'[n].paused = rounds[n].paused
            BY <1>1, <2>1, <2>3, <3>1, OnlyLeaderChanges
        <3>3. Leads(rounds', match'.phase, n, Effective')
            BY <2>1, <2>2, <3>1, <3>2, LeadsKept
        <3>4. ~rounds'[n].ended
            BY <2>1, <2>2, <3>1, <3>2 DEF Spent
        <3>5. Recent(n)'
            <4>1. SUFFICES ASSUME NEW j \in OpIds, Applied(j)', Leaves(j)' PROVE rounds'[n].stamp >= j
                BY DEF Recent
            <4>2. j # k
                BY <2>2, <4>1 DEF Applied
            <4>3. Applied(j) /\ Leaves(j)
                BY <2>2, <4>1, <4>2 DEF Applied, Leaves
            <4>4. j < k
                BY <2>1, <4>2, <4>3 DEF Newest, OpIds
            <4> QED
                BY <2>2, <3>1, <3>2, <4>3, <4>4 DEF StartedSince, SameIdentity
        <3>6. n \in Effective'
            BY <3>3 DEF Leads
        <3> QED
            BY <3>3, <3>4, <3>5, <3>6
    <2>4. CASE ~Leaves(k)
        <3>1. ops[k].previous.phase = ops[k].resulting.phase /\ \A r \in Created : rounds[r].by # k
            BY <1>1, <2>1, <2>4 DEF LeadInv
        <3>2. Effective' = Effective
            BY <2>2, <3>1 DEF Effective
        <3>3. \A i \in Instances : ~PauseRound(i) /\ ~ResumeRound(i)
            BY <2>1, <2>2 DEF PauseRound, ResumeRound, Applied
        <3>4. NoneLeaves
            BY <2>1, <2>2 DEF Applied
        <3> QED
            BY <1>5, <2>2, <3>1, <3>2, <3>3, <3>4
    <2> QED
        BY <2>3, <2>4
<1> QED
    BY <1>1, <1>6, <1>7, <1>8, <1>9, <1>10, <1>11, StepShape, StartShape, ExitShape, CancelShape, UndoShape,
       RestartShape

\* Every step keeps the lead, and it holds at first.
LEMMA LeadInductive ==
    /\ Init => LeadInv
    /\ UndoInv /\ LeadInv /\ [Next]_vars => LeadInv'
<1>1. ASSUME Init PROVE LeadInv
    <2>1. \A k \in OpIds : ~Applied(k)
        BY <1>1 DEF Init, NoOp, Applied
    <2>2. match.phase = "WAITING"
        BY <1>1 DEF Init
    <2> QED
        BY <2>1, <2>2 DEF LeadInv, InPlay, RunningPhases, PausedPhases
<1>2. ASSUME UndoInv, LeadInv, [Next]_vars, ~disordered'
      PROVE  /\ match'.phase \in InPlay =>
                   \E n \in Effective' : /\ Leads(rounds', match'.phase, n, Effective')
                                         /\ ~rounds'[n].ended /\ Recent(n)'
             /\ \A k \in OpIds : Applied(k)' /\ Leaves(k)' /\ ops'[k].previous.phase \in InPlay =>
                   \E n \in ops'[k].open : /\ Leads(rounds', ops'[k].previous.phase, n, ops'[k].before)
                                           /\ StartedSince(n, k)'
             /\ \A k \in OpIds : Applied(k)' /\ ~Leaves(k)' =>
                   ops'[k].previous.phase = ops'[k].resulting.phase /\ \A r \in Created' : rounds'[r].by # k
    <2>1. FormedInv /\ OpenInv
        BY <1>2 DEF UndoInv, OrderInv
    <2> QED
        BY <1>2, <2>1, LeadNow, LeadSaved, SuspensionKeeps
<1>3. UndoInv /\ LeadInv /\ [Next]_vars => LeadInv'
    BY <1>2 DEF LeadInv
<1> QED
    BY <1>1, <1>3

\* As long as operations are undone newest first, no process ends a paused
\* round, whatever timers the process that did not serve the pause still holds
\* and whatever recovery scan runs: the round that a running match is about is
\* its newest effective one, and a running match's newest round is not paused.
THEOREM PausedKeepsTime == Spec => PausedRoundKeepsTime
<1> DEFINE Kept == \A r \in Created :
        ~disordered /\ rounds[r].paused /\ rounds[r].by = 0 /\ IsNewest(r) /\ rounds'[r].ended => rounds[r].ended
<1>1. UndoInv /\ LeadInv /\ [Next]_vars => [Kept]_vars
    <2>1. SUFFICES ASSUME UndoInv, LeadInv, [Next]_vars, NEW r \in Created, ~disordered, rounds[r].paused,
                          rounds[r].by = 0, IsNewest(r), rounds'[r].ended, ~rounds[r].ended
                   PROVE  FALSE
        OBVIOUS
    <2>2. FormInv /\ r \in Effective /\ \A q \in Effective : q \in Created /\ q \in Nat
        BY <2>1 DEF UndoInv, OrderInv, FormedInv, Effective, Created
    <2>3. Ends(r)
        <3>1. rounds'[r].ended # rounds[r].ended
            BY <2>1
        <3> QED
            BY <2>1, <2>2, <3>1, OnlyTimersEnd
    <2>4. match.phase = RunningStatus(rounds[r].number, rounds[r].stage)
        BY <2>3 DEF Ends, Expirable
    <2>5. match.phase \in RunningPhases
        BY <2>2, <2>4, KindOfPhase
    <2>6. match.phase \in InPlay /\ match.phase \notin PausedPhases
        BY <2>5 DEF InPlay, RunningPhases, PausedPhases
    <2>7. PICK n \in Effective : Leads(rounds, match.phase, n, Effective)
        BY <2>1, <2>6 DEF LeadInv
    <2>8. ~rounds[n].paused /\ r <= n /\ RunningStatus(rounds[n].number, rounds[n].stage) = match.phase
        BY <2>2, <2>5, <2>6, <2>7 DEF Leads
    <2>9. n \in EffectiveOf(rounds[r].stage, rounds[r].number)
        BY <2>2, <2>4, <2>8, KindOfPhase DEF EffectiveOf
    <2>10. n <= r
        BY <2>1, <2>9 DEF IsNewest
    <2>11. n = r
        BY <2>2, <2>8, <2>10
    <2> QED
        BY <2>1, <2>8, <2>11
<1> QED
    BY <1>1, UndoInductive, LeadInductive, PTL DEF Spec, PausedRoundKeepsTime
=============================================================================
