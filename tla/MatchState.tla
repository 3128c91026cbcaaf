----------------------------- MODULE MatchState -----------------------------
(***************************************************************************)
(* What a snapshot of the match offers the supervisor, and what the         *)
(* supervisor's console makes of it.  The snapshot computes its             *)
(* capabilities from reads of its own (realtime-match-state.service.ts);    *)
(* the commands decide once more, under the row lock, from other queries    *)
(* (MatchLifecycle).  The two have to agree in every history, or the        *)
(* console offers what is refused.                                          *)
(***************************************************************************)
EXTENDS MatchLifecycle

-----------------------------------------------------------------------------
(* Reads of a snapshot.                                                     *)

\* commonReasons
Blocked == match.lifecycle \in {"SUSPENDED", "COMPLETED"} \/ Unresolved

EndedRegulation == Ended({r \in Effective : rounds[r].stage = "REGULATION"})

\* Every athlete has an effective summary of both ended regulation rounds.
HasRegulationSummaries ==
    Cardinality(EndedRegulation) = 2 /\ \A r \in EndedRegulation : rounds[r].summary = 0

\* completedAppeal: effective, over an effective source round.
CommittedRegulationAppeals ==
    {a \in 1 .. nAppeals : /\ appeals[a].scope = "REGULATION" /\ appeals[a].by = 0
                           /\ rounds[appeals[a].source].by = 0}

\* rounds.find: the effective overtime round of the highest attempt, ended or not.
EffectiveOvertime == {r \in Effective : rounds[r].stage = "OVERTIME"}
CurrentOvertime ==
    CHOOSE r \in EffectiveOvertime : \A q \in EffectiveOvertime : rounds[q].attempt <= rounds[r].attempt

CurrentOvertimeAppeals ==
    {a \in 1 .. nAppeals : /\ appeals[a].scope = "OVERTIME" /\ appeals[a].by = 0
                           /\ EffectiveOvertime # {}
                           /\ appeals[a].source = CurrentOvertime
                           /\ appeals[a].attempt = rounds[CurrentOvertime].attempt}

HasOvertimeSummary == EffectiveOvertime # {} /\ rounds[CurrentOvertime].summary = 0

\* The open round of a running or paused phase.
ActiveRounds ==
    {r \in Effective : /\ match.phase \in RunningPhases \cup PausedPhases
                       /\ ~rounds[r].ended
                       /\ rounds[r].number = match.currentRound
                       /\ rounds[r].stage = IF match.phase \in OvertimePhases THEN "OVERTIME"
                                            ELSE "REGULATION"}

-----------------------------------------------------------------------------
(* Capabilities.                                                            *)

CanCompleteRegulationAppeal ==
    /\ ~Blocked /\ match.phase = "REGULATION_APPEAL"
    /\ HasRegulationSummaries /\ CommittedRegulationAppeals = {}

CanCompleteOvertimeAppeal ==
    /\ ~Blocked /\ match.phase = "OVERTIME_APPEAL"
    /\ HasOvertimeSummary /\ CurrentOvertimeAppeals = {}

\* renderOvertime: the final scores of the committed appeal are equal.  Without
\* an appeal the judges' points alone are compared, which may be equal too.
OvertimeTied ==
    IF CurrentOvertimeAppeals # {} THEN appeals[Latest(CurrentOvertimeAppeals)].result = "TIE"
    ELSE HasOvertimeSummary

CanStartOvertime == match.phase = "OVERTIME_READY"
CanRestartOvertime == match.phase = "OVERTIME_TIEBREAK_DECISION" /\ OvertimeTied
CanSelectManualWinner == match.phase = "OVERTIME_TIEBREAK_DECISION" /\ OvertimeTied
CanPublish == ~Blocked /\ match.phase = "RESULT_PUBLICATION_READY"

\* completionCapability; match:complete itself refuses always.
CanComplete ==
    /\ ~Blocked /\ match.phase = "AWAITING_RESULT_SAVE"
    /\ \A n \in {1, 2} : \E r \in Ended(Effective) : rounds[r].number = n

\* Mutant: a retained mode is offered whatever the rounds are.
AllowedModesOfPhase ==
    {"CANCEL_RESULTS", "SUSPEND_KEEP_ROUND_1"}
      \cup (IF match.phase \in RetainablePhases THEN {"SUSPEND_KEEP_V2_PHASE"} ELSE {})

EndedNumber(n) == \E r \in Ended(Effective) : rounds[r].number = n

\* exitCapability
AllowedModes ==
    IF match.lifecycle = "COMPLETED" THEN {}
    ELSE {"CANCEL_RESULTS"}
           \cup (IF match.phase \in RetainablePhases THEN {"SUSPEND_KEEP_V2_PHASE"} ELSE {})
           \cup (IF EndedNumber(1) /\ ~Unresolved THEN {"SUSPEND_KEEP_ROUND_1"} ELSE {})
           \cup (IF EndedNumber(2) /\ ~Unresolved THEN {"SUSPEND_KEEP_ROUNDS_1_AND_2"} ELSE {})

-----------------------------------------------------------------------------
(* The buttons of the console.  Presence of the participants, which enables  *)
(* the start, is the environment's.                                         *)

OffersStart == match.phase \in {"WAITING", "BREAK"} \/ CanStartOvertime
OffersPause == match.phase \in RunningPhases
OffersResume == match.phase \in PausedPhases
OffersCancelRound == match.phase = "BREAK"
OffersFault == match.phase \in RunningPhases
OffersAppeal == CanCompleteRegulationAppeal \/ CanCompleteOvertimeAppeal
OffersRestart == CanRestartOvertime
OffersManualWinner == CanSelectManualWinner
OffersPublish == CanPublish
OffersExit(mode) == mode \in AllowedModes
OffersSave == CanComplete

-----------------------------------------------------------------------------
(* Properties.                                                              *)

\* No bound of the model stands in the way of one more command.
WithinBounds == nRounds < MaxRounds /\ nOps < MaxOps /\ nAppeals < MaxAppeals

\* The countdown the console shows has not run out, and the round can be scored.
TimeLeft == \A r \in ActiveRounds : ~rounds[r].due /\ WithinScored(r)

\* In an orderly history whatever the console of an assigned supervisor offers is
\* accepted by the command behind it: starts, pauses, resumptions, faults,
\* cancellations, every mode of exit, appeals, the tie-break and the publication.
\* (Saving, which is offered in AWAITING_RESULT_SAVE only, is the exception.)
OffersAreAccepted ==
    crew /\ Orderly /\ ~AppealsRetired /\ WithinBounds =>
        /\ \A i \in Instances : server[i] = "up" =>
            /\ OffersStart => ENABLED StartRound(i)
            /\ OffersPause /\ TimeLeft => ENABLED PauseRound(i)
            /\ OffersResume => ENABLED ResumeRound(i)
            /\ OffersCancelRound => ENABLED CancelResults(i, FALSE)
            /\ \A mode \in ExitModes : OffersExit(mode) => ENABLED ExitMatch(i, mode)
        /\ OffersFault /\ TimeLeft => \E r \in RoundIds : ENABLED RecordFault(r)
        /\ OffersAppeal =>
            \/ ENABLED CompleteRegulationAppeal("TIE") \/ ENABLED CompleteOvertimeAppeal("TIE")
        /\ OffersRestart => ENABLED RestartOvertime
        /\ OffersManualWinner => \A colour \in Colours : ENABLED ManualWinner(colour)
        /\ OffersPublish => ENABLED Publish

-----------------------------------------------------------------------------
(* What a document says and the code does not do.                           *)

\* ADR 0006: "IN_PROGRESS / AWAITING_RESULT_SAVE | match:complete | COMPLETED".
\* The console offers to save the result; no command accepts it there.
SavedResultsComplete == OffersSave /\ crew => ENABLED Publish
=============================================================================
