---------------------------- MODULE ScoringProofs ----------------------------
(***************************************************************************)
(* Proofs about Scoring, for every number of processes, judges, rounds,      *)
(* windows and cancellations.  The first half is about windows: each is      *)
(* resolved once, by a majority, for good.  The second half is about points: *)
(* what summaries, cancellations and undos make of them.                     *)
(***************************************************************************)
EXTENDS Scoring, FiniteSetTheorems, TLAPS

USE ScoringAssumption

\* The part of TypeOK that resolution depends on.
WindowsTyped ==
    /\ nRounds \in 0 .. MaxRounds /\ nWindows \in 0 .. MaxWindows
    /\ windows \in [WindowIds -> WindowType]
    /\ votes \in [WindowIds -> SUBSET (Judges \X Colours)]
    /\ awarded \in [WindowIds -> Nat]

\* A row that does not exist yet is not resolved.
FreshWindows == \A w \in WindowIds : w > nWindows => ~windows[w].resolved

\* No judge has voted for both colours in a window.
OneVote == \A w \in WindowIds, j \in Judges : ~(<<j, "RED">> \in votes[w] /\ <<j, "BLUE">> \in votes[w])

\* The recorded winner is the one the persisted votes yield.
WinnerByVotes == \A w \in WindowIds : windows[w].resolved => windows[w].winner = WinningColour(w)

\* The inductive invariant.
ScoringInv == WindowsTyped /\ FreshWindows /\ OneVote /\ WinnerByVotes /\ AwardedOnce

\* What a step does to the windows: nothing but deadlines and invalidations, ...
Calm ==
    /\ \A w \in WindowIds : /\ windows'[w].resolved = windows[w].resolved
                            /\ windows'[w].winner = windows[w].winner
    /\ windows' \in [WindowIds -> WindowType]
    /\ UNCHANGED <<nWindows, votes, awarded>>

\* ... or the resolution of open windows, ...
ResolveStep ==
    /\ \E S \in SUBSET Open : windows' = ResolvedWindows(S) /\ awarded' = AwardedAfter(S)
    /\ UNCHANGED <<nWindows, votes>>

\* ... or a vote.
VoteStep ==
    \E i \in Instances, j \in Judges, c \in Colours, r \in ActiveRounds :
        JoinWindow(i, j, c, r) \/ OpenWindow(i, j, c, r)

\* The winner of a window is a colour or none.
LEMMA WinnerType == \A w : WinningColour(w) \in Colours \cup {"NONE"}
BY DEF WinningColour, Colours

\* The winner depends on the votes of the window alone.
LEMMA WinnerDepends ==
    ASSUME NEW w, votes'[w] = votes[w]
    PROVE  WinningColour(w)' = WinningColour(w)
<1>1. \A c : Voted(w, c)' = Voted(w, c)
    BY DEF Voted
<1> QED
    BY <1>1 DEF WinningColour, JudgeMajority

\* Rounds created stay within their bound, and every step is one of the three.
LEMMA StepKinds ==
    ASSUME WindowsTyped, [Next]_vars
    PROVE  nRounds' \in 0 .. MaxRounds /\ (Calm \/ ResolveStep \/ VoteStep)
<1> USE DEF WindowsTyped
<1>1. ASSUME UNCHANGED <<windows, nWindows, votes, awarded>>
      PROVE  Calm
    BY <1>1 DEF Calm
<1>2. ASSUME ExpireRound PROVE UNCHANGED nRounds /\ ResolveStep
    <2>1. Overdue \in SUBSET Open
        BY DEF Overdue
    <2>2. /\ windows' = ResolvedWindows(Overdue) /\ awarded' = AwardedAfter(Overdue)
          /\ UNCHANGED <<nRounds, nWindows, votes>>
        BY <1>2 DEF ExpireRound
    <2> QED
        BY <2>1, <2>2 DEF ResolveStep
<1>3. ASSUME NEW i \in Instances, NEW j \in Judges, NEW c \in Colours, SubmitVote(i, j, c)
      PROVE  UNCHANGED nRounds /\ VoteStep
    <2>1. UNCHANGED nRounds /\ \E r \in ActiveRounds : JoinWindow(i, j, c, r) \/ OpenWindow(i, j, c, r)
        BY <1>3 DEF SubmitVote, roundVars
    <2> QED
        BY <2>1 DEF VoteStep
<1>4. CASE StartRound
    BY <1>1, <1>4 DEF StartRound, windowVars
<1>5. CASE PauseRound \/ ResumeRound \/ CompleteAppeal
    BY <1>1, <1>5 DEF PauseRound, ResumeRound, CompleteAppeal, windowVars
<1>6. ASSUME NEW lives \in [WindowIds -> BOOLEAN],
             windows' = [w \in WindowIds |-> [windows[w] EXCEPT !.live = lives[w]]],
             UNCHANGED <<nWindows, votes, awarded>>
      PROVE  Calm
    BY <1>6 DEF Calm, WindowType
<1>7. ASSUME NEW entireMatch \in BOOLEAN, CancelResults(entireMatch)
      PROVE  UNCHANGED nRounds /\ Calm
    <2> DEFINE invalidated == {w \in 1 .. nWindows : windows[w].live /\ windows[w].round \in SelectedRounds(entireMatch)}
               lives == [w \in WindowIds |-> windows[w].live /\ w \notin invalidated]
    <2>1. /\ windows' = [w \in WindowIds |-> [windows[w] EXCEPT !.live = @ /\ w \notin invalidated]]
          /\ UNCHANGED <<nRounds, nWindows, votes, awarded>>
        BY <1>7 DEF CancelResults
    <2>2. lives \in [WindowIds -> BOOLEAN]
        OBVIOUS
    <2>3. windows' = [w \in WindowIds |-> [windows[w] EXCEPT !.live = lives[w]]]
        BY <2>1
    <2> HIDE DEF lives, invalidated
    <2> QED
        BY <1>6, <2>1, <2>2, <2>3
<1>8. ASSUME Undo PROVE UNCHANGED nRounds /\ Calm
    <2> DEFINE lives == [w \in WindowIds |-> windows[w].live \/ w \in op.windows]
    <2>1. /\ windows' = [w \in WindowIds |-> [windows[w] EXCEPT !.live = @ \/ w \in op.windows]]
          /\ UNCHANGED <<nRounds, nWindows, votes, awarded>>
        BY <1>8 DEF Undo
    <2>2. lives \in [WindowIds -> BOOLEAN]
        OBVIOUS
    <2>3. windows' = [w \in WindowIds |-> [windows[w] EXCEPT !.live = lives[w]]]
        BY <2>1
    <2> HIDE DEF lives
    <2> QED
        BY <1>6, <2>1, <2>2, <2>3
<1>9. CASE Officials
    BY <1>3, <1>4, <1>5, <1>7, <1>8, <1>9 DEF Officials, PauseRound, ResumeRound, CompleteAppeal
<1>10. ASSUME NEW w \in WindowIds, WindowDeadline(w)
       PROVE  UNCHANGED nRounds /\ Calm
    <2>1. /\ windows' = [windows EXCEPT ![w].due = TRUE]
          /\ UNCHANGED <<nRounds, nWindows, votes, awarded>>
        BY <1>10 DEF WindowDeadline, roundVars
    <2> QED
        BY <2>1 DEF Calm, WindowType
<1>11. ASSUME NEW r, RoundDeadline(r) PROVE UNCHANGED nRounds /\ Calm
    BY <1>1, <1>11 DEF RoundDeadline, windowVars
<1>12. ASSUME NEW i \in Instances, NEW w \in WindowIds, HandleResolution(i, w)
       PROVE  UNCHANGED nRounds /\ (Calm \/ ResolveStep)
    <2>1. UNCHANGED <<nRounds, nWindows, votes>>
        BY <1>12 DEF HandleResolution, roundVars
    <2>2. CASE UNCHANGED <<windows, awarded>>
        BY <1>1, <2>1, <2>2
    <2>3. CASE Resolvable(w) /\ windows' = ResolvedWindows({w}) /\ awarded' = AwardedAfter({w})
        <3>1. {w} \in SUBSET Open
            BY <2>3 DEF Resolvable
        <3> QED
            BY <2>1, <2>3, <3>1 DEF ResolveStep
    <2> QED
        BY <1>12, <2>1, <2>2, <2>3 DEF HandleResolution
<1>13. ASSUME NEW i \in Instances, Restart(i)
       PROVE  UNCHANGED nRounds /\ (Calm \/ ResolveStep)
    <2>1. CASE ExpireRound
        BY <1>2, <2>1
    <2>2. CASE /\ windows' = ResolvedWindows(Overdue) /\ awarded' = AwardedAfter(Overdue)
               /\ UNCHANGED <<nRounds, nWindows, votes>>
        <3>1. Overdue \in SUBSET Open
            BY DEF Overdue
        <3> QED
            BY <2>2, <3>1 DEF ResolveStep
    <2> QED
        BY <1>13, <2>1, <2>2 DEF Restart, roundVars
<1>14. ASSUME NEW i \in Instances, Process(i)
       PROVE  UNCHANGED nRounds /\ (Calm \/ ResolveStep)
    BY <1>1, <1>2, <1>12, <1>13, <1>14
        DEF Process, TimerFires, HandlerFails, Crash, EndRound, roundVars, windowVars
<1>15. CASE UNCHANGED vars
    BY <1>1, <1>15 DEF vars, roundVars, windowVars
<1> QED
    BY <1>9, <1>10, <1>11, <1>14, <1>15 DEF Next, Clock

\* Deadlines and invalidations preserve the invariant.
LEMMA CalmPreserves ==
    ASSUME ScoringInv, Calm, nRounds' \in 0 .. MaxRounds
    PROVE  ScoringInv'
<1>1. \A w \in WindowIds : WinningColour(w)' = WinningColour(w)
    BY WinnerDepends DEF Calm
<1>2. WindowsTyped' /\ FreshWindows' /\ OneVote' /\ AwardedOnce'
    BY DEF ScoringInv, Calm, WindowsTyped, FreshWindows, OneVote, AwardedOnce
<1>3. WinnerByVotes'
    BY <1>1 DEF ScoringInv, Calm, WinnerByVotes
<1> QED
    BY <1>2, <1>3 DEF ScoringInv

\* A set of open windows is resolved: each was unresolved and without a point.
LEMMA ResolutionEffect ==
    ASSUME ScoringInv, NEW S \in SUBSET Open
    PROVE  /\ ResolvedWindows(S) \in [WindowIds -> WindowType]
           /\ AwardedAfter(S) \in [WindowIds -> Nat]
           /\ \A w \in WindowIds :
                /\ w \in S => /\ ~windows[w].resolved /\ w <= nWindows
                             /\ ResolvedWindows(S)[w].resolved
                             /\ ResolvedWindows(S)[w].winner = WinningColour(w)
                             /\ AwardedAfter(S)[w] = IF WinningColour(w) = "NONE" THEN 0 ELSE 1
                /\ w \notin S => /\ ResolvedWindows(S)[w] = windows[w]
                                /\ AwardedAfter(S)[w] = awarded[w]
<1> USE DEF ScoringInv, WindowsTyped
<1>1. \A w \in S : ~windows[w].resolved /\ w \in 1 .. nWindows
    BY DEF Open, Pending
<1>2. \A w \in WindowIds : w \in S => awarded[w] = 0
    BY <1>1 DEF AwardedOnce
<1>3. \A w \in WindowIds : windows[w] \in WindowType /\ awarded[w] \in Nat
    OBVIOUS
<1>4. \A w \in WindowIds : ResolvedWindows(S)[w] =
        IF w \in S THEN [windows[w] EXCEPT !.resolved = TRUE, !.winner = WinningColour(w)]
        ELSE windows[w]
    BY DEF ResolvedWindows
<1>5. \A w \in WindowIds : ResolvedWindows(S)[w] \in WindowType
    <2> SUFFICES ASSUME NEW w \in WindowIds PROVE ResolvedWindows(S)[w] \in WindowType
        OBVIOUS
    <2>1. WinningColour(w) \in Colours \cup {"NONE"} /\ windows[w] \in WindowType
        BY <1>3, WinnerType
    <2>2. CASE w \in S
        <3>1. ResolvedWindows(S)[w] =
                [windows[w] EXCEPT !.resolved = TRUE, !.winner = WinningColour(w)]
            BY <1>4, <2>2
        <3> QED
            BY <2>1, <3>1 DEF WindowType
    <2>3. CASE w \notin S
        BY <1>4, <2>1, <2>3
    <2> QED
        BY <2>2, <2>3
<1>6. ResolvedWindows(S) \in [WindowIds -> WindowType]
    BY <1>5 DEF ResolvedWindows
<1>7. \A w \in WindowIds : AwardedAfter(S)[w] =
        IF w \in S /\ WinningColour(w) # "NONE" THEN awarded[w] + 1 ELSE awarded[w]
    BY DEF AwardedAfter
<1>8. AwardedAfter(S) \in [WindowIds -> Nat]
    BY <1>3 DEF AwardedAfter
<1>9. \A w \in WindowIds : w \in S =>
        /\ ResolvedWindows(S)[w].resolved
        /\ ResolvedWindows(S)[w].winner = WinningColour(w)
    BY <1>3, <1>4 DEF WindowType
<1>10. \A w \in WindowIds : w \in S =>
        AwardedAfter(S)[w] = IF WinningColour(w) = "NONE" THEN 0 ELSE 1
    BY <1>2, <1>7
<1>11. \A w \in WindowIds : w \notin S =>
        ResolvedWindows(S)[w] = windows[w] /\ AwardedAfter(S)[w] = awarded[w]
    BY <1>4, <1>7
<1>12. \A w \in S : w <= nWindows
    BY <1>1
<1> HIDE DEF ScoringInv, WindowsTyped
<1> QED
    BY <1>1, <1>6, <1>8, <1>9, <1>10, <1>11, <1>12

\* A resolution preserves the invariant.
LEMMA ResolutionPreserves ==
    ASSUME ScoringInv, ResolveStep, nRounds' \in 0 .. MaxRounds
    PROVE  ScoringInv'
<1>1. PICK S \in SUBSET Open : windows' = ResolvedWindows(S) /\ awarded' = AwardedAfter(S)
    BY DEF ResolveStep
<1>2. UNCHANGED <<nWindows, votes>>
    BY DEF ResolveStep
<1>3. \A w \in WindowIds : WinningColour(w)' = WinningColour(w)
    BY <1>2, WinnerDepends
<1>4. WindowsTyped' /\ OneVote'
    BY <1>1, <1>2, ResolutionEffect DEF ScoringInv, WindowsTyped, OneVote
<1>5. FreshWindows'
    BY <1>1, <1>2, ResolutionEffect DEF ScoringInv, FreshWindows, WindowsTyped, WindowIds
<1>6. WinnerByVotes'
    BY <1>1, <1>3, ResolutionEffect DEF ScoringInv, WinnerByVotes
<1>7. AwardedOnce'
    BY <1>1, ResolutionEffect DEF ScoringInv, AwardedOnce
<1> QED
    BY <1>4, <1>5, <1>6, <1>7 DEF ScoringInv

\* A vote that joins an open window preserves the invariant.
LEMMA JoinPreserves ==
    ASSUME ScoringInv, NEW i, NEW j \in Judges, NEW c \in Colours, NEW r, JoinWindow(i, j, c, r),
           nRounds' \in 0 .. MaxRounds
    PROVE  ScoringInv'
<1> USE DEF ScoringInv, WindowsTyped
<1>1. PICK o \in Open : MayVote(j, c, o) /\ votes' = [votes EXCEPT ![o] = @ \cup {<<j, c>>}]
    BY DEF JoinWindow
<1>2. UNCHANGED <<windows, nWindows, awarded>>
    BY DEF JoinWindow
<1>3. o \in WindowIds /\ ~windows[o].resolved
    BY DEF Open, Pending, WindowIds
<1>4. /\ votes'[o] = votes[o] \cup {<<j, c>>}
      /\ \A w \in WindowIds : w # o => votes'[w] = votes[w]
    BY <1>1, <1>3
<1>5. votes' \in [WindowIds -> SUBSET (Judges \X Colours)]
    BY <1>1, <1>3
<1>6. \A d \in Colours : <<j, d>> \notin votes[o]
    BY <1>1 DEF MayVote
<1>7. OneVote'
    <2> SUFFICES ASSUME NEW w \in WindowIds, NEW k \in Judges,
                        <<k, "RED">> \in votes'[w], <<k, "BLUE">> \in votes'[w]
                 PROVE  FALSE
        BY DEF OneVote
    <2>1. CASE w # o \/ k # j
        <3>1. <<k, "RED">> \in votes[w] /\ <<k, "BLUE">> \in votes[w]
            BY <1>4, <2>1
        <3> QED
            BY <3>1 DEF OneVote
    <2>2. CASE w = o /\ k = j
        <3>1. <<j, "RED">> \notin votes[o] /\ <<j, "BLUE">> \notin votes[o]
            BY <1>6 DEF Colours
        <3>2. <<j, "RED">> = <<j, c>> /\ <<j, "BLUE">> = <<j, c>>
            BY <1>4, <2>2, <3>1
        <3> QED
            BY <3>2
    <2> QED
        BY <2>1, <2>2
<1>8. WinnerByVotes'
    BY <1>2, <1>3, <1>4, WinnerDepends DEF WinnerByVotes
<1> QED
    BY <1>2, <1>5, <1>7, <1>8 DEF FreshWindows, AwardedOnce

\* A vote that opens a window, after having resolved an overdue one, preserves
\* the invariant.
LEMMA OpenPreserves ==
    ASSUME ScoringInv, NEW i, NEW j \in Judges, NEW c \in Colours, NEW r \in ActiveRounds,
           OpenWindow(i, j, c, r), nRounds' \in 0 .. MaxRounds
    PROVE  ScoringInv'
<1> DEFINE n == nWindows + 1
           S == Overdue
           new == [NoWindow EXCEPT !.round = r, !.live = TRUE]
<1>1. S \in SUBSET Open
    BY DEF Overdue
<1>2. nWindows' = n /\ nWindows < MaxWindows /\ awarded' = AwardedAfter(S)
    BY DEF OpenWindow
<1>3. windows' = [ResolvedWindows(S) EXCEPT ![n] = new]
    BY DEF OpenWindow
<1>4. votes' = [votes EXCEPT ![n] = {<<j, c>>}]
    BY DEF OpenWindow
<1>5. new \in WindowType /\ ~new.resolved
    <2>1. r \in 0 .. MaxRounds
        BY DEF ActiveRounds, ScoringInv, WindowsTyped
    <2>2. NoWindow \in WindowType /\ NoWindow.resolved = FALSE
        BY DEF NoWindow, WindowType
    <2>3. new \in WindowType
        BY <2>1, <2>2 DEF WindowType
    <2>4. new.resolved = NoWindow.resolved
        BY <2>2 DEF WindowType
    <2> QED
        BY <2>2, <2>3, <2>4
<1> HIDE DEF S, new
<1>6. n \in WindowIds /\ n > nWindows /\ nWindows \in Nat
    BY <1>2 DEF WindowIds, ScoringInv, WindowsTyped
<1>7. n \notin S
    BY <1>1, <1>6 DEF Open, Pending
<1>8. /\ windows'[n] = new
      /\ \A w \in WindowIds : w # n => windows'[w] = ResolvedWindows(S)[w]
      /\ windows' \in [WindowIds -> WindowType]
    BY <1>1, <1>3, <1>5, <1>6, ResolutionEffect
<1>9. ~windows[n].resolved /\ awarded[n] = 0
    BY <1>6 DEF ScoringInv, FreshWindows, AwardedOnce
<1>10. awarded'[n] = 0 /\ awarded' \in [WindowIds -> Nat]
    BY <1>1, <1>2, <1>6, <1>7, <1>9, ResolutionEffect
<1>11. /\ votes'[n] = {<<j, c>>}
       /\ \A w \in WindowIds : w # n => votes'[w] = votes[w]
       /\ votes' \in [WindowIds -> SUBSET (Judges \X Colours)]
    BY <1>4, <1>6 DEF ScoringInv, WindowsTyped
<1>12. WindowsTyped'
    BY <1>2, <1>6, <1>8, <1>10, <1>11 DEF WindowsTyped, WindowIds
<1>13. OneVote'
    <2> SUFFICES ASSUME NEW w \in WindowIds, NEW k \in Judges,
                        <<k, "RED">> \in votes'[w], <<k, "BLUE">> \in votes'[w]
                 PROVE  FALSE
        BY DEF OneVote
    <2>1. CASE w # n
        BY <1>11, <2>1 DEF ScoringInv, OneVote
    <2>2. CASE w = n
        BY <1>11, <2>2
    <2> QED
        BY <2>1, <2>2
<1>14. FreshWindows'
    BY <1>1, <1>2, <1>5, <1>6, <1>8, ResolutionEffect DEF ScoringInv, FreshWindows, WindowIds
<1>15. WinnerByVotes'
    <2> SUFFICES ASSUME NEW w \in WindowIds, windows'[w].resolved
                 PROVE  windows'[w].winner = WinningColour(w)'
        BY DEF WinnerByVotes
    <2>1. w # n
        BY <1>5, <1>8
    <2>2. WinningColour(w)' = WinningColour(w)
        BY <1>11, <2>1, WinnerDepends
    <2>3. windows'[w].winner = WinningColour(w)
        BY <1>1, <1>8, <2>1, ResolutionEffect DEF ScoringInv, WinnerByVotes
    <2> QED
        BY <2>2, <2>3
<1>16. AwardedOnce'
    <2> SUFFICES ASSUME NEW w \in WindowIds
                 PROVE  awarded'[w] = IF windows'[w].resolved /\ windows'[w].winner # "NONE" THEN 1 ELSE 0
        BY DEF AwardedOnce
    <2>1. CASE w = n
        BY <1>5, <1>8, <1>10, <2>1
    <2>2. CASE w # n
        BY <1>1, <1>2, <1>8, <2>2, ResolutionEffect DEF ScoringInv, AwardedOnce
    <2> QED
        BY <2>1, <2>2
<1> QED
    BY <1>12, <1>13, <1>14, <1>15, <1>16 DEF ScoringInv

\* The invariant is inductive.
LEMMA ScoringInductive ==
    /\ Init => ScoringInv
    /\ ScoringInv /\ [Next]_vars => ScoringInv'
<1>1. ASSUME Init PROVE ScoringInv
    BY <1>1 DEF Init, ScoringInv, WindowsTyped, FreshWindows, OneVote, WinnerByVotes, AwardedOnce,
        NoWindow, WindowType, Colours, WindowIds
<1>2. ASSUME ScoringInv, [Next]_vars PROVE ScoringInv'
    <2>1. nRounds' \in 0 .. MaxRounds /\ (Calm \/ ResolveStep \/ VoteStep)
        BY <1>2, StepKinds DEF ScoringInv
    <2>2. CASE VoteStep
        BY <1>2, <2>1, <2>2, JoinPreserves, OpenPreserves DEF VoteStep
    <2> QED
        BY <1>2, <2>1, <2>2, CalmPreserves, ResolutionPreserves
<1> QED
    BY <1>1, <1>2

\* A window awards at most one point, whoever resolves it: the next vote, the
\* end of the round, the timer of any process or startup recovery.
THEOREM WindowsAwardOnce == Spec => []AwardedOnce
<1>1. ScoringInv => AwardedOnce
    BY DEF ScoringInv
<1> QED
    BY <1>1, ScoringInductive, PTL DEF Spec

\* A winner has a majority of judges who voted for nobody else.
LEMMA InvImpliesMajority == ScoringInv => PointHasMajority
<1> SUFFICES ASSUME ScoringInv, NEW w \in WindowIds, awarded[w] > 0
             PROVE  2 * Cardinality({j \in Judges : {d \in Colours : <<j, d>> \in votes[w]} = {windows[w].winner}})
                        > Cardinality(Judges)
    BY DEF PointHasMajority
<1> DEFINE c == windows[w].winner
           backers == {j \in Judges : {d \in Colours : <<j, d>> \in votes[w]} = {c}}
<1>1. windows[w].resolved /\ c # "NONE"
    BY DEF ScoringInv, AwardedOnce
<1>2. c = WinningColour(w)
    BY <1>1 DEF ScoringInv, WinnerByVotes
<1>3. c \in Colours /\ Cardinality(Voted(w, c)) >= JudgeMajority
    BY <1>1, <1>2 DEF WinningColour, Colours
<1>4. backers = Voted(w, c)
    BY <1>3 DEF Voted, ScoringInv, OneVote, Colours
<1>5. Cardinality(Judges) \in Nat /\ Cardinality(Voted(w, c)) \in Nat
    BY FS_CardinalityType, FS_Subset DEF Voted
<1>6. \A n \in Nat, k \in Nat : k >= n \div 2 + 1 => 2 * k > n
    OBVIOUS
<1> QED
    BY <1>3, <1>4, <1>5, <1>6 DEF JudgeMajority

\* A point is always backed by more than half of the judges, each of whom voted
\* for that colour alone, for every odd or even number of judges.
THEOREM PointsHaveMajority == Spec => []PointHasMajority
BY ScoringInductive, InvImpliesMajority, PTL DEF Spec

\* A resolved window keeps its votes, its winner and its point.
LEMMA FinalStep ==
    ASSUME ScoringInv, [Next]_vars, NEW w \in WindowIds, windows[w].resolved
    PROVE  /\ windows'[w].resolved /\ windows'[w].winner = windows[w].winner
           /\ votes'[w] = votes[w] /\ awarded'[w] = awarded[w]
<1>1. Calm \/ ResolveStep \/ VoteStep
    BY StepKinds DEF ScoringInv
<1>2. CASE Calm
    BY <1>2 DEF Calm
<1>3. CASE ResolveStep
    BY <1>3, ResolutionEffect DEF ResolveStep
<1>4. ASSUME NEW i, NEW j, NEW c, NEW r, JoinWindow(i, j, c, r)
      PROVE  /\ UNCHANGED <<windows, awarded>> /\ votes'[w] = votes[w]
    <2>1. PICK o \in Open : votes' = [votes EXCEPT ![o] = @ \cup {<<j, c>>}]
        BY <1>4 DEF JoinWindow
    <2>2. w # o
        BY DEF Open, Pending
    <2> QED
        BY <1>4, <2>1, <2>2 DEF JoinWindow, ScoringInv, WindowsTyped
<1>5. ASSUME NEW i, NEW j, NEW c, NEW r \in ActiveRounds, OpenWindow(i, j, c, r)
      PROVE  /\ windows'[w] = windows[w] /\ awarded'[w] = awarded[w] /\ votes'[w] = votes[w]
    <2> DEFINE S == Overdue
               new == [NoWindow EXCEPT !.round = r, !.live = TRUE]
    <2>1. S \in SUBSET Open
        BY DEF Overdue
    <2>2. /\ windows' = [ResolvedWindows(S) EXCEPT ![nWindows + 1] = new]
          /\ awarded' = AwardedAfter(S) /\ votes' = [votes EXCEPT ![nWindows + 1] = {<<j, c>>}]
        BY <1>5 DEF OpenWindow
    <2> HIDE DEF S, new
    <2>3. w <= nWindows /\ nWindows \in Nat
        BY DEF ScoringInv, FreshWindows, WindowsTyped, WindowIds
    <2>4. w # nWindows + 1
        BY <2>3 DEF WindowIds
    <2>5. w \notin S
        BY <2>1 DEF Open, Pending
    <2>6. ResolvedWindows(S) \in [WindowIds -> WindowType]
        BY <2>1, ResolutionEffect
    <2> QED
        BY <2>1, <2>2, <2>4, <2>5, <2>6, ResolutionEffect DEF ScoringInv, WindowsTyped
<1> QED
    BY <1>1, <1>2, <1>3, <1>4, <1>5 DEF VoteStep

\* Nothing changes a resolved window: neither a late vote nor a stale timer, a
\* recovery, a cancellation or its undo.
THEOREM ResolvedWindowsAreFinal == Spec => ResolvedIsFinal
<1>1. ScoringInv /\ [Next]_vars =>
        [\A w \in WindowIds : windows[w].resolved =>
            /\ windows'[w].resolved /\ windows'[w].winner = windows[w].winner
            /\ votes'[w] = votes[w] /\ awarded'[w] = awarded[w]]_vars
    BY FinalStep
<1> QED
    BY <1>1, ScoringInductive, PTL DEF Spec, ResolvedIsFinal

-----------------------------------------------------------------------------
(* The points of the rounds.                                                *)

\* The rows that rounds, cancellations and summaries add.
PointsTyped ==
    /\ phase \in Phases /\ currentRound \in 0 .. 2
    /\ rounds \in [RoundIds -> RoundType]
    /\ op \in OpType /\ nCancelled \in 0 .. MaxCancelled
    /\ reverted \subseteq WindowIds /\ late \subseteq WindowIds

\* A match that waits has no round and one in the break has its first, also in
\* the row an undo brings back.
PhaseHasNumber ==
    /\ phase = "WAITING" => currentRound = 0
    /\ phase = "BREAK" => currentRound = 1
    /\ op.phase = "WAITING" => op.currentRound = 0
    /\ op.phase = "BREAK" => op.currentRound = 1

\* Windows belong to rounds that exist, and a round that counts has no
\* invalidated window.
WindowsHaveRounds ==
    \A w \in 1 .. nWindows : /\ windows[w].round \in 1 .. nRounds
                             /\ rounds[windows[w].round].live => windows[w].live

\* The unresolved windows of an ended round are late, and late windows are of
\* ended rounds.
EndedRoundsAreSettled ==
    /\ late \subseteq 1 .. nWindows
    /\ \A w \in 1 .. nWindows :
        /\ ~windows[w].resolved /\ rounds[windows[w].round].ended => w \in late
        /\ w \in late => rounds[windows[w].round].ended

\* The cancellation recorded rows that existed, ...
OpIsRecorded ==
    /\ op.rounds \subseteq 1 .. nRounds /\ op.windows \subseteq 1 .. nWindows
    /\ op.points \subseteq 1 .. nWindows /\ op.awarded \subseteq 1 .. nWindows
    /\ op.nWindows <= nWindows
    /\ op.resulting # "DECIDED"
    /\ \A w \in op.awarded : awarded[w] > 0

\* ... reverted the points of windows it invalidated or left in place, and
\* invalidated every window of its rounds, ...
OpIsInStep ==
    /\ \A w \in op.points : w \in op.windows \/ windows[w].live
    /\ \A w \in 1 .. nWindows :
        windows[w].round \in op.rounds /\ ~windows[w].live => w \in op.windows

\* The points among A that R leaves to a colour in a round.
Counted(A, R, r, c) == {w \in A : windows[w].round = r /\ windows[w].winner = c /\ w \notin R}

\* ... and its undo would make the summaries of its rounds right again.
OpRestoresSummaries ==
    op.status = "APPLIED" =>
        /\ \A r \in op.rounds : ~rounds[r].live
        /\ \A w \in op.points : windows[w].round \in op.rounds \/ ~rounds[windows[w].round].live
        /\ \A r \in op.rounds, c \in Colours : rounds[r].ended =>
             rounds[r].summary[c] = Cardinality(Counted(op.awarded, reverted \ op.points, r, c) \ late)

\* A decided match has no open window, nor would an undo give it one.
DecidedIsSettled ==
    /\ phase = "DECIDED" => Open = {}
    /\ op.status = "APPLIED" /\ op.phase = "DECIDED" /\ nWindows = op.nWindows =>
         \A w \in 1 .. nWindows : ~windows[w].resolved => ~windows[w].live /\ w \notin op.windows

\* Only points are reverted.
RevertedWereAwarded == \A w \in reverted : awarded[w] > 0

\* The inductive invariant.
Accounted ==
    /\ WindowsHaveRounds /\ EndedRoundsAreSettled /\ RevertedWereAwarded
    /\ OpIsRecorded /\ OpIsInStep /\ OpRestoresSummaries
    /\ DecidedIsSettled /\ PointsAreAccounted

PointsInv == ScoringInv /\ PointsTyped /\ PhaseHasNumber /\ Accounted

-----------------------------------------------------------------------------
(* What a step does to rounds and windows: it leaves the points of ended     *)
(* rounds alone, ends a round, cancels, or undoes.                           *)

Tame ==
    /\ nRounds \in Nat /\ nRounds' \in Nat /\ nRounds <= nRounds'
    /\ nWindows <= nWindows'
    /\ \A r \in 1 .. nRounds' :
        IF r \in 1 .. nRounds
        THEN /\ rounds'[r].live = rounds[r].live /\ rounds'[r].ended = rounds[r].ended
             /\ rounds'[r].summary = rounds[r].summary
        ELSE ~rounds'[r].ended
    /\ \A w \in 1 .. nWindows' :
        IF w \in 1 .. nWindows
        THEN /\ windows'[w].round = windows[w].round /\ windows'[w].live = windows[w].live
             /\ windows[w].resolved => windows'[w].resolved
             /\ w \notin Open => /\ windows'[w].resolved = windows[w].resolved
                                 /\ windows'[w].winner = windows[w].winner
                                 /\ awarded'[w] = awarded[w]
        ELSE /\ windows'[w].round \in 1 .. nRounds /\ ~rounds[windows'[w].round].ended
             /\ windows'[w].live /\ ~windows'[w].resolved
    /\ phase' = "DECIDED" => nWindows' = nWindows /\ (phase = "DECIDED" \/ Open = {})
    /\ UNCHANGED <<op, reverted, late>>

Ends(r) ==
    /\ r \in LiveRounds /\ ~rounds[r].ended
    /\ rounds' = [rounds EXCEPT ![r].ended = TRUE, ![r].summary = SummaryOf(r, Overdue)]
    /\ late' = late \cup {w \in Open \ Overdue : windows[w].round = r}
    /\ windows' = ResolvedWindows(Overdue) /\ awarded' = AwardedAfter(Overdue)
    /\ phase' # "DECIDED"
    /\ UNCHANGED <<nRounds, nWindows, votes, reverted, op>>

\* The rounds stay as far as points depend on them, ...
RoundsKept ==
    /\ UNCHANGED nRounds
    /\ \A r \in 1 .. nRounds :
        /\ rounds'[r].live = rounds[r].live /\ rounds'[r].ended = rounds[r].ended
        /\ rounds'[r].summary = rounds[r].summary

\* ... and so do the windows, except for open ones that are resolved.
WindowsKept ==
    /\ UNCHANGED nWindows
    /\ \A w \in 1 .. nWindows :
        /\ windows'[w].round = windows[w].round /\ windows'[w].live = windows[w].live
        /\ windows[w].resolved => windows'[w].resolved
        /\ w \notin Open => /\ windows'[w].resolved = windows[w].resolved
                            /\ windows'[w].winner = windows[w].winner
                            /\ awarded'[w] = awarded[w]

LEMMA KeptIsTame ==
    ASSUME PointsInv, RoundsKept, WindowsKept, phase' = phase \/ phase' # "DECIDED",
           UNCHANGED <<op, reverted, late>>
    PROVE  Tame
BY DEF RoundsKept, WindowsKept, Tame, PointsInv, ScoringInv, WindowsTyped

LEMMA ResolutionKeeps ==
    ASSUME PointsInv, NEW S \in SUBSET Open, windows' = ResolvedWindows(S), awarded' = AwardedAfter(S),
           UNCHANGED nWindows
    PROVE  /\ WindowsKept
           /\ \A w \in 1 .. nWindows : w \in WindowIds /\ windows[w] \in WindowType
           /\ \A w \in 1 .. nWindows : w \notin S => windows'[w] = windows[w] /\ awarded'[w] = awarded[w]
<1>1. ScoringInv /\ nWindows \in Nat /\ 1 .. nWindows \subseteq WindowIds
    BY DEF PointsInv, ScoringInv, WindowsTyped, WindowIds
<1>2. \A w \in 1 .. nWindows : windows[w] \in WindowType
    BY <1>1 DEF ScoringInv, WindowsTyped
<1>3. \A w \in 1 .. nWindows : w \notin S => windows'[w] = windows[w] /\ awarded'[w] = awarded[w]
    BY <1>1, ResolutionEffect
<1>4. \A w \in 1 .. nWindows : w \in S =>
        windows'[w] = [windows[w] EXCEPT !.resolved = TRUE, !.winner = WinningColour(w)]
    BY <1>1 DEF ResolvedWindows
<1>5. ASSUME NEW w \in 1 .. nWindows
      PROVE  /\ windows'[w].round = windows[w].round /\ windows'[w].live = windows[w].live
             /\ windows[w].resolved => windows'[w].resolved
    <2>1. CASE w \in S
        BY <1>2, <1>4, <2>1 DEF WindowType
    <2> QED
        BY <1>3, <2>1
<1> QED
    BY <1>1, <1>2, <1>3, <1>5 DEF WindowsKept

LEMMA VoteIsTame ==
    ASSUME PointsInv, NEW i \in Instances, NEW j \in Judges, NEW c \in Colours, SubmitVote(i, j, c)
    PROVE  Tame
<1>1. /\ UNCHANGED <<phase, rounds, nRounds, op, reverted, late>>
      /\ \E r \in ActiveRounds : JoinWindow(i, j, c, r) \/ OpenWindow(i, j, c, r)
    BY DEF SubmitVote, roundVars, opVars
<1>2. PICK r \in ActiveRounds : JoinWindow(i, j, c, r) \/ OpenWindow(i, j, c, r)
    BY <1>1
<1>3. r \in 1 .. nRounds /\ phase = "RUNNING" /\ ~rounds[r].ended
    BY DEF ActiveRounds
<1>4. CASE JoinWindow(i, j, c, r)
    <2>1. UNCHANGED <<windows, nWindows, awarded>>
        BY <1>4 DEF JoinWindow
    <2>2. RoundsKept /\ WindowsKept
        BY <1>1, <2>1 DEF RoundsKept, WindowsKept
    <2> QED
        BY <1>1, <2>2, KeptIsTame
<1>5. CASE OpenWindow(i, j, c, r)
    <2> DEFINE n == nWindows + 1
               new == [NoWindow EXCEPT !.round = r, !.live = TRUE]
    <2>1. Overdue \in SUBSET Open
        BY DEF Overdue
    <2>2. /\ nWindows' = n /\ nWindows < MaxWindows /\ awarded' = AwardedAfter(Overdue)
          /\ windows' = [ResolvedWindows(Overdue) EXCEPT ![n] = new]
        BY <1>5 DEF OpenWindow
    <2>3. new.round = r /\ new.live /\ ~new.resolved
        BY DEF NoWindow
    <2> HIDE DEF new
    <2>4. ScoringInv /\ nRounds \in Nat /\ nWindows \in Nat /\ n \in WindowIds /\ 1 .. nWindows \subseteq WindowIds
        BY <2>2 DEF PointsInv, ScoringInv, WindowsTyped, WindowIds
    <2>5. ResolvedWindows(Overdue) \in [WindowIds -> WindowType]
        BY <2>1, <2>4, ResolutionEffect
    <2>6. windows'[n] = new /\ \A w \in 1 .. nWindows : windows'[w] = ResolvedWindows(Overdue)[w]
        BY <2>2, <2>4, <2>5
    <2>7. ASSUME NEW w \in 1 .. nWindows
          PROVE  /\ windows'[w].round = windows[w].round /\ windows'[w].live = windows[w].live
                 /\ windows[w].resolved => windows'[w].resolved
                 /\ w \notin Open => /\ windows'[w].resolved = windows[w].resolved
                                     /\ windows'[w].winner = windows[w].winner
                                     /\ awarded'[w] = awarded[w]
        <3>1. w \in WindowIds /\ windows[w] \in WindowType
            BY <2>4 DEF ScoringInv, WindowsTyped
        <3>2. CASE w \in Overdue
            <4>1. windows'[w] = [windows[w] EXCEPT !.resolved = TRUE, !.winner = WinningColour(w)]
                BY <2>6, <3>1, <3>2 DEF ResolvedWindows
            <4> QED
                BY <2>1, <3>1, <3>2, <4>1 DEF WindowType
        <3>3. CASE w \notin Overdue
            BY <2>1, <2>2, <2>4, <2>6, <3>1, <3>3, ResolutionEffect
        <3> QED
            BY <3>2, <3>3
    <2>8. \A w \in 1 .. nWindows' : w \notin 1 .. nWindows => w = n
        BY <2>2, <2>4
    <2> HIDE DEF n
    <2>9. nWindows <= nWindows' /\ phase' # "DECIDED"
        BY <1>1, <1>3, <2>2, <2>4 DEF n
    <2>10. ASSUME NEW w \in 1 .. nWindows', w \notin 1 .. nWindows
           PROVE  /\ windows'[w].round \in 1 .. nRounds /\ ~rounds[windows'[w].round].ended
                  /\ windows'[w].live /\ ~windows'[w].resolved
        BY <1>3, <2>3, <2>6, <2>8, <2>10
    <2> QED
        BY <1>1, <2>4, <2>7, <2>9, <2>10 DEF Tame
<1> QED
    BY <1>2, <1>4, <1>5

\* The summary of a round counts at most all windows.
LEMMA SummaryType ==
    ASSUME ScoringInv, NEW r, NEW S \in SUBSET Open
    PROVE  SummaryOf(r, S) \in Tally
<1>1. nWindows \in Nat /\ nWindows <= MaxWindows /\ IsFiniteSet(1 .. nWindows)
      /\ Cardinality(1 .. nWindows) = nWindows
    <2>1. nWindows \in Int /\ nWindows \in Nat /\ nWindows <= MaxWindows /\ 1 \in Int
        BY DEF ScoringInv, WindowsTyped
    <2> QED
        BY <2>1, FS_Interval
<1>2. ASSUME NEW T \in SUBSET (1 .. nWindows)
      PROVE  Cardinality(T) \in 0 .. MaxWindows
    <2>1. IsFiniteSet(T) /\ Cardinality(T) <= nWindows
        BY <1>1, FS_Subset
    <2>2. Cardinality(T) \in Nat
        BY <2>1, FS_CardinalityType
    <2> QED
        BY <1>1, <2>1, <2>2
<1>3. \A c \in Colours :
        PointsOf(r, c) \cup {w \in S : windows[w].round = r /\ WinningColour(w) = c} \in SUBSET (1 .. nWindows)
    BY DEF PointsOf, Open, Pending
<1> QED
    BY <1>2, <1>3 DEF SummaryOf, Tally

\* The end of a round, whoever brings it about.
LEMMA ExpireEnds ==
    ASSUME PointsInv, ExpireRound
    PROVE  \E r \in RunningRounds : Ends(r)
<1>1. PICK r \in RunningRounds :
        /\ rounds' = [rounds EXCEPT ![r].ended = TRUE, ![r].summary = SummaryOf(r, Overdue)]
        /\ late' = late \cup {w \in Open \ Overdue : windows[w].round = r}
    BY DEF ExpireRound
<1>2. r \in LiveRounds /\ ~rounds[r].ended
    BY DEF RunningRounds
<1>3. /\ windows' = ResolvedWindows(Overdue) /\ awarded' = AwardedAfter(Overdue)
      /\ phase' # "DECIDED"
      /\ UNCHANGED <<nRounds, nWindows, votes, reverted, op>>
    BY DEF ExpireRound, opVars
<1> QED
    BY <1>1, <1>2, <1>3 DEF Ends

LEMMA StepForms ==
    ASSUME PointsInv, [Next]_vars
    PROVE  \/ Tame
           \/ \E r \in RunningRounds : Ends(r)
           \/ \E entireMatch \in BOOLEAN : CancelResults(entireMatch)
           \/ Undo
<1>0. /\ nRounds \in 0 .. MaxRounds /\ nWindows \in 0 .. MaxWindows
      /\ rounds \in [RoundIds -> RoundType] /\ windows \in [WindowIds -> WindowType]
      /\ 1 .. nRounds \subseteq RoundIds /\ 1 .. nWindows \subseteq WindowIds
    BY DEF PointsInv, ScoringInv, WindowsTyped, PointsTyped, RoundIds, WindowIds
<1>1. ASSUME UNCHANGED <<rounds, nRounds>> PROVE RoundsKept
    BY <1>1 DEF RoundsKept
<1>2. ASSUME UNCHANGED <<windows, nWindows, awarded>> PROVE WindowsKept
    BY <1>2 DEF WindowsKept
<1>3. CASE StartRound
    <2> DEFINE new == [NoRound EXCEPT !.number = currentRound + 1, !.live = TRUE]
    <2>1. /\ rounds' = [rounds EXCEPT ![nRounds + 1] = new] /\ nRounds' = nRounds + 1
          /\ nRounds < MaxRounds /\ phase' = "RUNNING"
          /\ UNCHANGED <<windows, nWindows, awarded, reverted, op, late>>
        BY <1>3 DEF StartRound, windowVars, opVars
    <2>2. ~new.ended
        BY DEF NoRound
    <2> HIDE DEF new
    <2>3. nRounds + 1 \in RoundIds
        BY <1>0, <2>1 DEF RoundIds
    <2>4. rounds'[nRounds + 1] = new /\ \A r \in 1 .. nRounds : rounds'[r] = rounds[r]
        BY <1>0, <2>1, <2>3
    <2>5. \A r \in 1 .. nRounds' : r \notin 1 .. nRounds => r = nRounds + 1
        BY <1>0, <2>1
    <2> QED
        BY <1>0, <2>1, <2>2, <2>4, <2>5 DEF Tame
<1>4. CASE PauseRound
    BY <1>1, <1>2, <1>4, KeptIsTame DEF PauseRound, windowVars, opVars
<1>5. CASE ResumeRound
    <2>1. /\ rounds' = [r \in RoundIds |->
                IF r \in RunningRounds THEN [rounds[r] EXCEPT !.due = FALSE] ELSE rounds[r]]
          /\ phase' # "DECIDED"
          /\ UNCHANGED <<nRounds, windows, nWindows, awarded, reverted, op, late>>
        BY <1>5 DEF ResumeRound, windowVars, opVars
    <2>2. ASSUME NEW r \in 1 .. nRounds
          PROVE  /\ rounds'[r].live = rounds[r].live /\ rounds'[r].ended = rounds[r].ended
                 /\ rounds'[r].summary = rounds[r].summary
        <3>1. rounds[r] \in RoundType /\ r \in RoundIds
            BY <1>0
        <3>2. rounds'[r] = IF r \in RunningRounds THEN [rounds[r] EXCEPT !.due = FALSE] ELSE rounds[r]
            BY <2>1, <3>1
        <3> QED
            BY <3>1, <3>2 DEF RoundType
    <2>3. RoundsKept
        BY <2>1, <2>2 DEF RoundsKept
    <2> QED
        BY <1>2, <2>1, <2>3, KeptIsTame
<1>6. CASE CompleteAppeal
    <2>1. Open = {} /\ UNCHANGED <<rounds, nRounds, windows, nWindows, awarded, reverted, op, late>>
        BY <1>6 DEF CompleteAppeal, Settled, windowVars, opVars
    <2> QED
        BY <1>0, <2>1 DEF Tame
<1>7. ASSUME NEW r \in RoundIds, RoundDeadline(r) PROVE Tame
    <2>1. /\ rounds' = [rounds EXCEPT ![r].due = TRUE]
          /\ UNCHANGED <<phase, nRounds, windows, nWindows, awarded, reverted, op, late>>
        BY <1>7 DEF RoundDeadline, windowVars, opVars
    <2>2. RoundsKept
        <3>1. \A q \in RoundIds : rounds[q] \in RoundType
            BY <1>0
        <3>2. \A q \in RoundIds : rounds'[q] = IF q = r THEN [rounds[q] EXCEPT !.due = TRUE] ELSE rounds[q]
            BY <1>0, <2>1
        <3>3. ASSUME NEW q \in 1 .. nRounds
              PROVE  /\ rounds'[q].live = rounds[q].live /\ rounds'[q].ended = rounds[q].ended
                     /\ rounds'[q].summary = rounds[q].summary
            BY <1>0, <3>1, <3>2 DEF RoundType
        <3> QED
            BY <2>1, <3>3 DEF RoundsKept
    <2> QED
        BY <1>2, <2>1, <2>2, KeptIsTame
<1>8. ASSUME NEW w \in WindowIds, WindowDeadline(w) PROVE Tame
    <2>1. /\ windows' = [windows EXCEPT ![w].due = TRUE]
          /\ UNCHANGED <<phase, rounds, nRounds, nWindows, awarded, reverted, op, late>>
        BY <1>8 DEF WindowDeadline, roundVars, opVars
    <2>2. \A v \in WindowIds : windows'[v] = IF v = w THEN [windows[v] EXCEPT !.due = TRUE] ELSE windows[v]
        BY <1>0, <2>1
    <2>3. ASSUME NEW v \in 1 .. nWindows
          PROVE  /\ windows'[v].round = windows[v].round /\ windows'[v].live = windows[v].live
                 /\ windows'[v].resolved = windows[v].resolved /\ windows'[v].winner = windows[v].winner
        BY <1>0, <2>2 DEF WindowType
    <2>4. WindowsKept
        BY <2>1, <2>3 DEF WindowsKept
    <2> QED
        BY <1>1, <2>1, <2>4, KeptIsTame
<1>9. ASSUME NEW S \in SUBSET Open, windows' = ResolvedWindows(S), awarded' = AwardedAfter(S),
             UNCHANGED <<phase, rounds, nRounds, nWindows, reverted, op, late>>
      PROVE  Tame
    <2>1. WindowsKept
        BY <1>9, ResolutionKeeps
    <2> QED
        BY <1>1, <1>9, <2>1, KeptIsTame
<1>10. ASSUME UNCHANGED <<roundVars, windowVars, opVars, late>> PROVE Tame
    BY <1>1, <1>2, <1>10, KeptIsTame DEF roundVars, windowVars, opVars
<1>11. ASSUME NEW i \in Instances, NEW w \in WindowIds, HandleResolution(i, w) PROVE Tame
    <2>1. UNCHANGED <<phase, rounds, nRounds, nWindows, reverted, op, late>>
        BY <1>11 DEF HandleResolution, roundVars, opVars
    <2>2. CASE UNCHANGED <<windows, awarded>>
        BY <1>1, <1>2, <2>1, <2>2, KeptIsTame
    <2>3. CASE Resolvable(w) /\ windows' = ResolvedWindows({w}) /\ awarded' = AwardedAfter({w})
        <3>1. {w} \in SUBSET Open
            BY <2>3 DEF Resolvable
        <3> QED
            BY <1>9, <2>1, <2>3, <3>1
    <2> QED
        BY <1>11, <2>2, <2>3 DEF HandleResolution
<1>12. ASSUME NEW i \in Instances, Restart(i) PROVE Tame \/ ExpireRound
    <2>1. Overdue \in SUBSET Open
        BY DEF Overdue
    <2> QED
        BY <1>9, <1>12, <2>1 DEF Restart, roundVars, opVars
<1>13. ASSUME NEW i \in Instances, Process(i) PROVE Tame \/ ExpireRound
    BY <1>10, <1>11, <1>12, <1>13 DEF Process, TimerFires, HandlerFails, Crash, EndRound
<1>14. CASE UNCHANGED vars
    BY <1>10, <1>14 DEF vars
<1> QED
    BY <1>3, <1>4, <1>5, <1>6, <1>7, <1>8, <1>13, <1>14, VoteIsTame, ExpireEnds
        DEF Next, Officials, Clock

-----------------------------------------------------------------------------
(* Each kind of step keeps the accounts.                                     *)

\* The ranges the accounts speak about.
LEMMA Ranges ==
    ASSUME PointsInv
    PROVE  /\ nRounds \in Nat /\ nWindows \in Nat
           /\ \A w \in 1 .. nWindows : w \in WindowIds /\ windows[w] \in WindowType /\ awarded[w] \in Nat
           /\ \A r \in 1 .. nRounds : r \in RoundIds /\ rounds[r] \in RoundType
           /\ \A w \in WindowIds : awarded[w] > 0 =>
                w \in 1 .. nWindows /\ windows[w].resolved /\ w \notin Open
<1>1. /\ nRounds \in Nat /\ nWindows \in Nat
      /\ \A w \in 1 .. nWindows : w \in WindowIds /\ windows[w] \in WindowType /\ awarded[w] \in Nat
      /\ \A r \in 1 .. nRounds : r \in RoundIds /\ rounds[r] \in RoundType
    BY DEF PointsInv, ScoringInv, WindowsTyped, PointsTyped, RoundIds, WindowIds
<1>2. \A w \in WindowIds : awarded[w] > 0 => windows[w].resolved
    BY DEF PointsInv, ScoringInv, AwardedOnce
<1>3. \A w \in WindowIds : awarded[w] > 0 => w \in 1 .. nWindows
    BY <1>1, <1>2 DEF PointsInv, ScoringInv, FreshWindows, WindowIds
<1> QED
    BY <1>1, <1>2, <1>3 DEF Open, Pending

LEMMA TamePreserves ==
    ASSUME PointsInv, ScoringInv', PointsTyped', Tame
    PROVE  Accounted'
<1>0. /\ nRounds \in Nat /\ nWindows \in Nat /\ nRounds' \in Nat /\ nWindows' \in Nat
      /\ nRounds <= nRounds' /\ nWindows <= nWindows'
      /\ UNCHANGED <<op, reverted, late>>
    BY Ranges DEF Tame, ScoringInv, WindowsTyped
<1>1. \A r \in 1 .. nRounds : /\ r \in 1 .. nRounds'
                              /\ rounds'[r].live = rounds[r].live
                              /\ rounds'[r].ended = rounds[r].ended
                              /\ rounds'[r].summary = rounds[r].summary
    BY <1>0 DEF Tame
<1>2. \A r \in 1 .. nRounds' : r \notin 1 .. nRounds => ~rounds'[r].ended
    BY DEF Tame
<1>3. \A w \in 1 .. nWindows :
        /\ w \in 1 .. nWindows'
        /\ windows'[w].round = windows[w].round /\ windows'[w].live = windows[w].live
        /\ windows[w].resolved => windows'[w].resolved
        /\ w \notin Open => /\ windows'[w].resolved = windows[w].resolved
                            /\ windows'[w].winner = windows[w].winner
                            /\ awarded'[w] = awarded[w]
    BY <1>0 DEF Tame
<1>4. \A w \in 1 .. nWindows' : w \notin 1 .. nWindows =>
        /\ windows'[w].round \in 1 .. nRounds /\ ~rounds[windows'[w].round].ended
        /\ windows'[w].live /\ ~windows'[w].resolved
    BY DEF Tame
<1>5. \A w \in WindowIds : awarded'[w] > 0 => windows'[w].resolved /\ w \in 1 .. nWindows'
    BY <1>0 DEF ScoringInv, AwardedOnce, FreshWindows, WindowIds
<1>6. Accounted
    BY DEF PointsInv
<1>7. WindowsHaveRounds'
    BY <1>1, <1>3, <1>4, <1>6 DEF Accounted, WindowsHaveRounds
<1>8. EndedRoundsAreSettled'
    <2>1. late' \subseteq 1 .. nWindows'
        BY <1>0, <1>3, <1>6 DEF Accounted, EndedRoundsAreSettled
    <2>2. ASSUME NEW w \in 1 .. nWindows
          PROVE  /\ ~windows'[w].resolved /\ rounds'[windows'[w].round].ended => w \in late'
                 /\ w \in late' => rounds'[windows'[w].round].ended
        <3>1. windows[w].round \in 1 .. nRounds
            BY <1>6 DEF Accounted, WindowsHaveRounds
        <3> QED
            BY <1>0, <1>1, <1>3, <1>6, <3>1 DEF Accounted, EndedRoundsAreSettled
    <2>3. ASSUME NEW w \in 1 .. nWindows', w \notin 1 .. nWindows
          PROVE  ~rounds'[windows'[w].round].ended /\ w \notin late'
        BY <1>0, <1>1, <1>4, <1>6, <2>3 DEF Accounted, EndedRoundsAreSettled
    <2> QED
        BY <2>1, <2>2, <2>3 DEF EndedRoundsAreSettled
<1>9. \A w \in op.awarded : w \in 1 .. nWindows /\ w \notin Open
    BY <1>6, Ranges DEF Accounted, OpIsRecorded
<1>10. OpIsRecorded'
    <2>1. OpIsRecorded
        BY <1>6 DEF Accounted
    <2>2. op.nWindows \in Nat
        BY DEF PointsInv, PointsTyped, OpType
    <2>3. op'.rounds \subseteq 1 .. nRounds' /\ op'.windows \subseteq 1 .. nWindows'
          /\ op'.points \subseteq 1 .. nWindows' /\ op'.awarded \subseteq 1 .. nWindows'
        BY <1>0, <1>1, <1>3, <2>1 DEF OpIsRecorded
    <2>4. op'.nWindows <= nWindows' /\ op'.resulting # "DECIDED"
        BY <1>0, <2>1, <2>2 DEF OpIsRecorded
    <2>5. \A w \in op'.awarded : awarded'[w] > 0
        BY <1>0, <1>3, <1>9, <2>1 DEF OpIsRecorded
    <2> QED
        BY <2>3, <2>4, <2>5 DEF OpIsRecorded
<1>11. OpIsInStep'
    <2>1. \A w \in op'.points : w \in op'.windows \/ windows'[w].live
        BY <1>0, <1>3, <1>6 DEF Accounted, OpIsRecorded, OpIsInStep
    <2>2. \A w \in 1 .. nWindows' :
            windows'[w].round \in op'.rounds /\ ~windows'[w].live => w \in op'.windows
        BY <1>0, <1>3, <1>4, <1>6 DEF Accounted, OpIsInStep
    <2> QED
        BY <2>1, <2>2 DEF OpIsInStep
<1>12. OpRestoresSummaries'
    <2> SUFFICES ASSUME op.status = "APPLIED" PROVE OpRestoresSummaries'
        BY <1>0 DEF OpRestoresSummaries
    <2>1. op.rounds \subseteq 1 .. nRounds /\ op.points \subseteq 1 .. nWindows
        BY <1>6 DEF Accounted, OpIsRecorded
    <2>2. \A r \in op'.rounds : ~rounds'[r].live
        BY <1>0, <1>1, <1>6, <2>1 DEF Accounted, OpRestoresSummaries
    <2>3. \A w \in op'.points : windows'[w].round \in op'.rounds \/ ~rounds'[windows'[w].round].live
        <3> SUFFICES ASSUME NEW w \in op.points
                     PROVE  windows'[w].round \in op.rounds \/ ~rounds'[windows'[w].round].live
            BY <1>0
        <3>1. w \in 1 .. nWindows /\ windows[w].round \in 1 .. nRounds
            BY <1>6, <2>1 DEF Accounted, WindowsHaveRounds
        <3>2. windows[w].round \in op.rounds \/ ~rounds[windows[w].round].live
            BY <1>6 DEF Accounted, OpRestoresSummaries
        <3> QED
            BY <1>1, <1>3, <3>1, <3>2
    <2>4. ASSUME NEW r, NEW c
          PROVE  Counted(op.awarded, reverted \ op.points, r, c)' = Counted(op.awarded, reverted \ op.points, r, c)
        BY <1>0, <1>3, <1>9 DEF Counted
    <2>5. ASSUME NEW r \in op.rounds, NEW c \in Colours, rounds'[r].ended
          PROVE  rounds'[r].summary[c] = Cardinality(Counted(op.awarded, reverted \ op.points, r, c) \ late)
        <3>1. rounds[r].ended /\ rounds'[r].summary = rounds[r].summary
            BY <1>1, <2>1, <2>5
        <3>2. OpRestoresSummaries
            BY <1>6 DEF Accounted
        <3>3. rounds[r].summary[c] = Cardinality(Counted(op.awarded, reverted \ op.points, r, c) \ late)
            BY <3>1, <3>2 DEF OpRestoresSummaries
        <3> QED
            BY <3>1, <3>3
    <2>6. \A r \in op'.rounds, c \in Colours : rounds'[r].ended =>
             rounds'[r].summary[c] = Cardinality(Counted(op.awarded, reverted \ op.points, r, c)' \ late')
        <3>1. op'.rounds = op.rounds /\ late' = late
            BY <1>0
        <3>2. ASSUME NEW r \in op'.rounds, NEW c \in Colours, rounds'[r].ended
              PROVE  rounds'[r].summary[c] = Cardinality(Counted(op.awarded, reverted \ op.points, r, c)' \ late')
            BY <2>4, <2>5, <3>1, <3>2
        <3> QED
            BY <3>2
    <2> QED
        BY <2>2, <2>3, <2>6 DEF OpRestoresSummaries
<1>13. DecidedIsSettled'
    <2>1. ASSUME phase' = "DECIDED" PROVE Open' = {}
        <3>1. nWindows' = nWindows /\ Open = {}
            BY <1>6, <2>1 DEF Tame, Accounted, DecidedIsSettled
        <3>2. \A w \in 1 .. nWindows : ~windows[w].resolved => ~windows[w].live
            BY <3>1 DEF Open, Pending
        <3>3. \A w \in 1 .. nWindows : ~windows'[w].resolved => ~windows'[w].live
            BY <1>3, <3>1, <3>2
        <3> QED
            BY <3>1, <3>3 DEF Open, Pending
    <2>2. ASSUME op'.status = "APPLIED", op'.phase = "DECIDED", nWindows' = op'.nWindows,
                 NEW w \in 1 .. nWindows', ~windows'[w].resolved
          PROVE  ~windows'[w].live /\ w \notin op'.windows
        <3>1. op.nWindows \in Nat /\ op.nWindows <= nWindows
            BY <1>6 DEF PointsInv, PointsTyped, OpType, Accounted, OpIsRecorded
        <3>2. nWindows' = nWindows /\ nWindows = op.nWindows
            BY <1>0, <2>2, <3>1
        <3>3. ~windows[w].resolved
            BY <1>3, <2>2, <3>2
        <3> QED
            BY <1>0, <1>3, <1>6, <2>2, <3>2, <3>3 DEF Accounted, DecidedIsSettled
    <2> QED
        BY <2>1, <2>2 DEF DecidedIsSettled
<1>14. InvalidatedWindowsHoldNoPoint'
    <2> SUFFICES ASSUME NEW w \in WindowIds, awarded'[w] > 0, ~windows'[w].live PROVE w \in reverted
        BY <1>0 DEF InvalidatedWindowsHoldNoPoint
    <2>1. w \in 1 .. nWindows
        BY <1>4, <1>5
    <2>2. w \notin Open
        BY <1>3, <2>1 DEF Open
    <2> QED
        BY <1>3, <1>6, <2>1, <2>2 DEF Accounted, PointsAreAccounted, InvalidatedWindowsHoldNoPoint
<1>15. SummariesMissOnlyLateWindows'
    <2> SUFFICES ASSUME NEW r \in 1 .. nRounds', rounds'[r].live, rounds'[r].ended, NEW c \in Colours
                 PROVE  rounds'[r].summary[c] = Cardinality(PointsOf(r, c)' \ late')
        BY DEF SummariesMissOnlyLateWindows, LiveRounds
    <2>1. r \in LiveRounds /\ rounds[r].ended /\ rounds'[r].summary = rounds[r].summary
        BY <1>1, <1>2 DEF LiveRounds
    <2>2. ASSUME NEW w \in 1 .. nWindows, windows[w].round = r, w \notin late
          PROVE  w \notin Open
        BY <1>6, <2>1, <2>2 DEF Accounted, EndedRoundsAreSettled, Open, Pending
    <2>3. ASSUME NEW w \in 1 .. nWindows', w \notin 1 .. nWindows
          PROVE  ~(awarded'[w] > 0)
        <3>1. w \in WindowIds
            BY DEF ScoringInv, WindowsTyped, WindowIds
        <3> QED
            BY <1>4, <1>5, <2>3, <3>1
    <2>4. PointsOf(r, c)' \ late' = PointsOf(r, c) \ late
        BY <1>0, <1>3, <2>2, <2>3 DEF PointsOf
    <2> QED
        BY <1>6, <2>1, <2>4 DEF Accounted, PointsAreAccounted, SummariesMissOnlyLateWindows
<1>16. RevertedWereAwarded'
    <2>1. \A w \in reverted : awarded[w] > 0 /\ w \in WindowIds
        BY <1>6 DEF Accounted, RevertedWereAwarded, PointsInv, PointsTyped
    <2> QED
        BY <1>0, <1>3, <2>1, Ranges DEF RevertedWereAwarded
<1> QED
    BY <1>7, <1>8, <1>10, <1>11, <1>12, <1>13, <1>14, <1>15, <1>16 DEF Accounted, PointsAreAccounted

LEMMA EndsPreserves ==
    ASSUME PointsInv, ScoringInv', PointsTyped', NEW r, Ends(r)
    PROVE  Accounted'
<1>0. /\ nRounds \in Nat /\ nWindows \in Nat
      /\ UNCHANGED <<nRounds, nWindows, votes, reverted, op>>
      /\ r \in 1 .. nRounds /\ rounds[r].live /\ ~rounds[r].ended
    BY Ranges DEF Ends, LiveRounds
<1>1. /\ rounds'[r].ended /\ rounds'[r].summary = SummaryOf(r, Overdue)
      /\ rounds'[r].live = rounds[r].live
    <2>1. rounds \in [RoundIds -> RoundType] /\ r \in RoundIds
        BY <1>0, Ranges DEF PointsInv, PointsTyped
    <2>2. rounds' = [rounds EXCEPT ![r].ended = TRUE, ![r].summary = SummaryOf(r, Overdue)]
        BY DEF Ends
    <2>3. rounds'[r] = [rounds[r] EXCEPT !.ended = TRUE, !.summary = SummaryOf(r, Overdue)]
        BY <2>1, <2>2
    <2>4. rounds[r] \in RoundType
        BY <2>1
    <2> QED
        BY <2>3, <2>4 DEF RoundType
<1>2. \A q \in 1 .. nRounds : q # r => rounds'[q] = rounds[q]
    <2>1. rounds \in [RoundIds -> RoundType] /\ 1 .. nRounds \subseteq RoundIds
        BY Ranges DEF PointsInv, PointsTyped
    <2>2. rounds' = [rounds EXCEPT ![r].ended = TRUE, ![r].summary = SummaryOf(r, Overdue)]
        BY DEF Ends
    <2> QED
        BY <2>1, <2>2
<1>3. \A q \in 1 .. nRounds : /\ rounds'[q].live = rounds[q].live
                              /\ rounds[q].ended => /\ q # r /\ rounds'[q].ended
                                                    /\ rounds'[q].summary = rounds[q].summary
                              /\ rounds'[q].ended => rounds[q].ended \/ q = r
    BY <1>0, <1>1, <1>2
<1>4. Overdue \in SUBSET Open /\ windows' = ResolvedWindows(Overdue) /\ awarded' = AwardedAfter(Overdue)
    BY DEF Overdue, Ends
<1>5. WindowsKept /\ \A w \in 1 .. nWindows : w \notin Overdue =>
                        windows'[w] = windows[w] /\ awarded'[w] = awarded[w]
    BY <1>0, <1>4, ResolutionKeeps
<1>6. \A w \in Overdue : /\ w \in 1 .. nWindows /\ windows'[w].resolved
                         /\ windows'[w].winner = WinningColour(w)
                         /\ awarded'[w] = IF WinningColour(w) = "NONE" THEN 0 ELSE 1
    <2>1. ScoringInv /\ \A w \in Overdue : w \in 1 .. nWindows /\ w \in WindowIds
        BY <1>4, Ranges DEF PointsInv, Open, Pending
    <2> QED
        BY <1>4, <2>1, ResolutionEffect
<1>7. \A w : w \in late' <=> w \in late \/ (w \in Open /\ w \notin Overdue /\ windows[w].round = r)
    BY DEF Ends
<1>8. Accounted
    BY DEF PointsInv
<1>9. \A w \in 1 .. nWindows : windows'[w].round = windows[w].round /\ windows'[w].live = windows[w].live
    BY <1>5 DEF WindowsKept
<1>10. WindowsHaveRounds'
    BY <1>0, <1>3, <1>8, <1>9 DEF Accounted, WindowsHaveRounds
<1>11. EndedRoundsAreSettled'
    <2>1. late' \subseteq 1 .. nWindows'
        BY <1>0, <1>7, <1>8 DEF Accounted, EndedRoundsAreSettled, Open, Pending
    <2>2. ASSUME NEW w \in 1 .. nWindows
          PROVE  /\ ~windows'[w].resolved /\ rounds'[windows'[w].round].ended => w \in late'
                 /\ w \in late' => rounds'[windows'[w].round].ended
        <3>1. windows[w].round \in 1 .. nRounds /\ (rounds[windows[w].round].live => windows[w].live)
            BY <1>8 DEF Accounted, WindowsHaveRounds
        <3>2. CASE windows[w].round # r
            <4>1. rounds'[windows'[w].round] = rounds[windows[w].round]
                BY <1>2, <1>9, <3>1, <3>2
            <4>2. windows[w].resolved => windows'[w].resolved
                BY <1>5 DEF WindowsKept
            <4> QED
                BY <1>7, <1>8, <3>2, <4>1, <4>2 DEF Accounted, EndedRoundsAreSettled
        <3>3. CASE windows[w].round = r
            <4>1. windows[w].live /\ rounds'[windows'[w].round].ended
                BY <1>0, <1>1, <1>9, <3>1, <3>3
            <4>2. ~windows'[w].resolved => w \in Open /\ w \notin Overdue
                BY <1>5, <1>6, <4>1 DEF Open, Pending, WindowsKept
            <4> QED
                BY <1>7, <3>3, <4>1, <4>2
        <3> QED
            BY <3>2, <3>3
    <2> QED
        BY <1>0, <2>1, <2>2 DEF EndedRoundsAreSettled
<1>12. \A w \in op.awarded : w \in 1 .. nWindows /\ w \notin Open /\ awarded[w] > 0
    BY <1>8, Ranges DEF Accounted, OpIsRecorded
<1>13. OpIsRecorded'
    BY <1>0, <1>4, <1>5, <1>8, <1>12 DEF Accounted, OpIsRecorded
<1>14. OpIsInStep'
    BY <1>0, <1>8, <1>9 DEF Accounted, OpIsRecorded, OpIsInStep
<1>15. OpRestoresSummaries'
    <2> SUFFICES ASSUME op.status = "APPLIED" PROVE OpRestoresSummaries'
        BY <1>0 DEF OpRestoresSummaries
    <2>0. OpRestoresSummaries /\ op' = op
        BY <1>0, <1>8 DEF Accounted
    <2>1. op.rounds \subseteq 1 .. nRounds /\ op.points \subseteq 1 .. nWindows
        BY <1>8 DEF Accounted, OpIsRecorded
    <2>2. \A q \in op'.rounds : ~rounds'[q].live
        BY <1>3, <2>0, <2>1 DEF OpRestoresSummaries
    <2>3. \A w \in op'.points : windows'[w].round \in op'.rounds \/ ~rounds'[windows'[w].round].live
        <3> SUFFICES ASSUME NEW w \in op.points
                     PROVE  windows'[w].round \in op.rounds \/ ~rounds'[windows'[w].round].live
            BY <2>0
        <3>1. w \in 1 .. nWindows /\ windows[w].round \in 1 .. nRounds
            BY <1>8, <2>1 DEF Accounted, WindowsHaveRounds
        <3>2. windows[w].round \in op.rounds \/ ~rounds[windows[w].round].live
            BY <2>0 DEF OpRestoresSummaries
        <3> QED
            BY <1>3, <1>9, <3>1, <3>2
    <2>4. ASSUME NEW q, NEW c
          PROVE  Counted(op.awarded, reverted \ op.points, q, c)' \ late'
                    = Counted(op.awarded, reverted \ op.points, q, c) \ late
        <3>1. \A w \in op.awarded : windows'[w] = windows[w] /\ (w \in late' <=> w \in late)
            BY <1>4, <1>5, <1>7, <1>12
        <3> QED
            BY <1>0, <3>1 DEF Counted
    <2>5. ASSUME NEW q \in op'.rounds, NEW c \in Colours, rounds'[q].ended
          PROVE  rounds'[q].summary[c] = Cardinality(Counted(op.awarded, reverted \ op.points, q, c)' \ late')
        <3>1. rounds'[q] = rounds[q]
            BY <1>0, <1>2, <2>0, <2>1 DEF OpRestoresSummaries
        <3>2. rounds[q].summary[c] = Cardinality(Counted(op.awarded, reverted \ op.points, q, c) \ late)
            BY <2>0, <2>5, <3>1 DEF OpRestoresSummaries
        <3> QED
            BY <2>4, <3>1, <3>2
    <2> QED
        BY <2>2, <2>3, <2>5 DEF OpRestoresSummaries
<1>16. DecidedIsSettled'
    <2>1. phase' # "DECIDED"
        BY DEF Ends
    <2>2. \A w \in 1 .. nWindows : ~windows'[w].resolved => ~windows[w].resolved
        BY <1>5 DEF WindowsKept
    <2> QED
        BY <1>0, <1>8, <1>9, <2>1, <2>2 DEF Accounted, DecidedIsSettled
<1>17. InvalidatedWindowsHoldNoPoint'
    <2> SUFFICES ASSUME NEW w \in WindowIds, awarded'[w] > 0, ~windows'[w].live PROVE w \in reverted
        BY <1>0 DEF InvalidatedWindowsHoldNoPoint
    <2>1. w \in 1 .. nWindows
        BY <1>0 DEF ScoringInv, AwardedOnce, FreshWindows, WindowIds
    <2>2. w \notin Overdue
        BY <1>4, <1>9, <2>1 DEF Open
    <2> QED
        BY <1>5, <1>8, <1>9, <2>1, <2>2 DEF Accounted, PointsAreAccounted, InvalidatedWindowsHoldNoPoint
<1>18. SummariesMissOnlyLateWindows'
    <2> SUFFICES ASSUME NEW q \in 1 .. nRounds, rounds'[q].live, rounds'[q].ended, NEW c \in Colours
                 PROVE  rounds'[q].summary[c] = Cardinality(PointsOf(q, c)' \ late')
        BY <1>0 DEF SummariesMissOnlyLateWindows, LiveRounds
    <2>1. CASE q # r
        <3>1. rounds'[q] = rounds[q] /\ q \in LiveRounds
            BY <1>2, <2>1 DEF LiveRounds
        <3>2. ASSUME NEW w \in 1 .. nWindows, windows[w].round = q
              PROVE  (w \in Overdue => w \in late) /\ (w \in late' <=> w \in late)
            BY <1>4, <1>7, <1>8, <2>1, <3>1, <3>2 DEF Accounted, EndedRoundsAreSettled, Open, Pending
        <3>3. PointsOf(q, c)' \ late' = PointsOf(q, c) \ late
            BY <1>0, <1>5, <1>9, <3>2 DEF PointsOf
        <3> QED
            BY <1>8, <3>1, <3>3 DEF Accounted, PointsAreAccounted, SummariesMissOnlyLateWindows
    <2>2. CASE q = r
        <3> DEFINE T == {w \in Overdue : windows[w].round = r /\ WinningColour(w) = c}
        <3>1. rounds'[r].summary[c] = Cardinality(PointsOf(r, c) \cup T)
            BY <1>1 DEF SummaryOf
        <3>2. ASSUME NEW w \in 1 .. nWindows, windows[w].round = r
              PROVE  w \notin late
            BY <1>0, <1>8, <3>2 DEF Accounted, EndedRoundsAreSettled
        <3>3. \A w \in PointsOf(r, c)' : w \notin late'
            <4>1. \A w \in Open : ~(awarded[w] > 0)
                BY Ranges DEF Open, Pending
            <4> QED
                BY <1>0, <1>5, <1>7, <1>9, <3>2, <4>1 DEF PointsOf
        <3>4. \A w \in 1 .. nWindows : w \notin Overdue => (w \in PointsOf(r, c)' <=> w \in PointsOf(r, c))
            BY <1>0, <1>5 DEF PointsOf
        <3>5. \A w \in Overdue : ~(awarded[w] > 0) /\ w \notin PointsOf(r, c)
            BY <1>4, Ranges DEF Open, Pending, PointsOf
        <3>6. \A w \in Overdue : w \notin reverted
            BY <1>8, <3>5 DEF Accounted, RevertedWereAwarded
        <3>7. \A w \in Overdue : w \in PointsOf(r, c)' <=> w \in T
            BY <1>0, <1>6, <1>9, <3>6 DEF PointsOf, Colours
        <3>8. PointsOf(r, c)' \subseteq 1 .. nWindows /\ PointsOf(r, c) \subseteq 1 .. nWindows
            BY <1>0 DEF PointsOf
        <3>9. T \subseteq Overdue /\ Overdue \subseteq 1 .. nWindows
            BY <1>6
        <3> HIDE DEF T
        <3>10. PointsOf(r, c)' \ late' = PointsOf(r, c) \cup T
            BY <3>3, <3>4, <3>5, <3>7, <3>8, <3>9
        <3> QED
            BY <2>2, <3>1, <3>10 DEF T
    <2> QED
        BY <2>1, <2>2
<1>19. RevertedWereAwarded'
    <2>1. \A w \in reverted : awarded[w] > 0 /\ w \in WindowIds
        BY <1>8 DEF Accounted, RevertedWereAwarded, PointsInv, PointsTyped
    <2> QED
        BY <1>0, <1>4, <1>5, <2>1, Ranges DEF RevertedWereAwarded
<1> QED
    BY <1>10, <1>11, <1>13, <1>14, <1>15, <1>16, <1>17, <1>18, <1>19 DEF Accounted, PointsAreAccounted

\* A cancellation selects rounds of the match, and a reset all of them.
LEMMA SelectedAreLive ==
    ASSUME NEW entireMatch \in BOOLEAN
    PROVE  /\ SelectedRounds(entireMatch) \subseteq LiveRounds
           /\ entireMatch => SelectedRounds(entireMatch) = LiveRounds
BY DEF SelectedRounds

\* The live flag is what cancellations and undos change of rounds and windows.
Flags(R, W) ==
    /\ rounds' = [r \in RoundIds |-> [rounds[r] EXCEPT !.live = R[r]]]
    /\ windows' = [w \in WindowIds |-> [windows[w] EXCEPT !.live = W[w]]]

LEMMA LiveFlags ==
    ASSUME PointsInv, NEW R, NEW W, Flags(R, W)
    PROVE  /\ \A r \in RoundIds : /\ rounds'[r].live = R[r]
                                  /\ rounds'[r].ended = rounds[r].ended
                                  /\ rounds'[r].summary = rounds[r].summary
           /\ \A w \in WindowIds : /\ windows'[w].live = W[w]
                                   /\ windows'[w].round = windows[w].round
                                   /\ windows'[w].resolved = windows[w].resolved
                                   /\ windows'[w].winner = windows[w].winner
<1>1. \A r \in RoundIds : rounds[r] \in RoundType
    BY DEF PointsInv, PointsTyped
<1>2. \A w \in WindowIds : windows[w] \in WindowType
    BY DEF PointsInv, ScoringInv, WindowsTyped
<1>3. \A r \in RoundIds : /\ rounds'[r].live = R[r] /\ rounds'[r].ended = rounds[r].ended
                          /\ rounds'[r].summary = rounds[r].summary
    BY <1>1 DEF RoundType, Flags
<1>4. \A w \in WindowIds : /\ windows'[w].live = W[w] /\ windows'[w].round = windows[w].round
                           /\ windows'[w].resolved = windows[w].resolved
                           /\ windows'[w].winner = windows[w].winner
    BY <1>2 DEF WindowType, Flags
<1> QED
    BY <1>3, <1>4

\* What a cancellation does, row by row.
Cancels(entireMatch, selected, points) ==
    /\ selected \subseteq LiveRounds /\ (entireMatch => selected = LiveRounds)
    /\ points = {w \in 1 .. nWindows : /\ awarded[w] > 0 /\ w \notin reverted
                                       /\ entireMatch \/ windows[w].round \in selected}
    /\ \A r \in 1 .. nRounds : /\ rounds'[r].live <=> rounds[r].live /\ r \notin selected
                               /\ rounds'[r].ended = rounds[r].ended
                               /\ rounds'[r].summary = rounds[r].summary
    /\ \A w \in 1 .. nWindows : /\ windows'[w].live <=> windows[w].live /\ windows[w].round \notin selected
                                /\ windows'[w].round = windows[w].round
                                /\ windows'[w].resolved = windows[w].resolved
                                /\ windows'[w].winner = windows[w].winner
    /\ reverted' = reverted \cup points
    /\ phase' # "DECIDED" /\ op'.resulting # "DECIDED"
    /\ op'.status = "APPLIED" /\ op'.phase = phase /\ op'.rounds = selected
    /\ op'.windows = {w \in 1 .. nWindows : windows[w].live /\ windows[w].round \in selected}
    /\ op'.points = points /\ op'.nWindows = nWindows
    /\ op'.awarded = {w \in 1 .. nWindows : awarded[w] > 0}
    /\ UNCHANGED <<nRounds, nWindows, votes, awarded, late>>

LEMMA CancelIsRowwise ==
    ASSUME PointsInv, NEW entireMatch \in BOOLEAN, CancelResults(entireMatch)
    PROVE  \E selected, points : Cancels(entireMatch, selected, points)
<1> DEFINE selected == SelectedRounds(entireMatch)
           invalidated == {w \in 1 .. nWindows : windows[w].live /\ windows[w].round \in selected}
           points == RevertedPoints(entireMatch, selected) \ reverted
           next == IF entireMatch \/ phase = "BREAK" THEN "WAITING" ELSE "BREAK"
           R == [r \in RoundIds |-> rounds[r].live /\ r \notin selected]
           W == [w \in WindowIds |-> windows[w].live /\ w \notin invalidated]
<1>1. /\ rounds' = [r \in RoundIds |-> [rounds[r] EXCEPT !.live = @ /\ r \notin selected]]
      /\ windows' = [w \in WindowIds |-> [windows[w] EXCEPT !.live = @ /\ w \notin invalidated]]
    BY DEF CancelResults
<1>2. /\ reverted' = reverted \cup points /\ phase' = next
      /\ op' = [status |-> "APPLIED", phase |-> phase, currentRound |-> currentRound,
                resulting |-> next, rounds |-> selected, windows |-> invalidated,
                points |-> points, nRounds |-> nRounds, nWindows |-> nWindows,
                awarded |-> {w \in 1 .. nWindows : awarded[w] > 0}]
      /\ UNCHANGED <<nRounds, nWindows, votes, awarded, late>>
    BY DEF CancelResults
<1>3. Flags(R, W)
    BY <1>1 DEF Flags
<1>4. /\ \A r \in RoundIds : rounds'[r].live = R[r] /\ rounds'[r].ended = rounds[r].ended
                             /\ rounds'[r].summary = rounds[r].summary
      /\ \A w \in WindowIds : /\ windows'[w].live = W[w] /\ windows'[w].round = windows[w].round
                              /\ windows'[w].resolved = windows[w].resolved
                              /\ windows'[w].winner = windows[w].winner
    <2> HIDE DEF R, W, invalidated, selected
    <2> QED
        BY <1>3, LiveFlags
<1>5. /\ \A r \in RoundIds : R[r] <=> rounds[r].live /\ r \notin selected
      /\ \A w \in WindowIds : W[w] <=> windows[w].live /\ w \notin invalidated
    OBVIOUS
<1>6. /\ \A r \in 1 .. nRounds : r \in RoundIds
      /\ \A w \in 1 .. nWindows : w \in WindowIds /\ (w \in invalidated <=> windows[w].live /\ windows[w].round \in selected)
    BY Ranges
<1>7. points = {w \in 1 .. nWindows : /\ awarded[w] > 0 /\ w \notin reverted
                                      /\ entireMatch \/ windows[w].round \in selected}
    BY DEF RevertedPoints
<1>8. next \in {"WAITING", "BREAK"}
    OBVIOUS
<1>9. selected \subseteq LiveRounds /\ (entireMatch => selected = LiveRounds)
    BY SelectedAreLive
<1> HIDE DEF selected, points, next, R, W
<1>10. /\ \A r \in 1 .. nRounds : /\ rounds'[r].live <=> rounds[r].live /\ r \notin selected
                                  /\ rounds'[r].ended = rounds[r].ended
                                  /\ rounds'[r].summary = rounds[r].summary
       /\ \A w \in 1 .. nWindows : /\ windows'[w].live <=> windows[w].live /\ windows[w].round \notin selected
                                   /\ windows'[w].round = windows[w].round
                                   /\ windows'[w].resolved = windows[w].resolved
                                   /\ windows'[w].winner = windows[w].winner
    <2> HIDE DEF invalidated
    <2> QED
        BY <1>4, <1>5, <1>6
<1>11. /\ op'.status = "APPLIED" /\ op'.phase = phase /\ op'.rounds = selected /\ op'.windows = invalidated
       /\ op'.points = points /\ op'.nWindows = nWindows /\ op'.resulting = next
       /\ op'.awarded = {w \in 1 .. nWindows : awarded[w] > 0}
    BY <1>2
<1>12. Cancels(entireMatch, selected, points)
    BY <1>2, <1>7, <1>8, <1>9, <1>10, <1>11 DEF Cancels
<1> QED
    BY <1>12

LEMMA CancelPreserves ==
    ASSUME PointsInv, ScoringInv', PointsTyped', NEW entireMatch \in BOOLEAN,
           NEW selected, NEW points, Cancels(entireMatch, selected, points)
    PROVE  Accounted'
<1>0. /\ nRounds \in Nat /\ nWindows \in Nat /\ UNCHANGED <<nRounds, nWindows, votes, awarded, late>>
      /\ reverted' = reverted \cup points /\ op'.status = "APPLIED" /\ op'.phase = phase
      /\ op'.rounds = selected /\ op'.points = points /\ op'.nWindows = nWindows
      /\ op'.windows = {w \in 1 .. nWindows : windows[w].live /\ windows[w].round \in selected}
      /\ op'.awarded = {w \in 1 .. nWindows : awarded[w] > 0}
      /\ phase' # "DECIDED" /\ op'.resulting # "DECIDED"
    BY Ranges DEF Cancels
<1>1. selected \subseteq 1 .. nRounds /\ \A r \in selected : rounds[r].live
    BY DEF Cancels, LiveRounds
<1>2. \A r \in 1 .. nRounds : /\ rounds'[r].live <=> rounds[r].live /\ r \notin selected
                              /\ rounds'[r].ended = rounds[r].ended
                              /\ rounds'[r].summary = rounds[r].summary
                              /\ entireMatch => ~rounds'[r].live
    BY DEF Cancels, LiveRounds
<1>3. \A w \in 1 .. nWindows : /\ windows'[w].live <=> windows[w].live /\ windows[w].round \notin selected
                               /\ windows'[w].round = windows[w].round
                               /\ windows'[w].resolved = windows[w].resolved
                               /\ windows'[w].winner = windows[w].winner
    BY DEF Cancels
<1>4. \A w : w \in points <=> /\ w \in 1 .. nWindows /\ awarded[w] > 0 /\ w \notin reverted
                              /\ entireMatch \/ windows[w].round \in selected
    BY DEF Cancels
<1>5. Accounted
    BY DEF PointsInv
<1>6. WindowsHaveRounds'
    <2> SUFFICES ASSUME NEW w \in 1 .. nWindows
                 PROVE  /\ windows'[w].round \in 1 .. nRounds
                        /\ rounds'[windows'[w].round].live => windows'[w].live
        BY <1>0 DEF WindowsHaveRounds
    <2>1. windows[w].round \in 1 .. nRounds /\ (rounds[windows[w].round].live => windows[w].live)
        BY <1>5 DEF Accounted, WindowsHaveRounds
    <2> QED
        BY <1>2, <1>3, <2>1
<1>7. EndedRoundsAreSettled'
    <2>1. \A w \in 1 .. nWindows : windows[w].round \in 1 .. nRounds
        BY <1>5 DEF Accounted, WindowsHaveRounds
    <2>2. ASSUME NEW w \in 1 .. nWindows
          PROVE  /\ ~windows'[w].resolved /\ rounds'[windows'[w].round].ended => w \in late
                 /\ w \in late => rounds'[windows'[w].round].ended
        BY <1>2, <1>3, <1>5, <2>1 DEF Accounted, EndedRoundsAreSettled
    <2> QED
        BY <1>0, <1>5, <2>2 DEF Accounted, EndedRoundsAreSettled
<1>8. RevertedWereAwarded'
    BY <1>0, <1>4, <1>5 DEF Accounted, RevertedWereAwarded
<1>9. OpIsRecorded'
    BY <1>0, <1>1, <1>4 DEF OpIsRecorded
<1>10. ASSUME NEW w \in points PROVE windows[w].live
    <2>1. w \in WindowIds /\ awarded[w] > 0 /\ w \notin reverted
        BY <1>4, Ranges
    <2> QED
        BY <1>5, <2>1 DEF Accounted, PointsAreAccounted, InvalidatedWindowsHoldNoPoint
<1>11. OpIsInStep'
    <2>1. \A w \in points : w \in op'.windows \/ windows'[w].live
        BY <1>0, <1>3, <1>4, <1>10
    <2>2. ASSUME NEW w \in 1 .. nWindows, windows[w].round \in selected PROVE w \in op'.windows
        <3>1. windows[w].live
            BY <1>1, <1>5, <2>2 DEF Accounted, WindowsHaveRounds
        <3> QED
            BY <1>0, <2>2, <3>1
    <2> QED
        BY <1>0, <1>3, <2>1, <2>2 DEF OpIsInStep
<1>12. ASSUME NEW r \in 1 .. nRounds, NEW c, rounds[r].live, rounds[r].ended, c \in Colours
       PROVE  rounds[r].summary[c] = Cardinality(PointsOf(r, c) \ late)
    BY <1>5, <1>12 DEF Accounted, PointsAreAccounted, SummariesMissOnlyLateWindows, LiveRounds
<1>13. OpRestoresSummaries'
    <2>1. \A r \in op'.rounds : ~rounds'[r].live
        BY <1>0, <1>1, <1>2
    <2>2. \A w \in op'.points : windows'[w].round \in op'.rounds \/ ~rounds'[windows'[w].round].live
        <3> SUFFICES ASSUME NEW w \in points
                     PROVE  windows'[w].round \in selected \/ ~rounds'[windows'[w].round].live
            BY <1>0
        <3>1. w \in 1 .. nWindows /\ windows[w].round \in 1 .. nRounds
            BY <1>4, <1>5 DEF Accounted, WindowsHaveRounds
        <3> QED
            BY <1>2, <1>3, <1>4, <3>1
    <2>3. ASSUME NEW r \in op'.rounds, NEW c \in Colours, rounds'[r].ended
          PROVE  rounds'[r].summary[c] = Cardinality(Counted(op.awarded, reverted \ op.points, r, c)' \ late')
        <3>1. \A w \in 1 .. nWindows : w \notin reverted' \ op'.points <=> w \notin reverted
            BY <1>0, <1>4
        <3>2. Counted(op.awarded, reverted \ op.points, r, c)' = PointsOf(r, c)
            BY <1>0, <1>3, <3>1 DEF Counted, PointsOf
        <3>3. r \in 1 .. nRounds /\ rounds[r].live /\ rounds[r].ended /\ rounds'[r].summary = rounds[r].summary
            BY <1>0, <1>1, <1>2, <2>3
        <3> QED
            BY <1>0, <1>12, <3>2, <3>3
    <2> QED
        BY <2>1, <2>2, <2>3 DEF OpRestoresSummaries
<1>14. DecidedIsSettled'
    <2>1. ASSUME phase = "DECIDED", NEW w \in 1 .. nWindows, ~windows[w].resolved
          PROVE  ~windows[w].live
        BY <1>5, <2>1 DEF Accounted, DecidedIsSettled, Open, Pending
    <2> QED
        BY <1>0, <1>3, <2>1 DEF DecidedIsSettled
<1>15. InvalidatedWindowsHoldNoPoint'
    <2> SUFFICES ASSUME NEW w \in WindowIds, awarded[w] > 0, ~windows'[w].live PROVE w \in reverted'
        BY <1>0 DEF InvalidatedWindowsHoldNoPoint
    <2>1. w \in 1 .. nWindows
        BY Ranges
    <2> QED
        BY <1>0, <1>3, <1>4, <1>5, <2>1 DEF Accounted, PointsAreAccounted, InvalidatedWindowsHoldNoPoint
<1>16. SummariesMissOnlyLateWindows'
    <2> SUFFICES ASSUME NEW r \in 1 .. nRounds, rounds'[r].live, rounds'[r].ended, NEW c \in Colours
                 PROVE  rounds'[r].summary[c] = Cardinality(PointsOf(r, c)' \ late')
        BY <1>0 DEF SummariesMissOnlyLateWindows, LiveRounds
    <2>1. r \notin selected /\ ~entireMatch /\ rounds[r].live /\ rounds[r].ended
          /\ rounds'[r].summary = rounds[r].summary
        BY <1>2
    <2>2. \A w \in 1 .. nWindows : windows[w].round = r => w \notin points
        BY <1>4, <2>1
    <2>3. PointsOf(r, c)' = PointsOf(r, c)
        BY <1>0, <1>3, <2>2 DEF PointsOf
    <2> QED
        BY <1>0, <1>12, <2>1, <2>3
<1> QED
    BY <1>6, <1>7, <1>8, <1>9, <1>11, <1>13, <1>14, <1>15, <1>16 DEF Accounted, PointsAreAccounted

\* What an undo does, row by row.
Undoes ==
    /\ op.status = "APPLIED" /\ phase = op.resulting /\ nWindows = op.nWindows
    /\ {w \in 1 .. nWindows : awarded[w] > 0} = op.awarded
    /\ \A r \in 1 .. nRounds : /\ rounds'[r].live <=> rounds[r].live \/ r \in op.rounds
                               /\ rounds'[r].ended = rounds[r].ended
                               /\ rounds'[r].summary = rounds[r].summary
    /\ \A w \in 1 .. nWindows : /\ windows'[w].live <=> windows[w].live \/ w \in op.windows
                                /\ windows'[w].round = windows[w].round
                                /\ windows'[w].resolved = windows[w].resolved
                                /\ windows'[w].winner = windows[w].winner
    /\ reverted' = reverted \ op.points
    /\ phase' = op.phase
    /\ op'.status = "UNDONE" /\ op'.rounds = op.rounds /\ op'.windows = op.windows
    /\ op'.points = op.points /\ op'.nWindows = op.nWindows /\ op'.awarded = op.awarded
    /\ op'.resulting = op.resulting
    /\ UNCHANGED <<nRounds, nWindows, votes, awarded, late>>

LEMMA UndoIsRowwise ==
    ASSUME PointsInv, Undo
    PROVE  Undoes
<1> DEFINE R == [r \in RoundIds |-> rounds[r].live \/ r \in op.rounds]
           W == [w \in WindowIds |-> windows[w].live \/ w \in op.windows]
<1>1. /\ rounds' = [r \in RoundIds |-> [rounds[r] EXCEPT !.live = @ \/ r \in op.rounds]]
      /\ windows' = [w \in WindowIds |-> [windows[w] EXCEPT !.live = @ \/ w \in op.windows]]
    BY DEF Undo
<1>2. /\ op.status = "APPLIED" /\ phase = op.resulting /\ nWindows = op.nWindows
      /\ {w \in 1 .. nWindows : awarded[w] > 0} = op.awarded
      /\ reverted' = reverted \ op.points /\ phase' = op.phase
      /\ op' = [op EXCEPT !.status = "UNDONE"]
      /\ UNCHANGED <<nRounds, nWindows, votes, awarded, late>>
    BY DEF Undo
<1>3. Flags(R, W)
    BY <1>1 DEF Flags
<1>4. /\ \A r \in RoundIds : R[r] <=> rounds[r].live \/ r \in op.rounds
      /\ \A w \in WindowIds : W[w] <=> windows[w].live \/ w \in op.windows
    OBVIOUS
<1> HIDE DEF R, W
<1>5. /\ \A r \in RoundIds : rounds'[r].live = R[r] /\ rounds'[r].ended = rounds[r].ended
                             /\ rounds'[r].summary = rounds[r].summary
      /\ \A w \in WindowIds : /\ windows'[w].live = W[w] /\ windows'[w].round = windows[w].round
                              /\ windows'[w].resolved = windows[w].resolved
                              /\ windows'[w].winner = windows[w].winner
    BY <1>3, LiveFlags
<1>6. /\ \A r \in 1 .. nRounds : r \in RoundIds
      /\ \A w \in 1 .. nWindows : w \in WindowIds
    BY Ranges
<1>7. /\ op'.status = "UNDONE" /\ op'.rounds = op.rounds /\ op'.windows = op.windows
      /\ op'.points = op.points /\ op'.nWindows = op.nWindows /\ op'.awarded = op.awarded
      /\ op'.resulting = op.resulting
    <2>1. op \in OpType
        BY DEF PointsInv, PointsTyped
    <2> QED
        BY <1>2, <2>1 DEF OpType
<1> QED
    BY <1>2, <1>4, <1>5, <1>6, <1>7 DEF Undoes

LEMMA UndoPreserves ==
    ASSUME PointsInv, ScoringInv', PointsTyped', Undoes
    PROVE  Accounted'
<1>0. /\ nRounds \in Nat /\ nWindows \in Nat /\ UNCHANGED <<nRounds, nWindows, votes, awarded, late>>
      /\ reverted' = reverted \ op.points /\ phase' = op.phase /\ op.status = "APPLIED"
      /\ nWindows = op.nWindows /\ op'.status = "UNDONE"
      /\ {w \in 1 .. nWindows : awarded[w] > 0} = op.awarded
    BY Ranges DEF Undoes
<1>1. \A r \in 1 .. nRounds : /\ rounds'[r].live <=> rounds[r].live \/ r \in op.rounds
                              /\ rounds'[r].ended = rounds[r].ended
                              /\ rounds'[r].summary = rounds[r].summary
    BY DEF Undoes
<1>2. \A w \in 1 .. nWindows : /\ windows'[w].live <=> windows[w].live \/ w \in op.windows
                               /\ windows'[w].round = windows[w].round
                               /\ windows'[w].resolved = windows[w].resolved
                               /\ windows'[w].winner = windows[w].winner
    BY DEF Undoes
<1>3. /\ WindowsHaveRounds /\ EndedRoundsAreSettled /\ RevertedWereAwarded
      /\ OpIsRecorded /\ OpIsInStep /\ OpRestoresSummaries
      /\ DecidedIsSettled /\ InvalidatedWindowsHoldNoPoint /\ SummariesMissOnlyLateWindows
    BY DEF PointsInv, Accounted, PointsAreAccounted
<1>4. WindowsHaveRounds'
    <2> SUFFICES ASSUME NEW w \in 1 .. nWindows
                 PROVE  /\ windows'[w].round \in 1 .. nRounds
                        /\ rounds'[windows'[w].round].live => windows'[w].live
        BY <1>0 DEF WindowsHaveRounds
    <2>1. windows[w].round \in 1 .. nRounds /\ (rounds[windows[w].round].live => windows[w].live)
        BY <1>3 DEF WindowsHaveRounds
    <2>2. windows[w].round \in op.rounds => windows[w].live \/ w \in op.windows
        BY <1>3 DEF OpIsInStep
    <2> QED
        BY <1>1, <1>2, <2>1, <2>2
<1>5. EndedRoundsAreSettled'
    <2>1. ASSUME NEW w \in 1 .. nWindows
          PROVE  /\ ~windows'[w].resolved /\ rounds'[windows'[w].round].ended => w \in late
                 /\ w \in late => rounds'[windows'[w].round].ended
        <3>1. windows[w].round \in 1 .. nRounds
            BY <1>3 DEF WindowsHaveRounds
        <3> QED
            BY <1>1, <1>2, <1>3, <3>1 DEF EndedRoundsAreSettled
    <2> QED
        BY <1>0, <1>3, <2>1 DEF EndedRoundsAreSettled
<1>6. RevertedWereAwarded'
    BY <1>0, <1>3 DEF RevertedWereAwarded
<1>7. OpIsRecorded'
    BY <1>0, <1>3 DEF OpIsRecorded, Undoes
<1>8. OpIsInStep'
    <2>1. /\ op'.rounds = op.rounds /\ op'.windows = op.windows /\ op'.points = op.points
        BY DEF Undoes
    <2>2. op.points \subseteq 1 .. nWindows
        BY <1>3 DEF OpIsRecorded
    <2> QED
        BY <1>0, <1>2, <1>3, <2>1, <2>2 DEF OpIsInStep
<1>9. OpRestoresSummaries'
    BY <1>0 DEF OpRestoresSummaries
<1>10. DecidedIsSettled'
    <2> SUFFICES ASSUME op.phase = "DECIDED" PROVE Open' = {}
        BY <1>0 DEF DecidedIsSettled
    <2>1. \A w \in 1 .. nWindows : ~windows[w].resolved => ~windows[w].live /\ w \notin op.windows
        BY <1>0, <1>3 DEF DecidedIsSettled
    <2>2. \A w \in 1 .. nWindows : ~windows'[w].resolved => ~windows'[w].live
        BY <1>2, <2>1
    <2> QED
        BY <1>0, <2>2 DEF Open, Pending
<1>11. InvalidatedWindowsHoldNoPoint'
    <2> SUFFICES ASSUME NEW w \in WindowIds, awarded[w] > 0, ~windows'[w].live PROVE w \in reverted'
        BY <1>0 DEF InvalidatedWindowsHoldNoPoint
    <2>1. w \in 1 .. nWindows
        BY Ranges
    <2>2. ~windows[w].live /\ w \notin op.windows
        BY <1>2, <2>1
    <2>3. w \notin op.points
        BY <1>3, <2>2 DEF OpIsInStep
    <2> QED
        BY <1>0, <1>3, <2>2, <2>3 DEF InvalidatedWindowsHoldNoPoint
<1>12. SummariesMissOnlyLateWindows'
    <2> SUFFICES ASSUME NEW r \in 1 .. nRounds, rounds'[r].live, rounds'[r].ended, NEW c \in Colours
                 PROVE  rounds'[r].summary[c] = Cardinality(PointsOf(r, c)' \ late')
        BY <1>0 DEF SummariesMissOnlyLateWindows, LiveRounds
    <2>0. rounds[r].ended /\ rounds'[r].summary = rounds[r].summary
        BY <1>1
    <2>1. CASE r \in op.rounds
        <3>1. rounds[r].summary[c] = Cardinality(Counted(op.awarded, reverted \ op.points, r, c) \ late)
            BY <1>0, <1>3, <2>0, <2>1 DEF OpRestoresSummaries
        <3>2. PointsOf(r, c)' = Counted(op.awarded, reverted \ op.points, r, c)
            BY <1>0, <1>2 DEF PointsOf, Counted
        <3> QED
            BY <1>0, <2>0, <3>1, <3>2
    <2>2. CASE r \notin op.rounds
        <3>1. r \in LiveRounds
            BY <1>1, <2>2 DEF LiveRounds
        <3>2. \A w \in 1 .. nWindows : windows[w].round = r => w \notin op.points
            <4>1. rounds[r].live
                BY <3>1 DEF LiveRounds
            <4> QED
                BY <1>0, <1>3, <2>2, <4>1 DEF OpRestoresSummaries
        <3>3. PointsOf(r, c)' = PointsOf(r, c)
            BY <1>0, <1>2, <3>2 DEF PointsOf
        <3>4. rounds[r].summary[c] = Cardinality(PointsOf(r, c) \ late)
            BY <1>3, <2>0, <3>1 DEF SummariesMissOnlyLateWindows
        <3> QED
            BY <1>0, <2>0, <3>3, <3>4
    <2> QED
        BY <2>1, <2>2
<1> QED
    BY <1>4, <1>5, <1>6, <1>7, <1>8, <1>9, <1>10, <1>11, <1>12 DEF Accounted, PointsAreAccounted

-----------------------------------------------------------------------------
(* The invariant, and what follows from it.                                  *)

\* The rows keep their types.
LEMMA PointsTypedStep ==
    ASSUME PointsInv, [Next]_vars
    PROVE  PointsTyped' /\ PhaseHasNumber'
<1>0. /\ PointsTyped /\ PhaseHasNumber /\ ScoringInv
      /\ nRounds \in 0 .. MaxRounds /\ nWindows \in 0 .. MaxWindows
      /\ 1 .. nRounds \subseteq RoundIds /\ 1 .. nWindows \subseteq WindowIds
    BY DEF PointsInv, ScoringInv, WindowsTyped, RoundIds, WindowIds
<1>1. ASSUME UNCHANGED <<phase, currentRound, rounds, reverted, op, nCancelled, late>>
      PROVE  PointsTyped' /\ PhaseHasNumber'
    BY <1>0, <1>1 DEF PointsTyped, PhaseHasNumber
<1>2. ASSUME UNCHANGED <<reverted, op, nCancelled, late>>, rounds' \in [RoundIds -> RoundType],
             phase' \in Phases, currentRound' \in 0 .. 2,
             phase' = "WAITING" => currentRound' = 0, phase' = "BREAK" => currentRound' = 1
      PROVE  PointsTyped' /\ PhaseHasNumber'
    BY <1>0, <1>2 DEF PointsTyped, PhaseHasNumber
<1>3. CASE StartRound
    <2> DEFINE new == [NoRound EXCEPT !.number = currentRound + 1, !.live = TRUE]
    <2>1. /\ rounds' = [rounds EXCEPT ![nRounds + 1] = new] /\ nRounds < MaxRounds
          /\ phase \in {"WAITING", "BREAK"} /\ phase' = "RUNNING" /\ currentRound' = currentRound + 1
          /\ UNCHANGED <<reverted, op, nCancelled, late>>
        BY <1>3 DEF StartRound, windowVars, opVars
    <2>2. currentRound \in 0 .. 1 /\ currentRound' \in 0 .. 2
        BY <1>0, <2>1 DEF PhaseHasNumber
    <2>3. NoTally \in Tally
        BY DEF NoTally, Tally
    <2>4. NoRound \in RoundType /\ currentRound + 1 \in 0 .. 2
        BY <2>2, <2>3 DEF NoRound, RoundType
    <2>5. new \in RoundType
        BY <2>4 DEF RoundType
    <2> HIDE DEF new
    <2>6. rounds' \in [RoundIds -> RoundType]
        BY <1>0, <2>1, <2>5 DEF PointsTyped
    <2> QED
        BY <1>2, <2>1, <2>2, <2>6 DEF Phases
<1>4. CASE PauseRound
    BY <1>0, <1>2, <1>4 DEF PauseRound, windowVars, opVars, PointsTyped, Phases
<1>5. CASE CompleteAppeal
    BY <1>0, <1>2, <1>5 DEF CompleteAppeal, windowVars, opVars, PointsTyped, Phases
<1>6. CASE ResumeRound
    <2>1. /\ rounds' = [r \in RoundIds |->
                IF r \in RunningRounds THEN [rounds[r] EXCEPT !.due = FALSE] ELSE rounds[r]]
          /\ phase' = "RUNNING" /\ UNCHANGED <<currentRound, reverted, op, nCancelled, late>>
        BY <1>6 DEF ResumeRound, windowVars, opVars
    <2>2. \A r \in RoundIds : rounds[r] \in RoundType /\ [rounds[r] EXCEPT !.due = FALSE] \in RoundType
        BY <1>0 DEF PointsTyped, RoundType
    <2>3. rounds' \in [RoundIds -> RoundType]
        BY <2>1, <2>2
    <2> QED
        BY <1>0, <1>2, <2>1, <2>3 DEF PointsTyped, Phases
<1>7. ASSUME NEW r \in RoundIds, RoundDeadline(r) PROVE PointsTyped' /\ PhaseHasNumber'
    <2>1. /\ rounds' = [rounds EXCEPT ![r].due = TRUE]
          /\ UNCHANGED <<phase, currentRound, reverted, op, nCancelled, late>>
        BY <1>7 DEF RoundDeadline, windowVars, opVars
    <2>2. [rounds[r] EXCEPT !.due = TRUE] \in RoundType
        BY <1>0 DEF PointsTyped, RoundType
    <2>3. rounds' \in [RoundIds -> RoundType]
        BY <1>0, <2>1, <2>2 DEF PointsTyped
    <2> QED
        BY <1>0, <1>2, <2>1, <2>3 DEF PointsTyped, PhaseHasNumber
<1>8. CASE ExpireRound
    <2>1. PICK r \in RunningRounds :
            /\ rounds' = [rounds EXCEPT ![r].ended = TRUE, ![r].summary = SummaryOf(r, Overdue)]
            /\ late' = late \cup {w \in Open \ Overdue : windows[w].round = r}
        BY <1>8 DEF ExpireRound
    <2>2. /\ phase' = IF currentRound = 1 THEN "BREAK" ELSE "REGULATION_APPEAL"
          /\ UNCHANGED <<currentRound, reverted, op, nCancelled>>
        BY <1>8 DEF ExpireRound, opVars
    <2>3. SummaryOf(r, Overdue) \in Tally /\ r \in RoundIds
        BY <1>0, SummaryType DEF Overdue, RunningRounds, LiveRounds
    <2>4. rounds[r] \in RoundType
        BY <1>0, <2>3 DEF PointsTyped
    <2>5. [rounds[r] EXCEPT !.ended = TRUE, !.summary = SummaryOf(r, Overdue)] \in RoundType
        BY <2>3, <2>4 DEF RoundType
    <2>6. rounds' \in [RoundIds -> RoundType]
        BY <1>0, <2>1, <2>3, <2>5 DEF PointsTyped
    <2>7. late' \subseteq WindowIds
        BY <1>0, <2>1 DEF PointsTyped, Open, Pending
    <2> QED
        BY <1>0, <2>2, <2>6, <2>7 DEF PointsTyped, PhaseHasNumber, Phases
<1>9. ASSUME NEW entireMatch \in BOOLEAN, CancelResults(entireMatch)
      PROVE  PointsTyped' /\ PhaseHasNumber'
    <2> DEFINE selected == SelectedRounds(entireMatch)
               invalidated == {w \in 1 .. nWindows : windows[w].live /\ windows[w].round \in selected}
               points == RevertedPoints(entireMatch, selected) \ reverted
               next == IF entireMatch \/ phase = "BREAK" THEN "WAITING" ELSE "BREAK"
               given == {w \in 1 .. nWindows : awarded[w] > 0}
    <2>1. /\ rounds' = [r \in RoundIds |-> [rounds[r] EXCEPT !.live = @ /\ r \notin selected]]
          /\ nCancelled < MaxCancelled /\ nCancelled' = nCancelled + 1
          /\ reverted' = reverted \cup points
          /\ phase' = next /\ currentRound' = IF next = "WAITING" THEN 0 ELSE 1
          /\ op' = [status |-> "APPLIED", phase |-> phase, currentRound |-> currentRound,
                    resulting |-> next, rounds |-> selected, windows |-> invalidated,
                    points |-> points, nRounds |-> nRounds, nWindows |-> nWindows,
                    awarded |-> given]
          /\ UNCHANGED late
        BY <1>9 DEF CancelResults
    <2>2. selected \in SUBSET RoundIds
        BY <1>0, SelectedAreLive DEF LiveRounds
    <2>3. invalidated \in SUBSET WindowIds /\ points \in SUBSET WindowIds /\ given \in SUBSET WindowIds
        BY <1>0 DEF RevertedPoints
    <2>4. next \in {"WAITING", "BREAK"} /\ next \in Phases
        BY DEF Phases
    <2> HIDE DEF selected, invalidated, points, next, given
    <2>5. op' \in OpType
        BY <1>0, <2>1, <2>2, <2>3, <2>4 DEF OpType, PointsTyped
    <2>6. \A r \in RoundIds : [rounds[r] EXCEPT !.live = @ /\ r \notin selected] \in RoundType
        BY <1>0 DEF PointsTyped, RoundType
    <2>7. rounds' \in [RoundIds -> RoundType]
        BY <2>1, <2>6
    <2>8. op'.phase = phase /\ op'.currentRound = currentRound
        BY <2>1
    <2>9. nCancelled' \in 0 .. MaxCancelled
        BY <1>0, <2>1 DEF PointsTyped
    <2>10. PointsTyped'
        BY <1>0, <2>1, <2>3, <2>4, <2>5, <2>7, <2>9 DEF PointsTyped
    <2> QED
        BY <1>0, <2>1, <2>4, <2>8, <2>10 DEF PhaseHasNumber
<1>10. CASE Undo
    <2>1. /\ rounds' = [r \in RoundIds |-> [rounds[r] EXCEPT !.live = @ \/ r \in op.rounds]]
          /\ reverted' = reverted \ op.points
          /\ phase' = op.phase /\ currentRound' = op.currentRound
          /\ op' = [op EXCEPT !.status = "UNDONE"]
          /\ UNCHANGED <<nCancelled, late>>
        BY <1>10 DEF Undo
    <2>2. op \in OpType
        BY <1>0 DEF PointsTyped
    <2>3. op' \in OpType /\ op'.phase = op.phase /\ op'.currentRound = op.currentRound
          /\ op.phase \in Phases /\ op.currentRound \in 0 .. 2
        BY <2>1, <2>2 DEF OpType
    <2>4. \A r \in RoundIds : [rounds[r] EXCEPT !.live = @ \/ r \in op.rounds] \in RoundType
        BY <1>0 DEF PointsTyped, RoundType
    <2>5. rounds' \in [RoundIds -> RoundType]
        BY <2>1, <2>4
    <2>6. reverted' \subseteq WindowIds
        BY <1>0, <2>1 DEF PointsTyped
    <2> QED
        BY <1>0, <2>1, <2>3, <2>5, <2>6 DEF PointsTyped, PhaseHasNumber
<1>11. ASSUME NEW i \in Instances, NEW j \in Judges, NEW c \in Colours, SubmitVote(i, j, c)
       PROVE  PointsTyped' /\ PhaseHasNumber'
    BY <1>1, <1>11 DEF SubmitVote, roundVars, opVars
<1>12. CASE Officials
    BY <1>3, <1>4, <1>5, <1>6, <1>9, <1>10, <1>11, <1>12 DEF Officials
<1>13. ASSUME NEW i \in Instances, Process(i) PROVE PointsTyped' /\ PhaseHasNumber'
    <2>1. ASSUME NEW w \in WindowIds, TimerFires(i, w) \/ HandleResolution(i, w) \/ HandlerFails(i, w)
          PROVE  PointsTyped' /\ PhaseHasNumber'
        BY <1>1, <2>1 DEF TimerFires, HandleResolution, HandlerFails, roundVars, windowVars, opVars
    <2>2. CASE Crash(i)
        BY <1>1, <2>2 DEF Crash, roundVars, windowVars, opVars
    <2>3. CASE Restart(i)
        BY <1>1, <1>8, <2>3 DEF Restart, roundVars, opVars
    <2>4. CASE EndRound(i)
        BY <1>8, <2>4 DEF EndRound
    <2> QED
        BY <1>13, <2>1, <2>2, <2>3, <2>4 DEF Process
<1>14. CASE Clock
    BY <1>1, <1>7, <1>14 DEF Clock, WindowDeadline, roundVars, opVars
<1>15. CASE UNCHANGED vars
    BY <1>1, <1>15 DEF vars, roundVars, windowVars, opVars
<1> QED
    BY <1>12, <1>13, <1>14, <1>15 DEF Next

LEMMA PointsInit == Init => PointsInv
<1> SUFFICES ASSUME Init PROVE PointsInv
    OBVIOUS
<1>1. ScoringInv
    BY ScoringInductive
<1>2. /\ nRounds = 0 /\ nWindows = 0 /\ phase = "WAITING" /\ currentRound = 0
      /\ reverted = {} /\ late = {} /\ op = NoOp /\ nCancelled = 0
      /\ rounds = [r \in RoundIds |-> NoRound] /\ awarded = [w \in WindowIds |-> 0]
    BY DEF Init
<1>3. 1 .. 0 = {}
    OBVIOUS
<1>4. NoRound \in RoundType /\ NoOp \in OpType
    BY DEF NoRound, RoundType, NoTally, Tally, NoOp, OpType, Phases
<1>5. PointsTyped
    BY <1>2, <1>4 DEF PointsTyped, Phases
<1>6. PhaseHasNumber
    BY <1>2 DEF PhaseHasNumber, NoOp
<1>7. WindowsHaveRounds /\ EndedRoundsAreSettled /\ RevertedWereAwarded
    BY <1>2, <1>3 DEF WindowsHaveRounds, EndedRoundsAreSettled, RevertedWereAwarded
<1>8. OpIsRecorded /\ OpIsInStep /\ OpRestoresSummaries
    BY <1>2, <1>3 DEF OpIsRecorded, OpIsInStep, OpRestoresSummaries, NoOp
<1>9. DecidedIsSettled
    BY <1>2 DEF DecidedIsSettled, NoOp
<1>10. PointsAreAccounted
    BY <1>2, <1>3 DEF PointsAreAccounted, InvalidatedWindowsHoldNoPoint, SummariesMissOnlyLateWindows, LiveRounds
<1> QED
    BY <1>1, <1>5, <1>6, <1>7, <1>8, <1>9, <1>10 DEF PointsInv, Accounted

LEMMA PointsInductive == PointsInv /\ [Next]_vars => PointsInv'
<1> SUFFICES ASSUME PointsInv, [Next]_vars PROVE PointsInv'
    OBVIOUS
<1>1. ScoringInv'
    BY ScoringInductive DEF PointsInv
<1>2. PointsTyped' /\ PhaseHasNumber'
    BY PointsTypedStep
<1>3. Accounted'
    <2>1. ASSUME NEW entireMatch \in BOOLEAN, CancelResults(entireMatch) PROVE Accounted'
        BY <1>1, <1>2, <2>1, CancelIsRowwise, CancelPreserves
    <2>2. ASSUME Undo PROVE Accounted'
        BY <1>1, <1>2, <2>2, UndoIsRowwise, UndoPreserves
    <2> QED
        BY <1>1, <1>2, <2>1, <2>2, StepForms, TamePreserves, EndsPreserves
<1> QED
    BY <1>1, <1>2, <1>3 DEF PointsInv

\* Points are accounted for: through any sequence of votes, late timers, round
\* ends, cancellations and undos an invalidated window holds no point, and the
\* summaries of the rounds that count miss no point except those of windows that
\* were open when their round ended.
THEOREM PointsStayAccounted == Spec => []PointsAreAccounted
<1>1. PointsInv => PointsAreAccounted
    BY DEF PointsInv, Accounted
<1> QED
    BY <1>1, PointsInit, PointsInductive, PTL DEF Spec

LEMMA DecidedStep ==
    ASSUME PointsInv, [Next]_vars, phase = "DECIDED", phase' = "DECIDED", NEW r, NEW c
    PROVE  PointsOf(r, c)' = PointsOf(r, c)
<1>1. Open = {} /\ op.resulting # "DECIDED"
    BY DEF PointsInv, Accounted, DecidedIsSettled, OpIsRecorded
<1>2. ~Undo
    BY <1>1 DEF Undo
<1>3. \A q : ~Ends(q)
    BY DEF Ends
<1>4. ASSUME NEW entireMatch \in BOOLEAN PROVE ~CancelResults(entireMatch)
    BY CancelIsRowwise DEF Cancels
<1>5. Tame
    BY <1>2, <1>3, <1>4, StepForms
<1>6. nWindows' = nWindows /\ reverted' = reverted
    BY <1>5 DEF Tame
<1>7. \A w \in 1 .. nWindows : /\ windows'[w].round = windows[w].round
                               /\ windows'[w].winner = windows[w].winner /\ awarded'[w] = awarded[w]
    BY <1>1, <1>5, <1>6 DEF Tame
<1> QED
    BY <1>6, <1>7 DEF PointsOf

\* Once an appeal is completed nothing moves the points it was decided on: no
\* resolution is left to come for a window of the match, not even after the
\* decision was cancelled and the cancellation undone.
THEOREM AppealedPointsStayFrozen == Spec => AppealedPointsAreFrozen
<1>1. PointsInv /\ [Next]_vars =>
        [phase = "DECIDED" /\ phase' = "DECIDED" =>
            \A r \in LiveRounds, c \in Colours : PointsOf(r, c)' = PointsOf(r, c)]_vars
    BY DecidedStep
<1> QED
    BY <1>1, PointsInit, PointsInductive, PTL DEF Spec, AppealedPointsAreFrozen
=============================================================================
