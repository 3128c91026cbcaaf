------------------------------ MODULE Staffing ------------------------------
(***************************************************************************)
(* The officials of one tournament and the crews they form: the accounts    *)
(* an administrator keeps (tournament-officials), the judges a bracket      *)
(* round requires (bracket-round-staffing), and the assignments that        *)
(* supervisors take, change and give back (match-official-assignments).     *)
(*                                                                          *)
(* Every administrative command and every assignment command locks the     *)
(* tournament row first, so each is one step.  The match commands of        *)
(* MatchLifecycle lock only the match; they appear here by what they do to  *)
(* the lifecycle column and to the crew.                                    *)
(***************************************************************************)
EXTENDS Naturals, FiniteSets, Sequences

CONSTANTS
    Supervisors,    \* accounts with role SUPERVISOR
    Judges,         \* accounts with role JUDGE
    Matches,        \* matches the tournament may ever have
    Rounds,         \* rounds of its bracket
    RoundOf,        \* the bracket round of a match, NoRound for a manual one
    NoRound,
    MinimumJudges   \* minimumRequiredRefereeCount, also the default

ASSUME StaffingAssumption ==
    /\ IsFiniteSet(Judges) /\ Supervisors \cap Judges = {}
    /\ Rounds \subseteq Nat /\ NoRound \notin Rounds
    /\ RoundOf \in [Matches -> Rounds \cup {NoRound}]
    /\ MinimumJudges \in Nat \ {0} /\ MinimumJudges % 2 = 1

Officials == Supervisors \cup Judges
Counts == 0 .. Cardinality(Judges) + MinimumJudges
Lifecycles == {"ABSENT", "NOT_STARTED", "IN_PROGRESS", "SUSPENDED", "COMPLETED"}
Positions == 0 .. Cardinality(Judges)       \* 0 is the supervisor's seat
RowType == [match : Matches, official : Officials, position : Positions]

VARIABLES
    account,    \* official: "ABSENT", "ACTIVE" or "INACTIVE"
    open,       \* FALSE: the tournament is archived
    bracket,    \* "NONE" or "ACTIVE" (one weight class)
    staffing,   \* requiredJudgeCount of each bracket round
    lifecycle,  \* of each match, "ABSENT" before it is created
    required,   \* requiredJudgeCount copied into the match
    rows        \* unreleased rows of "match_official_assignments"

vars == <<account, open, bracket, staffing, lifecycle, required, rows>>

TypeOK ==
    /\ account \in [Officials -> {"ABSENT", "ACTIVE", "INACTIVE"}]
    /\ open \in BOOLEAN
    /\ bracket \in {"NONE", "ACTIVE"}
    /\ staffing \in [Rounds -> Counts]
    /\ lifecycle \in [Matches -> Lifecycles]
    /\ required \in [Matches -> Counts]
    /\ rows \subseteq RowType

Init ==
    /\ account = [o \in Officials |-> "ABSENT"]
    /\ open = TRUE
    /\ bracket = "NONE"
    /\ staffing = [r \in Rounds |-> 0]
    /\ lifecycle = [m \in Matches |-> "ABSENT"]
    /\ required = [m \in Matches |-> 0]
    /\ rows = {}

-----------------------------------------------------------------------------
Active(o) == account[o] = "ACTIVE"
ActiveJudges == {j \in Judges : Active(j)}
CrewOf(m) == {x \in rows : x.match = m}
SeatsOf(o) == {x \in rows : x.official = o}
Owns(s, m) == [match |-> m, official |-> s, position |-> 0] \in rows
Seat(m, team, p) == [match |-> m, official |-> team[p], position |-> p]
Seats(m, team) == {Seat(m, team, p) : p \in DOMAIN team}
Release(m) == rows \ CrewOf(m)

\* A team as the client submits it: distinct judges in the order of their seats.
Teams(n) == {t \in [1 .. n -> Judges] : \A p, q \in 1 .. n : t[p] = t[q] => p = q}

Fixtures == {m \in Matches : RoundOf[m] # NoRound}
FixturesOf(r) == {m \in Fixtures : RoundOf[m] = r}

\* The fixtures whose winners a fixture waits for, in a bracket with one
\* fixture per round.
Feeders(m) == {f \in Fixtures : m \in Fixtures /\ RoundOf[f] < RoundOf[m]}
Fed(m) == {f \in Fixtures : m \in Feeders(f)}

-----------------------------------------------------------------------------
(* Accounts: tournament-officials.service.ts.                               *)

CreateOfficial(o) ==
    /\ open /\ account[o] = "ABSENT"
    /\ account' = [account EXCEPT ![o] = "ACTIVE"]
    /\ UNCHANGED <<open, bracket, staffing, lifecycle, required, rows>>

\* The rounds whose requirement a deactivation has to respect: all those of an
\* active bracket with a fixture still to be completed.
Requirements ==
    IF bracket = "ACTIVE" /\ \E m \in Fixtures : lifecycle[m] # "COMPLETED"
    THEN {staffing[r] : r \in Rounds} ELSE {}

\* Mutant: the count is compared before the judge is taken out of it.
DeactivationOffByOne(o) ==
    /\ SeatsOf(o) = {}
    /\ o \in Judges => \A n \in Requirements : Cardinality(ActiveJudges) >= n

\* assertDeactivationAllowed
DeactivationAllowed(o) ==
    /\ SeatsOf(o) = {}
    /\ o \in Judges => \A n \in Requirements : Cardinality(ActiveJudges) - 1 >= n

UpdateOfficial(o) ==
    /\ open
    /\ \/ /\ Active(o) /\ DeactivationAllowed(o)
          /\ account' = [account EXCEPT ![o] = "INACTIVE"]
       \/ /\ account[o] = "INACTIVE"
          /\ account' = [account EXCEPT ![o] = "ACTIVE"]
    /\ UNCHANGED <<open, bracket, staffing, lifecycle, required, rows>>

-----------------------------------------------------------------------------
(* What the bracket asks for, and the matches it produces.                  *)

\* Confirmation gives every round the default of the ruleset; it does not ask
\* whether the tournament has that many judges.
ConfirmBracket ==
    /\ open /\ bracket = "NONE"
    /\ bracket' = "ACTIVE"
    /\ staffing' = [r \in Rounds |-> MinimumJudges]
    /\ UNCHANGED <<account, open, lifecycle, required, rows>>

\* A forced cancellation deletes the bracket's matches, and with them their
\* assignments; without force there must be no match.
CancelBracket(force) ==
    /\ bracket = "ACTIVE"
    /\ force \/ \A m \in Fixtures : lifecycle[m] = "ABSENT"
    /\ bracket' = "NONE"
    /\ staffing' = [r \in Rounds |-> 0]
    /\ lifecycle' = [m \in Matches |-> IF m \in Fixtures THEN "ABSENT" ELSE lifecycle[m]]
    /\ required' = [m \in Matches |-> IF m \in Fixtures THEN 0 ELSE required[m]]
    /\ rows' = {x \in rows : x.match \notin Fixtures}
    /\ UNCHANGED <<account, open>>

\* No fixture of the round has been prepared yet.
StaffingEditable(r) ==
    bracket = "ACTIVE" /\ \A m \in FixturesOf(r) : lifecycle[m] = "ABSENT"

UpdateRoundStaffing(r, n) ==
    /\ open /\ StaffingEditable(r)
    /\ n >= MinimumJudges /\ n % 2 = 1 /\ n <= Cardinality(ActiveJudges)
    /\ staffing' = [staffing EXCEPT ![r] = n]
    /\ UNCHANGED <<account, open, bracket, lifecycle, required, rows>>

\* createMatch: a match outside the bracket gets the default of the ruleset.
CreateMatch(m) ==
    /\ open /\ lifecycle[m] = "ABSENT" /\ m \notin Fixtures
    /\ lifecycle' = [lifecycle EXCEPT ![m] = "NOT_STARTED"]
    /\ required' = [required EXCEPT ![m] = MinimumJudges]
    /\ UNCHANGED <<account, open, bracket, staffing, rows>>

\* prepareBracketFixtureMatch copies the count of the round.
PrepareFixture(m) ==
    /\ open /\ lifecycle[m] = "ABSENT"
    /\ m \in Fixtures /\ bracket = "ACTIVE"
    /\ \A f \in Feeders(m) : lifecycle[f] = "COMPLETED"
    /\ lifecycle' = [lifecycle EXCEPT ![m] = "NOT_STARTED"]
    /\ required' = [required EXCEPT ![m] = staffing[RoundOf[m]]]
    /\ UNCHANGED <<account, open, bracket, staffing, rows>>

\* updateTournament may set any status, ARCHIVED and back.
ArchiveTournament ==
    /\ open' = ~open
    /\ UNCHANGED <<account, bracket, staffing, lifecycle, required, rows>>

-----------------------------------------------------------------------------
(* Crews: match-official-assignments.service.ts.                            *)

\* Mutant: a suspended match cannot be taken over.
ClaimableNotStarted(m) == open /\ lifecycle[m] = "NOT_STARTED"

\* claimableMatch
ClaimableMatch(m) == open /\ lifecycle[m] \in {"NOT_STARTED", "SUSPENDED"}

\* Mutant: changes are accepted while the match is running.
ActiveMatchAnyTime(m) == open /\ lifecycle[m] \in {"NOT_STARTED", "IN_PROGRESS"}

\* activeMatch: the match waits for its first start.
ActiveMatch(m) == open /\ lifecycle[m] = "NOT_STARTED"

\* The crew that take builds: a whole one or none.  A repeated request of the
\* owner for the very same team changes nothing.
TakeAllowed(s, m, team) ==
    /\ ClaimableMatch(m) /\ Active(s)
    /\ Len(team) = required[m]
    /\ CrewOf(m) = {} /\ SeatsOf(s) = {}
    /\ \A p \in DOMAIN team : Active(team[p]) /\ SeatsOf(team[p]) = {}

Take(s, m, team) ==
    /\ TakeAllowed(s, m, team)
    /\ rows' = rows \cup Seats(m, team)
                    \cup {[match |-> m, official |-> s, position |-> 0]}
    /\ lifecycle' = [lifecycle EXCEPT ![m] =
           IF @ = "SUSPENDED" THEN "IN_PROGRESS" ELSE @]
    /\ UNCHANGED <<account, open, bracket, staffing, required>>

ConfirmAllowed(s, m, team) ==
    /\ ActiveMatch(m) /\ Active(s) /\ Owns(s, m)
    /\ Len(team) = required[m]
    /\ \A p \in DOMAIN team :
           Active(team[p]) /\ SeatsOf(team[p]) \subseteq CrewOf(m)

\* The owner submits a team for a match that has not started: seats that keep
\* official and position survive, the others are released and created anew.
ConfirmTeam(s, m, team) ==
    /\ ConfirmAllowed(s, m, team)
    /\ LET before == {x \in CrewOf(m) : x.position # 0}
           retained == before \cap Seats(m, team)
       IN rows' = (rows \ (before \ retained)) \cup (Seats(m, team) \ retained)
    /\ UNCHANGED <<account, open, bracket, staffing, lifecycle, required>>

\* One UPDATE releases all the rows.  The trigger refuses a judge's row once
\* the supervisor's is released, so the transaction commits only if the UPDATE
\* reaches the supervisor's row last; otherwise it aborts without effect.
ReleaseMatch(s, m) ==
    /\ ActiveMatch(m) /\ Active(s) /\ Owns(s, m)
    /\ rows' = Release(m)
    /\ UNCHANGED <<account, open, bracket, staffing, lifecycle, required>>

\* The list a supervisor picks a match from, and the READY judges of the team
\* dialog.
Claimable(s, m) ==
    /\ open /\ lifecycle[m] \in {"NOT_STARTED", "SUSPENDED"}
    /\ (\A x \in CrewOf(m) : x.position # 0) \/ \E x \in CrewOf(m) : x.official = s
Ready(o) == Active(o) /\ SeatsOf(o) = {}

-----------------------------------------------------------------------------
(* What the commands of a running match do to its crew.                     *)

StartMatch(m) ==
    /\ lifecycle[m] = "NOT_STARTED" /\ \E s \in Supervisors : Owns(s, m)
    /\ lifecycle' = [lifecycle EXCEPT ![m] = "IN_PROGRESS"]
    /\ UNCHANGED <<account, open, bracket, staffing, required, rows>>

\* Exit, completion and publication release the crew, judges first.
LeaveMatch(m, next) ==
    /\ lifecycle[m] = "IN_PROGRESS" /\ \E s \in Supervisors : Owns(s, m)
    /\ lifecycle' = [lifecycle EXCEPT ![m] = next]
    /\ rows' = Release(m)
    /\ UNCHANGED <<account, open, bracket, staffing, required>>

\* A reset releases the crew of a finished match only.
ResetRows(m) == IF lifecycle[m] = "COMPLETED" THEN Release(m) ELSE rows

\* The result of a bracket match is locked once the next match is prepared.
ResetMatch(m) ==
    /\ lifecycle[m] \in {"IN_PROGRESS", "COMPLETED"}
    /\ lifecycle[m] = "COMPLETED" => \A f \in Fed(m) : lifecycle[f] = "ABSENT"
    /\ lifecycle' = [lifecycle EXCEPT ![m] = "NOT_STARTED"]
    /\ rows' = ResetRows(m)
    /\ UNCHANGED <<account, open, bracket, staffing, required>>

-----------------------------------------------------------------------------
AdminNext ==
    \/ \E o \in Officials : CreateOfficial(o) \/ UpdateOfficial(o)
    \/ ConfirmBracket
    \/ \E force \in BOOLEAN : CancelBracket(force)
    \/ \E r \in Rounds, n \in Counts : UpdateRoundStaffing(r, n)
    \/ \E m \in Matches : CreateMatch(m) \/ PrepareFixture(m)
    \/ ArchiveTournament

CrewNext ==
    \E s \in Supervisors, m \in Matches :
        \/ \E team \in Teams(required[m]) : Take(s, m, team) \/ ConfirmTeam(s, m, team)
        \/ ReleaseMatch(s, m)

MatchNext ==
    \E m \in Matches :
        \/ StartMatch(m)
        \/ \E next \in {"NOT_STARTED", "SUSPENDED", "COMPLETED"} : LeaveMatch(m, next)
        \/ ResetMatch(m)

Next == AdminNext \/ CrewNext \/ MatchNext

Spec == Init /\ [][Next]_vars

-----------------------------------------------------------------------------
\* No half crews: whoever sits on a match, its crew is one supervisor and one
\* judge in each of the seats 1..requiredJudgeCount, all of them active and on
\* no other match, whatever takes, replacements, deactivations, staffing
\* changes and cancellations were mixed.
CrewsAreWhole ==
    /\ \A x, y \in rows : x.official = y.official => x = y
    /\ \A x \in rows : Active(x.official)
    /\ \A m \in Matches : CrewOf(m) # {} =>
           /\ {x.position : x \in CrewOf(m)} = 0 .. required[m]
           /\ Cardinality(CrewOf(m)) = required[m] + 1
           /\ \A x \in CrewOf(m) : x.official \in Supervisors <=> x.position = 0

\* A match in progress has a crew: suspending gives the crew back, taking a
\* suspended match resumes it, and nothing else separates the two.
ProgressHasCrew == \A m \in Matches : lifecycle[m] = "IN_PROGRESS" => CrewOf(m) # {}

\* Crews are whole and stay with their matches.
CrewsAreKept == CrewsAreWhole /\ ProgressHasCrew

\* Every open fixture, and every prepared match of one, needs at most as many
\* judges as are active.
Staffable ==
    bracket = "ACTIVE" => \A m \in Fixtures : lifecycle[m] # "COMPLETED" =>
        /\ staffing[RoundOf[m]] <= Cardinality(ActiveJudges)
        /\ required[m] <= Cardinality(ActiveJudges)

\* Once the open part of a bracket can be staffed, no staffing change and no
\* deactivation makes it impossible again; only a new bracket may.
BracketStaysStaffable ==
    [][Staffable /\ bracket = "ACTIVE" /\ bracket' = "ACTIVE"
         /\ (\E m \in Fixtures : lifecycle[m] # "COMPLETED") => Staffable']_vars

\* What the supervisor is offered is what the command accepts: with a match
\* from the claimable list and any full team of READY judges a free supervisor
\* succeeds.
OfferedMatchIsTakeable ==
    \A s \in Supervisors, m \in Matches :
        Claimable(s, m) /\ Ready(s) =>
            \A team \in Teams(required[m]) :
                (\A p \in DOMAIN team : Ready(team[p])) => TakeAllowed(s, m, team)
=============================================================================
