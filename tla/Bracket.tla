------------------------------- MODULE Bracket -------------------------------
(***************************************************************************)
(* One weight class of a tournament, from its roster to its champion: the   *)
(* athletes an administrator enters, moves and imports, the setup and the   *)
(* preview of a draw, the confirmed single-elimination bracket, the matches  *)
(* its fixtures produce and the winners that advance through it.            *)
(*                                                                          *)
(* Setup and preview read without a lock and hand the client signed tokens;  *)
(* every command that writes holds the tournament row, or the fixture and    *)
(* the one it feeds, and is one step.  An identical retry with the same      *)
(* idempotency key replays the stored answer: it changes nothing.            *)
(***************************************************************************)
EXTENDS Naturals, FiniteSets, FiniteSetsExt, Functions

CONSTANTS
    Athletes,       \* athletes that may ever be entered in the class
    Nobody,         \* a null entrant: a bye, an unresolved slot, no winner
    MaxSize,        \* MAX_BRACKET_ATHLETES, a power of two
    MaxEdits        \* bound on roster edits (the fingerprints that occur)

\* nextPowerOfTwo starts with 1 and doubles.
Power[k \in Nat] == IF k = 0 THEN 1 ELSE 2 * Power[k - 1]

ASSUME BracketAssumption ==
    /\ IsFiniteSet(Athletes)
    /\ MaxSize \in Nat /\ \E k \in 1 .. MaxSize : MaxSize = Power[k]
    /\ MaxEdits \in Nat

\* Fixtures are named by round and position; an athlete, or nobody, is no fixture.
ASSUME NamesAssumption ==
    /\ Nobody \notin Athletes /\ Nobody \notin Nat \X Nat
    /\ Athletes \cap (Nat \X Nat) = {}

Colours == {"RED", "BLUE"}
Strategies == {"RANDOM", "MANUAL", "SEEDED"}
Results == Colours \cup {"TIE"}

VARIABLES
    open,       \* the tournament is not archived
    offered,    \* the weight class is active
    roster,     \* the active athletes of the class
    seeds,      \* those of them with isSeed
    edits,      \* stands for the updatedAt values of athletes and organisations
    setup,      \* a client holds a setup token with the present fingerprint
    previews,   \* the preview token a client holds: one, the last one issued
    bracket,    \* the newest row of "tournament_brackets"
    fixture     \* its fixtures with their slots, their match and its athletes

vars == <<open, offered, roster, seeds, edits, setup, previews, bracket, fixture>>
rosterVars == <<offered, roster, seeds, edits>>

Init ==
    /\ open = TRUE /\ offered = TRUE
    /\ roster = {} /\ seeds = {} /\ edits = 0
    /\ setup = FALSE /\ previews = {}
    /\ bracket = [status |-> "NONE", cancelled |-> FALSE, rounds |-> 0, champion |-> Nobody]
    /\ fixture = <<>>

-----------------------------------------------------------------------------
(* The shape of a draw: bracket-summary.ts and the generator.               *)

Powers == {Power[k] : k \in 1 .. MaxSize} \cap 2 .. MaxSize
BracketSize(n) == CHOOSE s \in Powers : s >= n /\ \A t \in Powers : t >= n => s <= t
ByeCount(n) == BracketSize(n) - n
RoundCount(size) == CHOOSE k \in 1 .. MaxSize : Power[k] = size

\* chooseByePairPositions, createInitialEntrants: the athletes in any order over
\* the positions that are left when byeCount pairs lose their even one.
Placements(athletes, byes) ==
    LET size == Cardinality(athletes) + byes
        taken(pairs) == (1 .. size) \ {2 * i : i \in pairs}
        draw(pairs, order) ==
            [p \in 1 .. size |-> IF p \in taken(pairs) THEN order[p] ELSE Nobody]
    IN UNION {{draw(pairs, order) : order \in Bijection(taken(pairs), athletes)} :
                 pairs \in kSubset(byes, 1 .. size \div 2)}

HasBye(draw, a) == \E p \in DOMAIN draw : p % 2 = 1 /\ draw[p] = a /\ draw[p + 1] = Nobody

\* generateSingleEliminationBracket: designated athletes are among the
\* recipients of a bye, everything else is shuffled.
Draws(athletes, designated) ==
    {d \in Placements(athletes, ByeCount(Cardinality(athletes))) :
        \A a \in designated : HasBye(d, a)}

\* The positions of the next round: one per pair of those below.
Halved(below) == {i \in DOMAIN below : 2 * i \in DOMAIN below}

\* Mutant: the recipient of a bye is not carried into the next round.
RoundLosingByes(below, r) ==
    [i \in Halved(below) |->
        IF Nobody \in {below[2 * i - 1], below[2 * i]} THEN Nobody ELSE <<r, i>>]

\* One round of the loop.  A pair with one bye produces no fixture; its athlete
\* goes on to the next round.  A fixture keeps its position in the full tree.
Round(below, r) ==
    [i \in Halved(below) |->
        IF below[2 * i - 1] = Nobody THEN below[2 * i]
        ELSE IF below[2 * i] = Nobody THEN below[2 * i - 1]
        ELSE <<r, i>>]

\* Who comes out of position i after r rounds: an athlete, a fixture, or nobody.
Advancement(draw, rounds) ==
    LET adv[r \in 0 .. rounds] == IF r = 0 THEN draw ELSE Round(adv[r - 1], r)
    IN adv

\* createFixture: RED is fed from the odd, BLUE from the even position below.
Sources(adv, f) ==
    [c \in Colours |-> adv[f[1] - 1][IF c = "RED" THEN 2 * f[2] - 1 ELSE 2 * f[2]]]

\* The pairs that met, in the tree of advancements.
Pairs(adv) ==
    {f \in (DOMAIN adv \ {0}) \X DOMAIN adv[0] :
        f[2] \in DOMAIN adv[f[1]] /\ adv[f[1]][f[2]] = f}

\* buildSingleEliminationBracket: the fixtures and where their slots come from.
Graph(draw) ==
    LET adv == Advancement(draw, RoundCount(Cardinality(DOMAIN draw)))
    IN [f \in Pairs(adv) |-> Sources(adv, f)]

-----------------------------------------------------------------------------
(* The roster: athlete.service.ts, athlete-import.service.ts and             *)
(* tournament-roster.service.ts.                                            *)

Current == bracket.status \in {"ACTIVE", "COMPLETED"}
Entrants == {a \in Athletes : \E f \in DOMAIN fixture, c \in Colours : fixture[f].src[c] = a}

\* Every edit changes the fingerprint for good: no older setup token matches again.
Edited(newRoster, newSeeds) ==
    /\ edits < MaxEdits /\ edits' = edits + 1
    /\ roster' = newRoster /\ seeds' = newSeeds \cap newRoster
    /\ setup' = FALSE
    /\ UNCHANGED <<open, offered, previews, bracket, fixture>>

\* assignments(lockBracket): the class takes athletes only without a bracket.
ClassTakesAthletes == open /\ offered /\ ~Current

\* An athlete is created in the class, restored, or moved into it.
EnterAthlete(a, seed) ==
    /\ ClassTakesAthletes /\ a \notin roster
    /\ Edited(roster \cup {a}, IF seed THEN seeds \cup {a} ELSE seeds)

\* validate: a row is eligible unless its athlete is registered already.
Eligible(rows) == rows \ roster

\* One import confirmation creates every row that is eligible; a row that fails
\* rolls back to its savepoint, as if it had not been in the file.
ImportAthletes(rows) ==
    /\ ClassTakesAthletes /\ Eligible(rows) # {}
    /\ Edited(roster \cup Eligible(rows), seeds)

\* An athlete is deactivated or moved to another class.
WithdrawAthlete(a) ==
    /\ open /\ a \in roster
    /\ ~(Current /\ a \in Entrants)
    /\ Edited(roster \ {a}, seeds)

\* Profile, seed or organisation of an athlete change, also while a bracket is
\* current.
EditAthlete(a, seed) ==
    /\ open /\ a \in roster
    /\ Edited(roster, IF seed THEN seeds \cup {a} ELSE seeds \ {a})

\* An organisation with athletes in the class is renamed, deactivated (they stay,
\* without one) or restored: its updatedAt is part of the fingerprint.
EditOrganization ==
    /\ open /\ roster # {}
    /\ Edited(roster, seeds)

\* Fixtures with a match.
Prepared == {f \in DOMAIN fixture : fixture[f].match.state # "NONE"}

\* A class in use stays active.
UpdateWeightClass ==
    /\ open
    /\ offered => roster = {} /\ Prepared = {} /\ ~Current
    /\ offered' = ~offered
    /\ UNCHANGED <<open, roster, seeds, edits, setup, previews, bracket, fixture>>

ArchiveTournament ==
    /\ open' = ~open
    /\ UNCHANGED <<rosterVars, setup, previews, bracket, fixture>>

-----------------------------------------------------------------------------
(* Drawing: bracket-draw-setup, bracket-preview and their tokens.           *)

\* rosterFingerprint; an athlete without an organisation or in an active one is
\* eligible, and no active athlete is in an inactive one.
Fingerprint == [athletes |-> roster, seeds |-> seeds, updatedAt |-> edits]

\* assertValidAthletes
ValidAthletes(athletes) == Cardinality(athletes) \in 2 .. MaxSize

Drawable == open /\ offered /\ ~Current /\ ValidAthletes(roster)

DrawSetup ==
    /\ Drawable
    /\ setup' = TRUE
    /\ UNCHANGED <<open, rosterVars, previews, bracket, fixture>>

\* assertStrategySelection
StrategyAccepts(strategy, designated, byes) ==
    CASE strategy = "RANDOM" -> designated = {}
      [] strategy = "MANUAL" -> TRUE
      [] strategy = "SEEDED" ->
            /\ Cardinality(designated) = byes
            /\ IF Cardinality(seeds) >= byes THEN designated \subseteq seeds
                                             ELSE seeds \subseteq designated

Token(draw, designated, strategy, fingerprint) ==
    [draw |-> draw, byes |-> designated, strategy |-> strategy, fingerprint |-> fingerprint]

Preview(designated, strategy) ==
    /\ Drawable /\ setup
    /\ designated \subseteq roster
    /\ Cardinality(designated) <= ByeCount(Cardinality(roster))
    /\ StrategyAccepts(strategy, designated, ByeCount(Cardinality(roster)))
    /\ \E draw \in Draws(roster, designated) :
           previews' = {Token(draw, designated, strategy, Fingerprint)}
    /\ UNCHANGED <<open, rosterVars, setup, bracket, fixture>>

Swapped(draw, a, b) ==
    [p \in DOMAIN draw |-> IF draw[p] = a THEN b ELSE IF draw[p] = b THEN a ELSE draw[p]]

\* A swap signs a new token.  Neither the archive flag nor the class is looked
\* at: only the roster and the absence of a bracket.
SwapPreview(t, a, b) ==
    /\ ~Current /\ t.fingerprint = Fingerprint
    /\ a # b /\ {a, b} \subseteq roster
    /\ previews' = {[t EXCEPT !.draw = Swapped(t.draw, a, b)]}
    /\ UNCHANGED <<open, rosterVars, setup, bracket, fixture>>

\* Tokens live five minutes.
TokenExpires ==
    /\ \/ setup /\ setup' = FALSE /\ UNCHANGED previews
       \/ previews # {} /\ previews' = {} /\ UNCHANGED setup
    /\ UNCHANGED <<open, rosterVars, bracket, fixture>>

-----------------------------------------------------------------------------
(* Confirmation and cancellation.                                           *)

Filled(slot) == \A c \in Colours : slot[c] # Nobody
NoMatch == [state |-> "NONE", athlete |-> [c \in Colours |-> Nobody],
            codes |-> FALSE, totals |-> "TIE"]

NewFixture(src) ==
    LET slot == [c \in Colours |-> IF src[c] \in Athletes THEN src[c] ELSE Nobody]
    IN [src |-> src, slot |-> slot, winner |-> Nobody, by |-> "NOBODY", match |-> NoMatch,
        status |-> IF Filled(slot) THEN "READY" ELSE "PENDING_PARTICIPANTS"]

\* Mutant: the eligible roster is not compared with the previewed one.
ConfirmableOnceDrawn(t) == open /\ offered /\ ~Current

\* graph and the checks of buildSingleEliminationBracket: the positions of the
\* smallest bracket, each eligible athlete in exactly one, and no double bye.
ValidPlacements(draw) ==
    /\ ValidAthletes(roster)
    /\ \E size \in Powers : DOMAIN draw = 1 .. size /\ size = BracketSize(Cardinality(roster))
    /\ \A a \in roster : Cardinality({p \in DOMAIN draw : draw[p] = a}) = 1
    /\ \A p \in DOMAIN draw : draw[p] \in roster \cup {Nobody}
    /\ \A i \in Halved(draw) : draw[2 * i - 1] # Nobody \/ draw[2 * i] # Nobody

\* Under the locks of the tournament and the class.
Confirmable(t) ==
    /\ open /\ offered /\ ~Current
    /\ t.fingerprint = Fingerprint
    /\ ValidPlacements(t.draw)
    /\ StrategyAccepts(t.strategy, t.byes, Cardinality(DOMAIN t.draw) - Cardinality(roster))

ConfirmBracket(t) ==
    /\ Confirmable(t)
    /\ bracket' = [status |-> "ACTIVE", cancelled |-> FALSE, champion |-> Nobody,
                   rounds |-> RoundCount(Cardinality(DOMAIN t.draw))]
    /\ fixture' = LET g == Graph(t.draw) IN [f \in DOMAIN g |-> NewFixture(g[f])]
    /\ UNCHANGED <<open, rosterVars, setup, previews>>

\* A cancelled bracket keeps its fixtures; a forced cancellation deletes the
\* bracket and its matches.
CancelBracket(force) ==
    /\ Current
    /\ \/ /\ force
          /\ bracket' = [status |-> "NONE", cancelled |-> FALSE, rounds |-> 0, champion |-> Nobody]
          /\ fixture' = <<>>
       \/ /\ ~force /\ Prepared = {}
          /\ bracket' = [bracket EXCEPT !.status = "CANCELLED", !.cancelled = TRUE]
          /\ UNCHANGED fixture
    /\ UNCHANGED <<open, rosterVars, setup, previews>>

-----------------------------------------------------------------------------
(* Matches and outcomes: bracket-outcome.service.ts and its callers.        *)

Final == {f \in DOMAIN fixture : f[1] = bracket.rounds}
Fed(f) == {g \in DOMAIN fixture : \E c \in Colours : fixture[g].src[c] = f}

\* A match of an earlier release comes with access codes of its own: its
\* supervisor's session outlives the result and may still reset it.
PrepareMatch(f, codes) ==
    /\ open /\ bracket.status = "ACTIVE"
    /\ fixture[f].status = "READY" /\ f \notin Prepared /\ Filled(fixture[f].slot)
    /\ fixture' = [fixture EXCEPT
           ![f].match = [state |-> "OPEN", athlete |-> fixture[f].slot,
                         codes |-> codes, totals |-> "TIE"],
           ![f].status = "MATCH_PREPARED"]
    /\ UNCHANGED <<open, rosterVars, setup, previews, bracket>>

\* decide: the winner is written, goes into the slots fed by the fixture, and
\* a fixture whose slots are both filled becomes READY.
Advance(fx, f, w, by) ==
    [g \in DOMAIN fx |->
        IF g = f THEN [fx[f] EXCEPT !.winner = w, !.by = by, !.status = "COMPLETED"]
        ELSE LET slot == [c \in Colours |-> IF fx[g].src[c] = f THEN w ELSE fx[g].slot[c]]
             IN [fx[g] EXCEPT
                    !.slot = slot,
                    !.status = IF /\ g \in Fed(f) /\ Filled(slot)
                                  /\ @ = "PENDING_PARTICIPANTS" THEN "READY" ELSE @]]

\* A downstream slot that already holds somebody else refuses the decision.
SlotsAccept(f, w) ==
    \A g \in Fed(f), c \in Colours : fixture[g].src[c] = f => fixture[g].slot[c] \in {w, Nobody}

\* The bracket is completed by its final, whatever its status was; another
\* current bracket of the class would stop it, and there is none.
Crown(f, w) ==
    bracket' = IF f \in Final THEN [bracket EXCEPT !.status = "COMPLETED", !.champion = w]
                              ELSE bracket

\* Mutant: only a tie counts as an outcome that a reset has to take back.
HasTiedOutcome(f) == fixture[f].status = "AWAITING_WINNER"

HasOutcome(f) == fixture[f].winner # Nobody \/ fixture[f].status = "AWAITING_WINNER"

\* processFinishedMatch, after the caller has written the match row.
ProcessFinished(fx, f, result) ==
    \/ HasOutcome(f) /\ fixture' = fx /\ UNCHANGED bracket
    \/ /\ ~HasOutcome(f) /\ result = "TIE"
       /\ fixture' = [fx EXCEPT ![f].status = "AWAITING_WINNER"]
       /\ UNCHANGED bracket
    \/ /\ ~HasOutcome(f) /\ result \in Colours
       /\ LET w == fx[f].match.athlete[result]
          IN /\ \E c \in Colours : fx[f].slot[c] = w
             /\ SlotsAccept(f, w)
             /\ fixture' = Advance(fx, f, w, "RULES")
             /\ Crown(f, w)

Finished(f, totals) ==
    [fixture EXCEPT ![f].match.state = "FINISHED", ![f].match.totals = totals]

\* result:publish names the winner, perhaps over tied totals; match:complete of
\* a match with access codes leaves him to the totals.
FinishMatch(f, result, totals) ==
    /\ fixture[f].match.state \in {"OPEN", "RESET"}
    /\ totals \in {result, "TIE"}
    /\ fixture[f].match.codes \/ (result \in Colours /\ totals = result)
    /\ ProcessFinished(Finished(f, totals), f, result)
    /\ UNCHANGED <<open, rosterVars, setup, previews>>

\* Mutant: the preparation of the next match no longer locks the result.
RetractableAlways(f) == TRUE

\* retractFinishedMatch stops at a prepared next match.
Retractable(f) == HasOutcome(f) => Fed(f) \cap Prepared = {}

\* Mutant: the winner is taken back, the slot he was put in keeps him.
RetractedHere(fx, f) ==
    [fx EXCEPT ![f].winner = Nobody, ![f].by = "NOBODY", ![f].status = "MATCH_PREPARED"]

Retracted(fx, f) ==
    [g \in DOMAIN fx |->
        IF g = f THEN [fx[f] EXCEPT !.winner = Nobody, !.by = "NOBODY", !.status = "MATCH_PREPARED"]
        ELSE LET slot == [c \in Colours |-> IF fx[g].src[c] = f THEN Nobody ELSE fx[g].slot[c]]
             IN [fx[g] EXCEPT !.slot = slot,
                              !.status = IF g \in Fed(f) THEN "PENDING_PARTICIPANTS" ELSE @]]

\* match:reset or round:cancel of a finished match.
CancelResult(f) ==
    LET reopened == [fixture EXCEPT ![f].match.state = "RESET"]
    IN /\ fixture[f].match.state = "FINISHED" /\ fixture[f].match.codes
       /\ Retractable(f)
       /\ fixture' = IF HasOutcome(f) THEN Retracted(reopened, f) ELSE reopened
       /\ bracket' = IF HasOutcome(f) /\ f \in Final
                     THEN [bracket EXCEPT !.status = "ACTIVE", !.champion = Nobody] ELSE bracket
       /\ UNCHANGED <<open, rosterVars, setup, previews>>

\* The undo of such a reset: the restored result goes by its totals, not by the
\* winner that was published.
UndoCancellation(f) ==
    LET totals == fixture[f].match.totals
    IN /\ fixture[f].match.state = "RESET"
       /\ ProcessFinished(Finished(f, totals), f, totals)
       /\ UNCHANGED <<open, rosterVars, setup, previews>>

\* manuallyDecide: a tie of the rules, or a fixture nobody has to fight for.  The
\* status of the bracket is not among the conditions.
Decidable(f, type) ==
    \/ /\ type = "ADMIN_TIEBREAK" /\ fixture[f].match.state = "FINISHED"
       /\ fixture[f].status = "AWAITING_WINNER"
    \/ /\ type = "WITHDRAWAL_OR_INJURY" /\ f \notin Prepared
       /\ fixture[f].status = "READY"

ManuallyDecide(f, w, type) ==
    /\ Decidable(f, type)
    /\ \E c \in Colours : fixture[f].slot[c] = w
    /\ Filled(fixture[f].slot)
    /\ \/ fixture[f].winner = w /\ UNCHANGED <<bracket, fixture>>
       \/ /\ fixture[f].winner = Nobody /\ SlotsAccept(f, w)
          /\ fixture' = Advance(fixture, f, w, type)
          /\ Crown(f, w)
    /\ UNCHANGED <<open, rosterVars, setup, previews>>

-----------------------------------------------------------------------------
RosterNext ==
    \/ \E a \in Athletes, seed \in BOOLEAN : EnterAthlete(a, seed) \/ EditAthlete(a, seed)
    \/ \E rows \in SUBSET Athletes : ImportAthletes(rows)
    \/ \E a \in Athletes : WithdrawAthlete(a)
    \/ EditOrganization
    \/ UpdateWeightClass
    \/ ArchiveTournament

DrawNext ==
    \/ DrawSetup
    \/ \E d \in SUBSET roster, s \in Strategies : Preview(d, s)
    \/ \E t \in previews, a, b \in roster : SwapPreview(t, a, b)
    \/ TokenExpires

BracketNext ==
    \/ \E t \in previews : ConfirmBracket(t)
    \/ \E force \in BOOLEAN : CancelBracket(force)
    \/ \E f \in DOMAIN fixture :
          \/ \E codes \in BOOLEAN : PrepareMatch(f, codes)
          \/ \E result, totals \in Results : FinishMatch(f, result, totals)
          \/ CancelResult(f) \/ UndoCancellation(f)
          \/ \E w \in Athletes, type \in {"ADMIN_TIEBREAK", "WITHDRAWAL_OR_INJURY"} :
                ManuallyDecide(f, w, type)

Next == RosterNext \/ DrawNext \/ BracketNext

Spec == Init /\ [][Next]_vars

-----------------------------------------------------------------------------
\* A bracket is drawn over the roster that is eligible when it is confirmed, and
\* the roster stays so while the bracket is current, however tokens, edits,
\* imports and cancellations were mixed.
EntrantsAreTheRoster == Current /\ ~bracket.cancelled => Entrants = roster /\ offered

\* The slots that x feeds, an athlete or a fixture.
SlotsFrom(x) == {s \in (DOMAIN fixture) \X Colours : fixture[s[1]].src[s[2]] = x}

\* The confirmed graph is a single elimination: every entrant starts in exactly
\* one slot, every fixture but the final feeds exactly one slot of a later round,
\* and there is one fixture fewer than entrants.
GraphIsSound ==
    bracket.status # "NONE" =>
        /\ Cardinality(DOMAIN fixture) + 1 = Cardinality(Entrants)
        /\ \A a \in Entrants : Cardinality(SlotsFrom(a)) = 1
        /\ Cardinality(Final) = 1
        /\ \A f \in (DOMAIN fixture) \ Final : Cardinality(SlotsFrom(f)) = 1
        /\ \A f \in DOMAIN fixture : \A g \in Fed(f) : f[1] < g[1]

\* What a slot shows is what its source decided, through decisions, retractions
\* and repeated decisions; the champion is the winner of the final.
SlotsFollowWinners ==
    /\ \A f \in DOMAIN fixture : \A g \in Fed(f), c \in Colours :
           fixture[g].src[c] = f => fixture[g].slot[c] = fixture[f].winner
    /\ \A f \in Final :
           /\ bracket.champion = fixture[f].winner
           /\ Current => (bracket.status = "COMPLETED" <=> bracket.champion # Nobody)

\* A match is fought by the two athletes of its fixture, from its preparation to
\* the end of the bracket: no retraction takes an athlete out of a prepared match.
MatchesAreFrozen == \A f \in Prepared : fixture[f].match.athlete = fixture[f].slot

\* A winner by the rules or by an administrator's tie-break fought the fixture he
\* won, and its match is over.
WinnersFought ==
    \A f \in DOMAIN fixture : fixture[f].by \in {"RULES", "ADMIN_TIEBREAK"} =>
        /\ \E c \in Colours : fixture[f].slot[c] = fixture[f].winner
        /\ fixture[f].match.state = "FINISHED"

\* A cancelled bracket stays closed: bracket-cancellation.service.ts:15 says that
\* a standard cancellation preserves history.
CancelledStaysClosed == bracket.cancelled => bracket.status = "CANCELLED"

=============================================================================
