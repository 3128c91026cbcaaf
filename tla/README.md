# Verification of the dau-vo match platform

dau-vo runs martial-arts tournaments: an API (NestJS, Prisma, PostgreSQL, Redis)
with a realtime gateway, and a web client for supervisors, judges, scoreboards
and administrators. This directory models the platform in TLA+, checks the
models with TLC and proves theorems about them with TLAPS.

## 1. The system

| Component | State it keeps | Operations | Interacts with |
|---|---|---|---|
| Match lifecycle (`realtime/match-lifecycle.service.ts`) | `matches` row, `rounds`, `match_result_operations` | start, pause, resume, exit (4 modes), cancel a round, reset the match, undo | every command locks the match row; arms timers; releases crews |
| Expiration timers and recovery (same file, `realtime.gateway.ts`) | one in-memory timer per match and process | fire, handle, retry, recover at startup | ends rounds in the database |
| Appeals and overtime (`regulation-appeal`, `overtime`) | `match_appeals`, `match_result_decisions` | complete an appeal, replay it, restart overtime, name a winner | read rounds and summaries, move the phase |
| Result publication (`result-publication`) | `match_outcomes`, publications | publish | finishes the match, releases the crew, feeds the bracket |
| Live scoring (`scoring`) | scoring windows, judge votes, score events | vote, resolve a window, recover | windows block appeals and exits, events feed summaries |
| Official assignments, tournament officials, round staffing | officials, assignments, required judge counts | create, deactivate, staff, take, confirm, release | authorise every command |
| Sessions (`match-access`, `official-access`) | credentials, sessions, takeover tokens | sign in, take over, log out, regenerate, deactivate | authorise sockets and commands |
| Gateway and session registry | sockets, rooms, presence keys and counters in Redis | connect, revalidate, register, revoke, enter, heartbeat, broadcast | sessions, snapshots, readiness of a round |
| Brackets and roster (`brackets`, `tournament-roster`) | athletes, brackets, fixtures, slots | enter, import, preview, confirm, prepare, decide, retract, cancel | creates matches, consumes outcomes |
| Administration (`super-admin`, `subscriptions`, `tournament-lifecycle`, `sport-catalog`, `admin-management`) | users, entitlements, orders, tournaments, sports | register, grant, pay, expire, hide, purge, restore | guards of everything an organizer does |
| Media (`media`, `storage`) | objects, deletion outbox, driver in use | save, replace, enqueue, lease, delete; `media:migrate` | rows and bracket snapshots that refer to images |
| Snapshots (`realtime-match-state.service.ts`) | none | compute what a console may do | rounds, appeals, readiness |
| Web client (`apps/web/src/features/match-access`, `official-access`) | the assignment, the match state and flags of the page | apply snapshots and events, send commands, reconcile | gateway and HTTP API |

**What is hard.** Several API processes share the database and keep timers and
sockets of their own; a timer's handler waits for a row lock while anything may
commit; crashes lose timers and leave counters behind; results are cancelled,
undone and replayed, so that rounds, appeals and summaries of different attempts
coexist; a login, a preview or a request is checked before the transaction that
uses it; a revocation is announced after its commit; browsers learn of one fact
through several channels without a version; deletions run under leases in two
steps. `PROJECT.json` lists each hazard at its line.

**What makes it correct.** Phase, lifecycle and rounds of a match agree and a
published winner rests on effective rounds and is final; a window awards one
point at most, by a majority; only a whole crew drives a match; a credential has
one session and a replaced one commands nothing; slots of a bracket follow the
winners that stand; a browser receives the newest state of its match; nobody
loses an image in use, a tournament that is paid for, or the last administrator.

## 2. Modules

| Module | Content |
|---|---|
| `MatchLifecycle` | the match, its rounds, operations, appeals, decisions, outcome, and the API processes |
| `MatchContract` | what a match promises: four lifecycle values, a crew, a final result |
| `MatchState` | what a snapshot offers a supervisor, over the variables of `MatchLifecycle` |
| `Scoring` | votes, windows, points, summaries, the appeal that reads them, resolution timers |
| `Bracket` | one weight class: roster, draw, fixtures, outcomes, cancellation |
| `Staffing` | officials of a tournament, staffing of bracket rounds, crews seat by seat |
| `SessionContract` | what a session promises: one per credential, replaced in one step, never revived |
| `Access` | the sessions of officials and match codes, which implement `SessionContract` |
| `Connections` | sockets over `SessionContract`: authentication, revocation, authority of commands |
| `Presence` | counters and presence keys in Redis, readiness of a match |
| `SupervisorConsole` | a supervisor's commands from the button to the snapshot |
| `AssignmentFeed` | how a browser learns which assignment its official has |
| `MatchFeed` | how a browser follows a match, and a judge's vote |
| `Administration` | users, entitlements, orders, sports, retention of tournaments |
| `Media` | images, and the outbox that deletes them under leases |
| `StorageMigration` | the cutover of images between the local volume and S3 |
| `MC...` | instances for TLC: model values, symmetry, side-by-side composition |
| `MatchLifecycleProofs` | types, legal rows and crews of a match, rounds that back its phase; `MatchLifecycle` implements `MatchContract` |
| `MatchResultProofs` | what an undo brings back, what a published winner rests on, pauses that keep their time |
| `ScoringProofs` | windows award once, by a majority, for good; points and summaries agree |
| `BracketProofs` | the generator draws a single elimination; slots follow winners |
| `AccessProofs` | current sessions, takeovers; `Access` implements `SessionContract` |
| `ConnectionsProofs` | revocations, order of commands, broadcasts (`Connections`, `SupervisorConsole`) |
| `AdministrationProofs` | accounts, sports, retention, images, crews (`Administration`, `StorageMigration`, `Media`, `Staffing`) |
| `RealtimeProofs` | counters, and what reaches consoles (`Presence`, `MatchFeed`, `AssignmentFeed`) |

Composition. `Connections` extends `SessionContract`, so that sockets are checked
against what `Access` is shown to implement rather than against its rows;
`MatchState` extends `MatchLifecycle`, so that offers and commands are compared
in the same state; `MatchLifecycle` implements `MatchContract`. `Staffing` and
`Bracket` contain of a match only what its contract lets them see. Components
that share no variable (`Presence` and `Media`; `Connections` and
`SupervisorConsole`; `AssignmentFeed` and `MatchFeed`; `Administration`,
`Staffing` and `StorageMigration`) are run side by side: an MC module adds a
variable `part`, chosen in the initial state, and only that part moves. Since
they have no variable and no action in common, a property of one holds of all
of them together when it holds of that one alone, and nothing is gained from
their product.

### MatchLifecycle and the code

| Variable | Code |
|---|---|
| `match` | `matches`: status (`phase`), lifecycle, currentRound (0 for null), startedAt, finishedAt, suspendedAt (the last three as "is set") |
| `crew` | all slots of the match held by unreleased assignments; crews are taken and released as a whole here (`Staffing` has the seats) |
| `rounds`, `nRounds` | `rounds` with their `round_athlete_results` (`summary`), newest scoring window (`opened`) and newest score event or fault (`scored`) |
| `window` | the one scoring window without resolvedAt (the unique index admits one per match) |
| `ops`, `nOps` | `match_result_operations` with the saved and resulting columns |
| `appeals`, `nAppeals` | `match_appeals` with their `match_result_decisions` row |
| `outcome` | `match_outcomes` |
| `server`, `timer`, `handler` | per process: up, down or failed in bootstrap; `scheduledExpirations`; the expiration in flight |
| `misfired`, `disordered`, `stranded`; `before` and `open` of an operation | history for the properties only: a stale expiration ended an invalidated round; an operation was undone before a later one; an exit went back to regulation and left an overtime round effective (`StrandsOvertime`); the rounds an operation found effective, and those it found without endedAt |

`invalidatedAt`/`invalidatedByAuditId` become one number: 0 for an effective
row, `k` for one invalidated by operation `k`, `OtherAudit` for audit records
that no undo refers to. Time is one bit per round (`due`: the database clock has
reached `endsAt`), and `createdAt` comparisons, which the undo makes, become
comparisons of the number of operations that existed at the time (`stamp`).

Every command is a transaction that starts with `SELECT ... FOR UPDATE` on the
match row, hence one action, including the release of the crew and the timer
it arms or cancels in its own process after the commit. An expiration takes
two actions, `TimerFires` and `HandleExpiration`, since the handler waits for the
lock. A transaction whose write breaks a CHECK constraint does not happen
(`WriteMatch` conjoins `DbChecks`), except where the failure itself is visible:
`HandlerFails`, `RestartFails`.

Left out of these actions: wording and payloads of events, audit texts, points
(an appeal's result is a free input, since bonus and penalty points are),
`intermissionEndsAt` (only displayed), the presence gate of the first start
(`Presence`), and brackets (`Bracket`).

`MatchState` adds no state: it computes the capabilities of a snapshot from the
same rows, with the queries of `realtime-match-state.service.ts`, and the buttons
the console makes of them.

### Scoring and the code

| Variable | Code |
|---|---|
| `phase`, `currentRound`, `rounds`, `nRounds` | the regulation part of the match and its rounds; `summary` is `round_athlete_results.judgePoints`, `live` is invalidatedAt = null |
| `windows`, `nWindows` | `scoring_windows`: round, endsAt reached (`due`), resolvedAt, invalidatedAt, winningColor |
| `votes` | `judge_votes` per window: judge and colour |
| `awarded`, `reverted` | score events per window, and those with revertedAt |
| `op`, `nCancelled` | the newest cancellation with what it invalidated |
| `up`, `timers`, `handlers` | per process: running; `scheduledResolutions`; resolutions whose callback has fired and whose transaction has not run |
| `late` | history: windows that were open when their round ended |

`vote:submit` locks the match row, picks an un-ended round of the running
number, resolves an overdue window, and then joins the open window or creates
one: `SubmitVote`, split into `JoinWindow` and `OpenWindow`. The database
refuses a second row without resolvedAt, which is the guard of `OpenWindow`.
The pick of the round is a choice, since the query has no order. A window is
resolved by the next vote, by the end of the round (`ExpireRound`), by a timer
(`TimerFires`, then `HandleResolution` or `HandlerFails`) or at startup
(`Restart`, which also ends a due round, as the bootstrap does first). All of
them end in `resolveLockedWindow` (`ResolvedWindows`, `AwardedAfter`).

Rounds follow `MatchLifecycle` in outline: their timers, exits, overtime and
out-of-order undo are checked there, and a due round may be ended by any running
process here. Overtime windows run through the same code.

### Bracket and Staffing

`roster`, `seeds`, `offered` and `open` are the rows a draw reads; `edits` stands
for the `updatedAt` values in its fingerprint, so two rosters with equal
fingerprints are equal. `setup` and `previews` are the signed tokens a client
holds, at most one of each; an expired token is a lost one. `fixture` holds
slots, match, winner and source edges of the newest bracket. The generator
(`single-elimination-bracket.generator.ts`) is a set of operators: `Power` is the
doubling that finds the size, `ValidPlacements` the checks of
`buildSingleEliminationBracket`, and `Advancement` its loop over the rounds, each
of which (`Round`, `Pairs`) lets a lone athlete advance and makes a fixture of two.
`GraphIsSound` is the reference definition of the result. Roster commands are
included with the guards that depend on a bracket. A finished match enters with
any result, and, for a tie, with any totals of score events.

`Staffing` keeps `account`, `staffing`, `required`, `lifecycle` and the
unreleased `rows` of `match_official_assignments`. Every command locks the
tournament row first and is one action; starting, leaving and resetting a match
lock the match only and are actions of their own.

### Access, Connections, Presence

A login is two actions: `LoginOfficial`, `LoginCode` or `LoginWithToken` verify
without a lock and leave a `request`; `Acquire`, `Conflict` or `Refuse` is its
transaction, which looks again. A takeover (`TakeoverOfficial`, `TakeoverCode`)
presents the `challenge` the device was given. `generation` counts passcodes.

A socket of `Connections` moves through `NEW`, `AUTHENTICATED`, `VALIDATED`,
`REGISTERED`, `OPEN` and `GONE`, one await of `handleConnection` at a time. A
revocation is its commit, then `announce` (the call of `revokeSessions` by the
process that committed), then `fanout` (the room message to siblings). A command
is revalidated in one step and committed in another.

`Presence` splits every Redis call from the registration update after it
(`EnterPresence`, `FinishEntering`), except that a socket is registered and
counted in one step. `Crash` ends all sockets and takes nothing back from Redis.

### The browser

`AssignmentFeed` follows `official-realtime.ts`: `shown` is what the page
renders, `retired` is `releasedAssignmentIds`, `moved` the event epoch, `http`
and `query` the two requests in flight, `down` the socket's messages. A release
names a seat; the handler compares match ids, so it may also clear another seat of
the same match.

`MatchFeed` follows `match-realtime.ts`: commits are numbered, `pending` and
`building` are publications between commit, read and emit, `sending` and `locked`
the two refs that guard a vote. `submission` has each vote in flight, with its
stage at the server and whether the browser still waits for its answer: a message
of the match may free the button while an earlier submission is at the server,
and the judge may submit again. Whether two snapshots of the same commit are under
way to one socket makes no difference and is not distinguished.

`SupervisorConsole` describes each handler and each button by a record (what it
emits, what it answers when publication fails, which flag it takes, when it asks
for a snapshot), and one set of actions for all of them. `replies` are the
snapshots being built for its socket (`ReadState`, then `SendState`).

In both, `page` is assigned by every snapshot that arrives (`handleMatchState`
compares nothing), so it may go back. What can be promised is stated with two
history variables: the newest snapshot received (`received`, `seen`) and whether the
snapshot sent last is older than one sent before (`overtaken`).

### Administration, Media, StorageMigration

`Admit` is the passing of the guards and the other actions of `Administration`
are the transactions that follow, so a request may run on rights that have gone.
`Run` is one sweep of `TournamentLifecycleService`. Time is counted in units, of
which `Grace` and `Recovery` make the two retention periods.

`Media` stores an object, commits the row (`CommitImage`) or takes the object
back (`CompensateSavedImage`). A worker claims, checks, deletes and cleans up in
four steps, and may die or lose its lease between any two. As in the code a lapsed
lease stays the worker's until another run takes it over.

`StorageMigration` runs the preflight, copy and verify passes key by key, one
step per object and two for a write; the operator's order (freeze, copy, verify,
switch) is the documented one. A key's bytes are `GOOD` (what was uploaded under
it), `OTHER` or `NONE`.

## 3. Runs

| Run | Bounds | Shows |
|---|---|---|
| `operations` | 1 process, 3 rounds, 2 operations, 1 appeal | coherent rows, rounds that back the phase, exact undo. Two operations are what it takes to cancel, replay and cancel again, and to undo in either order |
| `publication` | 1 process, 4 rounds, 1 operation, 3 appeals | regulation, two overtime attempts and a decision with one cancellation or exit and its undo: a published winner is backed, offers are accepted, a scheduled round stops running |
| `cluster` | 2 processes (symmetric), 3 rounds, 1 operation, 1 appeal | late timers, crashes and restarts: pauses keep their time, crews cover progress, the contract is implemented. Two processes are what it takes for one to hold a timer the other cancelled |
| `scoring_points` | 2 processes and 3 judges (symmetric), 3 rounds, 1 window, 2 cancellations | points, summaries and appeals through cancellations, undos, crashes and late timers |
| `scoring_windows` | 1 process, 3 judges, 1 round, 2 windows | one point per window, with a majority, and every scheduled window resolved. The second window is what it takes for a vote to resolve its predecessor |
| `blocked_votes` | 1 process, 2 rounds, 1 window | a counterexample, section 6 |
| `bracket` | 4 athletes (symmetric), size up to 4, 2 roster edits | every bracket of 2, 3 and 4 entrants, with byes, walkovers, withdrawals, retraction through two rounds and cancellation. Four athletes give a final fed by two fixtures; three give a bye |
| `access` | 1 official, 1 code, 2 devices (symmetric), 3 sessions, 1 regeneration | one current session per credential, takeovers of what was seen, `SessionContract`. A third session is what it takes for a token to be stale |
| `connections` | 2 credentials, 2 sessions, 2 sockets and 2 processes (symmetric); 2 commands, 2 messages, 1 direct snapshot being built | revoked sockets are closed, replaced sessions command nothing, a console receives the broadcasts of its commands, and shows them unless an older snapshot was sent last. Two commands are what it takes for one's snapshot to be read before and sent after the other's |
| `leases` | 1 official with 2 sockets, a scoreboard, 2 matches; 1 row, 2 objects, 2 workers, 2 faults | counters cover the connected, abandoned matches are not ready, referenced images stay, the outbox drains. Two workers can hold one entry after a lapse |
| `console` | 2 assignments, 3 messages; 2 commits, 2 messages, 2 snapshots being built; with 2 submissions: 1 commit, 1 snapshot being built | retired assignments stay retired, assignments converge, a console in the room has received the newest state announced there, and shows it unless an older snapshot was sent last, a vote does not hang. Two snapshots are what it takes for one to overtake the other; the second submission is sent while the first is still at the server or awaited |
| `administration` | 2 super administrators, 1 owner, 1 tournament, time 4; 2 supervisors, 4 judges, 3 matches; 2 images, 2 commands, 2 faults | nobody locks everybody out, active owners keep tournaments, sports in use stay active; whole crews, staffable brackets, takeable offers; images served before, after and between migrations |

Each bound is a guard of the action that consumes it: `MaxRounds`, `MaxOps`,
`MaxAppeals` and `MaxScored` (rounds on which anything is scored); `MaxWindows`,
`MaxCancelled`; `MaxEdits`; `MaxSessions`, `MaxGeneration`; `MaxCommands`,
`MaxInbox`, `MaxReplies`; `MaxSeats`, `MaxQueue`, `MaxCommits`, `MaxDown`,
`MaxReads`, `MaxVotes`; `MaxFaults`, `MaxTrouble`, `MaxTime`. `MCConsole` bounds the
behaviours with votes further (`VoteCommits`, `VoteReads`).

Deadlock is checked where something can always happen (`bracket`, `access`,
`administration`). Elsewhere a state without successors is legitimate, and the
cfg says which: officials may stop at any time, a published match rests, a
revoked socket stays closed.

**Fairness.** Officials, administrators and networks are never assumed to act.

- `MatchLifecycle` and `Scoring` (`FairSpec`): weak for the database clock, for
  the restart of a stopped process (its supervisor restarts it) and for timer
  callbacks (the event loop runs them); strong for the handlers, whose
  transaction may fail and is then retried, so that they are disabled in
  between, but does not fail for ever. `ScheduledRoundEnds` assumes that the
  process holds no handler of an older round (a failing stale handler replaces
  the live timer); `ScheduledWindowResolves` speaks of a window that a live
  process has scheduled.
- `Presence`: weak for the expiry of presence keys, which Redis performs.
- `Media`: weak for the steps of a worker, lapsing leases and due dates; strong
  for a claim followed by an attempt, since the interval job claims whatever is
  due and only `MaxFaults` attempts fail.
- `AssignmentFeed`: weak for the 12-second reconciliation and the use of its
  answer, strong for the answer (a request may fail, not all of them).
- `MatchFeed`: weak for the ten-second timeout of each submission's answer and for
  the delivery of what has arrived.

Some properties are stated for orderly histories. The condition is a history
variable, and each one is there because the property is false without it
(section 6 has the counterexamples):

| Condition | Property |
|---|---|
| `~stranded` | `OneEffectiveRound` |
| `~disordered` | `OneEffectiveAppeal`, `PausedRoundKeepsTime`, `OrderlyUndoIsExact`, and that a published appeal is over effective ended rounds |
| `~disordered`, `~AppealsRetired` | `DecisionPhasesAreBacked`: a replayed appeal command retires appeals with an audit record that a later undo cannot find |
| `Orderly` (no stale expiration, no undo out of order, no stranded round) | `RunningPhaseHasRound`, `AppealsRestOnRegulation`, `OffersAreAccepted` |

`SummariesFollowRounds`, and that a match is finished exactly when its outcome is
published and the outcome is what the newest effective appeal yields, need none.

## 4. Proofs

Every theorem holds for all values of the constants: any number of processes,
judges, officials, athletes, sessions, sockets, rounds, windows, commands and
faults, within bounds that are arbitrary numbers. An invariant is seldom
inductive as it stands. Each proof gives a stronger one, which TLC checked on the
instance of the module's run first, shows it of the initial states and of every
action, and derives the property.

### The match (`MatchLifecycleProofs`, `MatchResultProofs`)

- `TypeCorrect`: `Spec => []TypeOK`, inductive by itself.
- `RowsAreLegal`: `Spec => []LegalRows`. `LegalInv` adds `OpsAreRecorded` (an
  operation with a status lies below `nOps`): an undo restores a saved row, so
  the saved rows must be legal, and the undone operation must be one of those
  the invariant speaks about.
- `CrewCovers`: `Spec => []CrewCoversProgress`. `CrewInv` adds
  `NoFinishedSaved`: without legacy sessions no saved row is that of a finished
  match (nobody is authorised to cancel it), so no undo completes a match that
  holds a crew.
- `LifecycleImplementsContract`: without legacy sessions `Spec` implements
  `MatchContract`, step by step: processes are invisible or end a round of a
  match in progress (`ProcessIsQuiet`), commands are plays or leaves
  (`CommandEffect`), officials other than take and publish are invisible
  (`OfficialsAreQuiet`).
- `MatchRestsOnRounds`: `Spec => []RoundsBackTheMatch`. Every step has one of six
  shapes (`StepShape`): it leaves the rounds alone (`RoundsRest`), or ends, starts,
  invalidates, restores or retires rounds (`Ends`, `Starts`, `Invalidates`,
  `Restores`, `Retires`), and the rest of the proof speaks of shapes instead of
  actions. `FormInv` says what a round can be and who may have invalidated it: an
  applied operation younger than the round, or, of an overtime round only, a
  restart; its summaries share its fate. An undo moves the match to a
  saved row and makes another set of rounds effective, so what the properties say
  of the match must hold of each applied operation too: `RoundsFit` says that
  neither the effective rounds, nor those that would be effective once an
  operation and all later ones are undone (`Restorable`), are of a stage their row
  has not reached or doubled; `RoundsBack` says that the open round of a running
  phase and the ended rounds of the later ones are among them.
- `PublishedIsBacked`: `Spec => []PublishedResultIsBacked`. The same for appeals:
  `AppealsAreFormed` says what an appeal is over; `UniqueInv` that the appeals that
  stand, and those that stood when an operation was applied (`Recallable`), are of
  different attempts; `StaleInv` that in the overtime phases none of them is over a
  round that an exit took away; and a decision phase has its appeal or decision
  among them. A restart of overtime retires a round and its appeal for good,
  behind the back of the operations applied before. That no undo misses them is a
  counting argument (`CountInv`): between an operation and its undo the match
  must return to the phase the operation left, and a restart that reached back
  behind the operation would leave one appeal too few for the way.
- `OrderlyUndo`: `Spec => OrderlyUndoIsExact`. `LossInv` says that the rounds that
  were effective before an operation are those its undo brings back and those
  retired since (`Recoups`), and `CountInv` that none has been retired. That none
  of those found open has been ended is a balance as well (`SpentInv`): a stale
  timer can end an invalidated round only in a running phase, which then needs a
  new round started since, and the undo refuses while an effective round is
  younger than the operation.
- `PausedKeepsTime`: `Spec => PausedRoundKeepsTime`. `LeadInv`: while the match is
  running or paused, its newest effective round is open, of the kind of the phase,
  younger than every applied operation that left play, and not paused if the phase
  is running; and the same was true when such an operation was applied. So pause
  and resume act on that round (`LeaderIsControlled`) and touch none an undo will
  bring back (`OnlyLeaderChanges`), and a timer that passes the check of the phase
  belongs to a round that is either that one or not the newest of its kind. The
  theorem `OrderlyUndo` gives the step of the undo.

### Scoring (`ScoringProofs`)

- `WindowsAwardOnce`, `PointsHaveMajority`: `Spec => []AwardedOnce` and
  `Spec => []PointHasMajority`. `ScoringInv` adds that rows not yet created are
  unresolved (or a new window would erase a point), that no judge voted for
  both colours in a window and that a recorded winner is the one the votes yield
  (or a late vote could take the majority away). Every step either leaves
  resolution alone, resolves open windows or is a vote (`StepKinds`), and each
  kind preserves the invariant. The majority holds for even panels too.
- `ResolvedWindowsAreFinal`: `Spec => ResolvedIsFinal`, from the same invariant.
- `PointsStayAccounted`: `Spec => []PointsAreAccounted`. `PointsInv` adds what a
  cancellation must have recorded for its undo to be right: it reverted only
  points of windows that were effective and invalidated every window of its
  rounds (`OpIsInStep`), and without its reversals the summaries of its rounds
  would be right again (`OpRestoresSummaries`). Besides, a round that counts has no
  invalidated window, and the unresolved windows of an ended round are the late
  ones, so that no later resolution can change a captured summary unnoticed. A
  step leaves the points of ended rounds alone, ends a round, cancels or undoes
  (`StepForms`).
- `AppealedPointsStayFrozen`: `Spec => AppealedPointsAreFrozen`. A decided match has
  no open window, nor would the undo that brings the decision back give it one
  (`DecidedIsSettled`).

### Brackets (`BracketProofs`)

- `BracketsAreSound`: `Spec => []GraphIsSound`, that is, the generator is right for
  every number of athletes and every valid placement. `GraphOfDraw` shows that
  the fixtures of a draw form a single elimination: every fixture but the last
  feeds one slot, no two feed the same, every athlete starts in one slot, and
  every slot has one source. That there is one fixture fewer than athletes follows
  by counting slots twice (`EliminationCounts`, a bijection). The loop of the
  generator is a recursive function over the rounds, and induction over them is
  done on sets: the rounds at which a statement fails would have a least
  element (`SetInduction`).
- `EntrantsStayTheRoster`, `SlotsKeepFollowing`, `MatchesStayFrozen`,
  `WinnersHaveFought`: `Spec => []EntrantsAreTheRoster`, `[]SlotsFollowWinners`,
  `[]MatchesAreFrozen` and `[]WinnersFought`. `BracketInv` says that the edges of
  the stored fixtures are still a single elimination, that winner, slots, match
  and status of each fixture agree (`Consistent`), that the champion is the
  winner of the final (`Crowned`), and that a cancelled bracket is known as such.
  Decisions, repeated decisions, retractions and their undo are all one kind of
  step (`Moved`: one fixture gets another winner and the slot it feeds follows)
  under one condition (`MayMove`: no prepared match stands on the slot).

### Sessions and sockets (`AccessProofs`, `ConnectionsProofs`)

- `SessionsStayCurrent`, `TakeoversEvictWhatTheySaw`, `AccessImplementsContract`:
  `[]SessionsAreCurrent`, `TakeoverEvictsWhatItSaw` and the refinement of
  `SessionContract`. `AccessInv`: sessions are numbered in the order they were
  opened, at most one row per credential is open, and an open one carries the
  generation its official has. A step leaves the rows alone, closes some, lets one
  expire, or is a login that opens one in place of what it closes.
- `CommandsStayOrdered`: `Spec => CommandsNeverGoBack`. `OrderInv`: the live session
  of a credential is its newest one, so the check at commit time suffices,
  however long ago the socket was revalidated.
- `SocketsStayTold`, with `CommandsAreSeen`: `[]SocketsAreTold`. For sockets,
  `ConnectionsInv` follows a revocation from commit through announcement and
  fanout: an announced session is over, and a registered socket of a participant
  has looked again. For the console, `SupervisorInv` says what each attempt and
  each message under way still promises, and that whatever a linked console was
  told and has not received is on its way (`OnItsWay`). What the page shows follows
  by `PageInv`: unless the snapshot sent last was overtaken, the last snapshot
  under way, or the page when there is none, is the newest of those received and
  under way; so once nothing is under way the page is the newest received.

### Administration, images and staffing (`AdministrationProofs`)

- `SomeoneCanAdminister`: `[]SuperAdminRemains`, inductive with the types of
  accounts: the transaction counts again what the guard admitted.
- `SportsStayActive`, `OwnersKeepTournaments`: `[]SportsInUseAreActive` and
  `ActiveOwnersKeepTournaments`. `TournamentsInv` speaks of hidden tournaments too
  (`SportsOfAllAreActive`), since a sweep or a renewal may bring them back, and
  says that only tournaments of owners are ever hidden.
- `ImagesStayServed`: `[]LiveImagesAreServed`. `MigrationInv` says of each command
  what its passes have established of the keys behind it (`Sound`) and that a
  verdict that was reported still holds (`VerdictsHold`).
- `ImagesStayStored`: `[]ReferencedObjectsExist`. `MediaInv`: keys in use were
  generated before (`KeysAreSpent`) and only its own request knows the key of an
  upload (`UploadsAreUnknown`), so a key nobody refers to is never referred to
  again, and a worker's check stands until its deletion (`VerdictsStand`), with or
  without its lease.
- `CrewsStayWhole`, `OffersCanBeTaken`: `[]CrewsAreKept` and
  `[]OfferedMatchIsTakeable` of every staffing behaviour. `CrewInv` has the rows as
  sets of seats: one seat per official, only active officials seated, no seat
  taken twice, a supervisor in every crew, all judge seats filled, and a crew for
  each match in progress.
- `BracketsStayStaffable`: `BracketStaysStaffable`. `BracketInv` adds that a prepared
  fixture needs what its round requires, that it is prepared when the earlier
  rounds are completed, and that completed fixtures could be staffed once more
  while others wait, since a reset brings them back.

### Presence and the browser (`RealtimeProofs`)

- `CountersStayAbove`: `[]CountersCoverConnections`, by counting sockets.
- `ConsolesCatchUp`: `[]SubscribedConsoleHasTheNewest`. `MatchFeedInv` says that a
  console in the room which lacks something announced has asked for a snapshot, or
  that a snapshot new enough or a message that makes it ask is on its way (`Owed`).
  That holds only once the console was welcomed (`entry = "NONE"`): what is
  announced between its first snapshot and its joining is lost, and the presence
  message it hears of itself makes up for it. A snapshot read now is new enough,
  since nothing claims more than was committed (`ClaimsAreCommitted`). That is the
  half about `received`; `PageInv`, as for the supervisor's console, carries it over
  to the page (`LastIsNewest`).
- `RetirementHolds`: `RetiredStaysRetired`. `RetiredInv` says that only seats are
  ever retired, since an exit is answered with the seat that was left; showing no
  assignment is therefore always admitted.

### Assumptions

The proofs use the named assumptions of the modules, which TLC evaluates on every
run, and no others: bounds are natural numbers; `Judges`, `Athletes` and `Sockets`
are finite; the sets of officials, codes, matches, super administrators and owners
that share a key space are disjoint; values that stand for null are none of the
values they stand beside (`AccessAssumption`, `NamesAssumption`,
`ConnectionsAssumption`, `MediaAssumption`); the largest size of a bracket is a power
of two (`BracketAssumption`; `MAX_BRACKET_ATHLETES` is 64).

### Model-checked only

- The liveness properties `ScheduledRoundEnds`, `ScheduledWindowResolves`,
  `AbandonedMatchIsNotReady`, `OutboxDrains`, `AssignmentConverges` and
  `SubmissionEnds`, and `OffersAreAccepted`, which uses ENABLED: out of the
  prover's reach.
  That what the console offers is accepted is a statement about enabled
  transactions; its ingredients, the rounds and appeals behind a phase, are proved.

Every other property of a passing run is stated by a theorem.

## 5. Not modelled

- V1 matches beyond their rounds: penalties, fault severities and points.
  `completeMatch` of the lifecycle service: the gateway refuses `match:complete`
  (`realtime.gateway.ts` 534-541) and nothing else calls it. Retraction of a
  published result is reachable only with legacy access codes and appears in
  `Bracket`.
- Replacement of the athletes of a match by an administrator
  (`admin-management.service.ts` 1081-), manual matches, monitoring views. The
  replacement checks without a lock that no round has started; the hazard is
  listed without a property.
- Archiving of a tournament as it suspends the sessions of its officials; the
  start dates of entitlements and the expiry of administrators' logins, which
  `Admit` abstracts; prices.
- The older claim of a single match, and the assignment of single judges.
- Failures of Redis: registration and increment are one step of `Presence`, while
  `realtime-session-registry.service.ts` (114-120, 215-220) notes the socket first
  and then awaits the increment, so that after a failed one a disconnect takes one
  from a counter that others share. The expiry of a counter 24 hours after its first
  socket (`redis.service.ts` 119), longer than the behaviours modelled.
- `vote:rejected`, which sockets of access codes are sent beside the answer of a
  refused vote (`rejectVote`); officials' sockets get the answer alone.
- Failing reads of a snapshot; the content of a snapshot other than the
  capabilities and readiness; the public view and the scoreboard page, which show
  what they receive; the administration pages, which are forms over the API.
- Lock order: a forced cancellation of a bracket and a publication lock match
  and fixture in opposite orders; the database aborts one of them, which the
  models treat as a command that does not happen.
- Image decoding, the validation of keys, the inventory and dry-run modes of
  `media:migrate` (they write nothing) and its `--include-outbox`.
- Passwords, signatures of tokens, configuration, health checks.

## 6. Where the code disagrees with its documentation

`blocked_votes` is a run: a window that is open when its round is cancelled is
never resolved, and the unique index on unresolved windows, which does not look
at invalidatedAt, refuses every later window of the match, although "the first
valid vote opens a persisted 1,000 ms half-open window" (`README.md:390`).

The others are definitions of the modules that no run lists: each is violated
when added to the cfg of its module's run (with the bounds given there, or fewer;
from 9 on each gives its own).

1. `MatchLifecycle!OnlyEffectiveRoundsExpire`: `evaluateExpiration` fetches a
   round by id alone, so the pending expiration of a cancelled round ends it and
   with it the phase of its replacement, although "the API rechecks the
   persisted row and timestamp under a database lock" (`README.md:377-379`).
2. `MatchLifecycle!RecoveryNeverBlocksStartup`: a match suspended in
   `OVERTIME_RUNNING` makes startup recovery throw out of
   `onApplicationBootstrap` once the round is overdue.
3. `MatchLifecycle!RunningRoundEnds` (under `FairSpec`): undoing the reset of a
   running match restores the round without scheduling its expiration.
4. `Scoring!ResetLeavesNothing`: after a reset in mid-round a vote may take the
   invalidated round, which has no endedAt, as the active one; the next reset
   does not see the window it opens.
5. `Scoring!AppealCountsEveryPoint`: a window opened in the last second of a
   round outlives it and its point is missing from the summaries the appeal adds up.
6. `Bracket!CancelledStaysClosed`: the manual decision of a fixture
   (`bracket-outcome.service.ts` 212-296) does not look at the status of the
   bracket, and deciding the final completes a cancelled one, although a
   "standard cancellation preserves history" (`bracket-cancellation.service.ts:15`).
7. `Connections!RevocationReachesEverySocket`: `connectOfficial`
   (`realtime.gateway.ts` 1733-1749) validates the session and registers the
   socket afterwards; a revocation in between does not find it. `README.md:344-346`
   says that revocations disconnect old sockets. Commands are revalidated, so
   such a socket hears and does not command; participants' sockets look again
   after registering, and `SocketsAreTold` holds for them.
8. `MatchState!SavedResultsComplete`: in `AWAITING_RESULT_SAVE` the console
   offers to save and sends a publication, which that phase does not admit;
   ADR 0006 (line 41) names `match:complete`, which the gateway refuses. A match
   in that phase can only be exited or have its results cancelled.
9. `MatchLifecycle!EveryPausedRoundKeepsTime`, with one process, 5 rounds, 1
   operation and 2 appeals: `SUSPEND_KEEP_ROUND_1` from `OVERTIME_PAUSED` invalidates
   the rounds numbered 2 (`match-lifecycle.service.ts` 648-653) and leaves the
   paused overtime round, whose number is 1, effective and without endedAt. After
   round 2 and the appeal are repeated, another attempt runs; `recoverActiveRounds`
   (1531-1571) orders by roundNumber only and may pick the paused attempt, and
   ends it and the phase of the running one. `PausedRoundKeepsTime` therefore
   speaks of the newest round of its stage and number.
10. `SupervisorConsole!OwnCommandIsShown`, with one command: `handleMatchState`
    (`match-realtime.ts` 1104-1111) shows every snapshot that arrives, snapshots
    carry no version, and the gateway reads one across awaits and emits it later.
    A snapshot asked for on connecting is read, a command commits and its own
    snapshot is broadcast and shown, and the older one arrives last: the page stays
    at the match before the command until something else happens, although "the
    subsequent snapshot remains the authoritative source for every displayed match
    field" (`match-realtime.ts:436-437`). With two requests being answered
    (`MaxReplies = 2`) it happens after an acknowledged `round:start` and the
    snapshot it asks for as well. In `MatchFeed`, likewise, `received >= announced`
    holds of a quiet console and `page >= announced` does not.

The remaining ones were met while proving: each is a statement of the kind of
`RoundsBackTheMatch` or `PublishedResultIsBacked` without one of the conditions of
section 3. They take longer histories than a run can exhaust; TLC confirmed each
with one process (15: two) and the bounds given, without scoring. None of 11, 14
and 15 passes through a state the database's unique indexes refuse.

11. `AppealsRestOnRegulation` without `~stranded` (5 rounds, 3 operations, 1 appeal,
    24 steps, undos in order): `exitMatch` counts an ended overtime round, whose
    number is 1, as round 1 (`match-lifecycle.service.ts` 613-615). An exit with
    `SUSPEND_KEEP_ROUND_1` from `OVERTIME_APPEAL` strands the ended overtime round;
    round 1 is cancelled and its replay started; in mid-round the same exit
    passes on the strength of the stranded round and moves the match to `BREAK`.
    Round 2 is played and `REGULATION_APPEAL` is reached although round 1 never ended.
12. `OneEffectiveRound` without `~stranded` (4 rounds, 4 operations, 1 appeal, 23
    steps): with the overtime round stranded as in 11 and round 1 cancelled,
    `SUSPEND_KEEP_ROUND_1` passes even from `WAITING`; a second cancellation takes
    the overtime round. Undoing the first cancellation restores round 1, undoing the
    exit then restores `WAITING`, and the next start creates a second round 1. In
    the database the partial unique index refuses it: the match cannot be started.
13. `OneEffectiveAppeal` with undos out of order (4 rounds, 3 operations, 2 appeals,
    25 steps): regulation is played, appealed and cancelled twice; the first
    cancellation is undone, then the match is exited with `CANCEL_RESULTS`, which
    cancels the rounds and leaves the appeal. Undoing the second cancellation brings
    back the second appeal beside the first; the partial unique index on effective
    appeals refuses that undo.
14. The last part of `PublishedResultIsBacked` with undos out of order (4 rounds, 5
    operations, 2 appeals; 24 steps with 3 rounds, 4 operations and 1 appeal):
    publication looks at the newest effective appeal and at its source round, which
    is round 2 (`result-publication.service.ts` 107-114). Regulation is won and
    exited with `CANCEL_RESULTS`, a new round 1 is played and cancelled, the exit is
    undone, the match is suspended keeping round 1, and that round is cancelled;
    undoing the first cancellation and then the suspension restores
    `RESULT_PUBLICATION_READY`, round 2 and the appeal, but the round 1 that is
    effective is the replay, not the one the appeal counted.
15. `PausedRoundKeepsTime` with undos out of order (2 processes, 6 rounds, 8
    operations, 2 appeals, 39 steps): undone out of order, two cancellations of
    overtime attempts bring `OVERTIME_RUNNING` back while a newer, paused attempt is
    effective; the process that did not serve the pause still holds its timer, finds
    the phase running and ends the paused attempt.

## 7. Plan

Done: models of all parts of section 1 but those of section 5, runs for each, and
theorems about every model except `MatchState`; every property of a passing run
but the liveness properties and `OffersAreAccepted` is proved.

Next: the replacement of athletes, the single-match claim and V1 penalties.
