------------------------------- MODULE Access -------------------------------
(***************************************************************************)
(* Who may speak for an official: the sessions that a passcode (official-   *)
(* access) or the access code of a match (match-access) opens, and the      *)
(* takeover of a session by another device.                                 *)
(*                                                                          *)
(* A login is verified outside the transaction, without a lock, and again   *)
(* under the row lock of its credential; what happens between the two is    *)
(* the subject of this module.                                              *)
(***************************************************************************)
EXTENDS Naturals, FiniteSets

CONSTANTS
    Officials,      \* tournament officials (credential: a passcode)
    Codes,          \* legacy access codes, all of one match
    Devices,
    None,
    MaxSessions,    \* bound: session rows ever created
    MaxGeneration   \* bound: passcode regenerations

Keys == Officials \cup Codes
Sessions == 1 .. MaxSessions
Generations == 0 .. MaxGeneration
RowType == [key : Keys, device : Devices, generation : Generations,
            state : {"LIVE", "EXPIRED", "CLOSED"}]
RequestType == [key : Keys, generation : Generations, observed : Sessions \cup {None}]
TokenType == [key : Keys, observed : Sessions]

ASSUME AccessAssumption ==
    /\ Officials \cap Codes = {} /\ None \notin Officials \cup Codes \cup Nat
    /\ None \notin RowType \cup RequestType \cup TokenType      \* null is no row
    /\ MaxSessions \in Nat \ {0} /\ MaxGeneration \in Nat

VARIABLES
    generation, \* passcode of each credential, as a counter
    enabled,    \* the official's account is active
    assigned,   \* officials with an unreleased assignment to the codes' match
    row,        \* session rows, None before they are created
    request,    \* per device: a login past verification, not yet in its transaction
    challenge   \* per device: the takeover token it holds

vars == <<generation, enabled, assigned, row, request, challenge>>
accountVars == <<generation, enabled, assigned>>

TypeOK ==
    /\ generation \in [Keys -> Generations]
    /\ enabled \in [Keys -> BOOLEAN]
    /\ assigned \subseteq Officials
    /\ row \in [Sessions -> RowType \cup {None}]
    /\ request \in [Devices -> RequestType \cup {None}]
    /\ challenge \in [Devices -> TokenType \cup {None}]

Init ==
    /\ generation = [k \in Keys |-> 0]
    /\ enabled = [k \in Keys |-> TRUE]
    /\ assigned = {}
    /\ row = [s \in Sessions |-> None]
    /\ request = [d \in Devices |-> None]
    /\ challenge = [d \in Devices |-> None]

-----------------------------------------------------------------------------
Created == {s \in Sessions : row[s] # None}
RowsOf(k) == {s \in Created : row[s].key = k}
Live(s) == s \in Created /\ row[s].state = "LIVE"
OpenRows(k) == {s \in RowsOf(k) : row[s].state # "CLOSED"}     \* "active" = true
Owners(k) == {s \in RowsOf(k) : Live(s)}                       \* findCurrentOwner

Close(ss) == [s \in Sessions |-> IF s \in ss THEN [row[s] EXCEPT !.state = "CLOSED"]
                                 ELSE row[s]]

\* Mutant: resolving touches the row and revives it.
SweepRevives(k) == [s \in Sessions |-> IF s \in OpenRows(k)
                                       THEN [row[s] EXCEPT !.state = "LIVE"] ELSE row[s]]

\* The sweep of a code's expired rows.
Sweep(k) == Close(OpenRows(k) \ Owners(k))

-----------------------------------------------------------------------------
(* Logins.                                                                  *)

\* verify, verifyCredential and the checks of a login link: the credential is
\* compared as it is now, and a code opens nothing on a match with a crew.
Verifiable(k) == enabled[k] /\ (k \in Codes => assigned = {})

Verify(d, k, observed) ==
    /\ request[d] = None /\ Verifiable(k)
    /\ request' = [request EXCEPT ![d] =
                     [key |-> k, generation |-> generation[k], observed |-> observed]]
    /\ UNCHANGED <<accountVars, row, challenge>>

\* A takeover presents the token of an earlier conflict for the same
\* credential and device.
Presents(d, k, observed) == challenge[d] = [key |-> k, observed |-> observed]

LoginOfficial(d, o) == Verify(d, o, None)
TakeoverOfficial(d, o, observed) == Presents(d, o, observed) /\ Verify(d, o, observed)

\* A login link is valid for the passcode it was made with; it may come with a
\* takeover token.
LoginWithToken(d, o, link, observed) ==
    /\ link = generation[o]
    /\ observed # None => Presents(d, o, observed)
    /\ Verify(d, o, observed)

LoginCode(d, c) == Verify(d, c, None)
TakeoverCode(d, c, observed) == Presents(d, c, observed) /\ Verify(d, c, observed)

\* Mutant: the transaction trusts the verification made before it.
StillValidThen(q) == TRUE

\* The second verification, under the credential's row lock.  Access codes never
\* change, and a crew that has taken the match since is not looked for again.
StillValid(q) == enabled[q.key] /\ generation[q.key] = q.generation

\* Mutant: a takeover replaces whoever owns the session now.
ReplaceableByAny(q) == q.observed # None \/ Owners(q.key) = {}

\* No owner, or the very session the takeover token was issued for.
Replaceable(q) == Owners(q.key) \subseteq {q.observed}

Refuse(d) ==
    /\ request[d] # None /\ ~StillValid(request[d])
    /\ request' = [request EXCEPT ![d] = None]
    /\ UNCHANGED <<accountVars, row, challenge>>

\* Another device owns the session: expired rows are closed, and the answer
\* carries a token for the owner that was found.
Conflict(d) ==
    LET q == request[d] IN
    /\ q # None /\ StillValid(q) /\ ~Replaceable(q)
    /\ \E owner \in Owners(q.key) :
         challenge' = [challenge EXCEPT ![d] = [key |-> q.key, observed |-> owner]]
    /\ row' = Sweep(q.key)
    /\ request' = [request EXCEPT ![d] = None]
    /\ UNCHANGED <<accountVars>>

\* deactivateStaleSessions, and the revocation of the owner.
Superseded(k) == OpenRows(k)

\* acquire: expired rows and the owner are closed and the new row is created.
Acquire(d) ==
    LET q == request[d]  s == Cardinality(Created) + 1 IN
    /\ q # None /\ StillValid(q) /\ Replaceable(q) /\ s \in Sessions
    /\ row' = [Close(Superseded(q.key)) EXCEPT ![s] =
                 [key |-> q.key, device |-> d, generation |-> q.generation,
                  state |-> "LIVE"]]
    /\ request' = [request EXCEPT ![d] = None]
    /\ UNCHANGED <<accountVars, challenge>>

\* The token's five minutes are over.
ChallengeExpires(d) ==
    /\ challenge[d] # None
    /\ challenge' = [challenge EXCEPT ![d] = None]
    /\ UNCHANGED <<accountVars, row, request>>

SessionExpires(s) ==
    /\ Live(s)
    /\ row' = [row EXCEPT ![s].state = "EXPIRED"]
    /\ UNCHANGED <<accountVars, request, challenge>>

\* revokeSession (logout): an expired session is closed too.
Logout(s) ==
    /\ s \in Created /\ row[s].state # "CLOSED"
    /\ row' = Close({s})
    /\ UNCHANGED <<accountVars, request, challenge>>

-----------------------------------------------------------------------------
(* Accounts: the part of tournament-officials that touches sessions, and    *)
(* the assignments.                                                         *)

\* The sessions that a new passcode or a deactivation revokes.
RevokedWith(o) == OpenRows(o)

RegeneratePasscode(o) ==
    /\ generation[o] < MaxGeneration
    /\ generation' = [generation EXCEPT ![o] = @ + 1]
    /\ row' = Close(RevokedWith(o))
    /\ UNCHANGED <<enabled, assigned, request, challenge>>

Deactivate(o) ==
    /\ enabled[o] /\ o \notin assigned
    /\ enabled' = [enabled EXCEPT ![o] = FALSE]
    /\ row' = Close(RevokedWith(o))
    /\ UNCHANGED <<generation, assigned, request, challenge>>

Activate(o) ==
    /\ ~enabled[o]
    /\ enabled' = [enabled EXCEPT ![o] = TRUE]
    /\ UNCHANGED <<generation, assigned, row, request, challenge>>

\* A crew takes the match or gives it back (Staffing).
Assign(o) ==
    /\ enabled[o] /\ o \notin assigned
    /\ assigned' = assigned \cup {o}
    /\ UNCHANGED <<generation, enabled, row, request, challenge>>

Unassign(o) ==
    /\ o \in assigned
    /\ assigned' = assigned \ {o}
    /\ UNCHANGED <<generation, enabled, row, request, challenge>>

\* resolveSession: an official's session needs an active account, a code's must
\* own its credential.
Resolvable(s) == Live(s) /\ (row[s].key \in Officials => enabled[row[s].key])

\* Resolving a code's session closes the expired rows of the code.
Resolve(k) ==
    /\ k \in Codes
    /\ row' = Sweep(k)
    /\ UNCHANGED <<accountVars, request, challenge>>

-----------------------------------------------------------------------------
Next ==
    \/ \E d \in Devices :
         \/ \E o \in Officials : LoginOfficial(d, o) \/ \E s \in Sessions : TakeoverOfficial(d, o, s)
         \/ \E o \in Officials, link \in Generations, s \in Sessions \cup {None} :
              LoginWithToken(d, o, link, s)
         \/ \E c \in Codes : LoginCode(d, c) \/ \E s \in Sessions : TakeoverCode(d, c, s)
         \/ Refuse(d) \/ Conflict(d) \/ Acquire(d) \/ ChallengeExpires(d)
    \/ \E s \in Sessions : SessionExpires(s) \/ Logout(s)
    \/ \E k \in Keys : Resolve(k)
    \/ \E o \in Officials :
         \/ RegeneratePasscode(o) \/ Deactivate(o) \/ Activate(o)
         \/ Assign(o) \/ Unassign(o)

Spec == Init /\ [][Next]_vars

Contract == INSTANCE SessionContract WITH
    owner <- [s \in Sessions |-> IF row[s] = None THEN None ELSE row[s].key],
    live <- {s \in Sessions : Live(s)}

-----------------------------------------------------------------------------
(* Properties.                                                              *)

\* A credential has at most one session row marked active, so no login, takeover
\* or race of the two ever runs into the unique index of the table.
OneSessionPerCredential == \A k \in Keys : Cardinality(OpenRows(k)) <= 1

\* Every session that still resolves was opened with the passcode the official
\* has now: a login that was verified before a regeneration and commits after it
\* does not survive it.
SessionsKeepTheirPasscode ==
    \A s \in Sessions : Resolvable(s) => row[s].generation = generation[row[s].key]

\* One session per credential, and that one opened with what is valid now.
SessionsAreCurrent == OneSessionPerCredential /\ SessionsKeepTheirPasscode

\* A session that is still live when another device's session appears on its
\* credential ends only because that device was shown that very session: a token
\* issued for an earlier owner does not evict the present one.
TakeoverEvictsWhatItSaw ==
    [][\A s \in Sessions, d \in Devices :
         Live(s) /\ request[d] # None /\ row'[s].state = "CLOSED"
           /\ (\E t \in Sessions : row[t] = None /\ row'[t] # None /\ row'[t].device = d)
           => request[d].observed = s]_vars

\* The rows, looked at as sessions that are usable or not, behave as
\* SessionContract says: opening replaces in one step, nothing revives.
ImplementsContract == Contract!ContractSpec
=============================================================================
