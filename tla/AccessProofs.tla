---------------------------- MODULE AccessProofs ----------------------------
(* One current session per credential, takeovers that evict what they saw,   *)
(* and the refinement of SessionContract: for every set of officials, codes  *)
(* and devices and every number of sessions and passcodes.                   *)
EXTENDS Access, FiniteSetTheorems, TLAPS

USE AccessAssumption

\* Rows are numbered in the order they are created.
Numbered == \E n \in 0 .. MaxSessions : Created = 1 .. n

\* Two open rows of one credential are the same row.
OneOpen ==
    \A s, t \in Created :
        row[s].state # "CLOSED" /\ row[t].state # "CLOSED" /\ row[s].key = row[t].key => s = t

\* A live session was opened with the present passcode of its credential.
LiveIsCurrent == \A s \in Sessions : Live(s) => row[s].generation = generation[row[s].key]

\* The inductive invariant.
AccessInv == TypeOK /\ Numbered /\ OneOpen /\ LiveIsCurrent

\* What a step does to the rows: nothing, ...
Untouched == UNCHANGED row

\* ... or it closes some of them, ...
Closes == \E S \in SUBSET Created : row' = Close(S)

\* ... or one of them expires, ...
Expires == \E s \in Sessions : SessionExpires(s)

\* ... or a login goes through.
Opens == \E d \in Devices : Acquire(d)

\* A row is a record or null.
LEMMA RowIsRecord ==
    ASSUME TypeOK, NEW s \in Created
    PROVE  s \in Sessions /\ row[s] \in RowType
BY DEF TypeOK, Created

LEMMA RequestIsRecord ==
    ASSUME TypeOK, NEW d \in Devices, request[d] # None
    PROVE  request[d] \in RequestType
BY DEF TypeOK

\* Closing keeps everything of a row but its state.
LEMMA CloseEffect ==
    ASSUME TypeOK, NEW S \in SUBSET Created
    PROVE  /\ Close(S) \in [Sessions -> RowType \cup {None}]
           /\ \A s \in Sessions : Close(S)[s] = None <=> row[s] = None
           /\ \A s \in Created :
                /\ Close(S)[s].key = row[s].key
                /\ Close(S)[s].device = row[s].device
                /\ Close(S)[s].generation = row[s].generation
                /\ Close(S)[s].state = IF s \in S THEN "CLOSED" ELSE row[s].state
<1>1. ASSUME NEW s \in Created
      PROVE  [row[s] EXCEPT !.state = "CLOSED"] \in RowType
    BY RowIsRecord DEF RowType
<1>2. ASSUME NEW s \in Created
      PROVE  /\ [row[s] EXCEPT !.state = "CLOSED"].key = row[s].key
             /\ [row[s] EXCEPT !.state = "CLOSED"].device = row[s].device
             /\ [row[s] EXCEPT !.state = "CLOSED"].generation = row[s].generation
             /\ [row[s] EXCEPT !.state = "CLOSED"].state = "CLOSED"
    BY RowIsRecord DEF RowType
<1>3. \A s \in Sessions : Close(S)[s] = IF s \in S THEN [row[s] EXCEPT !.state = "CLOSED"] ELSE row[s]
    BY DEF Close
<1>4. Created \subseteq Sessions
    BY DEF Created
<1>5. Close(S) \in [Sessions -> RowType \cup {None}]
    BY <1>1, <1>4 DEF Close, TypeOK
<1>6. \A s \in Sessions : Close(S)[s] = None <=> row[s] = None
    BY <1>1, <1>3, RowIsRecord DEF Created
<1> QED
    BY <1>2, <1>3, <1>4, <1>5, <1>6

LEMMA CreatedKeeps ==
    ASSUME TypeOK, NEW S \in SUBSET Created, row' = Close(S)
    PROVE  Created' = Created
BY CloseEffect DEF Created

-----------------------------------------------------------------------------
\* Every step leaves the rows alone, closes some, expires one or opens one.
LEMMA RowStep ==
    ASSUME TypeOK, [Next]_vars
    PROVE  Untouched \/ Closes \/ Expires \/ Opens
<1> USE DEF Untouched, Closes
<1>1. ASSUME NEW d, NEW k, NEW o, Verify(d, k, o) PROVE Untouched
    BY <1>1 DEF Verify
<1>2. ASSUME NEW k PROVE OpenRows(k) \in SUBSET Created
    BY DEF OpenRows, RowsOf
<1>3. ASSUME NEW k, row' = Sweep(k) PROVE Closes
    BY <1>2, <1>3 DEF Sweep
<1>4. ASSUME NEW d \in Devices, Conflict(d) PROVE Closes
    BY <1>3, <1>4 DEF Conflict
<1>5. ASSUME NEW d \in Devices, Refuse(d) \/ ChallengeExpires(d) PROVE Untouched
    BY <1>5 DEF Refuse, ChallengeExpires
<1>6. ASSUME NEW s \in Sessions, Logout(s) PROVE Closes
    BY <1>6 DEF Logout
<1>7. ASSUME NEW k, Resolve(k) PROVE Closes
    BY <1>3, <1>7 DEF Resolve
<1>8. ASSUME NEW o, RegeneratePasscode(o) \/ Deactivate(o) PROVE Closes
    BY <1>2, <1>8 DEF RegeneratePasscode, Deactivate, RevokedWith
<1>9. ASSUME NEW o, Activate(o) \/ Assign(o) \/ Unassign(o) PROVE Untouched
    BY <1>9 DEF Activate, Assign, Unassign
<1>10. CASE UNCHANGED vars
    BY <1>10 DEF vars
<1> QED
    BY <1>1, <1>4, <1>5, <1>6, <1>7, <1>8, <1>9, <1>10
        DEF Next, LoginOfficial, TakeoverOfficial, LoginWithToken, LoginCode, TakeoverCode,
            Expires, Opens

-----------------------------------------------------------------------------
(* The invariant.                                                           *)

\* The next row number is that of a row not created yet.
LEMMA NextRow ==
    ASSUME TypeOK, Numbered
    PROVE  LET s == Cardinality(Created) + 1 IN
           s \in Sessions => row[s] = None /\ Created \cup {s} = 1 .. s
<1>1. PICK n \in 0 .. MaxSessions : Created = 1 .. n
    BY DEF Numbered
<1>2. n \in Nat /\ 1 \in Int /\ n \in Int
    OBVIOUS
<1>3. Cardinality(1 .. n) = n
    BY <1>2, FS_Interval
<1>4. Cardinality(Created) = n
    BY <1>1, <1>3
<1> DEFINE s == Cardinality(Created) + 1
<1>5. s = n + 1
    BY <1>4
<1> HIDE DEF s
<1> SUFFICES ASSUME s \in Sessions
             PROVE  row[s] = None /\ Created \cup {s} = 1 .. s
    BY DEF s
<1>6. s \notin 1 .. n
    BY <1>2, <1>5
<1>7. row[s] = None
    BY <1>1, <1>6 DEF Created
<1>8. (1 .. n) \cup {n + 1} = 1 .. n + 1
    BY <1>2
<1> QED
    BY <1>1, <1>5, <1>7, <1>8

\* What a login does: the open rows of its credential are closed and row s is
\* created.
Opened(d, s) ==
    LET q == request[d] IN
    /\ s \in Sessions /\ row[s] = None /\ s \notin Created
    /\ Created' = 1 .. s /\ Created' = Created \cup {s}
    /\ q \in RequestType /\ StillValid(q) /\ Replaceable(q)
    /\ row' \in [Sessions -> RowType \cup {None}]
    /\ row'[s] = [key |-> q.key, device |-> d, generation |-> q.generation, state |-> "LIVE"]
    /\ OpenRows(q.key) \in SUBSET Created
    /\ \A t \in Sessions \ {s} : row'[t] = Close(OpenRows(q.key))[t]

LEMMA AcquireEffect ==
    ASSUME TypeOK, Numbered, NEW d \in Devices, Acquire(d)
    PROVE  \E s \in Sessions : Opened(d, s)
<1> DEFINE q == request[d]
           s == Cardinality(Created) + 1
           new == [key |-> q.key, device |-> d, generation |-> q.generation, state |-> "LIVE"]
<1>1. s \in Sessions /\ row[s] = None /\ Created \cup {s} = 1 .. s
    BY NextRow DEF Acquire
<1>2. q \in RequestType /\ StillValid(q) /\ Replaceable(q)
    BY RequestIsRecord DEF Acquire
<1>3. new \in RowType
    BY <1>2 DEF RowType, RequestType
<1>4. OpenRows(q.key) \in SUBSET Created
    BY DEF OpenRows, RowsOf
<1>5. row' = [Close(OpenRows(q.key)) EXCEPT ![s] = new]
    BY DEF Acquire, Superseded
<1> HIDE DEF s, q, new
<1>6. /\ Close(OpenRows(q.key)) \in [Sessions -> RowType \cup {None}]
      /\ \A t \in Sessions : Close(OpenRows(q.key))[t] = None <=> row[t] = None
    BY <1>4, CloseEffect
<1>7. /\ row' \in [Sessions -> RowType \cup {None}]
      /\ row'[s] = new
      /\ \A t \in Sessions \ {s} : row'[t] = Close(OpenRows(q.key))[t]
    BY <1>1, <1>3, <1>5, <1>6
<1>8. Created' = Created \cup {s} /\ s \notin Created
    BY <1>1, <1>3, <1>6, <1>7 DEF Created
<1>9. Opened(d, s)
    BY <1>1, <1>2, <1>4, <1>7, <1>8 DEF Opened, q, new
<1> QED
    BY <1>1, <1>9

LEMMA TypeStep ==
    ASSUME TypeOK, Numbered, [Next]_vars
    PROVE  TypeOK'
<1>1. row' \in [Sessions -> RowType \cup {None}]
    <2>1. CASE Untouched
        BY <2>1 DEF Untouched, TypeOK
    <2>2. CASE Closes
        BY <2>2, CloseEffect DEF Closes
    <2>3. CASE Expires
        <3>1. PICK s \in Sessions : SessionExpires(s)
            BY <2>3 DEF Expires
        <3>2. row[s] \in RowType
            BY <3>1, RowIsRecord DEF SessionExpires, Live
        <3>3. [row[s] EXCEPT !.state = "EXPIRED"] \in RowType
            BY <3>2 DEF RowType
        <3> QED
            BY <3>1, <3>3 DEF SessionExpires, TypeOK
    <2>4. CASE Opens
        BY <2>4, AcquireEffect DEF Opens, Opened
    <2> QED
        BY <2>1, <2>2, <2>3, <2>4, RowStep
<1>2. /\ generation' \in [Keys -> Generations]
      /\ enabled' \in [Keys -> BOOLEAN]
      /\ assigned' \subseteq Officials
    <2>1. CASE UNCHANGED accountVars
        BY <2>1 DEF TypeOK, accountVars
    <2>2. ASSUME NEW o \in Officials,
                 \/ RegeneratePasscode(o) \/ Deactivate(o) \/ Activate(o)
                 \/ Assign(o) \/ Unassign(o)
          PROVE  /\ generation' \in [Keys -> Generations]
                 /\ enabled' \in [Keys -> BOOLEAN]
                 /\ assigned' \subseteq Officials
        <3>1. o \in Keys /\ generation[o] \in 0 .. MaxGeneration
            BY DEF TypeOK, Keys, Generations
        <3>2. CASE RegeneratePasscode(o)
            <4>1. generation[o] + 1 \in Generations
                BY <3>1, <3>2 DEF RegeneratePasscode, Generations
            <4> QED
                BY <3>1, <3>2, <4>1 DEF RegeneratePasscode, TypeOK
        <3>3. CASE Deactivate(o) \/ Activate(o)
            BY <3>1, <3>3, Zenon DEF Deactivate, Activate, TypeOK
        <3>4. CASE Assign(o) \/ Unassign(o)
            BY <3>4 DEF Assign, Unassign, TypeOK
        <3> QED
            BY <2>2, <3>2, <3>3, <3>4
    <2> QED
        BY <2>1, <2>2 DEF Next, vars, accountVars, LoginOfficial, TakeoverOfficial, LoginWithToken,
            LoginCode, TakeoverCode, Verify, Refuse, Conflict, Acquire, ChallengeExpires,
            SessionExpires, Logout, Resolve
<1>3. request' \in [Devices -> RequestType \cup {None}]
    <2>1. CASE UNCHANGED request
        BY <2>1 DEF TypeOK
    <2>2. ASSUME NEW d \in Devices, NEW k \in Keys, NEW o \in Sessions \cup {None}, Verify(d, k, o)
          PROVE  request' \in [Devices -> RequestType \cup {None}]
        <3>1. [key |-> k, generation |-> generation[k], observed |-> o] \in RequestType
            BY DEF RequestType, TypeOK
        <3> QED
            BY <2>2, <3>1 DEF Verify, TypeOK
    <2>3. ASSUME NEW d \in Devices, Refuse(d) \/ Conflict(d) \/ Acquire(d)
          PROVE  request' \in [Devices -> RequestType \cup {None}]
        BY <2>3 DEF TypeOK, Refuse, Conflict, Acquire
    <2> QED
        BY <2>1, <2>2, <2>3 DEF Next, vars, Keys, LoginOfficial, TakeoverOfficial, LoginWithToken,
            LoginCode, TakeoverCode, ChallengeExpires, SessionExpires, Logout,
            Resolve, RegeneratePasscode, Deactivate, Activate, Assign, Unassign
<1>4. challenge' \in [Devices -> TokenType \cup {None}]
    <2>1. CASE UNCHANGED challenge
        BY <2>1 DEF TypeOK
    <2>2. ASSUME NEW d \in Devices, Conflict(d)
          PROVE  challenge' \in [Devices -> TokenType \cup {None}]
        <3>1. PICK w \in Owners(request[d].key) :
                challenge' = [challenge EXCEPT ![d] = [key |-> request[d].key, observed |-> w]]
            BY <2>2 DEF Conflict
        <3>2. request[d] \in RequestType
            BY <2>2, RequestIsRecord DEF Conflict
        <3>3. w \in Sessions
            BY DEF Owners, RowsOf, Created
        <3>4. [key |-> request[d].key, observed |-> w] \in TokenType
            BY <3>2, <3>3 DEF RequestType, TokenType
        <3> QED
            BY <3>1, <3>4 DEF TypeOK
    <2>3. ASSUME NEW d \in Devices, ChallengeExpires(d)
          PROVE  challenge' \in [Devices -> TokenType \cup {None}]
        BY <2>3 DEF TypeOK, ChallengeExpires
    <2> QED
        BY <2>1, <2>2, <2>3 DEF Next, vars, LoginOfficial, TakeoverOfficial, LoginWithToken,
            LoginCode, TakeoverCode, Verify, Refuse, Acquire, SessionExpires, Logout,
            Resolve, RegeneratePasscode, Deactivate, Activate, Assign, Unassign
<1> QED
    BY <1>1, <1>2, <1>3, <1>4 DEF TypeOK

\* Only a new passcode changes a generation.
LEMMA PasscodeStep ==
    ASSUME [Next]_vars
    PROVE  UNCHANGED generation \/ \E o \in Officials : RegeneratePasscode(o)
BY DEF Next, vars, accountVars, LoginOfficial, TakeoverOfficial, LoginWithToken, LoginCode,
    TakeoverCode, Verify, Refuse, Conflict, Acquire, ChallengeExpires, SessionExpires, Logout,
    Resolve, Deactivate, Activate, Assign, Unassign

\* What an expiry does to the rows.
LEMMA ExpiryEffect ==
    ASSUME TypeOK, NEW s \in Sessions, SessionExpires(s)
    PROVE  /\ Created' = Created /\ s \in Created
           /\ row[s].state = "LIVE" /\ row'[s].state = "EXPIRED"
           /\ row'[s].key = row[s].key /\ row'[s].generation = row[s].generation
           /\ \A t \in Sessions \ {s} : row'[t] = row[t]
<1>1. s \in Created /\ row[s].state = "LIVE"
    BY DEF SessionExpires, Live
<1>2. row[s] \in RowType
    BY <1>1, RowIsRecord
<1>3. row' = [row EXCEPT ![s] = [row[s] EXCEPT !.state = "EXPIRED"]]
    BY DEF SessionExpires
<1>4. /\ [row[s] EXCEPT !.state = "EXPIRED"] \in RowType
      /\ [row[s] EXCEPT !.state = "EXPIRED"].state = "EXPIRED"
      /\ [row[s] EXCEPT !.state = "EXPIRED"].key = row[s].key
      /\ [row[s] EXCEPT !.state = "EXPIRED"].generation = row[s].generation
    BY <1>2 DEF RowType
<1>5. row'[s] = [row[s] EXCEPT !.state = "EXPIRED"] /\ \A t \in Sessions \ {s} : row'[t] = row[t]
    BY <1>3 DEF TypeOK
<1>6. Created' = Created
    BY <1>1, <1>4, <1>5 DEF Created
<1> QED
    BY <1>1, <1>4, <1>5, <1>6

LEMMA NumberedStep ==
    ASSUME TypeOK, Numbered, [Next]_vars
    PROVE  Numbered'
<1>1. CASE Untouched
    BY <1>1 DEF Untouched, Numbered, Created
<1>2. CASE Closes
    BY <1>2, CreatedKeeps DEF Closes, Numbered
<1>3. CASE Expires
    BY <1>3, ExpiryEffect DEF Expires, Numbered
<1>4. CASE Opens
    <2>1. PICK d \in Devices, s \in Sessions : Opened(d, s)
        BY <1>4, AcquireEffect DEF Opens
    <2>2. s \in 0 .. MaxSessions /\ Created' = 1 .. s
        BY <2>1 DEF Opened, Sessions
    <2> QED
        BY <2>2 DEF Numbered
<1> QED
    BY <1>1, <1>2, <1>3, <1>4, RowStep

\* A login closes every open row of its credential, so the row it creates is
\* the only open one; nothing else opens a row or renames one.
LEMMA OneOpenStep ==
    ASSUME AccessInv, [Next]_vars
    PROVE  OneOpen'
<1> USE DEF AccessInv
<1> SUFFICES ASSUME NEW s \in Created', NEW t \in Created',
                    row'[s].state # "CLOSED", row'[t].state # "CLOSED", row'[s].key = row'[t].key
             PROVE  s = t
    BY DEF OneOpen
<1>1. CASE Untouched
    BY <1>1 DEF Untouched, OneOpen, Created
<1>2. CASE Closes
    <2>1. PICK S \in SUBSET Created : row' = Close(S)
        BY <1>2 DEF Closes
    <2>2. s \in Created /\ t \in Created
        BY <2>1, CreatedKeeps
    <2>3. row[s].state # "CLOSED" /\ row[t].state # "CLOSED" /\ row[s].key = row[t].key
        BY <2>1, <2>2, CloseEffect
    <2> QED
        BY <2>2, <2>3 DEF OneOpen
<1>3. CASE Expires
    <2>1. PICK e \in Sessions : SessionExpires(e)
        BY <1>3 DEF Expires
    <2>2. s \in Created /\ t \in Created
        BY <2>1, ExpiryEffect
    <2>3. row[s].state # "CLOSED" /\ row[t].state # "CLOSED" /\ row[s].key = row[t].key
        BY <2>1, <2>2, ExpiryEffect, RowIsRecord
    <2> QED
        BY <2>2, <2>3 DEF OneOpen
<1>4. CASE Opens
    <2>1. PICK d \in Devices, n \in Sessions : Opened(d, n)
        BY <1>4, AcquireEffect DEF Opens
    <2> DEFINE q == request[d]
    <2>2. /\ Created' = Created \cup {n} /\ n \notin Created
          /\ row'[n].key = q.key
          /\ \A u \in Sessions \ {n} : row'[u] = Close(OpenRows(q.key))[u]
        BY <2>1 DEF Opened
    <2>3. OpenRows(q.key) \in SUBSET Created
        BY <2>1 DEF Opened
    <2> HIDE DEF q
    <2>4. ASSUME NEW u \in Created, row'[u].state # "CLOSED"
          PROVE  /\ row'[u].key = row[u].key /\ row[u].state # "CLOSED" /\ row[u].key # q.key
        <3>1. row'[u] = Close(OpenRows(q.key))[u]
            BY <2>2, RowIsRecord
        <3>2. u \notin OpenRows(q.key) /\ row'[u].key = row[u].key /\ row'[u].state = row[u].state
            BY <2>3, <2>4, <3>1, CloseEffect
        <3> QED
            BY <2>4, <3>2 DEF OpenRows, RowsOf
    <2> QED
        BY <2>2, <2>4 DEF OneOpen
<1> QED
    BY <1>1, <1>2, <1>3, <1>4, RowStep

\* A new passcode closes the open row of its official in the same step, and a
\* login writes the passcode it has just compared under the lock.
LEMMA LiveIsCurrentStep ==
    ASSUME AccessInv, [Next]_vars
    PROVE  LiveIsCurrent'
<1> USE DEF AccessInv
<1> SUFFICES ASSUME NEW s \in Created', row'[s].state = "LIVE"
             PROVE  row'[s].generation = generation'[row'[s].key]
    BY DEF LiveIsCurrent, Live
<1>1. CASE \E o \in Officials : RegeneratePasscode(o)
    <2>1. PICK o \in Officials : RegeneratePasscode(o)
        BY <1>1
    <2>2. row' = Close(OpenRows(o)) /\ OpenRows(o) \in SUBSET Created
        BY <2>1 DEF RegeneratePasscode, RevokedWith, OpenRows, RowsOf
    <2>3. s \in Created
        BY <2>2, CreatedKeeps
    <2>4. /\ s \notin OpenRows(o) /\ row[s].state = "LIVE"
          /\ row'[s].key = row[s].key /\ row'[s].generation = row[s].generation
        BY <2>2, <2>3, CloseEffect
    <2>5. row[s].key # o /\ row[s].key \in Keys /\ s \in Sessions
        BY <2>3, <2>4, RowIsRecord DEF OpenRows, RowsOf, RowType
    <2>6. generation'[row[s].key] = generation[row[s].key]
        BY <2>1, <2>5 DEF RegeneratePasscode, TypeOK
    <2> QED
        BY <2>3, <2>4, <2>5, <2>6 DEF LiveIsCurrent, Live
<1>2. CASE UNCHANGED generation
    <2>1. CASE Untouched
        BY <1>2, <2>1 DEF Untouched, LiveIsCurrent, Live, Created
    <2>2. CASE Closes
        <3>1. PICK S \in SUBSET Created : row' = Close(S)
            BY <2>2 DEF Closes
        <3>2. s \in Created
            BY <3>1, CreatedKeeps
        <3>3. row[s].state = "LIVE" /\ row'[s].key = row[s].key /\ row'[s].generation = row[s].generation
            BY <3>1, <3>2, CloseEffect
        <3> QED
            BY <1>2, <3>2, <3>3, RowIsRecord DEF LiveIsCurrent, Live
    <2>3. CASE Expires
        <3>1. PICK e \in Sessions : SessionExpires(e)
            BY <2>3 DEF Expires
        <3>2. s \in Created /\ s # e /\ row'[s] = row[s]
            BY <3>1, ExpiryEffect, RowIsRecord
        <3> QED
            BY <1>2, <3>2, RowIsRecord DEF LiveIsCurrent, Live
    <2>4. CASE Opens
        <3>1. PICK d \in Devices, n \in Sessions : Opened(d, n)
            BY <2>4, AcquireEffect DEF Opens
        <3> DEFINE q == request[d]
        <3>2. /\ Created' = Created \cup {n}
              /\ row'[n].key = q.key /\ row'[n].generation = q.generation
              /\ generation[q.key] = q.generation
              /\ \A u \in Sessions \ {n} : row'[u] = Close(OpenRows(q.key))[u]
            BY <3>1 DEF Opened, StillValid
        <3>3. OpenRows(q.key) \in SUBSET Created
            BY <3>1 DEF Opened
        <3> HIDE DEF q
        <3>4. CASE s = n
            BY <1>2, <3>2, <3>4
        <3>5. CASE s # n
            <4>1. s \in Created /\ s \in Sessions /\ row'[s] = Close(OpenRows(q.key))[s]
                BY <3>2, <3>5, RowIsRecord
            <4>2. /\ row[s].state = "LIVE"
                  /\ row'[s].key = row[s].key /\ row'[s].generation = row[s].generation
                BY <3>3, <4>1, CloseEffect
            <4> QED
                BY <1>2, <4>1, <4>2 DEF LiveIsCurrent, Live
        <3> QED
            BY <3>4, <3>5
    <2> QED
        BY <2>1, <2>2, <2>3, <2>4, RowStep
<1> QED
    BY <1>1, <1>2, PasscodeStep

LEMMA AccessInductive ==
    Spec => []AccessInv
<1>1. Init => AccessInv
    <2> SUFFICES ASSUME Init PROVE AccessInv
        OBVIOUS
    <2>1. TypeOK
        <3>1. enabled \in [Keys -> BOOLEAN]
            BY Zenon DEF Init
        <3> QED
            BY <3>1 DEF Init, TypeOK, Generations
    <2>2. Created = {}
        BY DEF Init, Created
    <2>3. Numbered
        BY <2>2 DEF Numbered
    <2> QED
        BY <2>1, <2>2, <2>3 DEF AccessInv, OneOpen, LiveIsCurrent, Live
<1>2. AccessInv /\ [Next]_vars => AccessInv'
    BY TypeStep, NumberedStep, OneOpenStep, LiveIsCurrentStep DEF AccessInv
<1> QED
    BY <1>1, <1>2, PTL DEF Spec
-----------------------------------------------------------------------------
(* The theorems.                                                            *)

LEMMA OneOpenIsOne ==
    ASSUME AccessInv, NEW k
    PROVE  Cardinality(OpenRows(k)) <= 1
<1>1. \A s, t \in OpenRows(k) : s = t
    BY DEF AccessInv, OneOpen, OpenRows, RowsOf
<1>2. CASE OpenRows(k) = {}
    BY <1>2, FS_EmptySet
<1>3. CASE OpenRows(k) # {}
    <2>1. PICK s : OpenRows(k) = {s}
        BY <1>1, <1>3
    <2>2. Cardinality({s}) = 1
        BY FS_Singleton
    <2> QED
        BY <2>1, <2>2
<1> QED
    BY <1>2, <1>3

\* A credential has at most one session row marked active, and a session that
\* resolves was opened with the passcode its official has now, whatever logins,
\* takeovers, regenerations and deactivations race with each other.
THEOREM SessionsStayCurrent ==
    Spec => []SessionsAreCurrent
<1>1. AccessInv => SessionsAreCurrent
    BY OneOpenIsOne DEF AccessInv, SessionsAreCurrent, OneSessionPerCredential,
        SessionsKeepTheirPasscode, LiveIsCurrent, Resolvable
<1> QED
    BY <1>1, AccessInductive, PTL

LEMMA TakeoverStep ==
    ASSUME AccessInv, [Next]_vars, NEW s \in Sessions, NEW d \in Devices,
           Live(s), request[d] # None, row'[s].state = "CLOSED",
           \E t \in Sessions : row[t] = None /\ row'[t] # None /\ row'[t].device = d
    PROVE  request[d].observed = s
<1> USE DEF AccessInv
<1>1. PICK t \in Sessions : row[t] = None /\ row'[t] # None /\ row'[t].device = d
    OBVIOUS
<1>2. Created' # Created
    BY <1>1 DEF Created
<1>3. Opens
    BY <1>2, RowStep, CreatedKeeps, ExpiryEffect DEF Untouched, Closes, Expires, Created
<1>4. PICK e \in Devices, n \in Sessions : Opened(e, n)
    BY <1>3, AcquireEffect DEF Opens
<1> DEFINE q == request[e]
<1>5. /\ Created' = Created \cup {n} /\ n \notin Created
      /\ row'[n].device = e /\ Replaceable(q) /\ OpenRows(q.key) \in SUBSET Created
      /\ \A u \in Sessions \ {n} : row'[u] = Close(OpenRows(q.key))[u]
    BY <1>4 DEF Opened
<1> HIDE DEF q
<1>6. t = n /\ e = d
    BY <1>1, <1>5 DEF Created
<1>7. s \in Created /\ row[s].state = "LIVE"
    BY DEF Live
<1>8. s \in OpenRows(q.key)
    BY <1>5, <1>7, CloseEffect
<1>9. s \in Owners(q.key)
    BY <1>8 DEF OpenRows, Owners
<1> QED
    BY <1>5, <1>6, <1>9 DEF Replaceable, q

\* A device that opens a session ends a live one only when its takeover token
\* was issued for that very session: a token for an earlier owner does nothing.
THEOREM TakeoversEvictWhatTheySaw ==
    Spec => TakeoverEvictsWhatItSaw
<1>1. AccessInv /\ [Next]_vars =>
        (\A s \in Sessions, d \in Devices :
           Live(s) /\ request[d] # None /\ row'[s].state = "CLOSED"
             /\ (\E t \in Sessions : row[t] = None /\ row'[t] # None /\ row'[t].device = d)
             => request[d].observed = s)
    BY TakeoverStep
<1> QED
    BY <1>1, AccessInductive, PTL DEF Spec, TakeoverEvictsWhatItSaw

-----------------------------------------------------------------------------
(* The refinement of SessionContract.                                       *)

\* The contract's variables, in terms of the rows.
OwnerMap == [s \in Sessions |-> IF row[s] = None THEN None ELSE row[s].key]
LiveSet == {s \in Sessions : Live(s)}

\* Closing keeps the owners and takes the closed rows out of the live ones.
LEMMA ClosingRefines ==
    ASSUME TypeOK, NEW S \in SUBSET Created, row' = Close(S)
    PROVE  OwnerMap' = OwnerMap /\ LiveSet' = LiveSet \ S
<1>1. Created' = Created /\ Created \subseteq Sessions
    BY CreatedKeeps DEF Created
<1>2. \A s \in Created :
        row'[s].key = row[s].key /\ row'[s].state = IF s \in S THEN "CLOSED" ELSE row[s].state
    BY CloseEffect
<1>3. OwnerMap' = OwnerMap
    BY <1>1, <1>2 DEF OwnerMap, Created
<1>4. LiveSet' = LiveSet \ S
    BY <1>1, <1>2 DEF LiveSet, Live
<1> QED
    BY <1>3, <1>4

\* The rows a step closes hold at most one live session.
LEMMA ClosingEndsOne ==
    ASSUME AccessInv, [Next]_vars, Closes
    PROVE  \E S \in SUBSET Created :
             row' = Close(S) /\ \A s, t \in S : Live(s) /\ Live(t) => s = t
<1> USE DEF AccessInv
<1>1. ASSUME NEW k PROVE /\ OpenRows(k) \in SUBSET Created
                         /\ \A s, t \in OpenRows(k) : s = t
    BY DEF OpenRows, RowsOf, OneOpen
<1>2. ASSUME NEW k, row' = Sweep(k) \/ row' = Close(OpenRows(k))
      PROVE  \E S \in SUBSET Created :
             row' = Close(S) /\ \A s, t \in S : Live(s) /\ Live(t) => s = t
    BY <1>1, <1>2 DEF Sweep
<1>3. ASSUME NEW d \in Devices, Conflict(d) PROVE \E k : row' = Sweep(k)
    BY <1>3 DEF Conflict
<1>4. ASSUME NEW s \in Sessions, Logout(s) PROVE {s} \in SUBSET Created /\ row' = Close({s})
    BY <1>4 DEF Logout
<1>5. ASSUME NEW k, Resolve(k) PROVE row' = Sweep(k)
    BY <1>5 DEF Resolve
<1>6. ASSUME NEW o, RegeneratePasscode(o) \/ Deactivate(o) PROVE row' = Close(OpenRows(o))
    BY <1>6 DEF RegeneratePasscode, Deactivate, RevokedWith
<1>7. CASE Untouched
    <2>1. row = Close({})
        BY DEF Close, TypeOK
    <2> QED
        BY <1>7, <2>1 DEF Untouched
<1>8. ASSUME NEW d \in Devices, NEW k, NEW o, Verify(d, k, o) PROVE Untouched
    BY <1>8 DEF Verify, Untouched
<1>9. ~Opens
    BY AcquireEffect, CreatedKeeps DEF Opens, Opened, Closes
<1>10. ~Expires
    <2> SUFFICES ASSUME Expires PROVE FALSE
        OBVIOUS
    <2>1. PICK s \in Sessions : SessionExpires(s)
        BY DEF Expires
    <2>2. PICK S \in SUBSET Created : row' = Close(S)
        BY DEF Closes
    <2>3. s \in Created /\ row[s].state = "LIVE" /\ row'[s].state = "EXPIRED"
        BY <2>1, ExpiryEffect
    <2> QED
        BY <2>2, <2>3, CloseEffect
<1> QED
    BY <1>2, <1>3, <1>4, <1>5, <1>6, <1>7, <1>8, <1>9, <1>10
        DEF Next, vars, LoginOfficial, TakeoverOfficial, LoginWithToken, LoginCode, TakeoverCode,
            Refuse, ChallengeExpires, Expires, Opens, Untouched, Activate, Assign, Unassign

LEMMA ContractStep ==
    ASSUME AccessInv, [Next]_vars
    PROVE  [Contract!ContractNext]_(Contract!contractVars)
<1> USE DEF AccessInv
<1>a. ASSUME OwnerMap' = OwnerMap, LiveSet' = LiveSet
      PROVE  UNCHANGED Contract!contractVars
    BY <1>a DEF OwnerMap, LiveSet, Contract!contractVars
<1>b. ASSUME NEW s \in LiveSet, OwnerMap' = OwnerMap, LiveSet' = LiveSet \ {s}
      PROVE  Contract!ContractNext
    BY <1>b DEF OwnerMap, LiveSet, Contract!ContractNext, Contract!End
<1>c. ASSUME NEW s \in Sessions, NEW k \in Keys, OwnerMap[s] = None,
             OwnerMap' = [OwnerMap EXCEPT ![s] = k],
             LiveSet' = (LiveSet \ {t \in LiveSet : OwnerMap[t] = k}) \cup {s}
      PROVE  Contract!ContractNext
    BY <1>c DEF OwnerMap, LiveSet, Contract!ContractNext, Contract!Open, Contract!LiveOf
<1>1. CASE Untouched
    BY <1>a, <1>b, <1>c, <1>1 DEF Untouched, OwnerMap, LiveSet, Live, Created
<1>2. CASE Closes
    <2>1. PICK S \in SUBSET Created :
            row' = Close(S) /\ \A s, t \in S : Live(s) /\ Live(t) => s = t
        BY <1>2, ClosingEndsOne
    <2>2. OwnerMap' = OwnerMap /\ LiveSet' = LiveSet \ S
        BY <2>1, ClosingRefines
    <2>3. CASE S \cap LiveSet = {}
        BY <1>a, <1>b, <1>c, <2>2, <2>3
    <2>4. CASE S \cap LiveSet # {}
        <3>1. PICK s \in S : s \in LiveSet
            BY <2>4
        <3>2. LiveSet \ S = LiveSet \ {s}
            BY <2>1, <3>1 DEF LiveSet
        <3> QED
            BY <1>a, <1>b, <1>c, <2>2, <3>1, <3>2
    <2> QED
        BY <2>3, <2>4
<1>3. CASE Expires
    <2>1. PICK s \in Sessions : SessionExpires(s)
        BY <1>3 DEF Expires
    <2>2. /\ Created' = Created /\ s \in Created
          /\ row[s].state = "LIVE" /\ row'[s].state = "EXPIRED"
          /\ row'[s].key = row[s].key
          /\ \A t \in Sessions \ {s} : row'[t] = row[t]
        BY <2>1, ExpiryEffect
    <2>3. OwnerMap' = OwnerMap
        BY <2>2 DEF OwnerMap, Created
    <2>4. LiveSet' = LiveSet \ {s} /\ s \in LiveSet
        BY <2>2 DEF LiveSet, Live
    <2> QED
        BY <1>a, <1>b, <1>c, <2>3, <2>4
<1>4. CASE Opens
    <2>1. PICK d \in Devices, n \in Sessions : Opened(d, n)
        BY <1>4, AcquireEffect DEF Opens
    <2> DEFINE q == request[d]
    <2>2. /\ Created' = Created \cup {n} /\ n \notin Created
          /\ row[n] = None /\ row'[n].key = q.key /\ row'[n].state = "LIVE"
          /\ q.key \in Keys
          /\ OpenRows(q.key) \in SUBSET Created
          /\ \A u \in Sessions \ {n} : row'[u] = Close(OpenRows(q.key))[u]
        BY <2>1 DEF Opened, RequestType
    <2> HIDE DEF q
    <2>3. Created \subseteq Sessions
        BY DEF Created
    <2>4. \A u \in Created :
            /\ row'[u].key = row[u].key
            /\ row'[u].state = IF u \in OpenRows(q.key) THEN "CLOSED" ELSE row[u].state
        BY <2>2, <2>3, CloseEffect
    <2>5. OwnerMap' = [OwnerMap EXCEPT ![n] = q.key]
        <3>1. \A u \in Sessions : row'[u] = None <=> u \notin Created /\ u # n
            BY <2>2 DEF Created
        <3>2. \A u \in Sessions : row[u] = None <=> u \notin Created
            BY DEF Created
        <3> QED
            BY <2>2, <2>4, <3>1, <3>2 DEF OwnerMap
    <2>6. LiveSet' = (LiveSet \ OpenRows(q.key)) \cup {n}
        BY <2>2, <2>3, <2>4 DEF LiveSet, Live
    <2>7. LiveSet \ OpenRows(q.key) = LiveSet \ {t \in LiveSet : OwnerMap[t] = q.key}
        <3>1. ASSUME NEW t \in LiveSet PROVE t \in OpenRows(q.key) <=> OwnerMap[t] = q.key
            BY <3>1 DEF LiveSet, Live, OwnerMap, OpenRows, RowsOf, Created
        <3> QED
            BY <3>1
    <2>8. OwnerMap[n] = None
        BY <2>2 DEF OwnerMap
    <2> QED
        BY <1>a, <1>b, <1>c, <2>2, <2>5, <2>6, <2>7, <2>8
<1> QED
    BY <1>1, <1>2, <1>3, <1>4, RowStep

\* The session tables implement the contract the connections rely on: a session
\* is opened in the step that ends its predecessor, ends once, and never
\* comes back.
THEOREM AccessImplementsContract ==
    Spec => ImplementsContract
<1>1. Init => Contract!ContractInit
    BY DEF Init, Contract!ContractInit, Live, Created
<1>2. AccessInv /\ [Next]_vars => [Contract!ContractNext]_(Contract!contractVars)
    BY ContractStep
<1> QED
    BY <1>1, <1>2, AccessInductive, PTL DEF Spec, ImplementsContract, Contract!ContractSpec
=============================================================================
