------------------------ MODULE AdministrationProofs ------------------------
(* Administrators, tournaments, images, their migration and the officials:    *)
(* somebody can always administer, sports in use stay active, owners with     *)
(* access keep their tournaments, images in use are stored and served, crews   *)
(* stay whole and brackets staffable, for any number of accounts,              *)
(* tournaments, images, workers, commands, officials and matches.              *)
EXTENDS Administration, StorageMigration, Media, Staffing, FiniteSetTheorems, SequenceTheorems, TLAPS

-----------------------------------------------------------------------------
(* The storage migration.                                                    *)

\* What may be said of a command while it runs: the application is frozen and
\* its source is the store in use; the keys it has collected include every key
\* in use, and those a verification has read and found equal are good in the
\* destination.
Sound(c) ==
    /\ c.step # "OFF" => frozen /\ From(c.direction) = driver
    /\ c.step = "PREFLIGHT" => live \subseteq c.keys
    /\ c.step = "WRITE" => c.todo # {}
    /\ c.step = "VERIFY" /\ c.safe => \A k \in live \ c.todo : object[To(c.direction)][k] = "GOOD"

\* A direction reported safe in this freeze is safe.
VerdictsHold ==
    \A d \in verified :
        frozen /\ From(d) = driver /\ \A k \in live : object[To(d)][k] = "GOOD"

\* The inductive invariant.
MigrationInv ==
    /\ MigrationTypeOK /\ LiveImagesAreServed /\ VerdictsHold
    /\ \A p \in Commands : Sound(command[p])

\* What a command may do to the stores: nothing to the one in use, and no good
\* copy of a key in use is lost.
Harmless ==
    /\ object' \in [Stores -> [ImageKeys -> Bytes]]
    /\ object'[driver] = object[driver]
    /\ \A s \in Stores, k \in live : object[s][k] = "GOOD" => object'[s][k] = "GOOD"

LEMMA OtherStore ==
    ASSUME NEW d \in Directions
    PROVE  From(d) \in Stores /\ To(d) \in Stores /\ To(d) # From(d)
BY DEF Directions, Stores, From, To

LEMMA FirstIsOne ==
    ASSUME NEW ks, ks # {}
    PROVE  First(ks) \in ks
BY DEF First

\* Copying out of the store in use is harmless.
LEMMA CopyIsHarmless ==
    ASSUME MigrationInv, NEW d \in Directions, From(d) = driver, NEW k \in ImageKeys,
           object' = [object EXCEPT ![To(d)][k] = object[From(d)][k]]
    PROVE  Harmless
BY OtherStore DEF Harmless, MigrationInv, MigrationTypeOK, LiveImagesAreServed

\* A step of one command keeps the invariant if what it makes of the command
\* is sound and its stores are harmless.
LEMMA CommandFrame ==
    ASSUME MigrationInv, NEW p \in Commands, NEW c \in CommandType, Sound(c),
           command' = [command EXCEPT ![p] = c], UNCHANGED applicationVars, Harmless,
           \A d \in verified' : d \in Directions /\ frozen /\ From(d) = driver
                                  /\ \A k \in live : object[To(d)][k] = "GOOD",
           migration' \in [ImageKeys -> {"NONE", "PENDING", "COMPLETED"}],
           trouble' \in 0..MaxTrouble
    PROVE  MigrationInv'
<1> USE DEF MigrationInv
<1>1. UNCHANGED driver /\ UNCHANGED frozen /\ UNCHANGED used /\ UNCHANGED live
    BY DEF applicationVars
<1>2. MigrationTypeOK'
    <2>1. command' \in [Commands -> CommandType]
        BY DEF MigrationTypeOK
    <2> QED
        BY <1>1, <2>1 DEF MigrationTypeOK, Harmless
<1>3. LiveImagesAreServed'
    BY <1>1 DEF LiveImagesAreServed, Harmless
<1>4. VerdictsHold'
    BY <1>1, OtherStore DEF VerdictsHold, Harmless
<1>5. ASSUME NEW q \in Commands PROVE Sound(command[q])'
    <2>1. Sound(command'[q]) /\ command'[q] \in CommandType
        BY DEF MigrationTypeOK
    <2>2. command'[q].direction \in Directions
        BY <2>1 DEF CommandType
    <2> DEFINE e == command'[q]
    <2>3. e.step # "OFF" => frozen' /\ From(e.direction) = driver'
        BY <1>1, <2>1 DEF Sound
    <2>4. e.step = "PREFLIGHT" => live' \subseteq e.keys
        BY <1>1, <2>1 DEF Sound
    <2>5. e.step = "WRITE" => e.todo # {}
        BY <2>1 DEF Sound
    <2>6. ASSUME e.step = "VERIFY", e.safe
          PROVE  \A k \in live' \ e.todo : object'[To(e.direction)][k] = "GOOD"
        BY <1>1, <2>1, <2>2, <2>6, OtherStore DEF Sound, Harmless
    <2> QED
        BY <2>3, <2>4, <2>5, <2>6 DEF Sound
<1> QED
    BY <1>2, <1>3, <1>4, <1>5

LEMMA OffIsSound ==
    Off \in CommandType /\ Sound(Off)
<1>1. FALSE \in BOOLEAN
    OBVIOUS
<1> QED
    BY <1>1 DEF Off, CommandType, Steps, Modes, Directions, Sound

\* The facts about a command that its steps use.
LEMMA CommandFacts ==
    ASSUME MigrationInv, NEW p \in Commands
    PROVE  LET c == command[p] IN
           /\ c \in CommandType /\ Sound(c)
           /\ c.direction \in Directions /\ c.mode \in Modes /\ c.safe \in BOOLEAN
           /\ c.todo \subseteq ImageKeys /\ c.keys \subseteq ImageKeys /\ c.planned \subseteq ImageKeys
BY DEF MigrationInv, MigrationTypeOK, CommandType

\* A step that leaves the stores, the reports and the application alone.
LEMMA QuietCommand ==
    ASSUME MigrationInv, NEW p \in Commands, NEW c \in CommandType, Sound(c),
           command' = [command EXCEPT ![p] = c],
           UNCHANGED <<applicationVars, verified, object>>,
           migration' \in [ImageKeys -> {"NONE", "PENDING", "COMPLETED"}],
           trouble' \in 0..MaxTrouble
    PROVE  MigrationInv'
<1>1. Harmless
    BY DEF Harmless, MigrationInv, MigrationTypeOK
<1>2. \A d \in verified' : d \in Directions /\ frozen /\ From(d) = driver
                              /\ \A k \in live : object[To(d)][k] = "GOOD"
    BY DEF MigrationInv, MigrationTypeOK, VerdictsHold
<1> QED
    BY <1>1, <1>2, CommandFrame

LEMMA StartCommandStep ==
    ASSUME MigrationInv, NEW p \in Commands, NEW mode \in Modes, NEW d \in Directions,
           StartCommand(p, mode, d)
    PROVE  MigrationInv'
<1> DEFINE keys == live \cup {k \in ImageKeys : migration[k] = "PENDING"}
           c == [step |-> "PREFLIGHT", mode |-> mode, direction |-> d, todo |-> keys,
                 keys |-> keys, planned |-> {}, safe |-> TRUE]
<1>1. keys \subseteq ImageKeys /\ TRUE \in BOOLEAN
    BY DEF MigrationInv, MigrationTypeOK
<1>2. c \in CommandType
    BY <1>1 DEF CommandType, Steps
<1>3. Sound(c)
    BY DEF Sound, StartCommand
<1>4. command' = [command EXCEPT ![p] = c]
    BY DEF StartCommand
<1> HIDE DEF c
<1> QED
    BY <1>2, <1>3, <1>4, QuietCommand DEF StartCommand, MigrationInv, MigrationTypeOK

\* Reading an object changes at most the count of troubles.
LEMMA InspectedTrouble ==
    ASSUME MigrationInv, NEW d, NEW k, NEW action, Inspected(d, k, action)
    PROVE  trouble' \in 0..MaxTrouble
BY MigrationAssumption DEF Inspected, MigrationInv, MigrationTypeOK

LEMMA InspectStep ==
    ASSUME MigrationInv, NEW p \in Commands, Inspect(p)
    PROVE  MigrationInv'
<1> DEFINE c == command[p]
           k == First(c.todo)
<1>1. PICK action \in Verdicts :
        /\ Inspected(c.direction, k, action)
        /\ command' = [command EXCEPT ![p] =
             [c EXCEPT !.todo = @ \ {k},
                       !.planned = IF action = "copy" THEN @ \cup {k} ELSE @,
                       !.safe = @ /\ action \in {"copy", "equal"}]]
    BY DEF Inspect
<1> DEFINE e == [c EXCEPT !.todo = @ \ {k},
                          !.planned = IF action = "copy" THEN @ \cup {k} ELSE @,
                          !.safe = @ /\ action \in {"copy", "equal"}]
<1>2. c \in CommandType /\ c.step = "PREFLIGHT" /\ k \in c.todo /\ c.todo \subseteq ImageKeys /\ Sound(c)
    BY CommandFacts, FirstIsOne DEF Inspect
<1> HIDE DEF k, c
<1>3. (c.safe /\ action \in {"copy", "equal"}) \in BOOLEAN
    OBVIOUS
<1>4. e \in CommandType
    BY <1>2, <1>3 DEF CommandType
<1>5. e.step = c.step /\ e.direction = c.direction /\ e.keys = c.keys
    BY <1>2 DEF CommandType
<1> HIDE DEF e
<1>6. Sound(e)
    BY <1>2, <1>5 DEF Sound
<1> QED
    BY <1>1, <1>4, <1>6, QuietCommand, InspectedTrouble
        DEF Inspect, MigrationInv, MigrationTypeOK, e, c

LEMMA EndPreflightStep ==
    ASSUME MigrationInv, NEW p \in Commands, EndPreflight(p)
    PROVE  MigrationInv'
<1> DEFINE c == command[p]
           goOn(keys) == [c EXCEPT !.step = c.mode, !.todo = keys, !.keys = {}, !.planned = {}]
<1>1. /\ c \in CommandType /\ c.step = "PREFLIGHT" /\ Sound(c)
      /\ c.keys \subseteq ImageKeys /\ c.planned \subseteq ImageKeys
    BY CommandFacts DEF EndPreflight
<1>2. command' = [command EXCEPT ![p] =
         IF c.mode = "VERIFY" THEN goOn(c.keys) ELSE IF c.safe THEN goOn(c.planned) ELSE Off]
    BY DEF EndPreflight
<1> HIDE DEF c
<1>3. ASSUME NEW ks \in SUBSET ImageKeys
      PROVE  /\ goOn(ks) \in CommandType
             /\ goOn(ks).step = c.mode /\ goOn(ks).todo = ks /\ goOn(ks).direction = c.direction
    BY <1>1 DEF CommandType, Modes, Steps
<1>4. c.mode \in {"COPY", "VERIFY"} /\ frozen /\ From(c.direction) = driver /\ live \subseteq c.keys
    BY <1>1 DEF CommandType, Modes, Sound
<1> HIDE DEF goOn
<1>5. CASE c.mode = "VERIFY"
    <2>1. Sound(goOn(c.keys))
        BY <1>1, <1>3, <1>4, <1>5 DEF Sound
    <2> QED
        BY <1>1, <1>2, <1>3, <1>5, <2>1, QuietCommand
            DEF EndPreflight, MigrationInv, MigrationTypeOK
<1>6. CASE c.mode = "COPY" /\ c.safe
    <2>1. Sound(goOn(c.planned))
        BY <1>1, <1>3, <1>4, <1>6 DEF Sound
    <2> QED
        BY <1>1, <1>2, <1>3, <1>6, <2>1, QuietCommand
            DEF EndPreflight, MigrationInv, MigrationTypeOK
<1>7. CASE c.mode = "COPY" /\ ~c.safe
    BY <1>2, <1>7, OffIsSound, QuietCommand DEF EndPreflight, MigrationInv, MigrationTypeOK
<1> QED
    BY <1>4, <1>5, <1>6, <1>7

LEMMA BeginCopyStep ==
    ASSUME MigrationInv, NEW p \in Commands, BeginCopy(p)
    PROVE  MigrationInv'
<1> DEFINE c == command[p]
           k == First(c.todo)
           ready == [c EXCEPT !.step = "WRITE"]
           next == [c EXCEPT !.todo = @ \ {k}]
<1>1. /\ c \in CommandType /\ c.step = "COPY" /\ Sound(c) /\ c.todo # {}
      /\ k \in ImageKeys /\ c.todo \subseteq ImageKeys
    BY CommandFacts, FirstIsOne DEF BeginCopy
<1>2. \E e \in {ready, next, Off} : command' = [command EXCEPT ![p] = e]
    BY DEF BeginCopy
<1>3. migration' \in [ImageKeys -> {"NONE", "PENDING", "COMPLETED"}]
    BY <1>1 DEF BeginCopy, MigrationInv, MigrationTypeOK
<1>4. UNCHANGED <<applicationVars, verified, object>> /\ trouble' \in 0..MaxTrouble
    BY DEF BeginCopy, MigrationInv, MigrationTypeOK
<1> HIDE DEF c, k
<1>5. ready \in CommandType /\ next \in CommandType
    BY <1>1 DEF CommandType, Steps
<1>6. /\ ready.step = "WRITE" /\ ready.todo = c.todo /\ ready.direction = c.direction
      /\ next.step = "COPY" /\ next.direction = c.direction
    BY <1>1 DEF CommandType
<1> HIDE DEF ready, next
<1>7. Sound(ready) /\ Sound(next)
    BY <1>1, <1>6 DEF Sound
<1> QED
    BY <1>2, <1>3, <1>4, <1>5, <1>7, OffIsSound, QuietCommand
\* The reports of this freeze stay true when nothing new is reported.
LEMMA VerdictsKept ==
    ASSUME MigrationInv
    PROVE  \A d \in verified : d \in Directions /\ frozen /\ From(d) = driver
                                 /\ \A k \in live : object[To(d)][k] = "GOOD"
BY DEF MigrationInv, MigrationTypeOK, VerdictsHold

LEMMA FinishCopyStep ==
    ASSUME MigrationInv, NEW p \in Commands, FinishCopy(p)
    PROVE  MigrationInv'
<1> DEFINE c == command[p]
           k == First(c.todo)
           done == [c EXCEPT !.step = "COPY", !.todo = @ \ {k}]
<1>1. c \in CommandType /\ c.step = "WRITE" /\ Sound(c) /\ c.direction \in Directions
    BY CommandFacts DEF FinishCopy
<1>2. c.todo # {} /\ c.todo \subseteq ImageKeys /\ From(c.direction) = driver
    BY <1>1, CommandFacts DEF Sound
<1>3. k \in ImageKeys
    BY <1>2, FirstIsOne
<1>4. \E e \in {done, Off} : command' = [command EXCEPT ![p] = e]
    BY DEF FinishCopy
<1>5. UNCHANGED object \/ object' = [object EXCEPT ![To(c.direction)][k] = object[From(c.direction)][k]]
    BY DEF FinishCopy
<1>6. /\ UNCHANGED <<applicationVars, verified>> /\ trouble' \in 0..MaxTrouble
      /\ migration' \in [ImageKeys -> {"NONE", "PENDING", "COMPLETED"}]
    BY DEF FinishCopy, MigrationInv, MigrationTypeOK
<1> HIDE DEF c, k
<1>7. Harmless
    <2>1. CASE UNCHANGED object
        BY <2>1 DEF Harmless, MigrationInv, MigrationTypeOK
    <2> QED
        BY <1>1, <1>2, <1>3, <1>5, <2>1, CopyIsHarmless
<1>8. done \in CommandType /\ done.step = "COPY" /\ done.direction = c.direction
    BY <1>1 DEF CommandType, Steps
<1> HIDE DEF done
<1>9. Sound(done)
    BY <1>1, <1>8 DEF Sound
<1> QED
    BY <1>4, <1>6, <1>7, <1>8, <1>9, OffIsSound, VerdictsKept, CommandFrame

\* A key counts as verified only if the destination holds what the store in use
\* holds, which is good for a key in use.
LEMMA VerifyKeyStep ==
    ASSUME MigrationInv, NEW p \in Commands, VerifyKey(p)
    PROVE  MigrationInv'
<1> DEFINE c == command[p]
           k == First(c.todo)
<1>1. PICK action \in Verdicts :
        /\ Inspected(c.direction, k, action)
        /\ command' = [command EXCEPT ![p] =
             [c EXCEPT !.todo = @ \ {k}, !.safe = @ /\ action = "equal"]]
        /\ migration' = [migration EXCEPT ![k] =
             IF c.direction = "FORWARD" /\ action = "equal" /\ @ = "PENDING" THEN "COMPLETED" ELSE @]
    BY DEF VerifyKey
<1> DEFINE e == [c EXCEPT !.todo = @ \ {k}, !.safe = @ /\ action = "equal"]
<1>2. /\ c \in CommandType /\ c.step = "VERIFY" /\ Sound(c) /\ c.direction \in Directions
      /\ k \in c.todo /\ c.todo \subseteq ImageKeys
    BY CommandFacts, FirstIsOne DEF VerifyKey
<1>3. migration' \in [ImageKeys -> {"NONE", "PENDING", "COMPLETED"}]
    BY <1>1, <1>2 DEF MigrationInv, MigrationTypeOK
<1>4. UNCHANGED <<applicationVars, verified, object>> /\ trouble' \in 0..MaxTrouble
    BY <1>1, InspectedTrouble DEF VerifyKey
<1> HIDE DEF c, k
<1>5. (c.safe /\ action = "equal") \in BOOLEAN
    OBVIOUS
<1>6. e \in CommandType
    BY <1>2, <1>5 DEF CommandType
<1>7. /\ e.step = "VERIFY" /\ e.direction = c.direction /\ e.todo = c.todo \ {k}
      /\ e.safe = (c.safe /\ action = "equal")
    BY <1>2 DEF CommandType
<1> HIDE DEF e
<1>8. ASSUME e.safe, NEW i \in live \ e.todo PROVE object[To(e.direction)][i] = "GOOD"
    <2>1. c.safe /\ action = "equal"
        BY <1>7, <1>8, Zenon
    <2>2. CASE i \notin c.todo
        BY <1>2, <1>7, <1>8, <2>1, <2>2 DEF Sound
    <2>3. CASE i = k
        <3>1. Parity(object[From(c.direction)][k], object[To(c.direction)][k]) = "equal"
            BY <1>1, <2>1 DEF Inspected, ParityOf
        <3>2. object[From(c.direction)][k] = "GOOD"
            BY <1>2, <2>3 DEF Sound, MigrationInv, LiveImagesAreServed
        <3> QED
            BY <1>7, <2>3, <3>1, <3>2 DEF Parity
    <2> QED
        BY <1>7, <1>8, <2>2, <2>3
<1>9. Sound(e)
    BY <1>2, <1>7, <1>8 DEF Sound
<1>10. command' = [command EXCEPT ![p] = e]
    BY <1>1 DEF e
<1> QED
    BY <1>3, <1>4, <1>6, <1>9, <1>10, QuietCommand

LEMMA ReportStep ==
    ASSUME MigrationInv, NEW p \in Commands, Report(p)
    PROVE  MigrationInv'
<1> DEFINE c == command[p]
<1>1. /\ c \in CommandType /\ Sound(c) /\ c.direction \in Directions
      /\ c.step \in {"COPY", "VERIFY"} /\ c.todo = {}
    BY CommandFacts DEF Report
<1>2. /\ verified' = IF c.step = "VERIFY" /\ c.safe THEN verified \cup {c.direction} ELSE verified
      /\ command' = [command EXCEPT ![p] = Off]
      /\ UNCHANGED <<applicationVars, object, migration, trouble>>
    BY DEF Report
<1> HIDE DEF c
<1>3. Harmless
    BY <1>2 DEF Harmless, MigrationInv, MigrationTypeOK
<1>4. ASSUME NEW d \in verified'
      PROVE  d \in Directions /\ frozen /\ From(d) = driver
               /\ \A k \in live : object[To(d)][k] = "GOOD"
    <2>1. CASE d \in verified
        BY <2>1, VerdictsKept
    <2>2. CASE c.step = "VERIFY" /\ c.safe /\ d = c.direction
        BY <1>1, <2>2 DEF Sound
    <2> QED
        BY <1>2, <2>1, <2>2
<1> QED
    BY <1>2, <1>3, <1>4, OffIsSound, CommandFrame DEF MigrationInv, MigrationTypeOK

LEMMA InterruptStep ==
    ASSUME MigrationInv, NEW p \in Commands, Interrupt(p)
    PROVE  MigrationInv'
<1> DEFINE c == command[p]
           k == First(c.todo)
<1>1. /\ command' = [command EXCEPT ![p] = Off]
      /\ UNCHANGED <<applicationVars, verified, migration>>
      /\ trouble < MaxTrouble /\ trouble' = trouble + 1
    BY DEF Interrupt
<1>2. Harmless
    <2>1. CASE UNCHANGED object
        BY <2>1 DEF Harmless, MigrationInv, MigrationTypeOK
    <2>2. CASE /\ c.step = "WRITE" /\ c.direction = "FORWARD"
               /\ object' = [object EXCEPT !["S3"][k] = object["LOCAL"][k]]
        <3>1. Sound(c) /\ c.todo \subseteq ImageKeys
            BY CommandFacts
        <3>2. From("FORWARD") = driver /\ c.todo # {}
            BY <2>2, <3>1 DEF Sound
        <3>3. k \in ImageKeys
            BY <3>1, <3>2, FirstIsOne
        <3>4. From("FORWARD") = "LOCAL" /\ To("FORWARD") = "S3" /\ "FORWARD" \in Directions
            BY DEF From, To, Directions
        <3> HIDE DEF k
        <3> QED
            BY <2>2, <3>2, <3>3, <3>4, CopyIsHarmless
    <2> QED
        BY <2>1, <2>2 DEF Interrupt
<1>3. trouble' \in 0..MaxTrouble
    BY <1>1, MigrationAssumption DEF MigrationInv, MigrationTypeOK
<1> QED
    BY <1>1, <1>2, <1>3, OffIsSound, VerdictsKept, CommandFrame DEF MigrationInv, MigrationTypeOK

\* While the application is not frozen no command runs and no report counts.
LEMMA NothingRuns ==
    ASSUME MigrationInv, ~frozen
    PROVE  verified = {} /\ \A p \in Commands : command[p].step = "OFF"
BY DEF MigrationInv, VerdictsHold, Sound

LEMMA IdleIsSound ==
    ASSUME NEW p \in Commands, command'[p].step = "OFF"
    PROVE  Sound(command[p])'
BY DEF Sound

LEMMA ApplicationStep ==
    ASSUME MigrationInv, ~frozen,
           \/ \E k \in ImageKeys : \/ Upload(k) \/ Unreference(k) \/ Reconcile(k)
                                   \/ \E b \in Bytes \ {"GOOD"} : Spoil(k, b)
           \/ Freeze
    PROVE  MigrationInv'
<1> USE DEF MigrationInv
<1>1. UNCHANGED <<driver, verified, migration, command>> /\ verified' = {}
    BY NothingRuns DEF Upload, Unreference, Reconcile, Spoil, Freeze, applicationVars
<1>2. \A p \in Commands : Sound(command[p])'
    BY <1>1, NothingRuns, IdleIsSound
<1>3. VerdictsHold'
    BY <1>1 DEF VerdictsHold
<1>4. ASSUME NEW k \in ImageKeys, Upload(k) PROVE MigrationTypeOK' /\ LiveImagesAreServed'
    BY <1>4 DEF Upload, MigrationTypeOK, LiveImagesAreServed, Bytes
<1>5. ASSUME NEW k \in ImageKeys, Unreference(k) PROVE MigrationTypeOK' /\ LiveImagesAreServed'
    BY <1>5 DEF Unreference, MigrationTypeOK, LiveImagesAreServed
<1>6. ASSUME NEW k \in ImageKeys, Reconcile(k) PROVE MigrationTypeOK' /\ LiveImagesAreServed'
    BY <1>6 DEF Reconcile, MigrationTypeOK, LiveImagesAreServed, Bytes, applicationVars
<1>7. ASSUME NEW k \in ImageKeys, NEW b \in Bytes, Spoil(k, b)
      PROVE  MigrationTypeOK' /\ LiveImagesAreServed'
    <2>1. PICK s \in Stores : s # driver /\ object' = [object EXCEPT ![s][k] = b]
        BY <1>7 DEF Spoil, Unused
    <2>2. trouble' \in 0..MaxTrouble
        BY <1>7, MigrationAssumption DEF Spoil, MigrationTypeOK
    <2> QED
        BY <1>7, <2>1, <2>2 DEF Spoil, MigrationTypeOK, LiveImagesAreServed, applicationVars
<1>8. CASE Freeze
    <2>1. frozen' \in BOOLEAN
        BY <1>8 DEF Freeze
    <2> QED
        BY <1>2, <1>3, <1>8, <2>1 DEF Freeze, MigrationTypeOK, LiveImagesAreServed
<1> QED
    BY <1>2, <1>3, <1>4, <1>5, <1>6, <1>7, <1>8

\* The driver changes only to the destination of a direction reported safe.
LEMMA ThawStep ==
    ASSUME MigrationInv, NEW d \in Directions, Thaw(d)
    PROVE  MigrationInv'
<1> USE DEF MigrationInv
<1>1. VerdictsHold' /\ \A p \in Commands : Sound(command[p])'
    BY IdleIsSound DEF Thaw, Idle, VerdictsHold
<1>2. frozen' \in BOOLEAN
    BY DEF Thaw
<1>3. MigrationTypeOK'
    BY <1>2, OtherStore DEF Thaw, MigrationTypeOK
<1>4. LiveImagesAreServed'
    BY DEF Thaw, LiveImagesAreServed, VerdictsHold
<1> QED
    BY <1>1, <1>3, <1>4

LEMMA MigrationInductive ==
    MigrationSpec => []MigrationInv
<1>1. MigrationInit => MigrationInv
    <2> SUFFICES ASSUME MigrationInit PROVE MigrationInv
        OBVIOUS
    <2>1. frozen \in BOOLEAN
        BY DEF MigrationInit
    <2>2. command \in [Commands -> CommandType] /\ \A p \in Commands : command[p].step = "OFF"
        BY OffIsSound DEF MigrationInit, Off
    <2> QED
        BY <2>1, <2>2, MigrationAssumption DEF MigrationInit, MigrationInv, MigrationTypeOK,
            LiveImagesAreServed, VerdictsHold, Sound, Stores, Bytes
<1>2. MigrationInv /\ [MigrationNext]_migrationVars => MigrationInv'
    <2> SUFFICES ASSUME MigrationInv, [MigrationNext]_migrationVars PROVE MigrationInv'
        OBVIOUS
    <2>1. CASE UNCHANGED migrationVars
        BY <2>1 DEF migrationVars, MigrationInv, MigrationTypeOK, LiveImagesAreServed,
            VerdictsHold, Sound
    <2>2. ASSUME NEW k \in ImageKeys,
                 Upload(k) \/ Unreference(k) \/ Reconcile(k) \/ (\E b \in Bytes \ {"GOOD"} : Spoil(k, b))
          PROVE  MigrationInv'
        BY <2>2, ApplicationStep DEF Upload, Unreference, Reconcile, Spoil
    <2>3. CASE Freeze
        BY <2>3, ApplicationStep DEF Freeze
    <2> QED
        BY <2>1, <2>2, <2>3, ThawStep, StartCommandStep, InspectStep, EndPreflightStep,
            BeginCopyStep, FinishCopyStep, VerifyKeyStep, ReportStep, InterruptStep
            DEF MigrationNext
<1> QED
    BY <1>1, <1>2, PTL DEF MigrationSpec

\* Every image something refers to can be served from the store in use at any
\* time, through any number of freezes, commands in both directions, kills,
\* repetitions and leftovers: a verification that reported safe was right.
THEOREM ImagesStayServed ==
    MigrationSpec => []LiveImagesAreServed
<1>1. MigrationInv => LiveImagesAreServed
    BY DEF MigrationInv
<1> QED
    BY <1>1, MigrationInductive, PTL
-----------------------------------------------------------------------------
(* Accounts.                                                                 *)

UserOK == user \in [Users -> UserType]

\* The inductive invariant of the accounts.
AccountsInv == UserOK /\ SuperAdminRemains

\* What a step may do to the accounts: nothing, ...
SameUsers == UNCHANGED user

\* ... or to an account that is no super administrator's, ...
OwnerChanges == \E u \in Owners, x \in UserType : user' = [user EXCEPT ![u] = x]

\* ... or make one active, ...
Activates == \E u \in Users : user' = [user EXCEPT ![u].isActive = TRUE]

\* ... or disable one that is not the last super administrator's, ...
Disables ==
    \E u \in Users, x \in UserType :
        (u \in Supers => CanRemove) /\ user' = [user EXCEPT ![u] = x]

\* ... or give back a deleted one, still inactive.
Undeletes == \E u \in Users, x \in UserType : user[u].deleted /\ user' = [user EXCEPT ![u] = x]

LEMMA UserRecord ==
    ASSUME UserOK, NEW u \in Users, NEW a \in BOOLEAN, NEW b \in BOOLEAN
    PROVE  /\ [user[u] EXCEPT !.isActive = a] \in UserType
           /\ [[user[u] EXCEPT !.isActive = a] EXCEPT !.deleted = b] \in UserType
           /\ [user EXCEPT ![u].isActive = a, ![u].deleted = b] =
                [user EXCEPT ![u] = [[user[u] EXCEPT !.isActive = a] EXCEPT !.deleted = b]]
BY DEF UserOK, UserType

LEMMA UserStep ==
    ASSUME UserOK, [AdministrationNext]_adminVars
    PROVE  SameUsers \/ OwnerChanges \/ Activates \/ Disables \/ Undeletes
<1>0. TRUE \in BOOLEAN /\ FALSE \in BOOLEAN /\ Owners \subseteq Users /\ Supers \subseteq Users
    BY DEF Users
<1>1. NewUser \in UserType
    BY <1>0 DEF NewUser, UserType
<1>2. ASSUME NEW u \in Owners, Register(u) PROVE OwnerChanges
    BY <1>1, <1>2 DEF Register, OwnerChanges
<1>3. ASSUME NEW s, NEW u \in Owners, NEW until, NEW limit, CreateUser(s, u, until, limit)
      PROVE  OwnerChanges
    BY <1>1, <1>3 DEF CreateUser, OwnerChanges
<1>4. ASSUME NEW s, NEW u \in Owners, NEW until, NEW limit, GrantAccess(s, u, until, limit)
      PROVE  Activates
    BY <1>0, <1>4 DEF GrantAccess, Activates
<1>5. ASSUME NEW s, NEW u \in Users, SetActive(s, u, TRUE) PROVE Activates
    BY <1>5 DEF SetActive, Activates
<1>6. ASSUME NEW s, NEW u \in Users, SetActive(s, u, FALSE) PROVE Disables
    <2>1. user' = [user EXCEPT ![u] = [user[u] EXCEPT !.isActive = FALSE]]
        BY <1>6 DEF SetActive
    <2> QED
        BY <1>0, <1>6, <2>1, UserRecord DEF SetActive, Disables
<1>7. ASSUME NEW s, NEW u \in Users, Remove(s, u) PROVE Disables
    <2>1. user' = [user EXCEPT ![u] = [[user[u] EXCEPT !.isActive = FALSE] EXCEPT !.deleted = TRUE]]
        BY <1>0, <1>7, UserRecord DEF Remove
    <2> QED
        BY <1>0, <1>7, <2>1, UserRecord DEF Remove, Disables
<1>8. ASSUME NEW s, NEW u \in Users, Restore(s, u) PROVE Undeletes
    <2>1. user' = [user EXCEPT ![u] = [[user[u] EXCEPT !.isActive = FALSE] EXCEPT !.deleted = FALSE]]
        BY <1>0, <1>8, UserRecord DEF Restore
    <2> QED
        BY <1>0, <1>8, <2>1, UserRecord DEF Restore, Undeletes
<1>9. ASSUME \/ \E u : Admit(u) \/ Refuse(u)
             \/ \E s, u, status, until, limit : ChangeAccess(s, u, status, until, limit)
             \/ \E s, q, b : UpdateSport(s, q) \/ CreateSport(s, q, b)
             \/ \E u, k, d : Activate(u, k, d)
             \/ \E u, t, q : CreateTournament(u, t, q) \/ UpdateTournament(u, t, q)
             \/ Run \/ Tick \/ UNCHANGED adminVars
      PROVE  SameUsers
    BY <1>9 DEF SameUsers, Admit, Refuse, ChangeAccess, UpdateSport, CreateSport, Activate,
        CreateTournament, UpdateTournament, Run, Tick, adminVars
<1> QED
    BY <1>2, <1>3, <1>4, <1>5, <1>6, <1>7, <1>8, <1>9 DEF AdministrationNext

\* When an account may be disabled, another super administrator is usable.
LEMMA AnotherSuper ==
    ASSUME CanRemove, NEW u
    PROVE  \E s \in Supers : s # u /\ Usable(s)
<1> DEFINE S == {s \in Supers : Usable(s)}
<1> SUFFICES ASSUME \A s \in S : s = u PROVE FALSE
    OBVIOUS
<1>1. Cardinality(S) > 1
    BY DEF CanRemove
<1> HIDE DEF S
<1>2. S = {} \/ S = {u}
    OBVIOUS
<1>3. Cardinality({}) = 0 /\ Cardinality({u}) = 1
    BY FS_EmptySet, FS_Singleton
<1> QED
    BY <1>1, <1>2, <1>3

LEMMA AccountsStep ==
    ASSUME AccountsInv, [AdministrationNext]_adminVars
    PROVE  AccountsInv'
<1> USE DEF AccountsInv, UserOK, SuperAdminRemains, Usable
<1>0. Supers \subseteq Users /\ Owners \subseteq Users /\ Supers \cap Owners = {}
    BY AdministrationAssumption DEF Users
<1>1. CASE SameUsers
    BY <1>1 DEF SameUsers
<1>2. CASE OwnerChanges
    <2>1. PICK u \in Owners, x \in UserType : user' = [user EXCEPT ![u] = x]
        BY <1>2 DEF OwnerChanges
    <2> QED
        BY <1>0, <2>1
<1>3. CASE Activates
    <2>1. PICK u \in Users : user' = [user EXCEPT ![u].isActive = TRUE]
        BY <1>3 DEF Activates
    <2>2. TRUE \in BOOLEAN
        OBVIOUS
    <2>3. [user[u] EXCEPT !.isActive = TRUE] \in UserType
        BY <2>2, UserRecord
    <2>4. UserOK'
        BY <2>1, <2>3
    <2>5. PICK s \in Supers : user[s].isActive /\ ~user[s].deleted
        OBVIOUS
    <2>6. user'[s].isActive /\ ~user'[s].deleted
        <3>1. CASE s = u
            <4>1. user[u] \in UserType /\ user'[u] = [user[u] EXCEPT !.isActive = TRUE]
                BY <2>1
            <4>2. user'[u].isActive = TRUE /\ user'[u].deleted = user[u].deleted
                BY <4>1 DEF UserType
            <4> QED
                BY <2>5, <3>1, <4>2
        <3>2. CASE s # u
            BY <1>0, <2>1, <2>5, <3>2
        <3> QED
            BY <3>1, <3>2
    <2> QED
        BY <2>4, <2>6
<1>4. CASE Disables
    <2>1. PICK u \in Users, x \in UserType :
            (u \in Supers => CanRemove) /\ user' = [user EXCEPT ![u] = x]
        BY <1>4 DEF Disables
    <2>2. UserOK'
        BY <2>1
    <2>3. PICK s \in Supers : s # u /\ Usable(s)
        BY <2>1, AnotherSuper
    <2> QED
        BY <1>0, <2>1, <2>2, <2>3
<1>5. CASE Undeletes
    <2>1. PICK u \in Users, x \in UserType : user[u].deleted /\ user' = [user EXCEPT ![u] = x]
        BY <1>5 DEF Undeletes
    <2>2. PICK s \in Supers : user[s].isActive /\ ~user[s].deleted
        OBVIOUS
    <2> QED
        BY <1>0, <2>1, <2>2
<1> QED
    BY <1>1, <1>2, <1>3, <1>4, <1>5, UserStep

\* Some super administrator can always sign in: the requests of two of them
\* that were admitted together cannot disable or delete both.
THEOREM SomeoneCanAdminister ==
    AdministrationSpec => []SuperAdminRemains
<1>1. AdministrationInit => AccountsInv
    <2> SUFFICES ASSUME AdministrationInit PROVE AccountsInv
        OBVIOUS
    <2>0. TRUE \in BOOLEAN /\ FALSE \in BOOLEAN
        OBVIOUS
    <2>1. NewUser \in UserType /\ NoUser \in UserType
        BY <2>0 DEF NewUser, NoUser, UserType
    <2>2. UserOK
        BY <2>1 DEF AdministrationInit, UserOK
    <2>3. PICK s \in Supers : TRUE
        BY AdministrationAssumption
    <2>4. user[s] = NewUser
        BY DEF AdministrationInit, Users
    <2> QED
        BY <2>2, <2>4 DEF AccountsInv, SuperAdminRemains, Usable, NewUser
<1>2. AccountsInv => SuperAdminRemains
    BY DEF AccountsInv
<1> QED
    BY <1>1, <1>2, AccountsStep, PTL DEF AdministrationSpec
-----------------------------------------------------------------------------
(* Tournaments.                                                              *)

EntOK == ent \in [Users -> EntType \cup {NoEnt}] /\ now \in Nat \ {0}
CatalogueOK ==
    /\ tour \in [Tournaments -> TourType \cup {NoTour}]
    /\ sport \in [Sports -> {"ABSENT", "ACTIVE", "INACTIVE"}]

\* A sport with a tournament is active, hidden tournaments included: a hidden
\* one may come back.
SportsOfAllAreActive ==
    \A t \in Tournaments : tour[t].exists => sport[tour[t].sport] = "ACTIVE"

\* Only the sweep hides, and it leaves super administrators alone.
OwnersAreHidden == \A t \in Tournaments : Hidden(t) => tour[t].owner \in Owners

\* The inductive invariant of entitlements and tournaments.
TournamentsInv == EntOK /\ CatalogueOK /\ SportsOfAllAreActive /\ OwnersAreHidden

LEMMA EntStep ==
    ASSUME EntOK, [AdministrationNext]_adminVars
    PROVE  EntOK'
<1> USE DEF EntOK
<1>0. Never \in Nat /\ 0 \in Nat /\ Statuses = {"ACTIVE", "EXPIRED", "SUSPENDED", "REVOKED"}
    BY DEF Never, Statuses
<1>1. ASSUME NEW u, NEW until \in Nat, NEW limit \in Nat,
             ent' = [ent EXCEPT ![u] = [status |-> "ACTIVE", until |-> until, ended |-> Never,
                                        limit |-> limit]]
      PROVE  ent' \in [Users -> EntType \cup {NoEnt}]
    <2>1. [status |-> "ACTIVE", until |-> until, ended |-> Never, limit |-> limit] \in EntType
        BY <1>0 DEF EntType
    <2> QED
        BY <1>1, <2>1
<1>2. ASSUME NEW u \in Users PROVE ent[u].until \in Nat /\ ent[u].limit \in Nat /\ ent[u].ended \in Nat
    BY <1>0 DEF EntType, NoEnt
<1>3. ASSUME NEW s, NEW u \in Owners, NEW d \in Periods, NEW limit \in 0..1,
             GrantAccess(s, u, now + d, limit) \/ CreateUser(s, u, now + d, limit)
      PROVE  EntOK'
    <2>1. now + d \in Nat /\ limit \in Nat
        BY AdministrationAssumption
    <2> QED
        BY <1>1, <1>3, <2>1 DEF GrantAccess, CreateUser, Request
<1>4. ASSUME NEW s, NEW u \in Owners, NEW d \in Periods, NEW limit \in 0..1, NEW status \in Statuses,
             NEW until \in {ent[u].until, now, now + d}, ChangeAccess(s, u, status, until, limit)
      PROVE  EntOK'
    <2>0. u \in Users
        BY DEF Users
    <2>1. until \in Nat /\ limit \in Nat /\ EndedUnless(status = "ACTIVE") \in Nat
        BY <1>0, <1>2, <2>0, AdministrationAssumption DEF EndedUnless
    <2>2. ent[u] \in EntType
        BY <1>4, <2>0 DEF ChangeAccess
    <2> DEFINE e1 == [ent[u] EXCEPT !.status = status]
               e2 == [e1 EXCEPT !.until = until]
               e3 == [e2 EXCEPT !.limit = limit]
               e4 == [e3 EXCEPT !.ended = EndedUnless(status = "ACTIVE")]
    <2>3. ent' = [ent EXCEPT ![u] = e4]
        BY <1>4, <2>0 DEF ChangeAccess
    <2>4. e1 \in EntType
        BY <2>2 DEF EntType
    <2> HIDE DEF e1
    <2>5. e2 \in EntType
        BY <2>1, <2>4 DEF EntType
    <2> HIDE DEF e2
    <2>6. e3 \in EntType
        BY <2>1, <2>5 DEF EntType
    <2> HIDE DEF e3
    <2>7. e4 \in EntType
        BY <2>1, <2>6 DEF EntType
    <2> HIDE DEF e4
    <2> QED
        BY <1>4, <2>3, <2>7 DEF ChangeAccess, Request
<1>5. ASSUME NEW u \in Owners, NEW k, NEW d \in Periods, Activate(u, k, d) PROVE EntOK'
    <2>0. u \in Users
        BY DEF Users
    <2> DEFINE on == ent[u].status = "ACTIVE" /\ ent[u].until > now
               until == (IF on THEN ent[u].until ELSE now) + d
               limit == (IF on THEN ent[u].limit ELSE 0) + 1
    <2>1. until \in Nat /\ limit \in Nat
        BY <1>2, <2>0, AdministrationAssumption
    <2>2. ent' = [ent EXCEPT ![u] = [status |-> "ACTIVE", until |-> until, ended |-> Never,
                                     limit |-> limit]]
        BY <1>5 DEF Activate
    <2> HIDE DEF until, limit
    <2> QED
        BY <1>1, <1>5, <2>1, <2>2 DEF Activate, Request
<1>6. ASSUME NEW s, NEW u, Remove(s, u) PROVE EntOK'
    <2>1. ASSUME NEW o \in Users, ent[o].status = "ACTIVE"
          PROVE  [ent[o] EXCEPT !.status = "REVOKED", !.ended = now] \in EntType
        <3>1. ent[o] \in EntType
            BY <2>1 DEF NoEnt
        <3> QED
            BY <1>0, <3>1 DEF EntType
    <2> QED
        BY <1>6, <2>1 DEF Remove, Request
<1>7. CASE Run
    <2>1. ASSUME NEW u \in Users PROVE Expired(ent[u]) \in EntType \cup {NoEnt}
        <3>1. CASE ent[u].status = "ACTIVE" /\ ent[u].until <= now
            <4>1. ent[u] \in EntType
                BY <3>1 DEF NoEnt
            <4> QED
                BY <1>0, <3>1, <4>1 DEF EntType, Expired
        <3> QED
            BY <3>1 DEF Expired
    <2> QED
        BY <1>7, <2>1 DEF Run
<1>8. CASE Tick
    BY <1>8 DEF Tick
<1>9. ASSUME \/ \E u : Admit(u) \/ Refuse(u) \/ Register(u)
             \/ \E s, u, b : SetActive(s, u, b) \/ Restore(s, u)
             \/ \E s, q, b : UpdateSport(s, q) \/ CreateSport(s, q, b)
             \/ \E u, t, q : CreateTournament(u, t, q) \/ UpdateTournament(u, t, q)
             \/ UNCHANGED adminVars
      PROVE  EntOK'
    BY <1>9 DEF Admit, Refuse, Register, SetActive, Restore, UpdateSport, CreateSport,
        CreateTournament, UpdateTournament, Request, adminVars
<1> HIDE DEF EntOK
<1> QED
    <2>1. CASE \E s \in Supers, u \in Owners, d \in Periods : \E limit \in 0..1 :
                 \/ GrantAccess(s, u, now + d, limit)
                 \/ CreateUser(s, u, now + d, limit)
                 \/ \E status \in Statuses, until \in {ent[u].until, now, now + d} :
                      ChangeAccess(s, u, status, until, limit)
        <3>1. PICK s \in Supers, u \in Owners, d \in Periods, limit \in 0..1 :
                 \/ GrantAccess(s, u, now + d, limit)
                 \/ CreateUser(s, u, now + d, limit)
                 \/ \E status \in Statuses, until \in {ent[u].until, now, now + d} :
                      ChangeAccess(s, u, status, until, limit)
            BY <2>1
        <3>2. CASE GrantAccess(s, u, now + d, limit) \/ CreateUser(s, u, now + d, limit)
            BY <1>3, <3>2
        <3>3. CASE \E status \in Statuses, until \in {ent[u].until, now, now + d} :
                      ChangeAccess(s, u, status, until, limit)
            <4>1. PICK status \in Statuses, until \in {ent[u].until, now, now + d} :
                      ChangeAccess(s, u, status, until, limit)
                BY <3>3
            <4> QED
                BY <1>4, <4>1, Zenon
        <3> QED
            BY <3>1, <3>2, <3>3
    <2>2. CASE \E s \in Supers, u \in Users : Remove(s, u)
        BY <1>6, <2>2
    <2>3. CASE \E u \in Owners, k \in Keys, d \in Periods : Activate(u, k, d)
        BY <1>5, <2>3
    <2> QED
        BY <1>7, <1>8, <1>9, <2>1, <2>2, <2>3 DEF AdministrationNext

\* Steps that touch neither a tournament nor a sport.
LEMMA CatalogueStep ==
    ASSUME [AdministrationNext]_adminVars
    PROVE  \/ UNCHANGED <<tour, sport>>
           \/ \E s \in Supers, p \in Sports :
                UpdateSport(s, p) \/ \E b \in {"ACTIVE", "INACTIVE"} : CreateSport(s, p, b)
           \/ \E u \in Owners, k \in Keys, d \in Periods : Activate(u, k, d)
           \/ \E u \in Users, t \in Tournaments, p \in Sports :
                CreateTournament(u, t, p) \/ UpdateTournament(u, t, p)
           \/ Run
<1>1. ASSUME \/ \E u : Admit(u) \/ Refuse(u) \/ Register(u)
             \/ \E s, u, b : SetActive(s, u, b) \/ Restore(s, u) \/ Remove(s, u)
             \/ \E s, u, until, limit : GrantAccess(s, u, until, limit) \/ CreateUser(s, u, until, limit)
             \/ \E s, u, status, until, limit : ChangeAccess(s, u, status, until, limit)
             \/ Tick \/ UNCHANGED adminVars
      PROVE  UNCHANGED <<tour, sport>>
    BY <1>1 DEF adminVars, Admit, Refuse, Remove, Restore, SetActive, GrantAccess,
        CreateUser, ChangeAccess, Register, Tick
<1> QED
    BY <1>1 DEF AdministrationNext

\* What the sweep and a renewal make of a tournament: at most purgeAfter
\* changes, or it is gone.
LEMMA SweptTour ==
    ASSUME CatalogueOK, now \in Nat, NEW t \in Tournaments
    PROVE  /\ Swept(t) \in TourType \cup {NoTour}
           /\ Swept(t).exists => /\ tour[t].exists /\ Swept(t).sport = tour[t].sport
                                 /\ Swept(t).owner = tour[t].owner
<1> USE DEF CatalogueOK
<1>1. ASSUME NEW n \in Nat, tour[t].exists
      PROVE  /\ [tour[t] EXCEPT !.purgeAfter = n] \in TourType
             /\ [tour[t] EXCEPT !.purgeAfter = n].sport = tour[t].sport
             /\ [tour[t] EXCEPT !.purgeAfter = n].owner = tour[t].owner
    <2>1. tour[t] \in TourType
        BY <1>1 DEF NoTour
    <2> QED
        BY <2>1 DEF TourType
<1>2. Never \in Nat /\ now + Recovery \in Nat
    BY AdministrationAssumption DEF Never
<1>3. CASE Restorable(t)
    BY <1>1, <1>2, <1>3 DEF Swept, Restorable, Hidden
<1>4. CASE ~Restorable(t) /\ Lapses(t)
    BY <1>1, <1>2, <1>4 DEF Swept, Lapses, Visible
<1>5. CASE ~Restorable(t) /\ ~Lapses(t)
    BY <1>5 DEF Swept, NoTour
<1> QED
    BY <1>3, <1>4, <1>5
LEMMA TourRecord ==
    ASSUME CatalogueOK, NEW t \in Tournaments, tour[t].exists
    PROVE  /\ tour[t] \in TourType /\ tour[t].owner \in Users /\ tour[t].sport \in Sports
           /\ \A n \in Nat : /\ [tour[t] EXCEPT !.purgeAfter = n] \in TourType
                             /\ [tour[t] EXCEPT !.purgeAfter = n].purgeAfter = n
                             /\ [tour[t] EXCEPT !.purgeAfter = n].sport = tour[t].sport
                             /\ [tour[t] EXCEPT !.purgeAfter = n].owner = tour[t].owner
           /\ \A p \in Sports : /\ [tour[t] EXCEPT !.sport = p] \in TourType
                                /\ [tour[t] EXCEPT !.sport = p].sport = p
                                /\ [tour[t] EXCEPT !.sport = p].purgeAfter = tour[t].purgeAfter
                                /\ [tour[t] EXCEPT !.sport = p].owner = tour[t].owner
<1>1. tour[t] \in TourType
    BY DEF CatalogueOK, NoTour
<1> QED
    BY <1>1 DEF TourType

\* Only the sweep hides or purges, and only what it finds lapsed or out of time;
\* every tournament that is left keeps its owner.
LEMMA TourStep ==
    ASSUME TournamentsInv, [AdministrationNext]_adminVars, NEW t \in Tournaments
    PROVE  /\ tour'[t] \in TourType \cup {NoTour}
           /\ tour'[t].exists => sport'[tour'[t].sport] = "ACTIVE"
           /\ Hidden(t)' => tour'[t].owner \in Owners
           /\ Visible(t) /\ Hidden(t)' => Run /\ Lapses(t)
           /\ Hidden(t) /\ ~tour'[t].exists => Run /\ ~Restorable(t)
           /\ sport' \in [Sports -> {"ABSENT", "ACTIVE", "INACTIVE"}]
<1> USE DEF TournamentsInv
<1>0. /\ tour[t] \in TourType \cup {NoTour} /\ sport \in [Sports -> {"ABSENT", "ACTIVE", "INACTIVE"}]
      /\ tour[t].exists => sport[tour[t].sport] = "ACTIVE"
      /\ Hidden(t) => tour[t].owner \in Owners
      /\ DOMAIN tour = Tournaments
    BY DEF CatalogueOK, SportsOfAllAreActive, OwnersAreHidden
<1>1. CASE UNCHANGED <<tour, sport>>
    BY <1>0, <1>1 DEF Hidden, Visible
<1>2. ASSUME NEW s \in Supers, NEW p \in Sports,
             UpdateSport(s, p) \/ \E b \in {"ACTIVE", "INACTIVE"} : CreateSport(s, p, b)
      PROVE  /\ UNCHANGED tour
             /\ sport' \in [Sports -> {"ABSENT", "ACTIVE", "INACTIVE"}]
             /\ tour[t].exists => sport'[tour[t].sport] = "ACTIVE"
    BY <1>0, <1>2, TourRecord DEF UpdateSport, CreateSport, SportIdle
<1>3. ASSUME NEW u \in Owners, NEW k, NEW d, Activate(u, k, d)
      PROVE  /\ UNCHANGED sport
             /\ tour'[t] = tour[t] \/ (Hidden(t) /\ tour'[t] = [tour[t] EXCEPT !.purgeAfter = Never])
    BY <1>3 DEF Activate, Shown, Lapsed
<1>4. ASSUME NEW u \in Users, NEW i \in Tournaments, NEW p \in Sports, CreateTournament(u, i, p)
      PROVE  /\ UNCHANGED sport /\ sport[p] = "ACTIVE"
             /\ \/ tour'[t] = tour[t]
                \/ /\ ~tour[t].exists
                   /\ tour'[t] = [exists |-> TRUE, owner |-> u, sport |-> p, purgeAfter |-> Never]
    BY <1>0, <1>4 DEF CreateTournament
<1>5. ASSUME NEW u \in Users, NEW i \in Tournaments, NEW p \in Sports, UpdateTournament(u, i, p)
      PROVE  /\ UNCHANGED sport /\ sport[p] = "ACTIVE"
             /\ tour'[t] = tour[t] \/ (tour[t].exists /\ tour'[t] = [tour[t] EXCEPT !.sport = p])
    BY <1>0, <1>5 DEF UpdateTournament, Manages
<1>6. Never \in Nat /\ Never = 0
    BY DEF Never
<1>7. ASSUME NEW u \in Owners, NEW k, NEW d, Activate(u, k, d)
      PROVE  /\ tour'[t] \in TourType \cup {NoTour} /\ UNCHANGED sport
             /\ tour'[t].exists => tour[t].exists /\ tour'[t].sport = tour[t].sport
                                   /\ tour'[t].owner = tour[t].owner
             /\ tour[t].exists => tour'[t].exists
             /\ Hidden(t)' => Hidden(t)
    <2>1. CASE tour'[t] = tour[t]
        BY <1>0, <1>3, <1>7, <2>1 DEF Hidden
    <2>2. CASE Hidden(t) /\ tour'[t] = [tour[t] EXCEPT !.purgeAfter = Never]
        <3>1. tour[t].exists
            BY <2>2 DEF Hidden
        <3>2. tour'[t] \in TourType
            BY <1>6, <2>2, <3>1, TourRecord
        <3>3. tour'[t].exists
            BY <3>2 DEF TourType
        <3> QED
            BY <1>3, <1>6, <1>7, <2>2, <3>1, <3>2, <3>3, TourRecord
    <2> QED
        BY <1>3, <1>7, <2>1, <2>2
<1>8. ASSUME NEW u \in Users, NEW i \in Tournaments, NEW p \in Sports, CreateTournament(u, i, p)
      PROVE  /\ tour'[t] \in TourType \cup {NoTour} /\ UNCHANGED sport
             /\ tour'[t].exists => sport[tour'[t].sport] = "ACTIVE"
             /\ tour[t].exists => tour'[t] = tour[t]
             /\ Hidden(t)' => tour'[t] = tour[t]
    <2>1. CASE tour'[t] = tour[t]
        BY <1>0, <1>4, <1>8, <2>1
    <2>2. CASE /\ ~tour[t].exists
               /\ tour'[t] = [exists |-> TRUE, owner |-> u, sport |-> p, purgeAfter |-> Never]
        <3>1. tour'[t] \in TourType /\ tour'[t].sport = p /\ tour'[t].purgeAfter = Never
            BY <1>6, <2>2 DEF TourType
        <3> QED
            BY <1>4, <1>8, <2>2, <3>1 DEF Hidden
    <2> QED
        BY <1>4, <1>8, <2>1, <2>2
<1>9. ASSUME NEW u \in Users, NEW i \in Tournaments, NEW p \in Sports, UpdateTournament(u, i, p)
      PROVE  /\ tour'[t] \in TourType \cup {NoTour} /\ UNCHANGED sport
             /\ tour'[t].exists => sport[tour'[t].sport] = "ACTIVE"
             /\ tour[t].exists => tour'[t].exists
             /\ Hidden(t)' => Hidden(t) /\ tour'[t].owner = tour[t].owner
    <2>1. CASE tour'[t] = tour[t]
        BY <1>0, <1>5, <1>9, <2>1 DEF Hidden
    <2>2. CASE tour[t].exists /\ tour'[t] = [tour[t] EXCEPT !.sport = p]
        <3>1. tour'[t] \in TourType
            BY <2>2, TourRecord
        <3>2. tour'[t].exists
            BY <3>1 DEF TourType
        <3> QED
            BY <1>5, <1>9, <2>2, <3>1, <3>2, TourRecord DEF Hidden
    <2> QED
        BY <1>5, <1>9, <2>1, <2>2
<1>10. ASSUME Run
       PROVE  /\ tour'[t] = Swept(t) /\ UNCHANGED sport
              /\ Hidden(t)' => Hidden(t) \/ Lapses(t)
              /\ Visible(t) /\ Hidden(t)' => Lapses(t)
              /\ Hidden(t) /\ ~tour'[t].exists => ~Restorable(t)
    <2>1. tour'[t] = Swept(t) /\ UNCHANGED sport
        BY <1>10 DEF Run
    <2>2. CASE Restorable(t)
        <3>1. tour[t].exists /\ Hidden(t) /\ tour'[t] = [tour[t] EXCEPT !.purgeAfter = Never]
            BY <2>1, <2>2 DEF Swept, Restorable, Hidden
        <3>2. tour'[t] \in TourType /\ tour'[t].purgeAfter = Never
            BY <1>6, <3>1, TourRecord
        <3>3. tour'[t].exists
            BY <3>2 DEF TourType
        <3> QED
            BY <2>1, <3>1, <3>2, <3>3 DEF Hidden
    <2>3. CASE ~Restorable(t) /\ ~Lapses(t)
        BY <2>1, <2>3 DEF Swept, Hidden, Visible, NoTour
    <2> QED
        BY <2>1, <2>2, <2>3
<1>11. CASE Run
    <2>1. /\ tour'[t] \in TourType \cup {NoTour}
          /\ tour'[t].exists => /\ tour[t].exists /\ tour'[t].sport = tour[t].sport
                                /\ tour'[t].owner = tour[t].owner
        BY <1>10, <1>11, SweptTour DEF EntOK
    <2>2. Hidden(t)' => tour'[t].owner \in Owners
        BY <1>0, <1>10, <1>11, <2>1 DEF Hidden, Lapses
    <2> QED
        BY <1>0, <1>10, <1>11, <2>1, <2>2
<1>12. CASE \E u \in Owners, k \in Keys, d \in Periods : Activate(u, k, d)
    BY <1>0, <1>7, <1>12 DEF Hidden, Visible
<1>13. CASE \E u \in Users, i \in Tournaments, p \in Sports : CreateTournament(u, i, p)
    BY <1>0, <1>8, <1>13 DEF Hidden, Visible
<1>14. CASE \E u \in Users, i \in Tournaments, p \in Sports : UpdateTournament(u, i, p)
    BY <1>0, <1>9, <1>14 DEF Hidden, Visible
<1>15. CASE \E s \in Supers, p \in Sports :
              UpdateSport(s, p) \/ \E b \in {"ACTIVE", "INACTIVE"} : CreateSport(s, p, b)
    BY <1>0, <1>2, <1>15 DEF Hidden, Visible
<1> QED
    BY <1>1, <1>11, <1>12, <1>13, <1>14, <1>15, CatalogueStep
LEMMA TourDomain ==
    ASSUME CatalogueOK, [AdministrationNext]_adminVars
    PROVE  tour' = [t \in Tournaments |-> tour'[t]]
<1>1. tour = [t \in Tournaments |-> tour[t]]
    BY DEF CatalogueOK
<1>2. ASSUME NEW u, NEW i, NEW p, CreateTournament(u, i, p) \/ UpdateTournament(u, i, p)
      PROVE  tour' = [t \in Tournaments |-> tour'[t]]
    BY <1>1, <1>2 DEF CreateTournament, UpdateTournament
<1>3. ASSUME \/ \E u, k, d : Activate(u, k, d)
             \/ Run
      PROVE  tour' = [t \in Tournaments |-> tour'[t]]
    BY <1>3 DEF Activate, Shown, Run
<1>4. ASSUME \/ UNCHANGED <<tour, sport>>
             \/ \E s, p, b : UpdateSport(s, p) \/ CreateSport(s, p, b)
      PROVE  tour' = [t \in Tournaments |-> tour'[t]]
    BY <1>1, <1>4 DEF UpdateSport, CreateSport
<1> QED
    BY <1>2, <1>3, <1>4, CatalogueStep

LEMMA TournamentsInductive ==
    AdministrationSpec => []TournamentsInv
<1>1. AdministrationInit => TournamentsInv
    <2> SUFFICES ASSUME AdministrationInit PROVE TournamentsInv
        OBVIOUS
    <2>1. ent \in [Users -> EntType \cup {NoEnt}] /\ now \in Nat \ {0}
        BY DEF AdministrationInit
    <2>2. CatalogueOK
        BY DEF AdministrationInit, CatalogueOK
    <2>3. \A t \in Tournaments : ~tour[t].exists
        BY DEF AdministrationInit, NoTour
    <2> QED
        BY <2>1, <2>2, <2>3 DEF TournamentsInv, EntOK, SportsOfAllAreActive, OwnersAreHidden, Hidden
<1>2. TournamentsInv /\ [AdministrationNext]_adminVars => TournamentsInv'
    <2> SUFFICES ASSUME TournamentsInv, [AdministrationNext]_adminVars PROVE TournamentsInv'
        OBVIOUS
    <2>1. EntOK'
        BY EntStep DEF TournamentsInv
    <2>2. tour' = [t \in Tournaments |-> tour'[t]]
        BY TourDomain DEF TournamentsInv
    <2>3. sport' \in [Sports -> {"ABSENT", "ACTIVE", "INACTIVE"}]
        <3>1. CASE Tournaments = {}
            <4>1. sport \in [Sports -> {"ABSENT", "ACTIVE", "INACTIVE"}]
                BY DEF TournamentsInv, CatalogueOK
            <4> QED
                BY <4>1, CatalogueStep
                    DEF UpdateSport, CreateSport, Activate, CreateTournament, UpdateTournament, Run
        <3>2. CASE Tournaments # {}
            BY <3>2, TourStep
        <3> QED
            BY <3>1, <3>2
    <2>4. \A t \in Tournaments : /\ tour'[t] \in TourType \cup {NoTour}
                                 /\ tour'[t].exists => sport'[tour'[t].sport] = "ACTIVE"
                                 /\ Hidden(t)' => tour'[t].owner \in Owners
        BY TourStep
    <2>5. tour' \in [Tournaments -> TourType \cup {NoTour}]
        BY <2>2, <2>4
    <2> QED
        BY <2>1, <2>3, <2>4, <2>5 DEF TournamentsInv, CatalogueOK, SportsOfAllAreActive, OwnersAreHidden
<1> QED
    BY <1>1, <1>2, PTL DEF AdministrationSpec

\* The sport of a visible tournament is active, also after the sweep or a
\* renewal brought it back: a sport is switched off only when no tournament,
\* hidden or not, uses it.
THEOREM SportsStayActive ==
    AdministrationSpec => []SportsInUseAreActive
<1>1. TournamentsInv => SportsInUseAreActive
    BY DEF TournamentsInv, SportsInUseAreActive, SportsOfAllAreActive, Visible
<1> QED
    BY <1>1, TournamentsInductive, PTL

\* A lapsed owner has no access: the entitlement ended, or its period did.
LEMMA LapsedIsNotActive ==
    ASSUME TournamentsInv, NEW t \in Tournaments, Lapses(t)
    PROVE  ~ActiveAdmin(tour[t].owner)
<1> DEFINE o == tour[t].owner
           e == ent[o]
<1>1. /\ o \in Owners /\ o \in Users /\ o \notin Supers
      /\ Expired(e).status = "EXPIRED"
    BY AdministrationAssumption DEF Lapses, Users
<1>2. e \in EntType \cup {NoEnt} /\ now \in Nat
    BY <1>1 DEF TournamentsInv, EntOK
<1> HIDE DEF e
<1>3. e.until \in Nat
    BY <1>2 DEF EntType, NoEnt
<1>4. ~(e.status = "ACTIVE" /\ now < e.until)
    BY <1>1, <1>2, <1>3 DEF Expired
<1> QED
    BY <1>1, <1>4 DEF ActiveAdmin, e

\* No tournament is hidden or purged while its owner has access, however that
\* access came back: the sweep looks at entitlements as they are in its own
\* transaction, and restores before it purges.
THEOREM OwnersKeepTournaments ==
    AdministrationSpec => ActiveOwnersKeepTournaments
<1>1. TournamentsInv /\ [AdministrationNext]_adminVars =>
        \A t \in Tournaments :
          (Visible(t) /\ Hidden(t)') \/ (Hidden(t) /\ ~tour'[t].exists) => ~ActiveAdmin(tour[t].owner)
    <2> SUFFICES ASSUME TournamentsInv, [AdministrationNext]_adminVars, NEW t \in Tournaments,
                        (Visible(t) /\ Hidden(t)') \/ (Hidden(t) /\ ~tour'[t].exists)
                 PROVE  ~ActiveAdmin(tour[t].owner)
        OBVIOUS
    <2>1. CASE Visible(t) /\ Hidden(t)'
        BY <2>1, TourStep, LapsedIsNotActive
    <2>2. CASE Hidden(t) /\ ~tour'[t].exists
        BY <2>2, TourStep DEF Restorable, TournamentsInv, OwnersAreHidden
    <2> QED
        BY <2>1, <2>2
<1> QED
    BY <1>1, TournamentsInductive, PTL DEF AdministrationSpec, ActiveOwnersKeepTournaments

-----------------------------------------------------------------------------
(* Media: what makes ReferencedObjectsExist inductive.                      *)

Uploading(k) == \E r \in Rows : <<r, k>> \in uploads
WorkedOn(k) == \E w \in Workers : work[w].stage # "IDLE" /\ work[w].object = k

MediaTyped ==
    /\ image \in [Rows -> Objects \cup {NoObject}]
    /\ snapshot \subseteq Objects /\ stored \subseteq Objects /\ spent \subseteq Objects
    /\ uploads \subseteq Rows \X Objects
    /\ outbox \subseteq Objects
    /\ work \in [Workers -> [object : Objects \cup {NoObject}, stage : Stages]]
    /\ \A w \in Workers : work[w].stage # "IDLE" => work[w].object \in Objects

\* Everything that is referred to, being uploaded, waiting or worked on has had
\* its key generated: a fresh key is none of these.
KeysAreSpent ==
    \A k \in Objects :
        Protected(k) \/ Uploading(k) \/ k \in outbox \/ WorkedOn(k) => k \in spent

\* An upload that is not committed is in the store, and nobody else has heard of
\* its key: neither a row, nor a bracket, the outbox, a worker or another upload.
UploadsAreUnknown ==
    \A r \in Rows, k \in Objects : <<r, k>> \in uploads =>
        /\ k \in stored /\ ~Protected(k) /\ k \notin outbox /\ ~WorkedOn(k)
        /\ \A q \in Rows : <<q, k>> \in uploads => q = r

\* What a worker found unprotected stays so until it is deleted: references come
\* from fresh uploads or from rows that refer already.
VerdictsStand ==
    \A w \in Workers : work[w].stage \in {"CHECKED", "DELETED"} => ~Protected(work[w].object)

MediaInv ==
    /\ MediaTyped
    /\ KeysAreSpent
    /\ UploadsAreUnknown
    /\ VerdictsStand
    /\ \A k \in Objects : Protected(k) => k \in stored

\* A step of a worker, or of the clock, keeps the invariant if it takes up only
\* what is in the outbox, believes only what it checked, and deletes only what it
\* works on and nothing refers to.
LEMMA WorkKeepsObjects ==
    ASSUME MediaInv, UNCHANGED rowVars, outbox' \subseteq outbox, stored' \subseteq stored,
           work' \in [Workers -> [object : Objects \cup {NoObject}, stage : Stages]],
           \A w \in Workers : work'[w].stage # "IDLE" =>
                \/ work[w].stage # "IDLE" /\ work'[w].object = work[w].object
                \/ work'[w].object \in outbox,
           \A w \in Workers :
                work'[w].stage \in {"CHECKED", "DELETED"} => ~Protected(work'[w].object),
           \A k \in stored : k \notin stored' => ~Protected(k) /\ WorkedOn(k)
    PROVE  MediaInv'
  <1>1. /\ \A k : Protected(k)' = Protected(k)
        /\ \A k : Uploading(k)' = Uploading(k)
    BY DEF Protected, Uploading, rowVars
  <1>2. \A k \in Objects : WorkedOn(k)' => WorkedOn(k) \/ k \in outbox  BY DEF WorkedOn
  <1>3. MediaTyped'  BY DEF MediaInv, MediaTyped, rowVars
  <1>4. KeysAreSpent'  BY <1>1, <1>2 DEF KeysAreSpent, MediaInv, rowVars
  <1>5. UploadsAreUnknown'
    <2> SUFFICES ASSUME NEW r \in Rows, NEW k \in Objects, <<r, k>> \in uploads
                 PROVE  /\ k \in stored' /\ ~Protected(k)' /\ k \notin outbox' /\ ~WorkedOn(k)'
                        /\ \A q \in Rows : <<q, k>> \in uploads => q = r
      BY DEF UploadsAreUnknown, rowVars
    <2> QED  BY <1>1, <1>2 DEF UploadsAreUnknown, MediaInv
  <1>6. VerdictsStand'  BY <1>1 DEF VerdictsStand
  <1>7. \A k \in Objects : Protected(k)' => k \in stored'  BY <1>1 DEF MediaInv
  <1> QED  BY <1>3, <1>4, <1>5, <1>6, <1>7 DEF MediaInv

\* A step that takes references away, and puts what it took into the outbox, keeps
\* the invariant: of a row, of a bracket, or of all of them.
LEMMA UnreferencingKeepsObjects ==
    ASSUME MediaInv, UNCHANGED <<stored, spent, uploads, work>>,
           image' \in [Rows -> Objects \cup {NoObject}], snapshot' \subseteq Objects,
           \A k \in Objects : Protected(k)' => Protected(k),
           NEW ks, Enqueue(ks), \A k \in ks \cap Objects : Protected(k)
    PROVE  MediaInv'
  <1>1. \A k : /\ Uploading(k)' = Uploading(k)
               /\ WorkedOn(k)' = WorkedOn(k)
    BY DEF Uploading, WorkedOn
  <1>2. outbox' = outbox \cup (ks \cap Objects)  BY DEF Enqueue
  <1>3. MediaTyped'  BY <1>2 DEF MediaInv, MediaTyped
  <1>4. KeysAreSpent'  BY <1>1, <1>2 DEF KeysAreSpent, MediaInv
  <1>5. UploadsAreUnknown'  BY <1>1, <1>2 DEF UploadsAreUnknown, MediaInv
  <1>6. VerdictsStand'
    <2> SUFFICES ASSUME NEW w \in Workers, work[w].stage \in {"CHECKED", "DELETED"}
                 PROVE  ~Protected(work[w].object)'
      BY DEF VerdictsStand
    <2>1. ~Protected(work[w].object)  BY DEF MediaInv, VerdictsStand
    <2>2. work[w].object \in Objects  BY DEF MediaInv, MediaTyped
    <2> QED  BY <2>1, <2>2
  <1>7. \A k \in Objects : Protected(k)' => k \in stored'  BY DEF MediaInv
  <1> QED  BY <1>3, <1>4, <1>5, <1>6, <1>7 DEF MediaInv

-----------------------------------------------------------------------------
(* Rows and their images.                                                   *)

LEMMA SaveImageKeepsObjects ==
    ASSUME MediaInv, NEW r \in Rows, NEW k \in Objects, SaveImage(r, k) PROVE MediaInv'
  <1>1. \A j : Protected(j)' = Protected(j) /\ WorkedOn(j)' = WorkedOn(j)
    BY DEF SaveImage, Protected, WorkedOn
  <1>2. \A q \in Rows, j \in Objects :
          <<q, j>> \in uploads' <=> <<q, j>> \in uploads \/ (q = r /\ j = k)
    BY DEF SaveImage
  <1>3. ~Protected(k) /\ ~Uploading(k) /\ k \notin outbox /\ ~WorkedOn(k)
    BY DEF MediaInv, KeysAreSpent, SaveImage
  <1>4. MediaTyped'  BY DEF MediaInv, MediaTyped, SaveImage
  <1>5. KeysAreSpent'
    BY <1>1, <1>2 DEF KeysAreSpent, MediaInv, SaveImage, Uploading
  <1>6. UploadsAreUnknown'
    <2> SUFFICES ASSUME NEW q \in Rows, NEW j \in Objects, <<q, j>> \in uploads'
                 PROVE  /\ j \in stored' /\ ~Protected(j)' /\ j \notin outbox' /\ ~WorkedOn(j)'
                        /\ \A p \in Rows : <<p, j>> \in uploads' => p = q
      BY DEF UploadsAreUnknown
    <2>1. CASE j = k  BY <1>1, <1>2, <1>3, <2>1 DEF SaveImage, Uploading
    <2>2. CASE j # k  BY <1>1, <1>2, <2>2 DEF SaveImage, UploadsAreUnknown, MediaInv
    <2> QED  BY <2>1, <2>2
  <1>7. VerdictsStand'  BY <1>1 DEF VerdictsStand, MediaInv, SaveImage
  <1>8. \A j \in Objects : Protected(j)' => j \in stored'  BY <1>1 DEF MediaInv, SaveImage
  <1> QED  BY <1>4, <1>5, <1>6, <1>7, <1>8 DEF MediaInv

LEMMA CommitImageKeepsObjects ==
    ASSUME MediaInv, NEW r \in Rows, NEW k \in Objects, CommitImage(r, k) PROVE MediaInv'
  <1>1. \A j \in Objects : Protected(j)' => Protected(j) \/ j = k
    BY DEF CommitImage, Protected, MediaInv, MediaTyped
  <1>2. \A q \in Rows, j \in Objects :
          <<q, j>> \in uploads' <=> <<q, j>> \in uploads /\ ~(q = r /\ j = k)
    BY DEF CommitImage
  <1>3. /\ k \in stored /\ ~Protected(k) /\ k \notin outbox /\ ~WorkedOn(k)
        /\ \A q \in Rows : <<q, k>> \in uploads => q = r
    BY DEF CommitImage, MediaInv, UploadsAreUnknown
  <1>4. k \in spent  BY DEF CommitImage, MediaInv, KeysAreSpent, Uploading
  <1>5. \A j \in Objects : j \in outbox' => j \in outbox \/ Protected(j)
    BY DEF CommitImage, Enqueue, Protected
  <1>6. \A j : WorkedOn(j)' = WorkedOn(j)  BY DEF CommitImage, WorkedOn
  <1>7. MediaTyped'
    BY DEF MediaInv, MediaTyped, CommitImage, Enqueue
  <1>8. KeysAreSpent'
    BY <1>1, <1>2, <1>4, <1>5, <1>6 DEF KeysAreSpent, MediaInv, CommitImage, Uploading
  <1>9. UploadsAreUnknown'
    <2> SUFFICES ASSUME NEW q \in Rows, NEW j \in Objects, <<q, j>> \in uploads'
                 PROVE  /\ j \in stored' /\ ~Protected(j)' /\ j \notin outbox' /\ ~WorkedOn(j)'
                        /\ \A p \in Rows : <<p, j>> \in uploads' => p = q
      BY DEF UploadsAreUnknown
    <2>1. j # k /\ <<q, j>> \in uploads  BY <1>2, <1>3
    <2>2. /\ j \in stored /\ ~Protected(j) /\ j \notin outbox /\ ~WorkedOn(j)
          /\ \A p \in Rows : <<p, j>> \in uploads => p = q
      BY <2>1 DEF MediaInv, UploadsAreUnknown
    <2> QED  BY <1>1, <1>2, <1>5, <1>6, <2>1, <2>2 DEF CommitImage
  <1>10. VerdictsStand'
    <2> SUFFICES ASSUME NEW w \in Workers, work[w].stage \in {"CHECKED", "DELETED"}
                 PROVE  ~Protected(work[w].object)'
      BY DEF VerdictsStand, CommitImage
    <2>1. ~Protected(work[w].object) /\ work[w].object \in Objects
      BY DEF MediaInv, VerdictsStand, MediaTyped
    <2>2. work[w].object # k  BY <1>3 DEF WorkedOn
    <2> QED  BY <1>1, <2>1, <2>2 DEF CommitImage
  <1>11. \A j \in Objects : Protected(j)' => j \in stored'
    BY <1>1, <1>3 DEF MediaInv, CommitImage
  <1> QED  BY <1>7, <1>8, <1>9, <1>10, <1>11 DEF MediaInv

\* The object of a refused upload may go at once: nothing refers to it.
LEMMA CompensationKeepsObjects ==
    ASSUME MediaInv, NEW r \in Rows, NEW k \in Objects, CompensateSavedImage(r, k)
    PROVE  MediaInv'
  <1>1. \A j : Protected(j)' = Protected(j) /\ WorkedOn(j)' = WorkedOn(j)
    BY DEF CompensateSavedImage, Protected, WorkedOn
  <1>2. \A q \in Rows, j \in Objects :
          <<q, j>> \in uploads' <=> <<q, j>> \in uploads /\ ~(q = r /\ j = k)
    BY DEF CompensateSavedImage
  <1>3. ~Protected(k) /\ \A q \in Rows : <<q, k>> \in uploads => q = r
    BY DEF CompensateSavedImage, MediaInv, UploadsAreUnknown
  <1>4. k \in spent  BY DEF CompensateSavedImage, MediaInv, KeysAreSpent, Uploading
  <1>5. /\ \A j \in Objects : j \in outbox' => j \in outbox \/ j = k
        /\ \A j \in Objects : j \in stored /\ j # k => j \in stored'
        /\ outbox' \subseteq Objects /\ stored' \subseteq Objects
    BY DEF CompensateSavedImage, Enqueue, MediaInv, MediaTyped
  <1>6. MediaTyped'  BY <1>5 DEF MediaInv, MediaTyped, CompensateSavedImage
  <1>7. KeysAreSpent'
    BY <1>1, <1>2, <1>4, <1>5 DEF KeysAreSpent, MediaInv, CompensateSavedImage, Uploading
  <1>8. UploadsAreUnknown'
    <2> SUFFICES ASSUME NEW q \in Rows, NEW j \in Objects, <<q, j>> \in uploads'
                 PROVE  /\ j \in stored' /\ ~Protected(j)' /\ j \notin outbox' /\ ~WorkedOn(j)'
                        /\ \A p \in Rows : <<p, j>> \in uploads' => p = q
      BY DEF UploadsAreUnknown
    <2>1. j # k /\ <<q, j>> \in uploads  BY <1>2, <1>3
    <2>2. /\ j \in stored /\ ~Protected(j) /\ j \notin outbox /\ ~WorkedOn(j)
          /\ \A p \in Rows : <<p, j>> \in uploads => p = q
      BY <2>1 DEF MediaInv, UploadsAreUnknown
    <2> QED  BY <1>1, <1>2, <1>5, <2>1, <2>2
  <1>9. VerdictsStand'  BY <1>1 DEF VerdictsStand, MediaInv, CompensateSavedImage
  <1>10. \A j \in Objects : Protected(j)' => j \in stored'  BY <1>1, <1>3, <1>5 DEF MediaInv
  <1> QED  BY <1>6, <1>7, <1>8, <1>9, <1>10 DEF MediaInv

LEMMA RowsKeepObjects ==
    ASSUME MediaInv,
           Purge \/ \E r \in Rows : RemoveImage(r) \/ SnapshotImage(r)
    PROVE  MediaInv'
  <1>1. ASSUME NEW r \in Rows, RemoveImage(r) PROVE MediaInv'
    <2>1. /\ image' \in [Rows -> Objects \cup {NoObject}] /\ snapshot' \subseteq Objects
          /\ \A k \in Objects : Protected(k)' => Protected(k)
          /\ \A k \in {image[r]} \cap Objects : Protected(k)
      BY <1>1, MediaAssumption DEF RemoveImage, MediaInv, MediaTyped, Protected
    <2> QED  BY <1>1, <2>1, UnreferencingKeepsObjects DEF RemoveImage
  <1>2. ASSUME Purge PROVE MediaInv'
    <2>1. /\ image' \in [Rows -> Objects \cup {NoObject}] /\ snapshot' \subseteq Objects
          /\ \A k \in Objects : Protected(k)' => Protected(k)
          /\ \A k \in {image[r] : r \in Rows} \cap Objects : Protected(k)
      BY <1>2, MediaAssumption DEF Purge, MediaInv, MediaTyped, Protected
    <2> QED  BY <1>2, <2>1, UnreferencingKeepsObjects DEF Purge
  <1>3. ASSUME NEW r \in Rows, SnapshotImage(r) PROVE MediaInv'
    <2>1. /\ image' \in [Rows -> Objects \cup {NoObject}] /\ snapshot' \subseteq Objects
          /\ \A k \in Objects : Protected(k)' => Protected(k)
      BY <1>3 DEF SnapshotImage, MediaInv, MediaTyped, Protected
    <2>2. \A k : Uploading(k)' = Uploading(k) /\ WorkedOn(k)' = WorkedOn(k)
      BY <1>3 DEF SnapshotImage, Uploading, WorkedOn
    <2>3. MediaTyped'  BY <1>3, <2>1 DEF MediaInv, MediaTyped, SnapshotImage
    <2>4. KeysAreSpent'  BY <1>3, <2>1, <2>2 DEF KeysAreSpent, MediaInv, SnapshotImage
    <2>5. UploadsAreUnknown'
      BY <1>3, <2>1, <2>2 DEF UploadsAreUnknown, MediaInv, SnapshotImage
    <2>6. VerdictsStand'
      BY <1>3, <2>1 DEF VerdictsStand, MediaInv, MediaTyped, SnapshotImage
    <2>7. \A k \in Objects : Protected(k)' => k \in stored'
      BY <1>3, <2>1 DEF MediaInv, SnapshotImage
    <2> QED  BY <2>3, <2>4, <2>5, <2>6, <2>7 DEF MediaInv
  <1> QED  BY <1>1, <1>2, <1>3

-----------------------------------------------------------------------------
(* Workers.                                                                 *)

\* Only the worker at work changes its place, and not to a new object.
LEMMA WorkerMoves ==
    ASSUME MediaInv, NEW w \in Workers, work[w].stage # "IDLE",
           NEW s \in Stages, s \in {"CHECKED", "DELETED"} => ~Protected(work[w].object),
           \/ work' = [work EXCEPT ![w] = Resting]
           \/ work' = [work EXCEPT ![w].stage = s]
    PROVE  /\ work' \in [Workers -> [object : Objects \cup {NoObject}, stage : Stages]]
           /\ \A v \in Workers : work'[v].stage # "IDLE" =>
                 work[v].stage # "IDLE" /\ work'[v].object = work[v].object
           /\ \A v \in Workers :
                 work'[v].stage \in {"CHECKED", "DELETED"} => ~Protected(work'[v].object)
  <1>1. CASE work' = [work EXCEPT ![w] = Resting]
    BY <1>1 DEF MediaInv, MediaTyped, VerdictsStand, Resting, Stages
  <1>2. CASE work' = [work EXCEPT ![w].stage = s]
    BY <1>2 DEF MediaInv, MediaTyped, VerdictsStand, Stages
  <1> QED  BY <1>1, <1>2

LEMMA WorkersKeepObjects ==
    ASSUME MediaInv, NEW w \in Workers,
           \/ CheckObject(w) \/ DeleteObject(w) \/ DeleteFails(w) \/ CleanUp(w) \/ WorkerDies(w)
    PROVE  MediaInv'
  <1>1. CASE CheckObject(w)
    <2>1. CASE work' = [work EXCEPT ![w] = Resting]
      BY <1>1, <2>1, WorkerMoves, WorkKeepsObjects DEF CheckObject, Stages
    <2>2. CASE ~Protected(work[w].object) /\ work' = [work EXCEPT ![w].stage = "CHECKED"]
      BY <1>1, <2>2, WorkerMoves, WorkKeepsObjects DEF CheckObject, Stages
    <2> QED  BY <1>1, <2>1, <2>2 DEF CheckObject
  <1>2. work[w].stage = "CHECKED" => ~Protected(work[w].object) /\ WorkedOn(work[w].object)
    BY DEF MediaInv, VerdictsStand, WorkedOn
  <1>3. CASE DeleteObject(w)
    BY <1>2, <1>3, WorkerMoves, WorkKeepsObjects DEF DeleteObject, Stages
  <1>4. CASE DeleteFails(w)
    <2>1. stored' \subseteq stored /\ \A k \in stored : k \notin stored' => ~Protected(k) /\ WorkedOn(k)
      BY <1>2, <1>4 DEF DeleteFails
    <2> QED  BY <1>4, <2>1, WorkerMoves, WorkKeepsObjects DEF DeleteFails, Stages
  <1>5. CASE CleanUp(w)
    <2>1. outbox' \subseteq outbox  BY <1>5 DEF CleanUp
    <2> QED  BY <1>5, <2>1, WorkerMoves, WorkKeepsObjects DEF CleanUp, Stages
  <1>6. CASE WorkerDies(w)
    BY <1>6, WorkerMoves, WorkKeepsObjects DEF WorkerDies, Stages
  <1> QED  BY <1>1, <1>3, <1>4, <1>5, <1>6

LEMMA ClaimKeepsObjects ==
    ASSUME MediaInv, NEW w \in Workers, NEW k \in Objects, Claim(w, k) PROVE MediaInv'
  <1>1. /\ work' \in [Workers -> [object : Objects \cup {NoObject}, stage : Stages]]
        /\ \A v \in Workers : work'[v].stage # "IDLE" =>
                \/ work[v].stage # "IDLE" /\ work'[v].object = work[v].object
                \/ work'[v].object \in outbox
        /\ \A v \in Workers :
                work'[v].stage \in {"CHECKED", "DELETED"} => ~Protected(work'[v].object)
    BY DEF Claim, ClaimableEntry, MediaInv, MediaTyped, VerdictsStand, Stages
  <1> QED  BY <1>1, WorkKeepsObjects DEF Claim

\* Leases and backoffs decide who works when; what may be deleted does not depend
\* on them.
LEMMA ClocksKeepObjects ==
    ASSUME MediaInv, UNCHANGED <<rowVars, stored, outbox, work>> PROVE MediaInv'
  <1>1. work \in [Workers -> [object : Objects \cup {NoObject}, stage : Stages]]
    BY DEF MediaInv, MediaTyped
  <1>2. \A w \in Workers : work[w].stage \in {"CHECKED", "DELETED"} => ~Protected(work[w].object)
    BY DEF MediaInv, VerdictsStand
  <1> QED  BY <1>1, <1>2, WorkKeepsObjects

LEMMA MediaStepKeepsObjects == MediaInv /\ [MediaNext]_mediaVars => MediaInv'
  <1> SUFFICES ASSUME MediaInv, [MediaNext]_mediaVars PROVE MediaInv'  OBVIOUS
  <1>1. CASE UNCHANGED mediaVars
    BY <1>1, ClocksKeepObjects DEF mediaVars, rowVars
  <1>2. CASE \E r \in Rows, k \in Objects :
               SaveImage(r, k) \/ CommitImage(r, k) \/ CompensateSavedImage(r, k)
    BY <1>2, SaveImageKeepsObjects, CommitImageKeepsObjects, CompensationKeepsObjects
  <1>3. CASE Purge \/ \E r \in Rows : RemoveImage(r) \/ SnapshotImage(r)
    BY <1>3, RowsKeepObjects
  <1>4. CASE \E w \in Workers :
               CheckObject(w) \/ DeleteObject(w) \/ DeleteFails(w) \/ CleanUp(w) \/ WorkerDies(w)
    BY <1>4, WorkersKeepObjects
  <1>5. CASE \E w \in Workers, k \in Objects : Claim(w, k)
    BY <1>5, ClaimKeepsObjects
  <1>6. CASE \E k \in Objects : LeaseLapses(k) \/ BecomesDue(k)
    BY <1>6, ClocksKeepObjects DEF LeaseLapses, BecomesDue
  <1> QED  BY <1>1, <1>2, <1>3, <1>4, <1>5, <1>6 DEF MediaNext

\* No image that a row or a confirmed bracket refers to is ever missing from the
\* store, for any number of rows, uploads and workers, however often a worker
\* (reconcile) loses its lease, dies or repeats a deletion: the check and the
\* deletion need no lock, because a key nobody refers to is never referred to
\* again.
THEOREM ImagesStayStored == MediaSpec => []ReferencedObjectsExist
  <1>1. MediaInit => MediaInv
    <2> SUFFICES ASSUME MediaInit PROVE MediaInv  OBVIOUS
    <2>1. \A k \in Objects : ~Protected(k) /\ ~Uploading(k) /\ k \notin outbox /\ ~WorkedOn(k)
      BY MediaAssumption DEF MediaInit, Protected, Uploading, WorkedOn, Resting
    <2>2. MediaTyped  BY DEF MediaInit, MediaTyped, Resting, Stages
    <2>3. VerdictsStand  BY DEF MediaInit, VerdictsStand, Resting
    <2>4. UploadsAreUnknown  BY <2>1 DEF UploadsAreUnknown, Uploading
    <2> QED  BY <2>1, <2>2, <2>3, <2>4 DEF MediaInv, KeysAreSpent
  <1>2. MediaInv => ReferencedObjectsExist
    BY DEF MediaInv, MediaTyped, ReferencedObjectsExist, Protected
  <1> QED  BY <1>1, <1>2, MediaStepKeepsObjects, PTL DEF MediaSpec

-----------------------------------------------------------------------------
(* Staffing: whole crews, matches that can be taken and brackets that stay    *)
(* staffable.                                                                *)

\* An official sits on one match, and only while active.
OneSeatEach == \A x, y \in rows : x.official = y.official => x = y
SeatedAreActive == \A x \in rows : Active(x.official)

\* No seat is taken twice, seat 0 is the supervisor's, and the seats of a crew
\* are those its match requires.
SeatsAreSingle == \A x, y \in rows : x.match = y.match /\ x.position = y.position => x = y
SupervisorSits == \A x \in rows : x.official \in Supervisors <=> x.position = 0
SeatsAreFull ==
    \A m \in Matches : CrewOf(m) # {} =>
        /\ {x.position : x \in CrewOf(m)} = 0 .. required[m]
        /\ lifecycle[m] # "ABSENT"

\* The inductive invariant of the crews.
CrewInv ==
    /\ TypeOK /\ OneSeatEach /\ SeatedAreActive /\ SeatsAreSingle /\ SupervisorSits
    /\ SeatsAreFull /\ ProgressHasCrew

\* A fixture needs the judges its round had when it was prepared, and the round
\* does not change any more.
FixturesFollowRounds ==
    \A m \in Fixtures :
        /\ bracket = "NONE" => lifecycle[m] = "ABSENT"
        /\ required[m] = IF lifecycle[m] = "ABSENT" THEN 0 ELSE staffing[RoundOf[m]]

\* A fixture is prepared when the earlier rounds are completed, and they stay so.
PreparedInOrder ==
    \A m \in Fixtures : lifecycle[m] # "ABSENT" => \A f \in Feeders(m) : lifecycle[f] = "COMPLETED"

\* While a fixture waits to be prepared, the completed ones could be staffed again.
CompletedCanRepeat ==
    \A m, f \in Fixtures :
        lifecycle[m] = "COMPLETED" /\ lifecycle[f] = "ABSENT" =>
            staffing[RoundOf[m]] <= Cardinality(ActiveJudges)

\* The inductive invariant of the bracket's staffing.
BracketInv == CrewInv /\ FixturesFollowRounds /\ PreparedInOrder /\ CompletedCanRepeat

-----------------------------------------------------------------------------
(* Crews as sets of seats.                                                   *)

LEMMA JudgesFinite ==
    IsFiniteSet(Judges) /\ Cardinality(Judges) \in Nat
BY StaffingAssumption, FS_CardinalityType

LEMMA MinimumIsCount ==
    MinimumJudges \in Nat /\ MinimumJudges \in Counts /\ 0 \in Counts /\ Counts \subseteq Nat
BY StaffingAssumption, JudgesFinite DEF Counts

\* The members of a team and their number.
LEMMA TeamFacts ==
    ASSUME NEW n \in Nat, NEW team \in Teams(n)
    PROVE  /\ DOMAIN team = 1 .. n /\ \A p \in 1 .. n : team[p] \in Judges
           /\ \A p, q \in 1 .. n : team[p] = team[q] => p = q
           /\ Len(team) = n
           /\ n <= Cardinality(Judges)
<1>1. /\ team \in [1 .. n -> Judges]
      /\ \A p, q \in 1 .. n : team[p] = team[q] => p = q
    BY DEF Teams
<1>2. team \in Seq(Judges)
    BY <1>1, SeqDef
<1>3. DOMAIN team = 1 .. n /\ DOMAIN team = 1 .. Len(team) /\ Len(team) \in Nat
    BY <1>1, <1>2, LenProperties
<1>4. Len(team) = n
    BY <1>3
<1>5. team \in Injection(1 .. n, Judges)
    BY <1>1 DEF Injection, IsInjective
<1>6. Cardinality(1 .. n) <= Cardinality(Judges)
    BY <1>5, JudgesFinite, FS_Injection
<1>7. 1 \in Int /\ n \in Int /\ (1 > n => n = 0) /\ n - 1 + 1 = n
    OBVIOUS
<1>8. Cardinality(1 .. n) = n
    BY <1>7, FS_Interval
<1> QED
    BY <1>1, <1>3, <1>4, <1>6, <1>8

\* The rows of a supervisor and a team.
NewCrew(s, m, team) == Seats(m, team) \cup {[match |-> m, official |-> s, position |-> 0]}

LEMMA NewCrewFacts ==
    ASSUME NEW s \in Supervisors, NEW m \in Matches, NEW n \in Nat, NEW team \in Teams(n)
    PROVE  LET new == NewCrew(s, m, team) IN
           /\ new \subseteq RowType
           /\ \A x \in new : x.match = m
           /\ \A x \in new : x.official = s \/ \E p \in DOMAIN team : x.official = team[p]
           /\ \A x \in new : x.official \in Supervisors <=> x.position = 0
           /\ \A x, y \in new : x.official = y.official => x = y
           /\ \A x, y \in new : x.position = y.position => x = y
           /\ {x.position : x \in new} = 0 .. n
<1> DEFINE new == NewCrew(s, m, team)
           sup == [match |-> m, official |-> s, position |-> 0]
<1>1. /\ DOMAIN team = 1 .. n /\ \A p \in 1 .. n : team[p] \in Judges
      /\ \A p, q \in 1 .. n : team[p] = team[q] => p = q
      /\ n <= Cardinality(Judges)
    BY TeamFacts
<1>2. \A x : x \in new <=> x = sup \/ \E p \in 1 .. n : x = Seat(m, team, p)
    BY <1>1 DEF NewCrew, Seats
<1>3. sup.match = m /\ sup.official = s /\ sup.position = 0
    OBVIOUS
<1>4. \A p \in 1 .. n : /\ Seat(m, team, p).match = m
                        /\ Seat(m, team, p).official = team[p]
                        /\ Seat(m, team, p).position = p
    BY DEF Seat
<1>5. Supervisors \cap Judges = {} /\ Cardinality(Judges) \in Nat
    BY StaffingAssumption, JudgesFinite
<1>6. sup \in RowType
    BY <1>5 DEF RowType, Officials, Positions
<1>7. ASSUME NEW p \in 1 .. n PROVE Seat(m, team, p) \in RowType
    BY <1>1, <1>5 DEF Seat, RowType, Officials, Positions
<1>8. \A p \in 1 .. n : p # 0
    OBVIOUS
<1> HIDE DEF new, sup
<1>9. new \subseteq RowType
    BY <1>2, <1>6, <1>7
<1>10. ASSUME NEW x \in new
       PROVE  /\ x.match = m
              /\ x.official = s \/ \E p \in DOMAIN team : x.official = team[p]
              /\ x.official \in Supervisors <=> x.position = 0
    BY <1>1, <1>2, <1>3, <1>4, <1>5, <1>8, <1>10
<1>11. ASSUME NEW x \in new, NEW y \in new, x.official = y.official \/ x.position = y.position
       PROVE  x = y
    BY <1>1, <1>2, <1>3, <1>4, <1>5, <1>8, <1>11
<1>12. \A i : i \in {x.position : x \in new} <=> i = 0 \/ i \in 1 .. n
    BY <1>2, <1>3, <1>4
<1>13. {x.position : x \in new} = 0 .. n
    BY <1>12
<1> QED
    BY <1>9, <1>10, <1>11, <1>13 DEF new
\* A match keeps its crew as it is or loses it whole.
LEMMA CrewsShrink ==
    ASSUME CrewInv, TypeOK', rows' \subseteq rows,
           \A x \in rows' : account'[x.official] = "ACTIVE",
           \A m \in Matches :
               \/ CrewOf(m)' = {}
               \/ /\ CrewOf(m)' = CrewOf(m) /\ required'[m] = required[m] /\ lifecycle'[m] # "ABSENT",
           \A m \in Matches : lifecycle'[m] = "IN_PROGRESS" => CrewOf(m)' # {}
    PROVE  CrewInv'
<1>1. OneSeatEach' /\ SeatsAreSingle' /\ SupervisorSits'
    BY DEF CrewInv, OneSeatEach, SeatsAreSingle, SupervisorSits
<1>2. SeatedAreActive'
    BY DEF SeatedAreActive, Active
<1>3. SeatsAreFull'
    <2> SUFFICES ASSUME NEW m \in Matches, CrewOf(m)' # {}
                 PROVE  /\ {x.position : x \in CrewOf(m)'} = 0 .. required'[m]
                        /\ lifecycle'[m] # "ABSENT"
        BY DEF SeatsAreFull
    <2>1. CrewOf(m)' = CrewOf(m) /\ required'[m] = required[m] /\ lifecycle'[m] # "ABSENT"
        OBVIOUS
    <2> QED
        BY <2>1 DEF CrewInv, SeatsAreFull
<1>4. ProgressHasCrew'
    BY DEF ProgressHasCrew
<1> QED
    BY <1>1, <1>2, <1>3, <1>4 DEF CrewInv

\* A match gets a new crew in the place of the one it had, if any.
LEMMA CrewReplaced ==
    ASSUME CrewInv, NEW s \in Supervisors, NEW m \in Matches, NEW team \in Teams(required[m]),
           rows' = (rows \ CrewOf(m)) \cup NewCrew(s, m, team),
           UNCHANGED <<account, open, bracket, staffing, required>>,
           lifecycle' \in [Matches -> Lifecycles], lifecycle'[m] # "ABSENT",
           \A k \in Matches \ {m} : lifecycle'[k] = lifecycle[k],
           Active(s), \A p \in DOMAIN team : Active(team[p]),
           SeatsOf(s) \subseteq CrewOf(m), \A p \in DOMAIN team : SeatsOf(team[p]) \subseteq CrewOf(m)
    PROVE  CrewInv'
<1> DEFINE new == NewCrew(s, m, team)
           n == required[m]
<1>0. n \in Nat
    BY MinimumIsCount DEF CrewInv, TypeOK
<1>1. /\ new \subseteq RowType
      /\ \A x \in new : x.match = m
      /\ \A x \in new : x.official = s \/ \E p \in DOMAIN team : x.official = team[p]
      /\ \A x \in new : x.official \in Supervisors <=> x.position = 0
      /\ \A x, y \in new : x.official = y.official => x = y
      /\ \A x, y \in new : x.position = y.position => x = y
      /\ {x.position : x \in new} = 0 .. n
    BY <1>0, NewCrewFacts
<1>2. rows' = (rows \ CrewOf(m)) \cup new
    OBVIOUS
<1> HIDE DEF new
<1>3. ASSUME NEW x \in rows \ CrewOf(m)
      PROVE  x.match # m /\ \A y \in new : x.official # y.official
    <2>1. x.match # m
        BY DEF CrewOf
    <2>2. ASSUME NEW y \in new, x.official = y.official PROVE FALSE
        <3>1. x \in SeatsOf(y.official)
            BY <2>2 DEF SeatsOf
        <3> QED
            BY <1>1, <3>1
    <2> QED
        BY <2>1, <2>2
<1>4. TypeOK'
    BY <1>1, <1>2 DEF CrewInv, TypeOK
<1>5. OneSeatEach'
    BY <1>1, <1>2, <1>3 DEF CrewInv, OneSeatEach
<1>6. SeatsAreSingle'
    BY <1>1, <1>2, <1>3 DEF CrewInv, SeatsAreSingle
<1>7. SupervisorSits'
    BY <1>1, <1>2 DEF CrewInv, SupervisorSits
<1>8. SeatedAreActive'
    <2>1. \A x \in new : account[x.official] = "ACTIVE"
        BY <1>1 DEF Active
    <2> QED
        BY <1>2, <2>1 DEF CrewInv, SeatedAreActive, Active
<1>9. CrewOf(m)' = new
    BY <1>1, <1>2 DEF CrewOf
<1>10. ASSUME NEW k \in Matches \ {m} PROVE CrewOf(k)' = CrewOf(k)
    BY <1>1, <1>2 DEF CrewOf
<1>11. new # {}
    BY DEF new, NewCrew
<1>12. SeatsAreFull'
    <2> SUFFICES ASSUME NEW k \in Matches, CrewOf(k)' # {}
                 PROVE  /\ {x.position : x \in CrewOf(k)'} = 0 .. required'[k]
                        /\ lifecycle'[k] # "ABSENT"
        BY DEF SeatsAreFull
    <2>1. CASE k = m
        BY <1>1, <1>9, <2>1
    <2>2. CASE k # m
        <3>1. CrewOf(k)' = CrewOf(k) /\ lifecycle'[k] = lifecycle[k] /\ required'[k] = required[k]
            BY <1>10, <2>2
        <3> QED
            BY <3>1 DEF CrewInv, SeatsAreFull
    <2> QED
        BY <2>1, <2>2
<1>13. ProgressHasCrew'
    BY <1>9, <1>10, <1>11 DEF CrewInv, ProgressHasCrew
<1> QED
    BY <1>4, <1>5, <1>6, <1>7, <1>8, <1>12, <1>13 DEF CrewInv

LEMMA TakeStep ==
    ASSUME CrewInv, NEW s \in Supervisors, NEW m \in Matches, NEW team \in Teams(required[m]),
           Take(s, m, team)
    PROVE  CrewInv'
<1>1. CrewOf(m) = {}
    BY DEF Take, TakeAllowed
<1>2. rows' = (rows \ CrewOf(m)) \cup NewCrew(s, m, team)
    BY <1>1 DEF Take, NewCrew
<1>3. Active(s) /\ SeatsOf(s) \subseteq CrewOf(m)
    BY DEF Take, TakeAllowed
<1>4. \A p \in DOMAIN team : Active(team[p]) /\ SeatsOf(team[p]) \subseteq CrewOf(m)
    BY DEF Take, TakeAllowed
<1>5. lifecycle[m] \in {"NOT_STARTED", "SUSPENDED"} /\ lifecycle \in [Matches -> Lifecycles]
    BY DEF Take, TakeAllowed, ClaimableMatch, CrewInv, TypeOK
<1>6. /\ lifecycle' \in [Matches -> Lifecycles] /\ lifecycle'[m] # "ABSENT"
      /\ \A k \in Matches \ {m} : lifecycle'[k] = lifecycle[k]
    BY <1>5 DEF Take, Lifecycles
<1>7. UNCHANGED <<account, open, bracket, staffing, required>>
    BY DEF Take
<1> QED
    BY <1>2, <1>3, <1>4, <1>6, <1>7, CrewReplaced

LEMMA ConfirmStep ==
    ASSUME CrewInv, NEW s \in Supervisors, NEW m \in Matches, NEW team \in Teams(required[m]),
           ConfirmTeam(s, m, team)
    PROVE  CrewInv'
<1> DEFINE sup == [match |-> m, official |-> s, position |-> 0]
           before == {x \in CrewOf(m) : x.position # 0}
           retained == before \cap Seats(m, team)
<1>1. sup \in rows /\ sup.match = m /\ sup.position = 0 /\ sup.official = s
    BY DEF ConfirmTeam, ConfirmAllowed, Owns
<1>2. CrewOf(m) = before \cup {sup}
    BY <1>1 DEF CrewOf, CrewInv, SeatsAreSingle
<1>3. sup \notin before /\ before \subseteq rows
    BY <1>1 DEF CrewOf
<1>4. rows' = (rows \ (before \ retained)) \cup (Seats(m, team) \ retained)
    BY DEF ConfirmTeam
<1>5. NewCrew(s, m, team) = Seats(m, team) \cup {sup}
    BY DEF NewCrew
<1> HIDE DEF sup, before
<1>6. rows' = (rows \ CrewOf(m)) \cup NewCrew(s, m, team)
    BY <1>1, <1>2, <1>3, <1>4, <1>5
<1>7. Active(s) /\ SeatsOf(s) \subseteq CrewOf(m)
    <2>1. \A x \in SeatsOf(s) : x = sup
        BY <1>1 DEF SeatsOf, CrewInv, OneSeatEach
    <2> QED
        BY <1>2, <2>1 DEF ConfirmTeam, ConfirmAllowed
<1>8. \A p \in DOMAIN team : Active(team[p]) /\ SeatsOf(team[p]) \subseteq CrewOf(m)
    BY DEF ConfirmTeam, ConfirmAllowed
<1>9. /\ lifecycle' \in [Matches -> Lifecycles] /\ lifecycle'[m] # "ABSENT"
      /\ \A k \in Matches \ {m} : lifecycle'[k] = lifecycle[k]
    BY DEF ConfirmTeam, ConfirmAllowed, ActiveMatch, CrewInv, TypeOK
<1>10. UNCHANGED <<account, open, bracket, staffing, required>>
    BY DEF ConfirmTeam
<1> QED
    BY <1>6, <1>7, <1>8, <1>9, <1>10, CrewReplaced
-----------------------------------------------------------------------------
(* The other steps.                                                         *)

LEMMA CountsAreKept ==
    ASSUME TypeOK, [Next]_vars
    PROVE  /\ staffing' \in [Rounds -> Counts] /\ required' \in [Matches -> Counts]
           /\ bracket' \in {"NONE", "ACTIVE"}
<1> USE DEF TypeOK
<1>1. CASE UNCHANGED <<staffing, required, bracket>>
    BY <1>1
<1>2. CASE ConfirmBracket \/ \E force \in BOOLEAN : CancelBracket(force)
    BY <1>2, MinimumIsCount DEF ConfirmBracket, CancelBracket
<1>3. CASE \E r \in Rounds, n \in Counts : UpdateRoundStaffing(r, n)
    BY <1>3 DEF UpdateRoundStaffing
<1>4. ASSUME NEW m \in Matches, CreateMatch(m)
      PROVE  /\ staffing' \in [Rounds -> Counts] /\ required' \in [Matches -> Counts]
             /\ bracket' \in {"NONE", "ACTIVE"}
    BY <1>4, MinimumIsCount DEF CreateMatch
<1>5. ASSUME NEW m \in Matches, PrepareFixture(m)
      PROVE  /\ staffing' \in [Rounds -> Counts] /\ required' \in [Matches -> Counts]
             /\ bracket' \in {"NONE", "ACTIVE"}
    <2>1. RoundOf[m] \in Rounds
        BY <1>5, StaffingAssumption DEF PrepareFixture, Fixtures
    <2> QED
        BY <1>5, <2>1 DEF PrepareFixture
<1>6. ASSUME \/ \E o \in Officials : CreateOfficial(o) \/ UpdateOfficial(o)
             \/ ArchiveTournament \/ CrewNext \/ MatchNext \/ UNCHANGED vars
      PROVE  UNCHANGED <<staffing, required, bracket>>
    BY <1>6 DEF CreateOfficial, UpdateOfficial, ArchiveTournament, CrewNext, MatchNext, vars,
        Take, ConfirmTeam, ReleaseMatch, StartMatch, LeaveMatch, ResetMatch
<1> QED
    BY <1>1, <1>2, <1>3, <1>4, <1>5, <1>6 DEF Next, AdminNext

LEMMA OpenIsBoolean ==
    ASSUME TypeOK, [Next]_vars
    PROVE  open' \in BOOLEAN
<1>1. UNCHANGED open \/ open' = ~open
    BY DEF Next, AdminNext, CrewNext, MatchNext, vars, CreateOfficial, UpdateOfficial,
        ConfirmBracket, CancelBracket, UpdateRoundStaffing, CreateMatch, PrepareFixture,
        ArchiveTournament, Take, ConfirmTeam, ReleaseMatch, StartMatch, LeaveMatch, ResetMatch
<1> QED
    BY <1>1, Zenon DEF TypeOK

\* The account steps take nobody off a seat.
LEMMA AccountStep ==
    ASSUME CrewInv, [Next]_vars, NEW o \in Officials, CreateOfficial(o) \/ UpdateOfficial(o)
    PROVE  CrewInv'
<1>1. UNCHANGED <<lifecycle, required, rows, staffing, bracket, open>>
    BY DEF CreateOfficial, UpdateOfficial
<1>2. /\ account' \in [Officials -> {"ABSENT", "ACTIVE", "INACTIVE"}]
      /\ \A i \in Officials : account[i] = "ACTIVE" /\ account'[i] # "ACTIVE" => SeatsOf(i) = {}
    BY DEF CreateOfficial, UpdateOfficial, Active, DeactivationAllowed, CrewInv, TypeOK
<1>3. TypeOK'
    BY <1>1, <1>2 DEF CrewInv, TypeOK
<1>4. \A x \in rows : x.official \in Officials
    BY DEF CrewInv, TypeOK, RowType
<1>5. \A x \in rows' : account'[x.official] = "ACTIVE"
    BY <1>1, <1>2, <1>4 DEF CrewInv, SeatedAreActive, Active, SeatsOf
<1>6. \A m : CrewOf(m)' = CrewOf(m)
    BY <1>1 DEF CrewOf
<1> QED
    BY <1>1, <1>3, <1>5, <1>6, CrewsShrink DEF CrewInv, SeatsAreFull, ProgressHasCrew

\* Steps that leave accounts and rows alone: a match that changes its number of
\* judges has no crew, and a match that starts has one.
LEMMA QuietRowsStep ==
    ASSUME CrewInv, [Next]_vars, UNCHANGED <<account, rows>>,
           lifecycle' \in [Matches -> Lifecycles],
           \A m \in Matches :
               CrewOf(m) # {} => required'[m] = required[m] /\ lifecycle'[m] # "ABSENT",
           \A m \in Matches : lifecycle'[m] = "IN_PROGRESS" => CrewOf(m) # {}
    PROVE  CrewInv'
<1>1. \A m : CrewOf(m)' = CrewOf(m)
    BY DEF CrewOf
<1>2. TypeOK'
    BY CountsAreKept, OpenIsBoolean DEF CrewInv, TypeOK
<1>3. \A x \in rows' : account'[x.official] = "ACTIVE"
    BY DEF CrewInv, SeatedAreActive, Active
<1> QED
    BY <1>1, <1>2, <1>3, CrewsShrink

\* Steps that take the whole crew off a match that is not in progress after it.
LEMMA ReleaseStep ==
    ASSUME CrewInv, [Next]_vars, NEW m \in Matches, rows' = Release(m),
           UNCHANGED <<account, required>>,
           lifecycle' \in [Matches -> Lifecycles], lifecycle'[m] # "IN_PROGRESS",
           \A k \in Matches \ {m} : lifecycle'[k] = lifecycle[k]
    PROVE  CrewInv'
<1>1. rows' \subseteq rows /\ CrewOf(m)' = {}
    BY DEF Release, CrewOf
<1>2. \A k \in Matches \ {m} : CrewOf(k)' = CrewOf(k)
    BY DEF Release, CrewOf
<1>3. TypeOK'
    BY <1>1, CountsAreKept, OpenIsBoolean DEF CrewInv, TypeOK
<1>4. \A x \in rows' : account'[x.official] = "ACTIVE"
    BY <1>1 DEF CrewInv, SeatedAreActive, Active
<1>5. \A k \in Matches : \/ CrewOf(k)' = {}
                         \/ CrewOf(k)' = CrewOf(k) /\ required'[k] = required[k] /\ lifecycle'[k] # "ABSENT"
    BY <1>1, <1>2 DEF CrewInv, SeatsAreFull
<1>6. \A k \in Matches : lifecycle'[k] = "IN_PROGRESS" => CrewOf(k)' # {}
    BY <1>2 DEF CrewInv, ProgressHasCrew
<1> QED
    BY <1>1, <1>3, <1>4, <1>5, <1>6, CrewsShrink

LEMMA CancelStep ==
    ASSUME CrewInv, [Next]_vars, NEW force, CancelBracket(force)
    PROVE  CrewInv'
<1>1. rows' \subseteq rows /\ \A x : x \in rows' <=> x \in rows /\ x.match \notin Fixtures
    BY DEF CancelBracket
<1>2. \A k \in Matches : CrewOf(k)' = IF k \in Fixtures THEN {} ELSE CrewOf(k)
    BY <1>1 DEF CrewOf
<1>3. \A k \in Matches : /\ k \in Fixtures => lifecycle'[k] = "ABSENT"
                         /\ k \notin Fixtures => lifecycle'[k] = lifecycle[k] /\ required'[k] = required[k]
    BY DEF CancelBracket
<1>4. lifecycle' \in [Matches -> Lifecycles]
    BY DEF CancelBracket, CrewInv, TypeOK, Lifecycles
<1>5. TypeOK'
    BY <1>1, <1>4, CountsAreKept, OpenIsBoolean DEF CancelBracket, CrewInv, TypeOK
<1>6. \A x \in rows' : account'[x.official] = "ACTIVE"
    BY <1>1 DEF CancelBracket, CrewInv, SeatedAreActive, Active
<1>7. \A k \in Matches : \/ CrewOf(k)' = {}
                         \/ CrewOf(k)' = CrewOf(k) /\ required'[k] = required[k] /\ lifecycle'[k] # "ABSENT"
    BY <1>2, <1>3 DEF CrewInv, SeatsAreFull
<1>8. \A k \in Matches : lifecycle'[k] = "IN_PROGRESS" => CrewOf(k)' # {}
    BY <1>2, <1>3 DEF CrewInv, ProgressHasCrew
<1> QED
    BY <1>1, <1>5, <1>6, <1>7, <1>8, CrewsShrink
LEMMA CrewStep ==
    ASSUME CrewInv, [Next]_vars
    PROVE  CrewInv'
<1>0. /\ lifecycle \in [Matches -> Lifecycles]
      /\ \A m \in Matches : CrewOf(m) # {} => lifecycle[m] # "ABSENT"
      /\ \A m \in Matches : lifecycle[m] = "IN_PROGRESS" => CrewOf(m) # {}
    BY DEF CrewInv, TypeOK, SeatsAreFull, ProgressHasCrew
<1>1. CASE \E o \in Officials : CreateOfficial(o) \/ UpdateOfficial(o)
    BY <1>1, AccountStep
<1>2. CASE \/ ConfirmBracket \/ ArchiveTournament \/ UNCHANGED vars
           \/ \E r \in Rounds, n \in Counts : UpdateRoundStaffing(r, n)
    <2>1. UNCHANGED <<account, rows, lifecycle, required>>
        BY <1>2 DEF ConfirmBracket, ArchiveTournament, UpdateRoundStaffing, vars
    <2> QED
        BY <1>0, <2>1, QuietRowsStep
<1>3. CASE \E force \in BOOLEAN : CancelBracket(force)
    BY <1>3, CancelStep
<1>4. ASSUME NEW m \in Matches, CreateMatch(m) \/ PrepareFixture(m) PROVE CrewInv'
    <2>1. /\ UNCHANGED <<account, rows>> /\ lifecycle[m] = "ABSENT"
          /\ lifecycle' = [lifecycle EXCEPT ![m] = "NOT_STARTED"]
          /\ \A k \in Matches \ {m} : required'[k] = required[k]
        BY <1>4 DEF CreateMatch, PrepareFixture, CrewInv, TypeOK
    <2>2. CrewOf(m) = {} /\ "NOT_STARTED" \in Lifecycles
        BY <1>0, <2>1 DEF Lifecycles
    <2> QED
        BY <1>0, <2>1, <2>2, QuietRowsStep
<1>5. ASSUME NEW m \in Matches, StartMatch(m) PROVE CrewInv'
    <2>1. /\ UNCHANGED <<account, rows, required>>
          /\ lifecycle' = [lifecycle EXCEPT ![m] = "IN_PROGRESS"]
        BY <1>5 DEF StartMatch
    <2>2. CrewOf(m) # {} /\ "IN_PROGRESS" \in Lifecycles
        BY <1>5 DEF StartMatch, Owns, CrewOf, Lifecycles
    <2> QED
        BY <1>0, <2>1, <2>2, QuietRowsStep
<1>6. ASSUME NEW m \in Matches, NEW s \in Supervisors, ReleaseMatch(s, m) PROVE CrewInv'
    <2>1. /\ UNCHANGED <<account, required, lifecycle>> /\ rows' = Release(m)
          /\ lifecycle[m] = "NOT_STARTED"
        BY <1>6 DEF ReleaseMatch, ActiveMatch
    <2> QED
        BY <1>0, <2>1, ReleaseStep
<1>7. ASSUME NEW m \in Matches, NEW next \in {"NOT_STARTED", "SUSPENDED", "COMPLETED"},
             LeaveMatch(m, next)
      PROVE  CrewInv'
    <2>1. /\ UNCHANGED <<account, required>> /\ rows' = Release(m)
          /\ lifecycle' = [lifecycle EXCEPT ![m] = next]
        BY <1>7 DEF LeaveMatch
    <2>2. next \in Lifecycles /\ next # "IN_PROGRESS"
        BY DEF Lifecycles
    <2> QED
        BY <1>0, <2>1, <2>2, ReleaseStep
<1>8. ASSUME NEW m \in Matches, ResetMatch(m) PROVE CrewInv'
    <2>1. /\ UNCHANGED <<account, required>> /\ rows' = ResetRows(m)
          /\ lifecycle' = [lifecycle EXCEPT ![m] = "NOT_STARTED"]
        BY <1>8 DEF ResetMatch
    <2>2. "NOT_STARTED" \in Lifecycles
        BY DEF Lifecycles
    <2>3. CASE lifecycle[m] = "COMPLETED"
        BY <1>0, <2>1, <2>2, <2>3, ReleaseStep DEF ResetRows
    <2>4. CASE lifecycle[m] # "COMPLETED"
        <3>1. UNCHANGED <<account, rows, required>>
            BY <2>1, <2>4 DEF ResetRows
        <3> QED
            BY <1>0, <2>1, <2>2, <3>1, QuietRowsStep
    <2> QED
        BY <2>3, <2>4
<1> QED
    BY <1>1, <1>2, <1>3, <1>4, <1>5, <1>6, <1>7, <1>8, TakeStep, ConfirmStep
        DEF Next, AdminNext, CrewNext, MatchNext

LEMMA CrewInductive ==
    Spec => []CrewInv
<1>1. Init => CrewInv
    <2> SUFFICES ASSUME Init PROVE CrewInv
        OBVIOUS
    <2>1. open \in BOOLEAN
        BY DEF Init
    <2>2. TypeOK
        BY <2>1, MinimumIsCount DEF Init, TypeOK, Lifecycles
    <2>3. \A m : CrewOf(m) = {}
        BY DEF Init, CrewOf
    <2> QED
        BY <2>2, <2>3 DEF Init, CrewInv, OneSeatEach, SeatedAreActive, SeatsAreSingle,
            SupervisorSits, SeatsAreFull, ProgressHasCrew
<1> QED
    BY <1>1, CrewStep, PTL DEF Spec

\* A crew whose seats are single and full has one member more than its match
\* requires judges.
LEMMA CrewSize ==
    ASSUME CrewInv, NEW m \in Matches, CrewOf(m) # {}
    PROVE  Cardinality(CrewOf(m)) = required[m] + 1
<1> DEFINE C == CrewOf(m)
           n == required[m]
           f == [x \in C |-> x.position]
<1>0. n \in Nat
    BY MinimumIsCount DEF CrewInv, TypeOK
<1>1. 0 \in Int /\ n \in Int /\ ~(0 > n) /\ n - 0 + 1 = n + 1
    BY <1>0
<1>2. {x.position : x \in C} = 0 .. n
    BY DEF CrewInv, SeatsAreFull
<1>3. \A x, y \in C : x.position = y.position => x = y
    BY DEF CrewInv, SeatsAreSingle, CrewOf
<1> HIDE DEF C, n
<1>4. f \in Injection(C, 0 .. n)
    BY <1>2, <1>3 DEF Injection, IsInjective
<1>5. f \in Surjection(C, 0 .. n)
    BY <1>2 DEF Surjection
<1>6. IsFiniteSet(0 .. n) /\ Cardinality(0 .. n) = n + 1
    BY <1>1, FS_Interval
<1> HIDE DEF f
<1>7. Cardinality(C) = Cardinality(0 .. n)
    BY <1>4, <1>5, <1>6, FS_Injection
<1> QED
    BY <1>6, <1>7 DEF C, n

\* No half crews and no match in progress without one: whatever takes, team
\* changes, deactivations, staffing changes, cancellations and match commands
\* follow each other.
THEOREM CrewsStayWhole ==
    Spec => []CrewsAreKept
<1>1. CrewInv => CrewsAreKept
    <2> SUFFICES ASSUME CrewInv PROVE CrewsAreKept
        OBVIOUS
    <2>1. /\ \A x, y \in rows : x.official = y.official => x = y
          /\ \A x \in rows : Active(x.official)
          /\ ProgressHasCrew
        BY DEF CrewInv, OneSeatEach, SeatedAreActive
    <2>2. ASSUME NEW m \in Matches, CrewOf(m) # {}
          PROVE  /\ {x.position : x \in CrewOf(m)} = 0 .. required[m]
                 /\ Cardinality(CrewOf(m)) = required[m] + 1
                 /\ \A x \in CrewOf(m) : x.official \in Supervisors <=> x.position = 0
        <3>1. Cardinality(CrewOf(m)) = required[m] + 1
            BY <2>2, CrewSize
        <3> QED
            BY <2>2, <3>1 DEF CrewInv, SeatsAreFull, SupervisorSits, CrewOf
    <2> QED
        BY <2>1, <2>2 DEF CrewsAreKept, CrewsAreWhole
<1> QED
    BY <1>1, CrewInductive, PTL

\* Every match in the list a supervisor picks from can be taken with any full
\* team of ready judges.
THEOREM OffersCanBeTaken ==
    Spec => []OfferedMatchIsTakeable
<1>1. CrewInv => OfferedMatchIsTakeable
    <2> SUFFICES ASSUME CrewInv, NEW s \in Supervisors, NEW m \in Matches,
                        Claimable(s, m), Ready(s), NEW team \in Teams(required[m]),
                        \A p \in DOMAIN team : Ready(team[p])
                 PROVE  TakeAllowed(s, m, team)
        BY DEF OfferedMatchIsTakeable
    <2>1. required[m] \in Nat
        BY MinimumIsCount DEF CrewInv, TypeOK
    <2>2. Len(team) = required[m]
        BY <2>1, TeamFacts
    <2>3. \A x \in CrewOf(m) : x.position # 0
        <3>1. ~\E x \in CrewOf(m) : x.official = s
            BY DEF Ready, SeatsOf, CrewOf
        <3> QED
            BY <3>1 DEF Claimable
    <2>4. CrewOf(m) = {}
        <3> SUFFICES ASSUME CrewOf(m) # {} PROVE FALSE
            OBVIOUS
        <3>1. {x.position : x \in CrewOf(m)} = 0 .. required[m]
            BY DEF CrewInv, SeatsAreFull
        <3>2. 0 \in 0 .. required[m]
            BY <2>1
        <3> QED
            BY <2>3, <3>1, <3>2
    <2> QED
        BY <2>2, <2>4 DEF TakeAllowed, ClaimableMatch, Claimable, Ready
<1> QED
    BY <1>1, CrewInductive, PTL
-----------------------------------------------------------------------------
(* The bracket.                                                             *)

LEMMA ActiveFinite ==
    IsFiniteSet(ActiveJudges) /\ Cardinality(ActiveJudges) \in Nat
<1>1. ActiveJudges \in SUBSET Judges
    BY DEF ActiveJudges
<1>2. IsFiniteSet(ActiveJudges)
    BY <1>1, JudgesFinite, FS_Subset
<1> QED
    BY <1>2, FS_CardinalityType

LEMMA ActiveFinitePrimed ==
    IsFiniteSet(ActiveJudges') /\ Cardinality(ActiveJudges') \in Nat
<1>1. ActiveJudges' \in SUBSET Judges
    BY DEF ActiveJudges
<1>2. IsFiniteSet(ActiveJudges')
    BY <1>1, JudgesFinite, FS_Subset
<1> QED
    BY <1>2, FS_CardinalityType

LEMMA RoundsOfFixtures ==
    ASSUME NEW m \in Fixtures
    PROVE  m \in Matches /\ RoundOf[m] \in Rounds /\ RoundOf[m] \in Nat
BY StaffingAssumption DEF Fixtures

\* A crew shows that there are enough active judges for its match.
LEMMA CrewShowsJudges ==
    ASSUME CrewInv, NEW m \in Matches, CrewOf(m) # {}
    PROVE  required[m] <= Cardinality(ActiveJudges)
<1> DEFINE n == required[m]
           at(p) == CHOOSE x \in CrewOf(m) : x.position = p
           f == [p \in 1 .. n |-> at(p).official]
<1>0. n \in Nat
    BY MinimumIsCount DEF CrewInv, TypeOK
<1>1. {x.position : x \in CrewOf(m)} = 0 .. n
    BY DEF CrewInv, SeatsAreFull
<1> HIDE DEF n
<1>2. ASSUME NEW p \in 1 .. n PROVE at(p) \in CrewOf(m) /\ at(p).position = p
    <2>1. p \in 0 .. n
        BY <1>0
    <2>2. \E x \in CrewOf(m) : x.position = p
        BY <1>1, <2>1
    <2> QED
        BY <2>2
<1> HIDE DEF at
<1>3. ASSUME NEW p \in 1 .. n PROVE at(p).official \in ActiveJudges
    <2>1. at(p) \in rows /\ at(p).position # 0
        BY <1>0, <1>2 DEF CrewOf
    <2>2. at(p).official \in Officials /\ at(p).official \notin Supervisors /\ Active(at(p).official)
        BY <2>1 DEF CrewInv, TypeOK, RowType, SupervisorSits, SeatedAreActive
    <2> QED
        BY <2>2 DEF ActiveJudges, Officials
<1>4. ASSUME NEW p \in 1 .. n, NEW q \in 1 .. n, at(p).official = at(q).official PROVE p = q
    <2>1. at(p) \in rows /\ at(q) \in rows
        BY <1>2 DEF CrewOf
    <2>2. at(p) = at(q)
        BY <1>4, <2>1 DEF CrewInv, OneSeatEach
    <2> QED
        BY <1>2, <2>2
<1>5. f \in Injection(1 .. n, ActiveJudges)
    BY <1>3, <1>4 DEF Injection, IsInjective
<1> HIDE DEF f
<1>6. Cardinality(1 .. n) <= Cardinality(ActiveJudges)
    BY <1>5, ActiveFinite, FS_Injection
<1>7. 1 \in Int /\ n \in Int /\ (1 > n => n = 0) /\ n - 1 + 1 = n
    BY <1>0
<1>8. Cardinality(1 .. n) = n
    BY <1>7, FS_Interval
<1> QED
    BY <1>6, <1>8 DEF n

\* An account step keeps every requirement of an active bracket that is met and
\* that a deactivation has to respect.
LEMMA JudgesRemain ==
    ASSUME CrewInv, NEW o \in Officials, CreateOfficial(o) \/ UpdateOfficial(o),
           NEW c \in Nat, c <= Cardinality(ActiveJudges), c \in Requirements
    PROVE  c <= Cardinality(ActiveJudges')
<1>0. account \in [Officials -> {"ABSENT", "ACTIVE", "INACTIVE"}] /\ Judges \subseteq Officials
    BY DEF CrewInv, TypeOK, Officials
<1>1. CASE ActiveJudges \subseteq ActiveJudges'
    <2>1. ActiveJudges \in SUBSET ActiveJudges'
        BY <1>1
    <2>2. Cardinality(ActiveJudges) <= Cardinality(ActiveJudges')
        BY <2>1, ActiveFinitePrimed, FS_Subset
    <2> QED
        BY <2>2, ActiveFinite, ActiveFinitePrimed
<1>2. CASE ~(ActiveJudges \subseteq ActiveJudges')
    <2>1. /\ o \in Judges /\ Active(o) /\ DeactivationAllowed(o)
          /\ account' = [account EXCEPT ![o] = "INACTIVE"]
        BY <1>0, <1>2 DEF CreateOfficial, UpdateOfficial, ActiveJudges, Active
    <2>2. ActiveJudges' = ActiveJudges \ {o} /\ o \in ActiveJudges
        BY <1>0, <2>1 DEF ActiveJudges, Active
    <2>3. Cardinality(ActiveJudges') = Cardinality(ActiveJudges) - 1
        BY <2>2, ActiveFinite, FS_RemoveElement
    <2>4. \A n \in Requirements : Cardinality(ActiveJudges) - 1 >= n
        BY <2>1 DEF DeactivationAllowed
    <2> QED
        BY <2>3, <2>4, ActiveFinite
<1> QED
    BY <1>1, <1>2
\* What a step that moves one fixture has to respect.
LEMMA OneMatchMoves ==
    ASSUME BracketInv, NEW m \in Matches, NEW next,
           lifecycle' = [lifecycle EXCEPT ![m] = next],
           UNCHANGED <<account, bracket, staffing, required>>,
           lifecycle[m] # "ABSENT", next # "ABSENT",
           lifecycle[m] = "COMPLETED" => \A f \in Fed(m) : lifecycle[f] = "ABSENT",
           next = "COMPLETED" => required[m] <= Cardinality(ActiveJudges)
    PROVE  FixturesFollowRounds' /\ PreparedInOrder' /\ CompletedCanRepeat'
<1>1. /\ \A k \in Matches : lifecycle'[k] = IF k = m THEN next ELSE lifecycle[k]
      /\ Fixtures \subseteq Matches
    BY DEF BracketInv, CrewInv, TypeOK, Fixtures
<1>2. FixturesFollowRounds'
    BY <1>1 DEF BracketInv, FixturesFollowRounds
<1>3. PreparedInOrder'
    <2> SUFFICES ASSUME NEW k \in Fixtures, lifecycle'[k] # "ABSENT", NEW f \in Feeders(k)
                 PROVE  lifecycle'[f] = "COMPLETED"
        BY DEF PreparedInOrder, Feeders
    <2>1. lifecycle[k] # "ABSENT" /\ f \in Fixtures
        BY <1>1 DEF Feeders
    <2>2. lifecycle[f] = "COMPLETED"
        BY <2>1 DEF BracketInv, PreparedInOrder
    <2>3. f # m
        BY <2>1, <2>2 DEF Fed
    <2> QED
        BY <1>1, <2>1, <2>2, <2>3
<1>4. ActiveJudges' = ActiveJudges
    BY DEF ActiveJudges, Active
<1>5. CompletedCanRepeat'
    <2> SUFFICES ASSUME NEW k \in Fixtures, NEW f \in Fixtures,
                        lifecycle'[k] = "COMPLETED", lifecycle'[f] = "ABSENT"
                 PROVE  staffing[RoundOf[k]] <= Cardinality(ActiveJudges)
        BY <1>4 DEF CompletedCanRepeat
    <2>1. lifecycle[f] = "ABSENT"
        BY <1>1
    <2>2. CASE k = m
        <3>1. required[m] = staffing[RoundOf[m]]
            BY <2>2 DEF BracketInv, FixturesFollowRounds
        <3>2. next = "COMPLETED"
            BY <1>1, <2>2
        <3> QED
            BY <2>2, <3>1, <3>2
    <2>3. CASE k # m
        BY <1>1, <2>1, <2>3 DEF BracketInv, CompletedCanRepeat
    <2> QED
        BY <2>2, <2>3
<1> QED
    BY <1>2, <1>3, <1>5

\* Nothing of the bracket changes.
LEMMA BracketUntouched ==
    ASSUME BracketInv, UNCHANGED <<account, lifecycle, bracket, staffing, required>>
    PROVE  FixturesFollowRounds' /\ PreparedInOrder' /\ CompletedCanRepeat'
BY DEF BracketInv, FixturesFollowRounds, PreparedInOrder, CompletedCanRepeat, ActiveJudges, Active

\* The requirements of the rounds, while a fixture is open.
LEMMA RoundsAreRequired ==
    ASSUME BracketInv, bracket = "ACTIVE", NEW f \in Fixtures, lifecycle[f] # "COMPLETED",
           NEW r \in Rounds
    PROVE  staffing[r] \in Requirements /\ staffing[r] \in Nat
BY MinimumIsCount DEF Requirements, BracketInv, CrewInv, TypeOK

LEMMA BracketStep ==
    ASSUME BracketInv, [Next]_vars
    PROVE  FixturesFollowRounds' /\ PreparedInOrder' /\ CompletedCanRepeat'
<1> USE DEF BracketInv
<1>0. lifecycle \in [Matches -> Lifecycles] /\ Fixtures \subseteq Matches
    BY DEF CrewInv, TypeOK, Fixtures
<1>1. ASSUME NEW o \in Officials, CreateOfficial(o) \/ UpdateOfficial(o)
      PROVE  FixturesFollowRounds' /\ PreparedInOrder' /\ CompletedCanRepeat'
    <2>1. UNCHANGED <<lifecycle, bracket, staffing, required>>
        BY <1>1 DEF CreateOfficial, UpdateOfficial
    <2>2. FixturesFollowRounds' /\ PreparedInOrder'
        BY <2>1 DEF FixturesFollowRounds, PreparedInOrder
    <2>3. CompletedCanRepeat'
        <3> SUFFICES ASSUME NEW k \in Fixtures, NEW f \in Fixtures,
                            lifecycle[k] = "COMPLETED", lifecycle[f] = "ABSENT"
                     PROVE  staffing[RoundOf[k]] <= Cardinality(ActiveJudges')
            BY <2>1 DEF CompletedCanRepeat
        <3>1. bracket = "ACTIVE"
            BY DEF FixturesFollowRounds, CrewInv, TypeOK
        <3>2. staffing[RoundOf[k]] \in Requirements /\ staffing[RoundOf[k]] \in Nat
            BY <3>1, RoundsAreRequired, RoundsOfFixtures
        <3>3. staffing[RoundOf[k]] <= Cardinality(ActiveJudges)
            BY DEF CompletedCanRepeat
        <3> QED
            BY <1>1, <3>2, <3>3, JudgesRemain
    <2> QED
        BY <2>2, <2>3
<1>2. CASE ConfirmBracket
    <2>1. \A m \in Fixtures : lifecycle'[m] = "ABSENT" /\ required'[m] = 0
        BY <1>2 DEF ConfirmBracket, FixturesFollowRounds
    <2> QED
        BY <1>2, <2>1 DEF ConfirmBracket, FixturesFollowRounds, PreparedInOrder, CompletedCanRepeat
<1>3. ASSUME NEW force, CancelBracket(force)
      PROVE  FixturesFollowRounds' /\ PreparedInOrder' /\ CompletedCanRepeat'
    <2>1. \A m \in Fixtures : lifecycle'[m] = "ABSENT" /\ required'[m] = 0
        BY <1>0, <1>3 DEF CancelBracket
    <2> QED
        BY <2>1 DEF FixturesFollowRounds, PreparedInOrder, CompletedCanRepeat
<1>4. ASSUME NEW r \in Rounds, NEW n \in Counts, UpdateRoundStaffing(r, n)
      PROVE  FixturesFollowRounds' /\ PreparedInOrder' /\ CompletedCanRepeat'
    <2>1. /\ UNCHANGED <<account, lifecycle, bracket, required>>
          /\ \A k \in Rounds : staffing'[k] = IF k = r THEN n ELSE staffing[k]
          /\ \A m \in Fixtures : RoundOf[m] = r => lifecycle[m] = "ABSENT"
        BY <1>4 DEF UpdateRoundStaffing, StaffingEditable, FixturesOf, CrewInv, TypeOK
    <2>2. FixturesFollowRounds'
        BY <2>1, RoundsOfFixtures DEF FixturesFollowRounds
    <2>3. PreparedInOrder'
        BY <2>1 DEF PreparedInOrder
    <2>4. CompletedCanRepeat'
        BY <2>1, RoundsOfFixtures DEF CompletedCanRepeat, ActiveJudges, Active
    <2> QED
        BY <2>2, <2>3, <2>4
<1>5. ASSUME NEW m \in Matches, CreateMatch(m)
      PROVE  FixturesFollowRounds' /\ PreparedInOrder' /\ CompletedCanRepeat'
    <2>1. /\ UNCHANGED <<account, bracket, staffing>> /\ m \notin Fixtures
          /\ \A k \in Fixtures : lifecycle'[k] = lifecycle[k] /\ required'[k] = required[k]
        BY <1>0, <1>5 DEF CreateMatch, CrewInv, TypeOK
    <2> QED
        BY <2>1 DEF FixturesFollowRounds, PreparedInOrder, CompletedCanRepeat, Feeders,
            ActiveJudges, Active
<1>6. ASSUME NEW m \in Matches, PrepareFixture(m)
      PROVE  FixturesFollowRounds' /\ PreparedInOrder' /\ CompletedCanRepeat'
    <2>1. /\ UNCHANGED <<account, bracket, staffing>> /\ m \in Fixtures /\ bracket = "ACTIVE"
          /\ lifecycle[m] = "ABSENT"
          /\ \A f \in Feeders(m) : lifecycle[f] = "COMPLETED"
          /\ \A k \in Matches : lifecycle'[k] = IF k = m THEN "NOT_STARTED" ELSE lifecycle[k]
          /\ \A k \in Matches : required'[k] = IF k = m THEN staffing[RoundOf[m]] ELSE required[k]
        BY <1>0, <1>6 DEF PrepareFixture, CrewInv, TypeOK
    <2>2. FixturesFollowRounds'
        BY <1>0, <2>1 DEF FixturesFollowRounds
    <2>3. PreparedInOrder'
        <3>1. ASSUME NEW k \in Fixtures, lifecycle'[k] # "ABSENT", NEW f \in Feeders(k)
              PROVE  lifecycle'[f] = "COMPLETED"
            <4>1. f \in Fixtures
                BY DEF Feeders
            <4>2. lifecycle[f] = "COMPLETED"
                BY <1>0, <2>1, <3>1 DEF PreparedInOrder
            <4> QED
                BY <1>0, <2>1, <4>1, <4>2
        <3> QED
            BY <3>1 DEF PreparedInOrder, Feeders
    <2>4. CompletedCanRepeat'
        BY <1>0, <2>1 DEF CompletedCanRepeat, ActiveJudges, Active
    <2> QED
        BY <2>2, <2>3, <2>4
<1>7. ASSUME NEW m \in Matches, StartMatch(m)
      PROVE  FixturesFollowRounds' /\ PreparedInOrder' /\ CompletedCanRepeat'
    BY <1>7, OneMatchMoves DEF StartMatch
<1>8. ASSUME NEW m \in Matches, NEW next \in {"NOT_STARTED", "SUSPENDED", "COMPLETED"},
             LeaveMatch(m, next)
      PROVE  FixturesFollowRounds' /\ PreparedInOrder' /\ CompletedCanRepeat'
    <2>1. CrewOf(m) # {}
        BY <1>8 DEF LeaveMatch, Owns, CrewOf
    <2>2. required[m] <= Cardinality(ActiveJudges)
        BY <2>1, CrewShowsJudges
    <2> QED
        BY <1>8, <2>2, OneMatchMoves DEF LeaveMatch
<1>9. ASSUME NEW m \in Matches, ResetMatch(m)
      PROVE  FixturesFollowRounds' /\ PreparedInOrder' /\ CompletedCanRepeat'
    BY <1>9, OneMatchMoves DEF ResetMatch
<1>10. ASSUME NEW s, NEW m \in Matches, NEW team, Take(s, m, team)
       PROVE  FixturesFollowRounds' /\ PreparedInOrder' /\ CompletedCanRepeat'
    <2> DEFINE next == IF lifecycle[m] = "SUSPENDED" THEN "IN_PROGRESS" ELSE lifecycle[m]
    <2>1. /\ lifecycle' = [lifecycle EXCEPT ![m] = next]
          /\ UNCHANGED <<account, bracket, staffing, required>>
          /\ lifecycle[m] \in {"NOT_STARTED", "SUSPENDED"}
        BY <1>10 DEF Take, TakeAllowed, ClaimableMatch
    <2>2. next # "ABSENT" /\ next # "COMPLETED"
        BY <2>1
    <2> HIDE DEF next
    <2> QED
        BY <2>1, <2>2, OneMatchMoves
<1>11. ASSUME \/ ArchiveTournament \/ UNCHANGED vars
              \/ \E s, m, team : ConfirmTeam(s, m, team) \/ ReleaseMatch(s, m)
       PROVE  UNCHANGED <<account, lifecycle, bracket, staffing, required>>
    BY <1>11 DEF ArchiveTournament, vars, ConfirmTeam, ReleaseMatch
<1> QED
    BY <1>1, <1>2, <1>3, <1>4, <1>5, <1>6, <1>7, <1>8, <1>9, <1>10, <1>11, BracketUntouched
        DEF Next, AdminNext, CrewNext, MatchNext

LEMMA BracketInductive ==
    Spec => []BracketInv
<1>1. Init /\ CrewInv => BracketInv
    BY DEF Init, BracketInv, FixturesFollowRounds, PreparedInOrder, CompletedCanRepeat, Fixtures
<1>2. BracketInv /\ [Next]_vars => BracketInv'
    BY CrewStep, BracketStep DEF BracketInv
<1> QED
    BY <1>1, <1>2, CrewInductive, PTL DEF Spec
\* Among the fixtures that can be reset while another is open, each has a round
\* whose judges are there.
LEMMA ResettableIsStaffable ==
    ASSUME BracketInv, Staffable, bracket = "ACTIVE",
           NEW f \in Fixtures, lifecycle[f] # "COMPLETED",
           NEW m \in Fixtures, lifecycle[m] = "COMPLETED",
           \A k \in Fed(m) : lifecycle[k] = "ABSENT"
    PROVE  staffing[RoundOf[m]] <= Cardinality(ActiveJudges)
<1>1. RoundOf[m] \in Nat /\ RoundOf[f] \in Nat
    BY RoundsOfFixtures
<1>2. CASE RoundOf[f] = RoundOf[m]
    BY <1>2 DEF Staffable
<1>3. CASE RoundOf[f] < RoundOf[m]
    BY <1>3 DEF BracketInv, PreparedInOrder, Feeders
<1>4. CASE RoundOf[m] < RoundOf[f]
    <2>1. f \in Fed(m)
        BY <1>4 DEF Fed, Feeders
    <2> QED
        BY <2>1 DEF BracketInv, CompletedCanRepeat
<1> QED
    BY <1>1, <1>2, <1>3, <1>4

LEMMA StaffableStep ==
    ASSUME BracketInv, [Next]_vars, Staffable, bracket = "ACTIVE", bracket' = "ACTIVE",
           NEW f \in Fixtures, lifecycle[f] # "COMPLETED"
    PROVE  Staffable'
<1> USE DEF BracketInv
<1>0. /\ lifecycle \in [Matches -> Lifecycles] /\ Fixtures \subseteq Matches
      /\ staffing' \in [Rounds -> Counts] /\ FixturesFollowRounds'
    BY CountsAreKept, BracketStep DEF CrewInv, TypeOK, Fixtures
<1> SUFFICES ASSUME NEW m \in Fixtures, lifecycle'[m] # "COMPLETED"
             PROVE  staffing'[RoundOf[m]] <= Cardinality(ActiveJudges')
    <2>1. ASSUME NEW m \in Fixtures, lifecycle'[m] # "COMPLETED",
                 staffing'[RoundOf[m]] <= Cardinality(ActiveJudges')
          PROVE  required'[m] <= Cardinality(ActiveJudges')
        <3>1. required'[m] = 0 \/ required'[m] = staffing'[RoundOf[m]]
            BY <1>0 DEF FixturesFollowRounds
        <3> QED
            BY <2>1, <3>1, ActiveFinitePrimed
    <2> QED
        BY <2>1 DEF Staffable
<1>1. ASSUME NEW o \in Officials, CreateOfficial(o) \/ UpdateOfficial(o)
      PROVE  staffing'[RoundOf[m]] <= Cardinality(ActiveJudges')
    <2>1. UNCHANGED <<lifecycle, staffing>>
        BY <1>1 DEF CreateOfficial, UpdateOfficial
    <2>2. staffing[RoundOf[m]] <= Cardinality(ActiveJudges)
        BY <2>1 DEF Staffable
    <2>3. staffing[RoundOf[m]] \in Requirements /\ staffing[RoundOf[m]] \in Nat
        BY RoundsAreRequired, RoundsOfFixtures
    <2> QED
        BY <1>1, <2>1, <2>2, <2>3, JudgesRemain
<1>2. ASSUME NEW r \in Rounds, NEW n \in Counts, UpdateRoundStaffing(r, n)
      PROVE  staffing'[RoundOf[m]] <= Cardinality(ActiveJudges')
    <2>1. UNCHANGED <<account, lifecycle>> /\ n <= Cardinality(ActiveJudges)
        BY <1>2 DEF UpdateRoundStaffing
    <2>2. ActiveJudges' = ActiveJudges
        BY <2>1 DEF ActiveJudges, Active
    <2>3. RoundOf[m] \in Rounds
        BY RoundsOfFixtures
    <2>4. staffing'[RoundOf[m]] = IF RoundOf[m] = r THEN n ELSE staffing[RoundOf[m]]
        BY <1>2, <2>3 DEF UpdateRoundStaffing, CrewInv, TypeOK
    <2> QED
        BY <2>1, <2>2, <2>4 DEF Staffable
<1>3. ASSUME UNCHANGED <<account, staffing>>, lifecycle[m] # "COMPLETED"
      PROVE  staffing'[RoundOf[m]] <= Cardinality(ActiveJudges')
    BY <1>3 DEF Staffable, ActiveJudges, Active
<1>4. ASSUME NEW k \in Matches, ResetMatch(k), lifecycle[m] = "COMPLETED"
      PROVE  staffing'[RoundOf[m]] <= Cardinality(ActiveJudges')
    <2>1. k = m /\ \A i \in Fed(m) : lifecycle[i] = "ABSENT"
        BY <1>0, <1>4 DEF ResetMatch
    <2>2. staffing[RoundOf[m]] <= Cardinality(ActiveJudges)
        BY <1>4, <2>1, ResettableIsStaffable
    <2> QED
        BY <1>4, <2>2 DEF ResetMatch, ActiveJudges, Active
<1>5. ASSUME NEW k \in Matches, ResetMatch(k) PROVE UNCHANGED <<account, staffing>>
    BY <1>5 DEF ResetMatch
<1>6. ~ConfirmBracket /\ \A force : ~CancelBracket(force)
    BY DEF ConfirmBracket, CancelBracket
<1>7. ASSUME NEW k \in Matches, CreateMatch(k) \/ PrepareFixture(k)
      PROVE  UNCHANGED <<account, staffing>> /\ lifecycle[m] # "COMPLETED"
    BY <1>0, <1>7 DEF CreateMatch, PrepareFixture
<1>8. ASSUME NEW s, NEW k \in Matches, NEW team, Take(s, k, team)
      PROVE  UNCHANGED <<account, staffing>> /\ lifecycle[m] # "COMPLETED"
    BY <1>0, <1>8 DEF Take, TakeAllowed, ClaimableMatch
<1>9. ASSUME NEW k \in Matches, StartMatch(k) \/ \E next : LeaveMatch(k, next)
      PROVE  UNCHANGED <<account, staffing>> /\ lifecycle[m] # "COMPLETED"
    BY <1>0, <1>9 DEF StartMatch, LeaveMatch
<1>10. ASSUME \/ ArchiveTournament \/ UNCHANGED vars
              \/ \E s, k, team : ConfirmTeam(s, k, team) \/ ReleaseMatch(s, k)
       PROVE  UNCHANGED <<account, staffing>> /\ lifecycle[m] # "COMPLETED"
    BY <1>10 DEF ArchiveTournament, vars, ConfirmTeam, ReleaseMatch
<1> QED
    BY <1>1, <1>2, <1>3, <1>4, <1>5, <1>6, <1>7, <1>8, <1>9, <1>10
        DEF Next, AdminNext, CrewNext, MatchNext

\* Once there are judges enough for the open part of a bracket, no deactivation,
\* no staffing change and no reset of a result makes it impossible to staff.
THEOREM BracketsStayStaffable ==
    Spec => BracketStaysStaffable
<1>1. BracketInv /\ [Next]_vars =>
        (Staffable /\ bracket = "ACTIVE" /\ bracket' = "ACTIVE"
           /\ (\E m \in Fixtures : lifecycle[m] # "COMPLETED") => Staffable')
    BY StaffableStep
<1> QED
    BY <1>1, BracketInductive, PTL DEF Spec, BracketStaysStaffable
=============================================================================
