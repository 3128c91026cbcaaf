-------------------------- MODULE StorageMigration --------------------------
(***************************************************************************)
(* Moving the images from the local volume to S3 and back                   *)
(* (storage-migration.ts, run-storage-migration.ts).  An operator freezes    *)
(* the application, runs the command in its copy and verify modes until a    *)
(* verification reports safe, and only then changes the driver.  Commands    *)
(* may be killed anywhere, fail, be repeated and run at the same time; the   *)
(* store that is not in use may hold anything, left by an earlier attempt.   *)
(*                                                                          *)
(* A key is generated once: the bytes uploaded under it are "GOOD" and     *)
(* any others "OTHER"; both may have the same length.                        *)
(***************************************************************************)
EXTENDS Naturals, FiniteSets

CONSTANTS
    ImageKeys,
    Commands,       \* processes of the command-line tool
    MaxTrouble      \* commands killed or failing, objects spoilt

ASSUME MigrationAssumption == MaxTrouble \in Nat

Stores == {"LOCAL", "S3"}
Bytes == {"NONE", "GOOD", "OTHER"}
Directions == {"FORWARD", "REVERSE"}
Modes == {"COPY", "VERIFY"}     \* the inventory and the dry run change nothing
Verdicts == {"copy", "equal", "conflict", "missing-source", "unsafe"}
From(d) == IF d = "FORWARD" THEN "LOCAL" ELSE "S3"
To(d) == IF d = "FORWARD" THEN "S3" ELSE "LOCAL"

Steps == {"OFF", "PREFLIGHT", "COPY", "WRITE", "VERIFY"}
CommandType ==
    [step : Steps, mode : Modes, direction : Directions, todo : SUBSET ImageKeys,
     keys : SUBSET ImageKeys, planned : SUBSET ImageKeys, safe : BOOLEAN]
Off == [step |-> "OFF", mode |-> "COPY", direction |-> "FORWARD", todo |-> {},
        keys |-> {}, planned |-> {}, safe |-> FALSE]

VARIABLES
    driver,     \* IMAGE_STORAGE_DRIVER
    frozen,     \* maintenance: no image is written or deleted by the application
    verified,   \* directions reported safe by a verification of this freeze
    used,       \* keys generated so far
    live,       \* keys that a row or a bracket refers to
    object,     \* what each store holds under each key
    migration,  \* media_migrations
    command,    \* what each process is doing
    trouble

migrationVars == <<driver, frozen, verified, used, live, object, migration, command, trouble>>
applicationVars == <<driver, frozen, used, live>>

MigrationTypeOK ==
    /\ driver \in Stores /\ frozen \in BOOLEAN /\ verified \subseteq Directions
    /\ used \subseteq ImageKeys /\ live \subseteq used
    /\ object \in [Stores -> [ImageKeys -> Bytes]]
    /\ migration \in [ImageKeys -> {"NONE", "PENDING", "COMPLETED"}]
    /\ command \in [Commands -> CommandType]
    /\ trouble \in 0..MaxTrouble

MigrationInit ==
    /\ driver = "LOCAL" /\ frozen = FALSE /\ verified = {}
    /\ used = {} /\ live = {}
    /\ object = [s \in Stores |-> [k \in ImageKeys |-> "NONE"]]
    /\ migration = [k \in ImageKeys |-> "NONE"]
    /\ command = [p \in Commands |-> Off]
    /\ trouble = 0

Idle == \A p \in Commands : command[p].step = "OFF"
Unused(s) == s # driver

-----------------------------------------------------------------------------
(* The application and its operator.                                        *)

Upload(k) ==
    /\ ~frozen /\ k \notin used
    /\ used' = used \cup {k} /\ live' = live \cup {k}
    /\ object' = [object EXCEPT ![driver][k] = "GOOD"]
    /\ UNCHANGED <<driver, frozen, verified, migration, command, trouble>>

Unreference(k) ==
    /\ ~frozen /\ k \in live
    /\ live' = live \ {k}
    /\ UNCHANGED <<driver, frozen, verified, used, object, migration, command, trouble>>

\* The reconciler (Media) deletes from the store in use only, and nothing that a
\* migration still waits for (isProtected).
Reconcile(k) ==
    /\ ~frozen /\ k \in used \ live /\ migration[k] # "PENDING"
    /\ object[driver][k] # "NONE"
    /\ object' = [object EXCEPT ![driver][k] = "NONE"]
    /\ UNCHANGED <<applicationVars, verified, migration, command, trouble>>

\* The copy nobody uses is lost or spoilt.
Spoil(k, b) ==
    /\ ~frozen /\ trouble < MaxTrouble
    /\ \E s \in Stores : /\ Unused(s)
                         /\ object[s][k] # b /\ object' = [object EXCEPT ![s][k] = b]
    /\ trouble' = trouble + 1
    /\ UNCHANGED <<applicationVars, verified, migration, command>>

Freeze ==
    /\ ~frozen
    /\ frozen' = TRUE
    /\ UNCHANGED <<driver, verified, used, live, object, migration, command, trouble>>

\* The freeze ends when all commands have, with the driver changed if the
\* verification of that direction was safe.
Thaw(d) ==
    /\ frozen /\ Idle
    /\ frozen' = FALSE /\ verified' = {}
    /\ driver' = IF From(d) = driver /\ d \in verified THEN To(d) ELSE driver
    /\ UNCHANGED <<used, live, object, migration, command, trouble>>

-----------------------------------------------------------------------------
(* The command.                                                             *)

\* Mutant: sizes are compared and hashes are not.
ParityOfSizes(from, to) ==
    IF from = "NONE" THEN "missing-source" ELSE IF to = "NONE" THEN "copy" ELSE "equal"

Parity(from, to) ==
    IF from = "NONE" THEN "missing-source"
    ELSE IF to = "NONE" THEN "copy"
    ELSE IF from = to THEN "equal" ELSE "conflict"

\* Keys are taken in their order.
First(ks) == CHOOSE k \in ks : TRUE

ParityOf(d, k) == Parity(object[From(d)][k], object[To(d)][k])

\* main: the live keys and the ones an earlier run marked (without
\* --include-outbox).
StartCommand(p, mode, d) ==
    /\ frozen /\ command[p] = Off /\ From(d) = driver
    /\ LET keys == live \cup {k \in ImageKeys : migration[k] = "PENDING"} IN
       command' = [command EXCEPT ![p] =
           [step |-> "PREFLIGHT", mode |-> mode, direction |-> d, todo |-> keys,
            keys |-> keys, planned |-> {}, safe |-> TRUE]]
    /\ UNCHANGED <<applicationVars, verified, object, migration, trouble>>

\* A store that cannot be read, or only denies access, proves nothing.
Inspected(d, k, action) ==
    \/ action = ParityOf(d, k) /\ UNCHANGED trouble
    \/ action = "unsafe" /\ trouble < MaxTrouble /\ trouble' = trouble + 1

Inspect(p) ==
    LET c == command[p]
        k == First(c.todo)
    IN
    /\ c.step = "PREFLIGHT" /\ c.todo # {}
    /\ \E action \in Verdicts :
        /\ Inspected(c.direction, k, action)
        /\ command' = [command EXCEPT ![p] =
             [c EXCEPT !.todo = @ \ {k},
                       !.planned = IF action = "copy" THEN @ \cup {k} ELSE @,
                       !.safe = @ /\ action \in {"copy", "equal"}]]
    /\ UNCHANGED <<applicationVars, verified, object, migration>>

\* Copying starts only after a preflight without any conflict; verifying reads
\* everything again.
EndPreflight(p) ==
    LET c == command[p]
        goOn(keys) == [c EXCEPT !.step = c.mode, !.todo = keys, !.keys = {}, !.planned = {}]
    IN
    /\ c.step = "PREFLIGHT" /\ c.todo = {}
    /\ command' = [command EXCEPT ![p] =
         IF c.mode = "VERIFY" THEN goOn(c.keys) ELSE IF c.safe THEN goOn(c.planned) ELSE Off]
    /\ UNCHANGED <<applicationVars, verified, object, migration, trouble>>

\* Forward, a new key is marked PENDING, a known one keeps its state.  Reverse,
\* the bytes are written to a file with another name and compared; a destination
\* that has appeared ends the copy of this key, or of all when it differs.
BeginCopy(p) ==
    LET c == command[p]
        k == First(c.todo)
        ready == [c EXCEPT !.step = "WRITE"]
    IN /\ c.step = "COPY" /\ c.todo # {}
       /\ \/ /\ c.direction = "FORWARD"
             /\ migration' = [migration EXCEPT ![k] = IF @ = "NONE" THEN "PENDING" ELSE @]
             /\ command' = [command EXCEPT ![p] = ready]
          \/ /\ c.direction = "REVERSE"
             /\ command' = [command EXCEPT ![p] =
                  CASE ParityOf("REVERSE", k) = "copy" -> ready
                    [] ParityOf("REVERSE", k) = "equal" -> [c EXCEPT !.todo = @ \ {k}]
                    [] OTHER -> Off]
             /\ UNCHANGED migration
       /\ UNCHANGED <<applicationVars, verified, object, trouble>>

\* PutObject replaces what is there; link(2) does not, and a file that was there
\* first has to be the same.
FinishCopy(p) ==
    LET c == command[p]
        d == c.direction
        k == First(c.todo)
        done == [c EXCEPT !.step = "COPY", !.todo = @ \ {k}]
    IN /\ c.step = "WRITE"
       /\ \/ /\ d = "FORWARD" \/ object["LOCAL"][k] = "NONE"
             /\ object' = [object EXCEPT ![To(d)][k] = object[From(d)][k]]
             /\ command' = [command EXCEPT ![p] = done]
          \/ /\ d = "REVERSE" /\ object["LOCAL"][k] # "NONE"
             /\ command' = [command EXCEPT ![p] =
                  IF ParityOf("REVERSE", k) = "equal" THEN done ELSE Off]
             /\ UNCHANGED object
       /\ UNCHANGED <<applicationVars, verified, migration, trouble>>

VerifyKey(p) ==
    LET c == command[p]
        k == First(c.todo)
    IN
    /\ c.step = "VERIFY" /\ c.todo # {}
    /\ \E action \in Verdicts :
        /\ Inspected(c.direction, k, action)
        /\ command' = [command EXCEPT ![p] =
             [c EXCEPT !.todo = @ \ {k}, !.safe = @ /\ action = "equal"]]
        /\ migration' = [migration EXCEPT ![k] =
             IF c.direction = "FORWARD" /\ action = "equal" /\ @ = "PENDING" THEN "COMPLETED" ELSE @]
    /\ UNCHANGED <<applicationVars, verified, object>>

\* The report is written; its verdict is the exit code.
Report(p) ==
    LET c == command[p] IN
    /\ c.step \in {"COPY", "VERIFY"} /\ c.todo = {}
    /\ verified' = IF c.step = "VERIFY" /\ c.safe THEN verified \cup {c.direction} ELSE verified
    /\ command' = [command EXCEPT ![p] = Off]
    /\ UNCHANGED <<applicationVars, object, migration, trouble>>

\* A kill, or a store or database that fails while copying; a PutObject that
\* failed may have been served.
Interrupt(p) ==
    LET c == command[p] IN
    /\ c.step # "OFF" /\ trouble < MaxTrouble
    /\ trouble' = trouble + 1
    /\ \/ UNCHANGED object
       \/ /\ c.step = "WRITE" /\ c.direction = "FORWARD"
          /\ object' = [object EXCEPT !["S3"][First(c.todo)] = object["LOCAL"][First(c.todo)]]
    /\ command' = [command EXCEPT ![p] = Off]
    /\ UNCHANGED <<applicationVars, verified, migration>>

-----------------------------------------------------------------------------
MigrationNext ==
    \/ \E k \in ImageKeys : \/ Upload(k) \/ Unreference(k) \/ Reconcile(k)
                            \/ \E b \in Bytes \ {"GOOD"} : Spoil(k, b)
    \/ Freeze \/ \E d \in Directions : Thaw(d)
    \/ \E p \in Commands :
         \/ \E mode \in Modes, d \in Directions : StartCommand(p, mode, d)
         \/ Inspect(p) \/ EndPreflight(p) \/ BeginCopy(p) \/ FinishCopy(p) \/ VerifyKey(p)
         \/ Report(p) \/ Interrupt(p)

MigrationSpec == MigrationInit /\ [][MigrationNext]_migrationVars

-----------------------------------------------------------------------------
(* Properties.                                                              *)

\* The store in use holds the uploaded bytes of every image something refers to,
\* before, after and between migrations in either direction: whatever was
\* killed, repeated, left behind in the other store or added since the last
\* migration, a verification that reported safe was right (parity, copyFrom and
\* the verify modes of media:migrate).
LiveImagesAreServed == \A k \in live : object[driver][k] = "GOOD"
=============================================================================
