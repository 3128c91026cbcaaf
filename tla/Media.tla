-------------------------------- MODULE Media --------------------------------
(***************************************************************************)
(* Images of tournaments, organizations and athletes, and their removal.     *)
(* An object is stored first and the row that refers to it is committed      *)
(* afterwards; an object that is no longer needed is put into an outbox in   *)
(* the same transaction, and workers delete it later under leases            *)
(* (media-deletion.service).  A confirmed bracket keeps the images its       *)
(* entrants had.                                                             *)
(***************************************************************************)
EXTENDS Naturals, FiniteSets

CONSTANTS
    Rows,       \* rows that may have an image
    Objects,    \* storage keys, each generated once
    Workers,    \* reconcile runs of the API processes
    MaxFaults,  \* deaths of workers and failures of the store or the database
    NoObject

ASSUME MediaAssumption == NoObject \notin Objects /\ MaxFaults \in Nat

Nobody == "nobody"
Entry == [owner : Workers \cup {Nobody}, lapsed : BOOLEAN, due : BOOLEAN]
NoEntry == [owner |-> Nobody, lapsed |-> FALSE, due |-> FALSE]
NewEntry == [NoEntry EXCEPT !.due = TRUE]
Stages == {"IDLE", "CLAIMED", "CHECKED", "DELETED"}

VARIABLES
    image,      \* imagePath of each row
    snapshot,   \* snapshotImagePath of the bracket entrants
    stored,     \* objects in the store
    spent,      \* keys generated so far
    uploads,    \* <<row, object>> stored, the row not committed
    outbox,     \* keys with a row in media_deletions
    entry,      \* that row
    work,       \* what each worker is doing
    faults,     \* faults so far
    purged      \* the tournament is gone

mediaVars == <<image, snapshot, stored, spent, uploads, outbox, entry, work, faults, purged>>
rowVars == <<image, snapshot, spent, uploads, purged>>

MediaTypeOK ==
    /\ image \in [Rows -> Objects \cup {NoObject}]
    /\ snapshot \subseteq Objects /\ stored \subseteq Objects /\ spent \subseteq Objects
    /\ uploads \subseteq Rows \X Objects
    /\ outbox \subseteq Objects /\ entry \in [Objects -> Entry]
    /\ work \in [Workers -> [object : Objects \cup {NoObject}, stage : Stages]]
    /\ faults \in 0..MaxFaults /\ purged \in BOOLEAN

Resting == [object |-> NoObject, stage |-> "IDLE"]

MediaInit ==
    /\ image = [r \in Rows |-> NoObject]
    /\ snapshot = {} /\ stored = {} /\ spent = {} /\ uploads = {}
    /\ outbox = {} /\ entry = [k \in Objects |-> NoEntry]
    /\ work = [w \in Workers |-> Resting]
    /\ faults = 0 /\ purged = FALSE

\* enqueueMediaDeletion: an entry that is already there is left alone.
Enqueue(ks) ==
    /\ outbox' = outbox \cup (ks \cap Objects)
    /\ entry' = [k \in Objects |-> IF k \in ks \ outbox THEN NewEntry ELSE entry[k]]

-----------------------------------------------------------------------------
(* Rows and their images.                                                   *)

\* storage.save
SaveImage(r, k) ==
    /\ k \notin spent /\ ~purged
    /\ spent' = spent \cup {k} /\ stored' = stored \cup {k}
    /\ uploads' = uploads \cup {<<r, k>>}
    /\ UNCHANGED <<image, snapshot, outbox, entry, work, faults, purged>>

\* replace: the row takes the new image, the old one goes to the outbox.
CommitImage(r, k) ==
    /\ <<r, k>> \in uploads /\ ~purged
    /\ uploads' = uploads \ {<<r, k>>}
    /\ image' = [image EXCEPT ![r] = k]
    /\ Enqueue({image[r]})
    /\ UNCHANGED <<snapshot, stored, spent, work, faults, purged>>

\* The transaction is refused; the object is deleted again, or left to the
\* outbox when that fails, or lost when that fails, too.
CompensateSavedImage(r, k) ==
    /\ <<r, k>> \in uploads
    /\ uploads' = uploads \ {<<r, k>>}
    /\ \/ stored' = stored \ {k} /\ UNCHANGED <<outbox, entry>>
       \/ Enqueue({k}) /\ UNCHANGED stored
       \/ UNCHANGED <<stored, outbox, entry>>
    /\ UNCHANGED <<image, snapshot, spent, work, faults, purged>>

RemoveImage(r) ==
    /\ image[r] # NoObject /\ ~purged
    /\ image' = [image EXCEPT ![r] = NoObject]
    /\ Enqueue({image[r]})
    /\ UNCHANGED <<snapshot, stored, spent, uploads, work, faults, purged>>

\* Confirming a bracket copies the image of an entrant.
SnapshotImage(r) ==
    /\ image[r] # NoObject /\ ~purged
    /\ snapshot' = snapshot \cup {image[r]}
    /\ UNCHANGED <<image, stored, spent, uploads, outbox, entry, work, faults, purged>>

\* The retention sweep deletes the tournament with its rows and brackets, and
\* enqueues the images of the rows.
Purge ==
    /\ ~purged
    /\ purged' = TRUE
    /\ image' = [r \in Rows |-> NoObject] /\ snapshot' = {}
    /\ Enqueue({image[r] : r \in Rows})
    /\ UNCHANGED <<stored, spent, uploads, work, faults>>

-----------------------------------------------------------------------------
(* Workers.                                                                 *)

\* Mutant: a lease is never taken over.
ClaimableUnleased(k) == k \in outbox /\ entry[k].due /\ entry[k].owner = Nobody

ClaimableEntry(k) ==
    k \in outbox /\ entry[k].due /\ (entry[k].owner = Nobody \/ entry[k].lapsed)

Claim(w, k) ==
    /\ work[w].stage = "IDLE" /\ ClaimableEntry(k)
    /\ entry' = [entry EXCEPT ![k].owner = w, ![k].lapsed = FALSE]
    /\ work' = [work EXCEPT ![w] = [object |-> k, stage |-> "CLAIMED"]]
    /\ UNCHANGED <<rowVars, faults, stored, outbox>>

\* Mutant: brackets are not asked.
ProtectedByRows(k) == \E r \in Rows : image[r] = k

\* isProtected (a migration under way protects, too: StorageMigration)
Protected(k) == k \in snapshot \/ \E r \in Rows : image[r] = k

\* Updates of an entry go through until another worker has taken the lease over,
\* lapsed or not.
Holds(w) == work[w].object \in outbox /\ entry[work[w].object].owner = w
Postpone(w) ==
    entry' = IF Holds(w) THEN [entry EXCEPT ![work[w].object] = NoEntry] ELSE entry

CheckObject(w) ==
    /\ work[w].stage = "CLAIMED"
    /\ \/ /\ Protected(work[w].object)
          /\ Postpone(w)
          /\ work' = [work EXCEPT ![w] = Resting]
       \/ /\ ~Protected(work[w].object)
          /\ work' = [work EXCEPT ![w].stage = "CHECKED"]
          /\ UNCHANGED entry
    /\ UNCHANGED <<rowVars, faults, stored, outbox>>

DeleteObject(w) ==
    /\ work[w].stage = "CHECKED"
    /\ stored' = stored \ {work[w].object}
    /\ work' = [work EXCEPT ![w].stage = "DELETED"]
    /\ UNCHANGED <<rowVars, faults, outbox, entry>>

\* The check, the store or the clean-up fails, or the call to the store is
\* aborted, which the store may have served all the same: try again after a
\* backoff.
DeleteFails(w) ==
    /\ work[w].stage # "IDLE" /\ faults < MaxFaults
    /\ faults' = faults + 1
    /\ \/ UNCHANGED stored
       \/ work[w].stage = "CHECKED" /\ stored' = stored \ {work[w].object}
    /\ Postpone(w)
    /\ work' = [work EXCEPT ![w] = Resting]
    /\ UNCHANGED <<rowVars, outbox>>

CleanUp(w) ==
    /\ work[w].stage = "DELETED"
    /\ outbox' = IF Holds(w) THEN outbox \ {work[w].object} ELSE outbox
    /\ work' = [work EXCEPT ![w] = Resting]
    /\ UNCHANGED <<rowVars, faults, stored, entry>>

WorkerDies(w) ==
    /\ work[w].stage # "IDLE" /\ faults < MaxFaults
    /\ faults' = faults + 1
    /\ work' = [work EXCEPT ![w] = Resting]
    /\ UNCHANGED <<rowVars, stored, outbox, entry>>

\* Five minutes after the claim.
LeaseLapses(k) ==
    /\ k \in outbox /\ entry[k].owner \in Workers /\ ~entry[k].lapsed
    /\ entry' = [entry EXCEPT ![k].lapsed = TRUE]
    /\ UNCHANGED <<rowVars, faults, stored, outbox, work>>

\* nextAttemptAt is reached.
BecomesDue(k) ==
    /\ k \in outbox /\ ~entry[k].due
    /\ entry' = [entry EXCEPT ![k].due = TRUE]
    /\ UNCHANGED <<rowVars, faults, stored, outbox, work>>

-----------------------------------------------------------------------------
MediaNext ==
    \/ \E r \in Rows :
         \/ RemoveImage(r) \/ SnapshotImage(r)
         \/ \E k \in Objects : SaveImage(r, k) \/ CommitImage(r, k) \/ CompensateSavedImage(r, k)
    \/ Purge
    \/ \E w \in Workers :
         \/ CheckObject(w) \/ DeleteObject(w) \/ DeleteFails(w) \/ CleanUp(w) \/ WorkerDies(w)
         \/ \E k \in Objects : Claim(w, k)
    \/ \E k \in Objects : LeaseLapses(k) \/ BecomesDue(k)

MediaSpec == MediaInit /\ [][MediaNext]_mediaVars

\* The workers run every hour in every process and take the entry that is due
\* for longest: one that is due again and again is claimed.  Neither the store
\* nor the database fails forever (MaxFaults).
Attempts(k) == \E w \in Workers : Claim(w, k)

-----------------------------------------------------------------------------
(* Properties.                                                              *)

\* Whatever a row or a bracket refers to is in the store, although workers check
\* and delete in two steps, lose their leases and work on the same entry twice.
ReferencedObjectsExist ==
    snapshot \cup ({image[r] : r \in Rows} \ {NoObject}) \subseteq stored

\* Every object that waits in the outbox is deleted in the end, or kept by a
\* reference, although workers die, the store fails and leases lapse.
OutboxDrains == \A k \in Objects : k \in outbox ~> k \notin stored \/ Protected(k)
=============================================================================
