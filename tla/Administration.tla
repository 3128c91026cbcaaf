---------------------------- MODULE Administration ----------------------------
(***************************************************************************)
(* Accounts, administrators' entitlements, the sport catalogue and the life   *)
(* of tournaments: super administrators manage accounts and entitlements,     *)
(* administrators buy access and own tournaments, and an hourly sweep expires *)
(* entitlements and hides, restores and purges tournaments.  A request passes *)
(* the guards first and runs its transaction later; what has changed in       *)
(* between counts only where the transaction looks again.                     *)
(*                                                                           *)
(* Time is counted in units of which Grace make the twelve months of read-    *)
(* only access and Recovery the sixty days before a purge.  Entitlements      *)
(* start when they are granted.  The roles ADMIN and USER follow the          *)
(* entitlement and no check reads them, so an account is either a super       *)
(* administrator or not.                                                      *)
(***************************************************************************)
EXTENDS Naturals, FiniteSets

CONSTANTS
    Supers,         \* accounts with the role SUPER_ADMIN
    Owners,         \* other accounts
    Tournaments, Sports,
    Keys,           \* idempotency keys of subscription orders
    Periods,        \* lengths of access on offer
    Grace, Recovery,
    MaxTime         \* bound: the clock

ASSUME AdministrationAssumption ==
    /\ Supers \cap Owners = {} /\ Supers # {}
    /\ Periods \subseteq Nat \ {0}
    /\ Grace \in Nat \ {0} /\ Recovery \in Nat \ {0} /\ MaxTime \in Nat

Users == Supers \cup Owners
Statuses == {"ACTIVE", "EXPIRED", "SUSPENDED", "REVOKED"}
Never == 0      \* no time: the clock starts at 1

VARIABLES
    user,       \* users: whether there is such an account, isActive and deletedAt
    admitted,   \* users with a request between its guards and its transaction
    ent,        \* adminEntitlement of each user; super administrators have none
    orders,     \* keys of the orders placed
    tour,       \* tournaments
    sport,      \* sports: "ABSENT", "ACTIVE" or "INACTIVE"
    now

adminVars == <<user, admitted, ent, orders, tour, sport, now>>

NoEnt == [status |-> "NONE", until |-> 0, ended |-> Never, limit |-> 0]
NoUser == [exists |-> FALSE, isActive |-> FALSE, deleted |-> FALSE]
NewUser == [exists |-> TRUE, isActive |-> TRUE, deleted |-> FALSE]
NoTour == [exists |-> FALSE]
UserType == [exists : BOOLEAN, isActive : BOOLEAN, deleted : BOOLEAN]
EntType == [status : Statuses, until : Nat, ended : Nat, limit : Nat]
TourType == [exists : {TRUE}, owner : Users, sport : Sports, purgeAfter : Nat]
Hidden(t) == tour[t].exists /\ tour[t].purgeAfter # Never      \* softDeletedAt is set
Visible(t) == tour[t].exists /\ tour[t].purgeAfter = Never

AdministrationTypeOK ==
    /\ user \in [Users -> UserType]
    /\ admitted \subseteq Users
    /\ ent \in [Users -> EntType \cup {NoEnt}]
    /\ orders \subseteq Keys
    /\ tour \in [Tournaments -> TourType \cup {NoTour}]
    /\ sport \in [Sports -> {"ABSENT", "ACTIVE", "INACTIVE"}]
    /\ now \in Nat \ {0}

AdministrationInit ==
    /\ user = [u \in Users |-> IF u \in Supers THEN NewUser ELSE NoUser]
    /\ admitted = {}
    /\ ent = [u \in Users |-> NoEnt]
    /\ orders = {}
    /\ tour = [t \in Tournaments |-> NoTour]
    /\ sport = [p \in Sports |-> "ABSENT"]
    /\ now = 1

-----------------------------------------------------------------------------
(* Guards.                                                                  *)

Usable(u) == user[u].isActive /\ ~user[u].deleted

\* register: anybody may, and has no access yet.
Register(u) ==
    /\ ~user[u].exists
    /\ user' = [user EXCEPT ![u] = NewUser]
    /\ UNCHANGED <<admitted, ent, orders, tour, sport, now>>

\* The guards: the session names an account, and the account may be used
\* (resolveSession).  Sessions themselves decide nothing else.
Admit(u) ==
    /\ Usable(u) /\ u \notin admitted
    /\ admitted' = admitted \cup {u}
    /\ UNCHANGED <<user, ent, orders, tour, sport, now>>

\* The request of u comes to its transaction.
Request(u) == u \in admitted /\ admitted' = admitted \ {u} /\ UNCHANGED now

\* The transaction refuses, or only reads.
Refuse(u) == Request(u) /\ UNCHANGED <<user, ent, orders, tour, sport>>

-----------------------------------------------------------------------------
(* Super administrators.                                                    *)

\* Mutant: nobody counts.
CanRemoveAlways == TRUE

CanRemove == Cardinality({s \in Supers : Usable(s)}) > 1

\* create, with an entitlement or without one (limit = 0 stands for none).
CreateUser(s, u, until, limit) ==
    /\ Request(s)
    /\ ~user[u].exists
    /\ user' = [user EXCEPT ![u] = NewUser]
    /\ ent' = IF limit = 0 THEN ent
              ELSE [ent EXCEPT ![u] = [status |-> "ACTIVE", until |-> until, ended |-> Never,
                                       limit |-> limit]]
    /\ UNCHANGED <<orders, tour, sport>>

\* update with isActive; an account that is deleted may be set active, too.
SetActive(s, u, b) ==
    /\ Request(s) /\ user[u].exists
    /\ ~b => u # s /\ (u \in Supers => CanRemove)
    /\ user' = [user EXCEPT ![u].isActive = b]
    /\ UNCHANGED <<ent, orders, tour, sport>>

Remove(s, u) ==
    /\ Request(s) /\ user[u].exists
    /\ u # s /\ (u \in Supers => CanRemove)
    /\ user' = [user EXCEPT ![u].isActive = FALSE, ![u].deleted = TRUE]
    /\ ent' = [o \in Users |->
                 IF o = u /\ ent[o].status = "ACTIVE"
                 THEN [ent[o] EXCEPT !.status = "REVOKED", !.ended = now] ELSE ent[o]]
    /\ UNCHANGED <<orders, tour, sport>>

Restore(s, u) ==
    /\ Request(s)
    /\ user[u].deleted
    /\ user' = [user EXCEPT ![u].isActive = FALSE, ![u].deleted = FALSE]
    /\ UNCHANGED <<ent, orders, tour, sport>>

EndedUnless(active) == IF active THEN Never ELSE now

\* access: ACTIVATE
GrantAccess(s, u, until, limit) ==
    /\ Request(s)
    /\ user[u].exists /\ ~user[u].deleted /\ until > now
    /\ ent' = [ent EXCEPT ![u] = [status |-> "ACTIVE", until |-> until, ended |-> Never,
                                  limit |-> limit]]
    /\ user' = [user EXCEPT ![u].isActive = TRUE]
    /\ UNCHANGED <<orders, tour, sport>>

\* access: ADJUST, SUSPEND and REVOKE.  An adjusted entitlement keeps its status
\* and, unless it is active, ends now; its period may end in the past.
ChangeAccess(s, u, status, until, limit) ==
    /\ Request(s)
    /\ ~user[u].deleted /\ ent[u] # NoEnt
    /\ status \in {ent[u].status, "SUSPENDED", "REVOKED"}
    /\ ent' = [ent EXCEPT ![u].status = status, ![u].until = until, ![u].limit = limit,
                          ![u].ended = EndedUnless(status = "ACTIVE")]
    /\ UNCHANGED <<user, orders, tour, sport>>

\* Mutant: tournaments that are hidden do not count.
SportIdleButHidden(p) == \A t \in Tournaments : Visible(t) => tour[t].sport # p

\* _count.tournaments = 0
SportIdle(p) == \A t \in Tournaments : tour[t].exists => tour[t].sport # p

CreateSport(s, p, state) ==
    /\ Request(s)
    /\ sport[p] = "ABSENT"
    /\ sport' = [sport EXCEPT ![p] = state]
    /\ UNCHANGED <<user, ent, orders, tour>>

UpdateSport(s, p) ==
    /\ Request(s)
    /\ \/ sport[p] = "ACTIVE" /\ SportIdle(p) /\ sport' = [sport EXCEPT ![p] = "INACTIVE"]
       \/ sport[p] = "INACTIVE" /\ sport' = [sport EXCEPT ![p] = "ACTIVE"]
    /\ UNCHANGED <<user, ent, orders, tour>>

-----------------------------------------------------------------------------
(* Owners.                                                                  *)

\* isActiveAdminState(calculateAdminAccessState(...))
ActiveAdmin(u) == u \in Supers \/ (ent[u].status = "ACTIVE" /\ now < ent[u].until)

Lapsed(u) == {t \in Tournaments : Hidden(t) /\ tour[t].owner = u}
Shown(ts) == [t \in Tournaments |-> IF t \in ts THEN [tour[t] EXCEPT !.purgeAfter = Never] ELSE tour[t]]

\* activate: a subscription is extended, or starts again, and hidden tournaments
\* come back.  A key that is known leads to Refuse.
Activate(u, k, d) ==
    /\ Request(u)
    /\ k \notin orders
    /\ orders' = orders \cup {k}
    /\ LET on == ent[u].status = "ACTIVE" /\ ent[u].until > now
       IN ent' = [ent EXCEPT ![u] =
                    [status |-> "ACTIVE", ended |-> Never,
                     until |-> (IF on THEN ent[u].until ELSE now) + d,
                     limit |-> (IF on THEN ent[u].limit ELSE 0) + 1]]
    /\ tour' = Shown(Lapsed(u))
    /\ UNCHANGED <<user, sport>>

OwnedBy(u) == {t \in Tournaments : tour[t].exists /\ tour[t].owner = u}

CreateTournament(u, t, p) ==
    /\ Request(u)
    /\ ActiveAdmin(u)
    /\ u \in Owners => Cardinality(OwnedBy(u)) < ent[u].limit
    /\ sport[p] = "ACTIVE" /\ ~tour[t].exists
    /\ tour' = [tour EXCEPT ![t] = [exists |-> TRUE, owner |-> u, sport |-> p, purgeAfter |-> Never]]
    /\ UNCHANGED <<user, ent, orders, sport>>

\* assertTournamentAccess looked before the transaction: the owner's access may
\* have lapsed and the tournament may be hidden by now.
Manages(u, t) == tour[t].exists /\ (tour[t].owner = u \/ u \in Supers)

\* Another sport, of a tournament that has no match yet.  The transaction takes
\* the tournament as it is.
UpdateTournament(u, t, p) ==
    /\ Request(u)
    /\ Manages(u, t)
    /\ sport[p] = "ACTIVE"
    /\ tour' = [tour EXCEPT ![t].sport = p]
    /\ UNCHANGED <<user, ent, orders, sport>>

-----------------------------------------------------------------------------
(* The sweep of tournament-lifecycle.service.                               *)

Expired(e) ==
    IF e.status = "ACTIVE" /\ e.until <= now
    THEN [e EXCEPT !.status = "EXPIRED", !.ended = IF e.ended = Never THEN e.until ELSE e.ended]
    ELSE e

\* Mutant: the sweep restores nothing.
RestorableNever(t) == FALSE

Restorable(t) == Hidden(t) /\ tour[t].owner \in Owners /\ ActiveAdmin(tour[t].owner)

\* The owner's access ended a grace period ago.
Lapses(t) ==
    LET e == Expired(ent[tour[t].owner])
    IN /\ Visible(t) /\ tour[t].owner \in Owners
       /\ e.status = "EXPIRED" /\ e.ended + Grace <= now

Swept(t) ==
    IF Restorable(t) THEN [tour[t] EXCEPT !.purgeAfter = Never]
    ELSE IF Lapses(t) THEN [tour[t] EXCEPT !.purgeAfter = now + Recovery]
    ELSE IF Hidden(t) /\ tour[t].purgeAfter <= now THEN NoTour
    ELSE tour[t]

\* One serializable transaction under an advisory lock.
Run ==
    /\ ent' = [u \in Users |-> Expired(ent[u])]
    /\ tour' = [t \in Tournaments |-> Swept(t)]
    /\ UNCHANGED <<user, admitted, orders, sport, now>>

Tick ==
    /\ now < MaxTime
    /\ now' = now + 1
    /\ UNCHANGED <<user, admitted, ent, orders, tour, sport>>

-----------------------------------------------------------------------------
AdministrationNext ==
    \/ \E u \in Users : Admit(u) \/ Refuse(u)
    \/ \E s \in Supers, u \in Users :
         \/ Remove(s, u) \/ Restore(s, u)
         \/ \E b \in BOOLEAN : SetActive(s, u, b)
    \/ \E s \in Supers, u \in Owners, d \in Periods :
         \E limit \in 0..1 :
            \/ GrantAccess(s, u, now + d, limit)
            \/ CreateUser(s, u, now + d, limit)
            \/ \E status \in Statuses, until \in {ent[u].until, now, now + d} :
                 ChangeAccess(s, u, status, until, limit)
    \/ \E s \in Supers, p \in Sports :
         UpdateSport(s, p) \/ \E b \in {"ACTIVE", "INACTIVE"} : CreateSport(s, p, b)
    \/ \E u \in Owners : Register(u)
    \/ \E u \in Owners, k \in Keys, d \in Periods : Activate(u, k, d)
    \/ \E u \in Users, t \in Tournaments, p \in Sports :
         CreateTournament(u, t, p) \/ UpdateTournament(u, t, p)
    \/ Run \/ Tick

AdministrationSpec == AdministrationInit /\ [][AdministrationNext]_adminVars

-----------------------------------------------------------------------------
(* Properties.                                                              *)

\* Somebody can always administer the system: two super administrators whose
\* requests were admitted at the same time cannot lock each other out (canRemove
\* in SuperAdminService.update and remove, under one advisory lock).
SuperAdminRemains == \E s \in Supers : Usable(s)

\* The sport of a tournament is active, also when the sweep or a renewal brings
\* a hidden tournament back (SportCatalogService.update, createTournament).
SportsInUseAreActive == \A t \in Tournaments : Visible(t) => sport[tour[t].sport] = "ACTIVE"

\* No tournament is hidden or purged while its owner has access, however the
\* owner got access back (TournamentLifecycleService.run, SubscriptionsService).
ActiveOwnersKeepTournaments ==
    [][\A t \in Tournaments :
         (Visible(t) /\ Hidden(t)') \/ (Hidden(t) /\ ~tour'[t].exists) => ~ActiveAdmin(tour[t].owner)]_adminVars
=============================================================================
