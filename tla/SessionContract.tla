--------------------------- MODULE SessionContract ---------------------------
(***************************************************************************)
(* What the two session services promise to everything that lives on a      *)
(* session: a credential has one session at a time, a new session replaces  *)
(* the old one in the same step, and a session that stopped being usable    *)
(* never becomes usable again.                                              *)
(***************************************************************************)
EXTENDS Naturals

CONSTANTS Keys, Sessions, None

VARIABLES
    owner,  \* the credential of each session, None before it is opened
    live    \* the sessions that may be used

contractVars == <<owner, live>>

ContractInit ==
    /\ owner = [s \in Sessions |-> None]
    /\ live = {}

LiveOf(k) == {s \in live : owner[s] = k}

\* A login (nothing to replace) or a takeover.
Open(s, k) ==
    /\ owner[s] = None
    /\ owner' = [owner EXCEPT ![s] = k]
    /\ live' = (live \ LiveOf(k)) \cup {s}

\* Logout, expiry, a new passcode, a deactivation.
End(s) ==
    /\ s \in live
    /\ live' = live \ {s}
    /\ UNCHANGED owner

ContractNext == \E s \in Sessions : End(s) \/ \E k \in Keys : Open(s, k)

ContractSpec == ContractInit /\ [][ContractNext]_contractVars
=============================================================================
