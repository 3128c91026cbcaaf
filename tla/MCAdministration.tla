-------------------------- MODULE MCAdministration --------------------------
(***************************************************************************)
(* Administration, Staffing and StorageMigration for TLC: what administrators,*)
(* organizers and operators do at the same time.  They share no variable and  *)
(* no action, so a property of one holds of all together when it holds of     *)
(* that one alone: the run explores them side by side instead of their        *)
(* product.                                                                   *)
(***************************************************************************)
EXTENDS Staffing, Administration, StorageMigration, TLC

CONSTANTS s1, s2, j1, j2, j3, j4, semi, final, manual

MCSupervisors == {s1, s2}
MCJudges == {j1, j2, j3, j4}
MCMatches == {semi, final, manual}
MCRoundOf == (semi :> 1) @@ (final :> 2) @@ (manual :> 0)

\* Super administrators are interchangeable.
Symmetry == Permutations(Supers)

VARIABLE part   \* the component this behaviour is about

MCInit ==
    /\ part \in {"administration", "staffing", "migration"}
    /\ AdministrationInit /\ Init /\ MigrationInit

MCNext ==
    \/ part = "administration" /\ AdministrationNext /\ UNCHANGED <<part, vars, migrationVars>>
    \/ part = "staffing" /\ Next /\ UNCHANGED <<part, adminVars, migrationVars>>
    \/ part = "migration" /\ MigrationNext /\ UNCHANGED <<part, vars, adminVars>>

MCSpec == MCInit /\ [][MCNext]_<<part, vars, adminVars, migrationVars>>
=============================================================================
