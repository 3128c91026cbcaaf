------------------------------ MODULE MCAccess ------------------------------
(* Small instances of Access for TLC. *)
EXTENDS Access, TLC

CONSTANTS o1, c1, d1, d2

MCOfficials == {o1}
MCCodes == {c1}
MCDevices == {d1, d2}
Symmetry == Permutations(MCDevices)
=============================================================================
