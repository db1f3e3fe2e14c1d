---------------------------- MODULE MCPermissions ----------------------------
(***************************************************************************)
(* Small instances of MuxPermissions for TLC.                              *)
(***************************************************************************)
EXTENDS MuxPermissions

MCSymmetry == Permutations(Admin) \cup Permutations(Account) \cup Permutations(Role)
=============================================================================
