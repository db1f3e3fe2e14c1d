------------------------------ MODULE MCPolicy ------------------------------
(***************************************************************************)
(* Small instances of MuxPolicy for TLC.                                   *)
(***************************************************************************)
EXTENDS MuxPolicy

MCSpends == 0..2
MCDays == {0, 2, U32Max}
MCSymmetry == Permutations(Wallet)
=============================================================================
