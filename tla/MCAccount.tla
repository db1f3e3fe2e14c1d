----------------------------- MODULE MCAccount -----------------------------
(***************************************************************************)
(* Small instances of MuxAccount for TLC. Each configuration gives the     *)
(* part of the account it is about room and the others none.               *)
(***************************************************************************)
EXTENDS MuxAccount

MCNoValues == {}
MCSpends == 0..2
MCAmounts == {0, 2}
MCPeriods == {0, 2, U32Max}
MCScopeSets == {{}, Method}
MCFullScopes == {Method}
MCExpiries == {1, 3}
MCSymmetry == Permutations(Delegate) \cup Permutations(SessionKey) \cup Permutations(Asset)
=============================================================================
