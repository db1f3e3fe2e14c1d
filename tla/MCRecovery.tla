----------------------------- MODULE MCRecovery -----------------------------
(***************************************************************************)
(* Small instances of MuxRecovery for TLC. The u32 range is a handful of   *)
(* ledgers, so that both deadlines saturate within a run.                  *)
(***************************************************************************)
EXTENDS MuxRecovery

\* Every guardian vector of one or two entries, duplicates included.
MCListsUpTo2 == BoundedSeq(Guardian, 2) \ {<<>>}

\* Guardian vectors without duplicates, as a deployer would pass them.
MCDistinctLists == {s \in MCListsUpTo2 : IsInjective(s)}

MCSymmetry == Permutations(Guardian) \cup Permutations(Holder)
=============================================================================
