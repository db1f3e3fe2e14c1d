---------------------------- MODULE AtomicBatch ----------------------------
(***************************************************************************)
(* What a batch promises to the world outside the batcher: it takes effect *)
(* in one step or not at all. The effects of its operations appear in the  *)
(* order they were submitted in, and none that is required is missing.     *)
(***************************************************************************)
EXTENDS Naturals, Sequences

CONSTANTS
  Batches, \* sequences of operations that may be submitted
  Required \* operations that must succeed

VARIABLE effects \* the operations that took effect, in order

Init == effects = <<>>

\* Which of the first n operations take effect: their positions, in order.
Selections(n) ==
  {kept \in UNION {[1..k -> 1..n] : k \in 0..n} :
     \A i, j \in DOMAIN kept : i < j => kept[i] < kept[j]}

\* The operations of a batch at the positions kept.
Chosen(ops, kept) == [i \in DOMAIN kept |-> ops[kept[i]]]

\* None of the first n operations that is required is left out.
Faithful(ops, n, kept) ==
  \A i \in 1..n : ops[i] \in Required => \E j \in DOMAIN kept : kept[j] = i

Commit(ops, kept) ==
  /\ Faithful(ops, Len(ops), kept)
  /\ effects' = effects \o Chosen(ops, kept)

Next == \E ops \in Batches : \E kept \in Selections(Len(ops)) : Commit(ops, kept)

Spec == Init /\ [][Next]_effects
=============================================================================
