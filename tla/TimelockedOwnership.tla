------------------------ MODULE TimelockedOwnership ------------------------
(***************************************************************************)
(* What social recovery promises, without guardians, quorums or storage:   *)
(* an asset has one owner; at most one nominee at a time may be waiting to *)
(* take it over; the nominee stays on display for Delay ticks before it    *)
(* can become the owner unless the owner signs the hand-over, the owner    *)
(* can withdraw it at any time, and a nominee that has not taken over      *)
(* within Window ticks never will.                                         *)
(*                                                                         *)
(* signers is the set of principals whose signature the host checked for   *)
(* the latest step; it is an input, so a specification that implements     *)
(* this one must expose who signed.                                        *)
(***************************************************************************)
EXTENDS Naturals

CONSTANTS
  Address,    \* principals
  NoAddress,  \* stands for "nobody"
  Delay,      \* ticks a nomination is on display before it can be taken up
  Window,     \* ticks after which a nomination has lapsed
  Horizon     \* last value the clock can show

VARIABLES owner, nominee, opened, now, signers

ownershipVars == <<owner, nominee, opened, now>>

Waiting == nominee # NoAddress

\* First tick at which a nomination made at t has lapsed: the clock, and so
\* every deadline, stops at Horizon.
Lapse(t) == IF t + Window < Horizon THEN t + Window ELSE Horizon

Init ==
  /\ owner = NoAddress
  /\ nominee = NoAddress
  /\ opened = 0
  /\ now = 0

Claim ==
  /\ owner = NoAddress
  /\ owner' \in Address
  /\ owner' \in signers'
  /\ UNCHANGED <<nominee, opened, now>>

\* A nomination replaces only one that has lapsed.
Nominate ==
  /\ owner # NoAddress
  /\ Waiting => now >= Lapse(opened)
  /\ nominee' \in Address
  /\ opened' = now
  /\ UNCHANGED <<owner, now>>

Withdraw ==
  /\ Waiting
  /\ owner \in signers'
  /\ nominee' = NoAddress
  /\ opened' = 0
  /\ UNCHANGED <<owner, now>>

\* The hand-over: never of a lapsed nomination, and before the delay has run
\* only with the signature of the owner who gives way.
TakeOver ==
  /\ Waiting
  /\ now < Lapse(opened)
  /\ opened + Delay <= now \/ owner \in signers'
  /\ owner' = nominee
  /\ nominee' = NoAddress
  /\ opened' = 0
  /\ UNCHANGED now

Pass ==
  /\ now < Horizon
  /\ now' = now + 1
  /\ UNCHANGED <<owner, nominee, opened>>

Next == Claim \/ Nominate \/ Withdraw \/ TakeOver \/ Pass

Spec == Init /\ [][Next]_ownershipVars
=============================================================================
