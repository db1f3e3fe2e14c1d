--------------------------- MODULE QuorumRotation ---------------------------
(***************************************************************************)
(* What replacing an administrator by approvals promises: candidates are   *)
(* proposed by the administrator, each collects the signatures of          *)
(* different endorsers, and the first to have as many as the quorum of the *)
(* moment asks for takes over at once. Who endorsed an earlier candidacy   *)
(* of the same address counts for nothing.                                 *)
(*                                                                         *)
(* signers is who signed the latest step; it is an input, so that a        *)
(* specification that implements this one exposes who signed.              *)
(***************************************************************************)
EXTENDS Naturals, FiniteSets

CONSTANTS
  Principal,
  Nobody,    \* there is no administrator yet
  Places     \* candidates at a time

VARIABLES
  admin,
  endorsers, \* who endorsed whom: a function of the candidates
  quorum,
  signers

rotationVars == <<admin, endorsers, quorum>>

Candidates == DOMAIN endorsers

Init ==
  /\ admin = Nobody
  /\ endorsers = [c \in {} |-> {}]
  /\ quorum = 1

Claim ==
  /\ admin = Nobody
  /\ admin' \in Principal \cap signers'
  /\ UNCHANGED <<endorsers, quorum>>

AdminAgrees == admin # Nobody /\ admin \in signers'

SetQuorum ==
  /\ AdminAgrees
  /\ quorum' \in Nat
  /\ UNCHANGED <<admin, endorsers>>

Propose(c) ==
  /\ AdminAgrees
  /\ c \notin Candidates
  /\ Cardinality(Candidates) < Places
  /\ endorsers' = [d \in Candidates \cup {c} |-> IF d = c THEN {} ELSE endorsers[d]]
  /\ UNCHANGED <<admin, quorum>>

\* One more endorser, who is not yet enough.
Endorse(c, e) ==
  /\ AdminAgrees
  /\ c \in Candidates
  /\ e \in signers' \ endorsers[c]
  /\ Cardinality(endorsers[c] \cup {e}) < quorum
  /\ endorsers' = [endorsers EXCEPT ![c] = @ \cup {e}]
  /\ UNCHANGED <<admin, quorum>>

\* The endorser who completes the quorum; the other candidacies stay open.
TakeOver(c, e) ==
  /\ AdminAgrees
  /\ c \in Candidates
  /\ e \in signers' \ endorsers[c]
  /\ Cardinality(endorsers[c] \cup {e}) >= quorum
  /\ admin' = c
  /\ endorsers' = [d \in Candidates \ {c} |-> endorsers[d]]
  /\ UNCHANGED quorum

Next ==
  \/ Claim
  \/ SetQuorum
  \/ \E c \in Principal : Propose(c)
  \/ \E c, e \in Principal : Endorse(c, e) \/ TakeOver(c, e)

Spec == Init /\ [][Next]_rotationVars
=============================================================================
