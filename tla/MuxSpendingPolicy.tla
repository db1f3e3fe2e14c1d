------------------------- MODULE MuxSpendingPolicy -------------------------
(***************************************************************************)
(* contracts/mux-spending-policy: a spend limit per account and asset, set *)
(* by the admin and asked by others before they spend.                     *)
(*                                                                         *)
(* One action per entrypoint that changes state and can return Ok; an      *)
(* entrypoint that returns Err is rolled back by the host, so the early    *)
(* returns are exactly the guards. check_spend writes nothing: it is an    *)
(* action for the history it leaves alone.                                 *)
(*                                                                         *)
(* History: signers is who signed the latest invocation, approved what     *)
(* check_spend said Ok to on which ledger since the policy was set.        *)
(***************************************************************************)
EXTENDS Integers, Sequences

CONSTANTS
  Admin, Account, Asset,
  Absent,     \* no entry
  Limits,     \* limit values offered
  Periods,    \* period_ledgers values offered
  Spends,     \* amounts offered to check_spend
  MaxLedger,  \* bound: last ledger of a behaviour
  MaxChecks   \* bound: checks that say Ok on one ledger for one policy

SpendLimit == [limit : Nat, spent : Nat, reset_ledger : 0..MaxLedger, period_ledgers : Nat \ {0}]

\* What the constants must satisfy.
Assumptions ==
  /\ Absent \notin Admin \cup SpendLimit
  /\ Limits \subseteq Int /\ Periods \subseteq Nat /\ Spends \subseteq Int
  /\ {MaxLedger, MaxChecks} \subseteq Nat

VARIABLES
  admin,      \* DataKey::Admin
  policies,   \* DataKey::SpendLimit(account, asset)
  sequence,   \* env.ledger().sequence()
  signers, approved \* history

vars == <<admin, policies, sequence, signers, approved>>

Nothing == [l \in 0..MaxLedger |-> <<>>]

Init ==
  /\ admin = Absent
  /\ policies = [a \in Account |-> [t \in Asset |-> Absent]]
  /\ sequence = 0
  /\ signers = {}
  /\ approved = [a \in Account |-> [t \in Asset |-> Nothing]]

-----------------------------------------------------------------------------
(* Helpers. The definitions marked "Mutant" are plausible slips in the     *)
(* operator that follows; no specification here uses them.                 *)

RequireAdmin == admin # Absent /\ signers' = {admin}

\* Mutant: a period of zero ledgers is accepted.
ValidTermsZeroPeriod(limit, period) == limit > 0 /\ period >= 0

ValidTerms(limit, period) == limit > 0 /\ period # 0

\* The counter starts at 0 in a window that is over at once.
NewPolicy(a, t, limit, period) ==
  [limit |-> limit, spent |-> 0, reset_ledger |-> sequence, period_ledgers |-> period]

GetPolicy(a, t) == policies[a][t]

\* What check_spend tests once the contract is initialised: neither spent nor
\* reset_ledger is looked at.
WithinPolicy(a, t, s) == s >= 0 /\ policies[a][t] # Absent /\ s <= policies[a][t].limit

-----------------------------------------------------------------------------
(* Entrypoints. *)

Initialize(a) ==
  /\ admin = Absent
  /\ signers' = {a}
  /\ admin' = a
  /\ UNCHANGED <<policies, sequence, approved>>

\* Upgrade changes the code alone.
Upgrade ==
  /\ RequireAdmin
  /\ UNCHANGED <<admin, policies, sequence, approved>>

SetPolicy(a, t, limit, period) ==
  /\ RequireAdmin
  /\ ValidTerms(limit, period)
  /\ policies' = [policies EXCEPT ![a][t] = NewPolicy(a, t, limit, period)]
  /\ approved' = [approved EXCEPT ![a][t] = Nothing]
  /\ UNCHANGED <<admin, sequence>>

\* Anybody may ask, and asking changes nothing.
CheckSpend(a, t, s) ==
  /\ admin # Absent
  /\ WithinPolicy(a, t, s)
  /\ Len(approved[a][t][sequence]) < MaxChecks
  /\ approved' = [approved EXCEPT ![a][t][sequence] = Append(@, s)]
  /\ signers' = {}
  /\ UNCHANGED <<admin, policies, sequence>>

CloseLedger ==
  /\ sequence < MaxLedger
  /\ sequence' = sequence + 1
  /\ signers' = {}
  /\ UNCHANGED <<admin, policies, approved>>

-----------------------------------------------------------------------------

Next ==
  \/ \E a \in Admin : Initialize(a)
  \/ Upgrade
  \/ \E a \in Account, t \in Asset, l \in Limits, p \in Periods : SetPolicy(a, t, l, p)
  \/ \E a \in Account, t \in Asset, s \in Spends : CheckSpend(a, t, s)
  \/ CloseLedger

Spec == Init /\ [][Next]_vars

-----------------------------------------------------------------------------
(* Properties. *)

\* Types of every stored value (SpendLimit).
TypeOK ==
  /\ admin \in Admin \cup {Absent}
  /\ policies \in [Account -> [Asset -> SpendLimit \cup {Absent}]]
  /\ sequence \in 0..MaxLedger
  /\ signers \subseteq Admin \cup {Absent}
  /\ approved \in [Account -> [Asset -> [0..MaxLedger -> Seq(Nat)]]]

\* Whatever policies were set before and however often it was asked, what has
\* been approved since the policy in force was set is nothing but single
\* amounts within that policy, none of them from before (set_policy,
\* check_spend).
ApprovedOneByOne ==
  \A a \in Account, t \in Asset, l \in 0..MaxLedger :
    approved[a][t][l] # <<>> =>
      /\ policies[a][t] # Absent
      /\ policies[a][t].reset_ledger <= l
      /\ \A i \in 1..Len(approved[a][t][l]) : approved[a][t][l][i] \in 0..policies[a][t].limit

\* A policy changes only with the signature of the admin, one pair of account
\* and asset at a time, and then has an empty counter and a window of its own
\* (require_admin, set_policy).
AdminSetsPolicies ==
  [][policies' # policies =>
       /\ signers' = {admin}
       /\ \E a \in Account, t \in Asset :
            /\ policies' = [policies EXCEPT ![a][t] = policies'[a][t]]
            /\ policies'[a][t].spent = 0
            /\ policies'[a][t].reset_ledger = sequence]_vars

-----------------------------------------------------------------------------
(* What the documentation says and the code does not do. *)

\* docs: a check first starts a new window when the current one is over, and
\* stores it, so that after a check the window ends later than now.
CheckAdvancesWindow ==
  [][\A a \in Account, t \in Asset :
       Len(approved'[a][t][sequence]) > Len(approved[a][t][sequence]) =>
         sequence < policies'[a][t].reset_ledger]_vars
=============================================================================
