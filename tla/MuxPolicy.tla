------------------------------ MODULE MuxPolicy ------------------------------
(***************************************************************************)
(* contracts/mux-policy: a daily spend limit per wallet, set by the admin  *)
(* and charged by the wallet.                                              *)
(*                                                                         *)
(* record_spend of a wallet whose limit names a registry calls it before   *)
(* it charges, with the record it read before the call. That is two steps  *)
(* here, with a frame in flight between them: whatever makes the           *)
(* entrypoint return Err afterwards rolls the frame back, callbacks        *)
(* included. Unlike mux-account this contract has no guard: with           *)
(* HostReentry a registry may call it back in between, on a host that      *)
(* prohibits reentry (HostReentry = FALSE) it may not.                     *)
(*                                                                         *)
(* History: signers is who signed the invocation the latest step belongs   *)
(* to, charged what a wallet spent on which ledger since the admin last    *)
(* set its limit or reset its counter.                                     *)
(***************************************************************************)
EXTENDS Integers, FiniteSetsExt, SequencesExt, Functions, ChargeHistory

CONSTANTS
  Admin,      \* addresses that may initialise the contract
  Wallet,
  Registry,   \* registry_id values offered
  Absent,     \* no entry, or registry_id = None
  Limits,     \* limit values offered
  Days,       \* day_ledgers values offered
  Spends,     \* amounts offered to record_spend
  MaxWallets, \* MAX_WALLETS
  U32Max,     \* u32::MAX, where reset_ledger stops
  MaxLedger,  \* bound: last ledger of a behaviour
  MaxFrames,  \* bound: calls of record_spend in flight at once
  HostReentry \* BOOLEAN: may a registry call the contract back

DailyLimit ==
  [limit : Nat, spent : Nat, reset_ledger : 0..U32Max, day_ledgers : 1..U32Max,
   registry_id : Registry \cup {Absent}]

ASSUME AbsentAssumption == Absent \notin Admin \cup Registry /\ Absent \notin Nat
ASSUME RecordAssumption == Absent \notin DailyLimit
ASSUME InputAssumption ==
  /\ Limits \subseteq Int
  /\ Days \subseteq 0..U32Max
  /\ Spends \subseteq Int
ASSUME BoundAssumption ==
  /\ {MaxWallets, U32Max, MaxLedger, MaxFrames} \subseteq Nat
  /\ MaxLedger < U32Max
  /\ HostReentry \in BOOLEAN

VARIABLES
  admin,        \* DataKey::Admin
  wallet_names, \* DataKey::WalletNames
  limits,       \* DataKey::WalletLimit(wallet)
  frames,       \* invocations of record_spend that are calling a registry
  sequence,     \* env.ledger().sequence()
  signers, charged \* history

storage == <<admin, wallet_names, limits, charged>>
vars == <<storage, frames, sequence, signers>>

LimitMap == [Wallet -> DailyLimit \cup {Absent}]
ChargeMap == [Wallet -> Histories(MaxLedger)]
Nothing == NoCharges(MaxLedger)

\* The storage of the contract with the history that is rolled back with it.
Storage ==
  [admin : Admin \cup {Absent}, wallet_names : Seq(Wallet), limits : LimitMap,
   charged : ChargeMap]

Init ==
  /\ admin = Absent
  /\ wallet_names = <<>>
  /\ limits = [w \in Wallet |-> Absent]
  /\ frames = <<>>
  /\ sequence = 0
  /\ signers = {}
  /\ charged = [w \in Wallet |-> Nothing]

-----------------------------------------------------------------------------
(* Helpers. The definitions marked "Mutant" are plausible slips in the     *)
(* operator that follows; no specification here uses them.                 *)

\* The host runs an entrypoint from a transaction, or from a registry called.
Callable == frames = <<>> \/ HostReentry

\* Mutant: the sum leaves the u32 range.
WideAdd(a, b) == a + b

SaturatingAdd(a, b) == IF a + b > U32Max THEN U32Max ELSE a + b

\* Mutant: require_auth forgotten.
RequireAdminUnsigned == Callable /\ admin # Absent /\ signers' = {}

RequireAdmin == Callable /\ admin # Absent /\ signers' = {admin}

\* Mutant: off by one.
RoomForWalletOneMore == Len(wallet_names) <= MaxWallets

RoomForWallet == Len(wallet_names) < MaxWallets

\* Mutant: the counter is reset and the window is not.
RolledOverSpentOnly(r) == IF sequence >= r.reset_ledger THEN [r EXCEPT !.spent = 0] ELSE r

\* A record whose window has elapsed starts a new one.
RolledOver(r) ==
  IF sequence >= r.reset_ledger
  THEN [r EXCEPT !.spent = 0, !.reset_ledger = SaturatingAdd(sequence, r.day_ledgers)]
  ELSE r

\* Mutant: the view shows what is stored.
ViewStored(r) == r

\* What get_daily_limit returns: the counter of an elapsed window reads 0, the
\* window itself is not moved, and nothing is stored.
View(r) == IF sequence >= r.reset_ledger THEN [r EXCEPT !.spent = 0] ELSE r

\* Mutant: what is already spent is tested, not what it becomes.
SpendAllowedBySpent(r, s) == s > 0 /\ RolledOver(r).spent <= r.limit

SpendAllowed(r, s) == s > 0 /\ RolledOver(r).spent + s <= r.limit

Snapshot ==
  [admin |-> admin, wallet_names |-> wallet_names, limits |-> limits, charged |-> charged]

\* The end of record_spend: the record read at its start is charged and stored.
Charge(w, r, s) ==
  /\ SpendAllowed(r, s)
  /\ limits' = [limits EXCEPT ![w] = [RolledOver(r) EXCEPT !.spent = @ + s]]
  /\ charged' = [charged EXCEPT ![w] = WithCharge(@, sequence, s)]

-----------------------------------------------------------------------------
(* Entrypoints. *)

Initialize(a) ==
  /\ Callable
  /\ admin = Absent
  /\ signers' = {a}
  /\ admin' = a
  /\ wallet_names' = <<>>
  /\ UNCHANGED <<limits, frames, sequence, charged>>

\* Upgrade changes the code alone.
Upgrade ==
  /\ RequireAdmin
  /\ UNCHANGED <<storage, frames, sequence>>

\* A new limit starts with an empty counter, whatever was spent before.
SetDailyLimit(w, limit, day_ledgers, registry_id) ==
  /\ RequireAdmin
  /\ limit > 0
  /\ day_ledgers # 0
  /\ \/ Contains(wallet_names, w) /\ wallet_names' = wallet_names
     \/ /\ ~Contains(wallet_names, w)
        /\ RoomForWallet
        /\ wallet_names' = Append(wallet_names, w)
  /\ limits' = [limits EXCEPT ![w] =
       [limit |-> limit, spent |-> 0, reset_ledger |-> SaturatingAdd(sequence, day_ledgers),
        day_ledgers |-> day_ledgers, registry_id |-> registry_id]]
  /\ charged' = [charged EXCEPT ![w] = Nothing]
  /\ UNCHANGED <<admin, frames, sequence>>

ResetDailyCounter(w) ==
  /\ RequireAdmin
  /\ limits[w] # Absent
  /\ limits' = [limits EXCEPT ![w].spent = 0,
                              ![w].reset_ledger = SaturatingAdd(sequence, limits[w].day_ledgers)]
  /\ charged' = [charged EXCEPT ![w] = Nothing]
  /\ UNCHANGED <<admin, wallet_names, frames, sequence>>

\* record_spend of a wallet without a registry.
RecordSpend(w, s) ==
  /\ Callable
  /\ signers' = {w}
  /\ limits[w] # Absent
  /\ limits[w].registry_id = Absent
  /\ Charge(w, limits[w], s)
  /\ UNCHANGED <<admin, wallet_names, frames, sequence>>

\* record_spend of a wallet with one, up to the call of list_contracts.
AskRegistry(w, s) ==
  /\ Callable
  /\ Len(frames) < MaxFrames
  /\ signers' = {w}
  /\ s > 0
  /\ limits[w] # Absent
  /\ limits[w].registry_id # Absent
  /\ frames' = Append(frames, [wallet |-> w, spend |-> s, record |-> limits[w],
                               saved |-> Snapshot])
  /\ UNCHANGED <<storage, sequence>>

\* The registry answered.
RegistryAnswers ==
  /\ frames # <<>>
  /\ LET f == Last(frames) IN
       /\ signers' = {f.wallet}
       /\ Charge(f.wallet, f.record, f.spend)
  /\ frames' = Front(frames)
  /\ UNCHANGED <<admin, wallet_names, sequence>>

\* The registry failed, or the limit does not allow the spend after all.
RegistryFails ==
  /\ frames # <<>>
  /\ LET f == Last(frames).saved IN
       /\ admin' = f.admin
       /\ wallet_names' = f.wallet_names
       /\ limits' = f.limits
       /\ charged' = f.charged
  /\ frames' = Front(frames)
  /\ signers' = {}
  /\ UNCHANGED sequence

\* A ledger closes between transactions.
CloseLedger ==
  /\ frames = <<>>
  /\ sequence < MaxLedger
  /\ sequence' = sequence + 1
  /\ signers' = {}
  /\ UNCHANGED <<storage, frames>>

-----------------------------------------------------------------------------

AdminStep ==
  \/ Upgrade
  \/ \E w \in Wallet, l \in Limits, d \in Days, r \in Registry \cup {Absent} :
       SetDailyLimit(w, l, d, r)
  \/ \E w \in Wallet : ResetDailyCounter(w)

SpendStep ==
  \/ \E w \in Wallet, s \in Spends : RecordSpend(w, s)
  \/ \E w \in Wallet, s \in Spends : AskRegistry(w, s)
  \/ RegistryAnswers
  \/ RegistryFails

Next ==
  \/ \E a \in Admin : Initialize(a)
  \/ AdminStep
  \/ SpendStep
  \/ CloseLedger

Spec == Init /\ [][Next]_vars

-----------------------------------------------------------------------------
(* Invariants. *)

\* Types of every stored value, of the record a call in flight carries and of
\* the storage it would be rolled back to; deadlines stay within a u32.
Frame == [wallet : Wallet, spend : Nat, record : DailyLimit, saved : Storage]

TypeOK ==
  /\ Snapshot \in Storage
  /\ frames \in Seq(Frame)
  /\ sequence \in 0..MaxLedger
  /\ signers \subseteq Admin \cup Wallet \cup {Absent}

\* The list of wallets that the cap is applied to names exactly the wallets
\* that have a record, each once: no record escapes MAX_WALLETS
\* (set_daily_limit writes the two one after the other).
WalletsCounted ==
  /\ IsInjective(wallet_names)
  /\ ToSet(wallet_names) = {w \in Wallet : limits[w] # Absent}
  /\ Len(wallet_names) <= MaxWallets

\* The counter never passes the limit of its record, whoever calls back in
\* between (record_spend).
SpentWithinLimit == \A w \in Wallet : limits[w] # Absent => limits[w].spent <= limits[w].limit

\* On a host that prohibits reentry, what a wallet spends over any day_ledgers
\* consecutive ledgers is at most twice its limit, as long as the admin does
\* not intervene: days do not slide, so the end of one and the start of the
\* next add up (record_spend). With reentry the record read before the
\* registry is called hides what was charged during the call.
WindowBound ==
  \A w \in Wallet : limits[w] # Absent =>
    WindowsWithin(charged[w], limits[w].day_ledgers, 2 * limits[w].limit)

\* What get_daily_limit shows is what record_spend would still accept,
\* although only the latter stores the reset.
ViewPredictsSpend ==
  \A w \in Wallet : limits[w] # Absent =>
    \A s \in Spends \cap (Nat \ {0}) :
      SpendAllowed(limits[w], s) <=> View(limits[w]).spent + s <= View(limits[w]).limit

-----------------------------------------------------------------------------
(* Action properties and refinement. *)

\* On a host that prohibits reentry, a wallet's record is created, its terms
\* are changed and its counter is lowered within a day only with the signature
\* of the admin; otherwise it changes by what this wallet itself signed, and
\* then the counter rises or an elapsed day starts anew (set_daily_limit,
\* reset_daily_counter, record_spend).
Terms(r) == <<r.limit, r.day_ledgers, r.registry_id>>

OnlyWalletCharges ==
  [][\A w \in Wallet : limits'[w] # limits[w] =>
       \/ signers' = {admin}
       \/ /\ signers' = {w}
          /\ limits[w] # Absent
          /\ Terms(limits'[w]) = Terms(limits[w])
          /\ \/ sequence >= limits[w].reset_ledger
             \/ limits'[w].spent > limits[w].spent
                  /\ limits'[w].reset_ledger = limits[w].reset_ledger]_vars

Meter == INSTANCE SpendMeter WITH
  Asset   <- Wallet,
  NoMeter <- Absent,
  amount  <- [w \in Wallet |-> IF limits[w] = Absent THEN Absent ELSE limits[w].limit],
  spent   <- [w \in Wallet |-> IF limits[w] = Absent THEN 0 ELSE limits[w].spent],
  until   <- [w \in Wallet |-> IF limits[w] = Absent THEN 0 ELSE limits[w].reset_ledger],
  now     <- sequence

\* On a host that prohibits reentry, wallets are meters: record_spend charges
\* atomically although the registry is called in its middle.
ImplementsSpendMeter == Meter!Spec
=============================================================================
