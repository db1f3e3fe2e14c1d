----------------------------- MODULE MuxAccount -----------------------------
(***************************************************************************)
(* contracts/mux-account: the smart account of one owner. It keeps         *)
(* delegates, per-asset spend limits, session keys, a pause switch and a   *)
(* nonce, and calls other contracts for the owner (execute) or for a       *)
(* session key (execute_with_session) behind a reentrancy guard.           *)
(*                                                                         *)
(* A call to another contract is two steps: the entrypoint up to           *)
(* invoke_contract, which leaves a frame in flight, and what follows it.   *)
(* A frame ends with Return, or with Trap when the target panics: the host *)
(* then puts the storage back as the frame found it, callbacks included.   *)
(* An entrypoint that returns Err before that leaves no trace either, so   *)
(* the early returns are exactly the guards.                               *)
(*                                                                         *)
(* With HostReentry the target may call the account back while the frame   *)
(* is in flight, which is what the guard in the code is there for; a host  *)
(* that prohibits reentry is the instance HostReentry = FALSE.             *)
(*                                                                         *)
(* History: signers is who the latest invocation required the signature    *)
(* of, completed the nonces of the calls that came back, debited what was  *)
(* charged on which ledger since the limit of the asset was last set.      *)
(***************************************************************************)
EXTENDS Integers, FiniteSetsExt, SequencesExt, Functions, ChargeHistory

CONSTANTS
  Owner,          \* addresses that may initialise the account
  Delegate,       \* addresses offered to set_delegate
  SessionKey,     \* addresses offered to register_session_key
  Asset,          \* token contracts
  Method,         \* functions of the targets
  Meta,           \* metadata values
  Account,        \* the address of the account itself
  Absent,         \* no entry under a storage key
  Expiries,       \* expires_at values offered
  ScopeSets,      \* scope lists offered, as sets of methods
  Amounts,        \* spend limits offered
  Periods,        \* period_ledgers values offered
  Spends,         \* spend values offered
  MaxDelegates,   \* MAX_DELEGATES
  MaxSessionKeys, \* MAX_SESSION_KEYS
  NonceMax,       \* u64::MAX, where the nonce stops
  U32Max,         \* u32::MAX, where reset_ledger stops
  CloseTime,      \* seconds between two ledgers
  MaxLedger,      \* bound: last ledger of a behaviour
  MaxCalls,       \* bound: calls that come back in a behaviour
  HostReentry     \* BOOLEAN: may a target call the account back

SpendLimit == [amount : Nat, period_ledgers : 1..U32Max, spent : Nat, reset_ledger : 0..U32Max]
SessionKeyRecord == [expires_at : Nat, scopes : SUBSET Method, revoked : BOOLEAN]

ASSUME AbsentAssumption ==
  /\ Absent \notin Owner
  /\ Absent \notin Meta \cup Asset \cup Nat
  /\ Account \notin Owner \cup SessionKey
ASSUME RecordAssumption == Absent \notin SpendLimit \cup SessionKeyRecord
ASSUME InputAssumption ==
  /\ Expiries \subseteq Nat
  /\ ScopeSets \subseteq SUBSET Method
  /\ Amounts \subseteq Int
  /\ Periods \subseteq 0..U32Max
  /\ Spends \subseteq Int
ASSUME BoundAssumption ==
  /\ {MaxDelegates, MaxSessionKeys, NonceMax, U32Max, CloseTime, MaxLedger, MaxCalls} \subseteq Nat
  /\ MaxLedger < U32Max
  /\ HostReentry \in BOOLEAN

VARIABLES
  owner,      \* DataKey::Owner
  paused,     \* DataKey::Paused
  delegates,  \* DataKey::Delegates: expires_at of each delegate, or Absent
  limits,     \* DataKey::SpendLimit(asset)
  sessions,   \* DataKey::SessionKey(owner, key)
  index,      \* DataKey::SessionKeyIndex(owner)
  nonce,      \* DataKey::Nonce
  executing,  \* DataKey::Executing
  metadata,   \* DataKey::Metadata
  frames,     \* calls in flight, innermost last
  sequence,   \* env.ledger().sequence()
  signers, completed, debited \* history

storage == <<owner, paused, delegates, limits, sessions, index, nonce, executing, metadata>>
history == <<completed, debited>>
vars == <<storage, frames, sequence, signers, history>>

DelegateMap == [Delegate -> Nat \cup {Absent}]
LimitMap == [Asset -> SpendLimit \cup {Absent}]
SessionMap == [SessionKey -> SessionKeyRecord \cup {Absent}]
DebitMap == [Asset -> Histories(MaxLedger)]

\* The storage of the account with the history that is rolled back with it.
Storage ==
  [owner : Owner \cup {Absent}, paused : BOOLEAN, delegates : DelegateMap,
   limits : LimitMap, sessions : SessionMap, index : Seq(SessionKey),
   nonce : 0..NonceMax, executing : BOOLEAN, metadata : Meta \cup {Absent},
   completed : Seq(0..NonceMax), debited : DebitMap]

Init ==
  /\ owner = Absent
  /\ paused = FALSE
  /\ delegates = [d \in Delegate |-> Absent]
  /\ limits = [a \in Asset |-> Absent]
  /\ sessions = [k \in SessionKey |-> Absent]
  /\ index = <<>>
  /\ nonce = 0
  /\ executing = FALSE
  /\ metadata = Absent
  /\ frames = <<>>
  /\ sequence = 0
  /\ signers = {}
  /\ completed = <<>>
  /\ debited = [a \in Asset |-> NoCharges(MaxLedger)]

-----------------------------------------------------------------------------
(* Helpers. The definitions marked "Mutant" are plausible slips in the     *)
(* operator that follows; no specification here uses them.                 *)

Timestamp == sequence * CloseTime

SaturatingAdd(a, b) == IF a + b > U32Max THEN U32Max ELSE a + b

\* The host runs an entrypoint from a transaction, or from a target in flight.
Callable == frames = <<>> \/ HostReentry

\* Bound on the behaviours.
CallsLeft == Len(completed) + Len(frames) < MaxCalls

\* Mutant: the pause switch is not looked at.
RequireNotPausedNever == paused \in BOOLEAN

RequireNotPaused == ~paused

\* Mutant: require_auth forgotten.
RequireOwnerUnsigned == Callable /\ owner # Absent /\ signers' = {}

RequireOwner == Callable /\ owner # Absent /\ signers' = {owner}

\* Mutant: the flag is read and the answer ignored.
GuardFreeAlways == executing \in BOOLEAN

GuardFree == ~executing

AcquireGuard == GuardFree /\ executing' = TRUE

\* Mutant: the guard is left behind.
ReleaseGuardNever == executing' = executing

ReleaseGuard == executing' = FALSE

\* Mutant: the counter overflows.
NextNonceUnbounded == nonce + 1

NextNonce == IF nonce = NonceMax THEN NonceMax ELSE nonce + 1

\* Mutant: the nonce of the caller is not compared.
ConsumeNonceAny(n) == n \in Nat /\ nonce' = NextNonce

ConsumeNonce(n) == n = nonce /\ nonce' = NextNonce

\* Mutant: off by one, a delegate is dropped a second early.
DelegateExpiredEarly(d) == delegates[d] # Absent /\ Timestamp + 1 >= delegates[d]

\* Mutant: the ledger sequence is compared with a timestamp.
DelegateExpiredBySequence(d) == delegates[d] # Absent /\ sequence >= delegates[d]

DelegateExpired(d) == delegates[d] # Absent /\ Timestamp >= delegates[d]

Delegates == {d \in Delegate : delegates[d] # Absent}

\* The map once set_delegate has dropped what is expired, which it does only
\* when the delegate is new.
Reclaimed(d) ==
  IF d \in Delegates THEN delegates
  ELSE [e \in Delegate |-> IF DelegateExpired(e) THEN Absent ELSE delegates[e]]

RoomForDelegate(d) ==
  d \in Delegates \/ Cardinality({e \in Delegate : Reclaimed(d)[e] # Absent}) < MaxDelegates

\* Mutant: the meter is reset and the deadline is not.
RolledOverSpentOnly(l) == IF sequence >= l.reset_ledger THEN [l EXCEPT !.spent = 0] ELSE l

\* A limit whose period is over starts a new one.
RolledOver(l) ==
  IF sequence >= l.reset_ledger
  THEN [l EXCEPT !.spent = 0, !.reset_ledger = SaturatingAdd(sequence, l.period_ledgers)]
  ELSE l

\* Mutant: what is already spent is tested, not what it becomes.
SpendAllowedBySpent(a, s) ==
  s > 0 /\ limits[a] # Absent /\ RolledOver(limits[a]).spent <= limits[a].amount

SpendAllowed(a, s) ==
  s > 0 /\ limits[a] # Absent /\ RolledOver(limits[a]).spent + s <= limits[a].amount

\* The record compute_spend_update returns. checked_add cannot overflow where
\* SpendAllowed holds, since amount fits an i128.
SpendUpdate(a, s) == [RolledOver(limits[a]) EXCEPT !.spent = @ + s]

\* Mutant: revocation is not looked at.
SessionValidRevoked(k) == sessions[k] # Absent /\ Timestamp < sessions[k].expires_at

SessionValid(k) ==
  sessions[k] # Absent /\ ~sessions[k].revoked /\ Timestamp < sessions[k].expires_at

AuthorizeSession(k, m) == owner # Absent /\ SessionValid(k) /\ m \in sessions[k].scopes

SessionKeyRoom == Len(index) < MaxSessionKeys

\* Mutant: a revoked key stays listed.
UnlistNever(k) == k \in SessionKey /\ index' = index

Unlist(k) == index' = RemoveFirst(index, k)

\* What the host restores when the frame traps.
Snapshot ==
  [owner |-> owner, paused |-> paused, delegates |-> delegates, limits |-> limits,
   sessions |-> sessions, index |-> index, nonce |-> nonce, executing |-> executing,
   metadata |-> metadata, completed |-> completed, debited |-> debited]

-----------------------------------------------------------------------------
(* Entrypoints that end at once. *)

Initialize(o) ==
  /\ Callable
  /\ owner = Absent
  /\ signers' = {o}
  /\ owner' = o
  /\ delegates' = [d \in Delegate |-> Absent]
  /\ nonce' = 0
  /\ UNCHANGED <<paused, limits, sessions, index, executing, metadata, frames, sequence, history>>

SetPaused(p) ==
  /\ RequireOwner
  /\ paused' = p
  /\ UNCHANGED <<owner, delegates, limits, sessions, index, nonce, executing, metadata,
                 frames, sequence, history>>

Pause == SetPaused(TRUE)
Unpause == SetPaused(FALSE)

SetDelegate(d, expires_at) ==
  /\ RequireNotPaused
  /\ RequireOwner
  /\ RoomForDelegate(d)
  /\ delegates' = [Reclaimed(d) EXCEPT ![d] = expires_at]
  /\ UNCHANGED <<owner, paused, limits, sessions, index, nonce, executing, metadata,
                 frames, sequence, history>>

RemoveDelegate(d) ==
  /\ RequireNotPaused
  /\ RequireOwner
  /\ d \in Delegates
  /\ delegates' = [delegates EXCEPT ![d] = Absent]
  /\ UNCHANGED <<owner, paused, limits, sessions, index, nonce, executing, metadata,
                 frames, sequence, history>>

\* A new limit starts with an empty meter, whatever was spent before; the
\* guard is not consulted.
SetSpendLimit(a, amount, period) ==
  /\ RequireNotPaused
  /\ RequireOwner
  /\ amount > 0
  /\ period # 0
  /\ limits' = [limits EXCEPT ![a] =
       [amount |-> amount, period_ledgers |-> period, spent |-> 0,
        reset_ledger |-> SaturatingAdd(sequence, period)]]
  /\ debited' = [debited EXCEPT ![a] = NoCharges(MaxLedger)]
  /\ UNCHANGED <<owner, paused, delegates, sessions, index, nonce, executing, metadata,
                 frames, sequence, completed>>

\* The guard is taken and released within the call: it only has to be free.
DebitSpend(a, s) ==
  /\ Callable
  /\ RequireNotPaused
  /\ signers' = {Account}
  /\ GuardFree
  /\ SpendAllowed(a, s)
  /\ limits' = [limits EXCEPT ![a] = SpendUpdate(a, s)]
  /\ ReleaseGuard
  /\ debited' = [debited EXCEPT ![a] = WithCharge(@, sequence, s)]
  /\ UNCHANGED <<owner, paused, delegates, sessions, index, nonce, metadata,
                 frames, sequence, completed>>

\* A key that has a record, revoked or not, is neither counted nor listed.
RegisterSessionKey(k, expires_at, scopes) ==
  /\ RequireNotPaused
  /\ RequireOwner
  /\ \/ sessions[k] = Absent /\ SessionKeyRoom /\ index' = Append(index, k)
     \/ sessions[k] # Absent /\ index' = index
  /\ sessions' = [sessions EXCEPT ![k] =
       [expires_at |-> expires_at, scopes |-> scopes, revoked |-> FALSE]]
  /\ UNCHANGED <<owner, paused, delegates, limits, nonce, executing, metadata,
                 frames, sequence, history>>

RevokeSessionKey(k) ==
  /\ RequireNotPaused
  /\ RequireOwner
  /\ sessions[k] # Absent
  /\ sessions' = [sessions EXCEPT ![k].revoked = TRUE]
  /\ Unlist(k)
  /\ UNCHANGED <<owner, paused, delegates, limits, nonce, executing, metadata,
                 frames, sequence, history>>

\* Unlike the others it does not ask whether the account is paused.
SetMetadata(meta) ==
  /\ RequireOwner
  /\ metadata' = meta
  /\ UNCHANGED <<owner, paused, delegates, limits, sessions, index, nonce, executing,
                 frames, sequence, history>>

-----------------------------------------------------------------------------
(* Calls to other contracts. *)

\* execute up to invoke_contract: the debit is computed now and carried along.
Execute(a, s, n) ==
  /\ RequireNotPaused
  /\ RequireOwner
  /\ CallsLeft
  /\ AcquireGuard
  /\ SpendAllowed(a, s)
  /\ ConsumeNonce(n)
  /\ frames' = Append(frames, [by |-> owner, nonce |-> n, asset |-> a, spend |-> s,
                               limit |-> SpendUpdate(a, s), saved |-> Snapshot])
  /\ UNCHANGED <<owner, paused, delegates, limits, sessions, index, metadata, sequence, history>>

\* execute_with_session up to invoke_contract: no limit is involved.
ExecuteWithSession(k, m, n) ==
  /\ Callable
  /\ CallsLeft
  /\ RequireNotPaused
  /\ signers' = {k}
  /\ AuthorizeSession(k, m)
  /\ ConsumeNonce(n)
  /\ AcquireGuard
  /\ frames' = Append(frames, [by |-> k, nonce |-> n, asset |-> Absent, spend |-> 0,
                               limit |-> Absent, saved |-> Snapshot])
  /\ UNCHANGED <<owner, paused, delegates, limits, sessions, index, metadata, sequence, history>>

\* The target returned to execute: the limit computed before the call is
\* written back over what is stored.
ReturnToExecute ==
  /\ frames # <<>>
  /\ LET f == Last(frames) IN
       /\ f.asset \in Asset
       /\ limits' = [limits EXCEPT ![f.asset] = f.limit]
       /\ debited' = [debited EXCEPT ![f.asset] = WithCharge(@, sequence, f.spend)]
       /\ completed' = Append(completed, f.nonce)
  /\ ReleaseGuard
  /\ frames' = Front(frames)
  /\ signers' = {}
  /\ UNCHANGED <<owner, paused, delegates, sessions, index, nonce, metadata, sequence>>

\* The target returned to dispatch.
ReturnToSession ==
  /\ frames # <<>>
  /\ Last(frames).asset \notin Asset
  /\ completed' = Append(completed, Last(frames).nonce)
  /\ ReleaseGuard
  /\ frames' = Front(frames)
  /\ signers' = {}
  /\ UNCHANGED <<owner, paused, delegates, limits, sessions, index, nonce, metadata,
                 sequence, debited>>

\* The target panicked: the host rolls the frame back.
Trap ==
  /\ frames # <<>>
  /\ LET f == Last(frames).saved IN
       /\ owner' = f.owner
       /\ paused' = f.paused
       /\ delegates' = f.delegates
       /\ limits' = f.limits
       /\ sessions' = f.sessions
       /\ index' = f.index
       /\ nonce' = f.nonce
       /\ executing' = f.executing
       /\ metadata' = f.metadata
       /\ completed' = f.completed
       /\ debited' = f.debited
  /\ frames' = Front(frames)
  /\ signers' = {}
  /\ UNCHANGED sequence

\* A ledger closes between transactions.
CloseLedger ==
  /\ frames = <<>>
  /\ sequence < MaxLedger
  /\ sequence' = sequence + 1
  /\ signers' = {}
  /\ UNCHANGED <<storage, frames, history>>

-----------------------------------------------------------------------------

OwnerStep ==
  \/ Pause
  \/ Unpause
  \/ \E d \in Delegate, e \in Expiries : SetDelegate(d, e)
  \/ \E d \in Delegate : RemoveDelegate(d)
  \/ \E a \in Asset, amount \in Amounts, p \in Periods : SetSpendLimit(a, amount, p)
  \/ \E k \in SessionKey, e \in Expiries, sc \in ScopeSets : RegisterSessionKey(k, e, sc)
  \/ \E k \in SessionKey : RevokeSessionKey(k)
  \/ \E m \in Meta : SetMetadata(m)

CallStep ==
  \/ \E a \in Asset, s \in Spends, n \in 0..NonceMax : Execute(a, s, n)
  \/ \E k \in SessionKey, m \in Method, n \in 0..NonceMax : ExecuteWithSession(k, m, n)
  \/ ReturnToExecute
  \/ ReturnToSession
  \/ Trap

Next ==
  \/ \E o \in Owner : Initialize(o)
  \/ OwnerStep
  \/ \E a \in Asset, s \in Spends : DebitSpend(a, s)
  \/ CallStep
  \/ CloseLedger

Spec == Init /\ [][Next]_vars

-----------------------------------------------------------------------------
(* Invariants. *)

\* Types of every stored value (DataKey and the contracttype structs), of the
\* storage a call in flight would be rolled back to and of the limit it is
\* about to write; the nonce stays a u64.
Frame ==
  LET Call(assets, limit) ==
        [by : Owner \cup SessionKey, nonce : 0..NonceMax, asset : assets, spend : Nat,
         limit : limit, saved : Storage]
  IN Call(Asset, SpendLimit) \cup Call({Absent}, {Absent})

TypeOK ==
  /\ owner \in Owner \cup {Absent}
  /\ paused \in BOOLEAN
  /\ delegates \in DelegateMap
  /\ limits \in LimitMap
  /\ sessions \in SessionMap
  /\ index \in Seq(SessionKey)
  /\ nonce \in 0..NonceMax
  /\ executing \in BOOLEAN
  /\ metadata \in Meta \cup {Absent}
  /\ completed \in Seq(0..NonceMax)
  /\ debited \in DebitMap
  /\ frames \in Seq(Frame)
  /\ sequence \in 0..MaxLedger
  /\ signers \subseteq Owner \cup SessionKey \cup {Account, Absent}

\* The reentrancy flag is set exactly while a call is in flight, at most one
\* is, and none was started over another: no path, a panicking target
\* included, leaves the account locked or unguarded (acquire_guard,
\* release_guard and their callers).
GuardTracksCalls ==
  /\ executing <=> frames # <<>>
  /\ Len(frames) <= 1
  /\ \A i \in 1..Len(frames) : ~frames[i].saved.executing

\* Calls come back in the order of their nonces, without a gap and, until the
\* counter saturates, without a repetition; a call that panicked has used no
\* nonce up (consume_nonce and the rollback of the frame).
Capped(n) == IF n < NonceMax THEN n ELSE NonceMax

NoncesInOrder ==
  /\ nonce = Capped(Len(completed) + Len(frames))
  /\ \A i \in 1..Len(completed) : completed[i] = Capped(i - 1)
  /\ \A i \in 1..Len(frames) : frames[i].nonce = Capped(Len(completed) + i - 1)

\* The meter never shows more than the limit, nor does the record a call in
\* flight is about to write (compute_spend_update, execute, debit_spend).
LimitsRespected(ls) == \A a \in Asset : ls[a] # Absent => ls[a].spent <= ls[a].amount

SpentWithinLimit ==
  /\ LimitsRespected(limits)
  /\ \A i \in 1..Len(frames) :
       frames[i].asset \in Asset => frames[i].limit.spent <= frames[i].limit.amount

\* What is charged from one set_spend_limit to the next, over any
\* period_ledgers consecutive ledgers and whatever panics, calls back or is
\* rolled back in between, is at most twice the limit: the periods do not
\* slide, so one of them can be used up at its end and the next at its start.
WindowBound ==
  \A a \in Asset : limits[a] # Absent =>
    WindowsWithin(debited[a], limits[a].period_ledgers, 2 * limits[a].amount)

\* There are never more delegates than slots (MAX_DELEGATES).
DelegatesBounded == Cardinality(Delegates) <= MaxDelegates

LiveDelegates == {d \in Delegates : Timestamp < delegates[d]}

\* set_delegate refuses a new delegate only when every slot is held by one
\* that is still valid: entries that expired never block the list (the
\* reclaiming loop).
FullMeansLive ==
  \A d \in Delegate : ~RoomForDelegate(d) => Cardinality(LiveDelegates) >= MaxDelegates

\* The slots of delegates are bounded, and full only of valid delegates,
\* through expiries, additions and calls that are rolled back.
SlotsSound == DelegatesBounded /\ FullMeansLive

\* The session-key index lists no key twice, no key that is revoked or has no
\* record, and stays within the cap through any order of registering,
\* revoking and re-registering.
IndexListsActive(ix, records) ==
  /\ IsInjective(ix)
  /\ Len(ix) <= MaxSessionKeys
  /\ \A k \in ToSet(ix) : records[k] # Absent /\ ~records[k].revoked

IndexSound == IndexListsActive(index, sessions)

-----------------------------------------------------------------------------
(* Action properties. *)

\* A valid delegate disappears only by remove_delegate, one at a time and
\* with the signature of the owner: making room takes expired ones alone.
\* A rollback puts back what the frame found.
LiveDelegatesKept ==
  [][Len(frames') >= Len(frames) =>
       \/ LiveDelegates \subseteq Delegates'
       \/ /\ owner \in signers'
          /\ \E d \in LiveDelegates : Delegates' = Delegates \ {d}]_vars

\* While a call is in flight nothing is charged: a target that calls back into
\* execute or debit_spend is turned away.
NoDebitInsideCall ==
  [][frames # <<>> /\ Len(frames') >= Len(frames) =>
       \A a \in Asset : \A n \in DOMAIN debited[a] : debited'[a][n] <= debited[a][n]]_vars

\* Nobody but the owner or a session key that is registered, not revoked, not
\* expired and granted some method has the account call a contract
\* (execute, execute_with_session and authorize_session).
CallsAreGranted ==
  [][Len(frames') > Len(frames) =>
       \/ signers' = {owner}
       \/ \E k \in SessionKey :
            /\ signers' = {k}
            /\ sessions[k] # Absent
            /\ ~sessions[k].revoked
            /\ sessions[k].scopes # {}
            /\ Timestamp < sessions[k].expires_at]_vars

\* While the account is paused and no call is in flight, nothing moves funds
\* or changes who may act: no call starts, no limit, delegate, session key or
\* nonce changes (require_not_paused in every such entrypoint).
PausedFreezes ==
  [][paused /\ frames = <<>> =>
       UNCHANGED <<delegates, limits, sessions, index, nonce, frames, debited>>]_vars

\* On a host that prohibits reentry, what the owner configured changes only
\* with the signature of the owner. With reentry it does not hold: a limit
\* set from inside a call is overwritten when the call returns.
LimitTerms ==
  [a \in Asset |-> IF limits[a] = Absent THEN Absent
                   ELSE <<limits[a].amount, limits[a].period_ledgers>>]

Configuration == <<paused, delegates, sessions, index, metadata, LimitTerms>>

OwnerConfigures ==
  [][owner # Absent /\ Configuration' # Configuration => signers' = {owner}]_vars

-----------------------------------------------------------------------------
(* Refinement. *)

Meter == INSTANCE SpendMeter WITH
  NoMeter <- Absent,
  amount  <- [a \in Asset |-> IF limits[a] = Absent THEN Absent ELSE limits[a].amount],
  spent   <- [a \in Asset |-> IF limits[a] = Absent THEN 0 ELSE limits[a].spent],
  until   <- [a \in Asset |-> IF limits[a] = Absent THEN 0 ELSE limits[a].reset_ledger],
  now     <- sequence

\* On a host that prohibits reentry, the two-phase charge of execute (computed
\* before the call, stored after it) and that of debit_spend implement atomic
\* charges of a meter.
ImplementsSpendMeter == Meter!Spec

-----------------------------------------------------------------------------
(* What the documentation says and the code does not do. *)

\* docs: at most MAX_SESSION_KEYS session keys are active.
ActiveSessionKeysBounded ==
  Cardinality({k \in SessionKey : SessionValid(k)}) <= MaxSessionKeys
=============================================================================
