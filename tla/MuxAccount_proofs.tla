------------------------- MODULE MuxAccount_proofs -------------------------
(***************************************************************************)
(* Theorems about MuxAccount, for every set of addresses, assets, keys,    *)
(* methods and inputs, every cap and integer range, and whether or not the *)
(* host lets a target call the account back.                               *)
(***************************************************************************)
EXTENDS MuxAccount, SeqLemmas

(* --------------------------- Type correctness -------------------------- *)

\* saturating_add stays in the u32 range.
LEMMA SaturatingAddInRange ==
  ASSUME NEW a \in 0..U32Max, NEW b \in 0..U32Max
  PROVE  SaturatingAdd(a, b) \in 0..U32Max
BY BoundAssumption DEF SaturatingAdd

\* The record compute_spend_update returns is a well-formed limit.
LEMMA SpendUpdateType ==
  ASSUME TypeOK, NEW a \in Asset, NEW s \in Spends, SpendAllowed(a, s)
  PROVE  /\ SpendUpdate(a, s) \in SpendLimit
         /\ SpendUpdate(a, s).spent <= SpendUpdate(a, s).amount
         /\ s \in Nat
<1>1. limits[a] \in SpendLimit /\ s \in Nat
  BY InputAssumption DEF TypeOK, LimitMap, SpendAllowed
<1>2. sequence \in 0..U32Max
  BY BoundAssumption DEF TypeOK
<1>3. RolledOver(limits[a]) \in SpendLimit
  <2>1. limits[a].period_ledgers \in 0..U32Max
    BY <1>1, BoundAssumption DEF SpendLimit
  <2>2. SaturatingAdd(sequence, limits[a].period_ledgers) \in 0..U32Max
    BY <1>2, <2>1, SaturatingAddInRange
  <2>. QED  BY <1>1, <2>2 DEF RolledOver, SpendLimit
<1> DEFINE r == RolledOver(limits[a])
<1>4. r.spent + s <= limits[a].amount /\ limits[a].amount = r.amount
  BY <1>1 DEF SpendAllowed, RolledOver, SpendLimit
<1>5. SpendUpdate(a, s) = [r EXCEPT !.spent = r.spent + s]
  BY DEF SpendUpdate
<1> HIDE DEF r
<1>6. r \in SpendLimit
  BY <1>3 DEF r
<1>. QED
  BY <1>1, <1>4, <1>5, <1>6 DEF SpendLimit

\* What the host would restore is well typed.
LEMMA SnapshotType == TypeOK => Snapshot \in Storage
BY Zenon DEF TypeOK, Snapshot, Storage

\* A call that starts carries a well-typed frame.
LEMMA ExecuteFrame ==
  ASSUME TypeOK, NEW a \in Asset, NEW s \in Spends, NEW n \in 0..NonceMax,
         owner # Absent, SpendAllowed(a, s)
  PROVE  [by |-> owner, nonce |-> n, asset |-> a, spend |-> s,
          limit |-> SpendUpdate(a, s), saved |-> Snapshot] \in Frame
<1>1. owner \in Owner \cup SessionKey /\ Snapshot \in Storage
  BY SnapshotType DEF TypeOK
<1>2. SpendUpdate(a, s) \in SpendLimit /\ s \in Nat
  BY SpendUpdateType
<1>. QED
  BY <1>1, <1>2, Zenon DEF Frame

\* The same for a call of a session key.
LEMMA SessionFrame ==
  ASSUME TypeOK, NEW k \in SessionKey, NEW n \in 0..NonceMax
  PROVE  [by |-> k, nonce |-> n, asset |-> Absent, spend |-> 0,
          limit |-> Absent, saved |-> Snapshot] \in Frame
<1>1. Snapshot \in Storage /\ k \in Owner \cup SessionKey /\ 0 \in Nat
  BY SnapshotType
<1>. QED
  BY <1>1, Zenon DEF Frame

\* The innermost call in flight is well typed, and so is the stack below it.
LEMMA TopFrame ==
  ASSUME TypeOK, frames # <<>>
  PROVE  /\ Front(frames) \in Seq(Frame)
         /\ Last(frames) \in Frame
         /\ Last(frames).nonce \in 0..NonceMax
         /\ Last(frames).spend \in Nat
         /\ Last(frames).saved \in Storage
         /\ Last(frames).asset \in Asset => Last(frames).limit \in SpendLimit
<1>1. Front(frames) \in Seq(Frame) /\ Last(frames) \in Frame
  BY FrontLastProperties DEF TypeOK
<1>. QED
  BY <1>1, AbsentAssumption DEF Frame

\* The nonce stays a u64.
LEMMA NextNonceType == TypeOK => NextNonce \in 0..NonceMax
<1> SUFFICES ASSUME TypeOK
             PROVE  NextNonce \in 0..NonceMax
  OBVIOUS
<1>1. nonce \in 0..NonceMax
  BY DEF TypeOK
<1>2. NonceMax \in Nat
  BY BoundAssumption
<1>. QED
  BY <1>1, <1>2 DEF NextNonce

\* Dropping expired delegates keeps the map well typed.
LEMMA ReclaimedType ==
  ASSUME TypeOK, NEW d \in Delegate
  PROVE  Reclaimed(d) \in DelegateMap
BY DEF TypeOK, Reclaimed, DelegateMap

\* Logging a charge keeps the log well typed.
LEMMA DebitType ==
  ASSUME TypeOK, NEW a \in Asset, NEW s \in Nat
  PROVE  [debited EXCEPT ![a] = WithCharge(@, sequence, s)] \in DebitMap
<1>1. debited[a] \in Histories(MaxLedger) /\ MaxLedger \in Nat /\ sequence \in Nat
  BY BoundAssumption DEF TypeOK, DebitMap
<1>2. WithCharge(debited[a], sequence, s) \in Histories(MaxLedger)
  BY <1>1, WithChargeType
<1>. QED
  BY <1>2, Zenon DEF TypeOK, DebitMap

\* A history without charges is well typed.
LEMMA NoChargesType == NoCharges(MaxLedger) \in Histories(MaxLedger)
BY DEF NoCharges, Histories

\* Every step keeps every type.
LEMMA TypeStep ==
  ASSUME TypeOK, [Next]_vars
  PROVE  TypeOK'
<1> USE DEF TypeOK
<1>1. ASSUME NEW o \in Owner, Initialize(o)
      PROVE  TypeOK'
  BY <1>1, BoundAssumption DEF Initialize, DelegateMap, history
<1>2. ASSUME NEW p \in BOOLEAN, SetPaused(p)
      PROVE  TypeOK'
  BY <1>2 DEF SetPaused, RequireOwner, history
<1>3. ASSUME NEW d \in Delegate, NEW e \in Expiries, SetDelegate(d, e)
      PROVE  TypeOK'
  <2>1. delegates' \in DelegateMap
    BY <1>3, ReclaimedType, InputAssumption DEF SetDelegate, DelegateMap
  <2>. QED  BY <1>3, <2>1 DEF SetDelegate, RequireOwner, history
<1>4. ASSUME NEW d \in Delegate, RemoveDelegate(d)
      PROVE  TypeOK'
  <2>1. delegates' \in DelegateMap
    BY <1>4 DEF RemoveDelegate, DelegateMap
  <2>. QED  BY <1>4, <2>1 DEF RemoveDelegate, RequireOwner, history
<1>5. ASSUME NEW a \in Asset, NEW amount \in Amounts, NEW p \in Periods,
             SetSpendLimit(a, amount, p)
      PROVE  TypeOK'
  <2>1. /\ amount \in Nat /\ p \in 1..U32Max
        /\ SaturatingAdd(sequence, p) \in 0..U32Max
    <3>1. amount \in Nat /\ p \in 1..U32Max
      <4>1. amount \in Nat /\ amount > 0 /\ p \in 0..U32Max /\ p # 0
        BY <1>5, InputAssumption DEF SetSpendLimit
      <4>. QED  BY <4>1, BoundAssumption
    <3>2. sequence \in 0..U32Max /\ p \in 0..U32Max
      <4>1. U32Max \in Nat /\ MaxLedger \in Nat /\ MaxLedger < U32Max
        BY BoundAssumption
      <4>2. sequence \in 0..MaxLedger
        OBVIOUS
      <4>3. sequence \in 0..U32Max
        BY ONLY <4>1, <4>2
      <4>. QED  BY ONLY <3>1, <4>1, <4>3
    <3>. QED  BY <3>1, <3>2, SaturatingAddInRange
  <2>2. [amount |-> amount, period_ledgers |-> p, spent |-> 0,
         reset_ledger |-> SaturatingAdd(sequence, p)] \in SpendLimit
    BY <2>1 DEF SpendLimit
  <2>3. limits' \in LimitMap
    BY <1>5, <2>2, Zenon DEF SetSpendLimit, LimitMap
  <2>4. debited' \in DebitMap
    BY <1>5, NoChargesType, Zenon DEF SetSpendLimit, DebitMap
  <2>. QED  BY <1>5, <2>3, <2>4 DEF SetSpendLimit, RequireOwner
<1>6. ASSUME NEW a \in Asset, NEW s \in Spends, DebitSpend(a, s)
      PROVE  TypeOK'
  <2>1. SpendUpdate(a, s) \in SpendLimit /\ s \in Nat
    BY <1>6, SpendUpdateType DEF DebitSpend
  <2>2. limits' \in LimitMap
    BY <1>6, <2>1, Zenon DEF DebitSpend, LimitMap
  <2>3. debited' \in DebitMap
    BY <1>6, <2>1, DebitType DEF DebitSpend
  <2>. QED  BY <1>6, <2>2, <2>3 DEF DebitSpend, ReleaseGuard
<1>7. ASSUME NEW k \in SessionKey, NEW e \in Expiries, NEW sc \in ScopeSets,
             RegisterSessionKey(k, e, sc)
      PROVE  TypeOK'
  <2>1. [expires_at |-> e, scopes |-> sc, revoked |-> FALSE] \in SessionKeyRecord
    BY InputAssumption DEF SessionKeyRecord
  <2>2. sessions' \in SessionMap
    BY <1>7, <2>1, Zenon DEF RegisterSessionKey, SessionMap
  <2>3. index' \in Seq(SessionKey)
    <3>1. index \in Seq(SessionKey) /\ (index' = index \/ index' = Append(index, k))
      BY <1>7, Zenon DEF RegisterSessionKey
    <3>2. Append(index, k) \in Seq(SessionKey)
      BY <3>1, AppendProperties
    <3> HIDE DEF TypeOK
    <3>. QED  BY <3>1, <3>2
  <2>. QED  BY <1>7, <2>2, <2>3 DEF RegisterSessionKey, RequireOwner, history
<1>8. ASSUME NEW k \in SessionKey, RevokeSessionKey(k)
      PROVE  TypeOK'
  <2>1. [sessions[k] EXCEPT !.revoked = TRUE] \in SessionKeyRecord
    BY <1>8 DEF RevokeSessionKey, SessionMap, SessionKeyRecord
  <2>2. sessions' \in SessionMap
    BY <1>8, <2>1 DEF RevokeSessionKey, SessionMap
  <2>3. index' \in Seq(SessionKey)
    BY <1>8, RemoveFirstProperties DEF RevokeSessionKey, Unlist
  <2>. QED  BY <1>8, <2>2, <2>3 DEF RevokeSessionKey, RequireOwner, history
<1>9. ASSUME NEW m \in Meta, SetMetadata(m)
      PROVE  TypeOK'
  BY <1>9 DEF SetMetadata, RequireOwner, history
<1>10. ASSUME NEW a \in Asset, NEW s \in Spends, NEW n \in 0..NonceMax, Execute(a, s, n)
       PROVE  TypeOK'
  <2>1. frames' \in Seq(Frame)
    <3>1. owner # Absent /\ SpendAllowed(a, s)
      BY <1>10 DEF Execute, RequireOwner
    <3>. QED  BY <1>10, <3>1, ExecuteFrame, AppendProperties DEF Execute
  <2>2. nonce' \in 0..NonceMax
    BY <1>10, NextNonceType DEF Execute, ConsumeNonce
  <2>. QED
    BY <1>10, <2>1, <2>2 DEF Execute, RequireOwner, AcquireGuard, history
<1>11. ASSUME NEW k \in SessionKey, NEW m \in Method, NEW n \in 0..NonceMax,
              ExecuteWithSession(k, m, n)
       PROVE  TypeOK'
  <2>1. frames' \in Seq(Frame)
    BY <1>11, SessionFrame, AppendProperties DEF ExecuteWithSession
  <2>2. nonce' \in 0..NonceMax
    BY <1>11, NextNonceType DEF ExecuteWithSession, ConsumeNonce
  <2>. QED
    BY <1>11, <2>1, <2>2 DEF ExecuteWithSession, AcquireGuard, history
<1>12. CASE ReturnToExecute
  <2>1. frames # <<>> /\ Last(frames).asset \in Asset
    BY <1>12 DEF ReturnToExecute
  <2>2. limits' \in LimitMap
    BY <1>12, <2>1, TopFrame DEF ReturnToExecute, LimitMap
  <2>3. debited' \in DebitMap
    BY <1>12, <2>1, TopFrame, DebitType DEF ReturnToExecute
  <2>4. completed' \in Seq(0..NonceMax) /\ frames' \in Seq(Frame)
    BY <1>12, <2>1, TopFrame, AppendProperties DEF ReturnToExecute
  <2>. QED  BY <1>12, <2>2, <2>3, <2>4 DEF ReturnToExecute, ReleaseGuard
<1>13. CASE ReturnToSession
  <2>1. completed' \in Seq(0..NonceMax) /\ frames' \in Seq(Frame)
    BY <1>13, TopFrame, AppendProperties DEF ReturnToSession
  <2>. QED  BY <1>13, <2>1 DEF ReturnToSession, ReleaseGuard
<1>14. CASE Trap
  <2>1. frames # <<>> /\ frames' = Front(frames)
    BY <1>14 DEF Trap
  <2>2. Last(frames).saved \in Storage /\ frames' \in Seq(Frame)
    BY <2>1, TopFrame
  <2>. QED  BY <1>14, <2>2 DEF Trap, Storage
<1>15. CASE CloseLedger
  BY <1>15, BoundAssumption DEF CloseLedger, storage, history
<1>16. CASE UNCHANGED vars
  BY <1>16 DEF vars, storage, history
<1>. QED
  BY <1>1, <1>2, <1>3, <1>4, <1>5, <1>6, <1>7, <1>8, <1>9, <1>10, <1>11, <1>12, <1>13,
     <1>14, <1>15, <1>16
  DEF Next, OwnerStep, CallStep, Pause, Unpause

\* Every reachable state stores values of the declared types, the rollback
\* images of the calls in flight included; the nonce stays a u64.
THEOREM TypeCorrect == Spec => []TypeOK
<1>1. Init => TypeOK
  <2> SUFFICES ASSUME Init
               PROVE  TypeOK
    OBVIOUS
  <2>1. /\ delegates \in DelegateMap
        /\ limits \in LimitMap
        /\ sessions \in SessionMap
    BY Zenon DEF Init, DelegateMap, LimitMap, SessionMap
  <2>2. debited \in DebitMap
    BY NoChargesType, Zenon DEF Init, DebitMap
  <2>3. index \in Seq(SessionKey) /\ completed \in Seq(0..NonceMax) /\ frames \in Seq(Frame)
    BY EmptySeq DEF Init
  <2>4. nonce \in 0..NonceMax /\ sequence \in 0..MaxLedger
    BY BoundAssumption DEF Init
  <2>. QED  BY <2>1, <2>2, <2>3, <2>4 DEF Init, TypeOK
<1>2. TypeOK /\ [Next]_vars => TypeOK'
  BY TypeStep
<1>. QED
  BY <1>1, <1>2, PTL DEF Spec

(* ------------------------------ Invariants ----------------------------- *)

\* What the flag, the nonces and the rollback images have to agree on so that
\* GuardTracksCalls and NoncesInOrder are kept by every step: nothing happens
\* before initialize, and the image a call in flight would be rolled back to
\* has the owner and the completed calls of now and the nonce of that call.
RollbackExact ==
  /\ owner = Absent => nonce = 0 /\ completed = <<>> /\ frames = <<>>
  /\ \A i \in 1..Len(frames) :
       /\ owner = frames[i].saved.owner
       /\ completed = frames[i].saved.completed
       /\ frames[i].nonce = frames[i].saved.nonce

CallInv == GuardTracksCalls /\ NoncesInOrder /\ RollbackExact

\* A call starts only over an empty stack, which then holds that call alone.
LEMMA StartKeepsCallInv ==
  ASSUME TypeOK, CallInv, NEW f \in Frame,
         owner # Absent, ~executing, executing' = TRUE,
         f.nonce = nonce, nonce' = NextNonce, f.saved = Snapshot,
         frames' = Append(frames, f), owner' = owner, completed' = completed
  PROVE  CallInv'
<1>1. frames = <<>> /\ Len(frames) = 0
  BY DEF CallInv, GuardTracksCalls
<1>2. frames' = <<f>> /\ Len(frames') = 1 /\ frames'[1] = f /\ frames' # <<>>
  BY <1>1
<1>3. 1..1 = {1}
  OBVIOUS
<1>4. GuardTracksCalls'
  BY <1>2, <1>3 DEF GuardTracksCalls, Snapshot
<1>5. nonce = Capped(Len(completed)) /\ Len(completed) \in Nat
  BY <1>1, LenProperties DEF CallInv, NoncesInOrder, TypeOK
<1>6. NoncesInOrder'
  <2>1. nonce' = Capped(Len(completed) + 1)
    BY <1>5, BoundAssumption DEF NextNonce, Capped
  <2>2. \A i \in 1..Len(completed) : completed[i] = Capped(i - 1)
    BY DEF CallInv, NoncesInOrder
  <2>3. frames'[1].nonce = Capped(Len(completed) + 1 - 1)
    BY <1>2, <1>5
  <2>. QED  BY <1>2, <1>3, <2>1, <2>2, <2>3 DEF NoncesInOrder, Capped
<1>7. RollbackExact'
  BY <1>2, <1>3 DEF RollbackExact, Snapshot
<1>. QED
  BY <1>4, <1>6, <1>7 DEF CallInv

\* The stack is empty once the call in flight has ended.
LEMMA OneCall ==
  ASSUME TypeOK, CallInv, frames # <<>>
  PROVE  /\ Len(frames) = 1
         /\ Last(frames) = frames[1]
         /\ Front(frames) = <<>>
<1>1. Len(frames) = 1
  <2>1. Len(frames) \in Nat \ {0} /\ Len(frames) <= 1
    BY FrontLastProperties, Zenon DEF TypeOK, CallInv, GuardTracksCalls
  <2> DEFINE n == Len(frames)
  <2> HIDE DEF n
  <2>2. n \in Nat \ {0} /\ n <= 1
    BY <2>1 DEF n
  <2>. QED  BY <2>2 DEF n
<1>2. Front(frames) \in Seq(Frame) /\ Len(Front(frames)) = 0
  <2>1. Front(frames) \in Seq(Frame) /\ Len(Front(frames)) = Len(frames) - 1
    BY FrontLastProperties DEF TypeOK
  <2>. QED  BY <1>1, <2>1
<1>3. Front(frames) = <<>>
  BY <1>2, EmptySeq
<1>. QED
  BY <1>1, <1>3 DEF Last

\* A call that comes back has completed, with its nonce.
LEMMA ReturnKeepsCallInv ==
  ASSUME TypeOK, CallInv, frames # <<>>,
         completed' = Append(completed, Last(frames).nonce),
         executing' = FALSE, frames' = Front(frames), owner' = owner, nonce' = nonce
  PROVE  CallInv'
<1>1. frames' = <<>> /\ Len(frames') = 0 /\ Len(frames) = 1 /\ Last(frames) = frames[1]
  BY OneCall
<1>2. /\ nonce = Capped(Len(completed) + 1)
      /\ frames[1].nonce = Capped(Len(completed) + 1 - 1)
      /\ \A i \in 1..Len(completed) : completed[i] = Capped(i - 1)
      /\ owner # Absent
  BY <1>1 DEF CallInv, NoncesInOrder, RollbackExact
<1>3. /\ Len(completed) \in Nat
      /\ Len(completed') = Len(completed) + 1
      /\ \A i \in 1..Len(completed) : completed'[i] = completed[i]
      /\ completed'[Len(completed) + 1] = frames[1].nonce
  BY <1>1, TopFrame, LenProperties, AppendProperties DEF TypeOK
<1> DEFINE n == Len(completed)
<1>4. NoncesInOrder'
  <2>1. \A i \in 1..(n + 1) : completed'[i] = Capped(i - 1)
    <3> TAKE i \in 1..(n + 1)
    <3>1. i \in 1..n \/ i = n + 1
      BY <1>3
    <3>. QED  BY <1>2, <1>3, <3>1
  <2>2. nonce' = Capped(Len(completed') + Len(frames'))
    BY <1>1, <1>2, <1>3
  <2>. QED  BY <1>1, <1>3, <2>1, <2>2 DEF NoncesInOrder, Capped
<1>5. GuardTracksCalls' /\ RollbackExact'
  BY <1>1, <1>2 DEF GuardTracksCalls, RollbackExact
<1>. QED
  BY <1>4, <1>5 DEF CallInv

\* A call that panics leaves the nonce and the completed calls as they were
\* before it, and the guard free.
LEMMA TrapKeepsCallInv ==
  ASSUME TypeOK, CallInv, Trap
  PROVE  CallInv'
<1>1. frames # <<>>
  BY DEF Trap
<1>2. frames' = <<>> /\ Len(frames') = 0 /\ Len(frames) = 1 /\ Last(frames) = frames[1]
  BY <1>1, OneCall DEF Trap
<1>3. /\ frames[1].saved.executing = FALSE
      /\ owner = frames[1].saved.owner
      /\ completed = frames[1].saved.completed
      /\ frames[1].saved.nonce = Capped(Len(completed) + 1 - 1)
      /\ owner # Absent
      /\ \A i \in 1..Len(completed) : completed[i] = Capped(i - 1)
  <2>1. frames[1].saved.executing \in BOOLEAN
    BY <1>1, <1>2, TopFrame DEF Storage
  <2>. QED
    BY <1>1, <1>2, <2>1 DEF CallInv, GuardTracksCalls, NoncesInOrder, RollbackExact
<1>4. /\ executing' = FALSE
      /\ owner' = owner
      /\ completed' = completed
      /\ nonce' = Capped(Len(completed) + 1 - 1)
  BY <1>2, <1>3 DEF Trap
<1>5. Len(completed) \in Nat
  BY LenProperties DEF TypeOK
<1>6. NoncesInOrder'
  BY <1>2, <1>3, <1>4, <1>5 DEF NoncesInOrder, Capped
<1>7. GuardTracksCalls' /\ RollbackExact'
  BY <1>2, <1>3, <1>4 DEF GuardTracksCalls, RollbackExact
<1>. QED
  BY <1>6, <1>7 DEF CallInv

\* Every other step leaves calls, nonces and the guard alone.
LEMMA CallInvStep ==
  ASSUME TypeOK, CallInv, [Next]_vars
  PROVE  CallInv'
<1>1. ASSUME UNCHANGED <<owner, nonce, executing, completed, frames>>
      PROVE  CallInv'
  BY <1>1 DEF CallInv, GuardTracksCalls, NoncesInOrder, RollbackExact, Capped
<1>2. ASSUME NEW o \in Owner, Initialize(o)
      PROVE  CallInv'
  <2>1. owner = Absent /\ nonce = 0 /\ completed = <<>> /\ frames = <<>>
    BY <1>2 DEF Initialize, CallInv, RollbackExact
  <2>2. UNCHANGED <<nonce, executing, completed, frames>> /\ owner' = o
    BY <1>2, <2>1 DEF Initialize, history
  <2>. QED
    BY <2>1, <2>2, AbsentAssumption DEF CallInv, GuardTracksCalls, NoncesInOrder, RollbackExact, Capped
<1>3. ASSUME NEW a \in Asset, NEW s \in Spends, DebitSpend(a, s)
      PROVE  CallInv'
  <2>1. UNCHANGED <<owner, nonce, executing, completed, frames>>
    BY <1>3 DEF DebitSpend, GuardFree, ReleaseGuard, TypeOK
  <2>. QED  BY <1>1, <2>1
<1>4. ASSUME OwnerStep
      PROVE  UNCHANGED <<owner, nonce, executing, completed, frames>>
  BY <1>4 DEF OwnerStep, Pause, Unpause, SetPaused, SetDelegate, RemoveDelegate, SetSpendLimit,
              RegisterSessionKey, RevokeSessionKey, SetMetadata, history
<1>5. ASSUME NEW a \in Asset, NEW s \in Spends, NEW n \in 0..NonceMax, Execute(a, s, n)
      PROVE  CallInv'
  <2> DEFINE f == [by |-> owner, nonce |-> n, asset |-> a, spend |-> s,
                   limit |-> SpendUpdate(a, s), saved |-> Snapshot]
  <2>1. /\ owner # Absent /\ ~executing /\ executing' = TRUE
        /\ n = nonce /\ nonce' = NextNonce /\ SpendAllowed(a, s)
        /\ frames' = Append(frames, f) /\ owner' = owner /\ completed' = completed
    BY <1>5 DEF Execute, RequireOwner, AcquireGuard, GuardFree, ConsumeNonce, history
  <2>2. f \in Frame
    BY <2>1, ExecuteFrame
  <2>3. f.nonce = nonce /\ f.saved = Snapshot
    BY <2>1
  <2> HIDE DEF f
  <2>. QED  BY <2>1, <2>2, <2>3, StartKeepsCallInv
<1>6. ASSUME NEW k \in SessionKey, NEW m \in Method, NEW n \in 0..NonceMax,
             ExecuteWithSession(k, m, n)
      PROVE  CallInv'
  <2> DEFINE f == [by |-> k, nonce |-> n, asset |-> Absent, spend |-> 0,
                   limit |-> Absent, saved |-> Snapshot]
  <2>1. /\ owner # Absent /\ ~executing /\ executing' = TRUE
        /\ n = nonce /\ nonce' = NextNonce
        /\ frames' = Append(frames, f) /\ owner' = owner /\ completed' = completed
    BY <1>6 DEF ExecuteWithSession, AuthorizeSession, AcquireGuard, GuardFree, ConsumeNonce, history
  <2>2. f \in Frame
    BY SessionFrame
  <2>3. f.nonce = nonce /\ f.saved = Snapshot
    BY <2>1
  <2> HIDE DEF f
  <2>. QED  BY <2>1, <2>2, <2>3, StartKeepsCallInv
<1>7. CASE ReturnToExecute
  BY <1>7, ReturnKeepsCallInv DEF ReturnToExecute, ReleaseGuard
<1>8. CASE ReturnToSession
  BY <1>8, ReturnKeepsCallInv DEF ReturnToSession, ReleaseGuard
<1>9. CASE Trap
  BY <1>9, TrapKeepsCallInv
<1>10. CASE CloseLedger \/ UNCHANGED vars
  <2>1. UNCHANGED <<owner, nonce, executing, completed, frames>>
    BY <1>10 DEF CloseLedger, vars, storage, history
  <2>. QED  BY <1>1, <2>1
<1>. QED
  BY <1>1, <1>2, <1>3, <1>4, <1>5, <1>6, <1>7, <1>8, <1>9, <1>10 DEF Next, CallStep

\* The invariant about calls holds in every reachable state.
THEOREM CallInvariance == Spec => []CallInv
<1>1. Init => CallInv
  BY BoundAssumption DEF Init, CallInv, GuardTracksCalls, NoncesInOrder, RollbackExact, Capped
<1>2. TypeOK /\ CallInv /\ [Next]_vars => CallInv'
  BY CallInvStep
<1>. QED
  BY <1>1, <1>2, TypeCorrect, PTL DEF Spec

\* The reentrancy flag is up exactly while a call is in flight, and at most
\* one ever is.
THEOREM GuardHolds == Spec => []GuardTracksCalls
<1>1. CallInv => GuardTracksCalls
  BY DEF CallInv
<1>. QED
  BY <1>1, CallInvariance, PTL

\* Calls complete in nonce order, each nonce once until it saturates.
THEOREM NonceOrderHolds == Spec => []NoncesInOrder
<1>1. CallInv => NoncesInOrder
  BY DEF CallInv
<1>. QED
  BY <1>1, CallInvariance, PTL

(* -------------------------- Limits and the index ----------------------- *)

\* The meters of the rollback images respect their limits too.
MeterFrame(f) ==
  /\ f.asset \in Asset => f.limit.spent <= f.limit.amount
  /\ LimitsRespected(f.saved.limits)

MeterInv ==
  /\ LimitsRespected(limits)
  /\ \A i \in 1..Len(frames) : MeterFrame(frames[i])

\* The index of a rollback image agrees with the records of that image.
IndexFrame(f) == IndexListsActive(f.saved.index, f.saved.sessions)

IndexInv ==
  /\ IndexListsActive(index, sessions)
  /\ \A i \in 1..Len(frames) : IndexFrame(frames[i])

\* What holds of every call in flight still does when one more that has it
\* starts, and when the innermost one ends.
LEMMA PushedFrames ==
  ASSUME TypeOK, NEW f \in Frame, frames' = Append(frames, f), NEW i \in 1..Len(frames')
  PROVE  frames'[i] = f \/ (i \in 1..Len(frames) /\ frames'[i] = frames[i])
<1> DEFINE n == Len(frames)
<1>1. /\ n \in Nat /\ Len(frames') = n + 1
      /\ \A j \in 1..n : frames'[j] = frames[j]
      /\ frames'[n + 1] = f
  BY AppendProperties, LenProperties DEF TypeOK
<1> HIDE DEF n
<1>2. i \in 1..n \/ i = n + 1
  BY <1>1
<1>. QED
  BY <1>1, <1>2 DEF n

\* See PushedFrames.
LEMMA PoppedFrames ==
  ASSUME TypeOK, frames # <<>>, frames' = Front(frames)
  PROVE  /\ \A i \in 1..Len(frames') : i \in 1..Len(frames) /\ frames'[i] = frames[i]
         /\ Len(frames) \in 1..Len(frames)
<1> DEFINE n == Len(frames)
<1>1. n \in Nat \ {0} /\ Len(frames') = n - 1 /\ \A i \in 1..(n - 1) : frames'[i] = frames[i]
  BY FrontLastProperties DEF TypeOK
<1> HIDE DEF n
<1>2. n \in 1..n /\ \A i \in 1..(n - 1) : i \in 1..n
  BY <1>1
<1>. QED
  BY <1>1, <1>2 DEF n

\* How a step moves the stack: it leaves it, starts a call from the storage of
\* now, or ends the innermost one.
LEMMA StackSteps ==
  ASSUME TypeOK, [Next]_vars
  PROVE  \/ frames' = frames
         \/ \E f \in Frame :
              /\ frames' = Append(frames, f)
              /\ f.saved = Snapshot
              /\ f.asset \in Asset => f.limit.spent <= f.limit.amount
              /\ UNCHANGED <<limits, sessions, index, delegates>>
         \/ ReturnToExecute \/ ReturnToSession \/ Trap
<1>1. ASSUME NEW a \in Asset, NEW s \in Spends, NEW n \in 0..NonceMax, Execute(a, s, n)
      PROVE  \E f \in Frame :
               /\ frames' = Append(frames, f)
               /\ f.saved = Snapshot
               /\ f.asset \in Asset => f.limit.spent <= f.limit.amount
               /\ UNCHANGED <<limits, sessions, index, delegates>>
  <2> DEFINE f == [by |-> owner, nonce |-> n, asset |-> a, spend |-> s,
                   limit |-> SpendUpdate(a, s), saved |-> Snapshot]
  <2>1. owner # Absent /\ SpendAllowed(a, s) /\ frames' = Append(frames, f)
    BY <1>1 DEF Execute, RequireOwner
  <2>2. f \in Frame
    BY <2>1, ExecuteFrame
  <2>3. f.saved = Snapshot /\ f.limit.spent <= f.limit.amount
    BY <2>1, SpendUpdateType
  <2>4. UNCHANGED <<limits, sessions, index, delegates>>
    BY <1>1 DEF Execute
  <2> HIDE DEF f
  <2>. QED  BY <2>1, <2>2, <2>3, <2>4
<1>2. ASSUME NEW k \in SessionKey, NEW m \in Method, NEW n \in 0..NonceMax,
             ExecuteWithSession(k, m, n)
      PROVE  \E f \in Frame :
               /\ frames' = Append(frames, f)
               /\ f.saved = Snapshot
               /\ f.asset \in Asset => f.limit.spent <= f.limit.amount
               /\ UNCHANGED <<limits, sessions, index, delegates>>
  <2> DEFINE f == [by |-> k, nonce |-> n, asset |-> Absent, spend |-> 0,
                   limit |-> Absent, saved |-> Snapshot]
  <2>1. frames' = Append(frames, f) /\ UNCHANGED <<limits, sessions, index, delegates>>
    BY <1>2 DEF ExecuteWithSession
  <2>2. f \in Frame /\ f.saved = Snapshot /\ f.asset \notin Asset
    BY SessionFrame, AbsentAssumption
  <2> HIDE DEF f
  <2>. QED  BY <2>1, <2>2
<1>3. ASSUME OwnerStep
      PROVE  frames' = frames
  BY <1>3 DEF OwnerStep, Pause, Unpause, SetPaused, SetDelegate, RemoveDelegate, SetSpendLimit,
              RegisterSessionKey, RevokeSessionKey, SetMetadata
<1>4. ASSUME \/ \E o \in Owner : Initialize(o)
             \/ \E a \in Asset, s \in Spends : DebitSpend(a, s)
             \/ CloseLedger
             \/ UNCHANGED vars
      PROVE  frames' = frames
  BY <1>4 DEF Initialize, DebitSpend, CloseLedger, vars
<1>. QED
  BY <1>1, <1>2, <1>3, <1>4, Zenon DEF Next, CallStep

\* Limits are written by set_spend_limit, debit_spend, the end of execute and
\* a rollback only.
LEMMA LimitSteps ==
  ASSUME [Next]_vars
  PROVE  \/ limits' = limits
         \/ \E a \in Asset, amount \in Amounts, p \in Periods : SetSpendLimit(a, amount, p)
         \/ \E a \in Asset, s \in Spends : DebitSpend(a, s)
         \/ ReturnToExecute
         \/ Trap
BY DEF Next, OwnerStep, CallStep, Initialize, Pause, Unpause, SetPaused, SetDelegate, RemoveDelegate,
       RegisterSessionKey, RevokeSessionKey, SetMetadata, Execute, ExecuteWithSession,
       ReturnToSession, CloseLedger, vars, storage

\* Every step keeps the meters and their rollback images within the limits.
LEMMA MeterInvStep ==
  ASSUME TypeOK, MeterInv, [Next]_vars
  PROVE  MeterInv'
<1>1. ASSUME NEW a \in Asset, NEW l \in SpendLimit, l.spent <= l.amount,
             limits' = [limits EXCEPT ![a] = l]
      PROVE  LimitsRespected(limits')
  BY <1>1 DEF MeterInv, LimitsRespected, TypeOK, LimitMap
<1>2. ASSUME frames # <<>>
      PROVE  MeterFrame(Last(frames))
  <2>1. Len(frames) \in 1..Len(frames)
    <3>1. Len(frames) \in Nat \ {0}
      BY <1>2, FrontLastProperties DEF TypeOK
    <3> DEFINE n == Len(frames)
    <3> HIDE DEF n
    <3>2. n \in Nat \ {0}
      BY <3>1 DEF n
    <3>. QED  BY <3>2 DEF n
  <2>. QED  BY <2>1 DEF MeterInv, Last
<1>3. LimitsRespected(limits')
  <2>1. ASSUME NEW a \in Asset, NEW amount \in Amounts, NEW p \in Periods,
               SetSpendLimit(a, amount, p)
        PROVE  LimitsRespected(limits')
    <3> DEFINE l == [amount |-> amount, period_ledgers |-> p, spent |-> 0,
                     reset_ledger |-> SaturatingAdd(sequence, p)]
    <3>1. limits' = [limits EXCEPT ![a] = l] /\ amount > 0
      BY <2>1 DEF SetSpendLimit
    <3>2. limits \in [Asset -> SpendLimit \cup {Absent}] /\ amount \in Int
      BY InputAssumption DEF TypeOK, LimitMap
    <3>3. l.spent <= l.amount
      BY <3>1, <3>2
    <3> HIDE DEF l
    <3>. QED  BY <3>1, <3>2, <3>3 DEF MeterInv, LimitsRespected
  <2>2. ASSUME NEW a \in Asset, NEW s \in Spends, DebitSpend(a, s)
        PROVE  LimitsRespected(limits')
    BY <1>1, <2>2, SpendUpdateType DEF DebitSpend
  <2>3. CASE ReturnToExecute
    <3>1. frames # <<>> /\ Last(frames).asset \in Asset
      BY <2>3 DEF ReturnToExecute
    <3>2. Last(frames).limit \in SpendLimit /\ Last(frames).limit.spent <= Last(frames).limit.amount
      BY <1>2, <3>1, TopFrame DEF MeterFrame
    <3>3. limits' = [limits EXCEPT ![Last(frames).asset] = Last(frames).limit]
      BY <2>3 DEF ReturnToExecute
    <3>. QED  BY <1>1, <3>1, <3>2, <3>3
  <2>4. CASE Trap
    BY <1>2, <2>4 DEF Trap, MeterFrame
  <2>5. CASE limits' = limits
    BY <2>5 DEF MeterInv
  <2>. QED  BY <2>1, <2>2, <2>3, <2>4, <2>5, LimitSteps
<1>4. \A i \in 1..Len(frames') : MeterFrame(frames'[i])
  <2>1. CASE frames' = frames
    BY <2>1 DEF MeterInv
  <2>2. ASSUME NEW f \in Frame, frames' = Append(frames, f), f.saved = Snapshot,
               f.asset \in Asset => f.limit.spent <= f.limit.amount
        PROVE  \A i \in 1..Len(frames') : MeterFrame(frames'[i])
    <3>1. MeterFrame(f)
      BY <2>2 DEF MeterFrame, MeterInv, Snapshot
    <3>. QED  BY <2>2, <3>1, PushedFrames DEF MeterInv
  <2>3. CASE ReturnToExecute \/ ReturnToSession \/ Trap
    <3>1. frames # <<>> /\ frames' = Front(frames)
      BY <2>3 DEF ReturnToExecute, ReturnToSession, Trap
    <3>. QED  BY <3>1, PoppedFrames DEF MeterInv
  <2>. QED  BY <2>1, <2>2, <2>3, StackSteps
<1>. QED
  <2>1. LimitsRespected(limits)'
    BY <1>3 DEF LimitsRespected
  <2>2. (\A i \in 1..Len(frames) : MeterFrame(frames[i]))'
    BY <1>4 DEF MeterFrame, LimitsRespected
  <2>. QED  BY <2>1, <2>2 DEF MeterInv

\* No meter ever shows more than its limit, whatever panics, is rolled back or
\* is written back over a newer limit.
THEOREM SpentHolds == Spec => []SpentWithinLimit
<1>1. Init => MeterInv
  BY DEF Init, MeterInv, LimitsRespected
<1>2. TypeOK /\ MeterInv /\ [Next]_vars => MeterInv'
  BY MeterInvStep
<1>3. MeterInv => SpentWithinLimit
  BY DEF MeterInv, MeterFrame, SpentWithinLimit
<1>. QED
  BY <1>1, <1>2, <1>3, TypeCorrect, PTL DEF Spec

(* ------------------------- Charges over any window --------------------- *)

\* The meter of a limit accounts for what was charged since its period began,
\* and for the period before it.
LimitMetered(h, l) ==
  Metered(h, MaxLedger, sequence, l.amount, l.period_ledgers, l.spent, l.reset_ledger)

LimitsMetered(ls, histories) ==
  \A a \in Asset : ls[a] # Absent => LimitMetered(histories[a], ls[a])

\* So do the limits a call in flight would be rolled back to, and the one it is
\* about to write once its own charge is logged, also after the owner has set
\* the limit anew from inside the call.
CallMetered(f) ==
  /\ LimitsMetered(f.saved.limits, f.saved.debited)
  /\ f.asset \in Asset =>
       /\ f.spend <= f.limit.spent
       /\ sequence < f.limit.reset_ledger
       /\ LimitMetered(WithCharge(debited[f.asset], sequence, f.spend), f.limit)

WindowInv ==
  /\ LimitsMetered(limits, debited)
  /\ \A i \in 1..Len(frames) : CallMetered(frames[i])

\* A limit without charges, or with charges that are still to come.
LEMMA UnchargedLimit ==
  ASSUME sequence \in 0..MaxLedger, NEW l \in SpendLimit, l.spent <= l.amount,
         sequence + l.period_ledgers <= l.reset_ledger \/ MaxLedger < l.reset_ledger
  PROVE  LimitMetered(NoCharges(MaxLedger), l)
<1>1. /\ l.amount \in Nat /\ l.period_ledgers \in Nat /\ l.spent \in Nat /\ l.reset_ledger \in Nat
      /\ MaxLedger \in Nat
  BY BoundAssumption DEF SpendLimit
<1>. QED
  BY <1>1, UnchargedMetered DEF LimitMetered

\* A limit that was written before its history was cleared, s of it after.
LEMMA RechargedLimit ==
  ASSUME sequence \in 0..MaxLedger, NEW l \in SpendLimit, l.spent <= l.amount,
         NEW s \in Nat, s <= l.spent, sequence < l.reset_ledger,
         NEW h \in Histories(MaxLedger), LimitMetered(h, l)
  PROVE  LimitMetered(WithCharge(NoCharges(MaxLedger), sequence, s), l)
<1>1. /\ l.amount \in Nat /\ l.period_ledgers \in Nat /\ l.spent \in Nat /\ l.reset_ledger \in Nat
      /\ MaxLedger \in Nat /\ sequence \in Nat
  BY BoundAssumption DEF SpendLimit
<1>2. PICK start \in 0..MaxLedger :
        start <= sequence
          /\ (start + l.period_ledgers <= l.reset_ledger \/ MaxLedger < l.reset_ledger)
  BY DEF LimitMetered, Metered
<1> DEFINE before == l.spent - s
<1>3. before \in Nat /\ before <= l.amount /\ before + s = l.spent
  BY <1>1
<1> HIDE DEF before
<1>4. Metered(NoCharges(MaxLedger), MaxLedger, start, l.amount, l.period_ledgers, before,
              l.reset_ledger)
  BY <1>1, <1>2, <1>3, UnchargedMetered
<1>5. Metered(NoCharges(MaxLedger), MaxLedger, sequence, l.amount, l.period_ledgers, before,
              l.reset_ledger)
  BY <1>1, <1>2, <1>4, LaterMetered
<1>6. Metered(WithCharge(NoCharges(MaxLedger), sequence, s), MaxLedger, sequence, l.amount,
              l.period_ledgers, before + s, l.reset_ledger)
  BY <1>1, <1>3, <1>5, NoChargesType, ChargeMetered
<1>. QED
  BY <1>3, <1>6 DEF LimitMetered

\* What compute_spend_update returns is metered once the spend is logged, and
\* its period is not over.
LEMMA UpdateMetered ==
  ASSUME TypeOK, LimitsMetered(limits, debited), NEW a \in Asset, NEW s \in Spends,
         SpendAllowed(a, s)
  PROVE  /\ s <= SpendUpdate(a, s).spent
         /\ sequence < SpendUpdate(a, s).reset_ledger
         /\ LimitMetered(WithCharge(debited[a], sequence, s), SpendUpdate(a, s))
<1>1. /\ limits[a] \in SpendLimit /\ limits[a] # Absent /\ sequence \in 0..MaxLedger
      /\ debited[a] \in Histories(MaxLedger) /\ s \in Nat
  BY InputAssumption DEF TypeOK, LimitMap, DebitMap, SpendAllowed
<1>2. PICK l : l = limits[a]
  OBVIOUS
<1>3. /\ l \in SpendLimit
      /\ l.amount \in Nat /\ l.period_ledgers \in 1..U32Max /\ l.period_ledgers \in Nat
      /\ l.spent \in Nat /\ l.reset_ledger \in Nat
      /\ MaxLedger \in Nat /\ sequence \in Nat
  BY <1>1, <1>2, BoundAssumption DEF SpendLimit
<1>4. Metered(debited[a], MaxLedger, sequence, l.amount, l.period_ledgers, l.spent, l.reset_ledger)
  BY <1>1, <1>2 DEF LimitsMetered, LimitMetered
<1>5. PICK o : o = RolledOver(l)
  OBVIOUS
<1>6. o.spent + s <= l.amount
  BY <1>2, <1>5 DEF SpendAllowed
<1>7. /\ o \in SpendLimit /\ o.amount = l.amount /\ o.period_ledgers = l.period_ledgers
      /\ o.spent \in Nat /\ o.reset_ledger \in Nat /\ sequence < o.reset_ledger
      /\ Metered(debited[a], MaxLedger, sequence, l.amount, l.period_ledgers, o.spent, o.reset_ledger)
  <2>1. CASE sequence < l.reset_ledger
    BY <1>3, <1>4, <1>5, <2>1 DEF RolledOver
  <2>2. CASE l.reset_ledger <= sequence
    <3> DEFINE d == SaturatingAdd(sequence, l.period_ledgers)
    <3>1. /\ d \in 0..U32Max /\ d > sequence
          /\ sequence + l.period_ledgers <= d \/ MaxLedger < d
      BY <1>1, <1>3, BoundAssumption DEF SaturatingAdd
    <3>2. o = [l EXCEPT !.spent = 0, !.reset_ledger = d]
      BY <1>3, <1>5, <2>2 DEF RolledOver
    <3> HIDE DEF d
    <3>3. /\ o \in SpendLimit /\ o.amount = l.amount /\ o.period_ledgers = l.period_ledgers
          /\ o.spent = 0 /\ o.reset_ledger = d
      BY <1>3, <3>1, <3>2 DEF SpendLimit
    <3>4. d \in Nat /\ sequence <= d
      BY <1>3, <3>1, BoundAssumption
    <3>5. Metered(debited[a], MaxLedger, sequence, l.amount, l.period_ledgers, 0, d)
      BY <1>1, <1>3, <1>4, <2>2, <3>1, <3>4, RolledOverMetered
    <3>. QED  BY <3>1, <3>3, <3>4, <3>5
  <2>. QED  BY <1>3, <2>1, <2>2
<1>8. Metered(WithCharge(debited[a], sequence, s), MaxLedger, sequence, l.amount,
              l.period_ledgers, o.spent + s, o.reset_ledger)
  BY <1>1, <1>3, <1>6, <1>7, ChargeMetered
<1>9. PICK u : u = SpendUpdate(a, s)
  OBVIOUS
<1>10. /\ u.amount = l.amount /\ u.period_ledgers = l.period_ledgers
       /\ u.reset_ledger = o.reset_ledger /\ u.spent = o.spent + s
  BY <1>2, <1>5, <1>7, <1>9 DEF SpendUpdate, SpendLimit
<1>. QED
  BY <1>1, <1>7, <1>8, <1>9, <1>10 DEF LimitMetered

\* A limit and its history are replaced together.
LEMMA StoreKeepsMetered ==
  ASSUME limits \in LimitMap, debited \in DebitMap, LimitsMetered(limits, debited),
         NEW a \in Asset, NEW l, NEW h, sequence' = sequence,
         limits' = [limits EXCEPT ![a] = l], debited' = [debited EXCEPT ![a] = h],
         LimitMetered(h, l)
  PROVE  LimitsMetered(limits, debited)'
<1>1. \A b \in Asset : /\ limits'[b] = IF b = a THEN l ELSE limits[b]
                       /\ debited'[b] = IF b = a THEN h ELSE debited[b]
  BY DEF LimitMap, DebitMap
<1>2. \A b \in Asset : limits'[b] # Absent => LimitMetered(debited'[b], limits'[b])
  BY <1>1, Zenon DEF LimitsMetered
<1>. QED
  BY <1>2 DEF LimitsMetered, LimitMetered

\* What a step that logs or clears charges does, and what every other step
\* leaves alone.
LEMMA DebitSteps ==
  ASSUME [Next]_vars
  PROVE  \/ UNCHANGED <<limits, debited>>
         \/ \E a \in Asset, amount \in Amounts, p \in Periods : SetSpendLimit(a, amount, p)
         \/ \E a \in Asset, s \in Spends : DebitSpend(a, s)
         \/ ReturnToExecute
         \/ Trap
BY DEF Next, OwnerStep, CallStep, Initialize, Pause, Unpause, SetPaused, SetDelegate, RemoveDelegate,
       RegisterSessionKey, RevokeSessionKey, SetMetadata, Execute, ExecuteWithSession,
       ReturnToSession, CloseLedger, vars, storage, history

\* The innermost call is metered.
LEMMA TopMetered ==
  ASSUME TypeOK, WindowInv, frames # <<>>
  PROVE  CallMetered(Last(frames))
<1> DEFINE n == Len(frames)
<1>1. n \in Nat \ {0} /\ Last(frames) = frames[n]
  BY FrontLastProperties DEF TypeOK, Last
<1>2. n \in 1..n
  <2> HIDE DEF n
  <2>. QED  BY <1>1
<1>. QED
  BY <1>1, <1>2 DEF WindowInv

\* Every step keeps the stored limits metered.
LEMMA LimitsMeteredStep ==
  ASSUME TypeOK, CallInv, WindowInv, [Next]_vars
  PROVE  LimitsMetered(limits, debited)'
<1>1. /\ limits \in LimitMap /\ debited \in DebitMap /\ sequence \in 0..MaxLedger
      /\ sequence \in Nat /\ LimitsMetered(limits, debited)
  BY BoundAssumption DEF TypeOK, WindowInv
<1>2. ASSUME NEW a \in Asset, NEW amount \in Amounts, NEW p \in Periods,
             SetSpendLimit(a, amount, p)
      PROVE  LimitsMetered(limits, debited)'
  <2> DEFINE l == [amount |-> amount, period_ledgers |-> p, spent |-> 0,
                   reset_ledger |-> SaturatingAdd(sequence, p)]
  <2>1. amount \in Nat /\ amount > 0 /\ p \in 1..U32Max /\ sequence' = sequence
    <3>1. amount \in Int /\ p \in 0..U32Max /\ amount > 0 /\ p # 0 /\ sequence' = sequence
      BY <1>2, InputAssumption DEF SetSpendLimit
    <3>. QED  BY <3>1, BoundAssumption
  <2>2. /\ SaturatingAdd(sequence, p) \in 0..U32Max
        /\ sequence + p <= SaturatingAdd(sequence, p) \/ MaxLedger < SaturatingAdd(sequence, p)
    BY <1>1, <2>1, BoundAssumption DEF SaturatingAdd
  <2>3. /\ l \in SpendLimit /\ l.spent <= l.amount
        /\ sequence + l.period_ledgers <= l.reset_ledger \/ MaxLedger < l.reset_ledger
    BY <2>1, <2>2 DEF SpendLimit
  <2>4. /\ limits' = [limits EXCEPT ![a] = l]
        /\ debited' = [debited EXCEPT ![a] = NoCharges(MaxLedger)]
    BY <1>2 DEF SetSpendLimit
  <2> HIDE DEF l
  <2>. QED  BY <1>1, <2>1, <2>3, <2>4, UnchargedLimit, StoreKeepsMetered
<1>3. ASSUME NEW a \in Asset, NEW s \in Spends, DebitSpend(a, s)
      PROVE  LimitsMetered(limits, debited)'
  <2>1. LimitMetered(WithCharge(debited[a], sequence, s), SpendUpdate(a, s))
    BY <1>1, <1>3, UpdateMetered DEF DebitSpend
  <2>2. /\ limits' = [limits EXCEPT ![a] = SpendUpdate(a, s)] /\ sequence' = sequence
        /\ debited' = [debited EXCEPT ![a] = WithCharge(debited[a], sequence, s)]
    BY <1>3 DEF DebitSpend
  <2>. QED  BY <1>1, <2>1, <2>2, StoreKeepsMetered
<1>4. CASE ReturnToExecute
  <2> DEFINE f == Last(frames)
  <2>1. /\ frames # <<>> /\ f.asset \in Asset /\ sequence' = sequence
        /\ limits' = [limits EXCEPT ![f.asset] = f.limit]
        /\ debited' = [debited EXCEPT ![f.asset] =
                         WithCharge(debited[f.asset], sequence, f.spend)]
    BY <1>4 DEF ReturnToExecute
  <2>2. LimitMetered(WithCharge(debited[f.asset], sequence, f.spend), f.limit)
    BY <2>1, TopMetered DEF CallMetered
  <2> HIDE DEF f
  <2>. QED  BY <1>1, <2>1, <2>2, StoreKeepsMetered
<1>5. CASE Trap
  <2>1. /\ frames # <<>> /\ sequence' = sequence
        /\ limits' = Last(frames).saved.limits /\ debited' = Last(frames).saved.debited
    BY <1>5 DEF Trap
  <2>2. LimitsMetered(Last(frames).saved.limits, Last(frames).saved.debited)
    BY <2>1, TopMetered DEF CallMetered
  <2>. QED  BY <2>1, <2>2 DEF LimitsMetered, LimitMetered
<1>6. CASE UNCHANGED <<limits, debited>>
  <2>1. sequence' \in Nat /\ sequence <= sequence'
    <3>1. sequence' = sequence \/ sequence' = sequence + 1
      BY DEF Next, OwnerStep, CallStep, Initialize, Pause, Unpause, SetPaused, SetDelegate,
         RemoveDelegate, SetSpendLimit, DebitSpend, RegisterSessionKey, RevokeSessionKey,
         SetMetadata, Execute, ExecuteWithSession, ReturnToExecute, ReturnToSession, Trap,
         CloseLedger, vars
    <3>. QED  BY <1>1, <3>1
  <2>2. MaxLedger \in Nat
    BY BoundAssumption
  <2>3. ASSUME NEW a \in Asset, limits[a] # Absent
        PROVE  Metered(debited[a], MaxLedger, sequence', limits[a].amount,
                       limits[a].period_ledgers, limits[a].spent, limits[a].reset_ledger)
    BY <1>1, <2>1, <2>2, <2>3, LaterMetered DEF LimitsMetered, LimitMetered
  <2>. QED  BY <1>6, <2>3 DEF LimitsMetered, LimitMetered
<1>. QED
  BY <1>2, <1>3, <1>4, <1>5, <1>6, DebitSteps

\* Every step keeps the calls in flight metered: while one is, no ledger
\* closes, and the owner may set a limit anew but nothing is charged.
LEMMA CallMeteredStep ==
  ASSUME TypeOK, CallInv, WindowInv, [Next]_vars
  PROVE  (\A i \in 1..Len(frames) : CallMetered(frames[i]))'
<1>1. debited \in DebitMap /\ sequence \in 0..MaxLedger /\ LimitsMetered(limits, debited)
  BY DEF TypeOK, WindowInv
<1>2. CASE frames' = <<>>
  BY <1>2
<1>3. ASSUME frames # <<>>, frames' = frames
      PROVE  (\A i \in 1..Len(frames) : CallMetered(frames[i]))'
  <2>1. /\ executing /\ Len(frames) = 1 /\ Last(frames) = frames[1]
    BY <1>3, OneCall DEF CallInv, GuardTracksCalls
  <2> DEFINE f == frames[1]
  <2>2. /\ CallMetered(f) /\ f.spend \in Nat /\ (f.asset \in Asset => f.limit \in SpendLimit)
    BY <1>3, <2>1, TopMetered, TopFrame
  <2>3. sequence' = sequence
    BY <1>3 DEF Next, OwnerStep, CallStep, Initialize, Pause, Unpause, SetPaused, SetDelegate,
       RemoveDelegate, SetSpendLimit, DebitSpend, RegisterSessionKey, RevokeSessionKey,
       SetMetadata, Execute, ExecuteWithSession, ReturnToExecute, ReturnToSession, Trap,
       CloseLedger, vars
  <2>4. ASSUME f.asset \in Asset
        PROVE  \/ debited'[f.asset] = debited[f.asset]
               \/ debited'[f.asset] = NoCharges(MaxLedger)
    <3>1. ASSUME NEW a \in Asset, NEW amount \in Amounts, NEW p \in Periods,
                 SetSpendLimit(a, amount, p)
          PROVE  \/ debited'[f.asset] = debited[f.asset]
                 \/ debited'[f.asset] = NoCharges(MaxLedger)
      BY <1>1, <2>4, <3>1 DEF SetSpendLimit, DebitMap
    <3>2. ~\E a \in Asset, s \in Spends : DebitSpend(a, s)
      BY <2>1 DEF DebitSpend, GuardFree
    <3>3. ~ReturnToExecute /\ ~Trap
      <4>1. frames' # Front(frames)
        <5>1. Front(frames) = <<>>
          BY <1>3, OneCall
        <5>. QED  BY <1>3, <5>1
      <4>. QED  BY <4>1 DEF ReturnToExecute, Trap
    <3>. QED  BY <3>1, <3>2, <3>3, DebitSteps
  <2>5. LimitsMetered(f.saved.limits, f.saved.debited)'
    BY <1>3, <2>2, <2>3 DEF CallMetered, LimitsMetered, LimitMetered
  <2>6. ASSUME f.asset \in Asset
        PROVE  LimitMetered(WithCharge(debited'[f.asset], sequence, f.spend), f.limit)
    <3>1. /\ LimitMetered(WithCharge(debited[f.asset], sequence, f.spend), f.limit)
          /\ f.spend <= f.limit.spent /\ sequence < f.limit.reset_ledger
      BY <2>2, <2>6 DEF CallMetered
    <3>2. CASE debited'[f.asset] = debited[f.asset]
      BY <3>1, <3>2
    <3>3. CASE debited'[f.asset] = NoCharges(MaxLedger)
      <4> DEFINE h == WithCharge(debited[f.asset], sequence, f.spend)
                 l == f.limit
                 s == f.spend
      <4>1. /\ h \in Histories(MaxLedger) /\ l \in SpendLimit /\ s \in Nat
            /\ LimitMetered(h, l) /\ s <= l.spent /\ sequence < l.reset_ledger
        <5>1. /\ debited[f.asset] \in Histories(MaxLedger) /\ sequence \in Nat /\ MaxLedger \in Nat
          BY <1>1, <2>6, BoundAssumption DEF DebitMap
        <5>2. h \in Histories(MaxLedger)
          BY <2>2, <5>1, WithChargeType
        <5>. QED  BY <2>2, <2>6, <3>1, <5>2
      <4>2. l.spent <= l.amount
        BY <4>1 DEF LimitMetered, Metered
      <4> HIDE DEF h, l, s
      <4>3. LimitMetered(WithCharge(NoCharges(MaxLedger), sequence, s), l)
        BY <1>1, <4>1, <4>2, RechargedLimit
      <4>. QED  BY <3>3, <4>3 DEF l, s
    <3>. QED  BY <2>4, <2>6, <3>2, <3>3
  <2>7. ASSUME f.asset \in Asset
        PROVE  f.spend <= f.limit.spent /\ sequence < f.limit.reset_ledger
    BY <2>2, <2>7 DEF CallMetered
  <2>8. CallMetered(f)'
    BY <1>3, <2>3, <2>5, <2>6, <2>7 DEF CallMetered, LimitMetered
  <2>9. \A i \in 1..Len(frames') : frames'[i] = f
    BY <1>3, <2>1
  <2>. QED  BY <1>3, <2>1, <2>8
<1>4. CASE frames = <<>> /\ frames' = frames
  BY <1>4
<1>5. ASSUME NEW a \in Asset, NEW s \in Spends, NEW n \in 0..NonceMax, Execute(a, s, n)
      PROVE  (\A i \in 1..Len(frames) : CallMetered(frames[i]))'
  <2>0. PICK f : f = [by |-> owner, nonce |-> n, asset |-> a, spend |-> s,
                      limit |-> SpendUpdate(a, s), saved |-> Snapshot]
    OBVIOUS
  <2>1. /\ frames' = Append(frames, f) /\ sequence' = sequence /\ debited' = debited
        /\ SpendAllowed(a, s) /\ frames = <<>>
    BY <1>5, <2>0 DEF Execute, AcquireGuard, GuardFree, history, CallInv, GuardTracksCalls
  <2>2. /\ f.asset = a /\ f.spend = s /\ f.limit = SpendUpdate(a, s)
        /\ f.saved.limits = limits /\ f.saved.debited = debited
    BY <2>0 DEF Snapshot
  <2>3. CallMetered(f)
    BY <1>1, <2>1, <2>2, UpdateMetered DEF CallMetered
  <2>4. CallMetered(f)'
    BY <2>1, <2>3 DEF CallMetered, LimitsMetered, LimitMetered
  <2>5. frames' = <<f>>
    BY <2>1
  <2>. QED  BY <2>4, <2>5
<1>6. ASSUME NEW k \in SessionKey, NEW m \in Method, NEW n \in 0..NonceMax,
             ExecuteWithSession(k, m, n)
      PROVE  (\A i \in 1..Len(frames) : CallMetered(frames[i]))'
  <2>0. PICK f : f = [by |-> k, nonce |-> n, asset |-> Absent, spend |-> 0,
                      limit |-> Absent, saved |-> Snapshot]
    OBVIOUS
  <2>1. /\ frames' = Append(frames, f) /\ sequence' = sequence /\ debited' = debited
        /\ frames = <<>>
    BY <1>6, <2>0 DEF ExecuteWithSession, AcquireGuard, GuardFree, history, CallInv, GuardTracksCalls
  <2>2. f.asset \notin Asset /\ f.saved.limits = limits /\ f.saved.debited = debited
    BY <2>0, AbsentAssumption DEF Snapshot
  <2>3. CallMetered(f)
    BY <1>1, <2>1, <2>2 DEF CallMetered
  <2>4. CallMetered(f)'
    BY <2>1, <2>3 DEF CallMetered, LimitsMetered, LimitMetered
  <2>5. frames' = <<f>>
    BY <2>1
  <2>. QED  BY <2>4, <2>5
<1>7. CASE ReturnToExecute \/ ReturnToSession \/ Trap
  <2>1. frames # <<>> /\ frames' = Front(frames)
    BY <1>7 DEF ReturnToExecute, ReturnToSession, Trap
  <2>. QED  BY <1>2, <2>1, OneCall
<1>8. ASSUME OwnerStep
      PROVE  frames' = frames
  BY <1>8 DEF OwnerStep, Pause, Unpause, SetPaused, SetDelegate, RemoveDelegate, SetSpendLimit,
              RegisterSessionKey, RevokeSessionKey, SetMetadata
<1>9. ASSUME \/ \E o \in Owner : Initialize(o)
             \/ \E a \in Asset, s \in Spends : DebitSpend(a, s)
             \/ CloseLedger
             \/ UNCHANGED vars
      PROVE  frames' = frames
  BY <1>9 DEF Initialize, DebitSpend, CloseLedger, vars
<1>. QED
  BY <1>3, <1>4, <1>5, <1>6, <1>7, <1>8, <1>9, Zenon DEF Next, CallStep

\* Over any period_ledgers consecutive ledgers no more than twice the limit is
\* charged, whatever panics, calls back or is rolled back.
THEOREM WindowBoundHolds == Spec => []WindowBound
<1>1. Init => WindowInv
  BY DEF Init, WindowInv, LimitsMetered
<1>2. ASSUME TypeOK, CallInv, WindowInv, [Next]_vars
      PROVE  WindowInv'
  BY <1>2, LimitsMeteredStep, CallMeteredStep DEF WindowInv
<1>3. WindowInv => WindowBound
  BY Zenon DEF WindowInv, WindowBound, LimitsMetered, LimitMetered, Metered
<1>. QED
  BY <1>1, <1>2, <1>3, TypeCorrect, CallInvariance, PTL DEF Spec

\* The index and the records are written by register_session_key,
\* revoke_session_key and a rollback only.
LEMMA SessionSteps ==
  ASSUME [Next]_vars
  PROVE  \/ index' = index /\ sessions' = sessions
         \/ \E k \in SessionKey, e \in Expiries, sc \in ScopeSets : RegisterSessionKey(k, e, sc)
         \/ \E k \in SessionKey : RevokeSessionKey(k)
         \/ Trap
BY DEF Next, OwnerStep, CallStep, Initialize, Pause, Unpause, SetPaused, SetDelegate, RemoveDelegate,
       SetSpendLimit, SetMetadata, DebitSpend, Execute, ExecuteWithSession, ReturnToExecute,
       ReturnToSession, CloseLedger, vars, storage

\* Registering lists a key only if it had no record, so it was not listed.
LEMMA RegisterKeepsIndex ==
  ASSUME TypeOK, IndexInv, NEW k \in SessionKey, NEW e \in Expiries, NEW sc \in ScopeSets,
         RegisterSessionKey(k, e, sc)
  PROVE  IndexListsActive(index', sessions')
<1> DEFINE r == [expires_at |-> e, scopes |-> sc, revoked |-> FALSE]
<1>1. r # Absent /\ ~r.revoked
  <2>1. r \in SessionKeyRecord
    BY InputAssumption DEF SessionKeyRecord
  <2>. QED  BY <2>1, RecordAssumption
<1>2. sessions' = [sessions EXCEPT ![k] = r] /\ sessions \in [SessionKey -> SessionKeyRecord \cup {Absent}]
  BY DEF RegisterSessionKey, TypeOK, SessionMap
<1> HIDE DEF r
<1>3. \A j \in SessionKey : sessions'[j] = IF j = k THEN r ELSE sessions[j]
  BY <1>2
<1>4. /\ IsInjective(index) /\ Len(index) <= MaxSessionKeys
      /\ \A j \in ToSet(index) : sessions[j] # Absent /\ ~sessions[j].revoked
  BY DEF IndexInv, IndexListsActive
<1>5. /\ index \in Seq(SessionKey) /\ Len(index) \in Nat
      /\ DOMAIN index = 1..Len(index) /\ ToSet(index) \subseteq SessionKey
  BY LenProperties, ElementOfSeq DEF TypeOK, ToSet
<1>6. CASE index' = index
  BY <1>1, <1>3, <1>4, <1>5, <1>6 DEF IndexListsActive
<1>7. CASE sessions[k] = Absent /\ SessionKeyRoom /\ index' = Append(index, k)
  <2>1. ~Contains(index, k)
    BY <1>4, <1>5, <1>7 DEF Contains, ToSet
  <2>2. IsInjective(index')
    BY <1>4, <1>5, <1>7, <2>1, InjectiveAppend
  <2>3. Len(index') <= MaxSessionKeys
    <3>1. Len(index') = Len(index) + 1 /\ Len(index) < MaxSessionKeys
      BY <1>5, <1>7, AppendProperties DEF SessionKeyRoom
    <3>. QED  BY <1>5, <3>1, BoundAssumption
  <2>4. \A j \in ToSet(index') : j \in ToSet(index) \/ j = k
    BY <1>5, <1>7 DEF ToSet
  <2>5. \A j \in ToSet(index') : sessions'[j] # Absent /\ ~sessions'[j].revoked
    BY <1>1, <1>3, <1>4, <1>5, <2>4
  <2>. QED  BY <2>2, <2>3, <2>5 DEF IndexListsActive
<1>. QED
  BY <1>6, <1>7 DEF RegisterSessionKey

\* Revoking takes the key off the list, where it stands at most once.
LEMMA RevokeKeepsIndex ==
  ASSUME TypeOK, IndexInv, NEW k \in SessionKey, RevokeSessionKey(k)
  PROVE  IndexListsActive(index', sessions')
<1>1. \A j \in SessionKey \ {k} : sessions'[j] = sessions[j]
  BY DEF RevokeSessionKey, TypeOK, SessionMap
<1>2. /\ IsInjective(index) /\ Len(index) <= MaxSessionKeys
      /\ \A j \in ToSet(index) : sessions[j] # Absent /\ ~sessions[j].revoked
  BY DEF IndexInv, IndexListsActive
<1>3. /\ index \in Seq(SessionKey) /\ Len(index) \in Nat
      /\ DOMAIN index = 1..Len(index) /\ ToSet(index) \subseteq SessionKey
  BY LenProperties, ElementOfSeq DEF TypeOK, ToSet
<1>4. /\ index' \in Seq(SessionKey) /\ Len(index') <= Len(index)
      /\ \A j : Contains(index', j) => Contains(index, j)
      /\ \A j : OccursOnce(index, j) => OccursOnce(index', j)
      /\ OccursOnce(index, k) => ~Contains(index', k)
  BY <1>3, RemoveFirstProperties DEF RevokeSessionKey, Unlist
<1>5. \A j : OccursOnce(index, j)
  BY <1>2, <1>3, InjectiveOccursOnce
<1>6. IsInjective(index')
  BY <1>4, <1>5, InjectiveOccursOnce
<1>7. \A j \in ToSet(index') : j \in ToSet(index) /\ j # k
  <2>1. /\ \A j : j \in ToSet(index) <=> Contains(index, j)
        /\ \A j : j \in ToSet(index') <=> Contains(index', j)
    BY <1>3, <1>4, ToSetContains
  <2>. QED  BY <1>4, <1>5, <2>1
<1>8. Len(index') <= MaxSessionKeys
  <2>1. Len(index') \in Nat
    BY <1>4, LenProperties
  <2>. QED  BY <1>2, <1>3, <1>4, <2>1, BoundAssumption
<1>. QED
  BY <1>1, <1>2, <1>3, <1>6, <1>7, <1>8 DEF IndexListsActive

\* Every step keeps the index and the rollback images of it in order.
LEMMA IndexInvStep ==
  ASSUME TypeOK, IndexInv, [Next]_vars
  PROVE  IndexInv'
<1>1. IndexListsActive(index', sessions')
  <2>1. CASE index' = index /\ sessions' = sessions
    BY <2>1 DEF IndexInv
  <2>2. CASE Trap
    <3>1. frames # <<>> /\ frames' = Front(frames)
      BY <2>2 DEF Trap
    <3>2. IndexFrame(Last(frames))
      BY <3>1, PoppedFrames DEF IndexInv, Last
    <3>. QED  BY <2>2, <3>2 DEF Trap, IndexFrame
  <2>. QED  BY <2>1, <2>2, RegisterKeepsIndex, RevokeKeepsIndex, SessionSteps
<1>2. \A i \in 1..Len(frames') : IndexFrame(frames'[i])
  <2>1. CASE frames' = frames
    BY <2>1 DEF IndexInv
  <2>2. ASSUME NEW f \in Frame, frames' = Append(frames, f), f.saved = Snapshot
        PROVE  \A i \in 1..Len(frames') : IndexFrame(frames'[i])
    <3>1. IndexFrame(f)
      BY <2>2 DEF IndexFrame, IndexInv, Snapshot
    <3>. QED  BY <2>2, <3>1, PushedFrames DEF IndexInv
  <2>3. CASE ReturnToExecute \/ ReturnToSession \/ Trap
    <3>1. frames # <<>> /\ frames' = Front(frames)
      BY <2>3 DEF ReturnToExecute, ReturnToSession, Trap
    <3>. QED  BY <3>1, PoppedFrames DEF IndexInv
  <2>. QED  BY <2>1, <2>2, <2>3, StackSteps
<1>. QED
  <2>1. IndexListsActive(index, sessions)'
    BY <1>1 DEF IndexListsActive
  <2>2. (\A i \in 1..Len(frames) : IndexFrame(frames[i]))'
    BY <1>2 DEF IndexFrame, IndexListsActive
  <2>. QED  BY <2>1, <2>2 DEF IndexInv

\* The index never lists a key twice or a key that is revoked, and never grows
\* past the cap.
THEOREM IndexHolds == Spec => []IndexSound
<1>1. Init => IndexInv
  <2> SUFFICES ASSUME Init
               PROVE  IndexInv
    OBVIOUS
  <2>1. index = <<>> /\ Len(index) = 0 /\ DOMAIN index = {} /\ frames = <<>>
    BY DEF Init
  <2>2. ToSet(index) = {}
    BY <2>1 DEF ToSet
  <2>. QED
    BY <2>1, <2>2, BoundAssumption DEF IndexInv, IndexListsActive, IsInjective
<1>2. TypeOK /\ IndexInv /\ [Next]_vars => IndexInv'
  BY IndexInvStep
<1>3. IndexInv => IndexSound
  BY DEF IndexInv, IndexSound
<1>. QED
  BY <1>1, <1>2, <1>3, TypeCorrect, PTL DEF Spec

\* The other direction, which the records of revoked keys can break: an active
\* key is listed.
ActiveAreListed(idx, keys) ==
  \A k \in SessionKey : keys[k] # Absent /\ ~keys[k].revoked => Contains(idx, k)

ListedFrame(f) == ActiveAreListed(f.saved.index, f.saved.sessions)

ListedInv ==
  /\ ActiveAreListed(index, sessions)
  /\ \A i \in 1..Len(frames) : ListedFrame(frames[i])

\* No key that was revoked is registered again.
RevocationIsFinal ==
  [][\A k \in SessionKey, e \in Expiries, sc \in ScopeSets :
       RegisterSessionKey(k, e, sc) => sessions[k] = Absent \/ ~sessions[k].revoked]_vars

\* Registering a key that was never revoked lists it, or finds it listed.
LEMMA RegisterKeepsListed ==
  ASSUME TypeOK, ActiveAreListed(index, sessions),
         NEW k \in SessionKey, NEW e \in Expiries, NEW sc \in ScopeSets,
         RegisterSessionKey(k, e, sc), sessions[k] = Absent \/ ~sessions[k].revoked
  PROVE  ActiveAreListed(index', sessions')
<1>1. index \in Seq(SessionKey) /\ \A j \in SessionKey \ {k} : sessions'[j] = sessions[j]
  BY DEF RegisterSessionKey, TypeOK, SessionMap
<1>2. CASE sessions[k] = Absent /\ index' = Append(index, k)
  <2>1. \A x : Contains(index', x) <=> Contains(index, x) \/ x = k
    BY <1>1, <1>2, AppendContains
  <2>. QED  BY <1>1, <2>1 DEF ActiveAreListed
<1>3. CASE sessions[k] # Absent /\ index' = index
  BY <1>1, <1>3 DEF ActiveAreListed
<1>. QED
  BY <1>2, <1>3 DEF RegisterSessionKey

\* Revoking a key unlists it alone.
LEMMA RevokeKeepsListed ==
  ASSUME TypeOK, ActiveAreListed(index, sessions), NEW k \in SessionKey, RevokeSessionKey(k)
  PROVE  ActiveAreListed(index', sessions')
<1>1. /\ \A j \in SessionKey \ {k} : sessions'[j] = sessions[j]
      /\ sessions'[k].revoked
      /\ index \in Seq(SessionKey) /\ index' = RemoveFirst(index, k)
  <2>1. sessions \in SessionMap /\ sessions[k] \in SessionKeyRecord
    BY DEF RevokeSessionKey, TypeOK, SessionMap
  <2>. QED
    BY <2>1 DEF RevokeSessionKey, Unlist, TypeOK, SessionMap, SessionKeyRecord
<1>2. \A j : j # k /\ Contains(index, j) => Contains(index', j)
  BY <1>1, RemoveFirstProperties
<1>. QED
  BY <1>1, <1>2 DEF ActiveAreListed

\* Every step that keeps to RevocationIsFinal keeps active keys listed, now and
\* in the rollback images.
LEMMA ListedInvStep ==
  ASSUME TypeOK, ListedInv, [Next]_vars,
         \/ \A k \in SessionKey, e \in Expiries, sc \in ScopeSets :
              RegisterSessionKey(k, e, sc) => sessions[k] = Absent \/ ~sessions[k].revoked
         \/ UNCHANGED vars
  PROVE  ListedInv'
<1>1. ActiveAreListed(index', sessions')
  <2>1. CASE index' = index /\ sessions' = sessions
    BY <2>1 DEF ListedInv
  <2>2. CASE UNCHANGED vars
    BY <2>1, <2>2 DEF vars, storage
  <2>3. CASE Trap
    <3>1. frames # <<>> /\ frames' = Front(frames)
      BY <2>3 DEF Trap
    <3>2. ListedFrame(Last(frames))
      BY <3>1, PoppedFrames DEF ListedInv, Last
    <3>. QED  BY <2>3, <3>2 DEF Trap, ListedFrame
  <2>. QED
    BY <2>1, <2>2, <2>3, RegisterKeepsListed, RevokeKeepsListed, SessionSteps DEF ListedInv
<1>2. \A i \in 1..Len(frames') : ListedFrame(frames'[i])
  <2>1. CASE frames' = frames
    BY <2>1 DEF ListedInv
  <2>2. ASSUME NEW f \in Frame, frames' = Append(frames, f), f.saved = Snapshot
        PROVE  \A i \in 1..Len(frames') : ListedFrame(frames'[i])
    <3>1. ListedFrame(f)
      BY <2>2 DEF ListedFrame, ListedInv, Snapshot
    <3>. QED  BY <2>2, <3>1, PushedFrames DEF ListedInv
  <2>3. CASE ReturnToExecute \/ ReturnToSession \/ Trap
    <3>1. frames # <<>> /\ frames' = Front(frames)
      BY <2>3 DEF ReturnToExecute, ReturnToSession, Trap
    <3>. QED  BY <3>1, PoppedFrames DEF ListedInv
  <2>. QED  BY <2>1, <2>2, <2>3, StackSteps
<1>. QED
  <2>1. ActiveAreListed(index, sessions)'
    BY <1>1 DEF ActiveAreListed
  <2>2. (\A i \in 1..Len(frames) : ListedFrame(frames[i]))'
    BY <1>2 DEF ListedFrame, ActiveAreListed
  <2>. QED  BY <2>1, <2>2 DEF ListedInv

\* A bounded index that lists every active key bounds the active keys.
LEMMA ListedAreBounded ==
  ASSUME TypeOK, IndexInv, ListedInv
  PROVE  ActiveSessionKeysBounded
<1> DEFINE active == {k \in SessionKey : SessionValid(k)}
<1>1. index \in Seq(SessionKey) /\ IsInjective(index) /\ Len(index) <= MaxSessionKeys
  BY DEF TypeOK, IndexInv, IndexListsActive
<1>2. /\ Cardinality(ToSet(index)) = Len(index) /\ IsFiniteSet(ToSet(index))
      /\ \A k : k \in ToSet(index) <=> Contains(index, k)
  BY <1>1, InjectiveCardinality, ToSetContains
<1>3. active \in SUBSET ToSet(index)
  BY <1>2 DEF ListedInv, ActiveAreListed, SessionValid
<1> HIDE DEF active
<1>4. IsFiniteSet(active) /\ Cardinality(active) <= Len(index)
  BY <1>2, <1>3, FS_Subset
<1>5. Cardinality(active) \in Nat /\ Len(index) \in Nat
  BY <1>1, <1>4, FS_CardinalityType, LenProperties
<1>6. Cardinality(active) <= MaxSessionKeys
  BY <1>1, <1>4, <1>5, BoundAssumption
<1>. QED
  BY <1>6 DEF active, ActiveSessionKeysBounded

\* What the documentation says of MAX_SESSION_KEYS fails through a second
\* registration of a revoked key and through nothing else: as long as no revoked
\* key is registered again, at most MAX_SESSION_KEYS keys are active, whatever
\* is registered and revoked while calls are in flight and rolled back
\* (register_session_key, revoke_session_key).
THEOREM SessionKeysBoundedWithoutRenewal == Spec /\ RevocationIsFinal => []ActiveSessionKeysBounded
<1>1. Init => ListedInv /\ IndexInv
  <2> SUFFICES ASSUME Init
               PROVE  ListedInv /\ IndexInv
    OBVIOUS
  <2>1. index = <<>> /\ Len(index) = 0 /\ DOMAIN index = {} /\ frames = <<>>
    BY DEF Init
  <2>2. ToSet(index) = {}
    BY <2>1 DEF ToSet
  <2>3. IndexInv
    BY <2>1, <2>2, BoundAssumption DEF IndexInv, IndexListsActive, IsInjective
  <2>4. ListedInv
    BY <2>1 DEF Init, ListedInv, ActiveAreListed
  <2>. QED  BY <2>3, <2>4
<1>2. TypeOK /\ IndexInv /\ [Next]_vars => IndexInv'
  BY IndexInvStep
<1>3. TypeOK /\ ListedInv /\ [Next]_vars
        /\ [\A k \in SessionKey, e \in Expiries, sc \in ScopeSets :
              RegisterSessionKey(k, e, sc) => sessions[k] = Absent \/ ~sessions[k].revoked]_vars
      => ListedInv'
  BY ListedInvStep
<1>4. TypeOK /\ IndexInv /\ ListedInv => ActiveSessionKeysBounded
  BY ListedAreBounded
<1>. QED
  BY <1>1, <1>2, <1>3, <1>4, TypeCorrect, PTL DEF Spec, RevocationIsFinal

(* ------------------------------ Delegates ------------------------------ *)

\* Whom a map of delegates names; it is finite and within the cap, in the
\* rollback images too.
Holders(map) == {d \in Delegate : map[d] # Absent}

HoldersBounded(map) == IsFiniteSet(Holders(map)) /\ Cardinality(Holders(map)) <= MaxDelegates

DelegateFrame(f) == HoldersBounded(f.saved.delegates)

DelegateInv ==
  /\ HoldersBounded(delegates)
  /\ \A i \in 1..Len(frames) : DelegateFrame(frames[i])

\* What is left of a bounded map is bounded.
LEMMA FewerHolders ==
  ASSUME NEW map, HoldersBounded(map), NEW other, Holders(other) \subseteq Holders(map)
  PROVE  HoldersBounded(other)
<1>1. /\ IsFiniteSet(Holders(other)) /\ Cardinality(Holders(other)) <= Cardinality(Holders(map))
      /\ Cardinality(Holders(other)) \in Nat /\ Cardinality(Holders(map)) \in Nat
  BY FS_Subset, FS_CardinalityType DEF HoldersBounded
<1>. QED
  BY <1>1, BoundAssumption DEF HoldersBounded

\* The map is written by initialize, set_delegate, remove_delegate and a
\* rollback only.
LEMMA DelegateSteps ==
  ASSUME [Next]_vars
  PROVE  \/ delegates' = delegates
         \/ \E o \in Owner : Initialize(o)
         \/ \E d \in Delegate, e \in Expiries : SetDelegate(d, e)
         \/ \E d \in Delegate : RemoveDelegate(d)
         \/ Trap
BY DEF Next, OwnerStep, CallStep, Pause, Unpause, SetPaused, SetSpendLimit, RegisterSessionKey,
       RevokeSessionKey, SetMetadata, DebitSpend, Execute, ExecuteWithSession, ReturnToExecute,
       ReturnToSession, CloseLedger, vars, storage

\* A delegate takes a slot that dropping the expired ones left free.
LEMMA SetKeepsDelegates ==
  ASSUME TypeOK, DelegateInv, NEW d \in Delegate, NEW e \in Expiries, SetDelegate(d, e)
  PROVE  HoldersBounded(delegates')
<1> DEFINE kept == {x \in Delegate : Reclaimed(d)[x] # Absent}
<1>1. /\ delegates' = [Reclaimed(d) EXCEPT ![d] = e]
      /\ d \in Delegates \/ Cardinality(kept) < MaxDelegates
  BY DEF SetDelegate, RoomForDelegate
<1>2. kept \subseteq Holders(delegates) /\ (d \in Delegates => kept = Holders(delegates) /\ d \in kept)
  BY DEF Reclaimed, Delegates, Holders
<1>3. Holders(delegates') \subseteq kept \cup {d}
  BY <1>1, ReclaimedType DEF Holders, DelegateMap
<1> HIDE DEF kept
<1>4. IsFiniteSet(kept) /\ Cardinality(kept) \in Nat
  BY <1>2, FS_Subset, FS_CardinalityType DEF DelegateInv, HoldersBounded
<1>5. IsFiniteSet(kept \cup {d}) /\ Cardinality(kept \cup {d}) <= MaxDelegates
  <2>1. CASE d \in Delegates
    <3>1. kept \cup {d} = Holders(delegates)
      BY <1>2, <2>1
    <3>. QED  BY <3>1 DEF DelegateInv, HoldersBounded
  <2>2. CASE d \notin Delegates
    <3>1. Cardinality(kept \cup {d}) = Cardinality(kept) \/ Cardinality(kept \cup {d}) = Cardinality(kept) + 1
      BY <1>4, FS_AddElement
    <3>. QED  BY <1>1, <1>4, <2>2, <3>1, FS_AddElement, BoundAssumption
  <2>. QED  BY <2>1, <2>2
<1>6. /\ IsFiniteSet(Holders(delegates'))
      /\ Cardinality(Holders(delegates')) <= Cardinality(kept \cup {d})
      /\ Cardinality(Holders(delegates')) \in Nat
      /\ Cardinality(kept \cup {d}) \in Nat
  BY <1>3, <1>5, FS_Subset, FS_CardinalityType
<1>. QED
  BY <1>5, <1>6, BoundAssumption DEF HoldersBounded

\* Every step keeps the map and its rollback images within the cap.
LEMMA DelegateInvStep ==
  ASSUME TypeOK, DelegateInv, [Next]_vars
  PROVE  DelegateInv'
<1>1. HoldersBounded(delegates')
  <2>1. CASE delegates' = delegates
    BY <2>1 DEF DelegateInv
  <2>2. ASSUME NEW o \in Owner, Initialize(o)
        PROVE  HoldersBounded(delegates')
    <3>1. Holders(delegates') = {}
      BY <2>2 DEF Initialize, Holders
    <3>. QED  BY <3>1, FewerHolders DEF DelegateInv
  <2>3. ASSUME NEW d \in Delegate, RemoveDelegate(d)
        PROVE  HoldersBounded(delegates')
    <3>1. Holders(delegates') \subseteq Holders(delegates)
      BY <2>3 DEF RemoveDelegate, Holders, TypeOK, DelegateMap
    <3>. QED  BY <3>1, FewerHolders DEF DelegateInv
  <2>4. CASE Trap
    <3>1. frames # <<>> /\ frames' = Front(frames)
      BY <2>4 DEF Trap
    <3>2. DelegateFrame(Last(frames))
      BY <3>1, PoppedFrames DEF DelegateInv, Last
    <3>. QED  BY <2>4, <3>2 DEF Trap, DelegateFrame
  <2>. QED  BY <2>1, <2>2, <2>3, <2>4, SetKeepsDelegates, DelegateSteps
<1>2. \A i \in 1..Len(frames') : DelegateFrame(frames'[i])
  <2>1. CASE frames' = frames
    BY <2>1 DEF DelegateInv
  <2>2. ASSUME NEW f \in Frame, frames' = Append(frames, f), f.saved = Snapshot
        PROVE  \A i \in 1..Len(frames') : DelegateFrame(frames'[i])
    <3>1. DelegateFrame(f)
      BY <2>2 DEF DelegateFrame, DelegateInv, Snapshot
    <3>. QED  BY <2>2, <3>1, PushedFrames DEF DelegateInv
  <2>3. CASE ReturnToExecute \/ ReturnToSession \/ Trap
    <3>1. frames # <<>> /\ frames' = Front(frames)
      BY <2>3 DEF ReturnToExecute, ReturnToSession, Trap
    <3>. QED  BY <3>1, PoppedFrames DEF DelegateInv
  <2>. QED  BY <2>1, <2>2, <2>3, StackSteps
<1>. QED
  <2>1. HoldersBounded(delegates)'
    BY <1>1 DEF HoldersBounded, Holders
  <2>2. (\A i \in 1..Len(frames) : DelegateFrame(frames[i]))'
    BY <1>2 DEF DelegateFrame, HoldersBounded, Holders
  <2>. QED  BY <2>1, <2>2 DEF DelegateInv

\* The invariant about delegates holds in every reachable state.
THEOREM DelegateInvariance == Spec => []DelegateInv
<1>1. Init => DelegateInv
  <2> SUFFICES ASSUME Init
               PROVE  DelegateInv
    OBVIOUS
  <2>1. Holders(delegates) = {} /\ Len(frames) = 0
    BY DEF Init, Holders
  <2>. QED
    BY <2>1, FS_EmptySet, BoundAssumption DEF DelegateInv, HoldersBounded
<1>2. TypeOK /\ DelegateInv /\ [Next]_vars => DelegateInv'
  BY DelegateInvStep
<1>. QED
  BY <1>1, <1>2, TypeCorrect, PTL DEF Spec

\* There are never more delegates than slots, whatever is rolled back, and a
\* new delegate is refused only when every slot is held by one whose time has
\* not come: expired entries never use up the cap.
THEOREM SlotsHold == Spec => []SlotsSound
<1>1. ASSUME TypeOK, DelegateInv, NEW d \in Delegate, ~RoomForDelegate(d)
      PROVE  Cardinality(LiveDelegates) >= MaxDelegates
  <2> DEFINE kept == {x \in Delegate : Reclaimed(d)[x] # Absent}
  <2>1. d \notin Delegates /\ ~(Cardinality(kept) < MaxDelegates)
    BY <1>1 DEF RoomForDelegate
  <2>2. \A x \in Delegates : delegates[x] \in Nat
    BY <1>1 DEF TypeOK, DelegateMap, Delegates
  <2>3. Timestamp \in Nat
    BY <1>1, BoundAssumption DEF TypeOK, Timestamp
  <2>4. \A x \in Delegate : x \in kept <=> x \in Delegates /\ ~DelegateExpired(x)
    BY <2>1 DEF Reclaimed, Delegates, DelegateExpired
  <2>5. \A x \in Delegates : ~DelegateExpired(x) <=> Timestamp < delegates[x]
    BY <2>2, <2>3 DEF DelegateExpired, Delegates
  <2>6. kept = LiveDelegates
    BY <2>4, <2>5 DEF LiveDelegates, Delegates
  <2>7. Cardinality(LiveDelegates) \in Nat
    <3>1. LiveDelegates \subseteq Holders(delegates)
      BY DEF LiveDelegates, Delegates, Holders
    <3>. QED  BY <1>1, <3>1, FS_Subset, FS_CardinalityType DEF DelegateInv, HoldersBounded
  <2> HIDE DEF kept
  <2>. QED  BY <2>1, <2>6, <2>7, BoundAssumption
<1>2. TypeOK /\ DelegateInv => FullMeansLive
  BY <1>1 DEF FullMeansLive
<1>3. DelegateInv => DelegatesBounded
  BY DEF DelegateInv, HoldersBounded, Holders, DelegatesBounded, Delegates
<1>4. TypeOK /\ DelegateInv => SlotsSound
  BY <1>2, <1>3 DEF SlotsSound
<1>. QED
  BY <1>4, TypeCorrect, DelegateInvariance, PTL

(* ------------------------- What a step may not do ---------------------- *)

\* Before initialize nothing is paused and there is no delegate.
OwnerFirst == owner = Absent => ~paused /\ Holders(delegates) = {}

\* It holds in every reachable state: only the owner pauses or delegates, and
\* a rollback keeps the owner (initialize, require_owner).
LEMMA OwnerFirstInvariant == Spec => []OwnerFirst
<1>1. Init => OwnerFirst
  BY DEF Init, OwnerFirst, Holders
<1>2. ASSUME TypeOK, CallInv, OwnerFirst, [Next]_vars
      PROVE  OwnerFirst'
  <2>1. CASE UNCHANGED <<owner, paused, delegates>>
    BY <1>2, <2>1 DEF OwnerFirst, Holders
  <2>2. ASSUME NEW o \in Owner, Initialize(o)
        PROVE  OwnerFirst'
    BY <2>2, AbsentAssumption DEF OwnerFirst, Initialize
  <2>3. CASE OwnerStep
    BY <2>3 DEF OwnerFirst, OwnerStep, Pause, Unpause, SetPaused, SetDelegate, RemoveDelegate,
         SetSpendLimit, RegisterSessionKey, RevokeSessionKey, SetMetadata, RequireOwner
  <2>4. CASE Trap
    <3>1. frames # <<>> /\ owner' = Last(frames).saved.owner
      BY <2>4 DEF Trap
    <3>2. Last(frames) = frames[1] /\ 1 \in 1..Len(frames)
      BY <1>2, <3>1, OneCall
    <3>. QED  BY <1>2, <3>1, <3>2 DEF CallInv, RollbackExact, OwnerFirst
  <2>5. \/ UNCHANGED <<owner, paused, delegates>>
        \/ \E o \in Owner : Initialize(o)
        \/ OwnerStep
        \/ Trap
    BY <1>2 DEF Next, CallStep, DebitSpend, Execute, ExecuteWithSession, ReturnToExecute,
         ReturnToSession, CloseLedger, vars, storage
  <2>. QED  BY <2>1, <2>2, <2>3, <2>4, <2>5
<1>. QED
  BY <1>1, <1>2, TypeCorrect, CallInvariance, PTL DEF Spec

\* A paused account with no call in flight starts no call and keeps limits,
\* delegates, session keys and nonce as they are.
THEOREM PauseHolds == Spec => PausedFreezes
<1> DEFINE Frozen == UNCHANGED <<delegates, limits, sessions, index, nonce, frames, debited>>
<1>1. ASSUME OwnerFirst, [Next]_vars, paused, frames = <<>>
      PROVE  Frozen
  <2>1. ~\E o \in Owner : Initialize(o)
    BY <1>1 DEF OwnerFirst, Initialize
  <2>2. OwnerStep => Frozen
    BY <1>1 DEF OwnerStep, Pause, Unpause, SetPaused, SetDelegate, RemoveDelegate, SetSpendLimit,
         RegisterSessionKey, RevokeSessionKey, SetMetadata, RequireNotPaused, history
  <2>3. ~CallStep /\ ~\E a \in Asset, s \in Spends : DebitSpend(a, s)
    BY <1>1 DEF CallStep, Execute, ExecuteWithSession, ReturnToExecute, ReturnToSession, Trap,
         DebitSpend, RequireNotPaused
  <2>4. CloseLedger \/ UNCHANGED vars => Frozen
    BY DEF CloseLedger, vars, storage, history
  <2>. QED  BY <1>1, <2>1, <2>2, <2>3, <2>4 DEF Next
<1>2. OwnerFirst /\ [Next]_vars => [paused /\ frames = <<>> => Frozen]_vars
  BY <1>1
<1>. QED
  BY <1>2, OwnerFirstInvariant, PTL DEF Spec, PausedFreezes

\* The end of a call shortens the stack.
LEMMA EndsShorten ==
  ASSUME TypeOK, ReturnToExecute \/ ReturnToSession \/ Trap
  PROVE  ~(Len(frames') >= Len(frames))
<1>1. frames # <<>> /\ frames' = Front(frames)
  BY DEF ReturnToExecute, ReturnToSession, Trap
<1> DEFINE n == Len(frames)
<1>2. n \in Nat \ {0} /\ Len(frames') = n - 1
  BY <1>1, FrontLastProperties DEF TypeOK
<1> HIDE DEF n
<1>3. ~(n - 1 >= n)
  BY <1>2
<1>. QED
  BY <1>2, <1>3 DEF n

\* Nothing is charged from inside a call.
THEOREM NoDebitInside == Spec => NoDebitInsideCall
<1> DEFINE Step == frames # <<>> /\ Len(frames') >= Len(frames) =>
             \A a \in Asset : \A n \in DOMAIN debited[a] : debited'[a][n] <= debited[a][n]
<1>1. ASSUME TypeOK, CallInv, [Next]_vars, frames # <<>>, Len(frames') >= Len(frames),
             NEW a \in Asset, NEW n \in DOMAIN debited[a]
      PROVE  debited'[a][n] <= debited[a][n]
  <2>1. executing
    BY <1>1 DEF CallInv, GuardTracksCalls
  <2>2. debited[a] \in Histories(MaxLedger) /\ debited[a][n] \in Nat /\ debited \in DebitMap
    BY <1>1 DEF TypeOK, DebitMap, Histories
  <2>3. CASE debited' = debited
    BY <2>2, <2>3
  <2>4. ASSUME NEW b \in Asset, NEW amount \in Amounts, NEW p \in Periods,
               SetSpendLimit(b, amount, p)
        PROVE  debited'[a][n] <= debited[a][n]
    <3>1. debited' = [debited EXCEPT ![b] = NoCharges(MaxLedger)]
      BY <2>4 DEF SetSpendLimit
    <3>2. debited'[a][n] = 0 \/ debited'[a][n] = debited[a][n]
      BY <1>1, <2>2, <3>1 DEF DebitMap, Histories, NoCharges
    <3>. QED  BY <2>2, <3>2
  <2>5. \/ debited' = debited
        \/ \E b \in Asset, amount \in Amounts, p \in Periods : SetSpendLimit(b, amount, p)
        \/ \E b \in Asset, s \in Spends : DebitSpend(b, s)
        \/ ReturnToExecute \/ ReturnToSession \/ Trap
    BY <1>1 DEF Next, OwnerStep, CallStep, Initialize, Pause, Unpause, SetPaused, SetDelegate,
         RemoveDelegate, RegisterSessionKey, RevokeSessionKey, SetMetadata, Execute,
         ExecuteWithSession, CloseLedger, vars, history
  <2>6. ~\E b \in Asset, s \in Spends : DebitSpend(b, s)
    BY <2>1 DEF DebitSpend, GuardFree
  <2>. QED  BY <1>1, <2>3, <2>4, <2>5, <2>6, EndsShorten
<1>2. TypeOK /\ CallInv /\ [Next]_vars => [Step]_vars
  BY <1>1
<1>. QED
  BY <1>2, TypeCorrect, CallInvariance, PTL DEF Spec, NoDebitInsideCall

\* Nobody but the owner, or a session key that is registered, valid and granted
\* some method, has the account call a contract.
THEOREM CallsHold == Spec => CallsAreGranted
<1> DEFINE Granted ==
             \/ signers' = {owner}
             \/ \E k \in SessionKey :
                  /\ signers' = {k}
                  /\ sessions[k] # Absent
                  /\ ~sessions[k].revoked
                  /\ sessions[k].scopes # {}
                  /\ Timestamp < sessions[k].expires_at
<1>1. ASSUME TypeOK, [Next]_vars, Len(frames') > Len(frames)
      PROVE  Granted
  <2>1. Len(frames) \in Nat
    BY <1>1, LenProperties DEF TypeOK
  <2>2. frames' # frames
    BY <1>1, <2>1
  <2>3. ASSUME NEW a \in Asset, NEW s \in Spends, NEW n \in 0..NonceMax, Execute(a, s, n)
        PROVE  Granted
    BY <2>3 DEF Execute, RequireOwner
  <2>4. ASSUME NEW k \in SessionKey, NEW m \in Method, NEW n \in 0..NonceMax,
               ExecuteWithSession(k, m, n)
        PROVE  Granted
    BY <2>4 DEF ExecuteWithSession, AuthorizeSession, SessionValid
  <2>5. ~(ReturnToExecute \/ ReturnToSession \/ Trap)
    <3> SUFFICES ASSUME ReturnToExecute \/ ReturnToSession \/ Trap
                 PROVE  FALSE
      OBVIOUS
    <3>1. frames # <<>> /\ frames' = Front(frames)
      BY DEF ReturnToExecute, ReturnToSession, Trap
    <3>2. Len(frames') \in Nat
      BY <1>1, <3>1, TopFrame, LenProperties
    <3>3. Len(frames') >= Len(frames)
      BY <1>1, <2>1, <3>2
    <3>. QED  BY <1>1, <3>3, EndsShorten
  <2>6. \/ frames' = frames
        \/ \E a \in Asset, s \in Spends, n \in 0..NonceMax : Execute(a, s, n)
        \/ \E k \in SessionKey, m \in Method, n \in 0..NonceMax : ExecuteWithSession(k, m, n)
        \/ ReturnToExecute \/ ReturnToSession \/ Trap
    BY <1>1 DEF Next, OwnerStep, CallStep, Initialize, Pause, Unpause, SetPaused, SetDelegate,
         RemoveDelegate, SetSpendLimit, RegisterSessionKey, RevokeSessionKey, SetMetadata,
         DebitSpend, CloseLedger, vars
  <2>. QED  BY <2>2, <2>3, <2>4, <2>5, <2>6
<1>2. TypeOK /\ [Next]_vars => [Len(frames') > Len(frames) => Granted]_vars
  BY <1>1
<1>. QED
  BY <1>2, TypeCorrect, PTL DEF Spec, CallsAreGranted

\* A valid delegate goes only by remove_delegate, or by a rollback.
THEOREM LiveDelegatesAreKept == Spec => LiveDelegatesKept
<1> DEFINE Kept ==
             \/ LiveDelegates \subseteq Delegates'
             \/ owner \in signers' /\ \E d \in LiveDelegates : Delegates' = Delegates \ {d}
<1>1. ASSUME TypeOK, OwnerFirst, [Next]_vars, Len(frames') >= Len(frames)
      PROVE  Kept
  <2>1. /\ delegates \in [Delegate -> Nat \cup {Absent}]
        /\ Timestamp \in Nat
    BY <1>1, BoundAssumption DEF TypeOK, DelegateMap, Timestamp
  <2>2. \A d \in LiveDelegates : d \in Delegates /\ ~DelegateExpired(d)
    <3> SUFFICES ASSUME NEW d \in LiveDelegates
                 PROVE  d \in Delegates /\ ~DelegateExpired(d)
      OBVIOUS
    <3>1. d \in Delegates /\ delegates[d] \in Nat /\ Timestamp < delegates[d]
      BY <2>1 DEF LiveDelegates, Delegates
    <3>. QED  BY <2>1, <3>1 DEF DelegateExpired
  <2>3. CASE delegates' = delegates
    BY <2>2, <2>3 DEF Delegates
  <2>4. ASSUME NEW o \in Owner, Initialize(o)
        PROVE  Kept
    <3>1. owner = Absent
      BY <2>4 DEF Initialize
    <3>2. LiveDelegates = {}
      BY <1>1, <3>1 DEF OwnerFirst, LiveDelegates, Delegates, Holders
    <3>. QED  BY <3>2
  <2>5. ASSUME NEW d \in Delegate, NEW e \in Expiries, SetDelegate(d, e)
        PROVE  Kept
    <3>1. delegates' = [Reclaimed(d) EXCEPT ![d] = e] /\ e # Absent
      BY <2>5, InputAssumption, AbsentAssumption DEF SetDelegate
    <3>2. \A x \in Delegate : delegates'[x] = IF x = d THEN e ELSE Reclaimed(d)[x]
      BY <1>1, <3>1, ReclaimedType DEF DelegateMap
    <3>3. \A x \in LiveDelegates : Reclaimed(d)[x] # Absent
      BY <2>2 DEF Reclaimed, Delegates
    <3>4. LiveDelegates \subseteq Delegates'
      BY <2>2, <3>1, <3>2, <3>3 DEF Delegates
    <3>. QED  BY <3>4
  <2>6. ASSUME NEW d \in Delegate, RemoveDelegate(d)
        PROVE  Kept
    <3>1. delegates' = [delegates EXCEPT ![d] = Absent] /\ owner \in signers'
      BY <2>6 DEF RemoveDelegate, RequireOwner
    <3>2. Delegates' = Delegates \ {d}
      BY <2>1, <3>1 DEF Delegates
    <3>3. CASE d \in LiveDelegates
      BY <3>1, <3>2, <3>3
    <3>4. CASE d \notin LiveDelegates
      BY <2>2, <3>2, <3>4
    <3>. QED  BY <3>3, <3>4
  <2>. QED  BY <1>1, <2>3, <2>4, <2>5, <2>6, DelegateSteps, EndsShorten
<1>2. TypeOK /\ OwnerFirst /\ [Next]_vars => [Len(frames') >= Len(frames) => Kept]_vars
  BY <1>1
<1>. QED
  BY <1>2, TypeCorrect, OwnerFirstInvariant, PTL DEF Spec, LiveDelegatesKept

(* ------------------------ A host without reentry ----------------------- *)

\* A call in flight would be rolled back to the configuration of now, and will
\* write the charge that the limit of now allows.
FrameFresh(f) ==
  /\ <<f.saved.owner, f.saved.paused, f.saved.delegates, f.saved.limits, f.saved.sessions,
       f.saved.index, f.saved.metadata>>
       = <<owner, paused, delegates, limits, sessions, index, metadata>>
  /\ f.asset \in Asset =>
       f.spend \in Spends /\ SpendAllowed(f.asset, f.spend) /\ f.limit = SpendUpdate(f.asset, f.spend)

FramesFresh == \A i \in 1..Len(frames) : FrameFresh(frames[i])

\* What such a host leaves to happen while a call is in flight: its end.
LEMMA SerialSteps ==
  ASSUME ~HostReentry, [Next]_vars
  PROVE  \/ frames = <<>> /\ frames' = frames
         \/ \E a \in Asset, s \in Spends, n \in 0..NonceMax : frames = <<>> /\ Execute(a, s, n)
         \/ \E k \in SessionKey, m \in Method, n \in 0..NonceMax :
              frames = <<>> /\ ExecuteWithSession(k, m, n)
         \/ ReturnToExecute \/ ReturnToSession \/ Trap
         \/ UNCHANGED vars
<1>1. OwnerStep => frames = <<>> /\ frames' = frames
  BY DEF OwnerStep, Pause, Unpause, SetPaused, SetDelegate, RemoveDelegate, SetSpendLimit,
       RegisterSessionKey, RevokeSessionKey, SetMetadata, RequireOwner, Callable
<1>2. \A o \in Owner : Initialize(o) => frames = <<>> /\ frames' = frames
  BY DEF Initialize, Callable
<1>3. \A a \in Asset, s \in Spends : DebitSpend(a, s) => frames = <<>> /\ frames' = frames
  BY DEF DebitSpend, Callable
<1>4. CloseLedger => frames = <<>> /\ frames' = frames
  BY DEF CloseLedger
<1>5. /\ \A a \in Asset, s \in Spends, n \in 0..NonceMax : Execute(a, s, n) => frames = <<>>
      /\ \A k \in SessionKey, m \in Method, n \in 0..NonceMax :
           ExecuteWithSession(k, m, n) => frames = <<>>
  BY DEF Execute, ExecuteWithSession, RequireOwner, Callable
<1>. QED
  BY <1>1, <1>2, <1>3, <1>4, <1>5, Zenon DEF Next, CallStep

\* Calls in flight are fresh in every reachable state, since nothing but
\* their end follows their start.
LEMMA FramesFreshInvariant ==
  ASSUME ~HostReentry
  PROVE  Spec => []FramesFresh
<1>1. Init => FramesFresh
  BY DEF Init, FramesFresh
<1>2. ASSUME TypeOK, CallInv, FramesFresh, [Next]_vars
      PROVE  FramesFresh'
  <2>1. CASE frames = <<>> /\ frames' = frames
    BY <2>1 DEF FramesFresh
  <2>2. ASSUME NEW f, frames = <<>>, frames' = Append(frames, f), FrameFresh(f),
               UNCHANGED <<owner, paused, delegates, limits, sessions, index, metadata, sequence>>
        PROVE  FramesFresh'
    <3>1. frames' = <<f>>
      BY <2>2
    <3>2. FrameFresh(f)'
      BY <2>2 DEF FrameFresh, SpendAllowed, SpendUpdate, RolledOver, SaturatingAdd
    <3>3. Len(frames') = 1 /\ frames'[1] = f
      BY <3>1
    <3>4. \A i \in 1..Len(frames') : frames'[i] = f
      BY <3>3
    <3>. QED  BY <3>2, <3>4 DEF FramesFresh, FrameFresh, SpendAllowed, SpendUpdate, RolledOver, SaturatingAdd
  <2>3. ASSUME NEW a \in Asset, NEW s \in Spends, NEW n \in 0..NonceMax,
               frames = <<>>, Execute(a, s, n)
        PROVE  FramesFresh'
    <3> DEFINE f == [by |-> owner, nonce |-> n, asset |-> a, spend |-> s,
                     limit |-> SpendUpdate(a, s), saved |-> Snapshot]
    <3>1. /\ frames' = Append(frames, f) /\ SpendAllowed(a, s)
          /\ UNCHANGED <<owner, paused, delegates, limits, sessions, index, metadata, sequence>>
      BY <2>3 DEF Execute
    <3>2. FrameFresh(f)
      BY <3>1 DEF FrameFresh, Snapshot
    <3> HIDE DEF f
    <3>. QED  BY <2>2, <2>3, <3>1, <3>2
  <2>4. ASSUME NEW k \in SessionKey, NEW m \in Method, NEW n \in 0..NonceMax,
               frames = <<>>, ExecuteWithSession(k, m, n)
        PROVE  FramesFresh'
    <3> DEFINE f == [by |-> k, nonce |-> n, asset |-> Absent, spend |-> 0,
                     limit |-> Absent, saved |-> Snapshot]
    <3>1. /\ frames' = Append(frames, f)
          /\ UNCHANGED <<owner, paused, delegates, limits, sessions, index, metadata, sequence>>
      BY <2>4 DEF ExecuteWithSession
    <3>2. FrameFresh(f)
      BY AbsentAssumption DEF FrameFresh, Snapshot
    <3> HIDE DEF f
    <3>. QED  BY <2>2, <2>4, <3>1, <3>2
  <2>5. CASE ReturnToExecute \/ ReturnToSession \/ Trap
    <3>1. frames # <<>> /\ frames' = Front(frames)
      BY <2>5 DEF ReturnToExecute, ReturnToSession, Trap
    <3>2. Len(frames') = 0
      BY <1>2, <3>1, OneCall
    <3>. QED  BY <3>2 DEF FramesFresh
  <2>6. CASE UNCHANGED vars
    <3>1. UNCHANGED <<owner, paused, delegates, limits, sessions, index, metadata, sequence, frames>>
      BY <2>6 DEF vars, storage
    <3>2. ASSUME NEW i \in 1..Len(frames')
          PROVE  FrameFresh(frames[i])'
      <4>1. PICK f : f = frames[i]
        OBVIOUS
      <4>2. FrameFresh(f) /\ frames'[i] = f
        BY <1>2, <3>1, <4>1 DEF FramesFresh
      <4>3. FrameFresh(f)'
        BY <3>1, <4>2 DEF FrameFresh, SpendAllowed, SpendUpdate, RolledOver, SaturatingAdd
      <4>. QED  BY <4>2, <4>3 DEF FrameFresh, SpendAllowed, SpendUpdate, RolledOver, SaturatingAdd
    <3>. QED  BY <3>2 DEF FramesFresh
  <2>. QED  BY <1>2, <2>1, <2>3, <2>4, <2>5, <2>6, SerialSteps
<1>. QED
  BY <1>1, <1>2, TypeCorrect, CallInvariance, PTL DEF Spec

\* The record l starts a new period after now with an empty meter.
Restarted(l) == l.amount > 0 /\ l.spent = 0 /\ l.reset_ledger > sequence

\* The record l is r charged: the meter rises within the period, and starts
\* over with the charge in a new one.
Advanced(r, l) ==
  /\ l.amount = r.amount
  /\ l.period_ledgers = r.period_ledgers
  /\ l.spent <= l.amount
  /\ IF sequence < r.reset_ledger
     THEN l.spent > r.spent /\ l.reset_ledger = r.reset_ledger
     ELSE l.spent > 0 /\ l.reset_ledger > sequence

\* A deadline lies ahead of the ledger it is computed on.
LEMMA DeadlineAhead ==
  ASSUME TypeOK, NEW p \in 1..U32Max
  PROVE  SaturatingAdd(sequence, p) \in 0..U32Max /\ SaturatingAdd(sequence, p) > sequence
<1>1. sequence \in Nat /\ sequence <= MaxLedger /\ MaxLedger \in Nat /\ U32Max \in Nat
      /\ MaxLedger < U32Max
  BY BoundAssumption DEF TypeOK
<1>. QED
  BY <1>1 DEF SaturatingAdd

\* compute_spend_update charges the record it is given.
LEMMA UpdateAdvances ==
  ASSUME TypeOK, NEW a \in Asset, NEW s \in Spends, SpendAllowed(a, s)
  PROVE  /\ SpendUpdate(a, s) \in SpendLimit
         /\ limits[a] # Absent
         /\ Advanced(limits[a], SpendUpdate(a, s))
<1>1. limits[a] \in SpendLimit /\ limits[a] # Absent /\ s \in Nat /\ s > 0 /\ sequence \in Nat
  BY InputAssumption, BoundAssumption DEF TypeOK, LimitMap, SpendAllowed
<1>2. /\ SpendUpdate(a, s) \in SpendLimit
      /\ SpendUpdate(a, s).spent <= SpendUpdate(a, s).amount
  BY SpendUpdateType
<1> DEFINE r == limits[a]
           d == SaturatingAdd(sequence, r.period_ledgers)
           u == SpendUpdate(a, s)
<1>3. d > sequence /\ r.reset_ledger \in Nat /\ r.spent \in Nat
  BY <1>1, DeadlineAhead, BoundAssumption DEF SpendLimit
<1>4. u.amount = r.amount /\ u.period_ledgers = r.period_ledgers
  BY <1>1 DEF SpendUpdate, RolledOver, SpendLimit
<1>5. CASE sequence < r.reset_ledger
  <2>1. RolledOver(r) = r
    BY <1>1, <1>3, <1>5 DEF RolledOver
  <2>2. u = [r EXCEPT !.spent = r.spent + s]
    BY <2>1 DEF SpendUpdate
  <2>3. u.spent = r.spent + s /\ u.reset_ledger = r.reset_ledger
    BY <1>1, <2>2 DEF SpendLimit
  <2>. QED  BY <1>1, <1>2, <1>3, <1>4, <1>5, <2>3 DEF Advanced
<1>6. CASE ~(sequence < r.reset_ledger)
  <2>1. RolledOver(r) = [r EXCEPT !.spent = 0, !.reset_ledger = d]
    BY <1>1, <1>3, <1>6 DEF RolledOver
  <2>2. RolledOver(r).spent = 0 /\ RolledOver(r).reset_ledger = d
    BY <1>1, <2>1 DEF SpendLimit
  <2>3. u.spent = s /\ u.reset_ledger = d
    <3>1. RolledOver(r) \in [amount : Nat, period_ledgers : 1..U32Max, spent : {0}, reset_ledger : {d}]
      BY <1>1, <2>1 DEF SpendLimit
    <3>2. u.spent = 0 + s /\ u.reset_ledger = d
      BY <3>1 DEF SpendUpdate
    <3>. QED  BY <1>1, <3>2
  <2>. QED  BY <1>1, <1>2, <1>3, <1>4, <1>6, <2>3 DEF Advanced
<1>. QED
  BY <1>1, <1>2, <1>5, <1>6

\* How a step moves the limits on such a host: it leaves them, sets one with
\* the signature of the owner, or charges one.
LEMMA LimitChange ==
  ASSUME ~HostReentry, TypeOK, CallInv, FramesFresh, [Next]_vars
  PROVE  \/ limits' = limits /\ sequence' \in {sequence, sequence + 1}
         \/ /\ sequence' = sequence
            /\ \E a \in Asset, l \in SpendLimit :
                 /\ limits' = [limits EXCEPT ![a] = l]
                 /\ \/ signers' = {owner} /\ Restarted(l)
                    \/ limits[a] # Absent /\ Advanced(limits[a], l)
<1> DEFINE Changed == \E a \in Asset, l \in SpendLimit :
             /\ limits' = [limits EXCEPT ![a] = l]
             /\ \/ signers' = {owner} /\ Restarted(l)
                \/ limits[a] # Absent /\ Advanced(limits[a], l)
<1>1. ASSUME NEW a \in Asset, NEW amount \in Amounts, NEW p \in Periods,
             SetSpendLimit(a, amount, p)
      PROVE  sequence' = sequence /\ Changed
  <2> DEFINE l == [amount |-> amount, period_ledgers |-> p, spent |-> 0,
                   reset_ledger |-> SaturatingAdd(sequence, p)]
  <2>1. amount \in Nat /\ amount > 0 /\ p \in 1..U32Max
    <3>1. amount \in Int /\ amount > 0 /\ p \in 0..U32Max /\ p # 0
      BY <1>1, InputAssumption DEF SetSpendLimit
    <3>. QED  BY <3>1, BoundAssumption
  <2>2. l \in SpendLimit /\ Restarted(l)
    BY <2>1, DeadlineAhead DEF SpendLimit, Restarted
  <2>3. limits' = [limits EXCEPT ![a] = l] /\ signers' = {owner} /\ sequence' = sequence
    BY <1>1 DEF SetSpendLimit, RequireOwner
  <2> HIDE DEF l
  <2>. QED  BY <2>2, <2>3
<1>2. ASSUME NEW a \in Asset, NEW s \in Spends, SpendAllowed(a, s),
             limits' = [limits EXCEPT ![a] = SpendUpdate(a, s)], sequence' = sequence
      PROVE  sequence' = sequence /\ Changed
  BY <1>2, UpdateAdvances
<1>3. ASSUME NEW a \in Asset, NEW s \in Spends, DebitSpend(a, s)
      PROVE  sequence' = sequence /\ Changed
  BY <1>2, <1>3 DEF DebitSpend
<1>4. ASSUME frames # <<>>
      PROVE  FrameFresh(Last(frames))
  BY <1>4, OneCall DEF FramesFresh
<1>5. CASE ReturnToExecute
  <2> DEFINE f == Last(frames)
  <2>1. /\ frames # <<>> /\ f.asset \in Asset /\ sequence' = sequence
        /\ limits' = [limits EXCEPT ![f.asset] = f.limit]
    BY <1>5 DEF ReturnToExecute
  <2>2. f.spend \in Spends /\ SpendAllowed(f.asset, f.spend) /\ f.limit = SpendUpdate(f.asset, f.spend)
    BY <1>4, <2>1 DEF FrameFresh
  <2> HIDE DEF f
  <2>. QED  BY <1>2, <2>1, <2>2
<1>6. CASE Trap
  <2>1. frames # <<>> /\ limits' = Last(frames).saved.limits /\ sequence' = sequence
    BY <1>6 DEF Trap
  <2>. QED  BY <1>4, <2>1 DEF FrameFresh
<1>7. \/ limits' = limits /\ sequence' \in {sequence, sequence + 1}
      \/ \E a \in Asset, amount \in Amounts, p \in Periods : SetSpendLimit(a, amount, p)
      \/ \E a \in Asset, s \in Spends : DebitSpend(a, s)
      \/ ReturnToExecute
      \/ Trap
  BY DEF Next, OwnerStep, CallStep, Initialize, Pause, Unpause, SetPaused, SetDelegate,
       RemoveDelegate, RegisterSessionKey, RevokeSessionKey, SetMetadata, Execute,
       ExecuteWithSession, ReturnToSession, CloseLedger, vars, storage
<1>. QED
  BY <1>1, <1>3, <1>5, <1>6, <1>7

\* On a host that prohibits reentry, what the owner configured changes only
\* with the signature of the owner.
THEOREM OwnerConfigurationHolds ==
  ASSUME ~HostReentry
  PROVE  Spec => OwnerConfigures
<1>1. ASSUME TypeOK, CallInv, FramesFresh, [Next]_vars, owner # Absent, signers' # {owner}
      PROVE  Configuration' = Configuration
  <2>1. LimitTerms' = LimitTerms
    <3>1. CASE limits' = limits
      BY <3>1 DEF LimitTerms
    <3>2. ASSUME NEW a \in Asset, NEW l \in SpendLimit, limits' = [limits EXCEPT ![a] = l],
                 limits[a] # Absent, Advanced(limits[a], l)
          PROVE  LimitTerms' = LimitTerms
      <4>1. \A b \in Asset : limits'[b] = IF b = a THEN l ELSE limits[b]
        BY <1>1, <3>2 DEF TypeOK, LimitMap
      <4>2. l # Absent /\ l.amount = limits[a].amount /\ l.period_ledgers = limits[a].period_ledgers
        BY <3>2, RecordAssumption DEF Advanced
      <4>3. \A b \in Asset :
              (IF limits'[b] = Absent THEN Absent ELSE <<limits'[b].amount, limits'[b].period_ledgers>>)
              = (IF limits[b] = Absent THEN Absent ELSE <<limits[b].amount, limits[b].period_ledgers>>)
        BY <3>2, <4>1, <4>2
      <4>. QED  BY <4>3 DEF LimitTerms
    <3>. QED  BY <1>1, <3>1, <3>2, LimitChange
  <2>2. UNCHANGED <<paused, delegates, sessions, index, metadata>>
    <3>1. CASE Trap
      <4>1. frames # <<>>
        BY <3>1 DEF Trap
      <4>2. FrameFresh(Last(frames))
        BY <1>1, <4>1, OneCall DEF FramesFresh
      <4>. QED  BY <3>1, <4>2 DEF Trap, FrameFresh
    <3>2. ~\E o \in Owner : Initialize(o)
      BY <1>1 DEF Initialize
    <3>3. ~OwnerStep
      BY <1>1 DEF OwnerStep, Pause, Unpause, SetPaused, SetDelegate, RemoveDelegate, SetSpendLimit,
           RegisterSessionKey, RevokeSessionKey, SetMetadata, RequireOwner
    <3>4. ASSUME \/ \E a \in Asset, s \in Spends : DebitSpend(a, s)
                 \/ \E a \in Asset, s \in Spends, n \in 0..NonceMax : Execute(a, s, n)
                 \/ \E k \in SessionKey, m \in Method, n \in 0..NonceMax : ExecuteWithSession(k, m, n)
                 \/ ReturnToExecute \/ ReturnToSession \/ CloseLedger \/ UNCHANGED vars
          PROVE  UNCHANGED <<paused, delegates, sessions, index, metadata>>
      BY <3>4 DEF DebitSpend, Execute, ExecuteWithSession, ReturnToExecute, ReturnToSession,
           CloseLedger, vars, storage
    <3>. QED  BY <1>1, <3>1, <3>2, <3>3, <3>4 DEF Next, CallStep
  <2>. QED  BY <2>1, <2>2 DEF Configuration
<1>2. TypeOK /\ CallInv /\ FramesFresh /\ [Next]_vars =>
        [owner # Absent /\ Configuration' # Configuration => signers' = {owner}]_vars
  BY <1>1
<1>. QED
  BY <1>2, TypeCorrect, CallInvariance, FramesFreshInvariant, PTL DEF Spec, OwnerConfigures

\* On a host that prohibits reentry the two-phase charge of execute and that of
\* debit_spend are atomic charges: the assets are meters.
THEOREM AccountImplementsSpendMeter ==
  ASSUME ~HostReentry
  PROVE  Spec => ImplementsSpendMeter
<1> DEFINE amount == [a \in Asset |-> IF limits[a] = Absent THEN Absent ELSE limits[a].amount]
           spent == [a \in Asset |-> IF limits[a] = Absent THEN 0 ELSE limits[a].spent]
           until == [a \in Asset |-> IF limits[a] = Absent THEN 0 ELSE limits[a].reset_ledger]
<1>1. Init => Meter!Init
  BY DEF Init, Meter!Init
<1>2. ASSUME TypeOK, CallInv, FramesFresh, [Next]_vars
      PROVE  [Meter!Next]_(Meter!meterVars)
  <2>1. limits \in LimitMap /\ sequence \in Nat
    BY <1>2, BoundAssumption DEF TypeOK
  <2>2. CASE limits' = limits /\ sequence' = sequence
    BY <2>2 DEF Meter!meterVars
  <2>3. CASE limits' = limits /\ sequence' = sequence + 1
    BY <2>3 DEF Meter!Next, Meter!Tick
  <2>4. ASSUME NEW a \in Asset, NEW l \in SpendLimit, limits' = [limits EXCEPT ![a] = l],
               sequence' = sequence,
               Restarted(l) \/ (limits[a] # Absent /\ Advanced(limits[a], l))
        PROVE  Meter!Next
    <3>1. \A b \in Asset : limits'[b] = IF b = a THEN l ELSE limits[b]
      BY <2>1, <2>4 DEF LimitMap
    <3>2. l # Absent /\ l.amount \in Nat /\ l.spent \in Nat /\ l.reset_ledger \in Nat
      BY RecordAssumption, BoundAssumption DEF SpendLimit
    <3>3. amount'[a] = l.amount /\ spent'[a] = l.spent /\ until'[a] = l.reset_ledger
      BY <3>1, <3>2
    <3>4. \A b \in Asset \ {a} :
            amount'[b] = amount[b] /\ spent'[b] = spent[b] /\ until'[b] = until[b]
      BY <3>1
    <3>5. CASE Restarted(l)
      <4>1. amount'[a] \in Nat \ {0} /\ spent'[a] = 0 /\ until'[a] > sequence
        BY <3>2, <3>3, <3>5 DEF Restarted
      <4>. QED  BY <2>4, <3>4, <4>1 DEF Meter!Next, Meter!Configure, Meter!Others
    <3>6. CASE limits[a] # Absent /\ Advanced(limits[a], l)
      <4>1. limits[a] \in SpendLimit
        BY <2>1, <3>6 DEF LimitMap
      <4>2. /\ amount[a] = limits[a].amount /\ amount[a] # Absent
            /\ spent[a] = limits[a].spent /\ until[a] = limits[a].reset_ledger
        <5>1. limits[a].amount \in Nat
          BY <4>1 DEF SpendLimit
        <5>. QED  BY <3>6, <5>1, AbsentAssumption
      <4>3. /\ l.amount = limits[a].amount /\ l.spent <= l.amount
            /\ IF sequence < limits[a].reset_ledger
               THEN l.spent > limits[a].spent /\ l.reset_ledger = limits[a].reset_ledger
               ELSE l.spent > 0 /\ l.reset_ledger > sequence
        BY <3>6 DEF Advanced
      <4>. QED  BY <2>4, <3>3, <3>4, <4>2, <4>3 DEF Meter!Next, Meter!Charge, Meter!Others
    <3>. QED  BY <2>4, <3>5, <3>6
  <2>. QED  BY <1>2, <2>2, <2>3, <2>4, LimitChange
<1>. QED
  BY <1>1, <1>2, TypeCorrect, CallInvariance, FramesFreshInvariant, PTL
  DEF Spec, ImplementsSpendMeter, Meter!Spec
=============================================================================
