-------------------------- MODULE MuxPolicy_proofs --------------------------
(***************************************************************************)
(* Theorems about MuxPolicy, for every set of wallets, registries and      *)
(* inputs and every cap and integer range. The first ones hold whether or  *)
(* not the host lets a registry call the contract back, the last three on  *)
(* a host that does not.                                                   *)
(***************************************************************************)
EXTENDS MuxPolicy, SeqLemmas

(* --------------------------- Type correctness -------------------------- *)

\* A deadline set now lies in the u32 range and after now.
LEMMA DeadlineBounds ==
  ASSUME sequence \in 0..MaxLedger, NEW d \in 1..U32Max
  PROVE  SaturatingAdd(sequence, d) \in 0..U32Max /\ SaturatingAdd(sequence, d) > sequence
BY BoundAssumption DEF SaturatingAdd

\* The record that record_spend stores is well formed and within its limit;
\* its terms are those of the record it read.
LEMMA ChargeRecord ==
  ASSUME sequence \in 0..MaxLedger, NEW r \in DailyLimit, NEW s \in Int, SpendAllowed(r, s)
  PROVE  /\ s \in Nat \ {0}
         /\ [RolledOver(r) EXCEPT !.spent = @ + s] \in DailyLimit
         /\ [RolledOver(r) EXCEPT !.spent = @ + s].spent <= r.limit
         /\ Terms([RolledOver(r) EXCEPT !.spent = @ + s]) = Terms(r)
<1> DEFINE o == RolledOver(r)
           c == [o EXCEPT !.spent = o.spent + s]
<1>1. s \in Nat \ {0}
  BY DEF SpendAllowed
<1>2. SaturatingAdd(sequence, r.day_ledgers) \in 0..U32Max
  BY DeadlineBounds DEF DailyLimit
<1>3. o \in DailyLimit /\ Terms(o) = Terms(r)
  BY <1>2 DEF RolledOver, DailyLimit, Terms
<1>4. o.spent + s <= r.limit
  BY DEF SpendAllowed
<1> HIDE DEF o
<1>5. c \in DailyLimit /\ c.spent = o.spent + s /\ Terms(c) = Terms(o)
  BY <1>1, <1>3 DEF DailyLimit, Terms
<1>. QED
  BY <1>1, <1>3, <1>4, <1>5 DEF o

\* Logging a charge keeps the log well typed.
LEMMA ChargedType ==
  ASSUME charged \in ChargeMap, sequence \in 0..MaxLedger, NEW w \in Wallet, NEW s \in Nat
  PROVE  [charged EXCEPT ![w] = WithCharge(@, sequence, s)] \in ChargeMap
<1>1. charged[w] \in Histories(MaxLedger) /\ MaxLedger \in Nat /\ sequence \in Nat
  BY BoundAssumption DEF ChargeMap
<1>2. WithCharge(charged[w], sequence, s) \in Histories(MaxLedger)
  BY <1>1, WithChargeType
<1>. QED
  BY <1>2, Zenon DEF ChargeMap

\* The storage, type by type.
LEMMA StorageTypes ==
  Snapshot \in Storage <=> /\ admin \in Admin \cup {Absent}
                           /\ wallet_names \in Seq(Wallet)
                           /\ limits \in LimitMap
                           /\ charged \in ChargeMap
BY DEF Snapshot, Storage

\* A charge stores a well-formed record.
LEMMA ChargeType ==
  ASSUME limits \in LimitMap, charged \in ChargeMap, sequence \in 0..MaxLedger,
         NEW w \in Wallet, NEW r \in DailyLimit, NEW s \in Int, Charge(w, r, s)
  PROVE  limits' \in LimitMap /\ charged' \in ChargeMap
<1>1. /\ [RolledOver(r) EXCEPT !.spent = @ + s] \in DailyLimit
      /\ s \in Nat
  BY ChargeRecord DEF Charge
<1>2. limits' \in LimitMap
  BY <1>1, Zenon DEF Charge, LimitMap
<1>3. charged' \in ChargeMap
  BY <1>1, ChargedType DEF Charge
<1>. QED  BY <1>2, <1>3

\* The innermost invocation in flight is well typed, and so are the others.
LEMMA TopFrame ==
  ASSUME TypeOK, frames # <<>>
  PROVE  /\ Front(frames) \in Seq(Frame)
         /\ Last(frames) \in Frame
         /\ Last(frames).wallet \in Wallet
         /\ Last(frames).record \in DailyLimit
         /\ Last(frames).saved \in Storage
         /\ Last(frames).spend \in Int
<1>1. Front(frames) \in Seq(Frame) /\ Last(frames) \in Frame
  BY FrontLastProperties DEF TypeOK
<1>. QED  BY <1>1 DEF Frame

\* Every step keeps every type.
LEMMA TypeStep ==
  ASSUME TypeOK, [Next]_vars
  PROVE  TypeOK'
<1> DEFINE Stored == /\ admin \in Admin \cup {Absent}
                     /\ wallet_names \in Seq(Wallet)
                     /\ limits \in LimitMap
                     /\ charged \in ChargeMap
<1>1. Stored /\ Snapshot \in Storage
  BY StorageTypes DEF TypeOK
<1>2. Stored' => (Snapshot \in Storage)'
  BY StorageTypes, Zenon DEF Snapshot, Storage
<1>3. frames \in Seq(Frame) /\ sequence \in 0..MaxLedger
      /\ signers \subseteq Admin \cup Wallet \cup {Absent}
  BY DEF TypeOK
<1>4. Nothing \in Histories(MaxLedger)
  BY DEF Nothing, NoCharges, Histories
<1> SUFFICES /\ Stored'
             /\ frames' \in Seq(Frame) /\ sequence' \in 0..MaxLedger
             /\ signers' \subseteq Admin \cup Wallet \cup {Absent}
  BY <1>2 DEF TypeOK
<1>5. ASSUME NEW a \in Admin, Initialize(a)
      PROVE  /\ Stored'
             /\ frames' \in Seq(Frame) /\ sequence' \in 0..MaxLedger
             /\ signers' \subseteq Admin \cup Wallet \cup {Absent}
  BY <1>1, <1>3, <1>5, EmptySeq DEF Initialize
<1>6. CASE Upgrade
  BY <1>1, <1>3, <1>6 DEF Upgrade, RequireAdmin, storage
<1>7. ASSUME NEW w \in Wallet, NEW l \in Limits, NEW d \in Days, NEW r \in Registry \cup {Absent},
             SetDailyLimit(w, l, d, r)
      PROVE  /\ Stored'
             /\ frames' \in Seq(Frame) /\ sequence' \in 0..MaxLedger
             /\ signers' \subseteq Admin \cup Wallet \cup {Absent}
  <2>1. /\ l \in Nat /\ d \in 1..U32Max
        /\ SaturatingAdd(sequence, d) \in 0..U32Max
    <3>1. l \in Nat /\ d \in 1..U32Max
      BY <1>7, InputAssumption, BoundAssumption DEF SetDailyLimit
    <3>. QED  BY <1>3, <3>1, DeadlineBounds
  <2>2. [limit |-> l, spent |-> 0, reset_ledger |-> SaturatingAdd(sequence, d),
         day_ledgers |-> d, registry_id |-> r] \in DailyLimit
    BY <2>1 DEF DailyLimit
  <2>3. limits' \in LimitMap
    BY <1>1, <1>7, <2>2, Zenon DEF SetDailyLimit, LimitMap
  <2>4. charged' \in ChargeMap
    BY <1>1, <1>4, <1>7, Zenon DEF SetDailyLimit, ChargeMap
  <2>5. wallet_names' \in Seq(Wallet)
    BY <1>1, <1>7, AppendProperties DEF SetDailyLimit
  <2>. QED  BY <1>1, <1>3, <1>7, <2>3, <2>4, <2>5 DEF SetDailyLimit, RequireAdmin
<1>8. ASSUME NEW w \in Wallet, ResetDailyCounter(w)
      PROVE  /\ Stored'
             /\ frames' \in Seq(Frame) /\ sequence' \in 0..MaxLedger
             /\ signers' \subseteq Admin \cup Wallet \cup {Absent}
  <2>1. limits[w] \in DailyLimit
    BY <1>1, <1>8 DEF ResetDailyCounter, LimitMap
  <2>2. SaturatingAdd(sequence, limits[w].day_ledgers) \in 0..U32Max
    BY <1>3, <2>1, DeadlineBounds DEF DailyLimit
  <2> DEFINE r == [limits[w] EXCEPT !.spent = 0,
                                    !.reset_ledger = SaturatingAdd(sequence, limits[w].day_ledgers)]
  <2>3. r \in DailyLimit
    BY <2>1, <2>2 DEF DailyLimit
  <2>4. limits' = [limits EXCEPT ![w] = r]
    BY <1>1, <1>8 DEF ResetDailyCounter, LimitMap
  <2> HIDE DEF r
  <2>5. limits' \in LimitMap
    BY <1>1, <2>3, <2>4, Zenon DEF LimitMap
  <2>6. charged' \in ChargeMap
    BY <1>1, <1>4, <1>8, Zenon DEF ResetDailyCounter, ChargeMap
  <2>. QED  BY <1>1, <1>3, <1>8, <2>5, <2>6 DEF ResetDailyCounter, RequireAdmin
<1>9. ASSUME NEW w \in Wallet, NEW s \in Spends, RecordSpend(w, s)
      PROVE  /\ Stored'
             /\ frames' \in Seq(Frame) /\ sequence' \in 0..MaxLedger
             /\ signers' \subseteq Admin \cup Wallet \cup {Absent}
  <2>1. limits[w] \in DailyLimit /\ s \in Int /\ Charge(w, limits[w], s)
    BY <1>1, <1>9, InputAssumption DEF RecordSpend, LimitMap
  <2>2. limits' \in LimitMap /\ charged' \in ChargeMap
    BY <1>1, <1>3, <2>1, ChargeType
  <2>. QED  BY <1>1, <1>3, <1>9, <2>2 DEF RecordSpend
<1>10. ASSUME NEW w \in Wallet, NEW s \in Spends, AskRegistry(w, s)
       PROVE  /\ Stored'
              /\ frames' \in Seq(Frame) /\ sequence' \in 0..MaxLedger
              /\ signers' \subseteq Admin \cup Wallet \cup {Absent}
  <2> DEFINE f == [wallet |-> w, spend |-> s, record |-> limits[w], saved |-> Snapshot]
  <2>1. limits[w] \in DailyLimit /\ s \in Nat
    BY <1>1, <1>10, InputAssumption DEF AskRegistry, LimitMap
  <2>2. f \in Frame
    BY <1>1, <2>1, Zenon DEF Frame
  <2>3. frames' = Append(frames, f)
    BY <1>10 DEF AskRegistry
  <2> HIDE DEF f
  <2>4. frames' \in Seq(Frame)
    BY <1>3, <2>2, <2>3, AppendProperties
  <2>. QED  BY <1>1, <1>3, <1>10, <2>4 DEF AskRegistry, storage
<1>11. CASE RegistryAnswers
  <2> DEFINE f == Last(frames)
  <2>1. /\ f.wallet \in Wallet /\ f.record \in DailyLimit /\ f.spend \in Int
        /\ Front(frames) \in Seq(Frame)
    BY <1>11, TopFrame DEF RegistryAnswers
  <2>2. Charge(f.wallet, f.record, f.spend) /\ signers' = {f.wallet} /\ frames' = Front(frames)
    BY <1>11 DEF RegistryAnswers
  <2> HIDE DEF f
  <2>3. limits' \in LimitMap /\ charged' \in ChargeMap
    BY <1>1, <1>3, <2>1, <2>2, ChargeType
  <2>. QED  BY <1>1, <1>3, <1>11, <2>1, <2>2, <2>3 DEF RegistryAnswers
<1>12. CASE RegistryFails
  <2>1. frames # <<>> /\ frames' = Front(frames)
    BY <1>12 DEF RegistryFails
  <2>2. Last(frames).saved \in Storage /\ frames' \in Seq(Frame)
    BY <2>1, TopFrame
  <2>. QED  BY <1>3, <1>12, <2>2 DEF RegistryFails, Storage
<1>13. CASE CloseLedger
  BY <1>1, <1>3, <1>13, BoundAssumption DEF CloseLedger, storage
<1>14. CASE UNCHANGED vars
  BY <1>1, <1>3, <1>14 DEF vars, storage
<1>. QED
  BY <1>5, <1>6, <1>7, <1>8, <1>9, <1>10, <1>11, <1>12, <1>13, <1>14
  DEF Next, AdminStep, SpendStep

\* Every reachable state stores values of the declared types, the rollback
\* images of the calls in flight included; deadlines stay within a u32.
THEOREM TypeCorrect == Spec => []TypeOK
<1>1. Init => TypeOK
  <2> SUFFICES ASSUME Init
               PROVE  TypeOK
    OBVIOUS
  <2>1. limits \in LimitMap /\ charged \in ChargeMap
    BY DEF Init, LimitMap, ChargeMap, Nothing, NoCharges, Histories
  <2>2. wallet_names \in Seq(Wallet) /\ frames \in Seq(Frame)
    BY EmptySeq DEF Init
  <2>. QED  BY <2>1, <2>2, StorageTypes, BoundAssumption DEF Init, TypeOK
<1>2. TypeOK /\ [Next]_vars => TypeOK'
  BY TypeStep
<1>. QED
  BY <1>1, <1>2, PTL DEF Spec

(* ------------------------- With or without reentry --------------------- *)

\* A storage is sound when the list of wallets names exactly those that have
\* a record, each once and within the cap, and no counter passes its limit.
Sound(adm, names, records) ==
  /\ adm = Absent => names = <<>>
  /\ IsInjective(names) /\ Len(names) <= MaxWallets
  /\ \A w \in Wallet : Contains(names, w) <=> records[w] # Absent
  /\ \A w \in Wallet : records[w] # Absent =>
       records[w].limit > 0 /\ records[w].spent <= records[w].limit

\* The storage of now is sound, and so is the one an invocation in flight would
\* be rolled back to, in which its wallet and those of the invocations below
\* it have a record.
FrameSound(i) ==
  /\ Sound(frames[i].saved.admin, frames[i].saved.wallet_names, frames[i].saved.limits)
  /\ frames[i].record.limit > 0
  /\ limits[frames[i].wallet] # Absent
  /\ \A j \in 1..i : frames[i].saved.limits[frames[j].wallet] # Absent

PolicyInv ==
  /\ Sound(admin, wallet_names, limits)
  /\ \A i \in 1..Len(frames) : FrameSound(i)

\* Storing a sound record for a wallet that has one keeps the storage sound.
LEMMA StoreKeepsSound ==
  ASSUME limits \in LimitMap, Sound(admin, wallet_names, limits),
         NEW w \in Wallet, NEW r \in DailyLimit, limits[w] # Absent,
         r.limit > 0, r.spent <= r.limit, limits' = [limits EXCEPT ![w] = r]
  PROVE  /\ Sound(admin, wallet_names, limits')
         /\ \A v \in Wallet : limits[v] # Absent => limits'[v] # Absent
BY RecordAssumption DEF Sound, LimitMap

\* So does a charge.
LEMMA ChargeKeepsSound ==
  ASSUME TypeOK, Sound(admin, wallet_names, limits),
         NEW w \in Wallet, NEW r \in DailyLimit, NEW s \in Int, Charge(w, r, s),
         limits[w] # Absent, r.limit > 0
  PROVE  /\ Sound(admin, wallet_names, limits')
         /\ \A v \in Wallet : limits[v] # Absent => limits'[v] # Absent
<1> DEFINE c == [RolledOver(r) EXCEPT !.spent = @ + s]
<1>1. limits \in LimitMap /\ sequence \in 0..MaxLedger
  BY StorageTypes DEF TypeOK
<1>2. c \in DailyLimit /\ c.spent <= r.limit /\ Terms(c) = Terms(r)
  BY <1>1, ChargeRecord DEF Charge
<1>3. limits' = [limits EXCEPT ![w] = c]
  BY DEF Charge
<1> HIDE DEF c
<1>4. c.limit = r.limit
  BY <1>2 DEF Terms
<1>. QED
  BY <1>1, <1>2, <1>3, <1>4, StoreKeepsSound

\* Entrypoints that end at once keep the storage sound and no record is lost.
LEMMA StorageStep ==
  ASSUME TypeOK, Sound(admin, wallet_names, limits), [Next]_vars, frames' = frames
  PROVE  /\ Sound(admin', wallet_names', limits')
         /\ \A v \in Wallet : limits[v] # Absent => limits'[v] # Absent
<1>1. limits \in LimitMap /\ sequence \in 0..MaxLedger /\ wallet_names \in Seq(Wallet)
  BY StorageTypes DEF TypeOK
<1>2. CASE UNCHANGED storage
  BY <1>2 DEF storage
<1>3. ASSUME NEW a \in Admin, Initialize(a)
      PROVE  /\ Sound(admin', wallet_names', limits')
             /\ \A v \in Wallet : limits[v] # Absent => limits'[v] # Absent
  <2>1. a # Absent /\ admin' = a /\ limits' = limits /\ wallet_names = <<>> /\ wallet_names' = <<>>
    BY <1>3, AbsentAssumption DEF Initialize, Sound
  <2>. QED  BY <2>1 DEF Sound
<1>4. ASSUME NEW w \in Wallet, NEW l \in Limits, NEW d \in Days, NEW r \in Registry \cup {Absent},
             SetDailyLimit(w, l, d, r)
      PROVE  /\ Sound(admin', wallet_names', limits')
             /\ \A v \in Wallet : limits[v] # Absent => limits'[v] # Absent
  <2> DEFINE c == [limit |-> l, spent |-> 0, reset_ledger |-> SaturatingAdd(sequence, d),
                   day_ledgers |-> d, registry_id |-> r]
  <2>1. l \in Nat /\ l > 0 /\ d \in 1..U32Max
    BY <1>4, InputAssumption, BoundAssumption DEF SetDailyLimit
  <2>2. c \in DailyLimit
    BY <1>1, <2>1, DeadlineBounds DEF DailyLimit
  <2>3. c # Absent /\ c.limit > 0 /\ c.spent <= c.limit
    BY <2>1, <2>2, RecordAssumption
  <2>4. limits' = [limits EXCEPT ![w] = c] /\ admin' = admin /\ admin # Absent
    BY <1>4 DEF SetDailyLimit, RequireAdmin
  <2> HIDE DEF c
  <2>5. /\ IsInjective(wallet_names') /\ Len(wallet_names') <= MaxWallets
        /\ \A v \in Wallet : Contains(wallet_names', v) <=> Contains(wallet_names, v) \/ v = w
    <3>1. CASE Contains(wallet_names, w) /\ wallet_names' = wallet_names
      BY <3>1 DEF Sound
    <3>2. CASE /\ ~Contains(wallet_names, w)
               /\ Len(wallet_names) < MaxWallets
               /\ wallet_names' = Append(wallet_names, w)
      <4>1. IsInjective(wallet_names')
        BY <1>1, <3>2, InjectiveAppend DEF Sound
      <4>2. /\ \A v : Contains(wallet_names', v) <=> Contains(wallet_names, v) \/ v = w
            /\ Len(wallet_names') = Len(wallet_names) + 1
        BY <1>1, <3>2, AppendContains
      <4>3. Len(wallet_names) \in Nat
        BY <1>1, LenProperties
      <4>. QED  BY <3>2, <4>1, <4>2, <4>3, BoundAssumption
    <3>. QED  BY <1>4, <3>1, <3>2 DEF SetDailyLimit, RoomForWallet
  <2>6. \A v \in Wallet : limits'[v] = IF v = w THEN c ELSE limits[v]
    BY <1>1, <2>4 DEF LimitMap
  <2>. QED  BY <2>3, <2>4, <2>5, <2>6 DEF Sound
<1>5. ASSUME NEW w \in Wallet, ResetDailyCounter(w)
      PROVE  /\ Sound(admin', wallet_names', limits')
             /\ \A v \in Wallet : limits[v] # Absent => limits'[v] # Absent
  <2>1. limits[w] \in DailyLimit /\ limits[w] # Absent /\ limits[w].limit > 0
    BY <1>1, <1>5 DEF ResetDailyCounter, LimitMap, Sound
  <2> DEFINE r == [limits[w] EXCEPT !.spent = 0,
                                    !.reset_ledger = SaturatingAdd(sequence, limits[w].day_ledgers)]
  <2>2. r \in DailyLimit /\ r.limit = limits[w].limit /\ r.spent = 0
    <3>1. SaturatingAdd(sequence, limits[w].day_ledgers) \in 0..U32Max
      BY <1>1, <2>1, DeadlineBounds DEF DailyLimit
    <3>. QED  BY <2>1, <3>1 DEF DailyLimit
  <2>3. limits' = [limits EXCEPT ![w] = r] /\ admin' = admin /\ wallet_names' = wallet_names
    BY <1>1, <1>5 DEF ResetDailyCounter, LimitMap
  <2> HIDE DEF r
  <2>4. r.limit > 0 /\ r.spent <= r.limit
    BY <2>1, <2>2 DEF DailyLimit
  <2>. QED  BY <1>1, <2>1, <2>2, <2>3, <2>4, StoreKeepsSound
<1>6. ASSUME NEW w \in Wallet, NEW s \in Spends, RecordSpend(w, s)
      PROVE  /\ Sound(admin', wallet_names', limits')
             /\ \A v \in Wallet : limits[v] # Absent => limits'[v] # Absent
  <2>1. /\ limits[w] \in DailyLimit /\ limits[w] # Absent /\ limits[w].limit > 0
        /\ s \in Int /\ Charge(w, limits[w], s)
        /\ admin' = admin /\ wallet_names' = wallet_names
    BY <1>1, <1>6, InputAssumption DEF RecordSpend, LimitMap, Sound
  <2>. QED  BY <2>1, ChargeKeepsSound
<1>7. \/ UNCHANGED storage
      \/ \E a \in Admin : Initialize(a)
      \/ \E w \in Wallet, l \in Limits, d \in Days, r \in Registry \cup {Absent} :
           SetDailyLimit(w, l, d, r)
      \/ \E w \in Wallet : ResetDailyCounter(w)
      \/ \E w \in Wallet, s \in Spends : RecordSpend(w, s)
  <2>1. ~RegistryAnswers /\ ~RegistryFails
    <3>1. frames # <<>> => Front(frames) # frames
      <4> SUFFICES ASSUME frames # <<>>, Front(frames) = frames
                   PROVE  FALSE
        OBVIOUS
      <4>1. Len(frames) = Len(frames) - 1 /\ Len(frames) \in Nat
        BY FrontLastProperties, LenProperties DEF TypeOK
      <4>. QED  BY <4>1
    <3>. QED  BY <3>1 DEF RegistryAnswers, RegistryFails
  <2>. QED  BY <2>1 DEF Next, AdminStep, SpendStep, Upgrade, AskRegistry, CloseLedger, vars
<1>. QED  BY <1>2, <1>3, <1>4, <1>5, <1>6, <1>7

\* A step that drops or keeps the innermost invocation leaves the others
\* sound, as long as none of their wallets loses its record.
LEMMA FramesKept ==
  ASSUME NEW n \in Nat, \A i \in 1..n : FrameSound(i) /\ frames'[i] = frames[i],
         \A i \in 1..n : limits'[frames[i].wallet] # Absent
  PROVE  \A i \in 1..n : FrameSound(i)'
<1> SUFFICES ASSUME NEW i \in 1..n
             PROVE  FrameSound(i)'
  OBVIOUS
<1>1. \A j \in 1..i : frames'[j] = frames[j]
  OBVIOUS
<1>. QED  BY <1>1 DEF FrameSound

\* Soundness is kept by every step: by those that end at once, by the call of
\* a registry, by its answer and by its failure.
LEMMA PolicyInvStep ==
  ASSUME TypeOK, PolicyInv, [Next]_vars
  PROVE  PolicyInv'
<1> DEFINE n == Len(frames)
<1>1. frames \in Seq(Frame) /\ n \in Nat /\ \A i \in 1..n : frames[i].wallet \in Wallet
  <2>1. frames \in Seq(Frame)
    BY DEF TypeOK
  <2>2. n \in Nat /\ \A i \in 1..n : frames[i] \in Frame
    BY <2>1, LenProperties, ElementOfSeq
  <2>. QED  BY <2>1, <2>2 DEF Frame
<1>2. \A i \in 1..n : FrameSound(i)
  BY DEF PolicyInv
<1>3. Sound(admin, wallet_names, limits)
  BY DEF PolicyInv
<1>4. \A i \in 1..n : limits[frames[i].wallet] # Absent
  BY <1>2 DEF FrameSound
<1>5. CASE frames' = frames
  <2>1. /\ Sound(admin', wallet_names', limits')
        /\ \A v \in Wallet : limits[v] # Absent => limits'[v] # Absent
    BY <1>3, <1>5, StorageStep
  <2>2. \A i \in 1..n : FrameSound(i)'
    <3>1. \A i \in 1..n : limits'[frames[i].wallet] # Absent
      BY <1>1, <1>4, <2>1
    <3>. QED  BY <1>1, <1>2, <1>5, <3>1, FramesKept
  <2>. QED  BY <1>5, <2>1, <2>2 DEF PolicyInv, Sound
<1>6. ASSUME NEW w \in Wallet, NEW s \in Spends, AskRegistry(w, s)
      PROVE  PolicyInv'
  <2> DEFINE f == [wallet |-> w, spend |-> s, record |-> limits[w], saved |-> Snapshot]
  <2>1. frames' = Append(frames, f) /\ UNCHANGED storage /\ limits[w] # Absent /\ s \in Nat
    BY <1>6, InputAssumption DEF AskRegistry
  <2>2. f \in Frame
    <3>1. limits[w] \in DailyLimit /\ Snapshot \in Storage
      BY <2>1, StorageTypes DEF TypeOK, LimitMap
    <3>. QED  BY <2>1, <3>1, Zenon DEF Frame
  <2>3. /\ f.wallet = w /\ f.record.limit > 0
        /\ f.saved.admin = admin /\ f.saved.wallet_names = wallet_names /\ f.saved.limits = limits
    BY <1>3, <2>1 DEF Sound, Snapshot
  <2> HIDE DEF f
  <2>4. /\ Len(frames') = n + 1
        /\ \A i \in 1..n : frames'[i] = frames[i]
        /\ frames'[n + 1] = f
    BY <1>1, <2>1, <2>2, AppendProperties
  <2>5. \A i \in 1..n : FrameSound(i)'
    BY <1>1, <1>2, <1>4, <2>1, <2>4, FramesKept DEF storage
  <2>6. ASSUME NEW i \in Nat, i = n + 1
        PROVE  FrameSound(i)'
    <3>1. \A j \in 1..i : limits[frames'[j].wallet] # Absent
      BY <1>1, <1>4, <2>1, <2>3, <2>4, <2>6
    <3>. QED  BY <1>1, <1>3, <2>1, <2>3, <2>4, <2>6, <3>1 DEF FrameSound, storage
  <2>7. Sound(admin, wallet_names, limits)'
    BY <1>3, <2>1 DEF storage, Sound
  <2>8. \A i \in 1..Len(frames') : FrameSound(i)'
    <3>1. \A i \in 1..Len(frames') : i \in 1..n \/ (i \in Nat /\ i = n + 1)
      BY <1>1, <2>4
    <3>. QED  BY <2>5, <2>6, <3>1
  <2>. QED  BY <2>7, <2>8 DEF PolicyInv
<1>7. ASSUME frames # <<>>, frames' = Front(frames),
             Sound(admin', wallet_names', limits'),
             \A i \in 1..n : limits'[frames[i].wallet] # Absent
      PROVE  PolicyInv'
  <2>1. n - 1 \in Nat /\ Len(frames') = n - 1 /\ \A i \in 1..(n - 1) : frames'[i] = frames[i]
    <3>1. /\ frames \in Seq(Frame) /\ frames # <<>> /\ n \in Nat \ {0}
          /\ Len(Front(frames)) = n - 1 /\ \A i \in 1..(n - 1) : Front(frames)[i] = frames[i]
      BY <1>1, <1>7, FrontLastProperties
    <3>2. n - 1 \in Nat
      BY <3>1
    <3>. QED  BY <1>7, <3>1, <3>2
  <2>2. \A i \in 1..(n - 1) : i \in 1..n
    <3>1. n \in Nat
      BY <1>1
    <3> HIDE DEF n
    <3>. QED  BY <3>1
  <2>3. \A i \in 1..(n - 1) : FrameSound(i)'
    BY <1>2, <1>7, <2>1, <2>2, FramesKept
  <2>. QED  BY <1>7, <2>1, <2>3 DEF PolicyInv, Sound
<1>8. CASE RegistryAnswers
  <2> DEFINE f == Last(frames)
  <2>1. /\ frames # <<>> /\ frames' = Front(frames)
        /\ admin' = admin /\ wallet_names' = wallet_names
        /\ Charge(f.wallet, f.record, f.spend)
    BY <1>8 DEF RegistryAnswers
  <2>2. f.wallet \in Wallet /\ f.record \in DailyLimit /\ f.spend \in Int
    BY <2>1, TopFrame
  <2>3. f = frames[n] /\ n \in 1..n
    BY <1>1, <2>1, FrontLastProperties DEF Last
  <2>4. limits[f.wallet] # Absent /\ f.record.limit > 0
    BY <1>2, <2>3 DEF FrameSound
  <2> HIDE DEF f
  <2>5. /\ Sound(admin, wallet_names, limits')
        /\ \A v \in Wallet : limits[v] # Absent => limits'[v] # Absent
    BY <1>3, <2>1, <2>2, <2>4, ChargeKeepsSound
  <2>. QED  BY <1>1, <1>4, <1>7, <2>1, <2>5
<1>9. CASE RegistryFails
  <2> DEFINE f == Last(frames).saved
  <2>1. /\ frames # <<>> /\ frames' = Front(frames)
        /\ admin' = f.admin /\ wallet_names' = f.wallet_names /\ limits' = f.limits
    BY <1>9 DEF RegistryFails
  <2>2. Last(frames) = frames[n] /\ n \in 1..n
    BY <1>1, <2>1, FrontLastProperties DEF Last
  <2>3. /\ Sound(f.admin, f.wallet_names, f.limits)
        /\ \A j \in 1..n : f.limits[frames[j].wallet] # Absent
    BY <1>2, <2>2 DEF FrameSound
  <2> HIDE DEF f
  <2>. QED  BY <1>7, <2>1, <2>3
<1>10. \/ frames' = frames
       \/ \E w \in Wallet, s \in Spends : AskRegistry(w, s)
       \/ RegistryAnswers
       \/ RegistryFails
  BY DEF Next, AdminStep, SpendStep, Initialize, Upgrade, SetDailyLimit, ResetDailyCounter,
         RecordSpend, CloseLedger, vars
<1>. QED
  BY <1>5, <1>6, <1>8, <1>9, <1>10

\* Initially nothing is stored and no call is in flight.
LEMMA PolicyInvInit == Init => PolicyInv
<1> SUFFICES ASSUME Init
             PROVE  PolicyInv
  OBVIOUS
<1>1. wallet_names = <<>> /\ Len(frames) = 0 /\ \A w \in Wallet : limits[w] = Absent
  BY DEF Init
<1>2. IsInjective(<<>>) /\ Len(<<>>) <= MaxWallets /\ \A w : ~Contains(<<>>, w)
  BY BoundAssumption DEF IsInjective, Contains
<1>. QED  BY <1>1, <1>2 DEF PolicyInv, Sound

\* The storage, and every storage a call in flight may still roll back to, is
\* sound.
THEOREM PolicyInvariance == Spec => []PolicyInv
<1>1. Init => PolicyInv
  BY PolicyInvInit
<1>2. TypeOK /\ PolicyInv /\ [Next]_vars => PolicyInv'
  BY PolicyInvStep
<1>. QED
  BY <1>1, <1>2, TypeCorrect, PTL DEF Spec

\* No counter ever passes the limit of its record, even when a registry calls
\* the contract back in the middle of record_spend: the record is charged from
\* what was read, whose limit it is compared with.
THEOREM SpentHolds == Spec => []SpentWithinLimit
<1>1. PolicyInv => SpentWithinLimit
  BY DEF PolicyInv, Sound, SpentWithinLimit
<1>. QED
  BY <1>1, PolicyInvariance, PTL

\* The wallets named in the list are those with a record, each once, and they
\* never exceed the cap, through rollbacks as well.
THEOREM WalletsHold == Spec => []WalletsCounted
<1>1. TypeOK /\ PolicyInv => WalletsCounted
  <2> SUFFICES ASSUME TypeOK, PolicyInv
               PROVE  WalletsCounted
    OBVIOUS
  <2>1. wallet_names \in Seq(Wallet)
    BY StorageTypes DEF TypeOK
  <2>2. \A x : x \in ToSet(wallet_names) <=> Contains(wallet_names, x)
    BY <2>1, ToSetContains
  <2>3. \A x \in ToSet(wallet_names) : x \in Wallet
    BY <2>1 DEF ToSet
  <2>4. /\ IsInjective(wallet_names) /\ Len(wallet_names) <= MaxWallets
        /\ \A w \in Wallet : Contains(wallet_names, w) <=> limits[w] # Absent
    BY DEF PolicyInv, Sound
  <2>. QED  BY <2>2, <2>3, <2>4 DEF WalletsCounted
<1>. QED
  BY <1>1, TypeCorrect, PolicyInvariance, PTL

\* get_daily_limit predicts record_spend: both see the counter of an elapsed
\* window as 0, although only record_spend stores that.
THEOREM ViewHolds == Spec => []ViewPredictsSpend
<1>1. TypeOK => ViewPredictsSpend
  <2> SUFFICES ASSUME TypeOK, NEW w \in Wallet, limits[w] # Absent,
                      NEW s \in Spends \cap (Nat \ {0})
               PROVE  SpendAllowed(limits[w], s)
                        <=> View(limits[w]).spent + s <= View(limits[w]).limit
    BY DEF ViewPredictsSpend
  <2> DEFINE r == limits[w]
  <2>1. r \in DailyLimit
    BY StorageTypes DEF TypeOK, LimitMap
  <2> HIDE DEF r
  <2>2. View(r).limit = r.limit /\ View(r).spent = RolledOver(r).spent
    BY <2>1 DEF View, RolledOver, DailyLimit
  <2>3. SpendAllowed(r, s) <=> View(r).spent + s <= View(r).limit
    BY <2>2 DEF SpendAllowed
  <2>. QED  BY <2>3 DEF r
<1>. QED
  BY <1>1, TypeCorrect, PTL

(* --------------------- On a host that prohibits reentry ---------------- *)

\* At most one invocation is in flight, and nothing changed since it began.
FramesFresh ==
  /\ Len(frames) <= 1
  /\ \A i \in 1..Len(frames) :
       frames[i].record = limits[frames[i].wallet] /\ frames[i].saved.limits = limits

\* Nothing but the registry's answer or failure can follow its call.
LEMMA FramesFreshInvariant ==
  ASSUME ~HostReentry
  PROVE  Spec => []FramesFresh
<1>1. Init => FramesFresh
  BY DEF Init, FramesFresh
<1>2. ASSUME TypeOK, FramesFresh, [Next]_vars
      PROVE  FramesFresh'
  <2>1. frames \in Seq(Frame)
    BY <1>2 DEF TypeOK
  <2>2. CASE frames' = frames /\ limits' = limits
    BY <1>2, <2>2 DEF FramesFresh
  <2>3. CASE frames = <<>> /\ frames' = frames
    BY <2>3 DEF FramesFresh
  <2>4. ASSUME NEW w \in Wallet, NEW s \in Spends, AskRegistry(w, s)
        PROVE  FramesFresh'
    <3> DEFINE f == [wallet |-> w, spend |-> s, record |-> limits[w], saved |-> Snapshot]
    <3>1. frames = <<>> /\ frames' = Append(frames, f) /\ limits' = limits
      BY <2>4 DEF AskRegistry, Callable, storage
    <3>2. f.wallet = w /\ f.record = limits[w] /\ f.saved.limits = limits
      BY DEF Snapshot
    <3> HIDE DEF f
    <3>3. frames' = <<f>>
      BY <3>1
    <3>. QED  BY <3>1, <3>2, <3>3 DEF FramesFresh
  <2>5. CASE RegistryAnswers \/ RegistryFails
    <3>1. frames # <<>> /\ frames' = Front(frames)
      BY <2>5 DEF RegistryAnswers, RegistryFails
    <3>2. Len(frames') = 0
      BY <1>2, <2>1, <3>1, FrontLastProperties DEF FramesFresh
    <3>. QED  BY <3>2 DEF FramesFresh
  <2>6. \/ frames' = frames /\ limits' = limits
        \/ frames = <<>> /\ frames' = frames
        \/ \E w \in Wallet, s \in Spends : AskRegistry(w, s)
        \/ RegistryAnswers \/ RegistryFails
    BY <1>2 DEF Next, AdminStep, SpendStep, Initialize, Upgrade, SetDailyLimit, ResetDailyCounter,
         RecordSpend, CloseLedger, RequireAdmin, Callable, vars, storage
  <2>. QED  BY <2>2, <2>3, <2>4, <2>5, <2>6
<1>. QED
  BY <1>1, <1>2, TypeCorrect, PTL DEF Spec

(* ------------------------- Charges over any window --------------------- *)

\* The counter of every record accounts for what was charged since its window
\* began, and for the window before it.
RecordsMetered(records, histories) ==
  \A w \in Wallet : records[w] # Absent =>
    Metered(histories[w], MaxLedger, sequence, records[w].limit, records[w].day_ledgers,
            records[w].spent, records[w].reset_ledger)

\* This holds of the storage of now, to which an invocation in flight would be
\* rolled back.
WindowInv ==
  /\ RecordsMetered(limits, charged)
  /\ \A i \in 1..Len(frames) : frames[i].saved.charged = charged

\* A record without charges, whose window begins now.
LEMMA UnchargedRecord ==
  ASSUME sequence \in 0..MaxLedger, NEW r \in DailyLimit, r.spent = 0,
         r.reset_ledger = SaturatingAdd(sequence, r.day_ledgers)
  PROVE  Metered(Nothing, MaxLedger, sequence, r.limit, r.day_ledgers, r.spent, r.reset_ledger)
<1>1. /\ r.limit \in Nat /\ r.day_ledgers \in Nat /\ r.spent \in Nat /\ r.reset_ledger \in Nat
      /\ r.spent <= r.limit /\ MaxLedger \in Nat
  BY BoundAssumption DEF DailyLimit
<1>2. sequence + r.day_ledgers <= r.reset_ledger \/ MaxLedger < r.reset_ledger
  BY <1>1, BoundAssumption DEF SaturatingAdd
<1>. QED
  BY <1>1, <1>2, UnchargedMetered DEF Nothing

\* record_spend charges a metered record.
LEMMA ChargedRecord ==
  ASSUME sequence \in 0..MaxLedger, NEW r \in DailyLimit, NEW s \in Int, SpendAllowed(r, s),
         NEW h \in Histories(MaxLedger),
         Metered(h, MaxLedger, sequence, r.limit, r.day_ledgers, r.spent, r.reset_ledger),
         NEW c, c = [RolledOver(r) EXCEPT !.spent = @ + s]
  PROVE  Metered(WithCharge(h, sequence, s), MaxLedger, sequence, c.limit, c.day_ledgers, c.spent,
                 c.reset_ledger)
<1>1. /\ r.limit \in Nat /\ r.day_ledgers \in Nat /\ r.spent \in Nat /\ r.reset_ledger \in Nat
      /\ MaxLedger \in Nat /\ sequence \in Nat /\ s \in Nat
  BY BoundAssumption DEF DailyLimit, SpendAllowed
<1>2. PICK o : o = RolledOver(r)
  OBVIOUS
<1>3. /\ o \in DailyLimit /\ o.limit = r.limit /\ o.day_ledgers = r.day_ledgers
      /\ o.spent \in Nat /\ o.reset_ledger \in Nat /\ o.spent + s <= r.limit
      /\ sequence < o.reset_ledger
      /\ Metered(h, MaxLedger, sequence, o.limit, o.day_ledgers, o.spent, o.reset_ledger)
  <2>1. o.spent + s <= r.limit
    BY <1>2 DEF SpendAllowed
  <2>2. CASE sequence < r.reset_ledger
    BY <1>1, <1>2, <2>1, <2>2 DEF RolledOver
  <2>3. CASE r.reset_ledger <= sequence
    <3> DEFINE d == SaturatingAdd(sequence, r.day_ledgers)
    <3>1. d \in 0..U32Max /\ d > sequence /\ (sequence + r.day_ledgers <= d \/ MaxLedger < d)
      BY <1>1, BoundAssumption, DeadlineBounds DEF DailyLimit, SaturatingAdd
    <3>2. o = [r EXCEPT !.spent = 0, !.reset_ledger = d]
      BY <1>1, <1>2, <2>3 DEF RolledOver
    <3> HIDE DEF d
    <3>3. /\ o \in DailyLimit /\ o.limit = r.limit /\ o.day_ledgers = r.day_ledgers
          /\ o.spent = 0 /\ o.reset_ledger = d
      BY <3>1, <3>2 DEF DailyLimit
    <3>4. d \in Nat /\ sequence <= d
      BY <1>1, <3>1, BoundAssumption
    <3>5. Metered(h, MaxLedger, sequence, r.limit, r.day_ledgers, 0, d)
      BY <1>1, <2>3, <3>1, <3>4, RolledOverMetered
    <3>. QED  BY <2>1, <3>1, <3>3, <3>4, <3>5
  <2>. QED  BY <1>1, <2>2, <2>3
<1>4. /\ c.limit = o.limit /\ c.day_ledgers = o.day_ledgers /\ c.reset_ledger = o.reset_ledger
      /\ c.spent = o.spent + s
  BY <1>2, <1>3 DEF DailyLimit
<1>5. Metered(WithCharge(h, sequence, s), MaxLedger, sequence, o.limit, o.day_ledgers,
              o.spent + s, o.reset_ledger)
  BY <1>1, <1>3, ChargeMetered
<1>. QED
  BY <1>4, <1>5

\* A wallet's record and its history are replaced together.
LEMMA StoreKeepsMetered ==
  ASSUME limits \in LimitMap, charged \in ChargeMap, RecordsMetered(limits, charged),
         NEW w \in Wallet, NEW r, NEW h,
         limits' = [limits EXCEPT ![w] = r], charged' = [charged EXCEPT ![w] = h],
         sequence' = sequence,
         Metered(h, MaxLedger, sequence, r.limit, r.day_ledgers, r.spent, r.reset_ledger)
  PROVE  RecordsMetered(limits, charged)'
<1>1. \A v \in Wallet : /\ limits'[v] = IF v = w THEN r ELSE limits[v]
                        /\ charged'[v] = IF v = w THEN h ELSE charged[v]
  BY DEF LimitMap, ChargeMap
<1>2. ASSUME NEW v \in Wallet, limits'[v] # Absent
      PROVE  Metered(charged'[v], MaxLedger, sequence, limits'[v].limit, limits'[v].day_ledgers,
                     limits'[v].spent, limits'[v].reset_ledger)
  BY <1>1, <1>2, Zenon DEF RecordsMetered
<1>. QED
  BY <1>2, Zenon DEF RecordsMetered

\* Storing what Charge computes keeps the records metered.
LEMMA ChargeKeepsMetered ==
  ASSUME TypeOK, RecordsMetered(limits, charged), NEW w \in Wallet, NEW s \in Int,
         limits[w] # Absent, Charge(w, limits[w], s), sequence' = sequence
  PROVE  RecordsMetered(limits, charged)'
<1>1. /\ limits \in LimitMap /\ charged \in ChargeMap /\ sequence \in 0..MaxLedger
      /\ limits[w] \in DailyLimit /\ charged[w] \in Histories(MaxLedger)
  BY StorageTypes DEF TypeOK, LimitMap, ChargeMap
<1>2. PICK c : c = [RolledOver(limits[w]) EXCEPT !.spent = @ + s]
  OBVIOUS
<1>3. Metered(WithCharge(charged[w], sequence, s), MaxLedger, sequence, c.limit, c.day_ledgers,
              c.spent, c.reset_ledger)
  BY <1>1, <1>2, ChargedRecord DEF Charge, RecordsMetered
<1>4. /\ limits' = [limits EXCEPT ![w] = c]
      /\ charged' = [charged EXCEPT ![w] = WithCharge(charged[w], sequence, s)]
  BY <1>2 DEF Charge
<1>. QED
  BY <1>1, <1>3, <1>4, StoreKeepsMetered

\* So does every other step.
LEMMA WindowInvStep ==
  ASSUME ~HostReentry, TypeOK, FramesFresh, WindowInv, [Next]_vars
  PROVE  WindowInv'
<1>1. /\ limits \in LimitMap /\ charged \in ChargeMap /\ sequence \in 0..MaxLedger
      /\ RecordsMetered(limits, charged)
  BY StorageTypes DEF TypeOK, WindowInv
<1>2. ASSUME frames = <<>>, frames' = frames, RecordsMetered(limits, charged)'
      PROVE  WindowInv'
  BY <1>2 DEF WindowInv
<1>3. ASSUME NEW w \in Wallet, NEW l \in Limits, NEW d \in Days, NEW r \in Registry \cup {Absent},
             SetDailyLimit(w, l, d, r)
      PROVE  WindowInv'
  <2> DEFINE c == [limit |-> l, spent |-> 0, reset_ledger |-> SaturatingAdd(sequence, d),
                   day_ledgers |-> d, registry_id |-> r]
  <2>1. /\ l \in Nat /\ l > 0 /\ d \in 1..U32Max
        /\ frames = <<>> /\ frames' = frames /\ sequence' = sequence
    BY <1>3, InputAssumption, BoundAssumption DEF SetDailyLimit, RequireAdmin, Callable
  <2>2. /\ c \in DailyLimit /\ c.spent = 0
        /\ c.reset_ledger = SaturatingAdd(sequence, c.day_ledgers)
    BY <1>1, <2>1, DeadlineBounds DEF DailyLimit
  <2>3. limits' = [limits EXCEPT ![w] = c] /\ charged' = [charged EXCEPT ![w] = Nothing]
    BY <1>3 DEF SetDailyLimit
  <2> HIDE DEF c
  <2>4. RecordsMetered(limits, charged)'
    BY <1>1, <2>1, <2>2, <2>3, UnchargedRecord, StoreKeepsMetered
  <2>. QED  BY <1>2, <2>1, <2>4
<1>4. ASSUME NEW w \in Wallet, ResetDailyCounter(w)
      PROVE  WindowInv'
  <2> DEFINE r == limits[w]
             c == [r EXCEPT !.spent = 0, !.reset_ledger = SaturatingAdd(sequence, r.day_ledgers)]
  <2>1. /\ r \in DailyLimit /\ frames = <<>> /\ frames' = frames /\ sequence' = sequence
    BY <1>1, <1>4 DEF ResetDailyCounter, LimitMap, RequireAdmin, Callable
  <2>2. limits' = [limits EXCEPT ![w] = c] /\ charged' = [charged EXCEPT ![w] = Nothing]
    BY <1>1, <1>4 DEF ResetDailyCounter, LimitMap
  <2> HIDE DEF r
  <2>3. /\ c \in DailyLimit /\ c.spent = 0
        /\ c.reset_ledger = SaturatingAdd(sequence, c.day_ledgers)
    <3>1. r.day_ledgers \in 1..U32Max
      BY <2>1 DEF DailyLimit
    <3>2. SaturatingAdd(sequence, r.day_ledgers) \in 0..U32Max
      BY <1>1, <3>1, DeadlineBounds
    <3>. QED  BY <2>1, <3>2 DEF DailyLimit
  <2> HIDE DEF c
  <2>4. RecordsMetered(limits, charged)'
    BY <1>1, <2>1, <2>2, <2>3, UnchargedRecord, StoreKeepsMetered
  <2>. QED  BY <1>2, <2>1, <2>4
<1>5. ASSUME NEW w \in Wallet, NEW s \in Spends, RecordSpend(w, s)
      PROVE  WindowInv'
  <2>1. /\ limits[w] # Absent /\ s \in Int /\ Charge(w, limits[w], s)
        /\ frames = <<>> /\ frames' = frames /\ sequence' = sequence
    BY <1>5, InputAssumption DEF RecordSpend, Callable
  <2>2. RecordsMetered(limits, charged)'
    BY <1>1, <2>1, ChargeKeepsMetered
  <2>. QED  BY <1>2, <2>1, <2>2
<1>6. ASSUME NEW w \in Wallet, NEW s \in Spends, AskRegistry(w, s)
      PROVE  WindowInv'
  <2> DEFINE f == [wallet |-> w, spend |-> s, record |-> limits[w], saved |-> Snapshot]
  <2>1. /\ frames = <<>> /\ frames' = Append(frames, f)
        /\ limits' = limits /\ charged' = charged /\ sequence' = sequence
    BY <1>6 DEF AskRegistry, Callable, storage
  <2>2. f.saved.charged = charged
    BY DEF Snapshot
  <2> HIDE DEF f
  <2>3. frames' = <<f>>
    BY <2>1
  <2>4. \A i \in 1..Len(frames') : frames'[i].saved.charged = charged'
    BY <2>1, <2>2, <2>3
  <2>. QED  BY <1>1, <2>1, <2>4 DEF WindowInv, RecordsMetered
<1>7. ASSUME frames # <<>>, frames' = Front(frames), RecordsMetered(limits, charged)'
      PROVE  WindowInv'
  <2>1. Len(frames') = 0
    BY <1>7, FrontLastProperties DEF FramesFresh, TypeOK
  <2>. QED  BY <1>7, <2>1 DEF WindowInv
<1>8. ASSUME frames # <<>>
      PROVE  /\ Last(frames).wallet \in Wallet
             /\ Last(frames).spend \in Int
             /\ Last(frames).record \in DailyLimit
             /\ Last(frames).record = limits[Last(frames).wallet]
             /\ Last(frames).saved.limits = limits
             /\ Last(frames).saved.charged = charged
  <2>1. Last(frames) = frames[Len(frames)] /\ Len(frames) \in 1..Len(frames)
    BY <1>8, FrontLastProperties DEF Last, TypeOK
  <2>. QED  BY <1>8, <2>1, TopFrame DEF FramesFresh, WindowInv
<1>9. CASE RegistryAnswers
  <2> DEFINE f == Last(frames)
  <2>1. /\ Charge(f.wallet, f.record, f.spend) /\ sequence' = sequence
        /\ frames # <<>> /\ frames' = Front(frames)
    BY <1>9 DEF RegistryAnswers
  <2>2. /\ f.wallet \in Wallet /\ f.spend \in Int
        /\ f.record = limits[f.wallet] /\ limits[f.wallet] # Absent
    BY <1>8, <2>1, RecordAssumption
  <2> HIDE DEF f
  <2>3. RecordsMetered(limits, charged)'
    BY <1>1, <2>1, <2>2, ChargeKeepsMetered
  <2>. QED  BY <1>7, <2>1, <2>3
<1>10. CASE RegistryFails
  <2>1. /\ frames # <<>> /\ frames' = Front(frames) /\ sequence' = sequence
        /\ limits' = limits /\ charged' = charged
    BY <1>8, <1>10 DEF RegistryFails
  <2>. QED  BY <1>1, <1>7, <2>1 DEF RecordsMetered
<1>11. CASE CloseLedger
  <2>1. /\ frames = <<>> /\ frames' = frames /\ limits' = limits /\ charged' = charged
        /\ sequence' = sequence + 1 /\ sequence \in Nat /\ sequence' \in Nat
    BY <1>1, <1>11, BoundAssumption DEF CloseLedger, storage
  <2>2. ASSUME NEW w \in Wallet, limits[w] # Absent
        PROVE  Metered(charged[w], MaxLedger, sequence', limits[w].limit, limits[w].day_ledgers,
                       limits[w].spent, limits[w].reset_ledger)
    <3>1. sequence <= sequence'
      BY <2>1
    <3>. QED  BY <1>1, <2>1, <2>2, <3>1, BoundAssumption, LaterMetered DEF RecordsMetered
  <2>. QED  BY <1>2, <2>1, <2>2 DEF RecordsMetered
<1>12. CASE limits' = limits /\ charged' = charged /\ frames' = frames /\ sequence' = sequence
  BY <1>12 DEF WindowInv, RecordsMetered
<1>. QED
  BY <1>3, <1>4, <1>5, <1>6, <1>9, <1>10, <1>11, <1>12
  DEF Next, AdminStep, SpendStep, Initialize, Upgrade, vars, storage

\* On a host that prohibits reentry a wallet never spends more than twice its
\* limit over day_ledgers consecutive ledgers, wherever they begin.
THEOREM WindowBoundHolds ==
  ASSUME ~HostReentry
  PROVE  Spec => []WindowBound
<1>1. Init => WindowInv
  BY DEF Init, WindowInv, RecordsMetered
<1>2. TypeOK /\ FramesFresh /\ WindowInv /\ [Next]_vars => WindowInv'
  BY WindowInvStep
<1>3. WindowInv => WindowBound
  BY Zenon DEF WindowInv, WindowBound, RecordsMetered, Metered
<1>. QED
  BY <1>1, <1>2, <1>3, TypeCorrect, FramesFreshInvariant, PTL DEF Spec

(* ------------------------------ Atomicity ------------------------------ *)

\* The record c starts a new window after now with an empty counter.
Restarted(c) == c.limit > 0 /\ c.spent = 0 /\ c.reset_ledger > sequence

\* The record c is r charged: its counter rises within the window, and starts
\* over with the charge in a new one.
Advanced(r, c) ==
  /\ Terms(c) = Terms(r)
  /\ c.spent <= c.limit
  /\ IF sequence < r.reset_ledger
     THEN c.spent > r.spent /\ c.reset_ledger = r.reset_ledger
     ELSE c.spent > 0 /\ c.reset_ledger > sequence

\* What Charge stores is the record charged.
LEMMA ChargeAdvances ==
  ASSUME sequence \in 0..MaxLedger, NEW w, NEW r \in DailyLimit, NEW s \in Int, Charge(w, r, s)
  PROVE  \E c \in DailyLimit : Advanced(r, c) /\ limits' = [limits EXCEPT ![w] = c]
<1> DEFINE o == RolledOver(r)
           c == [o EXCEPT !.spent = o.spent + s]
<1>1. c \in DailyLimit /\ c.spent <= r.limit /\ Terms(c) = Terms(r) /\ s \in Nat \ {0}
  BY ChargeRecord DEF Charge
<1>2. SaturatingAdd(sequence, r.day_ledgers) \in 0..U32Max
      /\ SaturatingAdd(sequence, r.day_ledgers) > sequence
  BY DeadlineBounds DEF DailyLimit
<1>3. /\ o \in DailyLimit
      /\ sequence < r.reset_ledger => o.spent = r.spent /\ o.reset_ledger = r.reset_ledger
      /\ sequence >= r.reset_ledger => o.spent = 0 /\ o.reset_ledger > sequence
  <2>1. sequence \in Nat /\ r.reset_ledger \in Nat
    BY BoundAssumption DEF DailyLimit
  <2>2. CASE sequence >= r.reset_ledger
    <3> DEFINE d == SaturatingAdd(sequence, r.day_ledgers)
    <3>1. o = [r EXCEPT !.spent = 0, !.reset_ledger = d]
      BY <2>2 DEF RolledOver
    <3>2. d \in 0..U32Max /\ d > sequence
      BY <1>2
    <3> HIDE DEF d, o, c
    <3>3. o \in DailyLimit /\ o.spent = 0 /\ o.reset_ledger = d
      BY <3>1, <3>2 DEF DailyLimit
    <3>. QED  BY <2>1, <2>2, <3>2, <3>3
  <2>3. CASE sequence < r.reset_ledger
    BY <2>1, <2>3 DEF RolledOver, DailyLimit
  <2>. QED  BY <2>1, <2>2, <2>3
<1>4. limits' = [limits EXCEPT ![w] = c]
  BY DEF Charge
<1> HIDE DEF o
<1>5. c.spent = o.spent + s /\ c.reset_ledger = o.reset_ledger
  BY <1>3 DEF DailyLimit
<1>6. r.reset_ledger \in Nat /\ r.spent \in Nat /\ sequence \in Nat
  BY DEF DailyLimit
<1>7. c.limit = r.limit
  BY <1>1 DEF Terms
<1>. HIDE DEF c
<1>8. Advanced(r, c)
  BY <1>1, <1>3, <1>5, <1>6, <1>7 DEF Advanced
<1>. QED  BY <1>1, <1>4, <1>8

\* What a step does to the records: nothing, or the admin restarts one, or a
\* wallet charges its own.
LEMMA RecordStep ==
  ASSUME ~HostReentry, TypeOK, PolicyInv, FramesFresh, [Next]_vars
  PROVE  \/ limits' = limits /\ sequence' \in {sequence, sequence + 1}
         \/ /\ sequence' = sequence
            /\ \E w \in Wallet, c \in DailyLimit :
                 /\ limits' = [limits EXCEPT ![w] = c]
                 /\ \/ signers' = {admin} /\ Restarted(c)
                    \/ signers' = {w} /\ limits[w] # Absent /\ Advanced(limits[w], c)
<1> DEFINE Changed == \E w \in Wallet, c \in DailyLimit :
             /\ limits' = [limits EXCEPT ![w] = c]
             /\ \/ signers' = {admin} /\ Restarted(c)
                \/ signers' = {w} /\ limits[w] # Absent /\ Advanced(limits[w], c)
<1>1. limits \in LimitMap /\ sequence \in 0..MaxLedger
  BY StorageTypes DEF TypeOK
<1>2. ASSUME NEW w \in Wallet, NEW l \in Limits, NEW d \in Days, NEW r \in Registry \cup {Absent},
             SetDailyLimit(w, l, d, r)
      PROVE  sequence' = sequence /\ Changed
  <2> DEFINE c == [limit |-> l, spent |-> 0, reset_ledger |-> SaturatingAdd(sequence, d),
                   day_ledgers |-> d, registry_id |-> r]
  <2>1. l \in Nat /\ l > 0 /\ d \in 1..U32Max
    BY <1>2, InputAssumption, BoundAssumption DEF SetDailyLimit
  <2>2. c \in DailyLimit /\ Restarted(c)
    BY <1>1, <2>1, DeadlineBounds DEF DailyLimit, Restarted
  <2>3. limits' = [limits EXCEPT ![w] = c] /\ signers' = {admin} /\ sequence' = sequence
    BY <1>2 DEF SetDailyLimit, RequireAdmin
  <2> HIDE DEF c
  <2>. QED  BY <2>2, <2>3
<1>3. ASSUME NEW w \in Wallet, ResetDailyCounter(w)
      PROVE  sequence' = sequence /\ Changed
  <2> DEFINE r == limits[w]
             c == [r EXCEPT !.spent = 0, !.reset_ledger = SaturatingAdd(sequence, r.day_ledgers)]
  <2>1. r \in DailyLimit /\ r.limit > 0
    BY <1>1, <1>3 DEF ResetDailyCounter, LimitMap, PolicyInv, Sound
  <2>2. limits' = [limits EXCEPT ![w] = c] /\ signers' = {admin} /\ sequence' = sequence
    BY <1>1, <1>3 DEF ResetDailyCounter, RequireAdmin, LimitMap
  <2> HIDE DEF r
  <2>3. c \in DailyLimit /\ Restarted(c)
    <3>1. SaturatingAdd(sequence, r.day_ledgers) \in 0..U32Max
          /\ SaturatingAdd(sequence, r.day_ledgers) > sequence
      BY <1>1, <2>1, DeadlineBounds DEF DailyLimit
    <3>. QED  BY <2>1, <3>1 DEF DailyLimit, Restarted
  <2> HIDE DEF c
  <2>. QED  BY <2>2, <2>3
<1>4. ASSUME NEW w \in Wallet, NEW s \in Spends, RecordSpend(w, s)
      PROVE  sequence' = sequence /\ Changed
  <2>1. /\ limits[w] \in DailyLimit /\ limits[w] # Absent /\ s \in Int
        /\ Charge(w, limits[w], s) /\ signers' = {w} /\ sequence' = sequence
    BY <1>1, <1>4, InputAssumption DEF RecordSpend, LimitMap
  <2>2. \E c \in DailyLimit : Advanced(limits[w], c) /\ limits' = [limits EXCEPT ![w] = c]
    BY <1>1, <2>1, ChargeAdvances
  <2>. QED  BY <2>1, <2>2
<1>5. ASSUME frames # <<>>
      PROVE  /\ Last(frames).wallet \in Wallet
             /\ Last(frames).spend \in Int
             /\ Last(frames).record \in DailyLimit
             /\ Last(frames).record = limits[Last(frames).wallet]
             /\ Last(frames).saved.limits = limits
  <2>1. Last(frames) = frames[Len(frames)] /\ Len(frames) \in 1..Len(frames)
    BY <1>5, FrontLastProperties DEF Last, TypeOK
  <2>. QED  BY <1>5, <2>1, TopFrame DEF FramesFresh
<1>6. CASE RegistryAnswers
  <2> DEFINE f == Last(frames)
  <2>1. Charge(f.wallet, f.record, f.spend) /\ signers' = {f.wallet} /\ sequence' = sequence
        /\ frames # <<>>
    BY <1>6 DEF RegistryAnswers
  <2>2. /\ f.wallet \in Wallet /\ f.spend \in Int /\ f.record \in DailyLimit
        /\ f.record = limits[f.wallet] /\ f.record # Absent
    BY <1>5, <2>1, RecordAssumption
  <2> HIDE DEF f
  <2>3. \E c \in DailyLimit :
          Advanced(f.record, c) /\ limits' = [limits EXCEPT ![f.wallet] = c]
    BY <1>1, <2>1, <2>2, ChargeAdvances
  <2>. QED  BY <2>1, <2>2, <2>3
<1>7. CASE RegistryFails
  BY <1>5, <1>7 DEF RegistryFails
<1>8. CASE limits' = limits /\ sequence' \in {sequence, sequence + 1}
  BY <1>8
<1>9. \/ limits' = limits /\ sequence' \in {sequence, sequence + 1}
      \/ \E w \in Wallet, l \in Limits, d \in Days, r \in Registry \cup {Absent} :
           SetDailyLimit(w, l, d, r)
      \/ \E w \in Wallet : ResetDailyCounter(w)
      \/ \E w \in Wallet, s \in Spends : RecordSpend(w, s)
      \/ RegistryAnswers
      \/ RegistryFails
  BY DEF Next, AdminStep, SpendStep, Initialize, Upgrade, AskRegistry, CloseLedger, vars, storage
<1>. QED  BY <1>2, <1>3, <1>4, <1>6, <1>7, <1>8, <1>9

\* On a host that prohibits reentry a record changes only with the signature of
\* the admin or of its own wallet, and the wallet can neither change its terms
\* nor lower its counter within a day.
THEOREM WalletChargesHold ==
  ASSUME ~HostReentry
  PROVE  Spec => OnlyWalletCharges
<1> DEFINE Step == \A w \in Wallet : limits'[w] # limits[w] =>
             \/ signers' = {admin}
             \/ /\ signers' = {w}
                /\ limits[w] # Absent
                /\ Terms(limits'[w]) = Terms(limits[w])
                /\ \/ sequence >= limits[w].reset_ledger
                   \/ limits'[w].spent > limits[w].spent
                        /\ limits'[w].reset_ledger = limits[w].reset_ledger
<1>1. ASSUME TypeOK, PolicyInv, FramesFresh, [Next]_vars
      PROVE  Step
  <2>1. limits \in LimitMap /\ sequence \in Nat
    BY <1>1, StorageTypes, BoundAssumption DEF TypeOK
  <2>2. ASSUME NEW v \in Wallet, NEW c \in DailyLimit, limits' = [limits EXCEPT ![v] = c],
               \/ signers' = {admin} /\ Restarted(c)
               \/ signers' = {v} /\ limits[v] # Absent /\ Advanced(limits[v], c)
        PROVE  Step
    <3>1. \A w \in Wallet : limits'[w] = IF w = v THEN c ELSE limits[w]
      BY <2>1, <2>2 DEF LimitMap
    <3>2. limits[v] # Absent => limits[v] \in DailyLimit
      BY <2>1 DEF LimitMap
    <3>3. limits[v] # Absent => limits[v].reset_ledger \in Nat
      BY <3>2, BoundAssumption DEF DailyLimit
    <3>. QED  BY <2>1, <2>2, <3>1, <3>3 DEF Advanced
  <2>. QED  BY <1>1, <2>2, RecordStep
<1>2. TypeOK /\ PolicyInv /\ FramesFresh /\ [Next]_vars => [Step]_vars
  BY <1>1
<1>. QED
  BY <1>2, TypeCorrect, PolicyInvariance, FramesFreshInvariant, PTL DEF Spec, OnlyWalletCharges

\* On a host that prohibits reentry record_spend is atomic: the wallets are
\* meters, each step charges or configures one of them, lets a ledger pass or
\* leaves all of them as they are.
THEOREM PolicyImplementsSpendMeter ==
  ASSUME ~HostReentry
  PROVE  Spec => ImplementsSpendMeter
<1> DEFINE amount == [w \in Wallet |-> IF limits[w] = Absent THEN Absent ELSE limits[w].limit]
           spent == [w \in Wallet |-> IF limits[w] = Absent THEN 0 ELSE limits[w].spent]
           until == [w \in Wallet |-> IF limits[w] = Absent THEN 0 ELSE limits[w].reset_ledger]
<1>1. Init => Meter!Init
  BY DEF Init, Meter!Init
<1>2. ASSUME TypeOK, PolicyInv, FramesFresh, [Next]_vars
      PROVE  [Meter!Next]_(Meter!meterVars)
  <2>1. limits \in LimitMap /\ sequence \in Nat
    BY <1>2, StorageTypes, BoundAssumption DEF TypeOK
  <2>2. CASE limits' = limits /\ sequence' = sequence
    BY <2>2 DEF Meter!meterVars
  <2>3. CASE limits' = limits /\ sequence' = sequence + 1
    BY <2>3 DEF Meter!Next, Meter!Tick
  <2>4. ASSUME NEW v \in Wallet, NEW c \in DailyLimit, limits' = [limits EXCEPT ![v] = c],
               sequence' = sequence,
               \/ signers' = {admin} /\ Restarted(c)
               \/ signers' = {v} /\ limits[v] # Absent /\ Advanced(limits[v], c)
        PROVE  Meter!Next
    <3>1. \A w \in Wallet : limits'[w] = IF w = v THEN c ELSE limits[w]
      BY <2>1, <2>4 DEF LimitMap
    <3>2. c # Absent /\ c.limit \in Nat /\ c.spent \in Nat /\ c.reset_ledger \in Nat
      BY RecordAssumption, BoundAssumption DEF DailyLimit
    <3>3. amount'[v] = c.limit /\ spent'[v] = c.spent /\ until'[v] = c.reset_ledger
      BY <3>1, <3>2
    <3>4. \A w \in Wallet \ {v} :
            amount'[w] = amount[w] /\ spent'[w] = spent[w] /\ until'[w] = until[w]
      BY <3>1
    <3>5. CASE Restarted(c)
      <4>1. amount'[v] \in Nat \ {0} /\ spent'[v] = 0 /\ until'[v] > sequence
        BY <3>2, <3>3, <3>5 DEF Restarted
      <4>. QED  BY <2>4, <3>4, <4>1 DEF Meter!Next, Meter!Configure, Meter!Others
    <3>6. CASE limits[v] # Absent /\ Advanced(limits[v], c)
      <4>1. limits[v] \in DailyLimit
        BY <2>1, <3>6 DEF LimitMap
      <4>2. /\ amount[v] = limits[v].limit /\ amount[v] # Absent
            /\ spent[v] = limits[v].spent /\ until[v] = limits[v].reset_ledger
        <5>1. limits[v].limit \in Nat
          BY <4>1 DEF DailyLimit
        <5>. QED  BY <3>6, <5>1, AbsentAssumption
      <4>3. /\ c.limit = limits[v].limit /\ c.spent <= c.limit
            /\ IF sequence < limits[v].reset_ledger
               THEN c.spent > limits[v].spent /\ c.reset_ledger = limits[v].reset_ledger
               ELSE c.spent > 0 /\ c.reset_ledger > sequence
        BY <3>6 DEF Advanced, Terms
      <4>. QED  BY <2>4, <3>3, <3>4, <4>2, <4>3 DEF Meter!Next, Meter!Charge, Meter!Others
    <3>. QED  BY <2>4, <3>5, <3>6
  <2>. QED  BY <1>2, <2>2, <2>3, <2>4, RecordStep
<1>. QED
  BY <1>1, <1>2, TypeCorrect, PolicyInvariance, FramesFreshInvariant, PTL
  DEF Spec, ImplementsSpendMeter, Meter!Spec
=============================================================================
