-------------------------- MODULE MuxBatcher_proofs --------------------------
(***************************************************************************)
(* Theorems about MuxBatcher, for every set of batches and every cap,      *)
(* whether or not the host lets a target call the batcher back.            *)
(***************************************************************************)
EXTENDS MuxBatcher, SeqLemmas

(* ------------------------ The inductive invariant ---------------------- *)

\* Storage t was reached from storage s without writing anything twice.
Extends(s, t) ==
  /\ s.admin # Absent => t.admin = s.admin
  /\ s.meta # Absent => t.meta = s.meta

\* The first n operations of ops, of which as many succeeded as counted, had
\* the effects that came after those before.
Accounted(ops, n, counted, before, now) ==
  \E kept \in Atomic!Selections(n) :
    /\ Len(kept) = counted
    /\ Atomic!Faithful(ops, n, kept)
    /\ now = before \o Atomic!Chosen(ops, kept)

\* A batch in flight was submitted and is within the cap, and its counters
\* account for its effects. The storage it would be rolled back to is
\* unguarded, the one a failing target is rolled back to is guarded and has
\* the effects so far, and each is extended by the next.
InFlight(f) ==
  /\ f.ops \in Batches
  /\ Len(f.ops) \in 1..MaxBatchSize
  /\ f.done <= Len(f.ops)
  /\ f.success + f.failure = f.done
  /\ Accounted(f.ops, f.done, f.success, f.saved.effects, effects)
  /\ ~f.saved.executing
  /\ Extends(f.saved, Snapshot)
  /\ f.calling # Absent =>
       /\ f.done < Len(f.ops)
       /\ f.calling.executing
       /\ f.calling.effects = effects
       /\ Extends(f.saved, f.calling)
       /\ Extends(f.calling, Snapshot)

BatchInv ==
  /\ TypeOK
  /\ executing <=> frames # <<>>
  /\ Len(frames) <= 1
  /\ frames # <<>> => InFlight(frames[1])

\* The storage, type by type.
LEMMA StorageTypes ==
  Snapshot \in Storage <=> /\ admin \in Admin \cup {Absent}
                           /\ meta \in Meta \cup {Absent}
                           /\ executing \in BOOLEAN
                           /\ effects \in Seq(Operation)
                           /\ result \in BatchResult \cup {Absent}
BY DEF Snapshot, Storage

\* While a batch is in flight it is the only one.
LEMMA OnlyFrame ==
  ASSUME BatchInv, frames # <<>>
  PROVE  /\ Batch = frames[1] /\ Batch \in Frame /\ InFlight(Batch)
         /\ Front(frames) = <<>>
         /\ \A b : <<b>> = Front(frames) \o <<b>>
         /\ executing
         /\ Batch.saved \in Storage
         /\ Batch.calling # Absent => Batch.calling \in Storage
<1>1. frames \in Seq(Frame) /\ Len(frames) <= 1
  BY DEF BatchInv, TypeOK
<1>2. Len(frames) = 1
  <2>1. Len(frames) \in Nat \ {0}
    BY <1>1, FrontLastProperties, Zenon
  <2>2. Len(frames) <= 1
    BY <1>1
  <2>. QED  BY ONLY <2>1, <2>2
<1>3. Batch = frames[1] /\ frames[1] \in Frame
  BY <1>1, <1>2 DEF Batch, Last
<1>4. Front(frames) = <<>>
  BY <1>1, <1>2, FrontLastProperties
<1>5. \A b : <<b>> = Front(frames) \o <<b>>
  BY <1>4
<1>. QED  BY <1>3, <1>4, <1>5 DEF BatchInv, Frame

\* What a rollback puts back is typed, and the storage it puts back is that.
LEMMA RestoreSnapshot ==
  ASSUME NEW s \in Storage, Restore(s)
  PROVE  Snapshot' = s /\ (Snapshot \in Storage)'
<1>1. Snapshot' = s
  BY DEF Restore, Snapshot, Storage
<1>. QED  BY <1>1 DEF Storage

\* The sequence of a single frame.
LEMMA OneFrameType ==
  ASSUME NEW f \in Frame
  PROVE  <<f>> \in Seq(Frame) /\ Len(<<f>>) = 1 /\ <<f>>[1] = f /\ <<f>> # <<>>
OBVIOUS

\* Counting an operation keeps the frame typed and what it would be rolled
\* back to.
LEMMA Counted ==
  ASSUME Batch \in Frame
  PROVE  /\ CountedSuccess \in Frame /\ CountedFailure \in Frame
         /\ CountedSuccess.saved = Batch.saved /\ CountedSuccess.calling = Absent
         /\ CountedFailure.saved = Batch.saved /\ CountedFailure.calling = Absent
         /\ CountedSuccess.ops = Batch.ops /\ CountedSuccess.done = Batch.done + 1
         /\ CountedFailure.ops = Batch.ops /\ CountedFailure.done = Batch.done + 1
         /\ CountedSuccess.success = Batch.success + 1
         /\ CountedFailure.success = Batch.success
         /\ CountedSuccess.success + CountedSuccess.failure = Batch.success + Batch.failure + 1
         /\ CountedFailure.success + CountedFailure.failure = Batch.success + Batch.failure + 1
<1>1. PICK b \in Frame : b = Batch
  OBVIOUS
<1>2. PICK d \in Nat, s \in Nat, x \in Nat :
        d = b.done + 1 /\ s = b.success + 1 /\ x = b.failure + 1
  BY DEF Frame
<1>3. /\ CountedSuccess = [b EXCEPT !.calling = Absent, !.done = d, !.success = s]
      /\ CountedFailure = [b EXCEPT !.calling = Absent, !.done = d, !.failure = x]
  BY <1>1, <1>2 DEF CountedSuccess, CountedFailure
<1>4. b.success + 1 + b.failure = b.success + b.failure + 1
      /\ b.success + (b.failure + 1) = b.success + b.failure + 1
  BY DEF Frame
<1>5. /\ CountedSuccess \in Frame /\ CountedFailure \in Frame
      /\ CountedSuccess.saved = b.saved /\ CountedSuccess.calling = Absent
      /\ CountedFailure.saved = b.saved /\ CountedFailure.calling = Absent
      /\ CountedSuccess.ops = b.ops /\ CountedSuccess.done = d
      /\ CountedFailure.ops = b.ops /\ CountedFailure.done = d
      /\ CountedSuccess.success = s /\ CountedSuccess.failure = b.failure
      /\ CountedFailure.success = b.success /\ CountedFailure.failure = x
  BY <1>3 DEF Frame
<1>. QED  BY <1>1, <1>2, <1>4, <1>5

\* A selection of the first n operations is one of the first n + 1.
LEMMA SelectionSkips ==
  ASSUME NEW n \in Nat, NEW kept \in Atomic!Selections(n)
  PROVE  /\ kept \in Atomic!Selections(n + 1)
         /\ kept \in Seq(1..n) /\ Len(kept) <= n
<1>. PICK k \in 0..n : kept \in [1..k -> 1..n]
  BY DEF Atomic!Selections
<1>1. kept \in [1..k -> 1..(n + 1)] /\ k \in 0..(n + 1)
  OBVIOUS
<1>. QED  BY <1>1 DEF Atomic!Selections

\* The next operation may be selected as well.
LEMMA SelectionTakes ==
  ASSUME NEW n \in Nat, NEW kept \in Atomic!Selections(n)
  PROVE  Append(kept, n + 1) \in Atomic!Selections(n + 1)
<1>. PICK k \in 0..n : kept \in [1..k -> 1..n]
  BY DEF Atomic!Selections
<1>. PICK more : more = Append(kept, n + 1)
  OBVIOUS
<1>1. \A i, j \in 1..k : i < j => kept[i] < kept[j]
  BY DEF Atomic!Selections
<1>2. /\ DOMAIN more = 1..(k + 1) /\ more \in [1..(k + 1) -> 1..(n + 1)]
      /\ \A i \in 1..k : more[i] = kept[i]
      /\ more[k + 1] = n + 1
  <2>1. kept \in Seq(1..(n + 1)) /\ Len(kept) = k /\ n + 1 \in 1..(n + 1)
    OBVIOUS
  <2>2. more \in Seq(1..(n + 1)) /\ Len(more) = k + 1
    BY <2>1
  <2>3. more \in [1..(k + 1) -> 1..(n + 1)]
    BY <2>2, LenProperties
  <2>4. (\A i \in 1..k : more[i] = kept[i]) /\ more[k + 1] = n + 1
    BY <2>1
  <2>. QED  BY <2>3, <2>4
<1>3. \A i, j \in 1..(k + 1) : i < j => more[i] < more[j]
  <2> SUFFICES ASSUME NEW i \in 1..(k + 1), NEW j \in 1..(k + 1), i < j
               PROVE  more[i] < more[j]
    OBVIOUS
  <2>1. i \in 1..k /\ more[i] = kept[i] /\ kept[i] \in 1..n
    BY <1>2
  <2>2. CASE j \in 1..k
    BY <1>1, <1>2, <2>1, <2>2
  <2>3. CASE j = k + 1
    BY <1>2, <2>1, <2>3
  <2>. QED  BY <2>2, <2>3
<1>4. DOMAIN more = 1..(k + 1) /\ k + 1 \in 0..(n + 1)
  BY <1>2
<1>. QED  BY <1>2, <1>3, <1>4 DEF Atomic!Selections

\* The operations selected are a sequence of operations.
LEMMA ChosenType ==
  ASSUME NEW S, NEW ops \in Seq(S), NEW n \in 0..Len(ops), NEW kept \in Atomic!Selections(n)
  PROVE  /\ Atomic!Chosen(ops, kept) \in Seq(S)
         /\ Len(Atomic!Chosen(ops, kept)) = Len(kept)
<1>1. kept \in Seq(1..n)
  BY SelectionSkips
<1>. QED  BY <1>1 DEF Atomic!Chosen

\* An optional operation that fails leaves the account in order.
LEMMA AccountedFailure ==
  ASSUME NEW ops \in Seq(Operation), NEW n \in Nat, n < Len(ops),
         NEW counted, NEW before, NEW now, Accounted(ops, n, counted, before, now),
         ~ops[n + 1].require_success
  PROVE  Accounted(ops, n + 1, counted, before, now)
<1>1. PICK kept \in Atomic!Selections(n) :
        /\ Len(kept) = counted
        /\ Atomic!Faithful(ops, n, kept)
        /\ now = before \o Atomic!Chosen(ops, kept)
  BY DEF Accounted
<1>2. Atomic!Faithful(ops, n + 1, kept)
  BY <1>1 DEF Atomic!Faithful
<1>. QED  BY <1>1, <1>2, SelectionSkips DEF Accounted

\* So does an operation that succeeds, whether it was required or not.
LEMMA AccountedSuccess ==
  ASSUME NEW ops \in Seq(Operation), NEW n \in Nat, n < Len(ops),
         NEW counted, NEW before \in Seq(Operation), NEW now,
         Accounted(ops, n, counted, before, now)
  PROVE  Accounted(ops, n + 1, counted + 1, before, Append(now, ops[n + 1]))
<1>1. PICK kept \in Atomic!Selections(n) :
        /\ Len(kept) = counted
        /\ Atomic!Faithful(ops, n, kept)
        /\ now = before \o Atomic!Chosen(ops, kept)
  BY DEF Accounted
<1>. PICK more : more = Append(kept, n + 1)
  OBVIOUS
<1>2. kept \in Seq(1..n)
  BY SelectionSkips
<1>3. /\ Len(more) = counted + 1 /\ DOMAIN more = 1..(counted + 1)
      /\ DOMAIN kept = 1..counted /\ counted \in Nat
      /\ \A j \in 1..counted : more[j] = kept[j]
      /\ more[counted + 1] = n + 1
  BY <1>1, <1>2
<1>4. Atomic!Faithful(ops, n + 1, more)
  <2> SUFFICES ASSUME NEW i \in 1..(n + 1), ops[i].require_success, ops[i] \in Operation
               PROVE  \E j \in DOMAIN more : more[j] = i
    BY DEF Atomic!Faithful
  <2>1. CASE i = n + 1
    BY <1>3, <2>1
  <2>2. CASE i \in 1..n
    <3>1. PICK j \in DOMAIN kept : kept[j] = i
      BY <1>1, <2>2 DEF Atomic!Faithful
    <3>. QED  BY <1>3, <3>1
  <2>. QED  BY <2>1, <2>2
<1>5. Append(now, ops[n + 1]) = before \o Atomic!Chosen(ops, more)
  <2>. PICK c \in Seq(Operation) : c = Atomic!Chosen(ops, kept)
    BY ChosenType
  <2>1. DOMAIN c = 1..counted /\ Len(c) = counted /\ \A j \in 1..counted : c[j] = ops[kept[j]]
    BY <1>3 DEF Atomic!Chosen
  <2>2. Atomic!Chosen(ops, more) = Append(c, ops[n + 1])
    <3>1. Atomic!Chosen(ops, more) = [j \in 1..(counted + 1) |-> ops[more[j]]]
      BY <1>3 DEF Atomic!Chosen
    <3>2. Append(c, ops[n + 1]) = [j \in 1..(counted + 1) |->
                                     IF j <= counted THEN c[j] ELSE ops[n + 1]]
      BY <2>1
    <3>. QED  BY <1>3, <2>1, <3>1, <3>2
  <2>3. ops[n + 1] \in Operation
    OBVIOUS
  <2>4. Append(before \o c, ops[n + 1]) = before \o Append(c, ops[n + 1])
    <3>. PICK e \in Operation : e = ops[n + 1]
      BY <2>3
    <3>. PICK u : u = <<e>>
      OBVIOUS
    <3>1. u \in Seq(Operation) /\ before \o c \in Seq(Operation)
      OBVIOUS
    <3>2. Append(before \o c, e) = (before \o c) \o u /\ Append(c, e) = c \o u
      BY <3>1, AppendIsConcat
    <3>3. (before \o c) \o u = before \o (c \o u)
      BY <3>1, ConcatAssociative, SMTT(30)
    <3>. QED  BY <3>2, <3>3
  <2>. QED  BY <1>1, <2>2, <2>4
<1>6. more \in Atomic!Selections(n + 1)
  BY SelectionTakes
<1>. QED  BY <1>3, <1>4, <1>5, <1>6 DEF Accounted

\* A batch that has done nothing yet has no effects.
LEMMA AccountedNothing ==
  ASSUME NEW ops, NEW before \in Seq(Operation)
  PROVE  Accounted(ops, 0, 0, before, before)
<1>1. <<>> \in Atomic!Selections(0) /\ Atomic!Chosen(ops, <<>>) = <<>> /\ Len(<<>>) = 0
  BY EmptySeq DEF Atomic!Selections, Atomic!Chosen
<1>2. Atomic!Faithful(ops, 0, <<>>)
  BY DEF Atomic!Faithful
<1>. QED  BY <1>1, <1>2 DEF Accounted

LEMMA BatchInvStep ==
  ASSUME Assumptions, BatchInv, [Next]_vars
  PROVE  BatchInv'
<1> USE DEF Assumptions
<1>1. /\ TypeOK /\ Snapshot \in Storage /\ frames \in Seq(Frame)
      /\ admin \in Admin \cup {Absent} /\ meta \in Meta \cup {Absent}
      /\ effects \in Seq(Operation) /\ result \in BatchResult \cup {Absent}
      /\ executing \in BOOLEAN
  BY StorageTypes DEF BatchInv, TypeOK
<1>2. ASSUME (Snapshot \in Storage)', frames' = <<>>, ~executing',
             signers' \subseteq Admin \cup Caller \cup {Batcher, Absent}
      PROVE  BatchInv'
  BY <1>2, EmptySeq DEF BatchInv, TypeOK
<1>3. ASSUME NEW f \in Frame, (Snapshot \in Storage)', frames' = <<f>>, executing',
             InFlight(f)', signers' \subseteq Admin \cup Caller \cup {Batcher, Absent}
      PROVE  BatchInv'
  BY <1>3, OneFrameType DEF BatchInv, TypeOK
<1>4. ASSUME UNCHANGED <<executing, frames>>, (Snapshot \in Storage)',
             signers' \subseteq Admin \cup Caller \cup {Batcher, Absent},
             effects' = effects, Extends(Snapshot, Snapshot')
      PROVE  BatchInv'
  <2>1. ASSUME NEW s, Extends(s, Snapshot)  PROVE Extends(s, Snapshot')
    BY <1>4, <2>1 DEF Extends, Snapshot
  <2>2. frames # <<>> => InFlight(frames[1])'
    <3> SUFFICES ASSUME frames # <<>>  PROVE InFlight(frames[1])'
      OBVIOUS
    <3>1. InFlight(frames[1]) /\ frames'[1] = frames[1]
      BY <1>4 DEF BatchInv
    <3>. QED  BY <1>4, <2>1, <3>1 DEF InFlight
  <2>. QED  BY <1>1, <1>4, <2>2 DEF BatchInv, TypeOK
<1>5. ASSUME NEW a \in Admin, Initialize(a)  PROVE BatchInv'
  <2>1. (Snapshot \in Storage)' /\ Extends(Snapshot, Snapshot')
    BY <1>1, <1>5 DEF Initialize, Snapshot, Storage, Extends
  <2>. QED  BY <1>4, <1>5, <2>1 DEF Initialize
<1>6. CASE Upgrade
  <2>1. (Snapshot \in Storage)' /\ Extends(Snapshot, Snapshot')
    BY <1>1, <1>6 DEF Upgrade, storage, Snapshot, Storage, Extends
  <2>. QED  BY <1>1, <1>4, <1>6, <2>1 DEF Upgrade, RequireAdmin, storage
<1>7. ASSUME NEW m \in Meta, SetRegistryMetadata(m)  PROVE BatchInv'
  <2>1. (Snapshot \in Storage)' /\ Extends(Snapshot, Snapshot')
    BY <1>1, <1>7 DEF SetRegistryMetadata, MetaUnset, Snapshot, Storage, Extends
  <2>. QED  BY <1>1, <1>4, <1>7, <2>1 DEF SetRegistryMetadata, RequireAdmin
<1>8. ASSUME NEW c \in Caller \cup {Batcher}, NEW ops \in Batches, ExecuteBatch(c, ops)
      PROVE  BatchInv'
  <2>. PICK f : f = [caller |-> c, ops |-> ops, done |-> 0, success |-> 0,
                     failure |-> 0, calling |-> Absent, saved |-> Snapshot]
    OBVIOUS
  <2>1. f \in Frame
    BY <1>1 DEF Frame
  <2>2. frames' = <<f>> /\ executing' /\ ~executing
    <3>1. ~executing /\ frames = <<>> /\ executing'
      BY <1>8 DEF ExecuteBatch, GuardFree, BatchInv
    <3>2. frames' = Append(frames, f)
      BY <1>8 DEF ExecuteBatch
    <3>. QED  BY <3>1, <3>2
  <2>3. (Snapshot \in Storage)' /\ Extends(Snapshot, Snapshot')
    BY <1>1, <1>8 DEF ExecuteBatch, Snapshot, Storage, Extends
  <2>4. InFlight(f)'
    <3>1. /\ f.saved = Snapshot /\ f.calling = Absent /\ ~f.saved.executing
          /\ f.ops = ops /\ f.done = 0 /\ f.success = 0 /\ f.failure = 0
          /\ f.saved.effects = effects
      BY <2>2 DEF Snapshot
    <3>2. Len(ops) \in 1..MaxBatchSize /\ ops \in Batches /\ effects' = effects
      <4>1. ops \in Seq(Operation) /\ ops # <<>> /\ Len(ops) <= MaxBatchSize
        BY <1>8 DEF ExecuteBatch, BatchSizeOk
      <4>2. Len(ops) \in Nat /\ Len(ops) # 0 /\ MaxBatchSize \in Nat
        BY <4>1
      <4>. QED  BY <1>8, <4>1, <4>2 DEF ExecuteBatch
    <3>3. Accounted(f.ops, f.done, f.success, f.saved.effects, effects')
      BY <1>1, <3>1, <3>2, AccountedNothing
    <3>. QED  BY <2>3, <3>1, <3>2, <3>3 DEF InFlight
  <2>5. signers' \subseteq Admin \cup Caller \cup {Batcher, Absent}
    BY <1>8 DEF ExecuteBatch
  <2>. QED  BY <1>3, <2>1, <2>2, <2>3, <2>4, <2>5
<1>9. CASE InvokeTarget
  <2>. PICK f : f = [Batch EXCEPT !.calling = Snapshot]
    OBVIOUS
  <2>1. /\ frames # <<>> /\ frames' = Front(frames) \o <<f>> /\ signers' = {}
        /\ UNCHANGED storage /\ Batch.done < Len(Batch.ops)
    BY <1>9 DEF InvokeTarget, SetBatch
  <2>2. frames' = <<f>> /\ Batch \in Frame /\ InFlight(Batch) /\ executing
    BY <2>1, OnlyFrame
  <2>3. Snapshot' = Snapshot
    BY <2>1 DEF storage, Snapshot
  <2>4. f \in Frame
    BY <1>1, <2>2 DEF Frame
  <2>5. /\ f.saved = Batch.saved /\ f.calling = Snapshot
        /\ f.done = Batch.done /\ f.ops = Batch.ops
        /\ f.success = Batch.success /\ f.failure = Batch.failure
    BY <2>2 DEF Frame
  <2>6. InFlight(f)'
    <3>1. /\ Snapshot.executing /\ Extends(Snapshot, Snapshot)
          /\ Snapshot.effects = effects /\ effects' = effects
      BY <2>1, <2>2 DEF Snapshot, Extends, storage
    <3>. QED  BY <2>1, <2>2, <2>3, <2>5, <3>1 DEF InFlight
  <2>7. (Snapshot \in Storage)' /\ executing'
    BY <1>1, <2>1, <2>2 DEF storage, Snapshot, Storage
  <2>. QED  BY <1>3, <2>1, <2>2, <2>4, <2>6, <2>7
<1>10. CASE TargetReturns
  <2>. PICK f : f = CountedSuccess
    OBVIOUS
  <2>1. /\ frames # <<>> /\ frames' = Front(frames) \o <<f>> /\ signers' = {}
        /\ effects' = Append(effects, Current) /\ Batch.calling # Absent
        /\ UNCHANGED <<admin, meta, executing, result>>
    BY <1>10 DEF TargetReturns, SetBatch
  <2>2. frames' = <<f>> /\ Batch \in Frame /\ InFlight(Batch) /\ executing
    BY <2>1, OnlyFrame
  <2>3. Current \in Operation
    <3>1. Batch.done + 1 \in 1..Len(Batch.ops) /\ Batch.ops \in Seq(Operation)
      BY <2>1, <2>2 DEF InFlight, Frame
    <3>. QED  BY <3>1 DEF Current
  <2>4. /\ f \in Frame /\ f.saved = Batch.saved /\ f.calling = Absent
        /\ f.ops = Batch.ops /\ f.done = Batch.done + 1 /\ f.success = Batch.success + 1
        /\ f.success + f.failure = Batch.success + Batch.failure + 1
    BY <2>2, Counted
  <2>5. (Snapshot \in Storage)'
    <3>1. effects' \in Seq(Operation)
      BY <1>1, <2>1, <2>3
    <3>. QED  BY <1>1, <2>1, <3>1 DEF Snapshot, Storage
  <2>6. InFlight(f)'
    <3>1. Extends(Batch.saved, Snapshot')
      BY <2>1, <2>2 DEF InFlight, Extends, Snapshot
    <3>2. /\ Batch.ops \in Seq(Operation) /\ Batch.done \in Nat /\ Batch.done < Len(Batch.ops)
          /\ Batch.saved.effects \in Seq(Operation)
      BY <2>1, <2>2 DEF InFlight, Frame, Storage
    <3>3. Accounted(f.ops, f.done, f.success, f.saved.effects, effects')
      BY <2>1, <2>2, <2>4, <3>2, AccountedSuccess DEF InFlight, Current
    <3>4. f.ops \in Batches /\ Len(f.ops) \in 1..MaxBatchSize /\ f.done <= Len(f.ops)
      BY <2>2, <2>4, <3>2 DEF InFlight
    <3>5. f.success + f.failure = f.done
      BY <2>2, <2>4 DEF InFlight
    <3>. QED  BY <2>2, <2>4, <3>1, <3>3, <3>4, <3>5 DEF InFlight
  <2>. QED  BY <1>3, <2>1, <2>2, <2>4, <2>5, <2>6
<1>11. CASE TargetFails
  <2>. PICK f : f = CountedFailure
    OBVIOUS
  <2>1. /\ frames # <<>> /\ frames' = Front(frames) \o <<f>> /\ signers' = {}
        /\ Batch.calling # Absent /\ Restore(Batch.calling)
    BY <1>11 DEF TargetFails, SetBatch
  <2>2. /\ frames' = <<f>> /\ Batch \in Frame /\ InFlight(Batch)
        /\ Batch.calling \in Storage
    BY <2>1, OnlyFrame
  <2>3. Snapshot' = Batch.calling /\ (Snapshot \in Storage)'
    BY <2>1, <2>2, RestoreSnapshot
  <2>4. /\ f \in Frame /\ f.saved = Batch.saved /\ f.calling = Absent
        /\ f.ops = Batch.ops /\ f.done = Batch.done + 1 /\ f.success = Batch.success
        /\ f.success + f.failure = Batch.success + Batch.failure + 1
    BY <2>2, Counted
  <2>5. InFlight(f)' /\ executing'
    <3>1. /\ Batch.ops \in Seq(Operation) /\ Batch.done \in Nat /\ Batch.done < Len(Batch.ops)
          /\ effects' = effects /\ executing'
      BY <2>1, <2>2 DEF InFlight, Frame, Restore
    <3>2. Accounted(f.ops, f.done, f.success, f.saved.effects, effects')
      <4>1. ~Batch.ops[Batch.done + 1].require_success
        BY <1>11 DEF TargetFails, MayFail, Current
      <4>. QED  BY <2>2, <2>4, <3>1, <4>1, AccountedFailure DEF InFlight
    <3>3. f.ops \in Batches /\ Len(f.ops) \in 1..MaxBatchSize /\ f.done <= Len(f.ops)
      BY <2>2, <2>4, <3>1 DEF InFlight
    <3>4. f.success + f.failure = f.done
      BY <2>2, <2>4 DEF InFlight
    <3>. QED  BY <2>1, <2>2, <2>3, <2>4, <3>1, <3>2, <3>3, <3>4 DEF InFlight
  <2>. QED  BY <1>3, <2>1, <2>2, <2>3, <2>4, <2>5
<1>12. CASE RequiredFails \/ Trap
  <2>1. /\ frames # <<>> /\ Restore(Batch.saved) /\ frames' = <<>> /\ signers' = {}
    BY <1>12, OnlyFrame DEF RequiredFails, Trap
  <2>2. Batch.saved \in Storage /\ ~Batch.saved.executing
    BY <2>1, OnlyFrame DEF InFlight
  <2>3. (Snapshot \in Storage)'
    BY <2>1, <2>2, RestoreSnapshot
  <2>4. ~executing'
    BY <2>1, <2>2 DEF Restore
  <2>. QED  BY <1>2, <2>1, <2>3, <2>4
<1>13. CASE FinishBatch
  <2>1. /\ frames # <<>> /\ frames' = <<>> /\ signers' = {} /\ ~executing'
        /\ result' = [success |-> Batch.success, failure |-> Batch.failure]
        /\ UNCHANGED <<admin, meta, effects>>
    BY <1>13, OnlyFrame DEF FinishBatch, ReleaseGuard
  <2>2. result' \in BatchResult
    BY <2>1, OnlyFrame DEF BatchResult, Frame
  <2>3. (Snapshot \in Storage)'
    <3>1. executing' = FALSE
      BY <1>13 DEF FinishBatch, ReleaseGuard
    <3>. QED  BY <1>1, <2>1, <2>2, <3>1 DEF Snapshot, Storage
  <2>. QED  BY <1>2, <2>1, <2>3
<1>14. CASE UNCHANGED vars
  <2>1. Snapshot' = Snapshot /\ UNCHANGED <<frames, executing, effects, signers>>
    BY <1>14 DEF vars, storage, Snapshot
  <2>2. Extends(Snapshot, Snapshot') /\ (Snapshot \in Storage)'
    BY <1>1, <1>14, <2>1 DEF Extends, Snapshot, vars, storage, Storage
  <2>. QED  BY <1>1, <1>4, <2>1, <2>2 DEF TypeOK
<1>15. CASE BatchStep
  BY <1>9, <1>10, <1>11, <1>12, <1>13, <1>15 DEF BatchStep
<1>. QED
  BY <1>5, <1>6, <1>7, <1>8, <1>14, <1>15 DEF Next, SubmitBatch

\* The inductive invariant holds in every reachable state.
THEOREM BatchInvariance == ASSUME Assumptions PROVE Spec => []BatchInv
<1>1. Init => BatchInv
  <2> SUFFICES ASSUME Init  PROVE BatchInv
    OBVIOUS
  <2>1. Snapshot \in Storage
    BY EmptySeq, StorageTypes DEF Init
  <2>2. frames = <<>> /\ Len(<<>>) <= 1 /\ <<>> \in Seq(Frame)
    BY EmptySeq DEF Init
  <2>. QED  BY <2>1, <2>2 DEF Init, BatchInv, TypeOK
<1>2. BatchInv /\ [Next]_vars => BatchInv'
  BY BatchInvStep
<1>. QED
  BY <1>1, <1>2, PTL DEF Spec

\* Every stored value keeps its type, and so does what a batch in flight
\* would be rolled back to.
THEOREM TypeCorrect == ASSUME Assumptions PROVE Spec => []TypeOK
<1>1. BatchInv => TypeOK
  BY DEF BatchInv
<1>. QED
  BY <1>1, BatchInvariance, PTL

(* ------------------------------ The guard ------------------------------ *)

\* The guard is set exactly while a batch is in flight, no batch is started
\* inside another and a rollback unlocks the batcher (execute_batch).
THEOREM GuardHolds == ASSUME Assumptions PROVE Spec => []GuardTracksBatch
<1>1. BatchInv => GuardTracksBatch
  <2> SUFFICES ASSUME BatchInv, NEW i \in 1..Len(frames)
               PROVE  ~frames[i].saved.executing
    BY DEF GuardTracksBatch, BatchInv
  <2>1. i = 1 /\ frames # <<>>
    BY EmptySeq DEF BatchInv, TypeOK
  <2>. QED  BY <2>1 DEF BatchInv, InFlight
<1>. QED
  BY <1>1, BatchInvariance, PTL

(* ----------------------- Counters and the effects ---------------------- *)

\* The counters of a batch in flight account for its effects, in order and
\* with nothing required left out (execute_batch).
THEOREM BatchAccountedHolds == ASSUME Assumptions PROVE Spec => []BatchAccounted
<1>1. BatchInv => BatchAccounted
  <2> SUFFICES ASSUME BatchInv, NEW i \in 1..Len(frames)
               PROVE  /\ Len(frames[i].ops) \in 1..MaxBatchSize
                      /\ frames[i].success + frames[i].failure = frames[i].done
                      /\ Accounted(frames[i].ops, frames[i].done, frames[i].success,
                                   frames[i].saved.effects, effects)
    BY DEF BatchAccounted, Accounted
  <2>1. i = 1 /\ frames # <<>>
    BY EmptySeq DEF BatchInv, TypeOK
  <2>. QED  BY <2>1 DEF BatchInv, InFlight
<1>. QED
  BY <1>1, BatchInvariance, PTL

(* --------------------------- Atomic batches ---------------------------- *)

\* Outside the transaction a batch takes effect when it returns Ok, in one
\* step and with nothing required left out, and otherwise never: what is
\* committed changes in FinishBatch alone (execute_batch).
LEMMA AtomicStep ==
  ASSUME Assumptions, BatchInv, [Next]_vars
  PROVE  Atomic!Next \/ UNCHANGED Committed.effects
<1> DEFINE Kept == Committed'.effects = Committed.effects
<1>1. ASSUME UNCHANGED <<frames, effects>>  PROVE Kept
  BY <1>1 DEF Committed, Snapshot
<1>2. ASSUME NEW c, NEW ops, ExecuteBatch(c, ops)  PROVE Kept
  <2>1. frames = <<>>
    BY <1>2 DEF ExecuteBatch, GuardFree, BatchInv
  <2>2. frames' # <<>> /\ frames'[1].saved = Snapshot
    BY <1>2, <2>1 DEF ExecuteBatch
  <2>. QED  BY <2>1, <2>2 DEF Committed
<1>3. CASE InvokeTarget \/ TargetReturns \/ TargetFails
  <2>1. PICK b : frames # <<>> /\ frames' = Front(frames) \o <<b>> /\ b.saved = Batch.saved
    <3>1. frames # <<>> => Batch \in Frame
      BY OnlyFrame
    <3>2. frames # <<>> => /\ [Batch EXCEPT !.calling = Snapshot].saved = Batch.saved
                           /\ CountedSuccess.saved = Batch.saved
                           /\ CountedFailure.saved = Batch.saved
      BY <3>1 DEF CountedSuccess, CountedFailure, Frame
    <3>. QED
      BY <1>3, <3>2, Zenon DEF InvokeTarget, TargetReturns, TargetFails, SetBatch
  <2>2. frames' = <<b>> /\ Batch = frames[1]
    BY <2>1, OnlyFrame
  <2>3. frames' # <<>> /\ frames'[1].saved = frames[1].saved
    BY <2>1, <2>2
  <2>. QED  BY <2>1, <2>3 DEF Committed
<1>4. CASE RequiredFails \/ Trap
  <2>1. /\ frames # <<>> /\ Restore(Batch.saved) /\ frames' = <<>> /\ Batch = frames[1]
        /\ Batch.saved \in Storage
    BY <1>4, OnlyFrame DEF RequiredFails, Trap
  <2>2. Snapshot' = Batch.saved
    BY <2>1, RestoreSnapshot
  <2>. QED  BY <2>1, <2>2 DEF Committed
<1>5. CASE FinishBatch
  <2>1. /\ frames # <<>> /\ frames' = <<>> /\ effects' = effects
        /\ Batch = frames[1] /\ InFlight(Batch) /\ Batch.done = Len(Batch.ops)
    BY <1>5, OnlyFrame DEF FinishBatch
  <2>2. Committed.effects = Batch.saved.effects /\ Committed'.effects = effects
    BY <2>1 DEF Committed, Snapshot
  <2>3. PICK kept \in Atomic!Selections(Len(Batch.ops)) :
          /\ Atomic!Faithful(Batch.ops, Len(Batch.ops), kept)
          /\ effects = Batch.saved.effects \o Atomic!Chosen(Batch.ops, kept)
    BY <2>1 DEF InFlight, Accounted
  <2>4. Atomic!Commit(Batch.ops, kept)
    BY <2>2, <2>3 DEF Atomic!Commit
  <2>. QED  BY <2>1, <2>4 DEF Atomic!Next, InFlight
<1>. QED
  BY <1>1, <1>2, <1>3, <1>4, <1>5, Zenon
  DEF Next, BatchStep, SubmitBatch, Initialize, Upgrade, SetRegistryMetadata, vars, storage

THEOREM BatchesAreAtomic == ASSUME Assumptions PROVE Spec => ImplementsAtomicBatch
<1>1. Init => Atomic!Init
  BY DEF Init, Atomic!Init, Committed, Snapshot
<1>. QED
  BY <1>1, AtomicStep, BatchInvariance, PTL DEF Spec, ImplementsAtomicBatch, Atomic!Spec

(* ----------------------------- Written once ---------------------------- *)

\* What is committed extends what was committed before.
LEMMA CommitsExtend ==
  ASSUME Assumptions, BatchInv, BatchInv', [Next]_vars
  PROVE  Extends(Committed, Committed')
<1> DEFINE Kept == Extends(Committed, Committed')
<1>1. ASSUME frames # <<>>, frames' = <<>>, Extends(frames[1].saved, Snapshot')  PROVE Kept
  BY <1>1 DEF Committed
<1>2. ASSUME frames = <<>>, frames' = <<>>, Extends(Snapshot, Snapshot')  PROVE Kept
  BY <1>2 DEF Committed
<1>3. ASSUME frames # <<>>, frames' # <<>>, frames'[1].saved = frames[1].saved  PROVE Kept
  BY <1>3 DEF Committed, Extends
<1>4. ASSUME UNCHANGED frames, Extends(Snapshot, Snapshot')  PROVE Kept
  BY <1>2, <1>3, <1>4
<1>5. ASSUME NEW a \in Admin, Initialize(a)  PROVE Kept
  <2>1. Extends(Snapshot, Snapshot')
    BY <1>5 DEF Initialize, Snapshot, Extends
  <2>. QED  BY <1>4, <1>5, <2>1 DEF Initialize
<1>6. CASE Upgrade \/ UNCHANGED vars
  <2>1. UNCHANGED frames /\ Extends(Snapshot, Snapshot')
    BY <1>6 DEF Upgrade, vars, storage, Snapshot, Extends
  <2>. QED  BY <1>4, <2>1
<1>7. ASSUME NEW m \in Meta, SetRegistryMetadata(m)  PROVE Kept
  <2>1. Extends(Snapshot, Snapshot')
    BY <1>7 DEF SetRegistryMetadata, MetaUnset, Snapshot, Extends
  <2>. QED  BY <1>4, <1>7, <2>1 DEF SetRegistryMetadata
<1>8. ASSUME NEW c, NEW ops, ExecuteBatch(c, ops)  PROVE Kept
  <2>1. frames = <<>>
    BY <1>8 DEF ExecuteBatch, GuardFree, BatchInv
  <2>2. frames' # <<>> /\ frames'[1].saved = Snapshot
    BY <1>8, <2>1 DEF ExecuteBatch
  <2>. QED  BY <2>1, <2>2 DEF Committed, Extends
<1>9. CASE InvokeTarget \/ TargetReturns \/ TargetFails
  <2>1. PICK b : frames # <<>> /\ frames' = Front(frames) \o <<b>> /\ b.saved = Batch.saved
    <3>1. frames # <<>> => Batch \in Frame
      BY OnlyFrame
    <3>2. frames # <<>> => /\ [Batch EXCEPT !.calling = Snapshot].saved = Batch.saved
                           /\ CountedSuccess.saved = Batch.saved
                           /\ CountedFailure.saved = Batch.saved
      BY <3>1 DEF CountedSuccess, CountedFailure, Frame
    <3>. QED
      BY <1>9, <3>2, Zenon DEF InvokeTarget, TargetReturns, TargetFails, SetBatch
  <2>2. frames' = <<b>> /\ Batch = frames[1]
    BY <2>1, OnlyFrame
  <2>3. frames' # <<>> /\ frames'[1].saved = frames[1].saved
    BY <2>1, <2>2
  <2>. QED  BY <1>3, <2>1, <2>3
<1>10. CASE RequiredFails \/ Trap
  <2>1. /\ frames # <<>> /\ Restore(Batch.saved) /\ frames' = <<>> /\ Batch = frames[1]
        /\ Batch.saved \in Storage
    BY <1>10, OnlyFrame DEF RequiredFails, Trap
  <2>2. Snapshot' = Batch.saved
    BY <2>1, RestoreSnapshot
  <2>3. Extends(frames[1].saved, Snapshot')
    BY <2>1, <2>2 DEF Extends
  <2>. QED  BY <1>1, <2>1, <2>3
<1>11. CASE FinishBatch
  <2>1. /\ frames # <<>> /\ frames' = <<>> /\ UNCHANGED <<admin, meta>>
        /\ Batch = frames[1] /\ InFlight(Batch)
    BY <1>11, OnlyFrame DEF FinishBatch
  <2>2. Extends(frames[1].saved, Snapshot')
    BY <2>1 DEF InFlight, Extends, Snapshot
  <2>. QED  BY <1>1, <2>1, <2>2
<1>. QED
  BY <1>5, <1>6, <1>7, <1>8, <1>9, <1>10, <1>11, Zenon DEF Next, BatchStep, SubmitBatch

\* Metadata that appears was signed for by the admin: a rollback never brings
\* back metadata that is not there.
LEMMA MetaSigned ==
  ASSUME Assumptions, BatchInv, [Next]_vars, meta' # meta, meta' # Absent
  PROVE  admin \in signers'
<1>1. ASSUME NEW s \in Storage, Extends(s, Snapshot), Restore(s)  PROVE FALSE
  BY <1>1 DEF Extends, Snapshot, Restore
<1>2. ~(TargetFails \/ RequiredFails \/ Trap)
  <2>1. ASSUME frames # <<>>
        PROVE  /\ Batch = frames[1]
               /\ Batch.saved \in Storage /\ Extends(Batch.saved, Snapshot)
               /\ Batch.calling # Absent =>
                    Batch.calling \in Storage /\ Extends(Batch.calling, Snapshot)
    BY <2>1, OnlyFrame DEF InFlight
  <2>. QED  BY <1>1, <2>1 DEF TargetFails, RequiredFails, Trap
<1>3. PICK m \in Meta : SetRegistryMetadata(m)
  BY <1>2 DEF Next, BatchStep, vars, storage, Initialize, Upgrade, ExecuteBatch, SubmitBatch,
              InvokeTarget, TargetReturns, FinishBatch
<1>. QED  BY <1>3 DEF SetRegistryMetadata, RequireAdmin

\* The admin and the metadata are written once, also when a callback writes
\* them and is rolled back (initialize, set_registry_metadata).
THEOREM WrittenOnceHolds == ASSUME Assumptions PROVE Spec => WrittenOnce
<1> DEFINE Once == /\ Committed.admin # Absent => Committed'.admin = Committed.admin
                   /\ Committed.meta # Absent => Committed'.meta = Committed.meta
                   /\ meta' # meta /\ meta' # Absent => admin \in signers'
<1>1. ASSUME BatchInv, BatchInv', [Next]_vars  PROVE Once
  BY <1>1, CommitsExtend, MetaSigned DEF Extends
<1>. QED
  BY <1>1, BatchInvariance, PTL DEF Spec, WrittenOnce

(* ----------------------- What a batch has left to do ------------------- *)

\* The steps a batch in flight has left when nothing fails: two for each
\* operation, of which the call is one, and its end.
Left(f) == 2 * (Len(f.ops) - f.done) + (IF f.calling = Absent THEN 1 ELSE 0)

StepsLeft == IF frames = <<>> THEN 0 ELSE Left(frames[1])

\* A batch in flight holds the guard and has something left to do, within what
\* the cap on its size allows.
BatchesAreShort ==
  /\ StepsLeft \in 0..(2 * MaxBatchSize + 1)
  /\ executing <=> StepsLeft > 0

\* What stands behind BatchesEnd, without its fairness: every step of the batch
\* in flight leaves less to do, and whatever targets call back in between, no
\* other step leaves more. A batch that began is over, and the guard released,
\* after at most 2 * MAX_BATCH_SIZE + 1 of its steps.
StepsRunOut ==
  [][/\ executing => StepsLeft' <= StepsLeft
     /\ BatchStep => StepsLeft' < StepsLeft]_vars

\* The number of steps left is one, and is none only when nothing is in flight.
LEMMA LeftType ==
  ASSUME Assumptions, NEW f \in Frame, InFlight(f)
  PROVE  Left(f) \in 1..(2 * MaxBatchSize + 1)
<1>1. PICK n \in Nat, d \in Nat : n = Len(f.ops) /\ d = f.done /\ d <= n /\ n <= MaxBatchSize
  BY DEF InFlight, Frame
<1>2. MaxBatchSize \in Nat /\ (f.calling # Absent => d < n)
  BY <1>1 DEF Assumptions, InFlight
<1>. PICK c : c = IF f.calling = Absent THEN 1 ELSE 0
  OBVIOUS
<1>3. c \in 0..1 /\ Left(f) = 2 * (n - d) + c /\ (c = 0 => d < n)
  BY <1>1, <1>2 DEF Left
<1>4. 2 * (n - d) + c >= 1 /\ 2 * (n - d) + c <= 2 * MaxBatchSize + 1
  BY ONLY <1>1, <1>2, <1>3
<1>. QED  BY <1>2, <1>3, <1>4

\* See BatchesAreShort (execute_batch).
THEOREM BatchesAreShortHolds == ASSUME Assumptions PROVE Spec => []BatchesAreShort
<1>1. BatchInv => BatchesAreShort
  <2> SUFFICES ASSUME BatchInv  PROVE BatchesAreShort
    OBVIOUS
  <2>1. CASE frames = <<>>
    BY <2>1 DEF BatchInv, BatchesAreShort, StepsLeft, Assumptions
  <2>2. CASE frames # <<>>
    <3>1. frames[1] \in Frame /\ InFlight(frames[1]) /\ executing
      BY <2>2, OnlyFrame
    <3>2. Left(frames[1]) \in 1..(2 * MaxBatchSize + 1)
      BY <3>1, LeftType
    <3>. QED  BY <2>2, <3>1, <3>2 DEF BatchesAreShort, StepsLeft, Assumptions
  <2>. QED  BY <2>1, <2>2
<1>. QED
  BY <1>1, BatchInvariance, PTL

\* A call to a target is one step less, and so is each way of coming back.
LEMMA BatchStepsAdvance ==
  ASSUME Assumptions, BatchInv, BatchStep
  PROVE  StepsLeft' < StepsLeft
<1>1. /\ frames # <<>> /\ Batch = frames[1] /\ Batch \in Frame /\ InFlight(Batch)
      /\ StepsLeft = Left(Batch) /\ Left(Batch) \in Nat /\ Left(Batch) > 0
  <2>1. frames # <<>>
    BY DEF BatchStep, InvokeTarget, TargetReturns, TargetFails, RequiredFails, Trap, FinishBatch
  <2>2. Batch = frames[1] /\ Batch \in Frame /\ InFlight(Batch)
    BY <2>1, OnlyFrame
  <2>3. Left(Batch) \in 1..(2 * MaxBatchSize + 1) /\ MaxBatchSize \in Nat
    BY <2>2, LeftType DEF Assumptions
  <2>. QED  BY <2>1, <2>2, <2>3 DEF StepsLeft
<1>2. ASSUME NEW b, frames' = <<b>>, Left(b) = Left(Batch) - 1
      PROVE  StepsLeft' < StepsLeft
  <2>1. StepsLeft' = Left(b)
    BY <1>2 DEF StepsLeft, Left
  <2>. QED  BY <1>1, <1>2, <2>1
<1>3. PICK n \in Int, d \in Int : n = Len(Batch.ops) /\ d = Batch.done
  BY <1>1 DEF Frame
<1>4. CASE InvokeTarget
  <2>. PICK b : b = [Batch EXCEPT !.calling = Snapshot]
    OBVIOUS
  <2>1. frames' = <<b>> /\ Batch.calling = Absent
    BY <1>1, <1>4, OnlyFrame DEF InvokeTarget, SetBatch
  <2>2. b.ops = Batch.ops /\ b.done = d /\ b.calling = Snapshot
    BY <1>1, <1>3 DEF Frame
  <2>3. Snapshot # Absent
    BY DEF BatchInv, TypeOK, Assumptions
  <2>4. Left(b) = Left(Batch) - 1
    BY <1>3, <2>1, <2>2, <2>3 DEF Left
  <2>. QED  BY <1>2, <2>1, <2>4
<1>5. CASE TargetReturns \/ TargetFails
  <2>1. PICK b \in {CountedSuccess, CountedFailure} : frames' = <<b>> /\ Batch.calling # Absent
    BY <1>1, <1>5, OnlyFrame DEF TargetReturns, TargetFails, SetBatch
  <2>2. b.ops = Batch.ops /\ b.done = d + 1 /\ b.calling = Absent
    BY <1>1, <1>3, <2>1, Counted
  <2>3. Left(b) = Left(Batch) - 1
    <3>1. Left(b) = 2 * (n - (d + 1)) + 1 /\ Left(Batch) = 2 * (n - d) + 0
      BY <1>3, <2>1, <2>2 DEF Left
    <3>2. 2 * (n - (d + 1)) + 1 = 2 * (n - d) + 0 - 1
      BY ONLY n \in Int, d \in Int
    <3>. QED  BY <3>1, <3>2
  <2>. QED  BY <1>2, <2>1, <2>3
<1>6. CASE RequiredFails \/ Trap \/ FinishBatch
  <2>1. frames' = <<>>
    BY <1>1, <1>6, OnlyFrame DEF RequiredFails, Trap, FinishBatch
  <2>. QED  BY <1>1, <2>1 DEF StepsLeft
<1>. QED  BY <1>4, <1>5, <1>6 DEF BatchStep

\* Each step of a batch brings it nearer to its end, and nothing that a target
\* calls back in between takes it further away: the guard refuses the only
\* entrypoint that could (execute_batch).
THEOREM StepsRunOutHolds == ASSUME Assumptions PROVE Spec => StepsRunOut
<1>1. ASSUME BatchInv, [Next]_vars
      PROVE  /\ executing => StepsLeft' <= StepsLeft
             /\ BatchStep => StepsLeft' < StepsLeft
  <2>1. BatchStep => StepsLeft' < StepsLeft
    BY <1>1, BatchStepsAdvance
  <2>2. StepsLeft \in Int
    <3>1. ASSUME frames # <<>>  PROVE StepsLeft \in Int
      <4>1. frames[1] \in Frame /\ InFlight(frames[1])
        BY <1>1, <3>1, OnlyFrame
      <4>2. Left(frames[1]) \in 1..(2 * MaxBatchSize + 1)
        BY <4>1, LeftType
      <4>. QED  BY <3>1, <4>2 DEF StepsLeft
    <3>. QED  BY <3>1 DEF StepsLeft
  <2>3. ASSUME executing, ~BatchStep  PROVE StepsLeft' <= StepsLeft
    <3>1. UNCHANGED frames
      BY <1>1, <2>3 DEF Next, vars, Initialize, Upgrade, SetRegistryMetadata, ExecuteBatch,
                        SubmitBatch, GuardFree
    <3>2. StepsLeft' = StepsLeft
      BY <3>1 DEF StepsLeft, Left
    <3>. QED  BY <2>2, <3>2
  <2>4. BatchStep => StepsLeft' <= StepsLeft
    <3>1. ASSUME BatchStep  PROVE StepsLeft' \in Int
      <4>1. BatchInv'
        BY <1>1, BatchInvStep
      <4>2. ASSUME frames' # <<>>  PROVE StepsLeft' \in Int
        <5>1. frames'[1] \in Frame /\ InFlight(frames[1])'
          BY <4>1, <4>2, OneFrameType DEF BatchInv, TypeOK
        <5>. QED  BY <4>2, <5>1 DEF StepsLeft, Left, Frame
      <4>. QED  BY <4>2 DEF StepsLeft
    <3>. QED  BY <2>1, <2>2, <3>1
  <2>. QED  BY <2>1, <2>3, <2>4
<1>. QED
  BY <1>1, BatchInvariance, PTL DEF Spec, StepsRunOut

=============================================================================
