----------------------------- MODULE MuxBatcher -----------------------------
(***************************************************************************)
(* contracts/mux-batcher: a batch of calls of other contracts, behind a    *)
(* reentrancy guard. An operation that is required aborts the batch when   *)
(* it fails, any other failure is counted.                                 *)
(*                                                                         *)
(* execute_batch is several steps here: the part before the loop, which    *)
(* leaves a frame in flight, for every operation the call and how it ends, *)
(* and the part after the loop. A failing target leaves nothing behind     *)
(* (try_invoke_contract), nor does a batch that ends with Err or runs out  *)
(* of resources: the host puts back what the frame found, the guard and    *)
(* the effects of the operations that had succeeded included.              *)
(*                                                                         *)
(* With HostReentry a target may call the batcher back, which is what the  *)
(* guard is there for; a host that prohibits reentry is the instance       *)
(* HostReentry = FALSE.                                                    *)
(*                                                                         *)
(* effects is what operations did outside the batcher. History: signers is *)
(* who the latest invocation required the signature of.                    *)
(***************************************************************************)
EXTENDS Naturals, SequencesExt

CONSTANTS
  Admin,
  Caller,       \* addresses that submit batches
  Batcher,      \* the address of the batcher itself
  Target,       \* contracts the operations call
  Batches,      \* batches offered
  Meta,         \* metadata values
  Absent,       \* no entry
  MaxBatchSize, \* MAX_BATCH_SIZE
  FeePerOp,     \* FEE_PER_OP
  MaxEffects,   \* bound: operations submitted in a behaviour
  HostReentry   \* BOOLEAN: may a target call the batcher back

Operation == [target : Target, require_success : BOOLEAN]

BatchResult == [success : Nat, failure : Nat]

Storage ==
  [admin : Admin \cup {Absent}, meta : Meta \cup {Absent}, executing : BOOLEAN,
   effects : Seq(Operation), result : BatchResult \cup {Absent}]

\* What the constants must satisfy.
Assumptions ==
  /\ Absent \notin Admin \cup Meta \cup Storage
  /\ Batches \subseteq Seq(Operation)
  /\ {MaxBatchSize, FeePerOp, MaxEffects} \subseteq Nat /\ HostReentry \in BOOLEAN

VARIABLES
  admin,     \* DataKey::Admin
  meta,      \* DataKey::Meta
  executing, \* DataKey::Executing
  effects,   \* operations that took effect, unless they are rolled back
  result,    \* the BatchResult of the latest batch that returned Ok
  frames,    \* batches in flight, innermost last
  signers    \* history

storage == <<admin, meta, executing, effects, result>>
vars == <<storage, frames, signers>>

Init ==
  /\ admin = Absent
  /\ meta = Absent
  /\ executing = FALSE
  /\ effects = <<>>
  /\ result = Absent
  /\ frames = <<>>
  /\ signers = {}

-----------------------------------------------------------------------------
(* Helpers. The definitions marked "Mutant" are plausible slips in the     *)
(* operator that follows; no specification here uses them.                 *)

\* The host runs an entrypoint from a transaction, or from a target called.
Callable == frames # <<>> => HostReentry /\ Last(frames).calling # Absent

RequireAdmin == Callable /\ admin # Absent /\ signers' = {admin}

BatchSizeOk(ops) == ops # <<>> /\ Len(ops) <= MaxBatchSize

GuardFree == ~executing

\* Mutant: the guard is left behind.
ReleaseGuardNever == executing' = executing

ReleaseGuard == executing' = FALSE

MetaUnset == meta = Absent

\* What the host puts back when a frame fails.
Snapshot ==
  [admin |-> admin, meta |-> meta, executing |-> executing, effects |-> effects,
   result |-> result]

\* Mutant: the effects of the operations before the failing one stay.
RestoreButEffects(s) ==
  /\ admin' = s.admin
  /\ meta' = s.meta
  /\ executing' = s.executing
  /\ effects' = effects
  /\ result' = s.result

Restore(s) ==
  /\ admin' = s.admin
  /\ meta' = s.meta
  /\ executing' = s.executing
  /\ effects' = s.effects
  /\ result' = s.result

Batch == Last(frames)
Current == Batch.ops[Batch.done + 1]

\* Mutant: a failure is counted as a success.
CountedFailureWrong == [Batch EXCEPT !.calling = Absent, !.done = @ + 1, !.success = @ + 1]

CountedFailure == [Batch EXCEPT !.calling = Absent, !.done = @ + 1, !.failure = @ + 1]

CountedSuccess == [Batch EXCEPT !.calling = Absent, !.done = @ + 1, !.success = @ + 1]

SetBatch(b) == frames' = Front(frames) \o <<b>>

-----------------------------------------------------------------------------
(* Views. *)

EstimateFees(n) == n * FeePerOp

\* Err(EmptyBatch) and Err(BatchTooLarge) are the two ways to be refused.
EstimateAccepted(n) == n \in 1..MaxBatchSize

\* A dry run counts every operation as a success and calls nothing.
SimulateBatch(ops) == [success |-> Len(ops), failure |-> 0]

-----------------------------------------------------------------------------
(* Entrypoints. *)

Initialize(a) ==
  /\ Callable
  /\ admin = Absent
  /\ signers' = {a}
  /\ admin' = a
  /\ UNCHANGED <<meta, executing, effects, result, frames>>

\* Upgrade changes the code alone.
Upgrade ==
  /\ RequireAdmin
  /\ UNCHANGED <<storage, frames>>

SetRegistryMetadata(m) ==
  /\ RequireAdmin
  /\ MetaUnset
  /\ meta' = m
  /\ UNCHANGED <<admin, executing, effects, result, frames>>

\* execute_batch up to its loop.
ExecuteBatch(c, ops) ==
  /\ Callable
  /\ signers' = {c}
  /\ BatchSizeOk(ops)
  /\ GuardFree
  /\ executing' = TRUE
  /\ frames' = Append(frames, [caller |-> c, ops |-> ops, done |-> 0, success |-> 0,
                               failure |-> 0, calling |-> Absent, saved |-> Snapshot])
  /\ UNCHANGED <<admin, meta, effects, result>>

\* submit_batch runs execute_batch in the name of the batcher.
SubmitBatch(ops) == ExecuteBatch(Batcher, ops)

-----------------------------------------------------------------------------
(* The loop. *)

InvokeTarget ==
  /\ frames # <<>>
  /\ Batch.calling = Absent
  /\ Batch.done < Len(Batch.ops)
  /\ SetBatch([Batch EXCEPT !.calling = Snapshot])
  /\ signers' = {}
  /\ UNCHANGED storage

TargetReturns ==
  /\ frames # <<>>
  /\ Batch.calling # Absent
  /\ effects' = Append(effects, Current)
  /\ SetBatch(CountedSuccess)
  /\ signers' = {}
  /\ UNCHANGED <<admin, meta, executing, result>>

MayFail == ~Current.require_success

TargetFails ==
  /\ frames # <<>>
  /\ Batch.calling # Absent
  /\ MayFail
  /\ Restore(Batch.calling)
  /\ SetBatch(CountedFailure)
  /\ signers' = {}

\* Err(RequiredOperationFailed). The guard the code removes here is put back
\* to what it was before the batch like everything else.
RequiredFails ==
  /\ frames # <<>>
  /\ Batch.calling # Absent
  /\ Current.require_success
  /\ Restore(Batch.saved)
  /\ frames' = Front(frames)
  /\ signers' = {}

\* The transaction runs out of resources, which nothing recovers from.
Trap ==
  /\ frames # <<>>
  /\ Restore(frames[1].saved)
  /\ frames' = <<>>
  /\ signers' = {}

FinishBatch ==
  /\ frames # <<>>
  /\ Batch.done = Len(Batch.ops)
  /\ ReleaseGuard
  /\ result' = [success |-> Batch.success, failure |-> Batch.failure]
  /\ frames' = Front(frames)
  /\ signers' = {}
  /\ UNCHANGED <<admin, meta, effects>>

-----------------------------------------------------------------------------

\* Bound on the behaviours.
Submitted == Len(effects) + FoldSeq(LAMBDA f, n : n + Len(f.ops), 0, frames)

BatchStep ==
  \/ InvokeTarget
  \/ TargetReturns
  \/ TargetFails
  \/ RequiredFails
  \/ Trap
  \/ FinishBatch

Next ==
  \/ \E a \in Admin : Initialize(a)
  \/ Upgrade
  \/ \E m \in Meta : SetRegistryMetadata(m)
  \/ \E ops \in Batches :
       /\ Submitted + Len(ops) <= MaxEffects
       /\ \/ \E c \in Caller : ExecuteBatch(c, ops)
          \/ SubmitBatch(ops)
  \/ BatchStep

Spec == Init /\ [][Next]_vars

\* The host meters every call, so that each step of a batch in flight ends.
FairSpec == Spec /\ WF_vars(BatchStep)

-----------------------------------------------------------------------------
(* Invariants. *)

\* What stays of the storage if the batch in flight fails, and what everybody
\* outside the transaction sees.
Committed == IF frames = <<>> THEN Snapshot ELSE frames[1].saved

Atomic == INSTANCE AtomicBatch WITH
  Required <- {op \in Operation : op.require_success},
  effects  <- Committed.effects

\* Types of every stored value (DataKey, BatchResult) and of what a batch in
\* flight carries, the storage it would be rolled back to included.
Frame ==
  [caller : Caller \cup {Batcher}, ops : Seq(Operation), done : Nat, success : Nat,
   failure : Nat, calling : Storage \cup {Absent}, saved : Storage]

TypeOK ==
  /\ Snapshot \in Storage
  /\ frames \in Seq(Frame)
  /\ signers \subseteq Admin \cup Caller \cup {Batcher, Absent}

\* The guard is set exactly while a batch is in flight and none is started
\* inside another, whatever targets call back: no path, the abort of a
\* required operation included, leaves the batcher locked or unguarded
\* (execute_batch).
GuardTracksBatch ==
  /\ executing <=> frames # <<>>
  /\ Len(frames) <= 1
  /\ \A i \in 1..Len(frames) : ~frames[i].saved.executing

\* The counters of a batch in flight account for its effects: as many
\* operations as were counted as successes took effect, in order, the others
\* were optional ones, and nothing else happened since the batch began, what
\* failing targets did before they failed included (execute_batch).
BatchAccounted ==
  \A i \in 1..Len(frames) :
    LET f == frames[i]
    IN /\ Len(f.ops) \in 1..MaxBatchSize
       /\ f.success + f.failure = f.done
       /\ \E kept \in Atomic!Selections(f.done) :
            /\ Len(kept) = f.success
            /\ Atomic!Faithful(f.ops, f.done, kept)
            /\ effects = f.saved.effects \o Atomic!Chosen(f.ops, kept)

-----------------------------------------------------------------------------
(* Temporal properties. *)

\* The admin and the metadata are written once: also when a target that is
\* called back from a batch writes them and the batch is then rolled back,
\* what was committed does not change any more; metadata is written with the
\* signature of the admin (initialize, set_registry_metadata).
WrittenOnce ==
  [][/\ Committed.admin # Absent => Committed'.admin = Committed.admin
     /\ Committed.meta # Absent => Committed'.meta = Committed.meta
     /\ meta' # meta /\ meta' # Absent => admin \in signers']_vars

\* Every batch comes to an end, and the guard with it: no batch locks the
\* batcher for those that follow (execute_batch and its three exits).
BatchesEnd == executing ~> ~executing

\* For the outside world a batch is atomic: it takes effect when it returns
\* Ok, completely as far as required, or never (execute_batch).
ImplementsAtomicBatch == Atomic!Spec
=============================================================================
