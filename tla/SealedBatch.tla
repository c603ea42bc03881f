------------------------------ MODULE SealedBatch ------------------------------
(***************************************************************************)
(* What an attester checks before it mints a SpendingUnit v2 from a batch  *)
(* the bank-data provider has sealed                                       *)
(* (pso-attester-integration/src/lib.rs, issue_from_sealed_batch).         *)
(*                                                                         *)
(* A hash is its preimage under a tag of its own, and a signature is the   *)
(* key and the message: nobody finds a second preimage and nobody signs    *)
(* without the key.  An amount (currency, base, atto) is one value.        *)
(***************************************************************************)
EXTENDS Naturals, Sequences, SequencesExt

CONSTANTS
  Modulus,  \* BN254_R
  MaxSeals

ASSUME SealedBatchAssumption ==
  /\ Modulus \in Nat \ {0}
  /\ MaxSeals \in Nat \ {0}

\* Mutant of SealId: the id of a pool's contents in any sync of the context.
SealIdOfContext(ctx, sequence, seal) == <<"seal", ctx, seal.pool, seal.count, seal.fold>>

SealId(ctx, sequence, seal) == <<"seal", ctx, sequence, seal.pool, seal.count, seal.fold>>

SettlementId(ctx, sequence) == <<"settlement", ctx, sequence>>

\* What the committee signs: one pool of one sync, for one attester.
HandleMessage(address, ctx, id, seal) ==
  [attester |-> address, ctx |-> ctx, id |-> id, count |-> seal.count, fold |-> seal.fold,
   epoch |-> seal.epoch, day |-> seal.day]

\* What the enclave signs, once for each sync.
SettlementMessage(batch, manifest) ==
  [ctx |-> batch.ctx, manifest |-> manifest, sequence |-> batch.sequence,
   amount |-> batch.amount, day |-> batch.day, count |-> batch.count, fold |-> batch.fold]

Sign(key, message) == [key |-> key, message |-> message]
Verifies(signature, key, message) == signature = Sign(key, message)

\* Mutant of Ascending: a pool may follow itself.
NotDescending(seals) ==
  \A i \in 2..Len(seals) : seals[i - 1].pool <= seals[i].pool

Ascending(seals) ==
  \A i \in 2..Len(seals) : seals[i - 1].pool < seals[i].pool

\* An epoch's key signs the days from its start to the next epoch's; 0 is no end.
InWindow(day, entry) ==
  /\ entry.start <= day
  /\ entry.end = 0 \/ day < entry.end

\* Mutant of SealHolds: the window of the key is not looked at.
SealHoldsAnyDay(address, batch, epochs, seal) ==
  \E i \in 1..Len(epochs) :
    /\ i = SelectInSeq(epochs, LAMBDA k : k.epoch = seal.epoch)
    /\ seal.key = epochs[i].key
    /\ Verifies(seal.handle, epochs[i].key,
                HandleMessage(address, batch.ctx,
                              SealId(batch.ctx, batch.sequence, seal), seal))

\* The first entry for the seal's epoch is the one that counts.
SealHolds(address, batch, epochs, seal) ==
  \E i \in 1..Len(epochs) :
    /\ i = SelectInSeq(epochs, LAMBDA k : k.epoch = seal.epoch)
    /\ InWindow(seal.day, epochs[i])
    /\ seal.key = epochs[i].key
    /\ Verifies(seal.handle, epochs[i].key,
                HandleMessage(address, batch.ctx,
                              SealId(batch.ctx, batch.sequence, seal), seal))

\* The sums of the loop over the seals; `count` is a u128 that five u64 cannot fill.
CountOf(seals) == FoldLeft(LAMBDA n, s : n + s.count, 0, seals)
FoldOf(seals) == FoldLeft(LAMBDA f, s : (f + s.fold) % Modulus, 0, seals)
DayOf(seals) == FoldLeft(LAMBDA d, s : IF s.day > d THEN s.day ELSE d, 0, seals)

\* Mutant of AddUp: the folds are summed as integers.
AddUpUnreduced(batch) ==
  /\ CountOf(batch.seals) = batch.count
  /\ FoldLeft(LAMBDA f, s : f + s.fold, 0, batch.seals) = batch.fold
  /\ DayOf(batch.seals) = batch.day

AddUp(batch) ==
  /\ CountOf(batch.seals) = batch.count
  /\ FoldOf(batch.seals) = batch.fold
  /\ DayOf(batch.seals) = batch.day

\* issue_from_sealed_batch returns Ok.
Issues(address, batch, record, epochs) ==
  /\ Len(batch.seals) \in 1..MaxSeals
  /\ Ascending(batch.seals)
  /\ \A i \in 1..Len(batch.seals) : SealHolds(address, batch, epochs, batch.seals[i])
  /\ AddUp(batch)
  /\ Verifies(batch.signature, record.enclave, SettlementMessage(batch, record.manifest))

\* The SpendingUnit it returns then; its id is the header's.
UnitOf(address, su, batch) ==
  [su |-> su, attester |-> address, ctx |-> batch.ctx, day |-> batch.day,
   amount |-> batch.amount, id |-> SettlementId(batch.ctx, batch.sequence)]

=============================================================================
