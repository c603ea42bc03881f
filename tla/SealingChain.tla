----------------------------- MODULE SealingChain -----------------------------
(***************************************************************************)
(* The three contracts a sealed batch settles through, as the suite and    *)
(* the attester crate drive them: FsEpochRegistry, the directory of the    *)
(* committees' keys; EnclaveRegistry, the deployments; SpendingUnitV2,     *)
(* which settles each loader context once                                  *)
(* (testsuite/src/scenarios/registries.rs, s051 to s053).                  *)
(*                                                                         *)
(* The contracts are under test, so they are not assumed to be right:      *)
(* `makes` holds the checks this build of them makes, and whether its      *)
(* genesis lets governance register an enclave.                            *)
(***************************************************************************)
EXTENDS SealedBatch, FiniteSets, FiniteSetsExt

CONSTANTS
  Nobody  \* the key of an epoch that is not there

Checks ==
  {"adminPath",   \* devnetAdminRegister: the genesis opens adminRegister
   "once",        \* anchor: refuses a second anchor
   "order",       \* advance: the epoch follows the head's
   "link",        \* advance: the entry names the digest of the head's
   "signer",      \* advance: the head's key has signed, and no earlier one
   "signature",   \* advance: some epoch's key has signed the entry
   "attester",    \* isActiveFor: the deployment is the attester's
   "provider",    \* isActiveFor: and the provider's
   "enclave",     \* isActiveFor: and registered at all
   "totals",      \* submitSU: the seals add up to the batch
   "context",     \* submitSU: the context has not settled
   "handles",     \* submitSU: each handle verifies under its epoch's key
   "settlement"}  \* submitSU: the enclave has signed totals and amount

VARIABLES
  makes,        \* the checks this build makes
  directory,    \* epoch 0 and its successors
  deployments,  \* enclaves registered, each with its attester, provider and manifest
  units         \* SpendingUnits v2

sealingVars == <<makes, directory, deployments, units>>

-----------------------------------------------------------------------------
(* FsEpochRegistry.                                                        *)

HeadEpoch == Len(directory) - 1
Digest(epoch, entry) == <<epoch, entry>>
DigestAt(epoch) == Digest(epoch, directory[epoch + 1])

\* keyFor: an epoch's window ends where the next one's begins.
KeyFor(e) ==
  [epoch |-> e, key |-> directory[e + 1].key, start |-> directory[e + 1].start,
   end |-> IF e = HeadEpoch THEN 0 ELSE directory[e + 2].start]

Anchors(entry) == directory = <<>> \/ "once" \notin makes

SignedBefore(s) ==
  \E e \in 0..HeadEpoch : Verifies(s.signature, directory[e + 1].key, Digest(s.epoch, s.entry))

Advances(s) ==
  /\ "order" \in makes => s.epoch = HeadEpoch + 1
  /\ "link" \in makes => s.entry.prev = DigestAt(HeadEpoch)
  /\ "signature" \in makes => SignedBefore(s)
  /\ "signer" \in makes =>
       Verifies(s.signature, directory[HeadEpoch + 1].key, Digest(s.epoch, s.entry))

-----------------------------------------------------------------------------
(* EnclaveRegistry.                                                        *)

ActiveFor(enclave, attester, provider) ==
  \/ "enclave" \notin makes
  \/ \E d \in deployments :
       /\ d.enclave = enclave
       /\ "attester" \in makes => d.attester = attester
       /\ "provider" \in makes => d.provider = provider

-----------------------------------------------------------------------------
(* SpendingUnitV2.                                                         *)

Settlements(ctx) == {u.id : u \in {v \in units : v.ctx = ctx}}

HandleVerifies(attester, batch, seal) ==
  /\ seal.epoch \in 0..HeadEpoch
  /\ InWindow(seal.day, KeyFor(seal.epoch))
  /\ Verifies(seal.handle, KeyFor(seal.epoch).key,
              HandleMessage(attester, batch.ctx, SealId(batch.ctx, batch.sequence, seal), seal))

TotalsHold(batch) ==
  LET at == 1..Len(batch.seals) IN
  /\ MapThenSumSet(LAMBDA i : batch.seals[i].count, at) = batch.count
  /\ MapThenSumSet(LAMBDA i : batch.seals[i].fold, at) % Modulus = batch.fold
  /\ \E i \in at : batch.seals[i].day = batch.day
  /\ \A i \in at : batch.seals[i].day <= batch.day

\* What submitSU answers to `attester`, in the order S053 relies on: a settled context
\* is looked at last.
Settling(attester, provider, enclave, batch) ==
  IF ~ActiveFor(enclave, attester, provider) THEN "EnclaveNotActive"
  ELSE IF ~(Len(batch.seals) \in 1..MaxSeals /\ Ascending(batch.seals)) THEN "BadSeals"
  ELSE IF "handles" \in makes /\ \E i \in 1..Len(batch.seals) :
                                ~HandleVerifies(attester, batch, batch.seals[i]) THEN "BadHandle"
  ELSE IF "totals" \in makes /\ ~TotalsHold(batch) THEN "BatchTotalsMismatch"
  ELSE IF "settlement" \in makes /\ ~\E d \in deployments :
            /\ d.enclave = enclave
            /\ Verifies(batch.signature, enclave, SettlementMessage(batch, d.manifest))
         THEN "BadSettlement"
  ELSE IF "context" \in makes /\ Settlements(batch.ctx) # {} THEN "AlreadySettled"
  ELSE "none"

=============================================================================
