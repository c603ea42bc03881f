---------------------------- MODULE SealingService ----------------------------
(***************************************************************************)
(* From a provider's sync to a SpendingUnit v2: the committees seal the    *)
(* claim pools of a sync, the enclave signs the batch they add up to, the  *)
(* provider hands a batch over, and the attester checks it against what it *)
(* has read from the chain (SealedBatch) and submits it, while days pass,  *)
(* committees rotate and deployments are registered anew.                  *)
(*                                                                         *)
(* Provider, committees and enclave are what the suite and the crate's     *)
(* tests stand in for: sign_handles, settled_batch and pools of S053,      *)
(* pool_seal and settle of the attester crate.                             *)
(***************************************************************************)
EXTENDS SealingChain

CONSTANTS
  Attesters,   \* addresses the committees issue handles to
  Me,          \* the attester whose process this is
  Contexts,    \* loader contexts
  Pools,       \* claim pools
  Contents,    \* what each pool holds: its count and its fold
  Enclave,     \* the enclave's key
  Provider,
  MaxSyncs,    \* bound: syncs of a context
  MaxDay,      \* bound: days
  MaxEpoch,    \* bound: rotations
  MaxManifest, \* bound: manifests a deployment is registered with, one after the other
  MaxHandover  \* bound: seals in a batch that is handed over

ASSUME ServiceAssumption ==
  /\ Me \in Attesters
  /\ Pools \subseteq Nat
  /\ Contents \in [Pools -> [count : Nat \ {0}, fold : 0..(Modulus - 1)]]
  /\ {MaxSyncs, MaxEpoch, MaxManifest, MaxHandover} \subseteq Nat
  /\ MaxDay \in Nat \ {0}

VARIABLES
  today,       \* the worldwide day
  syncs,       \* syncs made: context, sequence and pool -> contents
  seals,       \* pools sealed, as records of a batch, with context and sequence
  statements,  \* batches the enclave has signed, without their seals
  known,       \* directory entries the attester has fetched, as keyFor returned them
  record,      \* the deployment it has fetched, or Nobody
  job          \* the batch it has issued a unit for, or Nobody

vars == <<sealingVars, today, syncs, seals, statements, known, record, job>>

Deployment(m) == [enclave |-> Enclave, attester |-> Me, provider |-> Provider, manifest |-> m]

\* The amount of a sync: no two have the same.
Amount(ctx, sequence) == <<ctx, sequence>>

Init ==
  /\ makes = Checks
  /\ directory = << [key |-> 0, start |-> 1, prev |-> Nobody] >>
  /\ deployments = {Deployment(0)}
  /\ units = {}
  /\ today = 1
  /\ syncs = {} /\ seals = {} /\ statements = {}
  /\ known = <<>> /\ record = Nobody /\ job = Nobody

-----------------------------------------------------------------------------
(* The provider's side.                                                    *)

\* A sync of a context, for one attester; a re-run from the same cursor seals the same
\* pools under the next sequence.
Sync(ctx) ==
  LET made == {s \in syncs : s.ctx = ctx}
      sequence == Cardinality(made) + 1 IN
  /\ sequence <= MaxSyncs
  /\ \E a \in Attesters, P \in (SUBSET Pools) \ {{}} :
       /\ \A s \in made : s.pools = P
       /\ syncs' = syncs \cup {[ctx |-> ctx, sequence |-> sequence, attester |-> a, pools |-> P]}
  /\ UNCHANGED <<sealingVars, today, seals, statements, known, record, job>>

\* pools and sign_handles: the seal as it is, then the committee's handle on it.
PoolSeal(s, p, e) ==
  LET key == directory[e + 1].key
      seal == [pool |-> p, epoch |-> e, day |-> today, key |-> key, handle |-> Nobody,
               count |-> Contents[p].count, fold |-> Contents[p].fold]
      id == SealId(s.ctx, s.sequence, seal) IN
  [seal EXCEPT !.handle = Sign(key, HandleMessage(s.attester, s.ctx, id, seal))]

\* A committee seals a pool once: the head's committee, or the one before it that has not
\* heard of its successor.
SealPool(s, p) ==
  /\ ~\E x \in seals : x.ctx = s.ctx /\ x.sequence = s.sequence /\ x.seal.pool = p
  /\ \E e \in {HeadEpoch, HeadEpoch - 1} \cap Nat :
       seals' = seals \cup {[ctx |-> s.ctx, sequence |-> s.sequence, attester |-> s.attester,
                             seal |-> PoolSeal(s, p, e)]}
  /\ UNCHANGED <<sealingVars, today, syncs, statements, known, record, job>>

SealsOf(s) == {x.seal : x \in {y \in seals : y.ctx = s.ctx /\ y.sequence = s.sequence}}

InOrder(S) == CHOOSE q \in [1..Cardinality(S) -> S] : Ascending(q)

\* The enclave signs the totals and the amount under the manifest it runs.
Statement(s, m) ==
  LET q == InOrder(SealsOf(s))
      totals == [ctx |-> s.ctx, sequence |-> s.sequence, amount |-> Amount(s.ctx, s.sequence),
                 count |-> CountOf(q), fold |-> FoldOf(q), day |-> DayOf(q)] IN
  [totals |-> totals, signature |-> Sign(Enclave, SettlementMessage(totals, m))]

Settle(s) ==
  /\ {x.pool : x \in SealsOf(s)} = s.pools
  /\ ~\E t \in statements : t.totals.ctx = s.ctx /\ t.totals.sequence = s.sequence
  /\ \E d \in deployments : statements' = statements \cup {Statement(s, d.manifest)}
  /\ UNCHANGED <<sealingVars, today, syncs, seals, known, record, job>>

BatchOf(t, q) ==
  [ctx |-> t.totals.ctx, sequence |-> t.totals.sequence, amount |-> t.totals.amount,
   count |-> t.totals.count, fold |-> t.totals.fold, day |-> t.totals.day,
   signature |-> t.signature, seals |-> q]

-----------------------------------------------------------------------------
(* The attester.                                                           *)

Fetching == job = Nobody

\* keyFor, epoch after epoch: an entry is found by its epoch, so their order is all one.
FetchKey(e) ==
  /\ Fetching
  /\ \A i \in 1..Len(known) : known[i].epoch < e
  /\ known' = Append(known, KeyFor(e))
  /\ UNCHANGED <<sealingVars, today, syncs, seals, statements, record, job>>

FetchRecord ==
  /\ Fetching /\ record = Nobody
  /\ \E d \in deployments : record' = [enclave |-> d.enclave, manifest |-> d.manifest]
  /\ UNCHANGED <<sealingVars, today, syncs, seals, statements, known, job>>

\* The provider hands over a signed statement, with any amount and any seals under it;
\* issue_from_sealed_batch returns Ok.
Issue ==
  /\ Fetching /\ record # Nobody
  /\ \E t \in statements, a \in {u.totals.amount : u \in statements} :
       \E q \in SeqOf({x.seal : x \in seals}, MaxHandover) :
         LET batch == [BatchOf(t, q) EXCEPT !.amount = a] IN
         /\ Issues(Me, batch, record, known)
         /\ job' = batch
  /\ UNCHANGED <<sealingVars, today, syncs, seals, statements, known, record>>

\* generate_nft_header: an id of its own for each batch.
SU(batch) == <<batch.ctx, batch.sequence>>

Answer == Settling(Me, Provider, record.enclave, job)

\* Mutant of Submit: what was fetched goes, the batch does not.
SubmitAgain ==
  /\ job # Nobody
  /\ units' = IF Answer = "none" THEN units \cup {UnitOf(Me, SU(job), job)} ELSE units
  /\ record' = Nobody /\ known' = <<>>
  /\ UNCHANGED <<makes, directory, deployments, today, syncs, seals, statements, job>>

\* submitSU, and the attester is done with the batch, and with what it has fetched.
Submit ==
  /\ job # Nobody
  /\ units' = IF Answer = "none" THEN units \cup {UnitOf(Me, SU(job), job)} ELSE units
  /\ job' = Nobody /\ record' = Nobody /\ known' = <<>>
  /\ UNCHANGED <<makes, directory, deployments, today, syncs, seals, statements>>

-----------------------------------------------------------------------------
(* The chain.                                                              *)

NextDay ==
  /\ today < MaxDay
  /\ today' = today + 1
  /\ UNCHANGED <<sealingVars, syncs, seals, statements, known, record, job>>

\* The head's committee signs its successor in, for a day to come.
Rotate ==
  /\ HeadEpoch < MaxEpoch
  /\ \E d \in (today + 1)..MaxDay :
       /\ d > directory[HeadEpoch + 1].start
       /\ LET entry == [key |-> HeadEpoch + 1, start |-> d, prev |-> DigestAt(HeadEpoch)] IN
            directory' = Append(directory, entry)
  /\ UNCHANGED <<makes, deployments, units, today, syncs, seals, statements, known, record, job>>

\* The enclave runs another manifest, and its deployment is registered anew.
Reregister ==
  /\ \E m \in 0..(MaxManifest - 1) : /\ deployments = {Deployment(m)}
                                     /\ deployments' = {Deployment(m + 1)}
  /\ UNCHANGED <<makes, directory, units, today, syncs, seals, statements, known, record, job>>

Next ==
  \/ \E c \in Contexts : Sync(c)
  \/ \E s \in syncs : Settle(s) \/ \E p \in s.pools : SealPool(s, p)
  \/ \E e \in 0..HeadEpoch : FetchKey(e)
  \/ FetchRecord \/ Issue \/ Submit
  \/ NextDay \/ Rotate \/ Reregister

Spec == Init /\ [][Next]_vars

-----------------------------------------------------------------------------
(* What must hold.                                                         *)

\* The whole state is made of what the actors exchange.
TypeOK ==
  /\ makes = Checks
  /\ today \in 1..MaxDay /\ HeadEpoch \in 0..MaxEpoch
  /\ \A e \in 0..HeadEpoch : directory[e + 1].key = e /\ directory[e + 1].start \in 1..MaxDay
  /\ \E m \in 0..MaxManifest : deployments = {Deployment(m)}
  /\ \A x \in seals : /\ \E s \in syncs : s.ctx = x.ctx /\ s.sequence = x.sequence
                       /\ x.attester \in Attesters /\ x.seal.day \in 1..MaxDay
  /\ known \in Seq([epoch : 0..MaxEpoch, key : 0..MaxEpoch, start : 1..MaxDay, end : 0..MaxDay])
  /\ record = Nobody \/ record \in [enclave : {Enclave}, manifest : 0..MaxManifest]
  /\ job # Nobody => record # Nobody
  /\ \A u \in units : u.attester = Me /\ u.ctx \in Contexts

\* A batch a unit is issued for holds seals of its own sync only, and each of them was
\* made for this attester: the seal id binds the sync, the handle binds the attester.
SealedForThisSync ==
  job # Nobody =>
    \A i \in 1..Len(job.seals) :
      \E x \in seals : /\ x.seal = job.seals[i] /\ x.attester = Me
                       /\ x.ctx = job.ctx /\ x.sequence = job.sequence

\* And it holds every pool of that sync, each once, at the amount of that sync:
\* nothing is dropped, counted twice or priced by the provider.
IssuedIsWhole ==
  job # Nobody =>
    \E s \in syncs :
      /\ s.ctx = job.ctx /\ s.sequence = job.sequence
      /\ job.amount = Amount(s.ctx, s.sequence)
      /\ Len(job.seals) = Cardinality(s.pools)
      /\ {job.seals[i].pool : i \in 1..Len(job.seals)} = s.pools

Current == \A i \in 1..Len(known) : known[i] = KeyFor(known[i].epoch)

InTime(x) == InWindow(x.day, KeyFor(x.epoch))

\* An honest batch issues: the attester knows the keys as they are and has the manifest the
\* enclave signed under, and every pool was sealed for it in its committee's time, no more
\* of them than a batch may hold.
GenuineIssues ==
  \A s \in syncs, t \in statements :
    /\ record # Nobody /\ Current
    /\ s.attester = Me /\ Cardinality(s.pools) <= MaxSeals
    /\ t = Statement(s, record.manifest)
    /\ \A x \in SealsOf(s) : InTime(x) /\ \E i \in 1..Len(known) : known[i].epoch = x.epoch
    => Issues(Me, BatchOf(t, InOrder(SealsOf(s))), record, known)

Settled == Settlements(job.ctx) # {}

News == ~Current \/ Deployment(record.manifest) \notin deployments

Refused == job # Nobody /\ job' = Nobody /\ units' = units

\* The chain refuses a batch the attester has issued only if the context has settled, or
\* the directory or the deployment has changed since the attester read it.
RefusedOnlyForNews == [][Refused => Settled \/ News]_vars

\* What the doc of issue_from_sealed_batch says: a batch that would revert fails before it
\* is submitted.  With the directory and the record as the attester has read them.
RevertsFailHere == [][Refused => News]_vars

=============================================================================
