----------------------------- MODULE SealingProofs -----------------------------
(***************************************************************************)
(* Theorems about SealingService: whatever a provider hands over, for      *)
(* every number of syncs, pools, seals, rotations and deployments, a unit  *)
(* is issued for a whole sync made for this attester and at its amount;    *)
(* honest batches are issued; and the chain refuses an issued batch only   *)
(* for what the attester could not know.                                   *)
(*                                                                         *)
(* None of it is inductive as it stands.  SealingInv adds what a           *)
(* committee's signature covers, IssuedInv what the enclave's statement    *)
(* does, and ServiceInv the rest of the state: that statements are of      *)
(* whole syncs and seals as they were made, that the attester knows epochs *)
(* there are, and that it would issue for the batch in hand again.         *)
(***************************************************************************)
EXTENDS SealingService, InductionProofs, TLAPS

\* The committee's signature on a seal.
Covers(signature, address, ctx, sequence, seal) ==
  signature.message = HandleMessage(address, ctx, SealId(ctx, sequence, seal), seal)

MadeAsRecorded ==
  \A x \in seals : Covers(x.seal.handle, x.attester, x.ctx, x.sequence, x.seal)

HandedOver ==
  job # Nobody =>
    \A i \in 1..Len(job.seals) :
      /\ \E x \in seals : x.seal = job.seals[i]
      /\ Covers(job.seals[i].handle, Me, job.ctx, job.sequence, job.seals[i])

SealingInv == MadeAsRecorded /\ HandedOver

-----------------------------------------------------------------------------
(* What a signature binds.                                                 *)

\* A signature that covers a seal for two attesters and two syncs covers it for one.
LEMMA CoversOne ==
  ASSUME NEW signature, NEW seal,
         NEW a, NEW ctx, NEW sequence, Covers(signature, a, ctx, sequence, seal),
         NEW b, NEW other, NEW later, Covers(signature, b, other, later, seal)
  PROVE  a = b /\ ctx = other /\ sequence = later
<1>1. HandleMessage(a, ctx, SealId(ctx, sequence, seal), seal)
        = HandleMessage(b, other, SealId(other, later, seal), seal)
  BY DEF Covers
<1>2. a = b /\ ctx = other /\ SealId(ctx, sequence, seal) = SealId(other, later, seal)
  BY <1>1 DEF HandleMessage
<1>3. sequence = later
  BY <1>2 DEF SealId
<1> QED
  BY <1>2, <1>3

\* issue_from_sealed_batch returns Ok only for seals whose handles cover them.
LEMMA IssuesCovered ==
  ASSUME NEW batch, NEW i \in 1..Len(batch.seals), Issues(Me, batch, record, known)
  PROVE  Covers(batch.seals[i].handle, Me, batch.ctx, batch.sequence, batch.seals[i])
<1>1. SealHolds(Me, batch, known, batch.seals[i])
  BY DEF Issues
<1> QED
  BY <1>1 DEF SealHolds, Verifies, Sign, Covers

\* A committee's handle covers the seal it is on.
LEMMA SealCovered ==
  ASSUME NEW s, NEW p, NEW e
  PROVE  Covers(PoolSeal(s, p, e).handle, s.attester, s.ctx, s.sequence, PoolSeal(s, p, e))
  BY DEF PoolSeal, Covers, Sign, HandleMessage, SealId

-----------------------------------------------------------------------------
(* The invariant is inductive.                                             *)

LEMMA SealingInit ==
  Init => SealingInv
  BY DEF Init, SealingInv, MadeAsRecorded, HandedOver

LEMMA SealingNext ==
  SealingInv /\ [Next]_vars => SealingInv'
<1> SUFFICES ASSUME SealingInv, [Next]_vars PROVE SealingInv'
  OBVIOUS
<1>1. ASSUME UNCHANGED <<seals, job>> PROVE SealingInv'
  BY <1>1 DEF SealingInv, MadeAsRecorded, HandedOver
<1>2. ASSUME NEW s \in syncs, NEW p \in s.pools, SealPool(s, p) PROVE SealingInv'
  <2>1. PICK e \in {HeadEpoch, HeadEpoch - 1} \cap Nat :
          seals' = seals \cup {[ctx |-> s.ctx, sequence |-> s.sequence,
                                attester |-> s.attester, seal |-> PoolSeal(s, p, e)]}
    BY <1>2 DEF SealPool
  <2>2. job' = job
    BY <1>2 DEF SealPool
  <2>3. MadeAsRecorded'
    <3> SUFFICES ASSUME NEW x \in seals'
                 PROVE  Covers(x.seal.handle, x.attester, x.ctx, x.sequence, x.seal)
      BY DEF MadeAsRecorded, Covers, HandleMessage, SealId
    <3>1. CASE x \in seals
      BY <3>1 DEF SealingInv, MadeAsRecorded
    <3>2. CASE x = [ctx |-> s.ctx, sequence |-> s.sequence,
                    attester |-> s.attester, seal |-> PoolSeal(s, p, e)]
      BY <3>2, SealCovered
    <3> QED
      BY <2>1, <3>1, <3>2
  <2>4. HandedOver'
    BY <2>1, <2>2 DEF SealingInv, HandedOver
  <2> QED
    BY <2>3, <2>4 DEF SealingInv
<1>3. CASE Issue
  <2>1. PICK t \in statements, a \in {u.totals.amount : u \in statements} :
          \E q \in SeqOf({x.seal : x \in seals}, MaxHandover) :
            LET batch == [BatchOf(t, q) EXCEPT !.amount = a] IN
            Issues(Me, batch, record, known) /\ job' = batch
    BY <1>3 DEF Issue
  <2>2. PICK q \in SeqOf({x.seal : x \in seals}, MaxHandover) :
          LET batch == [BatchOf(t, q) EXCEPT !.amount = a] IN
          Issues(Me, batch, record, known) /\ job' = batch
    BY <2>1
  <2> DEFINE batch == [BatchOf(t, q) EXCEPT !.amount = a]
  <2>3. Issues(Me, batch, record, known) /\ job' = batch
    BY <2>2
  <2>4. batch.seals = q
    BY DEF BatchOf
  <2>5. seals' = seals
    BY <1>3 DEF Issue
  <2>6. MadeAsRecorded'
    BY <2>5 DEF SealingInv, MadeAsRecorded
  <2>7. ASSUME NEW i \in 1..Len(batch.seals)
        PROVE  \E x \in seals : x.seal = batch.seals[i]
    <3>1. PICK m \in 0..MaxHandover : q \in [1..m -> {x.seal : x \in seals}]
      BY DEF SeqOf
    <3>2. q[i] \in {x.seal : x \in seals}
      BY <2>4, <2>7, <3>1, ServiceAssumption
    <3> QED
      BY <2>4, <3>2
  <2>8. HandedOver'
    <3> SUFFICES ASSUME NEW i \in 1..Len(job'.seals)
                 PROVE  /\ \E x \in seals' : x.seal = job'.seals[i]
                        /\ Covers(job'.seals[i].handle, Me, job'.ctx, job'.sequence, job'.seals[i])
      BY DEF HandedOver, Covers, HandleMessage, SealId
    <3> HIDE DEF batch
    <3> QED
      BY <2>3, <2>5, <2>7, IssuesCovered
  <2> QED
    BY <2>6, <2>8 DEF SealingInv
<1>4. CASE Submit
  BY <1>4 DEF Submit, SealingInv, MadeAsRecorded, HandedOver
<1>5. ASSUME NEW c \in Contexts, Sync(c) PROVE SealingInv'
  BY <1>1, <1>5 DEF Sync
<1>6. ASSUME NEW s \in syncs, Settle(s) PROVE SealingInv'
  BY <1>1, <1>6 DEF Settle
<1>7. ASSUME NEW e \in 0..HeadEpoch, FetchKey(e) PROVE SealingInv'
  BY <1>1, <1>7 DEF FetchKey
<1>8. CASE FetchRecord
  BY <1>1, <1>8 DEF FetchRecord
<1>9. CASE NextDay \/ Rotate \/ Reregister
  BY <1>1, <1>9 DEF NextDay, Rotate, Reregister
<1>10. CASE UNCHANGED vars
  BY <1>1, <1>10 DEF vars
<1> QED
  BY <1>2, <1>3, <1>4, <1>5, <1>6, <1>7, <1>8, <1>9, <1>10 DEF Next

LEMMA SealingInvHolds ==
  SealingInv => SealedForThisSync
<1> SUFFICES ASSUME SealingInv, job # Nobody, NEW i \in 1..Len(job.seals)
             PROVE  \E x \in seals : /\ x.seal = job.seals[i] /\ x.attester = Me
                                     /\ x.ctx = job.ctx /\ x.sequence = job.sequence
  BY DEF SealedForThisSync
<1>1. PICK x \in seals : x.seal = job.seals[i]
  BY DEF SealingInv, HandedOver
<1>2. Covers(x.seal.handle, x.attester, x.ctx, x.sequence, x.seal)
  BY DEF SealingInv, MadeAsRecorded
<1>3. Covers(x.seal.handle, Me, job.ctx, job.sequence, x.seal)
  BY <1>1 DEF SealingInv, HandedOver
<1>4. x.attester = Me /\ x.ctx = job.ctx /\ x.sequence = job.sequence
  BY <1>2, <1>3, CoversOne
<1> QED
  BY <1>1, <1>4

-----------------------------------------------------------------------------
(* What a unit is issued for.                                              *)
(*                                                                         *)
(* IssuedAsSigned needs to know more of the provider's side: what the      *)
(* enclave's signatures cover, and that every seal is of a pool of its     *)
(* sync.  Syncs of a context hold the same pools, so that it does not      *)
(* matter which sync of the context a seal is looked up in.                *)

\* A batch a unit is issued for is of a sync made for this attester, at the amount of that
\* sync, with no pool but that sync's, and the enclave has signed its totals under the
\* manifest the attester has read: the amount that issue_from_sealed_batch takes from the
\* batch is nobody's choice.
IssuedAsSigned ==
  job # Nobody =>
    /\ \E s \in syncs :
         /\ s.ctx = job.ctx /\ s.sequence = job.sequence /\ s.attester = Me
         /\ job.amount = Amount(s.ctx, s.sequence)
         /\ \A i \in 1..Len(job.seals) : job.seals[i].pool \in s.pools
    /\ job.signature = Sign(record.enclave, SettlementMessage(job, record.manifest))

SamePools == \A r, s \in syncs : r.ctx = s.ctx => r.pools = s.pools

SealsHaveSyncs ==
  \A x \in seals : \E s \in syncs : /\ s.ctx = x.ctx /\ s.sequence = x.sequence
                                   /\ s.attester = x.attester /\ x.seal.pool \in s.pools

\* What the enclave signs: the amount of the sync.
Priced(t) == t.signature.message.amount = Amount(t.totals.ctx, t.totals.sequence)

StatementsPriced == \A t \in statements : Priced(t)

\* The batch in hand was checked against the record, and no step but Submit drops either.
JobChecked ==
  job # Nobody =>
    /\ job.amount = Amount(job.ctx, job.sequence)
    /\ job.signature = Sign(record.enclave, SettlementMessage(job, record.manifest))
    /\ 1 \in 1..Len(job.seals)

IssuedInv == SamePools /\ SealsHaveSyncs /\ StatementsPriced /\ JobChecked

\* A batch has the amount its settlement signature was made for.
LEMMA AmountIsSigned ==
  ASSUME NEW t, Priced(t), NEW q, NEW a,
         Issues(Me, [BatchOf(t, q) EXCEPT !.amount = a], record, known)
  PROVE  LET batch == [BatchOf(t, q) EXCEPT !.amount = a] IN
         /\ batch.amount = Amount(batch.ctx, batch.sequence)
         /\ batch.signature = Sign(record.enclave, SettlementMessage(batch, record.manifest))
         /\ 1 \in 1..Len(batch.seals)
<1> DEFINE batch == [BatchOf(t, q) EXCEPT !.amount = a]
<1>1. batch.signature = Sign(record.enclave, SettlementMessage(batch, record.manifest))
  BY DEF Issues, Verifies
<1>2. /\ batch.signature = t.signature
      /\ batch.ctx = t.totals.ctx /\ batch.sequence = t.totals.sequence
  BY DEF BatchOf
<1>3. batch.amount = Amount(batch.ctx, batch.sequence)
  <2>1. SettlementMessage(batch, record.manifest).amount = batch.amount
    BY DEF SettlementMessage
  <2> HIDE DEF batch
  <2> QED
    BY <1>1, <1>2, <2>1 DEF Priced, Sign
<1>4. 1 \in 1..Len(batch.seals)
  <2>1. Len(batch.seals) \in 1..MaxSeals
    BY DEF Issues
  <2> HIDE DEF batch
  <2> QED
    BY <2>1, SealedBatchAssumption
<1> QED
  BY <1>1, <1>3, <1>4

LEMMA IssuedInit ==
  Init => IssuedInv
  BY DEF Init, IssuedInv, SamePools, SealsHaveSyncs, StatementsPriced, JobChecked

LEMMA IssuedNext ==
  IssuedInv /\ [Next]_vars => IssuedInv'
<1> SUFFICES ASSUME IssuedInv, [Next]_vars PROVE IssuedInv'
  OBVIOUS
<1> USE DEF IssuedInv
<1>1. ASSUME UNCHANGED <<syncs, seals, statements, record, job>> PROVE IssuedInv'
  BY <1>1 DEF SamePools, SealsHaveSyncs, StatementsPriced, Priced, JobChecked, SettlementMessage
<1>2. ASSUME NEW c \in Contexts, Sync(c) PROVE IssuedInv'
  <2> DEFINE made == {s \in syncs : s.ctx = c}
             sync(a, P) == [ctx |-> c, sequence |-> Cardinality(made) + 1, attester |-> a,
                            pools |-> P]
  <2>1. PICK a \in Attesters, P \in (SUBSET Pools) \ {{}} :
          /\ \A s \in made : s.pools = P
          /\ syncs' = syncs \cup {sync(a, P)}
    BY <1>2 DEF Sync
  <2>2. UNCHANGED <<seals, statements, record, job>>
    BY <1>2 DEF Sync
  <2>3. SamePools'
    <3> SUFFICES ASSUME NEW r \in syncs', NEW s \in syncs', r.ctx = s.ctx
                 PROVE  r.pools = s.pools
      BY DEF SamePools
    <3>1. \A z \in syncs : z.ctx = c => z.pools = P
      BY <2>1
    <3>2. sync(a, P).ctx = c /\ sync(a, P).pools = P
      OBVIOUS
    <3> HIDE DEF made, sync
    <3> QED
      BY <2>1, <3>1, <3>2 DEF SamePools
  <2>4. SealsHaveSyncs'
    BY <2>1, <2>2 DEF SealsHaveSyncs
  <2>5. StatementsPriced' /\ JobChecked'
    BY <2>2 DEF StatementsPriced, Priced, JobChecked, SettlementMessage
  <2> QED
    BY <2>3, <2>4, <2>5
<1>3. ASSUME NEW s \in syncs, NEW p \in s.pools, SealPool(s, p) PROVE IssuedInv'
  <2>1. PICK e \in {HeadEpoch, HeadEpoch - 1} \cap Nat :
          seals' = seals \cup {[ctx |-> s.ctx, sequence |-> s.sequence,
                                attester |-> s.attester, seal |-> PoolSeal(s, p, e)]}
    BY <1>3 DEF SealPool
  <2>2. UNCHANGED <<syncs, statements, record, job>>
    BY <1>3 DEF SealPool
  <2>3. PoolSeal(s, p, e).pool = p
    BY DEF PoolSeal
  <2>4. SealsHaveSyncs'
    BY <2>1, <2>2, <2>3 DEF SealsHaveSyncs
  <2> QED
    BY <2>2, <2>4 DEF SamePools, StatementsPriced, Priced, JobChecked, SettlementMessage
<1>4. ASSUME NEW s \in syncs, Settle(s) PROVE IssuedInv'
  <2>1. PICK d \in deployments : statements' = statements \cup {Statement(s, d.manifest)}
    BY <1>4 DEF Settle
  <2>2. UNCHANGED <<syncs, seals, record, job>>
    BY <1>4 DEF Settle
  <2>3. Priced(Statement(s, d.manifest))
    BY DEF Priced, Statement, Sign, SettlementMessage
  <2>4. StatementsPriced'
    BY <2>1, <2>3 DEF StatementsPriced, Priced
  <2> QED
    BY <2>2, <2>4 DEF SamePools, SealsHaveSyncs, JobChecked, SettlementMessage
<1>5. CASE Issue
  <2>1. PICK t \in statements, a \in {u.totals.amount : u \in statements} :
          \E q \in SeqOf({x.seal : x \in seals}, MaxHandover) :
            LET batch == [BatchOf(t, q) EXCEPT !.amount = a] IN
            Issues(Me, batch, record, known) /\ job' = batch
    BY <1>5 DEF Issue
  <2>2. PICK q : LET batch == [BatchOf(t, q) EXCEPT !.amount = a] IN
                 Issues(Me, batch, record, known) /\ job' = batch
    BY <2>1
  <2>3. UNCHANGED <<syncs, seals, statements, record>>
    BY <1>5 DEF Issue
  <2>4. Priced(t)
    BY DEF StatementsPriced
  <2> DEFINE batch == [BatchOf(t, q) EXCEPT !.amount = a]
  <2>5. /\ batch.amount = Amount(batch.ctx, batch.sequence)
        /\ batch.signature = Sign(record.enclave, SettlementMessage(batch, record.manifest))
        /\ 1 \in 1..Len(batch.seals)
    BY <2>2, <2>4, AmountIsSigned
  <2>6. JobChecked'
    <3>1. job' = batch
      BY <2>2
    <3> HIDE DEF batch
    <3> QED
      BY <2>3, <2>5, <3>1 DEF JobChecked, SettlementMessage
  <2> QED
    BY <2>3, <2>6 DEF SamePools, SealsHaveSyncs, StatementsPriced, Priced
<1>6. CASE Submit
  BY <1>6 DEF Submit, SamePools, SealsHaveSyncs, StatementsPriced, Priced, JobChecked
<1>7. CASE FetchRecord
  BY <1>7 DEF FetchRecord, Fetching, SamePools, SealsHaveSyncs, StatementsPriced, Priced, JobChecked
<1>8. ASSUME NEW e \in 0..HeadEpoch, FetchKey(e) PROVE IssuedInv'
  BY <1>1, <1>8 DEF FetchKey
<1>9. CASE NextDay \/ Rotate \/ Reregister
  BY <1>1, <1>9 DEF NextDay, Rotate, Reregister
<1>10. CASE UNCHANGED vars
  BY <1>1, <1>10 DEF vars
<1> QED
  BY <1>2, <1>3, <1>4, <1>5, <1>6, <1>7, <1>8, <1>9, <1>10 DEF Next

\* The sync a batch is of is found through its first seal.
LEMMA IssuedInvHolds ==
  SealedForThisSync /\ IssuedInv => IssuedAsSigned
<1> SUFFICES ASSUME SealedForThisSync, IssuedInv, job # Nobody PROVE IssuedAsSigned
  BY DEF IssuedAsSigned
<1>1. \A i \in 1..Len(job.seals) :
        \E s \in syncs : /\ s.ctx = job.ctx /\ s.sequence = job.sequence /\ s.attester = Me
                        /\ job.seals[i].pool \in s.pools
  BY DEF SealedForThisSync, IssuedInv, SealsHaveSyncs
<1>2. PICK s \in syncs : s.ctx = job.ctx /\ s.sequence = job.sequence /\ s.attester = Me
  BY <1>1 DEF IssuedInv, JobChecked
<1>3. \A i \in 1..Len(job.seals) : job.seals[i].pool \in s.pools
  BY <1>1, <1>2 DEF IssuedInv, SamePools
<1> QED
  BY <1>2, <1>3 DEF IssuedAsSigned, IssuedInv, JobChecked

-----------------------------------------------------------------------------
(* The whole state.                                                        *)
(*                                                                         *)
(* IssuedIsWhole, GenuineIssues and RefusedOnlyForNews are about sums,     *)
(* about what the attester would answer and about what the chain answers.  *)
(* None is inductive; the invariant below is: who made each piece of the   *)
(* state, from what, and that no two syncs, seals or statements go by one  *)
(* name.                                                                   *)

Syncs == [ctx : Contexts, sequence : Nat, attester : Attesters, pools : (SUBSET Pools) \ {{}}]

\* The provider numbers the syncs of a context one after the other.
SyncsNumbered ==
  /\ IsFiniteSet(syncs)
  /\ \A s \in syncs : /\ s \in Syncs
                       /\ s.sequence <= Cardinality({r \in syncs : r.ctx = s.ctx})
  /\ \A r, s \in syncs : r.ctx = s.ctx /\ r.sequence = s.sequence => r = s

\* A seal is as a committee of the directory makes it.
AsMade(x) ==
  LET e == x.seal.epoch IN
  /\ e \in 0..HeadEpoch
  /\ x.seal.day \in Nat \ {0}
  /\ x.seal.key = directory[e + 1].key
  /\ x.seal.pool \in Pools
  /\ x.seal.count = Contents[x.seal.pool].count /\ x.seal.fold = Contents[x.seal.pool].fold
  /\ x.seal.handle = Sign(x.seal.key, HandleMessage(x.attester, x.ctx,
                            SealId(x.ctx, x.sequence, x.seal), x.seal))

SealsAsMade ==
  /\ IsFiniteSet(seals)
  /\ \A x \in seals : AsMade(x)
  /\ \A x, y \in seals :
       x.ctx = y.ctx /\ x.sequence = y.sequence /\ x.seal.pool = y.seal.pool => x = y

\* The enclave signs for a sync when every pool of it is sealed, and the pools stay as sealed.
Complete(s) == {x.pool : x \in SealsOf(s)} = s.pools

StatementsWhole ==
  \A t \in statements :
    \E s \in syncs : /\ Complete(s)
                     /\ \E m \in 0..MaxManifest : t = Statement(s, m)

\* The entries the attester knows are of epochs there are.
KnownEpochs == \A i \in 1..Len(known) : known[i].epoch \in 0..HeadEpoch

\* The batch in hand is a statement's with seals that were made, and would be issued for
\* again: while it is in hand, nothing it was checked against is fetched anew.
JobIssued ==
  job # Nobody =>
    /\ Issues(Me, job, record, known)
    /\ job.seals \in Seq({x.seal : x \in seals})
    /\ \E t \in statements : /\ job.ctx = t.totals.ctx /\ job.sequence = t.totals.sequence
                             /\ job.count = t.totals.count

\* The directory is a sequence.
Registry == directory \in Seq({directory[i] : i \in 1..Len(directory)})

ServiceInv ==
  /\ TypeOK /\ Registry
  /\ SyncsNumbered /\ SealsAsMade /\ StatementsWhole /\ KnownEpochs /\ JobIssued

-----------------------------------------------------------------------------
(* What the loop over the seals computes.                                  *)

\* The greatest of a range of indices, the one FoldLeft takes off first.
LEMMA MaxOfIndices ==
  ASSUME NEW n \in Nat, NEW T \in SUBSET (1..n), T # {}
  PROVE  Max(T) \in T
<1>1. IsFiniteSet(1..n)
  BY FS_Interval
<1>2. IsFiniteSet(T)
  BY <1>1, FS_Subset
<1>3. T \subseteq Nat
  OBVIOUS
<1> QED
  BY <1>2, <1>3, MaxOfFinite

LEMMA CountIs ==
  ASSUME NEW n \in Nat, NEW R, NEW given \in [1..n -> R], \A i \in 1..n : given[i].count \in Nat,
         NEW sum, Adds(sum, [i \in 1..n |-> given[i].count], 1..n)
  PROVE  CountOf(given) = sum[1..n]
<1> DEFINE f == [i \in 1..n |-> given[i].count]
           Folds(g) == g = [T \in SUBSET (1..n) |->
                              IF T = {} THEN 0 ELSE g[T \ {Max(T)}] + given[Max(T)].count]
           h == CHOOSE g : Folds(g)
<1>1. CountOf(given) = h[1..n]
  BY DEF CountOf, FoldLeft, MapThenFoldSet
<1>2. \A T \in SUBSET (1..n) : T # {} => Max(T) \in T /\ f[Max(T)] = given[Max(T)].count
  BY MaxOfIndices
<1>3. Folds(sum)
  <2>1. sum = [T \in SUBSET (1..n) |-> sum[T]]
    BY DEF Adds
  <2>2. ASSUME NEW T \in SUBSET (1..n), T # {}
        PROVE  sum[T] = sum[T \ {Max(T)}] + given[Max(T)].count
    BY <1>2, <2>2 DEF Adds
  <2> QED
    BY <2>1, <2>2 DEF Adds
<1>4. Folds(h)
  BY <1>3
<1>5. AddsUp(h, f, 1..n)
  <2>0. h[{}] = 0
    BY <1>4
  <2> SUFFICES ASSUME NEW T \in SUBSET (1..n), T # {}
               PROVE  \E i \in T : h[T] = h[T \ {i}] + f[i]
    BY <2>0 DEF AddsUp
  <2>1. h[T] = h[T \ {Max(T)}] + given[Max(T)].count
    BY <1>4
  <2> HIDE DEF h, f
  <2> QED
    BY <1>2, <2>1
<1> DEFINE I == 1..n
<1>7. f \in [I -> Nat] /\ Adds(sum, f, I) /\ I \in SUBSET I
  OBVIOUS
<1>8. IsFiniteSet(I)
  BY FS_Interval
<1>9. AddsUp(h, f, I)
  BY <1>5
<1> HIDE DEF h, f, I
<1>10. \A T \in SUBSET I : h[T] = sum[T]
  BY <1>7, <1>8, <1>9, SumOfAny
<1>11. h[I] = sum[I]
  BY <1>7, <1>10
<1> QED
  BY <1>1, <1>11 DEF I

LEMMA FoldIs ==
  ASSUME NEW n \in Nat, NEW R, NEW given \in [1..n -> R], \A i \in 1..n : given[i].fold \in Nat,
         NEW sum, Adds(sum, [i \in 1..n |-> given[i].fold], 1..n)
  PROVE  FoldOf(given) = sum[1..n] % Modulus
<1> DEFINE f == [i \in 1..n |-> given[i].fold]
           Folds(g) == g = [T \in SUBSET (1..n) |->
                   IF T = {} THEN 0 ELSE (g[T \ {Max(T)}] + given[Max(T)].fold) % Modulus]
           h == CHOOSE g : Folds(g)
           mod == [T \in SUBSET (1..n) |-> sum[T] % Modulus]
<1>1. FoldOf(given) = h[1..n]
  BY DEF FoldOf, FoldLeft, MapThenFoldSet
<1>2. \A T \in SUBSET (1..n) : T # {} => Max(T) \in T /\ f[Max(T)] = given[Max(T)].fold
  BY MaxOfIndices
<1>3. Folds(mod)
  <2>1. mod[{}] = 0
    BY SealedBatchAssumption DEF Adds
  <2>2. ASSUME NEW T \in SUBSET (1..n), T # {}
        PROVE  mod[T] = (mod[T \ {Max(T)}] + given[Max(T)].fold) % Modulus
    <3>1. PICK i : i = Max(T) /\ i \in T
      BY <1>2, <2>2
    <3>2. sum[T] = sum[T \ {i}] + given[i].fold
      BY <3>1 DEF Adds
    <3>3. sum[T \ {i}] \in Nat /\ given[i].fold \in Nat
      BY <3>1 DEF Adds
    <3>4. ((sum[T \ {i}] % Modulus) + given[i].fold) % Modulus
            = (sum[T \ {i}] + given[i].fold) % Modulus
      BY <3>3, ReducedAnywhere, SealedBatchAssumption
    <3> QED
      BY <3>1, <3>2, <3>4
  <2> QED
    BY <2>1, <2>2
<1>4. Folds(h)
  BY <1>3
<1>5. AddsUpModulo(h, f, 1..n, Modulus)
  <2>0. h[{}] = 0
    BY <1>4
  <2> SUFFICES ASSUME NEW T \in SUBSET (1..n), T # {}
               PROVE  \E i \in T : h[T] = (h[T \ {i}] + f[i]) % Modulus
    BY <2>0 DEF AddsUpModulo
  <2>1. h[T] = (h[T \ {Max(T)}] + given[Max(T)].fold) % Modulus
    BY <1>4
  <2> HIDE DEF h, f
  <2> QED
    BY <1>2, <2>1
<1> DEFINE I == 1..n
<1>7. f \in [I -> Nat] /\ Adds(sum, f, I) /\ I \in SUBSET I
  OBVIOUS
<1>8. IsFiniteSet(I)
  BY FS_Interval
<1>9. AddsUpModulo(h, f, I, Modulus)
  BY <1>5
<1> HIDE DEF h, f, I
<1>10. \A T \in SUBSET I : h[T] = sum[T] % Modulus
  BY <1>7, <1>8, <1>9, SumModulo, SealedBatchAssumption
<1>11. h[I] = sum[I] % Modulus
  BY <1>7, <1>10
<1> QED
  BY <1>1, <1>11 DEF I

\* The day of a batch is the last of its given'.
LEMMA DayIs ==
  ASSUME NEW n \in Nat \ {0}, NEW R, NEW given \in [1..n -> R],
         \A i \in 1..n : given[i].day \in Nat
  PROVE  /\ \A i \in 1..n : given[i].day <= DayOf(given)
         /\ \E i \in 1..n : given[i].day = DayOf(given)
<1> DEFINE step(d, e) == IF e > d THEN e ELSE d
           days(T) == {0} \cup {given[i].day : i \in T}
           last == [T \in SUBSET (1..n) |-> Max(days(T))]
           Folds(g) == g = [T \in SUBSET (1..n) |->
                   IF T = {} THEN 0
                   ELSE IF given[Max(T)].day > g[T \ {Max(T)}] THEN given[Max(T)].day
                        ELSE g[T \ {Max(T)}]]
           h == CHOOSE g : Folds(g)
<1>1. DayOf(given) = h[1..n]
  BY DEF DayOf, FoldLeft, MapThenFoldSet
<1>2. \A T \in SUBSET (1..n) : T # {} => Max(T) \in T
  BY MaxOfIndices
<1>3. ASSUME NEW T \in SUBSET (1..n)
      PROVE  last[T] \in days(T) /\ \A d \in days(T) : d <= last[T]
  <2>1. IsFiniteSet(T)
    <3>1. IsFiniteSet(1..n)
      BY FS_Interval
    <3> QED
      BY <3>1, FS_Subset
  <2>2. IsFiniteSet({given[i].day : i \in T})
    <3> DEFINE g == [i \in T |-> given[i].day]
    <3>1. g \in Surjection(T, {given[i].day : i \in T})
      BY DEF Surjection
    <3> QED
      BY <2>1, <3>1, FS_Surjection
  <2>3. IsFiniteSet(days(T))
    <3>1. PICK D : D = {given[i].day : i \in T}
      OBVIOUS
    <3>2. IsFiniteSet(D) /\ days(T) = D \cup {0}
      BY <2>2, <3>1
    <3> HIDE DEF days
    <3> QED
      BY <3>2, FS_AddElement
  <2>4. days(T) # {} /\ days(T) \subseteq Nat
    OBVIOUS
  <2>5. last[T] = Max(days(T))
    OBVIOUS
  <2> HIDE DEF days, last
  <2> QED
    BY <2>3, <2>4, <2>5, MaxOfFinite
<1>4. Folds(last)
  <2>1. last[{}] = 0
    BY <1>3
  <2>2. ASSUME NEW T \in SUBSET (1..n), T # {}
        PROVE  last[T] = step(last[T \ {Max(T)}], given[Max(T)].day)
    <3>1. PICK i : i = Max(T) /\ i \in T
      BY <1>2, <2>2
    <3>2. days(T) = days(T \ {i}) \cup {given[i].day}
      BY <3>1
    <3>3. days(T) \subseteq Nat
      OBVIOUS
    <3>4. T \ {i} \in SUBSET (1..n) /\ given[i].day \in Nat
      BY <3>1
    <3>5. PICK l, m, d : l = last[T] /\ m = last[T \ {i}] /\ d = given[i].day
      OBVIOUS
    <3>6. l \in days(T) /\ \A e \in days(T) : e <= l
      BY <1>3, <3>5
    <3>7. m \in days(T \ {i}) /\ \A e \in days(T \ {i}) : e <= m
      BY <1>3, <3>4, <3>5
    <3>8. days(T) = days(T \ {i}) \cup {d}
      BY <3>2, <3>5
    <3>9. l = step(m, d)
      <4> HIDE DEF days
      <4>1. /\ l \in Nat /\ m \in Nat /\ d \in Nat
            /\ l = d \/ l <= m
            /\ m <= l /\ d <= l
        BY <3>3, <3>6, <3>7, <3>8
      <4>2. l = m \/ l = d
        BY <3>6, <3>7, <3>8, <4>1
      <4> QED
        BY <4>1, <4>2
    <3> QED
      BY <3>1, <3>5, <3>9
  <2>3. last = [T \in SUBSET (1..n) |-> last[T]]
    OBVIOUS
  <2> HIDE DEF last
  <2> QED
    BY <2>1, <2>2, <2>3
<1>5. Folds(h)
  BY <1>4
<1>6. h[1..n] = last[1..n]
  <2> DEFINE F == {T \in SUBSET (1..n) : h[T] = last[T]}
  <2>1. {} \in F
    BY <1>4, <1>5
  <2>2. ASSUME NEW T \in SUBSET (1..n), T # {} PROVE \E i \in T : T \ {i} \in F => T \in F
    <3>1. Max(T) \in T
      BY <1>2, <2>2
    <3>2. /\ h[T] = step(h[T \ {Max(T)}], given[Max(T)].day)
          /\ last[T] = step(last[T \ {Max(T)}], given[Max(T)].day)
      <4> HIDE DEF h, last
      <4> QED
        BY <1>4, <1>5, <2>2
    <3>3. T \ {Max(T)} \in F => h[T] = last[T]
      <4> HIDE DEF h, last
      <4> QED
        BY <3>2
    <3> HIDE DEF h, last
    <3> QED
      BY <3>1, <3>3
  <2>3. IsFiniteSet(1..n) /\ 1..n \in SUBSET (1..n)
    BY FS_Interval
  <2>4. Grows(F, 1..n)
    <3> HIDE DEF F
    <3> QED
      BY <2>1, <2>2 DEF Grows
  <2>5. 1..n \in F
    <3> HIDE DEF F
    <3> QED
      BY <2>3, <2>4, AllFinite
  <2> QED
    BY <2>5
<1>7. /\ given[1].day \in days(1..n) /\ days(1..n) \subseteq Nat
      /\ 1..n \in SUBSET (1..n) /\ 1 \in 1..n
  OBVIOUS
<1>8. last[1..n] \in days(1..n) /\ \A d \in days(1..n) : d <= last[1..n]
  BY <1>3, <1>7
<1>9. last[1..n] = 0 => given[1].day = 0
  <2> HIDE DEF last, days
  <2> QED
    BY <1>7, <1>8
<1> HIDE DEF h, last
<1> QED
  BY <1>1, <1>6, <1>7, <1>8, <1>9

LEMMA CountsAddUp ==
  ASSUME NEW n \in Nat, NEW given, \A i \in 1..n : given[i].count \in Nat,
         NEW sum, Adds(sum, [i \in 1..n |-> given[i].count], 1..n)
  PROVE  MapThenSumSet(LAMBDA i : given[i].count, 1..n) = sum[1..n]
<1> DEFINE f == [i \in 1..n |-> given[i].count]
           any(T) == CHOOSE i \in T : TRUE
           Folds(g) == g = [T \in SUBSET (1..n) |->
                              IF T = {} THEN 0 ELSE given[any(T)].count + g[T \ {any(T)}]]
           h == CHOOSE g : Folds(g)
<1>1. MapThenSumSet(LAMBDA i : given[i].count, 1..n) = h[1..n]
  BY DEF MapThenSumSet, MapThenFoldSet
<1>2. \A T \in SUBSET (1..n) : T # {} => any(T) \in T
  OBVIOUS
<1> HIDE DEF any
<1>3. Folds(sum)
  <2>1. sum = [T \in SUBSET (1..n) |-> sum[T]]
    BY DEF Adds
  <2>2. ASSUME NEW T \in SUBSET (1..n), T # {}
        PROVE  sum[T] = given[any(T)].count + sum[T \ {any(T)}]
    <3>1. PICK i : i = any(T) /\ i \in T
      BY <1>2, <2>2
    <3>2. sum[T] = sum[T \ {i}] + given[i].count
      BY <3>1 DEF Adds
    <3>3. sum[T \ {i}] \in Nat /\ given[i].count \in Nat
      BY <3>1 DEF Adds
    <3> QED
      BY <3>1, <3>2, <3>3
  <2> QED
    BY <2>1, <2>2 DEF Adds
<1>4. Folds(h)
  BY <1>3
<1>5. AddsUp(h, f, 1..n)
  <2>0. h[{}] = 0
    BY <1>4
  <2> SUFFICES ASSUME NEW T \in SUBSET (1..n), T # {}
               PROVE  \E i \in T : h[T] = f[i] + h[T \ {i}]
    BY <2>0 DEF AddsUp
  <2>1. h[T] = given[any(T)].count + h[T \ {any(T)}]
    BY <1>4
  <2>2. any(T) \in T /\ f[any(T)] = given[any(T)].count
    BY <1>2
  <2> HIDE DEF h, f
  <2> QED
    BY <2>1, <2>2
<1> DEFINE I == 1..n
<1>7. f \in [I -> Nat] /\ Adds(sum, f, I) /\ I \in SUBSET I
  OBVIOUS
<1>8. IsFiniteSet(I)
  BY FS_Interval
<1>9. AddsUp(h, f, I)
  BY <1>5
<1> HIDE DEF h, f, I
<1>10. \A T \in SUBSET I : h[T] = sum[T]
  BY <1>7, <1>8, <1>9, SumOfAny
<1>11. h[I] = sum[I]
  BY <1>7, <1>10
<1> QED
  BY <1>1, <1>11 DEF I

LEMMA FoldsAddUp ==
  ASSUME NEW n \in Nat, NEW given, \A i \in 1..n : given[i].fold \in Nat,
         NEW sum, Adds(sum, [i \in 1..n |-> given[i].fold], 1..n)
  PROVE  MapThenSumSet(LAMBDA i : given[i].fold, 1..n) = sum[1..n]
<1> DEFINE f == [i \in 1..n |-> given[i].fold]
           any(T) == CHOOSE i \in T : TRUE
           Folds(g) == g = [T \in SUBSET (1..n) |->
                              IF T = {} THEN 0 ELSE given[any(T)].fold + g[T \ {any(T)}]]
           h == CHOOSE g : Folds(g)
<1>1. MapThenSumSet(LAMBDA i : given[i].fold, 1..n) = h[1..n]
  BY DEF MapThenSumSet, MapThenFoldSet
<1>2. \A T \in SUBSET (1..n) : T # {} => any(T) \in T
  OBVIOUS
<1> HIDE DEF any
<1>3. Folds(sum)
  <2>1. sum = [T \in SUBSET (1..n) |-> sum[T]]
    BY DEF Adds
  <2>2. ASSUME NEW T \in SUBSET (1..n), T # {}
        PROVE  sum[T] = given[any(T)].fold + sum[T \ {any(T)}]
    <3>1. PICK i : i = any(T) /\ i \in T
      BY <1>2, <2>2
    <3>2. sum[T] = sum[T \ {i}] + given[i].fold
      BY <3>1 DEF Adds
    <3>3. sum[T \ {i}] \in Nat /\ given[i].fold \in Nat
      BY <3>1 DEF Adds
    <3> QED
      BY <3>1, <3>2, <3>3
  <2> QED
    BY <2>1, <2>2 DEF Adds
<1>4. Folds(h)
  BY <1>3
<1>5. AddsUp(h, f, 1..n)
  <2>0. h[{}] = 0
    BY <1>4
  <2> SUFFICES ASSUME NEW T \in SUBSET (1..n), T # {}
               PROVE  \E i \in T : h[T] = f[i] + h[T \ {i}]
    BY <2>0 DEF AddsUp
  <2>1. h[T] = given[any(T)].fold + h[T \ {any(T)}]
    BY <1>4
  <2>2. any(T) \in T /\ f[any(T)] = given[any(T)].fold
    BY <1>2
  <2> HIDE DEF h, f
  <2> QED
    BY <2>1, <2>2
<1> DEFINE I == 1..n
<1>7. f \in [I -> Nat] /\ Adds(sum, f, I) /\ I \in SUBSET I
  OBVIOUS
<1>8. IsFiniteSet(I)
  BY FS_Interval
<1>9. AddsUp(h, f, I)
  BY <1>5
<1> HIDE DEF h, f, I
<1>10. \A T \in SUBSET I : h[T] = sum[T]
  BY <1>7, <1>8, <1>9, SumOfAny
<1>11. h[I] = sum[I]
  BY <1>7, <1>10
<1> QED
  BY <1>1, <1>11 DEF I

-----------------------------------------------------------------------------
(* The provider's order, and what it adds up to.                           *)

\* What is needed of a set of given to put them in order: naturals for pools, none twice.
OfDistinctPools(S) ==
  /\ IsFiniteSet(S)
  /\ \A x \in S : x.pool \in Nat
  /\ \A x, y \in S : x.pool = y.pool => x = y

PoolsOf(q, n) == {q[i].pool : i \in 1..n}

PoolsIn(q, n, P) == \A i \in 1..n : q[i].pool \in P

OncePerPool(q, n) == \A i, j \in 1..n : i # j => q[i].pool # q[j].pool

\* A sequence whose pools ascend has no pool twice, near or far.
LEMMA AscendingFar ==
  ASSUME NEW n \in Nat, NEW R, NEW q \in [1..n -> R], Ascending(q), PoolsIn(q, n, Nat)
  PROVE  OncePerPool(q, n)
<1> DEFINE v == [i \in 1..n |-> q[i].pool]
<1>1. Len(q) = n
  OBVIOUS
<1>2. v \in [1..n -> Nat] /\ \A i \in 2..n : v[i - 1] < v[i]
  <2>1. \A i \in 2..n : i \in 1..n /\ i - 1 \in 1..n
    OBVIOUS
  <2> QED
    BY <1>1, <2>1 DEF Ascending, PoolsIn
<1>3. \A i, j \in 1..n : i < j => v[i] < v[j]
  <2> HIDE DEF v
  <2> QED
    BY <1>2, Rising
<1> SUFFICES ASSUME NEW i \in 1..n, NEW j \in 1..n, i # j PROVE q[i].pool # q[j].pool
  BY DEF OncePerPool
<1>4. v[i] \in Nat /\ v[j] \in Nat /\ v[i] # v[j]
  <2>1. i < j \/ j < i
    OBVIOUS
  <2> HIDE DEF v
  <2> QED
    BY <1>2, <1>3, <2>1
<1> QED
  BY <1>4

\* The seals of distinct pools in order: all of them, and once each.
LEMMA InOrderIs ==
  ASSUME NEW S, OfDistinctPools(S)
  PROVE  /\ InOrder(S) \in [1..Cardinality(S) -> S] /\ Cardinality(S) \in Nat
         /\ Ascending(InOrder(S))
         /\ {InOrder(S)[i] : i \in 1..Cardinality(S)} = S
<1> DEFINE key == [x \in S |-> x.pool]
           n == Cardinality(S)
<1>1. n \in Nat
  BY FS_CardinalityType DEF OfDistinctPools
<1>2. PICK q : Lists(q, S, key)
  <2>1. key \in [S -> Nat] /\ \A x, y \in S : key[x] = key[y] => x = y
    BY DEF OfDistinctPools
  <2> HIDE DEF key
  <2> QED
    BY <2>1, ListExists DEF OfDistinctPools
<1>3. q \in [1..n -> S] /\ Ascending(q)
  <2>1. q \in [1..n -> S] /\ \A i, j \in 1..n : i < j => key[q[i]] < key[q[j]]
    BY <1>2 DEF Lists
  <2>2. Len(q) = n
    BY <1>1, <2>1
  <2>3. ASSUME NEW i \in 2..n PROVE q[i - 1].pool < q[i].pool
    <3>1. i \in 1..n /\ i - 1 \in 1..n /\ i - 1 < i
      BY <1>1
    <3>2. key[q[i - 1]] < key[q[i]] /\ q[i] \in S /\ q[i - 1] \in S
      BY <2>1, <3>1
    <3> QED
      BY <3>2
  <2> QED
    BY <2>1, <2>2, <2>3 DEF Ascending
<1>4. InOrder(S) \in [1..n -> S] /\ Ascending(InOrder(S))
  BY <1>3 DEF InOrder
<1>5. OncePerPool(InOrder(S), n)
  <2>1. PoolsIn(InOrder(S), n, Nat)
    BY <1>4 DEF OfDistinctPools, PoolsIn
  <2> HIDE DEF n
  <2> QED
    BY <1>1, <1>4, <2>1, AscendingFar
<1>6. {InOrder(S)[i] : i \in 1..n} = S
  <2>1. \A i, j \in 1..n : InOrder(S)[i] = InOrder(S)[j] => i = j
    BY <1>5 DEF OncePerPool
  <2> QED
    BY <1>4, <2>1, ListIsWhole DEF OfDistinctPools
<1> QED
  BY <1>1, <1>4, <1>6

\* Contents of the pools, by their counts.
Counts(P) == [p \in P |-> Contents[p].count]

CountsAsContents(q, n) == \A i \in 1..n : q[i].count = Contents[q[i].pool].count

\* The count of a sequence with ascending pools is that of the set of them.
LEMMA CountOfPools ==
  ASSUME NEW n \in Nat, NEW R, NEW q \in [1..n -> R], Ascending(q),
         NEW P \in SUBSET Pools, NEW sum, Adds(sum, Counts(P), P),
         PoolsIn(q, n, P), CountsAsContents(q, n)
  PROVE  CountOf(q) = sum[{q[i].pool : i \in 1..n}]
<1> DEFINE I == 1..n
           b == [i \in I |-> q[i].pool]
           f == Counts(P)
           over == SumOver(sum, b, I)
<1>1. f \in [P -> Nat]
  BY ServiceAssumption DEF Counts
<1>2. b \in Injection(I, P)
  <2>1. PoolsIn(q, n, Nat)
    BY ServiceAssumption DEF PoolsIn
  <2>2. OncePerPool(q, n)
    BY <2>1, AscendingFar
  <2> QED
    BY <2>2 DEF Injection, IsInjective, PoolsIn, OncePerPool
<1>3. Adds(over, At(f, b, I), I)
  <2>1. Adds(sum, f, P)
    OBVIOUS
  <2> HIDE DEF b, f, I
  <2> QED
    BY <1>1, <1>2, <2>1, SumOfImage
<1>4. At(f, b, I) = [i \in 1..n |-> q[i].count]
  BY DEF Counts, At, PoolsIn, CountsAsContents
<1>5. \A i \in 1..n : q[i].count \in Nat
  BY ServiceAssumption DEF PoolsIn, CountsAsContents
<1>6. CountOf(q) = over[1..n]
  <2>1. Adds(over, [i \in 1..n |-> q[i].count], 1..n)
    BY <1>3, <1>4
  <2> HIDE DEF over
  <2> QED
    BY <1>5, <2>1, CountIs
<1>7. over[1..n] = sum[{q[i].pool : i \in 1..n}]
  <2>1. {b[i] : i \in 1..n} = {q[i].pool : i \in 1..n}
    OBVIOUS
  <2> QED
    BY <2>1 DEF SumOver
<1> QED
  BY <1>6, <1>7

\* No pool can go missing from a set of them and leave the count.
LEMMA EveryPoolCounts ==
  ASSUME NEW P \in SUBSET Pools, IsFiniteSet(P), NEW sum, Adds(sum, Counts(P), P)
  PROVE  \A Q \in SUBSET P : sum[Q] = sum[P] => Q = P
<1>1. PICK f : f = Counts(P)
  OBVIOUS
<1>2. f \in [P -> Nat \ {0}]
  BY <1>1, ServiceAssumption DEF Counts
<1>3. Adds(sum, f, P)
  BY <1>1
<1> QED
  BY <1>2, <1>3, SumOfAll

\* A sequence of seals in the order of their pools, each with the count of its pool.
InPoolOrder(q, n, R) ==
  n \in Nat /\ q \in [1..n -> R] /\ Ascending(q) /\ CountsAsContents(q, n)

\* Two such sequences with the same count, the pools of one among those of the other, have
\* the same pools: every pool counts for something.
LEMMA SameCount ==
  ASSUME NEW q, NEW n, NEW R, InPoolOrder(q, n, R), NEW r, NEW m, NEW S, InPoolOrder(r, m, S),
         PoolsOf(r, m) \subseteq Pools, PoolsIn(q, n, PoolsOf(r, m)), CountOf(q) = CountOf(r)
  PROVE  PoolsOf(q, n) = PoolsOf(r, m) /\ n = Cardinality(PoolsOf(r, m))
<1>0. /\ n \in Nat /\ q \in [1..n -> R] /\ Ascending(q) /\ CountsAsContents(q, n)
      /\ m \in Nat /\ r \in [1..m -> S] /\ Ascending(r) /\ CountsAsContents(r, m)
  BY DEF InPoolOrder
<1> USE <1>0
<1> DEFINE P == PoolsOf(r, m)
<1> USE DEF PoolsOf
<1> DEFINE Q == {q[i].pool : i \in 1..n}
<1>1. Q \in SUBSET P
  BY DEF PoolsIn
<1>2. IsFiniteSet(P)
  <2> DEFINE g == [i \in 1..m |-> r[i].pool]
  <2>1. g \in Surjection(1..m, P)
    BY DEF Surjection
  <2>2. IsFiniteSet(1..m)
    <3>1. 1 \in Int /\ m \in Int
      OBVIOUS
    <3> QED
      BY <3>1, FS_Interval
  <2> HIDE DEF g
  <2> QED
    BY <2>1, <2>2, FS_Surjection
<1>3. Counts(P) \in [P -> Nat \ {0}] /\ Counts(P) \in [P -> Nat]
  BY <1>1, ServiceAssumption DEF Counts
<1>4. PICK sum : Adds(sum, Counts(P), P)
  BY <1>2, <1>3, SumsExist
<1>5. CountOf(q) = sum[Q]
  BY <1>1, <1>4, CountOfPools
<1>6. CountOf(r) = sum[P]
  <2>1. PoolsIn(r, m, P)
    BY DEF PoolsIn
  <2>2. CountOf(r) = sum[P]
    BY <1>1, <1>4, <2>1, CountOfPools
  <2> QED
    BY <2>2
<1>7. Q = P
  <2>1. sum[Q] = sum[P] /\ P \in SUBSET Pools
    BY <1>5, <1>6
  <2> HIDE DEF Q, P
  <2> QED
    BY <1>1, <1>2, <1>4, <2>1, EveryPoolCounts
<1>8. n = Cardinality(P)
  <2> DEFINE b == [i \in 1..n |-> q[i].pool]
  <2>1. OncePerPool(q, n)
    <3>1. PoolsIn(q, n, Nat)
      BY ServiceAssumption DEF PoolsIn
    <3> QED
      BY <3>1, AscendingFar
  <2>2. b \in Bijection(1..n, P)
    BY <1>7, <2>1 DEF Bijection, Injection, Surjection, IsInjective, PoolsIn, OncePerPool
  <2>3. IsFiniteSet(1..n) /\ Cardinality(1..n) = n
    <3>1. 1 \in Int /\ n \in Int /\ (IF 1 > n THEN 0 ELSE n - 1 + 1) = n
      OBVIOUS
    <3> QED
      BY <3>1, FS_Interval
  <2>4. ExistsBijection(1..n, P)
    BY <2>2 DEF ExistsBijection
  <2> QED
    BY <2>3, <2>4, FS_Bijection
<1> QED
  BY <1>7, <1>8

-----------------------------------------------------------------------------
(* The invariant of the whole state is inductive.                          *)

\* The registry as keyFor reads it.
LEMMA KeyForIs ==
  ASSUME TypeOK, NEW e \in 0..HeadEpoch
  PROVE  KeyFor(e) \in [epoch : 0..MaxEpoch, key : 0..MaxEpoch, start : 1..MaxDay, end : 0..MaxDay]
<1>1. HeadEpoch \in 0..MaxEpoch /\ MaxEpoch \in Nat /\ MaxDay \in Nat
  BY ServiceAssumption DEF TypeOK
<1>2. directory[e + 1].key = e /\ directory[e + 1].start \in 1..MaxDay
  BY DEF TypeOK
<1>3. e # HeadEpoch => directory[e + 2].start \in 1..MaxDay
  <2> SUFFICES ASSUME e # HeadEpoch PROVE directory[e + 2].start \in 1..MaxDay
    OBVIOUS
  <2>1. e + 1 \in 0..HeadEpoch /\ e + 2 = (e + 1) + 1
    BY <1>1
  <2> QED
    BY <2>1 DEF TypeOK
<1> QED
  BY <1>1, <1>2, <1>3 DEF KeyFor

\* A rotation adds one entry to the directory and leaves the others.
LEMMA RotateIs ==
  ASSUME ServiceInv, Rotate
  PROVE  /\ HeadEpoch' = HeadEpoch + 1 /\ HeadEpoch + 1 \in 0..MaxEpoch
         /\ \A e \in 0..HeadEpoch : directory'[e + 1] = directory[e + 1]
         /\ directory'[HeadEpoch + 2].key = HeadEpoch + 1
         /\ directory'[HeadEpoch + 2].start \in 1..MaxDay
         /\ Registry'
<1>1. PICK d \in (today + 1)..MaxDay :
        LET entry == [key |-> HeadEpoch + 1, start |-> d, prev |-> DigestAt(HeadEpoch)] IN
        directory' = Append(directory, entry)
  BY DEF Rotate
<1>2. PICK entry : /\ directory' = Append(directory, entry)
                   /\ entry.key = HeadEpoch + 1 /\ entry.start = d
  BY <1>1
<1>3. PICK E : directory \in Seq(E)
  BY DEF ServiceInv, Registry
<1>4. /\ Len(directory') = Len(directory) + 1 /\ Len(directory) \in Nat
      /\ \A i \in 1..Len(directory) : directory'[i] = directory[i]
      /\ directory'[Len(directory) + 1] = entry
      /\ directory' \in [1..(Len(directory) + 1) -> E \cup {entry}]
  <2>1. directory \in Seq(E \cup {entry}) /\ entry \in E \cup {entry} /\ Len(directory) \in Nat
    BY <1>3
  <2>2. directory' \in Seq(E \cup {entry}) /\ Len(directory') = Len(directory) + 1
    BY <1>2, <2>1
  <2>3. /\ \A i \in 1..Len(directory) : directory'[i] = directory[i]
        /\ directory'[Len(directory) + 1] = entry
    BY <1>2, <2>1
  <2> QED
    BY <2>1, <2>2, <2>3
<1>5. d \in 1..MaxDay
  BY ServiceAssumption DEF ServiceInv, TypeOK
<1>6. HeadEpoch \in Nat /\ HeadEpoch + 1 = Len(directory) /\ HeadEpoch + 2 = Len(directory) + 1
  BY <1>4 DEF ServiceInv, TypeOK, HeadEpoch
<1>7. HeadEpoch' = HeadEpoch + 1 /\ HeadEpoch + 1 \in 0..MaxEpoch
  <2>1. HeadEpoch < MaxEpoch /\ MaxEpoch \in Nat
    BY ServiceAssumption DEF Rotate
  <2>2. HeadEpoch' = Len(directory') - 1
    BY DEF HeadEpoch
  <2> QED
    BY <1>4, <1>6, <2>1, <2>2
<1>8. \A e \in 0..HeadEpoch : directory'[e + 1] = directory[e + 1]
  BY <1>4, <1>6
<1>9. Registry'
  <2>1. directory' \in [1..Len(directory') -> {directory'[i] : i \in 1..Len(directory')}]
    BY <1>4
  <2> QED
    BY <1>4, <2>1 DEF Registry
<1> QED
  BY <1>2, <1>4, <1>5, <1>6, <1>7, <1>8, <1>9

\* The statement a batch in hand is of names a sync of the state.
LEMMA JobHasSync ==
  ASSUME ServiceInv, job # Nobody
  PROVE  \E s \in syncs : s.ctx = job.ctx /\ s.sequence = job.sequence /\ s.ctx \in Contexts
<1>1. PICK t \in statements : job.ctx = t.totals.ctx /\ job.sequence = t.totals.sequence
  BY DEF ServiceInv, JobIssued
<1>2. PICK s \in syncs, m \in 0..MaxManifest : t = Statement(s, m)
  BY DEF ServiceInv, StatementsWhole
<1>3. t.totals.ctx = s.ctx /\ t.totals.sequence = s.sequence
  BY <1>2 DEF Statement
<1>4. s.ctx \in Contexts
  BY DEF ServiceInv, SyncsNumbered, Syncs
<1> QED
  BY <1>1, <1>3, <1>4

LEMMA TypeInit ==
  Init => TypeOK /\ Registry
<1> SUFFICES ASSUME Init PROVE TypeOK /\ Registry
  OBVIOUS
<1> USE ServiceAssumption DEF Init
<1>1. Len(directory) = 1 /\ directory[1].key = 0 /\ directory[1].start = 1 /\ HeadEpoch = 0
  BY DEF HeadEpoch
<1>2. \A e \in 0..HeadEpoch : directory[e + 1].key = e /\ directory[e + 1].start \in 1..MaxDay
  BY <1>1
<1>3. known \in Seq([epoch : 0..MaxEpoch, key : 0..MaxEpoch, start : 1..MaxDay, end : 0..MaxDay])
  OBVIOUS
<1>4. today \in 1..MaxDay /\ HeadEpoch \in 0..MaxEpoch
  BY <1>1
<1>5. \E m \in 0..MaxManifest : deployments = {Deployment(m)}
  OBVIOUS
<1>6. Registry
  BY DEF Registry
<1> QED
  BY <1>1, <1>2, <1>3, <1>4, <1>5, <1>6 DEF TypeOK

LEMMA TypeNext ==
  ServiceInv /\ [Next]_vars => TypeOK' /\ Registry'
<1> SUFFICES ASSUME ServiceInv, [Next]_vars PROVE TypeOK' /\ Registry'
  OBVIOUS
<1>0. TypeOK /\ Registry
  BY DEF ServiceInv
<1>1. ASSUME UNCHANGED <<makes, directory>> PROVE HeadEpoch' = HeadEpoch /\ Registry'
  BY <1>0, <1>1 DEF HeadEpoch, Registry
<1>2. ASSUME NEW c \in Contexts, Sync(c) PROVE TypeOK' /\ Registry'
  BY <1>0, <1>1, <1>2 DEF Sync, sealingVars, TypeOK
<1>3. ASSUME NEW s \in syncs, NEW p \in s.pools, SealPool(s, p) PROVE TypeOK' /\ Registry'
  <2>1. PICK x : /\ seals' = seals \cup {x}
                 /\ x.ctx = s.ctx /\ x.sequence = s.sequence /\ x.attester = s.attester
                 /\ x.seal.day = today
    <3>1. PICK e : seals' = seals \cup {[ctx |-> s.ctx, sequence |-> s.sequence,
                                         attester |-> s.attester, seal |-> PoolSeal(s, p, e)]}
      BY <1>3 DEF SealPool
    <3> DEFINE new == [ctx |-> s.ctx, sequence |-> s.sequence,
                       attester |-> s.attester, seal |-> PoolSeal(s, p, e)]
    <3>2. new.seal.day = today
      BY DEF PoolSeal
    <3>3. new.ctx = s.ctx /\ new.sequence = s.sequence /\ new.attester = s.attester
      OBVIOUS
    <3>4. seals' = seals \cup {new}
      BY <3>1
    <3> HIDE DEF new
    <3> QED
      BY <3>2, <3>3, <3>4
  <2>2. s.attester \in Attesters
    BY DEF ServiceInv, SyncsNumbered, Syncs
  <2>3. UNCHANGED <<sealingVars, today, syncs, known, record, job>>
    BY <1>3 DEF SealPool
  <2> QED
    BY <1>0, <1>1, <2>1, <2>2, <2>3 DEF sealingVars, TypeOK
<1>4. ASSUME NEW s \in syncs, Settle(s) PROVE TypeOK' /\ Registry'
  BY <1>0, <1>1, <1>4 DEF Settle, sealingVars, TypeOK
<1>5. ASSUME NEW e \in 0..HeadEpoch, FetchKey(e) PROVE TypeOK' /\ Registry'
  <2>1. known' = Append(known, KeyFor(e))
    BY <1>5 DEF FetchKey
  <2>2. known' \in Seq([epoch : 0..MaxEpoch, key : 0..MaxEpoch, start : 1..MaxDay, end : 0..MaxDay])
    BY <1>0, <2>1, KeyForIs DEF TypeOK
  <2> QED
    BY <1>0, <1>1, <1>5, <2>2 DEF FetchKey, sealingVars, TypeOK
<1>6. CASE FetchRecord
  <2>1. record' \in [enclave : {Enclave}, manifest : 0..MaxManifest]
    BY <1>0, <1>6 DEF FetchRecord, TypeOK, Deployment
  <2>2. job' = Nobody
    BY <1>6 DEF FetchRecord, Fetching
  <2> QED
    BY <1>0, <1>1, <1>6, <2>1, <2>2 DEF FetchRecord, sealingVars, TypeOK
<1>7. CASE Issue
  BY <1>0, <1>1, <1>7 DEF Issue, sealingVars, TypeOK
<1>8. CASE Submit
  <2>1. job.ctx \in Contexts
    BY <1>8, JobHasSync DEF Submit
  <2>2. \A u \in units' : u.attester = Me /\ u.ctx \in Contexts
    <3>1. UnitOf(Me, SU(job), job).attester = Me /\ UnitOf(Me, SU(job), job).ctx = job.ctx
      BY DEF UnitOf
    <3> QED
      BY <1>0, <1>8, <2>1, <3>1 DEF Submit, TypeOK
  <2>3. known' \in Seq([epoch : 0..MaxEpoch, key : 0..MaxEpoch, start : 1..MaxDay, end : 0..MaxDay])
    BY <1>8 DEF Submit
  <2> QED
    BY <1>0, <1>1, <1>8, <2>2, <2>3 DEF Submit, TypeOK
<1>9. CASE NextDay
  <2>1. today' \in 1..MaxDay
    BY <1>0, <1>9, ServiceAssumption DEF NextDay, TypeOK
  <2> QED
    BY <1>0, <1>1, <1>9, <2>1 DEF NextDay, sealingVars, TypeOK
<1>10. CASE Rotate
  <2>1. /\ HeadEpoch' = HeadEpoch + 1 /\ HeadEpoch + 1 \in 0..MaxEpoch
        /\ \A e \in 0..HeadEpoch : directory'[e + 1] = directory[e + 1]
        /\ directory'[HeadEpoch + 2].key = HeadEpoch + 1
        /\ directory'[HeadEpoch + 2].start \in 1..MaxDay
        /\ Registry'
    BY <1>10, RotateIs
  <2>2. HeadEpoch \in Nat
    BY <1>0 DEF TypeOK
  <2>3. ASSUME NEW e \in 0..(HeadEpoch')
        PROVE  directory'[e + 1].key = e /\ directory'[e + 1].start \in 1..MaxDay
    <3>1. CASE e \in 0..HeadEpoch
      BY <1>0, <2>1, <3>1 DEF TypeOK
    <3>2. CASE e = HeadEpoch + 1
      <4>1. e + 1 = HeadEpoch + 2
        BY <2>2, <3>2
      <4> QED
        BY <2>1, <3>2, <4>1
    <3> QED
      BY <2>1, <2>2, <3>1, <3>2
  <2> QED
    BY <1>0, <1>10, <2>1, <2>3 DEF Rotate, TypeOK
<1>11. CASE Reregister
  <2>1. \E m \in 0..MaxManifest : deployments' = {Deployment(m)}
    <3>1. PICK m \in 0..(MaxManifest - 1) : deployments' = {Deployment(m + 1)}
      BY <1>11 DEF Reregister
    <3>2. m + 1 \in 0..MaxManifest
      BY ServiceAssumption
    <3> QED
      BY <3>1, <3>2
  <2>2. \A m : Deployment(m)' = Deployment(m)
    BY DEF Deployment
  <2> QED
    BY <1>0, <1>1, <1>11, <2>1, <2>2 DEF Reregister, TypeOK
<1>12. CASE UNCHANGED vars
  BY <1>0, <1>1, <1>12 DEF vars, sealingVars, TypeOK
<1> QED
  BY <1>2, <1>3, <1>4, <1>5, <1>6, <1>7, <1>8, <1>9, <1>10, <1>11, <1>12 DEF Next

LEMMA SyncsInit ==
  Init => SyncsNumbered
  BY FS_EmptySet DEF Init, SyncsNumbered

LEMMA SyncsNext ==
  ServiceInv /\ [Next]_vars => SyncsNumbered'
<1> SUFFICES ASSUME ServiceInv, [Next]_vars PROVE SyncsNumbered'
  OBVIOUS
<1>0. SyncsNumbered
  BY DEF ServiceInv
<1>1. ASSUME UNCHANGED syncs PROVE SyncsNumbered'
  BY <1>0, <1>1 DEF SyncsNumbered
<1>2. ASSUME NEW c \in Contexts, Sync(c) PROVE SyncsNumbered'
  <2> DEFINE of(x) == {s \in syncs : s.ctx = x}
             n == Cardinality(of(c))
  <2>0. PICK a \in Attesters, P \in (SUBSET Pools) \ {{}} :
          syncs' = syncs \cup {[ctx |-> c, sequence |-> n + 1, attester |-> a, pools |-> P]}
    BY <1>2 DEF Sync
  <2> DEFINE new == [ctx |-> c, sequence |-> n + 1, attester |-> a, pools |-> P]
  <2>1. /\ syncs' = syncs \cup {new}
        /\ new.ctx = c /\ new.sequence = n + 1
        /\ n \in Nat => new \in Syncs
    <3> HIDE DEF n
    <3> QED
      BY <2>0 DEF Syncs
  <2> HIDE DEF new
  <2>2. \A x : IsFiniteSet(of(x)) /\ Cardinality(of(x)) \in Nat
    <3> SUFFICES ASSUME NEW x PROVE IsFiniteSet(of(x)) /\ Cardinality(of(x)) \in Nat
      OBVIOUS
    <3>1. of(x) \in SUBSET syncs /\ IsFiniteSet(syncs)
      BY <1>0 DEF SyncsNumbered
    <3> HIDE DEF of
    <3>2. IsFiniteSet(of(x))
      BY <3>1, FS_Subset
    <3> QED
      BY <3>2, FS_CardinalityType
  <2>3. \A s \in of(c) : s.sequence <= n /\ s.sequence \in Nat
    BY <1>0 DEF SyncsNumbered, Syncs
  <2>4. new \notin of(c) /\ \A x \in of(c) : x.sequence # n + 1
    <3>1. n \in Nat
      BY <2>2
    <3>2. \A x \in of(c) : x.sequence # n + 1
      <4> HIDE DEF n, of
      <4> QED
        BY <2>3, <3>1
    <3> QED
      BY <2>1, <3>2
  <2>5. IsFiniteSet(syncs')
    BY <1>0, <2>1, FS_AddElement DEF SyncsNumbered
  <2>6. Cardinality(of(c) \cup {new}) = n + 1
    <3> HIDE DEF of
    <3> QED
      BY <2>2, <2>4, FS_AddElement
  <2>7. ASSUME NEW s \in syncs'
        PROVE  s \in Syncs /\ s.sequence <= Cardinality({r \in syncs' : r.ctx = s.ctx})
    <3>1. s \in Syncs
      BY <1>0, <2>1, <2>2 DEF SyncsNumbered
    <3>2. CASE s.ctx = c
      <4>1. {r \in syncs' : r.ctx = s.ctx} = of(c) \cup {new}
        BY <2>1, <3>2
      <4>2. s.sequence <= n + 1
        BY <2>1, <2>2, <2>3, <3>2
      <4> QED
        BY <2>6, <3>1, <4>1, <4>2
    <3>3. CASE s.ctx # c
      <4>1. {r \in syncs' : r.ctx = s.ctx} = of(s.ctx) /\ s \in syncs
        BY <2>1, <3>3
      <4>2. s.sequence <= Cardinality(of(s.ctx))
        BY <1>0, <4>1 DEF SyncsNumbered
      <4> QED
        BY <3>1, <4>1, <4>2
    <3> QED
      BY <3>2, <3>3
  <2>8. ASSUME NEW r \in syncs', NEW s \in syncs', r.ctx = s.ctx, r.sequence = s.sequence
        PROVE  r = s
    <3>1. \A x \in syncs : ~(x.ctx = new.ctx /\ x.sequence = new.sequence)
      <4>1. \A x \in syncs : x.ctx = c => x.sequence # n + 1
        BY <2>4
      <4> QED
        BY <2>1, <4>1
    <3> QED
      BY <1>0, <2>1, <2>8, <3>1 DEF SyncsNumbered
  <2> QED
    BY <2>5, <2>7, <2>8 DEF SyncsNumbered, Syncs
<1>3. CASE UNCHANGED vars
  BY <1>1, <1>3 DEF vars
<1>4. ASSUME NEW s \in syncs, Settle(s) \/ \E p \in s.pools : SealPool(s, p) PROVE SyncsNumbered'
  BY <1>1, <1>4 DEF Settle, SealPool
<1>5. ASSUME NEW e \in 0..HeadEpoch, FetchKey(e) PROVE SyncsNumbered'
  BY <1>1, <1>5 DEF FetchKey
<1>6. CASE FetchRecord \/ Issue \/ Submit \/ NextDay \/ Rotate \/ Reregister
  BY <1>1, <1>6 DEF FetchRecord, Issue, Submit, NextDay, Rotate, Reregister
<1> QED
  BY <1>2, <1>3, <1>4, <1>5, <1>6 DEF Next

LEMMA SealsInit ==
  Init => SealsAsMade
  BY FS_EmptySet DEF Init, SealsAsMade

LEMMA SealsNext ==
  ServiceInv /\ [Next]_vars => SealsAsMade'
<1> SUFFICES ASSUME ServiceInv, [Next]_vars PROVE SealsAsMade'
  OBVIOUS
<1>0. SealsAsMade /\ TypeOK
  BY DEF ServiceInv
<1>1. ASSUME UNCHANGED <<directory, seals>> PROVE SealsAsMade'
  <2>1. ASSUME NEW x \in seals PROVE AsMade(x)'
    BY <1>0, <1>1 DEF SealsAsMade, AsMade, HeadEpoch, HandleMessage, SealId
  <2> QED
    BY <1>0, <1>1, <2>1 DEF SealsAsMade
<1>2. ASSUME NEW s \in syncs, NEW p \in s.pools, SealPool(s, p) PROVE SealsAsMade'
  <2>1. PICK e \in {HeadEpoch, HeadEpoch - 1} \cap Nat :
          seals' = seals \cup {[ctx |-> s.ctx, sequence |-> s.sequence,
                                attester |-> s.attester, seal |-> PoolSeal(s, p, e)]}
    BY <1>2 DEF SealPool
  <2> DEFINE new == [ctx |-> s.ctx, sequence |-> s.sequence, attester |-> s.attester,
                     seal |-> PoolSeal(s, p, e)]
  <2>2. UNCHANGED directory
    BY <1>2 DEF SealPool, sealingVars
  <2>3. e \in 0..HeadEpoch /\ today \in Nat \ {0}
    BY <1>0, ServiceAssumption DEF TypeOK
  <2>4. p \in Pools
    BY DEF ServiceInv, SyncsNumbered, Syncs
  <2>5. AsMade(new)
    BY <2>3, <2>4 DEF AsMade, PoolSeal, HandleMessage, SealId
  <2>6. ASSUME NEW x, AsMade(x) PROVE AsMade(x)'
    BY <2>2, <2>6 DEF AsMade, HeadEpoch, HandleMessage, SealId
  <2>7. \A x \in seals : ~(x.ctx = s.ctx /\ x.sequence = s.sequence /\ x.seal.pool = p)
    BY <1>2 DEF SealPool
  <2>8. new.ctx = s.ctx /\ new.sequence = s.sequence /\ new.seal.pool = p
    BY DEF PoolSeal
  <2> HIDE DEF new
  <2>9. seals' = seals \cup {new}
    BY <2>1 DEF new
  <2>10. IsFiniteSet(seals')
    BY <1>0, <2>9, FS_AddElement DEF SealsAsMade
  <2>11. \A x \in seals' : AsMade(x)'
    BY <1>0, <2>5, <2>6, <2>9 DEF SealsAsMade
  <2>12. \A x, y \in seals' :
           x.ctx = y.ctx /\ x.sequence = y.sequence /\ x.seal.pool = y.seal.pool => x = y
    BY <1>0, <2>7, <2>8, <2>9 DEF SealsAsMade
  <2> QED
    BY <2>10, <2>11, <2>12 DEF SealsAsMade
<1>3. CASE Rotate
  <2>1. /\ HeadEpoch' = HeadEpoch + 1 /\ HeadEpoch \in Nat
        /\ \A e \in 0..HeadEpoch : directory'[e + 1] = directory[e + 1]
    BY <1>0, <1>3, RotateIs DEF TypeOK
  <2>2. seals' = seals
    BY <1>3 DEF Rotate
  <2>3. ASSUME NEW x \in seals PROVE AsMade(x)'
    <3>1. AsMade(x)
      BY <1>0 DEF SealsAsMade
    <3> QED
      BY <2>1, <3>1 DEF AsMade, HandleMessage, SealId
  <2> QED
    BY <1>0, <2>2, <2>3 DEF SealsAsMade
<1>4. ASSUME NEW c \in Contexts, Sync(c) PROVE SealsAsMade'
  BY <1>1, <1>4 DEF Sync, sealingVars
<1>5. ASSUME NEW s \in syncs, Settle(s) PROVE SealsAsMade'
  BY <1>1, <1>5 DEF Settle, sealingVars
<1>6. ASSUME NEW e \in 0..HeadEpoch, FetchKey(e) PROVE SealsAsMade'
  BY <1>1, <1>6 DEF FetchKey, sealingVars
<1>7. CASE FetchRecord \/ Issue \/ Submit \/ NextDay \/ Reregister
  BY <1>1, <1>7 DEF FetchRecord, Issue, Submit, NextDay, Reregister, sealingVars
<1>8. CASE UNCHANGED vars
  BY <1>1, <1>8 DEF vars, sealingVars
<1> QED
  BY <1>2, <1>3, <1>4, <1>5, <1>6, <1>7, <1>8 DEF Next

\* A statement and what it was made from stay as they are while no seal of its sync is added.
LEMMA StatementStays ==
  ASSUME NEW s, SealsOf(s)' = SealsOf(s)
  PROVE  /\ Complete(s) => Complete(s)'
         /\ \A m : Statement(s, m)' = Statement(s, m)
<1>1. \A S : InOrder(S)' = InOrder(S)
  BY DEF InOrder
<1> QED
  BY <1>1 DEF Complete, Statement, Amount, SettlementMessage

LEMMA StatementsInit ==
  Init => StatementsWhole
  BY DEF Init, StatementsWhole

LEMMA StatementsNext ==
  ServiceInv /\ [Next]_vars => StatementsWhole'
<1> SUFFICES ASSUME ServiceInv, [Next]_vars PROVE StatementsWhole'
  OBVIOUS
<1>0. StatementsWhole /\ SyncsNumbered /\ TypeOK
  BY DEF ServiceInv
<1>1. ASSUME syncs \subseteq syncs', UNCHANGED <<seals, statements>> PROVE StatementsWhole'
  <2> SUFFICES ASSUME NEW t \in statements
               PROVE  \E s \in syncs' : /\ Complete(s)'
                                        /\ \E m \in 0..MaxManifest : t = Statement(s, m)'
    BY <1>1 DEF StatementsWhole
  <2>1. PICK s \in syncs, m \in 0..MaxManifest : Complete(s) /\ t = Statement(s, m)
    BY <1>0 DEF StatementsWhole
  <2>2. SealsOf(s)' = SealsOf(s)
    BY <1>1 DEF SealsOf
  <2>3. Complete(s)' /\ t = Statement(s, m)'
    BY <2>1, <2>2, StatementStays
  <2> QED
    BY <1>1, <2>3
<1>2. ASSUME NEW s \in syncs, NEW p \in s.pools, SealPool(s, p) PROVE StatementsWhole'
  <2> SUFFICES ASSUME NEW t \in statements
               PROVE  \E r \in syncs : /\ Complete(r)'
                                       /\ \E m \in 0..MaxManifest : t = Statement(r, m)'
    BY <1>2 DEF StatementsWhole, SealPool
  <2>1. PICK r \in syncs, m \in 0..MaxManifest : Complete(r) /\ t = Statement(r, m)
    BY <1>0 DEF StatementsWhole
  <2>2. ~(r.ctx = s.ctx /\ r.sequence = s.sequence)
    <3> SUFFICES ASSUME r.ctx = s.ctx, r.sequence = s.sequence PROVE FALSE
      OBVIOUS
    <3>1. r = s
      BY <1>0 DEF SyncsNumbered
    <3>2. PICK x \in seals : x.ctx = s.ctx /\ x.sequence = s.sequence /\ x.seal.pool = p
      BY <2>1, <3>1 DEF Complete, SealsOf
    <3> QED
      BY <1>2, <3>2 DEF SealPool
  <2>3. PICK e : seals' = seals \cup {[ctx |-> s.ctx, sequence |-> s.sequence,
                                       attester |-> s.attester, seal |-> PoolSeal(s, p, e)]}
    BY <1>2 DEF SealPool
  <2>4. SealsOf(r)' = SealsOf(r)
    BY <2>2, <2>3 DEF SealsOf
  <2>5. Complete(r)' /\ t = Statement(r, m)'
    BY <2>1, <2>4, StatementStays
  <2> QED
    BY <2>5
<1>3. ASSUME NEW s \in syncs, Settle(s) PROVE StatementsWhole'
  <2>1. UNCHANGED <<syncs, seals>>
    BY <1>3 DEF Settle
  <2>2. PICK d \in deployments : statements' = statements \cup {Statement(s, d.manifest)}
    BY <1>3 DEF Settle
  <2>3. Complete(s) /\ d.manifest \in 0..MaxManifest
    BY <1>0, <1>3 DEF Settle, Complete, TypeOK, Deployment
  <2>4. \A r : SealsOf(r)' = SealsOf(r)
    BY <2>1 DEF SealsOf
  <2> SUFFICES ASSUME NEW t \in statements'
               PROVE  \E r \in syncs : /\ Complete(r)'
                                       /\ \E m \in 0..MaxManifest : t = Statement(r, m)'
    BY <2>1 DEF StatementsWhole
  <2>5. PICK r \in syncs, m \in 0..MaxManifest : Complete(r) /\ t = Statement(r, m)
    BY <1>0, <2>2, <2>3 DEF StatementsWhole
  <2>6. Complete(r)' /\ t = Statement(r, m)'
    BY <2>4, <2>5, StatementStays
  <2> QED
    BY <2>6
<1>4. ASSUME NEW c \in Contexts, Sync(c) PROVE StatementsWhole'
  BY <1>1, <1>4 DEF Sync
<1>5. ASSUME NEW e \in 0..HeadEpoch, FetchKey(e) PROVE StatementsWhole'
  BY <1>1, <1>5 DEF FetchKey
<1>6. CASE FetchRecord \/ Issue \/ Submit \/ NextDay \/ Rotate \/ Reregister
  BY <1>1, <1>6 DEF FetchRecord, Issue, Submit, NextDay, Rotate, Reregister
<1>7. CASE UNCHANGED vars
  BY <1>1, <1>7 DEF vars
<1> QED
  BY <1>2, <1>3, <1>4, <1>5, <1>6, <1>7 DEF Next

LEMMA KnownNext ==
  ServiceInv /\ [Next]_vars => KnownEpochs'
<1> SUFFICES ASSUME ServiceInv, [Next]_vars PROVE KnownEpochs'
  OBVIOUS
<1>0. KnownEpochs /\ TypeOK
  BY DEF ServiceInv
<1>1. ASSUME UNCHANGED <<directory, known>> PROVE KnownEpochs'
  BY <1>0, <1>1 DEF KnownEpochs, HeadEpoch
<1>2. ASSUME NEW e \in 0..HeadEpoch, FetchKey(e) PROVE KnownEpochs'
  <2>1. known' = Append(known, KeyFor(e)) /\ HeadEpoch' = HeadEpoch
    BY <1>2 DEF FetchKey, sealingVars, HeadEpoch
  <2>2. KeyFor(e).epoch = e
    BY DEF KeyFor
  <2>3. PICK E : known \in Seq(E) /\ KeyFor(e) \in E
    BY <1>0, KeyForIs DEF TypeOK
  <2> HIDE DEF KeyFor
  <2>4. ASSUME NEW i \in 1..Len(known') PROVE known'[i].epoch \in 0..HeadEpoch
    <3>1. Len(known') = Len(known) + 1 /\ Len(known) \in Nat
      BY <2>1, <2>3
    <3>2. CASE i \in 1..Len(known)
      BY <1>0, <2>1, <2>3, <3>2 DEF KnownEpochs
    <3>3. CASE i = Len(known) + 1
      BY <2>1, <2>2, <2>3, <3>3
    <3> QED
      BY <3>1, <3>2, <3>3
  <2> QED
    BY <2>1, <2>4 DEF KnownEpochs
<1>3. CASE Rotate
  <2>1. HeadEpoch' = HeadEpoch + 1 /\ HeadEpoch \in Nat /\ known' = known
    BY <1>0, <1>3, RotateIs DEF Rotate, TypeOK
  <2> QED
    BY <1>0, <2>1 DEF KnownEpochs
<1>4. CASE Submit
  BY <1>4 DEF Submit, KnownEpochs
<1>5. ASSUME NEW c \in Contexts, Sync(c) PROVE KnownEpochs'
  BY <1>1, <1>5 DEF Sync, sealingVars
<1>6. ASSUME NEW s \in syncs, Settle(s) \/ \E p \in s.pools : SealPool(s, p) PROVE KnownEpochs'
  BY <1>1, <1>6 DEF Settle, SealPool, sealingVars
<1>7. CASE FetchRecord \/ Issue \/ NextDay \/ Reregister
  BY <1>1, <1>7 DEF FetchRecord, Issue, NextDay, Reregister, sealingVars
<1>8. CASE UNCHANGED vars
  BY <1>1, <1>8 DEF vars, sealingVars
<1> QED
  BY <1>2, <1>3, <1>4, <1>5, <1>6, <1>7, <1>8 DEF Next

\* Issues is a matter of its arguments alone.
LEMMA IssuesStays ==
  ASSUME NEW b, job' = b, UNCHANGED <<record, known>>
  PROVE  Issues(Me, job, record, known)' <=> Issues(Me, b, record, known)
  BY DEF Issues, Ascending, SealHolds, SelectInSeq, Min, InWindow, AddUp, CountOf, FoldOf, DayOf,
         FoldLeft, MapThenFoldSet, Max, Verifies, Sign, HandleMessage, SealId, SettlementMessage

LEMMA JobNext ==
  ServiceInv /\ [Next]_vars => JobIssued'
<1> SUFFICES ASSUME ServiceInv, [Next]_vars PROVE JobIssued'
  OBVIOUS
<1>0. JobIssued
  BY DEF ServiceInv
<1>1. ASSUME UNCHANGED <<record, known, job>>, seals \subseteq seals', statements \subseteq statements'
      PROVE  JobIssued'
  <2> SUFFICES ASSUME job # Nobody PROVE JobIssued'
    BY <1>1 DEF JobIssued
  <2>1. {x.seal : x \in seals} \subseteq {x.seal : x \in seals'}
    BY <1>1
  <2>2. job.seals \in Seq({x.seal : x \in seals'})
    <3>1. \A S, T : S \subseteq T => Seq(S) \subseteq Seq(T)
      OBVIOUS
    <3> QED
      BY <1>0, <2>1, <3>1 DEF JobIssued
  <2>3. Issues(Me, job, record, known)'
    BY <1>0, <1>1, IssuesStays DEF JobIssued
  <2> QED
    BY <1>0, <1>1, <2>2, <2>3 DEF JobIssued
<1>2. ASSUME job' = Nobody PROVE JobIssued'
  BY <1>2 DEF JobIssued
<1>3. CASE Issue
  <2>1. PICK t \in statements, a \in {u.totals.amount : u \in statements} :
          \E q \in SeqOf({x.seal : x \in seals}, MaxHandover) :
            LET batch == [BatchOf(t, q) EXCEPT !.amount = a] IN
            Issues(Me, batch, record, known) /\ job' = batch
    BY <1>3 DEF Issue
  <2>2. PICK q \in SeqOf({x.seal : x \in seals}, MaxHandover) :
          LET batch == [BatchOf(t, q) EXCEPT !.amount = a] IN
          Issues(Me, batch, record, known) /\ job' = batch
    BY <2>1
  <2> DEFINE batch == [BatchOf(t, q) EXCEPT !.amount = a]
  <2>3. /\ batch.seals = q /\ batch.ctx = t.totals.ctx /\ batch.sequence = t.totals.sequence
        /\ batch.count = t.totals.count
    BY DEF BatchOf
  <2>4. Issues(Me, batch, record, known) /\ job' = batch
    BY <2>2
  <2>5. q \in Seq({x.seal : x \in seals})
    <3>1. PICK m \in 0..MaxHandover : q \in [1..m -> {x.seal : x \in seals}]
      BY DEF SeqOf
    <3> QED
      BY <3>1, ServiceAssumption
  <2>6. UNCHANGED <<seals, statements, record, known>>
    BY <1>3 DEF Issue
  <2> HIDE DEF batch
  <2>7. Issues(Me, job, record, known)'
    BY <2>4, <2>6, IssuesStays
  <2> QED
    BY <2>3, <2>4, <2>5, <2>6, <2>7 DEF JobIssued
<1>4. CASE Submit
  BY <1>2, <1>4 DEF Submit
<1>5. CASE FetchRecord
  BY <1>2, <1>5 DEF FetchRecord, Fetching
<1>6. ASSUME NEW e \in 0..HeadEpoch, FetchKey(e) PROVE JobIssued'
  BY <1>2, <1>6 DEF FetchKey, Fetching
<1>7. ASSUME NEW c \in Contexts, Sync(c) PROVE JobIssued'
  BY <1>1, <1>7 DEF Sync
<1>8. ASSUME NEW s \in syncs, Settle(s) \/ \E p \in s.pools : SealPool(s, p) PROVE JobIssued'
  BY <1>1, <1>8 DEF Settle, SealPool
<1>9. CASE NextDay \/ Rotate \/ Reregister
  BY <1>1, <1>9 DEF NextDay, Rotate, Reregister
<1>10. CASE UNCHANGED vars
  BY <1>1, <1>10 DEF vars
<1> QED
  BY <1>3, <1>4, <1>5, <1>6, <1>7, <1>8, <1>9, <1>10 DEF Next

LEMMA ServiceInit ==
  Init => ServiceInv
<1>1. Init => KnownEpochs /\ JobIssued
  BY DEF Init, KnownEpochs, JobIssued
<1> QED
  BY <1>1, TypeInit, SyncsInit, SealsInit, StatementsInit DEF ServiceInv

LEMMA ServiceNext ==
  ServiceInv /\ [Next]_vars => ServiceInv'
  BY TypeNext, SyncsNext, SealsNext, StatementsNext, KnownNext, JobNext DEF ServiceInv

LEMMA ServiceAlways ==
  Spec => [](SealingInv /\ IssuedInv /\ ServiceInv)
<1>1. Init => SealingInv /\ IssuedInv /\ ServiceInv
  BY SealingInit, IssuedInit, ServiceInit
<1>2. SealingInv /\ IssuedInv /\ ServiceInv /\ [Next]_vars
        => (SealingInv /\ IssuedInv /\ ServiceInv)'
  BY SealingNext, IssuedNext, ServiceNext
<1> QED
  BY <1>1, <1>2, PTL DEF Spec

-----------------------------------------------------------------------------
(* What follows from the invariant.                                        *)

\* The seals of a sync are of distinct pools, with the contents of the pools.
LEMMA SealsOfDistinct ==
  ASSUME ServiceInv, NEW s
  PROVE  /\ OfDistinctPools(SealsOf(s))
         /\ \A x \in SealsOf(s) : x.pool \in Pools /\ x.count = Contents[x.pool].count
<1> DEFINE Y == {y \in seals : y.ctx = s.ctx /\ y.sequence = s.sequence}
           g == [y \in Y |-> y.seal]
<1>1. IsFiniteSet(Y)
  <2>1. Y \in SUBSET seals /\ IsFiniteSet(seals)
    BY DEF ServiceInv, SealsAsMade
  <2> HIDE DEF Y
  <2> QED
    BY <2>1, FS_Subset
<1>2. IsFiniteSet(SealsOf(s))
  <2>1. g \in Surjection(Y, SealsOf(s))
    BY DEF Surjection, SealsOf
  <2> HIDE DEF Y, g
  <2> QED
    BY <1>1, <2>1, FS_Surjection
<1>3. \A x \in SealsOf(s) : x.pool \in Pools /\ x.count = Contents[x.pool].count
  BY DEF ServiceInv, SealsAsMade, AsMade, SealsOf
<1>4. \A x, y \in SealsOf(s) : x.pool = y.pool => x = y
  BY DEF ServiceInv, SealsAsMade, SealsOf
<1> QED
  BY <1>2, <1>3, <1>4, ServiceAssumption DEF OfDistinctPools

\* The batch in hand has the seals of some sequence, and each of them as it was made.
LEMMA JobSeals ==
  ASSUME ServiceInv, job # Nobody
  PROVE  /\ Len(job.seals) \in Nat
         /\ job.seals \in [1..Len(job.seals) -> {x.seal : x \in seals}]
         /\ \A i \in 1..Len(job.seals) : \E x \in seals : job.seals[i] = x.seal /\ AsMade(x)
         /\ Ascending(job.seals)
         /\ AddUp(job)
<1>1. job.seals \in Seq({x.seal : x \in seals})
  BY DEF ServiceInv, JobIssued
<1>2. Len(job.seals) \in Nat /\ job.seals \in [1..Len(job.seals) -> {x.seal : x \in seals}]
  BY <1>1
<1>3. \A i \in 1..Len(job.seals) : \E x \in seals : job.seals[i] = x.seal /\ AsMade(x)
  <2> SUFFICES ASSUME NEW i \in 1..Len(job.seals)
               PROVE  \E x \in seals : job.seals[i] = x.seal /\ AsMade(x)
    OBVIOUS
  <2>1. job.seals[i] \in {x.seal : x \in seals}
    BY <1>2
  <2> QED
    BY <2>1 DEF ServiceInv, SealsAsMade
<1>4. Ascending(job.seals) /\ AddUp(job)
  BY DEF ServiceInv, JobIssued, Issues
<1> QED
  BY <1>2, <1>3, <1>4

LEMMA WholeHolds ==
  SealedForThisSync /\ IssuedInv /\ ServiceInv => IssuedIsWhole
<1> SUFFICES ASSUME SealedForThisSync, IssuedInv, ServiceInv, job # Nobody PROVE IssuedIsWhole
  BY DEF IssuedIsWhole
<1> DEFINE n == Len(job.seals)
           Sealed == {x.seal : x \in seals}
<1>1. PICK s \in syncs :
        /\ s.ctx = job.ctx /\ s.sequence = job.sequence
        /\ job.amount = Amount(s.ctx, s.sequence)
        /\ \A i \in 1..n : job.seals[i].pool \in s.pools
  BY IssuedInvHolds DEF IssuedAsSigned
<1>2. Complete(s) /\ job.count = CountOf(InOrder(SealsOf(s)))
  <2>1. PICK t \in statements : /\ job.ctx = t.totals.ctx /\ job.sequence = t.totals.sequence
                                /\ job.count = t.totals.count
    BY DEF ServiceInv, JobIssued
  <2>2. PICK r \in syncs, m \in 0..MaxManifest : Complete(r) /\ t = Statement(r, m)
    BY DEF ServiceInv, StatementsWhole
  <2>3. /\ t.totals.ctx = r.ctx /\ t.totals.sequence = r.sequence
        /\ t.totals.count = CountOf(InOrder(SealsOf(r)))
    BY <2>2 DEF Statement
  <2>4. r = s
    BY <1>1, <2>1, <2>3 DEF ServiceInv, SyncsNumbered
  <2> QED
    BY <2>1, <2>2, <2>3, <2>4
<1>3. /\ n \in Nat /\ job.seals \in [1..n -> Sealed] /\ Ascending(job.seals)
      /\ CountsAsContents(job.seals, n)
      /\ PoolsIn(job.seals, n, s.pools)
      /\ CountOf(job.seals) = job.count
  <2>1. CountsAsContents(job.seals, n)
    BY JobSeals DEF AsMade, CountsAsContents
  <2>2. PoolsIn(job.seals, n, s.pools)
    BY <1>1 DEF PoolsIn
  <2>3. CountOf(job.seals) = job.count
    BY JobSeals DEF AddUp
  <2> QED
    BY JobSeals, <2>1, <2>2, <2>3
<1>4. PICK m, q : /\ q = InOrder(SealsOf(s)) /\ m \in Nat /\ q \in [1..m -> SealsOf(s)]
                  /\ Ascending(q)
                  /\ {q[i] : i \in 1..m} = SealsOf(s)
  BY SealsOfDistinct, InOrderIs
<1>5. CountsAsContents(q, m)
  BY <1>4, SealsOfDistinct DEF CountsAsContents
<1>6. s.pools = PoolsOf(q, m)
  <2>1. s.pools = {x.pool : x \in SealsOf(s)}
    BY <1>2 DEF Complete
  <2> QED
    BY <1>4, <2>1 DEF PoolsOf
<1>7. s.pools \in SUBSET Pools
  BY DEF ServiceInv, SyncsNumbered, Syncs
<1>8. PoolsOf(job.seals, n) = s.pools /\ n = Cardinality(s.pools)
  <2>1. CountOf(job.seals) = CountOf(q)
    BY <1>2, <1>3, <1>4
  <2>2. InPoolOrder(job.seals, n, Sealed) /\ InPoolOrder(q, m, SealsOf(s))
    BY <1>3, <1>4, <1>5 DEF InPoolOrder
  <2> HIDE DEF n, Sealed
  <2>3. PoolsOf(q, m) \subseteq Pools /\ PoolsIn(job.seals, n, PoolsOf(q, m))
    BY <1>3, <1>6, <1>7
  <2> QED
    BY <1>6, <2>1, <2>2, <2>3, SameCount
<1> QED
  BY <1>1, <1>8 DEF IssuedIsWhole, PoolsOf

\* The entry the attester looks an epoch up in is of that epoch.
LEMMA EntryFound ==
  ASSUME NEW epochs, Len(epochs) \in Nat, NEW e,
         NEW i \in 1..Len(epochs), i = SelectInSeq(epochs, LAMBDA k : k.epoch = e)
  PROVE  epochs[i].epoch = e
<1> DEFINE I == {j \in 1..Len(epochs) : epochs[j].epoch = e}
<1>1. i = IF I # {} THEN Min(I) ELSE 0
  BY DEF SelectInSeq
<1>2. I # {}
  BY <1>1
<1>3. \E j \in I : \A k \in I : j <= k
  <2>1. I \in SUBSET Nat
    OBVIOUS
  <2> HIDE DEF I
  <2> QED
    BY <1>2, <2>1, LeastNumber
<1>4. Min(I) \in I
  <2> HIDE DEF I
  <2> QED
    BY <1>3 DEF Min
<1> QED
  BY <1>1, <1>2, <1>4

EntryOf(epochs, e) == SelectInSeq(epochs, LAMBDA k : k.epoch = e)
HasEntry(epochs, e) == \E i \in 1..Len(epochs) : epochs[i].epoch = e

\* And an epoch it has an entry of is found.
LEMMA EntryThere ==
  ASSUME NEW epochs, Len(epochs) \in Nat, NEW e, HasEntry(epochs, e)
  PROVE  EntryOf(epochs, e) \in 1..Len(epochs)
<1> DEFINE I == {j \in 1..Len(epochs) : epochs[j].epoch = e}
<1>1. EntryOf(epochs, e) = IF I # {} THEN Min(I) ELSE 0
  BY DEF EntryOf, SelectInSeq
<1>2. I # {}
  BY DEF HasEntry
<1>3. \E j \in I : \A k \in I : j <= k
  <2>1. I \in SUBSET Nat
    OBVIOUS
  <2> HIDE DEF I
  <2> QED
    BY <1>2, <2>1, LeastNumber
<1>4. Min(I) \in I
  <2> HIDE DEF I
  <2> QED
    BY <1>3 DEF Min
<1> QED
  BY <1>1, <1>2, <1>4

\* A seal of a sync verifies under the key the directory has for its epoch.
LEMMA SealGenuine ==
  ASSUME IssuedInv, ServiceInv, NEW s \in syncs, NEW x \in SealsOf(s)
  PROVE  /\ x.epoch \in 0..HeadEpoch
         /\ x.key = KeyFor(x.epoch).key
         /\ Verifies(x.handle, x.key,
                     HandleMessage(s.attester, s.ctx, SealId(s.ctx, s.sequence, x), x))
<1>1. PICK y \in seals : y.ctx = s.ctx /\ y.sequence = s.sequence /\ x = y.seal
  BY DEF SealsOf
<1>2. AsMade(y)
  BY DEF ServiceInv, SealsAsMade
<1>3. PICK r \in syncs : r.ctx = y.ctx /\ r.sequence = y.sequence /\ r.attester = y.attester
  BY DEF IssuedInv, SealsHaveSyncs
<1>4. r = s
  BY <1>1, <1>3 DEF ServiceInv, SyncsNumbered
<1>5. y.attester = s.attester
  BY <1>3, <1>4
<1>6. KeyFor(x.epoch).key = directory[x.epoch + 1].key
  BY DEF KeyFor
<1> QED
  BY <1>1, <1>2, <1>5, <1>6 DEF AsMade, Verifies

LEMMA GenuineHolds ==
  IssuedInv /\ ServiceInv => GenuineIssues
<1> SUFFICES ASSUME IssuedInv, ServiceInv, NEW s \in syncs, NEW t \in statements,
                    record # Nobody, Current,
                    s.attester = Me, Cardinality(s.pools) <= MaxSeals,
                    t = Statement(s, record.manifest),
                    \A x \in SealsOf(s) :
                      InTime(x) /\ \E i \in 1..Len(known) : known[i].epoch = x.epoch
             PROVE  Issues(Me, BatchOf(t, InOrder(SealsOf(s))), record, known)
  BY DEF GenuineIssues
<1> DEFINE S == SealsOf(s)
           q == InOrder(S)
           n == Cardinality(S)
           batch == BatchOf(t, q)
<1>1. Complete(s)
  <2>1. PICK r \in syncs, m \in 0..MaxManifest : Complete(r) /\ t = Statement(r, m)
    BY DEF ServiceInv, StatementsWhole
  <2>2. r.ctx = s.ctx /\ r.sequence = s.sequence
    <3>1. t.totals.ctx = s.ctx /\ t.totals.sequence = s.sequence
      BY DEF Statement
    <3>2. t.totals.ctx = r.ctx /\ t.totals.sequence = r.sequence
      BY <2>1 DEF Statement
    <3> QED
      BY <3>1, <3>2
  <2>3. r = s
    BY <2>2 DEF ServiceInv, SyncsNumbered
  <2> QED
    BY <2>1, <2>3
<1>2. OfDistinctPools(S)
  BY SealsOfDistinct
<1>3. q \in [1..n -> S] /\ n \in Nat /\ Ascending(q) /\ Len(q) = n
  <2> HIDE DEF S
  <2>1. q \in [1..n -> S] /\ n \in Nat /\ Ascending(q)
    BY <1>2, InOrderIs
  <2> HIDE DEF q
  <2> QED
    BY <2>1
<1>4. n \in 1..MaxSeals
  <2> DEFINE b == [x \in S |-> x.pool]
  <2>1. b \in Bijection(S, s.pools)
    BY <1>1, <1>2 DEF Complete, OfDistinctPools, Bijection, Injection, Surjection, IsInjective
  <2>2. ExistsBijection(S, s.pools)
    BY <2>1 DEF ExistsBijection
  <2>3. IsFiniteSet(S)
    BY <1>2 DEF OfDistinctPools
  <2>4. IsFiniteSet(s.pools) /\ Cardinality(s.pools) = n
    <3> HIDE DEF S
    <3> QED
      BY <2>2, <2>3, FS_Bijection
  <2>5. s.pools # {}
    <3>1. s \in Syncs
      BY DEF ServiceInv, SyncsNumbered
    <3> QED
      BY <3>1 DEF Syncs
  <2>6. n # 0
    <3> HIDE DEF S
    <3> QED
      BY <2>4, <2>5, FS_EmptySet
  <2> QED
    BY <1>3, <2>4, <2>6, SealedBatchAssumption
<1>5. /\ batch.seals = q /\ batch.ctx = s.ctx /\ batch.sequence = s.sequence
      /\ batch.count = CountOf(q) /\ batch.fold = FoldOf(q) /\ batch.day = DayOf(q)
      /\ batch.amount = Amount(s.ctx, s.sequence)
      /\ batch.signature = Sign(Enclave, SettlementMessage(batch, record.manifest))
  BY DEF BatchOf, Statement, SettlementMessage
<1>6. ASSUME NEW x \in S PROVE SealHolds(Me, batch, known, x)
  <2>1. Len(known) \in Nat
    BY DEF ServiceInv, TypeOK
  <2>2. PICK i \in 1..Len(known) : i = SelectInSeq(known, LAMBDA k : k.epoch = x.epoch)
    <3>1. HasEntry(known, x.epoch)
      BY DEF HasEntry
    <3>2. EntryOf(known, x.epoch) \in 1..Len(known)
      BY <2>1, <3>1, EntryThere
    <3> QED
      BY <3>2 DEF EntryOf
  <2>3. known[i].epoch = x.epoch
    BY <2>1, <2>2, EntryFound
  <2>4. known[i] = KeyFor(x.epoch)
    BY <2>3 DEF Current
  <2>5. InWindow(x.day, known[i])
    BY <2>4 DEF InTime
  <2>6. /\ x.key = known[i].key
        /\ Verifies(x.handle, known[i].key,
                    HandleMessage(Me, batch.ctx, SealId(batch.ctx, batch.sequence, x), x))
    BY <1>5, <2>4, SealGenuine
  <2> HIDE DEF batch
  <2> QED
    BY <2>2, <2>5, <2>6 DEF SealHolds
<1>7. record.enclave = Enclave
  BY DEF ServiceInv, TypeOK
<1> HIDE DEF batch, q, n, S
<1>8. \A i \in 1..Len(batch.seals) : SealHolds(Me, batch, known, batch.seals[i])
  BY <1>3, <1>5, <1>6
<1>9. Issues(Me, batch, record, known)
  BY <1>3, <1>4, <1>5, <1>7, <1>8 DEF Issues, AddUp, Verifies
<1> QED
  BY <1>9 DEF batch, q, S

\* What the attester has summed up, the contract sums up to the same.
LEMMA JobTotals ==
  ASSUME ServiceInv, job # Nobody, Len(job.seals) \in 1..MaxSeals
  PROVE  TotalsHold(job)
<1> DEFINE n == Len(job.seals)
           Sealed == {x.seal : x \in seals}
           count == [i \in 1..n |-> job.seals[i].count]
           fold == [i \in 1..n |-> job.seals[i].fold]
<1>1. /\ n \in Nat \ {0} /\ job.seals \in [1..n -> Sealed]
      /\ AddUp(job)
  BY JobSeals, SealedBatchAssumption
<1>2. ASSUME NEW i \in 1..n
      PROVE  job.seals[i].count \in Nat /\ job.seals[i].fold \in Nat /\ job.seals[i].day \in Nat
  <2>1. PICK x \in seals : job.seals[i] = x.seal /\ AsMade(x)
    BY JobSeals
  <2>2. Modulus \in Nat \ {0} /\ Contents[x.seal.pool] \in [count : Nat \ {0}, fold : 0..(Modulus - 1)]
    BY <2>1, ServiceAssumption, SealedBatchAssumption DEF AsMade
  <2> QED
    BY <2>1, <2>2 DEF AsMade
<1> HIDE DEF n, Sealed
<1>3. IsFiniteSet(1..n)
  <2>1. 1 \in Int /\ n \in Int
    BY <1>1
  <2> QED
    BY <2>1, FS_Interval
<1>4. count \in [1..n -> Nat] /\ fold \in [1..n -> Nat]
  BY <1>2
<1>5. MapThenSumSet(LAMBDA i : job.seals[i].count, 1..n) = job.count
  <2>1. PICK sum : Adds(sum, count, 1..n)
    BY <1>3, <1>4, SumsExist
  <2>2. CountOf(job.seals) = sum[1..n]
    BY <1>1, <1>2, <2>1, CountIs
  <2>3. MapThenSumSet(LAMBDA i : job.seals[i].count, 1..n) = sum[1..n]
    BY <1>1, <1>2, <2>1, CountsAddUp
  <2> QED
    BY <1>1, <2>2, <2>3 DEF AddUp
<1>6. MapThenSumSet(LAMBDA i : job.seals[i].fold, 1..n) % Modulus = job.fold
  <2>1. PICK sum : Adds(sum, fold, 1..n)
    BY <1>3, <1>4, SumsExist
  <2>2. FoldOf(job.seals) = sum[1..n] % Modulus
    BY <1>1, <1>2, <2>1, FoldIs
  <2>3. MapThenSumSet(LAMBDA i : job.seals[i].fold, 1..n) = sum[1..n]
    BY <1>1, <1>2, <2>1, FoldsAddUp
  <2> QED
    BY <1>1, <2>2, <2>3 DEF AddUp
<1>7. /\ \A i \in 1..n : job.seals[i].day <= job.day
      /\ \E i \in 1..n : job.seals[i].day = job.day
  <2>1. /\ \A i \in 1..n : job.seals[i].day <= DayOf(job.seals)
        /\ \E i \in 1..n : job.seals[i].day = DayOf(job.seals)
    BY <1>1, <1>2, DayIs
  <2> QED
    BY <1>1, <2>1 DEF AddUp
<1> QED
  BY <1>5, <1>6, <1>7 DEF TotalsHold, n

\* While what the attester has read is what the chain has, each of the contract's checks
\* passes but the one that the attester cannot make.
LEMMA AnswerIsNone ==
  ASSUME ServiceInv, job # Nobody, ~Settled, ~News
  PROVE  Answer = "none"
<1>1. makes = Checks /\ record # Nobody /\ record.enclave = Enclave
  BY DEF ServiceInv, TypeOK
<1>2. Issues(Me, job, record, known)
  BY DEF ServiceInv, JobIssued
<1>3. PICK d \in deployments : /\ d.enclave = record.enclave /\ d.attester = Me
                               /\ d.provider = Provider /\ d.manifest = record.manifest
  BY <1>1 DEF News, Deployment
<1>4. ActiveFor(record.enclave, Me, Provider)
  BY <1>3 DEF ActiveFor
<1>5. Len(job.seals) \in 1..MaxSeals /\ Ascending(job.seals)
  BY <1>2 DEF Issues
<1>6. ASSUME NEW j \in 1..Len(job.seals) PROVE HandleVerifies(Me, job, job.seals[j])
  <2> DEFINE seal == job.seals[j]
  <2>1. SealHolds(Me, job, known, seal)
    BY <1>2 DEF Issues
  <2>2. PICK i \in 1..Len(known) :
          /\ i = SelectInSeq(known, LAMBDA k : k.epoch = seal.epoch)
          /\ InWindow(seal.day, known[i])
          /\ Verifies(seal.handle, known[i].key,
                      HandleMessage(Me, job.ctx, SealId(job.ctx, job.sequence, seal), seal))
    BY <2>1 DEF SealHolds
  <2>3. Len(known) \in Nat
    BY DEF ServiceInv, TypeOK
  <2>4. known[i].epoch = seal.epoch
    BY <2>2, <2>3, EntryFound
  <2>5. known[i] = KeyFor(seal.epoch) /\ seal.epoch \in 0..HeadEpoch
    BY <2>4 DEF News, Current, ServiceInv, KnownEpochs
  <2> QED
    BY <2>2, <2>5 DEF HandleVerifies
<1>7. TotalsHold(job)
  BY <1>5, JobTotals
<1>8. Verifies(job.signature, record.enclave, SettlementMessage(job, d.manifest))
  BY <1>2, <1>3 DEF Issues
<1>9. Settlements(job.ctx) = {}
  BY DEF Settled
<1> QED
  BY <1>3, <1>4, <1>5, <1>6, <1>7, <1>8, <1>9 DEF Answer, Settling

LEMMA RefusedStep ==
  ServiceInv /\ [Next]_vars => [Refused => Settled \/ News]_vars
<1> SUFFICES ASSUME ServiceInv, Next, Refused, ~Settled, ~News PROVE FALSE
  OBVIOUS
<1>1. job # Nobody /\ job' = Nobody /\ units' = units
  BY DEF Refused
<1>2. CASE Submit
  <2>1. units' = units \cup {UnitOf(Me, SU(job), job)}
    BY <1>1, <1>2, AnswerIsNone DEF Submit
  <2>2. UnitOf(Me, SU(job), job) \in units /\ UnitOf(Me, SU(job), job).ctx = job.ctx
    BY <1>1, <2>1 DEF UnitOf
  <2> QED
    BY <2>2 DEF Settled, Settlements
<1>3. CASE Issue
  BY <1>1, <1>3 DEF Issue, Fetching
<1>4. ASSUME NEW c \in Contexts, Sync(c) PROVE FALSE
  BY <1>1, <1>4 DEF Sync
<1>5. ASSUME NEW s \in syncs, Settle(s) \/ \E p \in s.pools : SealPool(s, p) PROVE FALSE
  BY <1>1, <1>5 DEF Settle, SealPool
<1>6. ASSUME NEW e \in 0..HeadEpoch, FetchKey(e) PROVE FALSE
  BY <1>1, <1>6 DEF FetchKey
<1>7. CASE FetchRecord \/ NextDay \/ Rotate \/ Reregister
  BY <1>1, <1>7 DEF FetchRecord, NextDay, Rotate, Reregister
<1> QED
  BY <1>2, <1>3, <1>4, <1>5, <1>6, <1>7 DEF Next

-----------------------------------------------------------------------------
(* The theorems.                                                           *)

\* Every seal of a batch a unit is issued for was made by a committee for this attester, in
\* the very sync the unit names: issue_from_sealed_batch lets no handle be moved onto
\* another sync, or taken from another attester, whatever the provider hands over.
THEOREM SealedForThisSyncAlways ==
  Spec => []SealedForThisSync
<1>1. Init => SealingInv
  BY SealingInit
<1>2. SealingInv /\ [Next]_vars => SealingInv'
  BY SealingNext
<1>3. SealingInv => SealedForThisSync
  BY SealingInvHolds
<1> QED
  BY <1>1, <1>2, <1>3, PTL DEF Spec

\* A unit is issued only for a batch of a sync made for this attester, at the amount of that
\* sync and for no pool outside it, whatever totals, seals and amount the provider puts
\* together: the part of IssuedIsWhole that needs nothing of what the statement sums up.
THEOREM IssuedAsSignedAlways ==
  Spec => []IssuedAsSigned
<1>1. Init => IssuedInv
  BY IssuedInit
<1>2. IssuedInv /\ [Next]_vars => IssuedInv'
  BY IssuedNext
<1>3. SealedForThisSync /\ IssuedInv => IssuedAsSigned
  BY IssuedInvHolds
<1>4. Spec => []SealedForThisSync
  BY SealedForThisSyncAlways
<1> QED
  BY <1>1, <1>2, <1>3, <1>4, PTL DEF Spec

\* The whole state stays made of what the actors exchange, for any number of syncs, pools,
\* days, rotations and manifests.
THEOREM TypeAlways ==
  Spec => []TypeOK
<1>1. ServiceInv => TypeOK
  BY DEF ServiceInv
<1> QED
  BY <1>1, ServiceAlways, PTL

\* A batch a unit is issued for holds every pool of its sync, each once, and no other, at the
\* amount of that sync, whatever seals the provider puts under the statement: the statement
\* counts what the pools hold, every pool counts for something, and no pool is there twice.
THEOREM IssuedIsWholeAlways ==
  Spec => []IssuedIsWhole
<1>1. SealingInv /\ IssuedInv /\ ServiceInv => IssuedIsWhole
  BY SealingInvHolds, WholeHolds
<1> QED
  BY <1>1, ServiceAlways, PTL

\* issue_from_sealed_batch turns no honest batch away: one the enclave has signed under the
\* manifest the attester knows, with every pool sealed for it in its committee's time, no
\* more of them than MAX_SEALS, and the keys known as the directory has them.
THEOREM GenuineIssuesAlways ==
  Spec => []GenuineIssues
<1>1. IssuedInv /\ ServiceInv => GenuineIssues
  BY GenuineHolds
<1> QED
  BY <1>1, ServiceAlways, PTL

\* What issue_from_sealed_batch has passed, submitSU refuses only because the context has
\* settled, or because the directory or the deployment is no longer what the attester has
\* read: its own checks leave none of the contract's out.
THEOREM RefusedOnlyForNewsAlways ==
  Spec => RefusedOnlyForNews
<1>1. ServiceInv /\ [Next]_vars => [Refused => Settled \/ News]_vars
  BY RefusedStep
<1> QED
  BY <1>1, ServiceAlways, PTL DEF Spec, RefusedOnlyForNews

=============================================================================
