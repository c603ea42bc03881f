# A TLA+ model of pso-integration

This directory holds TLA+ specifications of the test suite and of the client
crates in this repository, the TLC configurations that check them on small
instances, and proofs of their most important theorems for TLAPS. Paths are relative to the
repository's root; `S007` is `testsuite/src/scenarios/s007_*.rs`.

- [1. The system](#1-the-system)
- [2. The modules](#2-the-modules)
- [3. What the runs check](#3-what-the-runs-check)
- [4. Bounds](#4-bounds)
- [5. Fairness](#5-fairness)
- [6. What is proved](#6-what-is-proved)
- [7. Where code and docs disagree](#7-where-code-and-docs-disagree)
- [8. What is not modelled](#8-what-is-not-modelled)
- [9. Plan](#9-plan)
- [10. Running it](#10-running-it)

## 1. The system

`pso-integration` tests a running PSO node from the outside. A runner executes
some fifty scenarios one after the other against one node; each scenario is an
async body that talks to the node over RPC with signing clients. Around it are
two crates that ship (the attester's and the mobile wallet's side of issuance
and proving) and three command-line tools.

| Component | State it keeps | Operations | Who it talks to |
|---|---|---|---|
| Attester bridge, `testsuite/src/bridge.rs` | an mpsc channel of 64 slots, one background task and the request in its hands, a oneshot for every caller | `mint_su`, `shutdown`, drop, clones of the public sender, the loop and `handle_mint` | callers through channel and oneshots; the attester crate (call); the agents pool (RPC) |
| Attester client, `clients/attester.rs`, `rpc.rs` | none (a key) | submit a record or a unit (gas estimate, then broadcast), receipt poll, existence polls | agents pool, record contracts |
| Admin client, `clients/admin.rs` | none | register, revoke, mask, rotation candidate, consensus identity; `is_active` at the head, `is_visible_to_pool` in the pool's snapshot | attester registry |
| Test environment, `env.rs`, `hardhat.rs`, `data.rs` | keys and clients | bootstrap of the primary attester, `new_attester`, actors, `advance_epoch` | all clients |
| Runner, `main.rs`, `scenario.rs`, `cli.rs` | results so far, report files | parse, filter, bootstrap, hooks around each body, report, exit code | scenarios |
| Agents-pool scenarios: S007–S011, S020, S026–S030, S033, S035–S037 | locals of a body | scripts of client calls | attester and admin clients |
| Actor client and envelope, `clients/actor.rs`, `envelope.rs` | none | `submit_enveloped` (difficulty and head, nonce, solve, sign, broadcast) and its mutated forms, receipt, replay | users lane |
| Users-lane scenarios: S003–S006, S031, S032, S041–S044, S048–S050, S054, S055 | locals of a body | scripts of submissions and waits | actor client |
| Attester crate, `crates/pso-attester-integration` | none (an attester's key material) | `issue_from_sealed_batch`, v1 issuance, preimages | provider's batch, what was read from the chain |
| Sealing scenarios: S051–S053, `registries.rs` | locals of a body | anchor and advance the directory of committees, register an enclave, settle a batch | sealing contracts |
| TributeDraft scenarios: S001, S002, S012, S018, S019, S021–S023, S047 | locals of a body | mint units, prove, submit drafts | both lanes, mobile crate |
| Data availability and certificates: S045, S046, `bls_verify.rs` | locals of a body | wait for a batch; submit a draft, check its inclusion path, bind it to a certificate, verify that | L1 and L2 RPC |
| Error decoder, `clients/contract_errors.rs` | none | text or JSON-RPC error of a node to a typed error | all clients |
| Mobile crate, command-line tools, bindings | files handed from one command to the next | proving, artifacts | node |

The node, its pools and its contracts are **not** in this repository. They are
modelled from how the suite uses them, and marked external. Where a scenario
exists to find out whether the node makes a check, the model lets the node lack
it: the suite is judged by what its green runs exclude.

### What is hard here, and what must hold

- **The bridge** is concurrent. Callers leave at any await; requests wait in a
  bounded channel; the loop waits for a chain that may not move; deadlines race
  late inclusions; answers to RPC calls get lost; the loop can be torn down;
  other clients use the same signer and records. It must answer each caller at
  most once and truthfully, lose track of no mint that has left the process, run
  one mint at a time, and come to an end.
- **Bodies over the agents pool** live with two views of who is an attester (the
  head, and a finalized snapshot that trails it), with estimates that judge a head
  that has moved on by inclusion, and with what earlier bodies have left in the
  pool. A body must fail only for a reason of its own, and pass only on what it has seen.
- **Bodies over the users lane** read difficulty, head and nonce one after the
  other while blocks and epochs pass, and most accept any pool rejection. They
  must not be refused for a stale read, and a green run must mean that the node
  refuses for the reason the scenario names.
- **Issuing from a sealed batch** checks a batch that an untrusted provider
  puts together against what the attester has read some time ago. What is issued must
  be one whole sync, for this attester; honest batches must issue; and the chain
  should refuse none for a reason the attester could have known.
- **The draft scenarios** join both lanes: a wallet proves it owns units that an
  attester minted under random ids, for a submitter that must be fixed before the
  proof is made. The order of ids, witnesses and proof inputs must be one; and what
  passes must show which check refused.
- **The runner** turns bodies it knows nothing of into one exit code. Setups fail,
  bodies panic, files cannot be written, filters leave nothing; 0 must
  never stand for less than every selected scenario having passed.
- **The error decoder** guesses from text in which a contract's data, addresses and a pool's
  words stand side by side. What it makes of them decides the verdict of every scenario that expects a refusal.
- **S046** takes a path, a certificate and a preimage from the node under test. Each part
  must be bound to the next, or a node that makes them up passes.
- **S051–S053** change a devnet for good and are run again on it, also after a
  run that broke off between two writes.

`PROJECT.json` lists each hazard at its line with the properties that cover it.

## 2. The modules

```
Membership ── AgentsChain ─┬─ Bridge ── MCBridge        MintService (abstract)
                           │     └───── BridgeProofs        ▲ refined by Bridge
                           │
              Registry ────┴─ AgentsFlow ── AgentsScenarios ─┬ MCAgents
              Script ────────────┤                           └ AgentsProofs
                                 ├ UsersFlow (with UsersLane) ── UsersScenarios ─┬ MCUsers
                                 │                       InductionProofs ────────┴ UsersProofs
                                 ├ DraftScenarios (with TributeDraft) ─┬ MCDrafts
                                 │             InductionProofs ────────┴ DraftProofs
                                 └ SealingScenarios (with SealingChain) ─┬ MCSealingScenarios
                                               InductionProofs ──────────┴ RerunProofs
SealedBatch ── SealingChain ── SealingService ─┬ MCSealing
                           InductionProofs ────┴ SealingProofs

Runner ───────┐ (abstract: any bodies)
ErrorDecode ──┼─ RunnerScenarios ─┬ MCRunner
FinalizeCert ─┘     (refines)     │
              InductionProofs ────┴ EvidenceProofs
```

**`MintService`** is the abstract specification of `Bridge::mint_su`: a call is
open, then answered `ok` (a unit exists), `failed` (it never will) or `unknown`.
No queue, no loop, no deadline.

**`Bridge`** is the code. One value of `Calls` is one `mint_su` future and
the transaction it stands for. `phase` is how far the future is, `queue` the
mpsc buffer, `mailbox` the oneshots, `loop`/`cur`/`res` the background task:
its program counter has one value per await of `handle_mint`. `handle` and
`clones` are the senders that keep the channel open. Actions: `StartCall`,
`Enqueue`, `EnqueueFails`, `TakeReply`, `Cancel` (callers); `CloneSender`,
`DropClone`, `Shutdown`, `JoinReturns`, `DropBridge` (senders); `Recv`, `LoopExit`,
`Issue`, `MintPreflight`, `MintBroadcast`, `PollReceipt`, `PollTimeout`,
`PollFails`, `Reply`, `LoopDies` (the task). The module ends with the refinement mapping
onto `MintService`.

**`Membership`**, **`AgentsChain`**, **`Registry`** are the node behind the
attester and admin clients. A transaction is `unsent`, then `checked` (its gas
estimate has passed), in the `pool`, and `ok` or `reverted`. The
contracts' guards run twice, on the head at the estimate and on the head at
inclusion. `members` is the snapshot pool admission goes by; `backlog` what it
has not caught up with. `Registry` is the admin's calls: roles, permission mask,
rotation candidate, identity, and the order of the contract's checks.

**`Script`** is the sequence of bodies: a scenario is a sequence of steps, a body
advances or fails, and a fault (an RPC error, an expired wait) may hit it at
any step. Its constants are the suites; the four scenario families extend it.

**`AgentsFlow`** is `env.rs` (bootstrap, `new_attester` with its two waits) and
the handlers of every step on the attester and admin clients;
**`AgentsScenarios`** writes the fifteen bodies as scripts.

**`UsersLane`** is an envelope and the row of checks a node makes on it, each of
which this node may lack; **`UsersFlow`** is `submit_enveloped`, one action per
read, with the chain moving in between; **`UsersScenarios`** writes the fifteen bodies.

**`TributeDraft`** is the wallet's half of a draft (witnesses, aggregation and full
proof of the mobile crate, each a record of what it commits to) and the row of checks
the contract makes, each of which this build may lack. **`DraftScenarios`**
writes S001, S002, S012, S018, S019, S021–S023 and S047 on it, with the submission of a
mint, a record or an envelope taken as one broadcast (how it gets through is in
`Bridge`, `AgentsFlow` and `UsersFlow`): what it is about is what bodies hand from one
step to the next.

**`SealedBatch`** is `issue_from_sealed_batch` of the attester crate: its checks
in their order (`Issues`), its preimages as records, its fold as a sum in a
field of `Modulus` elements. **`SealingChain`** is the contracts S051–S053 use
(keyFor, submitSU v2, deployments), each check one that may be missing.
**`SealingService`** composes them with provider, committees and enclave: syncs,
seals, rotations, days, new manifests, and every hand-over a provider can
make of what was signed. **`SealingScenarios`** writes the three bodies, run
once or twice on the same devnet.

**`Runner`** is the `pso-e2e` binary around bodies of which it knows nothing:
`ReadArgs`, `Bootstrap`, `PreStart`, `BodyReturns` or `BodyPanics`, `PostStop`, `PrintReport`,
`WriteFile` twice, `Finish`. `Harness` is the specification of that, and what the
caller may rely on is stated over it.

**`ErrorDecode`** is `contract_errors.rs` and `json_rpc_error_to_typed` as operators over
texts: sequences of tokens, each a word, a run of hex digits (with the bytes they stand for and
whether they are even in number), labelled revert data, or a list of selector bytes. The order in which
the code looks is kept, because that is where it can go wrong.

**`FinalizeCert`** is `bls_verify.rs` and the checks of S046: the varints and their
concatenation, namespace, preimage, digest, path. A signature is its key with what it was made over.

**`RunnerScenarios`** composes the three: S030 and S049, which decode a refusal, S045, which
waits for a batch, and S046, inside the runner, on a chain that builds, finalizes and posts
blocks, before a node that serves its chain or makes its answers up. It refines `Harness`
with the identity as mapping.

The `MC*` modules give instances; `*Proofs` hold the theorems.

Abstractions common to all modules: ids, keys, digests and signatures are
records or model values (a signature is the pair of key and message, a digest the record
it is taken over); fresh random ids are fresh; wording and logging are left out;
an RPC read returns the state at the instant it is made, or fails.

## 3. What the runs check

**`bridge`** – two calls on one record (a retry, or S010's double spend), one
through the `Bridge` and one through a clone of its sender, against a direct mint of that record
by the same signer, in a channel of one slot, with a registry that
registers and revokes.
- `OkIsOnChain`: a caller with a receipt has it for its own unit, with all its records.
- `CryptoIsFinal`: `Crypto` alone means that nothing was or will be sent.
- `NoSilentMint`: what pool or chain have of a call is being served, or was
  answered for, or its caller or the loop is gone.
- `OneMintAtATime`: two mints of the bridge are never between estimate and broadcast at once; after a poll
  has given up, a pooled one and the next may overlap.
- `ExitIsClean`: the loop ends with no request queued, no caller waiting, no sender alive.
- `ImplementsService`: all of it is `MintService`.

**`bridge_live`** – with the runtime's scheduling and a chain that owes nothing,
`EveryCallReturns`, and `ShutdownReturns` unless a clone is kept.

**`agents`** – the nine record scenarios, and the seven of the registry (S033 is in
both), each in the order of `scenarios::all`, up to four of them hit by faults.
- `VerdictsAreDeserved`: a body fails only if a fault has hit that body, whatever
  the snapshot's lag and whatever earlier bodies left behind.
- `PassIsEvidence`: what a passed body sent is on chain; what it says was refused never gets there.
- `NoUnclaimedTx`: no transaction the contracts accept is refused by the pool for its sender.
- `NoStrayCandidate`: a rotation candidate outlives the suite only if a scenario failed.
- `SuiteTerminates`: on a chain that includes nothing too. The exception is a cold registry, which the bootstrap
  must first tell of the primary attester: it awaits that receipt without a deadline (`env.rs:404`), so
  that either the run ends or the bootstrap waits for ever with its registration in the pool.

**`users`** – eleven envelope scenarios with one thing wrong, and the four wallet
scenarios with three: a thing is a check the node lacks, a fault, or a difficulty
the chain changes by itself.
- `GreenMeansChecked`: all of them green means the node makes every check of an envelope
  but the one on the nonce (section 7).
- `FailuresDeserved`: on a node that makes every check a body fails only for a
  fault or for a reason the scenario itself names.
- `NoMintUnseen`: in a green run a wallet's record is on chain only if a fault has hit the very scenario that
  sent it. Three things suffice for that (no lane, no gate, and the answer to the admitted
  envelope lost: section 7), and the instance has them.

**`drafts`** – the suite around the full draft, and the scenarios that mint units for a
draft to be refused, each with three things wrong: a check the contracts lack, a
request that is lost or an answer to it. The random ids of the units fall in any order, and what
broken-off bodies have left in the pool lands at any time, each sender's transactions in their order.
- `FailuresDeserved`: on contracts that make every check a body fails only for a fault of
  its own. This is where witnesses, proof inputs and submitted ids must be in one
  order, the proof for the key that submits, and the full proof over the id the draft was minted under.
- `GreenMeansChecked`: which of the checks a green run is evidence for. Where two
  checks give one error it shows that one of them is made, and no more. The full proof of S047 is
  verified by the suite itself (`s047:285-311`) and never sent, so that its refusals of a wrong owner and a
  wrong root are none of a node; what S047 shows of one is that drafts get through the
  dispatcher, that the owner is kept, and that the leaf is the draft's (`dispatch`, `keeps`, `leaf`).

**`sealing`** – a context synced twice, pools sealed by the current or the previous
committee on either side of a rotation, an enclave that changes its manifest.
- `SealedForThisSync`: every seal of an issued batch was made for this attester in
  that sync.
- `IssuedIsWhole`: and the batch has each pool of that sync once, at its amount.
- `GenuineIssues`: an honest batch is issued by an attester whose reads are current.
- `RefusedOnlyForNews`: the chain refuses an issued batch only because the
  context has settled or because directory or deployment have changed since they were read.

**`sealing_scenarios`** – S051–S053, once and twice on one devnet, on contracts
that lack up to three checks, with faults in up to two scenarios: a read that fails, a write
that is lost, or the answer to one.
- `GreenMeansChecked`: which checks a green run is evidence for, and which it is not. That S051's forgery was turned
  down is evidence only if no fault has hit S051 (section 7).
- `Rerunnable`: on good contracts a scenario fails only if a fault hit it, or one
  before it in the same run; what an earlier run left behind, in whatever state, fails none.

**`runner`** – 45 command lines (filters, L1 options, files, keys, `--list`, alone and
together where they have to do with each other) around S030, S045, S046 and S049, with a setup that can
fail, bodies that panic, reads that fail and deadlines that pass at each await of a body.
- `ExitTellsReport`: exit codes 0 and 1 stand for a whole report, on every file that was asked for.
- `TornDown`: each scenario is torn down before the next and before the end, but for a panic.
- `LeftOutOnlyIfAsked`: a filter of blanks and commas leaves nothing out, and no scenario goes missing.
- `PassIsEvidence`, `FailuresDeserved`: S030 and S049 pass on the refusal they are about
  and on no other, with an address before the revert data and without; S045 on a batch. No
  body fails that has what it wants from an honest node.
- `IncludedMeansCommitted`: S046 passes only if a block the committee has finalized holds the
  receipt's leaf at its place, though path, preimage, digest, round and signature are what a lying
  node puts together from what there is, another chain of the same committee included.
- `RoundIsGenuine`: and then the round it names is one the committee finalized; the
  varints stand in the message without separators.
- `RunnerReturns`: the binary returns though the leaf is never finalized and no batch is posted. Its bootstrap is
  taken to return; `agents` has the case in which it does not.
- `StaysInHarness`: the refinement.

The four runs named `*_doc` are section 7. Every property
of a passing run has a mutant in `PROJECT.json`, a plausible bug in the
code after which TLC finds the property violated under the same configuration.
The mutated forms stand before the operators they mutate.

## 4. Bounds

| Bound | Value | Why it is enough |
|---|---|---|
| `Capacity` | 1 (64 in the code) | two calls fill it: the second waits for the slot until the loop has taken the first |
| `Calls`, `Records`, `Txs` | 2, 1, 3 | the properties relate a call to its transaction and to one rival; the theorems of section 6 hold for any number |
| `Lag` | 1–3 | registry states the snapshot is behind; a body changes the registry at most twice before it waits for the snapshot |
| `MaxFaults` | 4, 2, 1 | a fault ends a body, so what matters is what several ended bodies leave to a later one |
| `MaxLacking` | 2 and 3 | with three of `order`, `link`, `signer`, `signature` missing S051 can be green for the wrong reason |
| `Trouble` | 1, 3 (`users`), 3, 3 (`drafts`) | checks lacking, faults and epochs share a budget, so that their combinations stay few; three is what the hardest case takes: both checks between a wallet and the chain lacking and an answer lost (`users`), two checks that give one error lacking and a fault (`drafts`) |
| `Window`, `Age`, `Young`, `StaleAge`, `Slack`, `MaxHead`, `Base` | 2, 1, 3, 6, 1, 9, 4 (32, 20, 64, 10000 in the code) | heights scaled down in the same order: `Age + Slack <= Window`, `Young` above `Window`, `StaleAge` above both, `MaxHead` beyond what the bodies use: all of them can pass |
| `MaxRolls` | 1 | two would change the accepted pair of difficulties beyond what a body has read: the budget for which the doc of S032 allows a failure |
| `MaxSyncs`, `Pools` | 2, 2 | an honest sync and a sibling of the same context, whole or in part |
| `MaxDay`, `MaxEpoch` | 2, 1 | days before and after one rotation |
| `MaxManifest` | 1 | an enclave's manifest and its successor |
| `MaxHandover` | 2 | batches of one seal, two, and one seal twice |
| `MaxBlocks`, `Places` | 3, 2 | the block with the draft's leaf, one before and one after; the draft's place and another's |
| `MaxRound`, `Radix` | 3, 2 | with base 2 for 128 every number above 1 has more than one byte: encodings of one, two and, with the digest, other numbers' could run into one another |
| `LyingOn` | the command line of S046 alone | a lie can reach no other body; 2 to 3 thousand made-up certificates per state |
| `Suite4` | 4 scenarios | one decoded from text, one from JSON-RPC, two that need an L1; the theorems hold for any list |
| `Modulus` | 3, folds of 2 | small enough that folds of different sets coincide, as they do in BN254 for somebody who looks for it; two folds of 2 wrap |

`bridge` and `bridge_live` check for deadlock; the other configurations switch
that off because a suite ends, and because bounded days, syncs and blocks do.

## 5. Fairness

`Bridge!FairSpec`: weak fairness of the background task (`LoopTurn`, which leaves out an RPC error), of the
join in `shutdown`, and of each caller at the channel or its oneshot. That is
what a tokio runtime does: it polls a task that has been woken. Nothing forces
a caller to start, cancel, clone or shut down, **and nothing forces the chain to
include anything**: the loop goes on because `wait_for_tx_success` has a deadline
(`PollTimeout`).

`AgentsFlow!FairSpec`: weak fairness of the bootstrap's steps and of the bodies, one
task that is always polled. The chain and the snapshot owe nothing here either; each
wait of a body has a deadline (`WaitFault`, `RegisterFault`, `CallFault`). The bootstrap's wait has none
(`get_receipt` at `env.rs:404`), so `BootFails`, an RPC error, is not fair.

`RunnerScenarios!FairSpec`: weak fairness of `Suite`, what the one task of the binary
does: it goes on as long as an RPC call returns, and both polls have deadlines
(`Deadlines`). The bootstrap is one of those calls, which holds on a registry that knows the primary attester. It is not fair to panics, and blocks, finalizations and batches owe nothing.

## 6. What is proved

`BridgeProofs`, for every set of calls, records, attesters and senders, every
capacity and every lag. TLC's `bridge` run checks the same properties on its instance.
- `TypeCorrect`: `Spec => []TypeOK`.
- `Invariant`: `Spec => []IInv`, the inductive invariant, of six parts.
  `QueueInv`: the channel holds calls that wait or were cancelled, each once, and none that
  is served or answered. `CurInv`: the task has a request exactly in the states between
  `Recv` and `Reply`. `StageInv`: what the program counter says of the transaction
  of the request (nothing sent before `broadcast`; a receipt behind `res = "ok"`).
  `CallerInv`: what a phase says of mailbox and transaction. `SenderInv`: an exited loop
  has no sender. `SpentInv`: a record is spent by a mint that is `ok`, and an `ok` mint
  has spent all its records.
  The safety properties are not inductive by themselves: that `ok` is true, say, needs to know
  that an `ok` in a mailbox is, hence that `res = "ok"` is while the task is replying, and hence
  which transaction was polled.
- `ReceiptsAreTrue`, `CryptoSettles`, `NothingIsSilent`, `MintsAreSequential`,
  `CleanExit`: the five safety properties, from `IInv`.
- `BridgeImplementsService`: the refinement. Initial states map to initial
  states; steps of the caller open or answer a call, inclusion lands a unit,
  everything else stutters. `SpentInv` gives `MintService`'s demand that no record goes
  into two units.

`InductionProofs`, which the modules below use, all but `AgentsProofs`. The library's induction
theorems take a predicate as a parameter and cannot be instantiated here; `WFMin`
takes a set. So a nonempty set of numbers has a least element, and from there on an induction is about
**the set of the numbers (or of the finite sets) a statement holds of**:
- `AllNumbers`, `AllFinite`: a set that has 0 (the empty set) and is closed under adding one is all of them.
- `SumsExist`, `SumOfAny`, `SumModulo`, `SumOfAll`, `SumOfImage`: a fold that adds up a finite set, an
  element at a time, in any order and in a field or not, comes to one sum; and where every summand counts, no
  proper part comes to that of the whole.
- `DefinedDownwards`: a recursive function on numbers whose calls go down satisfies its equation.
- `Joined`: the length and the elements of one sequence after another.

`SealingProofs`, for every set of attesters, contexts, pools and contents, any
modulus and any bounds.
- `SealedForThisSyncAlways`: `Spec => []SealedForThisSync`, from
  `SealingInv == MadeAsRecorded /\ HandedOver`: every recorded seal is what
  `PoolSeal` made of its context, sequence and attester, and each seal of a batch
  at hand was handed over from the recorded ones. The seal id a handle covers
  contains context and sequence, and the handle the attester, so that a handle that
  verifies under this attester's address and this batch's names fixes both.
- `IssuedAsSignedAlways`: `Spec => []IssuedAsSigned`, from it and `IssuedInv`. The batch is of
  a sync made for this attester (found through its first seal), it holds no pool outside that
  sync (`SamePools`: a re-run seals the same ones), and its amount is that of the sync: the
  provider may write any amount into a batch, but the message of the settlement signature
  has the amount in it (`AmountIsSigned`). It needs nothing of what the statement sums up.
- `TypeAlways`, `IssuedIsWholeAlways`, `GenuineIssuesAlways`, `RefusedOnlyForNewsAlways`: type
  correctness and the other three properties of the run, from
  `ServiceInv == TypeOK /\ Registry /\ SyncsNumbered /\ SealsAsMade /\ StatementsWhole /\ KnownEpochs /\ JobIssued`.
  `StatementsWhole`: the enclave has signed for a sync all of whose pools are sealed, so that its totals are
  those of the whole. `JobIssued`: a batch in hand would be issued again, for nothing it was checked against is
  fetched while it is. That a batch is **whole** is an argument about the count alone: the
  folds agree for many sets of seals, but each pool has at least one content, no pool is in
  a batch twice (`SamePools`, strict order) and none is from outside the sync; a proper part of
  the pools has a smaller count than the statement's. The loop of the code folds a sequence, the enclave a set;
  that both come to one sum is `InductionProofs`.

`AgentsProofs`, for every set of attesters, records and transactions, any lag and any number
of faults, and for **every suite whose bodies keep to `BodiesAssumption`** and
**`ExpectationsAssumption`**, which TLC evaluates on the fifteen of `AgentsScenarios`. The first: ids and keys
are fresh, so that a transaction is sent at one place of a suite and an attester enrolled at one, by
`new_attester`; what is sent is waited for; and who sends is the primary attester, or one the body has enrolled and nobody has revoked, or one of
which it knows that it is not active. The second (`Expects`): what a step waits for is what the steps before
it lead to. A body that sends a unit has waited for the records it consumes, filed by the same sender; one
that waits for `AlreadyExists` or `Duplicate` has waited for what it repeats; a poll allows for the attester
going inactive unless the body may count on it; an attester is revoked when nothing it has sent is under way; and so on.
These are the rules a new scenario has to follow.
- `SuiteInvariant`: `Spec => []IInv`. Its parts go by the places of the suite. `TxInv`: a
  transaction is unsent until the suite is past its place, and on chain once its wait is over.
  `RegisterInv`: an attester has at most one registration waiting, none before its place nor once it is
  active. `RevokeInv`: until it is revoked it stays in every state of the registry from one on
  (`StaysIn`: the head, what the snapshot has to catch up with, the snapshot), so that to have been seen in the
  snapshot once is to be there. `SenderInv`: what has passed its estimate is of such an attester.
- `SuiteTypeCorrect`, `SuitePassIsEvidence`, `NoneIsUnclaimed`: three properties of the run, from
  `IInv`. None is inductive by itself: that the pool knows a sender depends on what bodies before
  it left in the admin's nonce queue, and on what later ones will.
- `FailuresAreOwn`: `Spec => []VerdictsAreDeserved`, from `IInv` and `Warm => VInv`. `TrafficInv`: what
  has passed its gas estimate would pass it again in any block that may come, and nothing reverts: what is under
  way with it neither repeats it nor revokes its sender. `BooksInv`: the registries hold what transactions that
  succeeded have written, and all of it. `RecordInv`: what the admin's nonce queue will make of an attester's
  record is what the body that enrolled it goes on to read. A failure then has no cause but a fault: each guard
  of the contracts answers a step as `Expects` has it (`SendIsWelcome`, `RefusedIsUnwelcome`, `EnrolIsNew`,
  `CallIsObeyed`, `CallIsTurnedAway`, `CheckShows`, `PollShows`), and the pool knows the sender (`NoneIsUnclaimed`).
- `NoCandidateIsLeft`: `Spec => []NoStrayCandidate`, if every body that makes an attester a candidate cleans up
  (`CleansUp`: it nominates at one place, then sees the candidacy, then sees it gone). The first
  poll is what counts: once the candidacy has been seen the nomination is no longer in the nonce queue, so that what the
  second one sees is final (`CandidateInv`). `ScenariosCleanUp`: the bodies of the repository do. It is a hypothesis
  and no assumption of the module, because a suite that does not clean up is a possible one: without the last two steps of
  S036 the run finds the candidate.
- `ActionEffects` sums up what each action does to the variables of `IInv`; the lemmas of the
  parts cite it.

`UsersProofs`, for every set of keys, every window and age, whatever a node lacks, any number of faults
and **every suite whose bodies keep to `BodiesAssumption`** of `UsersFlow`: what a submission uses (a pinned
block, an aged one, a difficulty) its body has read just before, and what must come of it fits what is done to it.
- `UsersInvariant`: `Spec => []UInv`. `NonceInv`: the nonces of a signer's pooled envelopes follow its account
  nonce, each once and without a gap (so that the nonce at the pending tag is free, and counting is an argument
  about finite sets). `BlockInv`, `WorkInv`: how old an envelope under way may have become, and at which difficulty it
  was solved, between any two reads of `submit_enveloped`. `SentInv`, `CaptureInv`, `ReplayInv`: what the body has
  kept of the envelopes it has sent.
- `UsersTypeAlways`, `UsersFailuresAreDeserved`: from it. `Answer` is the step between: whatever is in the pool, a new
  envelope is refused for its sender, its destination, its scheme, its solution or its block, never for its nonce.
  The second has a hypothesis, `Small`: at most one epoch ends by itself, as a node accepts two difficulties and no
  more, and the first one is 4 at least. From 2 or 3 one epoch leads to 1, at which S031 solves (`s031:38-49`).
- `GreenEnvelopesMeanChecked`: `Spec => []GreenMeansChecked`, from `ShowInv`: every step a body has
  done, or has passed with, has shown of the node what it is for (`Shown`). What a step shows may need what another
  one has shown (a refusal of S031 is one of the solution only on a node that S043 has shown to take older blocks);
  a green run has them all. Neither `Small` nor a good node is assumed, only that the chain ends no epoch by itself.
- `NoMintGoesUnseen`: `Spec => []NoMintUnseen` if every wallet's receipt is looked at, as in the
  suites of the source (`OursAreWatched`), whatever the node lacks and with any amount of `Trouble`. `MintInv`: a wallet's
  record needs a node without the gate, and then for every wallet that has sent anything a scenario that
  called for it has had a fault, has failed, or waits for the receipt; which does not say reverted.

`DraftProofs`, for the two suites of `DraftScenarios` (`Known`), whatever checks the node may lack, any number of
faults, and whatever hashes and proofs are.
- `DraftInvariant`: `Spec => []DraftInv`. `LocalsInv`: what the body has minted and witnessed is what its script has
  asked for so far. `TrafficInv`: everything in the pool is from a scenario that has begun, and what this body waits
  for is the last, under the key it waits for; the other keys' transactions may land before it or after (`Underway`). `StoresInv`: every unit and draft goes back to one of those. `MintedInv`: the units a body is
  past waiting for are there, with the days and currencies of its script. `GoodInv`, where the node makes every check:
  what the body waits for is in the pool or has landed (`SentInv`), the unit under an id of its is the one it has minted (`UnitsInv`), its
  witnesses are of its units in the order of their ids (`WitnessInv`), and who has failed had a fault.
- `DraftTypeAlways`, `FailuresDeservedAlways`: from it. What a broken-off scenario leaves in the pool is of other
  records and other ids, which is all the others need of it; and whichever of its two ids a unit gets first,
  the receipts are sorted before they are witnessed.
- `GreenDraftsMeanChecked`, from it and `ShownInv`: for each scenario that has passed the node makes the check it waits
  for. A refusal is given by the first check that holds, so that the body's units have to be known
  well enough to rule out every earlier one. Under `NobodyElse`: the zero
  address is nobody's key and no draft's hash, or the read of a missing draft would pass for one.

`RerunProofs`, for S051 to S053, once or twice on one devnet (`Reruns`), whatever checks the contracts lack, any number of
faults, epochs and contexts.
- `SealingInvariant`: `Spec => []` of `PlaceInv`, `DirectoryInv`, `ContractInv` and `ShownInv`. The directory is one of four (empty, anchored,
  advanced, forged), a call that writes it is under way at most once and fits what it is to be put after; the
  deployments are S052's or none, and every unit is one a body has sent.
- `SealingTypeAlways`, `GreenRunsMeanChecked`: from it. A refusal that a body goes on from is the estimate's, or a fault has hit S051.
- `RerunnableAlways`: from `GoodInv`, on contracts that make every check. `Refused`: what the bodies want refused stays
  refused, from wherever an earlier run broke off. `Quiet`: in a run no fault has hit, nothing is under way
  but the body's own call, and each body finds what those before it have made sure of. A fault
  ends its run's claim on `Quiet` but not the next run's, whose first scenario starts from any of the states
  `DirectoryInv` and `Refused` leave. Under `TwoPools`: a batch may hold the two pools S053 seals.

`EvidenceProofs`, on every chain, with any number of blocks, rounds and places, any radix, and on every command line.
- `InclusionIsCommitted`, `PassesAreEvidence`: `Spec => []IncludedMeansCommitted` and
  `Spec => []PassIsEvidence`, from `RInv /\ EInv`. `EInv` says that the chain only grows what it
  has, what S046 and S045 have made sure of midway, and that there is evidence for every scenario that
  has passed or is about to. The rest is `SignatureBinds`, `PathLeads`, and that the first error of a text is the
  contract's (`TypedErrorWasSent`).
- `GenuineRounds`: `Spec => []RoundIsGenuine`. Round and digest stand in the message with nothing between them;
  no varint is the beginning of another (`VarintStarts`, by downward recursion over the loop of
  `uint_varint`), so the message has one reading (`MessageBinds`).
- `QuotedRevertDecides`, `RevertRoundTrip`, for every set of words, selectors, shapes and values, and every text: labelled revert data decides whatever else a text
  holds, and every error of the enum survives being written as such.
- `TypedErrorWasSent`: a typed error of a contract comes from data with that selector.
- `RejectionIsShadowed`: what `parse_method_not_permitted` is written for never reaches it, unless
  there is labelled revert data that is no hex (section 7).
- `ReportIsWhole`, `EachIsTornDown`, `NoneIsForgotten`, for every list of scenarios and any bodies: `Harness => []` of the first three
  properties of the run, from `RInv`: what `main` knows at each of its places (the rows
  are those of the selected scenarios so far, the files are empty until they are written and
  then hold the results). That the list it goes through is the selected ones, each once, is
  a matter of counting: `Selected` numbers them by how many stand up to each.
- `ScenariosRunInHarness`: `Spec => StaysInHarness`, so that the three hold of the scenarios too.
- `SuiteTypeAlways`, `FailuresAreDeserved`: `TypeOK` and `FailuresDeserved`, from
  `FInv == Plain /\ Room /\ Honest /\ (failed => excused)`. `Room`: the tree of an honest chain has a place
  for the draft. `Honest`: what S046 holds midway from a node that does not lie is what the chain
  has, so that none of its checks can turn it away.

Assumptions are those of the modules (`BridgeAssumption`, `ChainAssumption`,
`LagAssumption`, `ServiceAssumption`, `RunnerAssumption`, `CertAssumption`, ...), which TLC evaluates in every run.
Signatures and digests are taken to be perfect: nobody signs for another, no two
preimages have one digest.

Every safety property of a passing run is a theorem. Only model-checked: liveness (`EveryCallReturns`,
`ShutdownReturns`, `SuiteTerminates`, `RunnerReturns`), which rests on fairness and so on ENABLED; and that the bodies of
the repository keep to the rules the theorems ask of a suite, which TLC evaluates on them (`CleansUp` is proved of them).

### What the proofs found in the model

A proof asks of the constants what a configuration merely happens to give. These were wrong or unsaid before:
- An honest batch of more pools than `MAX_SEALS` is refused (`lib.rs:668` of the attester crate), which no instance was
  large enough to show: `GenuineIssues` now says so.
- A committee's epochs need a day to end on: `MaxDay` is at least 1. A chain needs a block for the draft:
  `MaxBlocks` is at least 1, and the draft's leaf is none of the others'.
- The varint of the model had a bound on its width that the loop (`bls_verify.rs:40-52`) has not; it is that loop now.
- The heights of the users lane must be in the order the source has them in, and now are by assumption: an age of at least
  one block that, with the way to the node, is inside the window; and the chain S055 asks for and its age beyond it.
- A body of the users lane that takes any Err sends a plain envelope: with a retired scheme or a difficulty of its own
  it would pass on a refusal that says nothing. `IsSubmission` says so.
- The zero address of the drafts' model is neither a key nor a hash, and a batch of the sealing scenarios may hold the two pools S053 seals;
  both instances have it so, and the theorems say it.
- `Refusal` and `InSubmittedOrder` of the drafts name the first refusal and the sorted receipts by what they are, where
  they were computed by operators nothing can be proved of.
- The zero address is no attester (`RegistryAssumption`): the registry's guard would refuse to enrol it.
- `SUBSET S \ T` is read in two ways by the two tools (parenthesised now).

## 7. Where code and docs disagree

Each of these has a run that must find a violation:
- `bridge_drop_doc`: `bridge.rs:27-29, 158-160` call the `Bridge` the only handle whose
  drop ends the loop; `tx` is public and made to be cloned, and a clone keeps the
  loop alive and `shutdown` waiting.
- `agents_tick_zero_doc`: `env.rs:115-117` promises that submit paths accept
  `attester_zero` from tick zero; the bootstrap returns on a receipt and does not
  wait for the pool's snapshot as `new_attester` does.
- `sealing_doc`: `lib.rs:481-484` of the attester crate says a batch that would
  revert fails there; it is given neither `settlements` nor `isActiveFor`.
- `errors_doc`: `contract_errors.rs:112-114` asks for "typed variant OR pool-rejection
  string"; the pool's message has an address in it, which is taken for revert data before
  the parser for the message is reached.

Met while modelling, without a run:
- `s051:7-8` promises the refusal of an entry that skips an epoch and of one the predecessor did
  not sign. The first is never submitted; the second is forged over `digestAt(0)`
  (`s051:99-103`) and sent with `digestAt(1)` (`s051:106-109`), so that it is signed by nobody.
- `contract_errors.rs:414-435`: a selector printed as decimal bytes is read as hex where it has
  two digits.
- `cli.rs:24` announces one JSON object per line; the report is one pretty-printed document.
- `main.rs:72-74`, `cli.rs:36-38`: exit code 2 is said to precede the scenarios; a report file
  that cannot be written gives it after them.
- `s046:4-6` needs no trust in a single node; the leaf and its place come from the receipt
  that node serves. `IncludedMeansCommitted` is about that leaf.
- `s003:21` says the record must not land on whichever path; the arm for any other
  error (`s003:64-68`) also takes a lost answer to an admitted envelope, so that S003 passes
  on a node that lacks both gates and mints the record. `NoMintUnseen` excuses just that.
- `s051:115-124` takes any error of `send` for the refusal of the forged entry, that of the transport too: contracts that check neither
  signer nor signature pass S051 if that one request, or its answer, is lost.
- `s047:1-2` has the full proof "ZK-verified end-to-end"; `s047:285-311` proves and verifies it on the suite's own machine. No
  node is asked, and none is shown to check owner or root.
- `env.rs:404` awaits the registration of the primary attester without a deadline, where `new_attester` and
  the bodies have one: on a cold registry and a chain that includes nothing the suite does not return.
- `s002:13-14` names the invariant "Attester cannot mint a TributeDraft via the agents
  pool". The draft it sends is over a unit that does not exist: the gas estimate of
  `send_transaction` refuses it before the pool sees it, any error passes (`s002:75-79`), a lost answer to an admitted draft included, and no
  pool that takes drafts from attesters can fail S002.
- `s012:54-56` accepts `MalformedAggregationProof`, which is what a contract gives that
  does not look for the empty array at all.
- `s018:9-10` has `k = 2` and a header of 68 bytes for one unit, `s019:7-8` has `k = 3`
  and 100; the wallet makes `2n + 1` inputs, as S019 says.
- `s044:13-21, 124-127`: the third leg's spliced solution was found for another
  submitted block too, so its refusal says nothing of the nonce. `GreenMeansChecked`
  leaves the nonce out for this reason.
- `s036:103`: the clean-up of the rotation candidate stands after six early returns
  (`NoStrayCandidate` says what follows).
- `s055`: on a chain lower than the window no block is stale; the scenario asks for more
  blocks than the default window, but not for the window the node runs with.
- `scenario.rs:66-71`: `post_stop` is said to run after a panic; nothing catches one.
- `main.rs:121-123`: "Flush the bridge", while `drop(env)` awaits nothing.
- `env.rs:79-81`: mask and rotation as documented are not those of lines 52-63.
- The README asks for two flags for S045 and S046, and `s045:59` says `main` schedules it "when both
  are set"; `main.rs:87` looks at one. `cli.rs:78-86` names S045 alone.
- The command-line tools do not fit together. `submit_td.rs:46-50` sends `bundle.proof` alone in a
  plain transaction; the contract wants count, public inputs and proof in one
  (`s001:279-284`) and the users lane an envelope, so its drafts are refused. No command writes the
  report that `prepare-su` reads: `mint_su.rs` prints three fields of it. `mint_su.rs` hashes
  the sorted records and submits them as given, where `lib.rs:410-413` of the attester crate has the
  caller submit the sorted ones. `pso-wallet-cli/main.rs:4-5` and `pso-attester-cli/main.rs:6`
  show flags the commands do not have (`--binding`; `--su-id`, `--derived-owner`).
  `proof.rs:82, 93` of `pso-zk-cli` fills `circuit_hash` with the hash of the NFT.

## 8. What is not modelled

`PROJECT.json` lists every component with its status. In short: proofs,
curves and circuits are calls into libraries and are taken as perfect; the byte
layout of envelopes and preimages is abstracted to what each field binds; the
tiers of the mobile crate are their capacity. The command-line tools are not modelled: a command is
one call of a crate or one transaction, between files, and those calls and contracts are
in the modules of the crates and the chain. S013 to S017
are files that `scenarios::all` no longer lists.
The width of `amount_atto` (narrowed from `u128` to `u64` in two places) is not
modelled: no run would reach 2^64, and the callers draw values below 10^18.

## 9. Plan

Done, in this order: the bridge and its service (most concurrent, most
depended upon), the agents-pool suite on the same chain, the users lane, the
sealed batch and its scenarios, the drafts, the runner with the error decoder and the
certificates.

Next: nothing that the rest depends on. The files that the tools hand to one another would be a
module of their own, once a command writes the report that `prepare-su` reads.

Theorems worth proving next: no safety property of a run is left, and liveness needs a prover of ENABLED. `CleansUp`
shows how the other rules for bodies could be proved of those of the repository, where TLC now evaluates them.

## 10. Running it

```
tlc -workers 2 -config MCBridge.cfg MCBridge      # and so on, one .cfg per run
tlapm BridgeProofs.tla
tlapm InductionProofs.tla
tlapm SealingProofs.tla
tlapm AgentsProofs.tla
tlapm UsersProofs.tla
tlapm DraftProofs.tla
tlapm RerunProofs.tla
tlapm EvidenceProofs.tla
```

The longest run (`bridge`) takes about a minute and a half, the others less.
