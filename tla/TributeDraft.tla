----------------------------- MODULE TributeDraft -----------------------------
(***************************************************************************)
(* The wallet's half of a TributeDraft (crates/pso-mobile-integration):    *)
(* ownership witnesses over units it was issued, their aggregation into    *)
(* one proof for one submission, and the full proof of a draft that has    *)
(* been minted; and the contract that takes the draft, with the checks     *)
(* S001, S012, S018, S019, S021, S022, S023 and S047 say it makes.  The    *)
(* contract is under test: `makes` holds the checks this build of it makes. *)
(*                                                                         *)
(* A hash is the record of what it covers.                                 *)
(***************************************************************************)
EXTENDS Naturals, Sequences, FiniteSets

CONSTANT Nobody

Checks ==
  {"empty",      \* some unit
   "ascending",  \* the units in strictly ascending order
   "found",      \* every unit exists
   "day",        \* of one worldwide day
   "currency",   \* in one currency
   "length",     \* room in the proof for its public inputs
   "count",      \* the number of them it says it has
   "inputs",     \* and their values
   "snark",      \* the proof itself
   "lane",       \* the agents pool does not take drafts (S002)
   "dispatch",   \* the users lane executes the call in an envelope (S001)
   "keeps",      \* owners are stored as given (S001)
   "leaf"}       \* the draft's hash is what goes into the tree (S047)

VARIABLES
  makes,  \* the checks this build makes
  units,  \* spending units
  drafts  \* tribute drafts

draftVars == <<makes, units, drafts>>

-----------------------------------------------------------------------------
(* The wallet.                                                             *)

\* derived_owner of a unit issued to a consent: opaque_pk and nonce are its own.
DerivedOwner(consent, id) == [consent |-> consent, id |-> id]

\* binding_fr: of one L2, for the chain that verifies.
Binding(sender, draft, host) == [sender |-> sender, draft |-> draft, host |-> host]

UnitHash(u) == [id |-> u.id, owner |-> u.owner, day |-> u.day, currency |-> u.currency]

\* Consent::witness: a signature that only the consent it was issued to can make.
Witness(consent, report, binding) ==
  [owner |-> report.owner, hash |-> UnitHash(report), binding |-> binding,
   sound |-> report.owner.consent = consent]

\* aggregation_proof_bytes has circuits up to 64 slots.
MaxSlots == 64

\* prove_ownership computes the binding anew, and refuses witnesses over another.
Aggregates(sender, draft, witnesses) ==
  /\ Len(witnesses) \in 1..MaxSlots
  /\ \A i \in 1..Len(witnesses) :
       witnesses[i].sound /\ witnesses[i].binding = Binding(sender, draft, "L2")

\* Owner and hash of every slot, then the binding.  (One unit, or two, fill a tier.)
InputsOf(slots, binding) ==
  [n \in 1..(2 * Len(slots) + 1) |->
     IF n = 2 * Len(slots) + 1 THEN binding
     ELSE IF n % 2 = 1 THEN slots[(n + 1) \div 2].owner ELSE slots[n \div 2].hash]

\* What S001 makes of the result: the number of inputs, the inputs, the proof.
Proof(sender, draft, witnesses) ==
  LET inputs == InputsOf(witnesses, Binding(sender, draft, "L2")) IN
  [words |-> Len(inputs), count |-> Len(inputs), inputs |-> inputs, snark |-> TRUE]

\* Fewer bytes than one input, and inputs of nothing but zeros.
NoProof == [words |-> 0, count |-> 0, inputs |-> <<>>, snark |-> FALSE]
ZeroProof(n) == [words |-> n, count |-> n, inputs |-> [i \in 1..n |-> Nobody], snark |-> FALSE]

\* tribute_draft_hash_fr: the units are hashed as a set.
DraftHash(id, owner, d) ==
  [id |-> id, owner |-> owner, day |-> d.day, currency |-> d.currency,
   units |-> {d.units[i] : i \in 1..Len(d.units)}]

\* S047's settlement identity.
L1Sender == 11

\* Mutant of OwnershipOf: the header's own id, not the id the draft was minted under.
OwnershipOfHeader(header, id, d) ==
  [owner |-> header.owner, hash |-> DraftHash(header.id, header.owner, d),
   binding |-> Binding(L1Sender, header.id, "L1")]

\* tribute_ownership_witness, of the header under the draft's id: the draft's hash is
\* folded anew, over the owner the header names and the rest as the chain has it.
OwnershipOf(header, id, d) ==
  [owner |-> header.owner, hash |-> DraftHash(id, header.owner, d),
   binding |-> Binding(L1Sender, id, "L1")]

\* The root over a leaf at its index in a tree that is empty otherwise.
RootOf(leaf, index) == [leaf |-> leaf, index |-> index]

\* prove_full, and its public inputs.
FullProof(ownership, root) == <<ownership.owner, ownership.hash, ownership.binding, root>>

\* The suite's own verifier, of S047: a proof made for these inputs holds for no others.
FullVerifies(made, public) == public = made

-----------------------------------------------------------------------------
(* The contract.                                                           *)

Ids(d) == {d.units[i] : i \in 1..Len(d.units)}

\* getData of an id: zeros when there is no such unit.
Nothing(id) == [id |-> id, owner |-> Nobody, day |-> 0, currency |-> Nobody]
UnitAt(id) ==
  IF \E u \in units : u.id = id THEN CHOOSE u \in units : u.id = id ELSE Nothing(id)

\* The inputs a proof for this draft must have, as recomputed.
Expected(d) ==
  InputsOf([i \in 1..Len(d.units) |->
              [owner |-> UnitAt(d.units[i]).owner, hash |-> UnitHash(UnitAt(d.units[i]))]],
           Binding(d.sender, d.id, "L2"))

\* The checks of TributeDraft.submit in their order, and the error each one gives.
Guards(d) ==
  << [check |-> "empty", holds |-> d.units # <<>>, error |-> "EmptyArray"],
     [check |-> "ascending",
      holds |-> \A i \in 1..(Len(d.units) - 1) : d.units[i] < d.units[i + 1],
      error |-> "SuIdsNotAscending"],
     [check |-> "found",
      holds |-> \A id \in Ids(d) : \E u \in units : u.id = id,
      error |-> "NotFound"],
     [check |-> "day", holds |-> Cardinality({UnitAt(id).day : id \in Ids(d)}) <= 1,
      error |-> "NotSameWorldwideDay"],
     [check |-> "currency", holds |-> Cardinality({UnitAt(id).currency : id \in Ids(d)}) <= 1,
      error |-> "NotSameCurrency"],
     [check |-> "length", holds |-> d.proof.words >= Len(Expected(d)),
      error |-> "MalformedAggregationProof"],
     [check |-> "count", holds |-> d.proof.count = Len(Expected(d)),
      error |-> "MalformedAggregationProof"],
     [check |-> "inputs", holds |-> d.proof.inputs = Expected(d),
      error |-> "InvalidAggregationProof"],
     [check |-> "snark", holds |-> d.proof.snark, error |-> "InvalidAggregationProof"] >>

\* The first check that is made and does not hold.
Refusal(d) ==
  LET guards == Guards(d)
      failing == {n \in DOMAIN guards : guards[n].check \in makes /\ ~guards[n].holds} IN
  IF failing = {} THEN "none"
  ELSE guards[CHOOSE n \in failing : \A k \in failing : n <= k].error

Kept(owner) == IF "keeps" \in makes THEN owner ELSE Nobody

\* A unit, or a draft with its place in the tree, comes into existence.
MintUnit(u) == units' = units \cup {[u EXCEPT !.owner = Kept(u.owner)]}

MintDraft(d) ==
  drafts' = drafts \cup
    {[id |-> d.id, sender |-> d.sender, owner |-> Kept(d.owner), units |-> d.units,
      day |-> UnitAt(d.units[1]).day, currency |-> UnitAt(d.units[1]).currency,
      index |-> Cardinality(drafts)]}

\* The leaf its LeafInserted event tells of.
LeafOf(d) == IF "leaf" \in makes THEN DraftHash(d.id, d.owner, d) ELSE Nobody

=============================================================================
