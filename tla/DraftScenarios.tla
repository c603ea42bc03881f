---------------------------- MODULE DraftScenarios ----------------------------
(***************************************************************************)
(* The scenarios of TributeDraft as scripts: records are registered, units *)
(* minted through the bridge and waited for, and a draft over them is      *)
(* tried on the agents pool, asked for with eth_call, or proved by a       *)
(* wallet and submitted on the users lane.                                 *)
(*                                                                         *)
(* A write is estimated on the head, broadcast, and awaited in a block.  A *)
(* fault can hit it before or after the broadcast, and what is under way   *)
(* lands later.  How a submission gets through the users lane is in        *)
(* UsersFlow, how a mint gets through the bridge in Bridge.                *)
(***************************************************************************)
EXTENDS Script, TributeDraft, SequencesExt

CONSTANTS
  Optional,   \* checks this build of the contracts may lack
  Trouble     \* bound: suite -> checks lacking and scenarios with a fault, together

ASSUME DraftAssumption ==
  /\ Optional \subseteq Checks
  /\ Trouble \in [DOMAIN Suites -> Nat]

VARIABLES
  records,  \* records filed and not consumed
  flying,   \* transactions broadcast and not in a block
  body      \* the locals of the scenario body that runs

vars == <<draftVars, scriptVars, records, flying, body>>

-----------------------------------------------------------------------------
(* The steps of a script.                                                  *)

File(r) == [op |-> "file", record |-> r]

\* A unit over `rs`; its id is random, one of `ids` that is still free.
MintSU(ids, day, cur, rs) ==
  [op |-> "mint", ids |-> ids, day |-> day, currency |-> cur, recs |-> rs]

WaitRecords(rs) == [op |-> "waitRecords", recs |-> rs]
WaitUnits == [op |-> "waitUnits"]
NewActor == [op |-> "newActor"]
Own(i) == [op |-> "own", nth |-> i]
Submit == [op |-> "submit"]
ReadBack == [op |-> "readBack"]
ProveFull == [op |-> "proveFull"]

\* A draft that must be refused: of the body's units, or of these; by the estimate, in an
\* eth_call, or by whoever.
Refused(how, us, proof, wants) ==
  [op |-> how, units |-> us, proof |-> proof, wants |-> wants]
Minted == <<0>>

ASSUME StepAssumption ==
  StepsAmong({"file", "mint", "waitRecords", "waitUnits", "newActor", "own", "submit",
              "readBack", "proveFull", "refused", "asked", "gated"})

\* submit_full_tribute_draft: two units of the same day and currency.
FullDraft(a, ids) ==
  LET r == [n \in 1..6 |-> <<a, n>>] IN
  << File(r[1]), File(r[2]), File(r[3]), File(r[4]), File(r[5]), File(r[6]),
     WaitRecords({r[n] : n \in 1..6}),
     MintSU(ids, 1, "EUR", {r[1], r[2], r[3]}), MintSU(ids, 1, "EUR", {r[4], r[5], r[6]}),
     WaitUnits, NewActor, Own(1), Own(2), Submit >>

S001 == FullDraft("S001", {1, 2}) \o << ReadBack >>
S047 == FullDraft("S047", {3, 4}) \o << ProveFull >>

\* mint_one_su and mint_su_with.
OneUnit(a, id, day, cur) ==
  << File(<<a, id>>), WaitRecords({<<a, id>>}), MintSU({id}, day, cur, {<<a, id>>}), WaitUnits >>

\* A unit whose id may fall on either side of the next one's.
EitherUnit(a, ids, n, day, cur) ==
  << File(<<a, n>>), WaitRecords({<<a, n>>}), MintSU(ids, day, cur, {<<a, n>>}), WaitUnits >>

\* Any refusal will do: an error of send, or a receipt with status 0.
S002 == << Refused("gated", <<9>>, NoProof, {}) >>

S012 == << Refused("asked", <<>>, NoProof, {"EmptyArray", "MalformedAggregationProof"}) >>

S018 == OneUnit("S018", 1, 1, "EUR")
  \o << Refused("refused", Minted, NoProof, {"MalformedAggregationProof"}) >>

S019 == OneUnit("S019", 2, 1, "EUR")
  \o << Refused("refused", Minted, ZeroProof(3), {"InvalidAggregationProof"}) >>

S021 == << Refused("refused", <<9>>, NoProof, {"NotFound"}) >>

S022 == EitherUnit("S022", {3, 4}, 1, 1, "EUR") \o EitherUnit("S022", {3, 4}, 2, 2, "EUR")
  \o << Refused("refused", Minted, NoProof, {"NotSameWorldwideDay"}) >>

\* Mutant of S023: two currencies, and two days.
S023TwoDays == EitherUnit("S023", {5, 6}, 1, 1, "EUR") \o EitherUnit("S023", {5, 6}, 2, 2, "USD")
  \o << Refused("refused", Minted, NoProof, {"NotSameCurrency", "NotSameWorldwideDay"}) >>

S023 == EitherUnit("S023", {5, 6}, 1, 1, "EUR") \o EitherUnit("S023", {5, 6}, 2, 1, "USD")
  \o << Refused("refused", Minted, NoProof, {"NotSameCurrency"}) >>

\* In the order of scenarios::all.
FullSuite == << S001, S002, S012, S021, S047 >>
RefusalSuite == << S018, S019, S022, S023 >>

-----------------------------------------------------------------------------
(* The locals of a body.                                                   *)

NoLocals == [minted |-> <<>>, sender |-> 0, witnesses |-> <<>>]

Bind(b) == body' = IF at' # at THEN NoLocals ELSE b

\* The wallet's consent, and what the body's draft is called.
Consent == "wallet"
Attester == 0
DraftId == at

\* generate_nft_header, from the same seed in every scenario: an id of its own, one owner.
Header == [id |-> 0, owner |-> DerivedOwner(Consent, 0)]

\* Mutant of InSubmittedOrder: the receipts as the bridge has returned them.
AsMinted(receipts) == receipts

\* receipts.sort_by_key, and sorted_unique_u256: witnesses, hence the inputs of the proof,
\* in the order of the ids that are submitted.
InSubmittedOrder(receipts) ==
  CHOOSE sorted \in [DOMAIN receipts -> {receipts[i] : i \in DOMAIN receipts}] :
    /\ \A i \in DOMAIN receipts : \E j \in DOMAIN receipts : sorted[j] = receipts[i]
    /\ \A i, j \in DOMAIN receipts : i < j => sorted[i].id <= sorted[j].id

IdsOf(us) == [i \in 1..Len(us) |-> us[i].id]

-----------------------------------------------------------------------------
(* The transactions.                                                       *)

Filing(r) == [to |-> "file", by |-> Attester, record |-> r]
Minting(u, rs) == [to |-> "mint", by |-> Attester, unit |-> u, recs |-> rs]
Drafting(d) == [to |-> "draft", by |-> d.sender, draft |-> d]

\* What the head has to say to a transaction.
RefusalOf(tx) ==
  CASE tx.to = "file" -> IF tx.record \in records THEN "AlreadyExists" ELSE "none"
    [] tx.to = "mint" -> IF tx.recs \subseteq records THEN "none" ELSE "InvalidSpendingRecords"
    [] OTHER -> Refusal(tx.draft)

\* A draft of a wallet's comes in an envelope, and needs the dispatcher.
Dispatched(tx) == tx.to = "draft" /\ tx.by # Attester => "dispatch" \in makes

\* A block executes it.
Execute(tx) ==
  IF RefusalOf(tx) # "none" \/ ~Dispatched(tx)
    THEN UNCHANGED <<records, units, drafts>>
    ELSE CASE tx.to = "file" -> records' = records \cup {tx.record} /\ UNCHANGED <<units, drafts>>
           [] tx.to = "mint" -> /\ MintUnit(tx.unit)
                                /\ records' = records \ tx.recs
                                /\ UNCHANGED drafts
           [] OTHER -> MintDraft(tx.draft) /\ UNCHANGED <<records, units>>

\* A sender's transactions land in order.
Land ==
  \E i \in 1..Len(flying) :
    /\ \A k \in 1..(i - 1) : flying[k].by # flying[i].by
    /\ Execute(flying[i])
    /\ flying' = RemoveAt(flying, i)
    /\ UNCHANGED <<makes, scriptVars, body>>

-----------------------------------------------------------------------------
(* The bodies.                                                             *)

Init ==
  /\ ScriptInit
  /\ \E lacking \in SUBSET Optional :
       /\ Cardinality(lacking) <= Trouble[suite]
       /\ makes = Checks \ lacking
  /\ units = {} /\ drafts = {} /\ records = {}
  /\ flying = <<>>
  /\ body = NoLocals

Doing(op) == InBody /\ mid = "ready" /\ Now.op = op
Luckless == Cardinality(faulted) + Cardinality(Checks \ makes) < Trouble[suite]

Minting1(id) ==
  [id |-> id, owner |-> DerivedOwner(Consent, id), day |-> Now.day, currency |-> Now.currency]

\* The estimate of a record or, behind mint_su, of a unit passes, and it is broadcast.
SendRecord ==
  /\ Doing("file")
  /\ RefusalOf(Filing(Now.record)) = "none"
  /\ flying' = Append(flying, Filing(Now.record))
  /\ Reach("sent") /\ Bind(body)
  /\ UNCHANGED <<draftVars, records, faulted>>

SendUnit ==
  /\ Doing("mint")
  /\ \E id \in Now.ids \ {u.id : u \in units} :
       LET tx == Minting(Minting1(id), Now.recs) IN
       /\ RefusalOf(tx) = "none"
       /\ flying' = Append(flying, tx)
       /\ Reach("sent")
       /\ Bind([body EXCEPT !.minted = Append(@, tx.unit)])
  /\ UNCHANGED <<draftVars, records, faulted>>

\* Mutant of Submitter: the key that submits is rolled when it is needed.
SubmitterOfItsOwn == body.sender + 1

\* Whose envelope it is: the key the binding names.
Submitter == body.sender

\* Whose key signs what the step sends.
Signer == IF Now.op = "submit" THEN Submitter ELSE Attester

\* The receipt: nothing of the sender's is on its way any more.
Receipt ==
  /\ InBody /\ mid = "sent"
  /\ \A i \in 1..Len(flying) : flying[i].by # Signer
  /\ CASE Now.op = "file" -> IF Now.record \in records THEN Advance ELSE Fail
       [] Now.op = "mint" ->
            IF \E u \in units : u.id = body.minted[Len(body.minted)].id THEN Advance ELSE Fail
       [] Now.op = "submit" -> IF \E d \in drafts : d.id = DraftId THEN Advance ELSE Fail
       [] Now.op = "gated" -> IF \E d \in drafts : d.id = DraftId THEN Fail ELSE Advance
  /\ Bind(body)
  /\ UNCHANGED <<draftVars, records, flying, faulted>>

\* wait_for_sr_existence and wait_for_su_existence.
Exist ==
  /\ \/ Doing("waitRecords") /\ Now.recs \subseteq records
     \/ Doing("waitUnits") /\ \A i \in 1..Len(body.minted) : \E u \in units : u.id = body.minted[i].id
  /\ Advance /\ Bind(body)
  /\ UNCHANGED <<draftVars, records, flying, faulted>>

\* A draft by `sender` over the units of the step, in the order of their ids.
Tried(sender) ==
  [id |-> DraftId, sender |-> sender, owner |-> Nobody, proof |-> Now.proof,
   units |-> IF Now.units = Minted THEN IdsOf(InSubmittedOrder(body.minted)) ELSE Now.units]

\* The estimate refuses the draft, or eth_call does.
TurnedDown ==
  /\ Doing("refused") \/ Doing("asked") \/ Doing("gated")
  /\ Refusal(Tried(Attester)) # "none"
  /\ IF Now.op = "gated" \/ Refusal(Tried(Attester)) \in Now.wants THEN Advance ELSE Fail
  /\ Bind(body)
  /\ UNCHANGED <<draftVars, records, flying, faulted>>

\* It does not: S012 is told so, the others broadcast it, and the pool may take it.
TakenUp ==
  /\ Doing("refused") \/ Doing("asked") \/ Doing("gated")
  /\ Refusal(Tried(Attester)) = "none"
  /\ IF Now.op = "asked" \/ "lane" \in makes
       THEN UNCHANGED flying
       ELSE flying' = Append(flying, Drafting(Tried(Attester)))
  /\ CASE Now.op # "gated" -> Fail
       [] Now.op = "gated" -> IF "lane" \in makes THEN Advance ELSE Reach("sent")
  /\ Bind(body)
  /\ UNCHANGED <<draftVars, records, faulted>>

\* The receipts are sorted, and a new key and a new draft id fix the binding.
MakeActor ==
  /\ Doing("newActor")
  /\ Advance
  /\ Bind([body EXCEPT !.minted = InSubmittedOrder(@), !.sender = at])
  /\ UNCHANGED <<draftVars, records, flying, faulted>>

\* The witness of a unit, and the owner getData shows.
OwnUnit ==
  LET report == body.minted[Now.nth] IN
  /\ Doing("own")
  /\ IF UnitAt(report.id).owner = report.owner THEN Advance ELSE Fail
  /\ Bind([body EXCEPT !.witnesses =
            Append(@, Witness(Consent, report, Binding(body.sender, DraftId, "L2")))])
  /\ UNCHANGED <<draftVars, records, flying, faulted>>

FullDraftOf(sender) ==
  [id |-> DraftId, sender |-> sender, owner |-> Header.owner, units |-> IdsOf(body.minted),
   proof |-> Proof(body.sender, DraftId, body.witnesses)]

\* prove_ownership and submit_tx.  The users lane admits an envelope whatever it holds.
SendDraft ==
  /\ Doing("submit")
  /\ IF Aggregates(body.sender, DraftId, body.witnesses)
       THEN Reach("sent") /\ flying' = Append(flying, Drafting(FullDraftOf(Submitter)))
       ELSE Fail /\ UNCHANGED flying
  /\ Bind(body)
  /\ UNCHANGED <<draftVars, records, faulted>>

MyDraft == CHOOSE d \in drafts : d.id = DraftId

\* S001 reads the draft's owner.
OwnerRead ==
  /\ Doing("readBack")
  /\ IF MyDraft.owner = Header.owner THEN Advance ELSE Fail
  /\ Bind(body)
  /\ UNCHANGED <<draftVars, records, flying, faulted>>

\* S047 reads the draft, signs it under the header's key and proves it in a tree of its
\* own; then it tries the proof on two sets of inputs, each with one changed.
ProvedInFull ==
  /\ Doing("proveFull")
  /\ LET own == OwnershipOf(Header, DraftId, MyDraft)
         public == FullProof(own, RootOf(LeafOf(MyDraft), MyDraft.index)) IN
       IF /\ own.hash = LeafOf(MyDraft)
          /\ own.owner = Header.owner
          /\ FullVerifies(public, public)
          /\ ~FullVerifies(public, [public EXCEPT ![1] = own.hash])
          /\ ~FullVerifies(public, [public EXCEPT ![4] = own.hash])
         THEN Advance ELSE Fail
  /\ Bind(body)
  /\ UNCHANGED <<draftVars, records, flying, faulted>>

\* What a step broadcasts: what the estimate and the pool's gate let through.  An
\* envelope is not estimated.
Outgoing ==
  CASE Doing("file") -> {tx \in {Filing(Now.record)} : RefusalOf(tx) = "none"}
    [] Doing("mint") ->
         {tx \in {Minting(Minting1(id), Now.recs) : id \in Now.ids \ {u.id : u \in units}} :
            RefusalOf(tx) = "none"}
    [] Doing("submit") ->
         {tx \in {Drafting(FullDraftOf(Submitter))} :
            Aggregates(body.sender, DraftId, body.witnesses)}
    [] Doing("refused") \/ Doing("gated") ->
         {tx \in {Drafting(Tried(Attester))} : RefusalOf(tx) = "none" /\ "lane" \notin makes}
    [] OTHER -> {}

\* What a step sends when its request gets through and the answer does not.
Unanswered == \E tx \in Outgoing : flying' = Append(flying, tx)

\* A call fails or a deadline passes.  S002 takes an error of send for a refusal.
RpcFault ==
  /\ InBody /\ Luckless /\ Faulty
  /\ IF Doing("gated") THEN Advance ELSE Fail
  /\ UNCHANGED flying \/ Unanswered
  /\ Bind(body)
  /\ UNCHANGED <<draftVars, records>>

Next ==
  \/ SendRecord \/ SendUnit \/ Receipt \/ Exist
  \/ TurnedDown \/ TakenUp
  \/ MakeActor \/ OwnUnit \/ SendDraft \/ OwnerRead \/ ProvedInFull
  \/ RpcFault \/ Land

Spec == Init /\ [][Next]_vars

-----------------------------------------------------------------------------
(* What a run shows.                                                       *)

TypeOK ==
  /\ ScriptTypeOK
  /\ mid \in {"ready", "sent"}
  /\ makes \subseteq Checks
  /\ \A u \in units : u.id \in Nat /\ u.day \in {1, 2} /\ u.currency \in {"EUR", "USD"}
  /\ \A d \in drafts : d.id \in Scenarios /\ d.index < Cardinality(drafts)
  /\ Len(body.witnesses) <= Len(body.minted)

\* On a node that makes every check a scenario fails only for a fault of its own: the ids
\* of its units fall in any order, and what others have left in the pool lands at any time.
FailuresDeserved ==
  makes = Checks => \A i \in Scenarios : verdict[i] = "fail" => i \in faulted

Green == Ended /\ \A i \in Scenarios : verdict[i] = "pass"

\* What green runs show of the node: each error a scenario waits for alone is the work of
\* one check, and where two checks give the same error it is that of either.  S047's own
\* proofs are verified by the suite, and show nothing of a node.
GreenMeansChecked ==
  /\ Green /\ Suite = FullSuite =>
       {"found", "dispatch", "keeps", "leaf"} \subseteq makes
  /\ Green /\ Suite = RefusalSuite =>
       /\ {"day", "currency"} \subseteq makes
       /\ makes \cap {"length", "count"} # {}
       /\ makes \cap {"inputs", "snark"} # {}

=============================================================================
