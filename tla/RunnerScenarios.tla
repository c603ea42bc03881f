--------------------------- MODULE RunnerScenarios ---------------------------
(***************************************************************************)
(* Four bodies inside the runner: S030, which decodes a contract's refusal *)
(* from text, S049, which decodes a pool's from JSON-RPC, S045, which      *)
(* waits for a batch on the L1, and S046, which proves to itself that the  *)
(* committee has signed a root over the draft's leaf.                      *)
(*                                                                         *)
(* Each talks to nodes the suite does not control.  `node` says whether    *)
(* the L2 node's answers to S046 are its chain's or made up; the L1 is     *)
(* what S046 trusts.                                                       *)
(***************************************************************************)
EXTENDS Runner, ErrorDecode, FinalizeCert

CONSTANTS
  Mine, Others, Empty,  \* leaves: of S046's draft, of other drafts, of a free place
  Chain, OtherChain,    \* chain ids; one committee signs for both
  Committee,            \* its key
  Address,              \* an address, as a value and as twenty bytes
  LyingOn,              \* bound: command lines on which the node may lie
  MaxBlocks,            \* bound: blocks of the chain
  MaxRound              \* bound: epochs, views and parents an answer names

ASSUME ScenariosAssumption ==
  /\ Leaves = {Mine, Others, Empty} /\ Places = 0..1
  /\ Ids \subseteq {"S030", "S045", "S046", "S049"}
  /\ NeedL1 = {"S045", "S046"} \cap Ids
  /\ Mine \notin {Others, Empty}
  /\ MaxBlocks \in Nat \ {0} /\ MaxRound \in Nat
  /\ Chain # OtherChain /\ Nothing \notin Trees
  /\ Address \in (Selectors \ KnownErrors) \cap Values /\ {"none", "address"} \subseteq Shapes
  /\ {"PSO pool rejection", "MethodNotPermitted", "to:", "selector:", "execution reverted"} \subseteq Words

VARIABLES
  node,     \* "honest" or "lying"
  blocks,   \* the root r of each block: the tree of that moment
  final,    \* how many of them the committee has finalized
  posted,   \* whether the DaInbox has recorded a batch
  mid,      \* how far the body is
  heard,    \* what S046 has been told
  shown,    \* scenario -> what stands behind its verdict
  faulted   \* scenarios in which a read has failed or a deadline has passed

chainVars == <<node, blocks, final, posted>>
bodyVars == <<mid, heard, shown, faulted>>
vars == <<runnerVars, chainVars, bodyVars>>

-----------------------------------------------------------------------------
(* External: the chain, its committee, its L1.                             *)

Free(tree) == {p \in Places : tree[p] = Empty}
NextPlace(tree) == CHOOSE p \in Free(tree) : \A q \in Free(tree) : p <= q
Tip == IF blocks = <<>> THEN [p \in Places |-> Empty] ELSE blocks[Len(blocks)]
Holding(tree) == \E p \in Places : tree[p] = Mine

Preimage(h) == [height |-> h, parent |-> h - 1, r |-> blocks[h]]
Round(h) == [epoch |-> 1, view |-> h, parent |-> h - 1]
Finalized(h) == Sign(Committee, Chain, Round(h), Digest(Preimage(h)))

\* On the other chain the committee has finalized a block with the draft's leaf in it.
Foreign ==
  LET pre == [height |-> 1, parent |-> 0, r |-> [p \in Places |-> IF p = 0 THEN Mine ELSE Empty]]
  IN [pre |-> pre, tip |-> Digest(pre), round |-> Round(1),
      sig |-> Sign(Committee, OtherChain, Round(1), Digest(pre))]

GroupPubKey == [size |-> 256, point |-> Committee]

\* What decodes is not Nothing: a leaf's log, the key, a signature of the committee.
ASSUME NothingAssumption ==
  /\ Nothing \notin [place : Places, leaf : Leaves] \cup {Committee}
  /\ \A h \in 1..MaxBlocks, r \in Trees :
       Sign(Committee, Chain, Round(h), Digest([height |-> h, parent |-> h - 1, r |-> r])) # Nothing

\* What an honest node serves: the path at a finalized block that has the leaf, and the
\* certificate of a finalized block.
PathAt(h) == [root |-> blocks[h], siblings |-> blocks[h], block |-> h]
CertOf(h) == [pre |-> Preimage(h), tip |-> Digest(Preimage(h)), round |-> Round(h),
              sig |-> Finalized(h)]

\* What a lying one makes up, from what there is.
MadeUpPaths ==
  {[root |-> t, siblings |-> u, block |-> h] : t \in Trees, u \in Trees, h \in 1..MaxBlocks}

Preimages == {Preimage(h) : h \in 1..Len(blocks)} \cup {Foreign.pre}

\* A preimage with its digest, true or with the path's root put in, or that with the digest
\* of the true one; any round, any signature there is.
MadeUpCerts(path) ==
  LET Put(p) == [p EXCEPT !.r = path.root]
      told == {<<p, Digest(p)>> : p \in Preimages} \cup
              {<<Put(p), Digest(Put(p))>> : p \in Preimages} \cup
              {<<Put(p), Digest(p)>> : p \in Preimages}
  IN {[pre |-> t[1], tip |-> t[2], round |-> round, sig |-> s] :
        t \in told, round \in [epoch : {1}, view : 0..MaxRound, parent : 0..MaxRound],
        s \in {Finalized(h) : h \in 1..final} \cup {Foreign.sig, Nothing}}

\* The chain moves all the time; at other times than these nobody looks, and what it does
\* then it can as well do later.
Watches(ids) == phase = "body" /\ Selected(cli)[at] \in ids

\* Block by block; a place is kept for the draft's leaf, and a block.
OthersBlock ==
  /\ Watches(NeedL1)
  /\ Len(blocks) + (IF Holding(Tip) THEN 0 ELSE 1) < MaxBlocks
  /\ \/ blocks' = Append(blocks, Tip)
     \/ /\ Cardinality(Free(Tip)) > (IF Holding(Tip) THEN 0 ELSE 1)
        /\ blocks' = Append(blocks, [Tip EXCEPT ![NextPlace(Tip)] = Others])
  /\ UNCHANGED <<runnerVars, node, final, posted, bodyVars>>

FinalizeBlock ==
  /\ Watches(NeedL1)
  /\ final < Len(blocks)
  /\ final' = final + 1
  /\ UNCHANGED <<runnerVars, node, blocks, posted, bodyVars>>

PostBatch ==
  /\ Watches({"S045"})
  /\ final > 0 /\ ~posted
  /\ posted' = TRUE
  /\ UNCHANGED <<runnerVars, node, blocks, final, bodyVars>>

-----------------------------------------------------------------------------
(* External: the two nodes' refusals, as text and as JSON-RPC.             *)

AddressBytes == [size |-> 20, selector |-> Address, shape |-> "none", value |-> Address]

\* The pool's reason; its selector is written in decimal.
PoolText ==
  << Word("PSO pool rejection"), Word("MethodNotPermitted"), Word("to:"),
     Bytes("hex", AddressBytes), Word("selector:"),
     [is |-> "list", items |-> [i \in 1..4 |-> [written |-> "decimal", value |-> 40 * i]]] >>

Reverts == {RevertOf(e, Address) : e \in {"AttesterNotActive", "NotRegistered"}}

\* An address may stand before the data of a revert.
RevertTexts(b) == {<<Data(b)>>, <<Word("to:"), Bytes("hex", AddressBytes), Data(b)>>}

AgentsReplies ==
  {[cause |-> "pool", err |-> [is |-> "Contract", text |-> PoolText]]} \cup
  UNION {{[cause |-> b.selector, err |-> [is |-> "Contract", text |-> t]] : t \in RevertTexts(b)} :
           b \in Reverts}

Refusing(cause, code, message, data) ==
  [cause |-> cause, err |-> [code |-> code, message |-> message, data |-> data]]

InternalError == -32603
ExecutionReverted == 3

ActorReplies ==
  {Refusing("pool", InvalidParams, PoolText, None)} \cup
  {Refusing(b.selector, ExecutionReverted, <<Word("execution reverted")>>, [bytes |-> b, even |-> TRUE]) : b \in Reverts} \cup
  {Refusing(b.selector, InternalError, <<Data(b)>>, None) : b \in Reverts}

-----------------------------------------------------------------------------
(* The bodies.                                                             *)

\* Whether a body's error is the one it wants.
S030Wants(err) == into_pso_error(err).is = "AttesterNotActive"
S049Wants(err) == json_rpc_error_to_typed(err).is = "PoolRejection"

InBody(id, m) == phase = "body" /\ Selected(cli)[at] = id /\ mid = m

\* Mutant of Ends: a body that fails ends the run.
EndsTheRun(o) ==
  /\ phase = "body" /\ IF o = "fail" THEN Goes("json") ELSE BodyReturns(o)
  /\ mid' = "start" /\ heard' = Nothing

Ends(o) == BodyReturns(o) /\ mid' = "start" /\ heard' = Nothing
Reach(m, x) == mid' = m /\ heard' = x /\ UNCHANGED <<runnerVars, shown, faulted>>
Shows(id, x) == shown' = [shown EXCEPT ![id] = x]

\* A read fails, a connection breaks, a deadline passes.
Faults(id) == Ends("fail") /\ faulted' = faulted \cup {id} /\ UNCHANGED <<shown, chainVars>>

Refusal(id, replies, wanted) ==
  /\ InBody(id, "start")
  /\ \/ \E reply \in replies :
          /\ Ends(IF reply \in wanted THEN "pass" ELSE "fail")
          /\ Shows(id, reply.cause)
          /\ UNCHANGED <<faulted, chainVars>>
     \/ Ends("fail") /\ Shows(id, "admitted") /\ UNCHANGED <<faulted, chainVars>>
     \/ Faults(id)

S030 == Refusal("S030", AgentsReplies, {reply \in AgentsReplies : S030Wants(reply.err)})
S049 == Refusal("S049", ActorReplies, {reply \in ActorReplies : S049Wants(reply.err)})

\* S045 and S046 ask for both L1 options themselves; main drops them for want of the one.
Unwired ==
  /\ \E id \in NeedL1 : InBody(id, "start")
  /\ ~(cli.l1 /\ cli.inbox)
  /\ Ends("fail")
  /\ UNCHANGED <<shown, faulted, chainVars>>

Wired(id, m) == InBody(id, m) /\ cli.l1 /\ cli.inbox

\* A read of hasCommitment that fails counts as "not yet", so it is a wait like any other.
S045Sees ==
  /\ Wired("S045", "start") /\ posted
  /\ Reach("epoch", Nothing) /\ UNCHANGED chainVars

S045 ==
  /\ Wired("S045", "epoch")
  /\ Ends("pass") /\ UNCHANGED <<shown, faulted, chainVars>>

\* submit_full_tribute_draft, to its receipt, and the leaf the receipt names.
OwnLogs == << [from |-> "SpendingUnit", event |-> "Minted", topics |-> 3, size |-> 32, place |-> 0, leaf |-> Empty],
              [from |-> "TributeDraft", event |-> "LeafInserted", topics |-> 3, size |-> 32,
               place |-> NextPlace(Tip), leaf |-> Mine] >>

MadeUpLogs == {<<>>} \cup {<<[OwnLogs[2] EXCEPT !.place = p, !.leaf = l]>> : p \in Places, l \in {Mine, Others}}

S046Submit ==
  /\ Wired("S046", "start")
  /\ blocks' = Append(blocks, [Tip EXCEPT ![NextPlace(Tip)] = Mine])
  /\ \E logs \in {OwnLogs} \cup (IF node = "lying" THEN MadeUpLogs ELSE {}) :
       LET inserted == leaf_inserted(logs) IN
       IF inserted = Nothing
         THEN Ends("fail") /\ UNCHANGED <<shown, faulted>>
         ELSE Reach("inserted", [leaf |-> inserted, path |-> Nothing])
  /\ UNCHANGED <<node, final, posted>>

\* pso_getInclusionPath at "finalized": an error until the last finalized block has the leaf.
S046Path ==
  /\ InBody("S046", "inserted")
  /\ \E path \in (IF final > 0 /\ Holding(blocks[final]) THEN {PathAt(final)} ELSE {})
                 \cup (IF node = "lying" THEN MadeUpPaths ELSE {}) :
       IF PathHolds(heard.leaf, path)
         THEN Reach("proved", [leaf |-> heard.leaf, path |-> [root |-> path.root, block |-> path.block]])
         ELSE Ends("fail") /\ UNCHANGED <<shown, faulted>>
  /\ UNCHANGED chainVars

CertHolds(path, cert) ==
  /\ CertBinds(path, cert)
  /\ verify_finalize_cert(GroupPubKey, Chain, cert.round, cert.tip, cert.sig)

\* pso_getFinalizeCert, groupPubKey and l2ChainId: what they say of a block is settled.
S046 ==
  /\ InBody("S046", "proved")
  /\ \/ heard.path.block > final /\ Ends("fail") /\ UNCHANGED shown
     \/ \E cert \in (IF heard.path.block <= final THEN {CertOf(heard.path.block)} ELSE {})
                    \cup (IF node = "lying" THEN MadeUpCerts(heard.path) ELSE {}) :
          IF CertHolds(heard.path, cert)
            THEN Ends("pass") /\ Shows("S046", [leaf |-> heard.leaf, round |-> cert.round])
            ELSE Ends("fail") /\ UNCHANGED shown
  /\ UNCHANGED <<faulted, chainVars>>

\* Mutant of Deadlines: a poll has none.
NoDeadlines == Wired("S045", "epoch") /\ Faults("S045")

\* The deadlines of the two polls, and a failure of any read but those they retry.
Deadlines ==
  \/ \E m \in {"start", "epoch"} : Wired("S045", m) /\ Faults("S045")
  \/ \E m \in {"start", "inserted", "proved"} : Wired("S046", m) /\ Faults("S046")

Init ==
  /\ RunnerInit
  /\ node \in {"honest", "lying"}
  /\ node = "lying" => cli \in LyingOn
  /\ blocks = <<>> /\ final = 0 /\ posted = FALSE
  /\ mid = "start" /\ heard = Nothing
  /\ shown = [id \in Ids |-> Nothing] /\ faulted = {}

\* A pre_start that fails is a fault of its scenario.
Main ==
  /\ MainStep
  /\ faulted' = IF PreStart /\ outcome' = "fail" THEN faulted \cup {Selected(cli)[at]} ELSE faulted
  /\ UNCHANGED <<mid, heard, shown, chainVars>>

Panic == BodyPanics /\ UNCHANGED <<bodyVars, chainVars>>

Suite ==
  \/ Main
  \/ S030 \/ S049
  \/ Unwired \/ S045Sees \/ S045 \/ S046Submit \/ S046Path \/ S046 \/ Deadlines

Step == Suite \/ Panic \/ OthersBlock \/ FinalizeBlock \/ PostBatch

Spec == Init /\ [][Step]_vars

\* The suite goes on; that it panics is not to be relied on.
FairSpec == Spec /\ WF_vars(Suite)

-----------------------------------------------------------------------------
(* What a run shows.                                                       *)

TypeOK ==
  /\ RunnerTypeOK
  /\ node \in {"honest", "lying"}
  /\ blocks \in Seq(Trees) /\ Len(blocks) <= MaxBlocks
  /\ final \in 0..Len(blocks) /\ posted \in BOOLEAN
  /\ mid \in {"start", "epoch", "inserted", "proved"}
  /\ faulted \subseteq Ids

Row(id, o) == \E i \in DOMAIN results : results[i] = [id |-> id, outcome |-> o]

\* A pass of S030 is a contract's AttesterNotActive and a pass of S049 a pool's refusal,
\* whatever else the text of the answer holds; one of S045 is a batch on the L1.
PassIsEvidence ==
  /\ Row("S030", "pass") => shown["S030"] = "AttesterNotActive"
  /\ Row("S049", "pass") => shown["S049"] = "pool"
  /\ Row("S045", "pass") => posted

\* s046:4-25: a pass says that a block the committee finalized on this chain has the leaf
\* the receipt names at the place it names, whatever the node made up; s046:22-24.
IncludedMeansCommitted ==
  Row("S046", "pass") =>
    \E h \in 1..final : blocks[h][shown["S046"].leaf.place] = shown["S046"].leaf.leaf

\* bls_verify.rs:108-112: the round the certificate names is one the committee finalized.
RoundIsGenuine ==
  Row("S046", "pass") => \E h \in 1..final : Round(h) = shown["S046"].round

\* On a node that serves its own chain, with both L1 options given, a scenario fails only
\* if a read failed, a deadline passed, or what it is about was not refused as it should.
FailuresDeserved ==
  \A id \in Ids : Row(id, "fail") =>
    \/ id \in faulted
    \/ id \in NeedL1 /\ ~(cli.l1 /\ cli.inbox)
    \/ id = "S046" /\ node = "lying"
    \/ id = "S030" /\ shown[id] # "AttesterNotActive"
    \/ id = "S049" /\ shown[id] # "pool"

\* Whatever the bodies do, the runner does what it does with any: its guarantees do not
\* rest on what the scenarios are.
StaysInHarness == Harness

\* The binary returns: every poll of a body has a deadline.  The bootstrap is taken to
\* return, as on a registry that knows the primary attester; how it hangs on one that does
\* not (env.rs:404) is in AgentsFlow.
RunnerReturns == <>(phase = "exited")

\* contract_errors.rs:112-114 of is_method_not_permitted: "did the chain refuse the tx with
\* any MethodNotPermitted flavour (typed variant OR pool-rejection string)?"
RejectionIsRecognised ==
  \A reply \in AgentsReplies :
    shown["S030"] = "pool" /\ reply.cause = "pool" => is_method_not_permitted(into_pso_error(reply.err))

=============================================================================
