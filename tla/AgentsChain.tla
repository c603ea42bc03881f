----------------------------- MODULE AgentsChain -----------------------------
(***************************************************************************)
(* The agents pool and the record registries behind it, as the suite's     *)
(* attester clients see them (testsuite/src/clients/attester.rs).          *)
(*                                                                         *)
(* A client transaction goes through the two halves of alloy's `.send()`:  *)
(* a gas estimate, which runs the call against the head state and refuses  *)
(* it there, and the broadcast into the pool.  Inclusion comes later and   *)
(* runs the same guards again, on whatever the head has become.            *)
(*                                                                         *)
(* The contracts and the pool are not part of the repository: their guards *)
(* are the ones the scenarios S007 to S011, S020, S026, S030 and S033 rely  *)
(* on.                                                                     *)
(***************************************************************************)
EXTENDS Membership, FiniteSets

CONSTANTS
  Txs,        \* every transaction a client may send in a behaviour
  Records,    \* ids of spending and amendment records
  Body,       \* what each transaction carries
  NoOne       \* no attester, no transaction

\* `sound` is what can be judged from the arguments alone: a non-zero id, and
\* an atto part below one whole unit.
TxBodies == [kind : {"file", "mint"}, by : Attesters, recs : SUBSET Records, sound : BOOLEAN]

\* A "file" registers exactly one record (SR.submit, AR.submit); a "mint"
\* (SU.submit2) consumes a set of records under a spending-unit id of its own.
ASSUME ChainAssumption ==
  /\ Body \in [Txs -> TxBodies]
  /\ \A t \in Txs : Body[t].kind = "file" => \E r \in Records : Body[t].recs = {r}
  /\ NoOne \notin Txs
  /\ NoOne \notin Attesters

VARIABLES
  filedBy,  \* record -> the attester that registered it, or NoOne
  spentBy,  \* record -> the mint that consumed it, or NoOne
  txState   \* where each transaction stands

recordVars == <<filedBy, spentBy>>
chainVars == <<memberVars, recordVars, txState>>

\* "checked": the gas estimate has passed, nothing has been broadcast yet.
TxStates == {"unsent", "checked", "pool", "ok", "reverted"}

ChainTypeOK ==
  /\ MemberTypeOK
  /\ filedBy \in [Records -> Attesters \cup {NoOne}]
  /\ spentBy \in [Records -> Txs \cup {NoOne}]
  /\ txState \in [Txs -> TxStates]

\* Any records may already be registered, by any attester; none is spent.
ChainInit ==
  /\ MemberInit
  /\ filedBy \in [Records -> Attesters \cup {NoOne}]
  /\ spentBy = [r \in Records |-> NoOne]
  /\ txState = [t \in Txs |-> "unsent"]

-----------------------------------------------------------------------------
(* The contracts' guards, evaluated on the head state.                     *)

\* The records of a mint that its sender did not register, or nobody did, and
\* those another unit has consumed: the arms of InvalidSpendingRecords.
BadOwner(t) == {r \in Body[t].recs : filedBy[r] # Body[t].by}
Duplicate(t) == {r \in Body[t].recs : spentBy[r] # NoOne}

\* SR.submit / AR.submit.
FileRefusal(t) ==
  IF ~Body[t].sound THEN "InvalidTokenId"
  ELSE IF \E r \in Body[t].recs : filedBy[r] # NoOne THEN "AlreadyExists"
  ELSE "none"

\* SU.submit2.
MintRefusal(t) ==
  IF ~Body[t].sound THEN "InvalidAmount"
  ELSE IF Body[t].recs = {} THEN "NoSpendingRecords"
  ELSE IF BadOwner(t) # {} THEN "BadOwner"
  ELSE IF Duplicate(t) # {} THEN "Duplicate"
  ELSE "none"

\* Every submit path is gated by onlyActiveAttester.
Refusal(t) ==
  IF Body[t].by \notin active THEN "AttesterNotActive"
  ELSE IF Body[t].kind = "file" THEN FileRefusal(t)
  ELSE MintRefusal(t)

Accepted(t) == Refusal(t) = "none"

-----------------------------------------------------------------------------
(* The client's half.                                                      *)

\* The gas estimate of `.send()` succeeds.
Preflight(t) ==
  /\ txState[t] = "unsent"
  /\ Accepted(t)
  /\ txState' = [txState EXCEPT ![t] = "checked"]
  /\ UNCHANGED <<memberVars, recordVars>>

\* eth_sendRawTransaction: the pool admits the transaction of a member.
Broadcast(t) ==
  /\ txState[t] = "checked"
  /\ Body[t].by \in members
  /\ txState' = [txState EXCEPT ![t] = "pool"]
  /\ UNCHANGED <<memberVars, recordVars>>

\* The pool refuses it, or the request never reaches the node.
BroadcastFails(t) ==
  /\ txState[t] = "checked"
  /\ txState' = [txState EXCEPT ![t] = "unsent"]
  /\ UNCHANGED <<memberVars, recordVars>>

-----------------------------------------------------------------------------
(* The chain's half.                                                       *)

\* A block executes a pooled transaction: the guards run again.
Include(t) ==
  /\ txState[t] = "pool"
  /\ IF Accepted(t)
       THEN /\ txState' = [txState EXCEPT ![t] = "ok"]
            /\ IF Body[t].kind = "file"
                 THEN /\ filedBy' = [r \in Records |->
                                       IF r \in Body[t].recs THEN Body[t].by
                                                             ELSE filedBy[r]]
                      /\ UNCHANGED spentBy
                 ELSE /\ spentBy' = [r \in Records |->
                                       IF r \in Body[t].recs THEN t ELSE spentBy[r]]
                      /\ UNCHANGED filedBy
       ELSE /\ txState' = [txState EXCEPT ![t] = "reverted"]
            /\ UNCHANGED <<filedBy, spentBy>>
  /\ UNCHANGED memberVars

\* The registry or its snapshot moves on.
MembersChange ==
  /\ Finalize \/ \E a \in Attesters : SetActive(a)
  /\ UNCHANGED <<recordVars, txState>>

\* The units that exist on chain.
MintedTxs == {t \in Txs : Body[t].kind = "mint" /\ txState[t] = "ok"}

=============================================================================
