------------------------------ MODULE AgentsFlow ------------------------------
(***************************************************************************)
(* One run of the suite over the agents pool: the bootstrap of the primary *)
(* attester (testsuite/src/env.rs), then scripts of calls on the attester  *)
(* and admin clients.  What earlier bodies left in the pool goes on being  *)
(* included, and the pool's snapshot goes on trailing the registry.        *)
(***************************************************************************)
EXTENDS Script, AgentsChain, Registry

CONSTANTS
  Zero,  \* attester_zero
  Start  \* suite -> the attesters the registry knows when it starts

\* The steps of a script, by the client call they stand for.
Send(t) == [op |-> "send", tx |-> t]
WaitTx(t) == [op |-> "waitTx", tx |-> t]
WaitExists(rs) == [op |-> "waitExists", recs |-> rs]
Refused(t, e) == [op |-> "refused", tx |-> t, error |-> e]
NewAttester(a) == [op |-> "newAttester", who |-> a]
Call(c) == [op |-> "call", call |-> c]
CallRefused(c, e) == [op |-> "callRefused", call |-> c, error |-> e]

\* Reads of the record of `a`: once, and until `field` has the value; what is read
\* must also show an active bit in `bits`.
Check(a, f, v, bits) == [op |-> "check", who |-> a, field |-> f, value |-> v, bits |-> bits]
Poll(a, f, v, bits) == [op |-> "poll", who |-> a, field |-> f, value |-> v, bits |-> bits]

Ops == {"send", "waitTx", "waitExists", "refused", "newAttester", "call", "callRefused",
        "check", "poll"}

ASSUME FlowAssumption ==
  /\ StepsAmong(Ops)
  /\ Zero \in Attesters
  /\ Start \in [DOMAIN Suites -> {{}, {Zero}}]

Submits(s) == s.op \in {"send", "refused"}
Calls(s) == s.op \in {"call", "callRefused"}
Enrols(s, a) == s.op = "newAttester" /\ s.who = a
Revokes(s, a) == Calls(s) /\ s.call.fn = "revoke" /\ s.call.who = a
SeesRevoked(s, a) == s.op = "poll" /\ s.who = a /\ s.field = "active" /\ s.value = FALSE

\* In a suite S, `a` may count on the pool at step k of body i: the body has enrolled it,
\* and nothing before that step revokes it.
Counted(S, i, k, a) ==
  /\ \E j \in 1..(k - 1) : Enrols(S[i][j], a)
  /\ \A m \in DOMAIN S : \A l \in DOMAIN S[m] : Revokes(S[m][l], a) => m = i /\ l > k

\* It is known not to be active: it was enrolled and then seen to be revoked, or no body
\* enrols it.
Uncounted(S, i, k, a) ==
  \/ \E l \in 1..(k - 1) : \E j \in 1..(l - 1) : Enrols(S[i][j], a) /\ SeesRevoked(S[i][l], a)
  \/ \A m \in DOMAIN S : \A l \in DOMAIN S[m] : ~Enrols(S[m][l], a)

\* What a body keeps to, step by step.
KeepsTo(S, i, k) ==
  LET s == S[i][k] IN
  /\ Submits(s) \/ s.op = "waitTx" => s.tx \in Txs
  /\ s.op = "newAttester" => s.who \in Attesters \ {Zero}
  /\ Calls(s) => IsCall(s.call) /\ ~Revokes(s, Zero)
  \* Attesters are registered by new_attester alone.
  /\ Calls(s) /\ s.call.fn = "register" =>
       s.call.by # Admin \/ s.call.who = ZeroAddress \/ s.call.value.mask = 0
  \* What is sent is waited for.
  /\ s.op = "send" => \E l \in DOMAIN S[i] : l > k /\ S[i][l] = WaitTx(s.tx)
  /\ Submits(s) => LET a == Body[s.tx].by IN
                   a = Zero \/ Counted(S, i, k, a) \/ Uncounted(S, i, k, a)

\* A transaction is sent at one place, and an attester is enrolled at one.
NoPlaceTwice(S) ==
  \A i, j \in DOMAIN S : \A k \in DOMAIN S[i], l \in DOMAIN S[j] :
    /\ Submits(S[i][k]) /\ Submits(S[j][l]) /\ S[i][k].tx = S[j][l].tx => i = j /\ k = l
    /\ S[i][k].op = "newAttester" /\ Enrols(S[j][l], S[i][k].who) => i = j /\ k = l

\* Ids and keys are drawn anew by each body (random_id, roll_random_key).
ASSUME BodiesAssumption ==
  \A n \in DOMAIN Suites :
    /\ NoPlaceTwice(Suites[n])
    /\ \A i \in DOMAIN Suites[n] : \A k \in DOMAIN Suites[n][i] : KeepsTo(Suites[n], i, k)

-----------------------------------------------------------------------------
(* What the bodies of the suite may expect of a node that answers.         *)

\* The body has waited for `t` before step k.
Landed(S, i, k, t) == \E l \in 1..(k - 1) : S[i][l] = WaitTx(t)

\* The contracts know the sender.
Heard(S, i, k, a) == a = Zero \/ Counted(S, i, k, a)

\* The sender has filed each record; some record has been filed, or spent, already.
OwnRecords(S, i, k, b) ==
  \A r \in b.recs : \E t \in Txs :
    Landed(S, i, k, t) /\ Body[t].kind = "file" /\ Body[t].by = b.by /\ r \in Body[t].recs
Repeats(S, i, k, b, kind) ==
  \E t \in Txs : Landed(S, i, k, t) /\ Body[t].kind = kind /\ Body[t].recs \cap b.recs # {}

\* No body files it for `a`.
NotFor(S, r, a) ==
  \A i \in DOMAIN S : \A k \in DOMAIN S[i] : S[i][k].op = "send" =>
    LET b == Body[S[i][k].tx] IN b.kind = "file" /\ r \in b.recs => b.by # a

\* The contracts take `b`; or they refuse it, with an error of its own.
Welcome(S, i, k, b) ==
  /\ b.sound /\ Heard(S, i, k, b.by)
  /\ b.kind = "mint" => b.recs # {} /\ OwnRecords(S, i, k, b)

Unwelcome(S, i, k, b, error) ==
  \/ error = "AttesterNotActive" /\ b.by # Zero /\ Uncounted(S, i, k, b.by)
  \/ /\ Heard(S, i, k, b.by) /\ ~b.sound
     /\ error = IF b.kind = "file" THEN "InvalidTokenId" ELSE "InvalidAmount"
  \/ /\ Heard(S, i, k, b.by) /\ b.sound /\ b.kind = "file"
     /\ error = "AlreadyExists" /\ Repeats(S, i, k, b, "file")
  \/ /\ Heard(S, i, k, b.by) /\ b.sound /\ b.kind = "mint"
     /\ \/ error = "BadOwner" /\ \E r \in b.recs : NotFor(S, r, b.by)
        \/ error = "Duplicate" /\ OwnRecords(S, i, k, b) /\ Repeats(S, i, k, b, "mint")

\* Two bodies file, or spend, no record between them.
NoRecordTwice(S) ==
  \A i, j \in DOMAIN S : \A k \in DOMAIN S[i], l \in DOMAIN S[j] :
    S[i][k].op = "send" /\ S[j][l].op = "send" =>
      LET b == Body[S[i][k].tx]
          d == Body[S[j][l].tx] IN
      b.kind = d.kind /\ b.recs \cap d.recs # {} => i = j /\ k = l

\* A step that has shown a consensus key of `a`, after it was enrolled.
ShowsKey(s, a) == s.op = "poll" /\ s.who = a /\ s.field = "key" /\ s.value # NoKey
KeyKnown(S, i, k, a) ==
  \E l \in 1..(k - 1) : ShowsKey(S[i][l], a) /\ \E j \in 1..(l - 1) : Enrols(S[i][j], a)

\* The admin calls for an attester the body has enrolled and not revoked; he revokes it
\* when nothing it has sent is under way, and makes it a candidate when it has a key.
Obeyed(S, i, k, c) ==
  /\ c.by = Admin /\ c.fn # "register"
  /\ \E j \in 1..(k - 1) : Enrols(S[i][j], c.who)
  /\ \A m \in DOMAIN S : \A l \in DOMAIN S[m] : Revokes(S[m][l], c.who) => m = i /\ l >= k
  /\ c.fn = "revoke" => \A j \in 1..(k - 1) :
       S[i][j].op = "send" /\ Body[S[i][j].tx].by = c.who => Landed(S, i, k, S[i][j].tx)
  /\ c.fn = "setConsensusIdentity" => c.value # NoKey
  /\ c.fn = "setRotationCandidate" /\ c.value = TRUE => KeyKnown(S, i, k, c.who)

TurnedAway(S, c, error) ==
  \/ error = "NotAdmin" /\ c.by # Admin
  \/ error = "ZeroAddress" /\ c.by = Admin /\ c.who = ZeroAddress
  \/ /\ error = "InvalidMask" /\ c.by = Admin /\ c.who # ZeroAddress
     /\ c.fn = "register" /\ c.value.mask = 0
  \/ /\ error = "NotRegistered" /\ c.by = Admin /\ c.who \notin {ZeroAddress, Zero}
     /\ c.fn # "register"
     /\ \A m \in DOMAIN S : \A l \in DOMAIN S[m] : ~Enrols(S[m][l], c.who)

\* What is read of an attester nobody has called for since it was enrolled.
Newcomer == [active |-> TRUE, mask |-> AttesterMask, rotation |-> FALSE, key |-> NoKey]
Untouched(S, i, k, a) ==
  \A m \in DOMAIN S : \A l \in DOMAIN S[m] :
    S[m][l].op = "call" /\ S[m][l].call.who = a => m = i /\ l > k

\* What a step expects is what the steps before it lead to.
Expects(S, i, k) ==
  LET s == S[i][k] IN
  /\ s.op = "send" => Welcome(S, i, k, Body[s.tx])
  /\ s.op = "refused" => Unwelcome(S, i, k, Body[s.tx], s.error)
  /\ s.op = "call" => Obeyed(S, i, k, s.call)
  /\ s.op = "callRefused" => TurnedAway(S, s.call, s.error)
  /\ s.op = "check" => /\ Counted(S, i, k, s.who) /\ Untouched(S, i, k, s.who)
                       /\ Newcomer[s.field] = s.value /\ TRUE \in s.bits
  /\ s.op = "poll" => s.bits = BOOLEAN \/ (TRUE \in s.bits /\ Counted(S, i, k, s.who))

ASSUME ExpectationsAssumption ==
  \A n \in DOMAIN Suites :
    /\ NoRecordTwice(Suites[n])
    /\ \A i \in DOMAIN Suites[n] : \A k \in DOMAIN Suites[n][i] : Expects(Suites[n], i, k)

VARIABLE boot  \* bootstrap_register_attester

vars == <<chainVars, registryVars, scriptVars, boot>>

TypeOK ==
  /\ ChainTypeOK
  /\ RegistryTypeOK
  /\ boot \in {"start", "registering", "done", "failed"}
  /\ ScriptTypeOK
  /\ mid \in {"ready", "checked", "waitActive", "waitPool"}

\* random_id and roll_random_key are fresh: no record of the suite is
\* registered and no attester of it is, but for the primary one on a warm node.
Init ==
  /\ ScriptInit
  /\ active = Start[suite]
  /\ filedBy = [r \in Records |-> NoOne]
  /\ ChainInit
  /\ RegistryInit
  /\ boot = "start"

-----------------------------------------------------------------------------
(* bootstrap_register_attester.                                            *)

\* isActive already holds.
BootActive ==
  /\ boot = "start"
  /\ Zero \in active
  /\ boot' = "done"
  /\ UNCHANGED <<chainVars, registryVars, scriptVars>>

\* It does not: register and wait for the receipt.
BootRegister ==
  /\ boot = "start"
  /\ Zero \notin active
  /\ Post(RegisterCall(Admin, Zero, AttesterMask))
  /\ boot' = "registering"
  /\ UNCHANGED <<chainVars, details, scriptVars>>

BootReceipt ==
  /\ boot = "registering"
  /\ adminPool = <<>>
  /\ boot' = "done"
  /\ UNCHANGED <<chainVars, registryVars, scriptVars>>

\* An RPC error on the way: the run ends before any scenario.
BootFails ==
  /\ boot \in {"start", "registering"}
  /\ boot' = "failed"
  /\ UNCHANGED <<chainVars, registryVars, scriptVars>>

Running == boot = "done" /\ InBody
Doing(op) == Running /\ mid = "ready" /\ Now.op = op

-----------------------------------------------------------------------------
(* `register_spending_record`, `register_amendment_record` and             *)
(* `mint_spending_unit`, in a body that expects Ok or a typed error.       *)

Submitting == Running /\ mid = "ready" /\ Now.op \in {"send", "refused"}

\* The gas estimate passes.
Estimated ==
  /\ Submitting
  /\ Preflight(Now.tx)
  /\ Reach("checked")
  /\ UNCHANGED <<registryVars, boot, faulted>>

\* The gas estimate is refused: what a "refused" step waits for, if the typed
\* error is the one it names.
EstimateRefused ==
  /\ Submitting
  /\ Refusal(Now.tx) # "none"
  /\ IF Now.op = "refused" /\ Now.error = Refusal(Now.tx) THEN Advance ELSE Fail
  /\ UNCHANGED <<chainVars, registryVars, boot, faulted>>

\* The pool admits it: what a "send" step waits for.
Admitted ==
  /\ Running /\ mid = "checked"
  /\ Broadcast(Now.tx)
  /\ IF Now.op = "send" THEN Advance ELSE Fail
  /\ UNCHANGED <<registryVars, boot, faulted>>

\* No lane claims it: an Err either way, and no typed one.
Unclaimed ==
  /\ Running /\ mid = "checked"
  /\ Body[Now.tx].by \notin members
  /\ BroadcastFails(Now.tx)
  /\ Fail
  /\ UNCHANGED <<registryVars, boot, faulted>>

\* The RPC fails before the node has the transaction, or after.
SubmitFault ==
  /\ Running
  /\ \/ Submitting /\ UNCHANGED chainVars
     \/ mid = "checked" /\ BroadcastFails(Now.tx)
     \/ mid = "checked" /\ Broadcast(Now.tx)
  /\ Fault
  /\ UNCHANGED <<registryVars, boot>>

-----------------------------------------------------------------------------
(* The polling helpers of the attester client.                             *)

\* Mutant of Receipt: no receipt yet is taken for a good one.
ReceiptOrNone ==
  /\ Doing("waitTx")
  /\ IF txState[Now.tx] # "reverted" THEN Advance ELSE Fail
  /\ UNCHANGED <<chainVars, registryVars, boot, faulted>>

\* wait_for_tx_success: a receipt, good or bad.
Receipt ==
  /\ Doing("waitTx")
  /\ txState[Now.tx] \in {"ok", "reverted"}
  /\ IF txState[Now.tx] = "ok" THEN Advance ELSE Fail
  /\ UNCHANGED <<chainVars, registryVars, boot, faulted>>

\* wait_for_sr_existence.
RecordsExist ==
  /\ Doing("waitExists")
  /\ \A r \in Now.recs : filedBy[r] # NoOne
  /\ Advance
  /\ UNCHANGED <<chainVars, registryVars, boot, faulted>>

\* Mutant of WaitFault: a poll without a deadline.
WaitNeverFaults == FALSE /\ UNCHANGED vars

\* An expired deadline, or a failed read.
WaitFault ==
  /\ Running /\ mid = "ready" /\ Now.op \in {"waitTx", "waitExists", "check", "poll"}
  /\ Fault
  /\ UNCHANGED <<chainVars, registryVars, boot>>

-----------------------------------------------------------------------------
(* TestEnv::new_attester.                                                   *)

\* The registration, as register_attester sends it.
Register ==
  /\ Doing("newAttester")
  /\ LET c == RegisterCall(Admin, Now.who, AttesterMask) IN
       IF CallRefusal(c) = "none" THEN Post(c) /\ Reach("waitActive")
                                  ELSE Fail /\ UNCHANGED adminPool
  /\ UNCHANGED <<chainVars, details, boot, faulted>>

\* Mutant of SeenActive: new_attester returns once isActive holds.
SeenActiveIsEnough ==
  /\ Running /\ mid = "waitActive"
  /\ Now.who \in active
  /\ Advance
  /\ UNCHANGED <<chainVars, registryVars, boot, faulted>>

\* wait_for_active.
SeenActive ==
  /\ Running /\ mid = "waitActive"
  /\ Now.who \in active
  /\ Reach("waitPool")
  /\ UNCHANGED <<chainVars, registryVars, boot, faulted>>

\* wait_for_pool_visibility.
SeenInPool ==
  /\ Running /\ mid = "waitPool"
  /\ Now.who \in members
  /\ Advance
  /\ UNCHANGED <<chainVars, registryVars, boot, faulted>>

\* The registration request fails, on its way or on the way back; or one of the
\* two deadlines expires.
RegisterFault ==
  /\ \/ Doing("newAttester") /\ UNCHANGED adminPool
     \/ Doing("newAttester") /\ Post(RegisterCall(Admin, Now.who, AttesterMask))
     \/ Running /\ mid \in {"waitActive", "waitPool"} /\ UNCHANGED adminPool
  /\ Fault
  /\ UNCHANGED <<chainVars, details, boot>>

-----------------------------------------------------------------------------
(* The other calls of the admin client, and reads of the registry.         *)

\* A call that must be accepted returns once it is broadcast.
CallSent ==
  /\ Doing("call")
  /\ IF CallRefusal(Now.call) = "none" THEN Post(Now.call) /\ Advance
                                        ELSE Fail /\ UNCHANGED adminPool
  /\ UNCHANGED <<chainVars, details, boot, faulted>>

\* A call that must be refused, with a typed error.
CallTurnedDown ==
  /\ Doing("callRefused")
  /\ IF CallRefusal(Now.call) = "none" THEN Post(Now.call) /\ Fail
       ELSE /\ UNCHANGED adminPool
            /\ IF CallRefusal(Now.call) = Now.error THEN Advance ELSE Fail
  /\ UNCHANGED <<chainVars, details, boot, faulted>>

\* Its request fails, on its way or on the way back.
CallFault ==
  /\ \/ Doing("call") /\ CallRefusal(Now.call) = "none" /\ Post(Now.call)
     \/ (Doing("call") \/ Doing("callRefused")) /\ UNCHANGED adminPool
  /\ Fault
  /\ UNCHANGED <<chainVars, details, boot>>

\* One read, judged as it is.
Checked ==
  /\ Doing("check")
  /\ IF View(Now.who)[Now.field] = Now.value /\ View(Now.who).active \in Now.bits
       THEN Advance ELSE Fail
  /\ UNCHANGED <<chainVars, registryVars, boot, faulted>>

\* Mutant of Polled: the first read is taken for the one it waits for.
PolledOnce ==
  /\ Doing("poll")
  /\ IF View(Now.who).active \in Now.bits THEN Advance ELSE Fail
  /\ UNCHANGED <<chainVars, registryVars, boot, faulted>>

\* The read a poll waits for.
Polled ==
  /\ Doing("poll")
  /\ View(Now.who)[Now.field] = Now.value
  /\ IF View(Now.who).active \in Now.bits THEN Advance ELSE Fail
  /\ UNCHANGED <<chainVars, registryVars, boot, faulted>>

-----------------------------------------------------------------------------
(* The chain.                                                              *)

RegistryBlock ==
  /\ AdminInclude
  /\ UNCHANGED <<recordVars, txState, scriptVars, boot>>

Block ==
  /\ \E t \in Txs : Include(t)
  /\ UNCHANGED <<registryVars, scriptVars, boot>>

Finalized ==
  /\ Finalize
  /\ UNCHANGED <<recordVars, txState, registryVars, scriptVars, boot>>

-----------------------------------------------------------------------------
BootStep == BootActive \/ BootRegister \/ BootReceipt \/ BootFails

BodyStep ==
  \/ Estimated \/ EstimateRefused \/ Admitted \/ Unclaimed \/ SubmitFault
  \/ Receipt \/ RecordsExist \/ WaitFault
  \/ Register \/ SeenActive \/ SeenInPool \/ RegisterFault
  \/ CallSent \/ CallTurnedDown \/ CallFault \/ Checked \/ Polled

ChainStep == Block \/ RegistryBlock \/ Finalized

Next == BootStep \/ BodyStep \/ ChainStep

Spec == Init /\ [][Next]_vars

\* The suite is one task that is always polled, and every wait of a body has a deadline.
\* The bootstrap's has none: it goes on when there is a receipt, and nobody owes it an
\* error.  The chain owes nothing.
FairSpec ==
  /\ Spec
  /\ WF_vars(BootActive \/ BootRegister \/ BootReceipt)
  /\ WF_vars(BodyStep)

-----------------------------------------------------------------------------
(* Properties.                                                             *)

\* A scenario fails only when something went wrong in that scenario: neither the
\* timing of blocks and of the snapshot, nor what earlier scenarios left in the
\* pool, can fail a body whose calls were all answered in time.  (On a registry that
\* had to be told of the primary attester its first transactions may be unclaimed.)
VerdictsAreDeserved ==
  Start[suite] # {} => \A i \in Scenarios : verdict[i] = "fail" => i \in faulted

\* A scenario that passed has seen what it reports: what it sent is on chain, and
\* what had to be refused never got there, now or later.
PassIsEvidence ==
  \A i \in Scenarios : verdict[i] = "pass" =>
    \A k \in 1..Len(Suite[i]) :
      /\ Suite[i][k].op = "send" => txState[Suite[i][k].tx] = "ok"
      /\ Suite[i][k].op = "refused" => txState[Suite[i][k].tx] = "unsent"

\* No transaction the contracts accept is refused by the pool for its sender
\* (env.rs:184-191: the first transaction of a new attester must not be unclaimed).
NoUnclaimedTx ==
  \A t \in Txs : txState[t] = "checked" =>
    Body[t].by \in members \/ (Body[t].by = Zero /\ Start[suite] = {})

\* Only the bootstrap can wait for ever, for the receipt of the registration it has sent
\* (env.rs:404); otherwise the suite comes to an end, even on a chain that stops, as each
\* poll of a body has a deadline of its own.  On such a chain each scenario needs a fault,
\* so a suite longer than the bound may use the bound up.
SuiteTerminates ==
  \/ <>(boot = "failed" \/ Ended \/ (Len(Suite) > MaxFaults /\ Cardinality(faulted) = MaxFaults))
  \/ <>[](boot = "registering" /\ adminPool # <<>>)

\* env.rs:115-117: after the bootstrap every submit path accepts attester_zero
\* from tick zero.
AcceptedFromTickZero == boot = "done" => Zero \in members

=============================================================================
