----------------------------- MODULE AgentsProofs -----------------------------
(***************************************************************************)
(* What a run of the suite over the agents pool shows, for every sequence  *)
(* of bodies that keep to BodiesAssumption and ExpectationsAssumption,     *)
(* every set of attesters, records and transactions, every lag of the      *)
(* snapshot and any number of faults.                                      *)
(***************************************************************************)
EXTENDS AgentsScenarios, TLAPS

-----------------------------------------------------------------------------
(* The inductive invariant, in named parts.                                *)

\* Steps of the body that runs, done; and steps the suite has not begun.
Done(i, k) == i = at /\ k < step
Ahead(i, k) == i > at \/ (i = at /\ (k > step \/ (k = step /\ mid = "ready")))

\* What the place inside a step says of the step.
MidInv ==
  /\ mid = "checked" => InBody /\ Submits(Now) /\ txState[Now.tx] = "checked"
  /\ mid \in {"waitActive", "waitPool"} => InBody /\ Now.op = "newAttester"
  /\ \A i \in Scenarios : i >= at => verdict[i] = "todo"

\* Where the transaction of a step stands, before the step and after it.
TxInv ==
  /\ \A t \in Txs : txState[t] = "checked" => mid = "checked" /\ Now.tx = t
  /\ \A i \in Scenarios : \A k \in 1..Len(Suite[i]) :
       /\ Ahead(i, k) /\ Submits(Suite[i][k]) => txState[Suite[i][k].tx] = "unsent"
       /\ Done(i, k) \/ (i < at /\ verdict[i] = "pass") =>
            /\ Suite[i][k].op = "refused" => txState[Suite[i][k].tx] = "unsent"
            /\ Suite[i][k].op = "waitTx" => txState[Suite[i][k].tx] = "ok"

\* A call of the admin that no block has executed.
Pending(p, fn, a) == p \in 1..Len(adminPool) /\ adminPool[p].fn = fn /\ adminPool[p].who = a
NonePending(fn, a) == \A p : ~Pending(p, fn, a)

\* No body has begun to enrol it; the body that runs has enrolled it, or has seen its
\* revocation after that; no body has revoked it yet.
Unenrolled(a) ==
  \A i \in Scenarios : \A k \in 1..Len(Suite[i]) : Enrols(Suite[i][k], a) => Ahead(i, k)
Enrolled(a) == InBody /\ \E k \in 1..(step - 1) : Enrols(Suite[at][k], a)
SeenGone(a) ==
  InBody /\ \E l \in 1..(step - 1) : /\ SeesRevoked(Suite[at][l], a)
                                     /\ \E k \in 1..(l - 1) : Enrols(Suite[at][k], a)
Unrevoked(a) ==
  \A i \in Scenarios : \A k \in 1..Len(Suite[i]) :
    Revokes(Suite[i][k], a) => i > at \/ (i = at /\ k >= step)

\* An attester is registered once, by the body that enrols it.
RegisterInv(a) ==
  /\ Unenrolled(a) => a \notin active /\ NonePending("register", a)
  /\ a \in active => NonePending("register", a)
  /\ \A p, q : Pending(p, "register", a) /\ Pending(q, "register", a) => p = q
  /\ Enrolled(a) => NonePending("register", a)
  /\ mid = "waitPool" /\ Now.who = a => NonePending("register", a)
  /\ SeenGone(a) => a \notin active

\* Until it is revoked, it is in every state of the registry from one on.
StaysIn(a) ==
  /\ a \in members => a \in active /\ \A p \in 1..Len(backlog) : a \in backlog[p]
  /\ \A p \in 1..Len(backlog) : a \in backlog[p] =>
       a \in active /\ \A q \in 1..Len(backlog) : p < q => a \in backlog[q]

RevokeInv(a) == Unrevoked(a) => NonePending("revoke", a) /\ StaysIn(a)

\* The pool knows whom a body may count on.
MemberInv ==
  /\ Start[suite] # {} => Zero \in members
  /\ \A a \in Attesters \ {Zero} : Enrolled(a) /\ Unrevoked(a) => a \in members

\* What passes its gas estimate is of such an attester.
SenderInv ==
  mid = "checked" =>
    LET a == Body[Now.tx].by IN a = Zero \/ Counted(Suite, at, step, a)

\* The calls of the admin are a sequence.
PoolSeq == \E S : adminPool \in Seq(S)

IInv ==
  /\ TypeOK /\ PoolSeq
  /\ MidInv
  /\ TxInv
  /\ \A a \in Attesters \ {Zero} : RegisterInv(a)
  /\ \A a \in Attesters : RevokeInv(a)
  /\ MemberInv
  /\ SenderInv

-----------------------------------------------------------------------------
(* What a step does, as far as the invariant can tell.                     *)

Still == UNCHANGED <<memberVars, adminPool, txState, scriptVars>>

\* A step of a body is over, and nothing is sent by it.
Judged ==
  /\ InBody /\ mid # "checked"
  /\ UNCHANGED <<memberVars, adminPool, txState>>
  /\ \/ Fail
     \/ /\ Advance
        /\ Now.op = "refused" => mid = "ready"
        /\ Now.op = "waitTx" => txState[Now.tx] = "ok"
        /\ Now.op = "newAttester" => mid = "waitPool" /\ Now.who \in members
        /\ \A a : SeesRevoked(Now, a) => a \notin active

Waits ==
  /\ InBody /\ mid = "waitActive" /\ Now.who \in active
  /\ Reach("waitPool")
  /\ UNCHANGED <<memberVars, adminPool, txState>>

\* The admin client posts a call: of the bootstrap, of new_attester, of a body.
BootPosts ==
  /\ Post(RegisterCall(Admin, Zero, AttesterMask))
  /\ UNCHANGED <<memberVars, txState, scriptVars>>

EnrolPosts ==
  /\ InBody /\ mid = "ready" /\ Now.op = "newAttester"
  /\ Post(RegisterCall(Admin, Now.who, AttesterMask))
  /\ Reach("waitActive") \/ Fail
  /\ UNCHANGED <<memberVars, txState>>

BodyPosts ==
  /\ InBody /\ mid = "ready" /\ Calls(Now) /\ CallRefusal(Now.call) = "none"
  /\ Post(Now.call)
  /\ Advance \/ Fail
  /\ UNCHANGED <<memberVars, txState>>

\* The attester client passes a gas estimate, and what comes of the broadcast.
Estimates ==
  /\ InBody /\ mid = "ready" /\ Submits(Now)
  /\ txState[Now.tx] = "unsent" /\ Accepted(Now.tx)
  /\ txState' = [txState EXCEPT ![Now.tx] = "checked"]
  /\ Reach("checked")
  /\ UNCHANGED <<memberVars, adminPool>>

Answered ==
  /\ InBody /\ mid = "checked"
  /\ \E x \in {"pool", "unsent"} : txState' = [txState EXCEPT ![Now.tx] = x]
  /\ Fail \/ (Advance /\ Now.op = "send")
  /\ UNCHANGED <<memberVars, adminPool>>

\* The chain.
Mines ==
  /\ \E t \in Txs : /\ txState[t] = "pool"
                    /\ \E x \in {"ok", "reverted"} : txState' = [txState EXCEPT ![t] = x]
  /\ UNCHANGED <<memberVars, adminPool, scriptVars>>

Finalizes == Finalize /\ UNCHANGED <<adminPool, txState, scriptVars>>

Executes == AdminInclude /\ UNCHANGED <<txState, scriptVars>>

ClientEffect ==
  \/ Still \/ Judged \/ Waits \/ BootPosts \/ EnrolPosts \/ BodyPosts
  \/ Estimates \/ Answered \/ Finalizes
Effect == ClientEffect \/ Mines \/ Executes

\* Each action has one of these effects, and the records are those of the blocks.
LEMMA EffectsOf ==
  ASSUME MidInv, [Next]_vars
  PROVE  \/ Block /\ Mines
         \/ RegistryBlock /\ Executes
         \/ ClientEffect /\ UNCHANGED <<recordVars, details>>
<1> USE DEF ClientEffect, chainVars, memberVars, recordVars, registryVars, scriptVars, Running, Doing
<1>1. CASE BootStep
  BY <1>1 DEF BootStep, BootActive, BootRegister, BootReceipt, BootFails, Still, BootPosts
<1>2. CASE Estimated
  BY <1>2 DEF Estimated, Submitting, Preflight, Estimates, Submits, Reach
<1>3. CASE EstimateRefused
  BY <1>3 DEF EstimateRefused, Submitting, Judged, SeesRevoked
<1>4. CASE Admitted
  BY <1>4 DEF Admitted, Broadcast, Answered
<1>5. CASE Unclaimed
  BY <1>5 DEF Unclaimed, BroadcastFails, Answered
<1>6. CASE SubmitFault
  <2>1. CASE Submitting /\ UNCHANGED chainVars
    BY <1>6, <2>1 DEF SubmitFault, Submitting, Judged, Fault
  <2>2. CASE mid = "checked" /\ (BroadcastFails(Now.tx) \/ Broadcast(Now.tx))
    BY <1>6, <2>2 DEF SubmitFault, BroadcastFails, Broadcast, Answered, Fault
  <2> QED
    BY <1>6, <2>1, <2>2 DEF SubmitFault
<1>7. CASE Receipt
  BY <1>7 DEF Receipt, Judged, SeesRevoked
<1>8. CASE RecordsExist
  BY <1>8 DEF RecordsExist, Judged, SeesRevoked
<1>9. CASE WaitFault
  BY <1>9 DEF WaitFault, Judged, Fault
<1>10. CASE Register
  BY <1>10 DEF Register, Judged, EnrolPosts
<1>11. CASE SeenActive
  BY <1>11 DEF SeenActive, Waits
<1>12. CASE SeenInPool
  BY <1>12 DEF SeenInPool, Judged, SeesRevoked, MidInv
<1>13. CASE RegisterFault
  BY <1>13 DEF RegisterFault, Judged, EnrolPosts, Fault
<1>14. CASE CallSent
  BY <1>14 DEF CallSent, Judged, BodyPosts, Calls
<1>15. CASE CallTurnedDown
  BY <1>15 DEF CallTurnedDown, Judged, BodyPosts, Calls, SeesRevoked
<1>16. CASE CallFault
  BY <1>16 DEF CallFault, Judged, BodyPosts, Calls, Fault
<1>17. CASE Checked
  BY <1>17 DEF Checked, Judged, SeesRevoked
<1>18. CASE Polled
  <2>1. \A a : SeesRevoked(Now, a) => a \notin active
    <3>1. SUFFICES ASSUME NEW a, SeesRevoked(Now, a), a \in active PROVE FALSE
      OBVIOUS
    <3>2. View(a)["active"] = FALSE
      BY <1>18, <3>1 DEF Polled, SeesRevoked
    <3> QED
      BY <3>1, <3>2 DEF View
  <2> QED
    BY <1>18, <2>1 DEF Polled, Judged
<1>19. CASE Block
  <2>1. PICK t \in Txs : Include(t)
    BY <1>19 DEF Block
  <2> QED
    BY <1>19, <2>1 DEF Block, Include, Mines
<1>20. CASE RegistryBlock
  BY <1>20 DEF RegistryBlock, Executes
<1>21. CASE Finalized
  BY <1>21 DEF Finalized, Finalizes
<1>22. CASE UNCHANGED vars
  BY <1>22 DEF vars, Still
<1> QED
  BY <1>1, <1>2, <1>3, <1>4, <1>5, <1>6, <1>7, <1>8, <1>9, <1>10, <1>11, <1>12, <1>13, <1>14,
     <1>15, <1>16, <1>17, <1>18, <1>19, <1>20, <1>21, <1>22 DEF Next, BodyStep, ChainStep

LEMMA ActionEffects == MidInv /\ [Next]_vars => Effect
  BY EffectsOf DEF Effect

-----------------------------------------------------------------------------
(* Places of a suite.                                                      *)

\* The suite is chosen once; its bodies and their steps are numbered.
SuiteIs == suite \in DOMAIN Suites

LEMMA SuiteShape ==
  ASSUME SuiteIs
  PROVE  /\ Len(Suite) \in Nat /\ DOMAIN Suite = 1..Len(Suite)
         /\ \A i \in Scenarios : /\ Len(Suite[i]) \in Nat \ {0}
                                 /\ DOMAIN Suite[i] = 1..Len(Suite[i])
         /\ NoPlaceTwice(Suite)
         /\ \A i \in Scenarios : \A k \in 1..Len(Suite[i]) : KeepsTo(Suite, i, k)
  BY SuiteAssumption, BodiesAssumption DEF SuiteIs, Suite, Scenarios, IsSequence

\* What the end of a step, or of a body, does to the places.
LEMMA StepEnds ==
  ASSUME ScriptTypeOK, InBody, Advance \/ Fail, \A i \in Scenarios : i >= at => verdict[i] = "todo"
  PROVE  /\ SuiteIs' /\ suite' = suite /\ at' \in 1..(Len(Suite) + 1) /\ step' \in Nat \ {0} /\ mid' = "ready"
         /\ at' \in Scenarios => step' \in 1..Len(Suite[at'])
         /\ verdict' \in [Scenarios -> {"todo", "pass", "fail"}]
         /\ \A i \in Scenarios : i >= at' => verdict'[i] = "todo"
         /\ \A i \in Scenarios : \A k \in 1..Len(Suite[i]) :
              /\ Ahead(i, k)' => Ahead(i, k) /\ ~(i = at /\ k = step)
              /\ Done(i, k)' => Done(i, k) \/ (i = at /\ k = step /\ Advance /\ at' = at /\ step' = step + 1)
              /\ i < at' /\ verdict'[i] = "pass" =>
                   \/ i < at /\ verdict[i] = "pass"
                   \/ Done(i, k)
                   \/ i = at /\ k = step /\ Advance
<1> USE SuiteShape DEF ScriptTypeOK, SuiteIs, InBody, Scenarios, Suite
<1>1. CASE at' = at
  <2>1. step < Len(Suite[at]) /\ mid' = "ready" /\ step' = step + 1 /\ UNCHANGED <<suite, at, verdict>> /\ Advance
    BY <1>1 DEF Advance, Pass, Fail, End
  <2> QED
    BY <2>1 DEF Ahead, Done
<1>2. CASE at' # at
  <2>1. PICK o \in {"pass", "fail"} : End(o) /\ (o = "pass" => Advance /\ ~(step < Len(Suite[at])))
    BY <1>2 DEF Advance, Pass, Fail
  <2>2. mid' = "ready" /\ step' = 1 /\ at' = at + 1 /\ verdict' = [verdict EXCEPT ![at] = o] /\ suite' = suite
    BY <2>1 DEF End
  <2> QED
    BY <2>1, <2>2 DEF Ahead, Done
<1> QED
  BY <1>1, <1>2

-----------------------------------------------------------------------------
(* The calls of the admin.                                                 *)

\* A call posted is the last one.
LEMMA PostAdds ==
  ASSUME PoolSeq, NEW c, Post(c)
  PROVE  /\ PoolSeq'
         /\ Len(adminPool') = Len(adminPool) + 1 /\ Len(adminPool) \in Nat
         /\ \A p \in 1..Len(adminPool) : adminPool'[p] = adminPool[p]
         /\ adminPool'[Len(adminPool) + 1] = c
         /\ \A p, fn, a : Pending(p, fn, a)' =>
              Pending(p, fn, a) \/ (p = Len(adminPool) + 1 /\ c.fn = fn /\ c.who = a)
<1>1. PICK S : adminPool \in Seq(S)
  BY DEF PoolSeq
<1>2. adminPool \in Seq(S \cup {c}) /\ adminPool' = Append(adminPool, c)
  BY <1>1 DEF Post
<1>3. adminPool' \in Seq(S \cup {c}) /\ Len(adminPool') = Len(adminPool) + 1 /\ Len(adminPool) \in Nat
      /\ (\A p \in 1..Len(adminPool) : adminPool'[p] = adminPool[p])
      /\ adminPool'[Len(adminPool) + 1] = c
  BY <1>2
<1> QED
  BY <1>3 DEF PoolSeq, Pending

\* The first of them is executed, the others move up.
LEMMA TakeFirst ==
  ASSUME PoolSeq, adminPool # <<>>, adminPool' = Tail(adminPool)
  PROVE  /\ PoolSeq'
         /\ Len(adminPool) \in Nat \ {0} /\ Len(adminPool') = Len(adminPool) - 1
         /\ Head(adminPool) = adminPool[1]
         /\ \A p \in 1..Len(adminPool') : adminPool'[p] = adminPool[p + 1]
         /\ \A p, fn, a : Pending(p, fn, a)' => Pending(p + 1, fn, a) /\ p \in Nat /\ p # 0
<1>1. PICK S : adminPool \in Seq(S)
  BY DEF PoolSeq
<1>2. adminPool' \in Seq(S) /\ Len(adminPool') = Len(adminPool) - 1 /\ Len(adminPool) \in Nat \ {0}
      /\ Head(adminPool) = adminPool[1]
      /\ \A p \in 1..Len(adminPool') : adminPool'[p] = adminPool[p + 1]
  BY <1>1
<1> QED
  BY <1>2 DEF PoolSeq, Pending

LEMMA PoolSeqStep ==
  ASSUME PoolSeq, Effect
  PROVE  PoolSeq'
<1>1. CASE \E c : Post(c)
  BY <1>1, PostAdds
<1>2. CASE Executes
  BY <1>2, TakeFirst DEF Executes, AdminInclude
<1>3. CASE UNCHANGED adminPool
  BY <1>3 DEF PoolSeq
<1> QED
  BY <1>1, <1>2, <1>3 DEF Effect, ClientEffect, Still, Judged, Waits, BootPosts, EnrolPosts, BodyPosts, Estimates,
     Answered, Mines, Finalizes

\* What the admin client posts is a call, and it registers nobody unless a body or the
\* bootstrap enrols him.
LEMMA PostedCalls ==
  ASSUME TypeOK, MidInv
  PROVE  /\ IsCall(RegisterCall(Admin, Zero, AttesterMask))
         /\ EnrolPosts => IsCall(RegisterCall(Admin, Now.who, AttesterMask)) /\ Now.who \in Attesters \ {Zero}
         /\ BodyPosts => IsCall(Now.call) /\ Now.call.fn # "register"
                         /\ (Now.call.fn = "revoke" => Now.call.who # Zero)
<1>1. ASSUME NEW a \in Attesters PROVE IsCall(RegisterCall(Admin, a, AttesterMask))
  BY <1>1, RegistryAssumption DEF IsCall, RegisterCall, AttesterMask, Blank, Values, Details, Addresses
<1>2. InBody => KeepsTo(Suite, at, step)
  BY SuiteShape DEF TypeOK, ScriptTypeOK, SuiteIs, InBody
<1>3. ASSUME EnrolPosts PROVE Now.who \in Attesters \ {Zero}
  BY <1>2, <1>3 DEF EnrolPosts, KeepsTo, Now
<1>4. ASSUME BodyPosts PROVE IsCall(Now.call) /\ Now.call.fn # "register"
                             /\ (Now.call.fn = "revoke" => Now.call.who # Zero)
  <2>1. Calls(Now) /\ CallRefusal(Now.call) = "none" /\ KeepsTo(Suite, at, step)
    BY <1>2, <1>4 DEF BodyPosts
  <2>2. IsCall(Now.call) /\ ~Revokes(Now, Zero)
        /\ (Now.call.fn = "register" => Now.call.by # Admin \/ Now.call.who = ZeroAddress \/ Now.call.value.mask = 0)
    BY <2>1 DEF KeepsTo, Now
  <2>3. Now.call.fn # "register"
    BY <2>1, <2>2 DEF CallRefusal
  <2> QED
    BY <2>1, <2>2, <2>3 DEF Revokes
<1> QED
  BY <1>1, <1>3, <1>4, FlowAssumption

-----------------------------------------------------------------------------
(* Type correctness.                                                       *)

\* The places keep their types.
LEMMA ScriptTypeStep ==
  ASSUME TypeOK, MidInv, Effect, faulted' \subseteq Scenarios
  PROVE  /\ ScriptTypeOK' /\ suite' = suite
         /\ mid' \in {"ready", "checked", "waitActive", "waitPool"}
<1>1. CASE InBody /\ (Advance \/ Fail)
  BY <1>1, StepEnds DEF TypeOK, ScriptTypeOK, MidInv, SuiteIs, Suite, Scenarios
<1>2. CASE UNCHANGED <<suite, at, step, verdict>>
           /\ (UNCHANGED mid \/ mid' \in {"checked", "waitActive", "waitPool"})
  BY <1>2 DEF TypeOK, ScriptTypeOK, Suite, Scenarios
<1> QED
  BY <1>1, <1>2 DEF Effect, ClientEffect, Still, Judged, Waits, BootPosts, EnrolPosts, BodyPosts, Estimates,
     Answered, Mines, Finalizes, Executes, scriptVars, Reach

\* Only the scenario that runs is hit by a fault.
LEMMA FaultedStep ==
  ASSUME TypeOK, [Next]_vars
  PROVE  faulted' \subseteq Scenarios
<1>1. UNCHANGED faulted \/ (InBody /\ Faulty)
  BY DEF Next, BootStep, BootActive, BootRegister, BootReceipt, BootFails, BodyStep, Estimated,
     EstimateRefused, Admitted, Unclaimed, SubmitFault, Receipt, RecordsExist, WaitFault, Register,
     SeenActive, SeenInPool, RegisterFault, CallSent, CallTurnedDown, CallFault, Checked, Polled,
     ChainStep, Block, RegistryBlock, Finalized, vars, scriptVars, Running, Doing, Submitting, Fault
<1> QED
  BY <1>1 DEF TypeOK, ScriptTypeOK, Faulty, InBody

\* A block writes what a call asks for, of an attester.
LEMMA ExecutedCall ==
  ASSUME TypeOK, PoolSeq, AdminInclude
  PROVE  MemberTypeOK' /\ details' \in [Attesters -> Details]
<1> DEFINE c == Head(adminPool)
<1>1. c = adminPool[1] /\ 1 \in 1..Len(adminPool)
  BY TakeFirst DEF AdminInclude
<1>2. IsCall(c)
  BY <1>1 DEF TypeOK, RegistryTypeOK
<1>3. CASE CallRefusal(c) # "none"
  BY <1>3 DEF AdminInclude, memberVars, TypeOK, ChainTypeOK, RegistryTypeOK, MemberTypeOK
<1>4. CASE CallRefusal(c) = "none"
  <2>1. c.who # ZeroAddress
    BY <1>4 DEF CallRefusal
  <2>2. c.who \in Attesters
    BY <1>2, <2>1 DEF IsCall, Addresses
  <2>3. Written(c) \in Details
    <3>1. details[c.who] \in Details
      BY <2>2 DEF TypeOK, RegistryTypeOK
    <3>2. CASE c.fn = "register"
      BY <1>2, <3>2 DEF IsCall, Values, Written
    <3>3. CASE c.fn = "updateMask"
      <4>1. c.value \in Nat
        BY <1>2, <3>3 DEF IsCall, Values
      <4> QED
        BY <3>1, <3>3, <4>1 DEF Written, Details
    <3>4. CASE c.fn = "setRotationCandidate"
      <4>1. c.value \in BOOLEAN
        BY <1>2, <3>4 DEF IsCall, Values
      <4>2. Written(c) = [details[c.who] EXCEPT !.rotation = c.value]
        BY <3>4 DEF Written
      <4> QED
        BY <3>1, <4>1, <4>2, Zenon DEF Details
    <3>5. CASE c.fn = "setConsensusIdentity"
      <4>1. c.value \in Keys
        BY <1>2, <3>5 DEF IsCall, Values
      <4> QED
        BY <3>1, <3>5, <4>1 DEF Written, Details
    <3>6. CASE c.fn \notin {"register", "updateMask", "setRotationCandidate", "setConsensusIdentity"}
      BY <3>1, <3>6 DEF Written
    <3> QED
      BY <3>2, <3>3, <3>4, <3>5, <3>6
  <2>4. details' \in [Attesters -> Details]
    BY <1>4, <2>2, <2>3 DEF AdminInclude, TypeOK, RegistryTypeOK
  <2>5. UNCHANGED memberVars \/ \E s \in SUBSET Attesters : HeadBecomes(s)
    <3>1. active \cup {c.who} \in SUBSET Attesters /\ active \ {c.who} \in SUBSET Attesters
      BY <2>2 DEF TypeOK, ChainTypeOK, MemberTypeOK
    <3> QED
      BY <1>4, <3>1 DEF AdminInclude
  <2>6. MemberTypeOK'
    BY <2>5 DEF TypeOK, ChainTypeOK, MemberTypeOK, memberVars, HeadBecomes
  <2> QED
    BY <2>4, <2>6
<1> QED
  BY <1>3, <1>4

LEMMA MembersStep ==
  ASSUME TypeOK, PoolSeq, Effect
  PROVE  MemberTypeOK'
<1>1. CASE UNCHANGED memberVars
  BY <1>1 DEF memberVars, TypeOK, ChainTypeOK, MemberTypeOK
<1>2. CASE Finalizes
  <2>1. backlog \in Seq(SUBSET Attesters) /\ backlog # <<>>
    BY <1>2 DEF Finalizes, Finalize, TypeOK, ChainTypeOK, MemberTypeOK
  <2>2. Head(backlog) \in SUBSET Attesters /\ Tail(backlog) \in Seq(SUBSET Attesters)
    BY <2>1
  <2> QED
    BY <1>2, <2>2 DEF Finalizes, Finalize, TypeOK, ChainTypeOK, MemberTypeOK
<1>3. CASE Executes
  BY <1>3, ExecutedCall DEF Executes
<1> QED
  BY <1>1, <1>2, <1>3 DEF Effect, ClientEffect, Still, Judged, Waits, BootPosts, EnrolPosts, BodyPosts, Estimates,
     Answered, Mines

LEMMA RecordsStep ==
  ASSUME TypeOK, [Next]_vars
  PROVE  /\ filedBy' \in [Records -> Attesters \cup {NoOne}]
         /\ spentBy' \in [Records -> Txs \cup {NoOne}]
<1>1. CASE Block
  <2>1. PICK t \in Txs : Include(t)
    BY <1>1 DEF Block
  <2>2. Body[t].by \in Attesters
    BY ChainAssumption DEF TxBodies
  <2> QED
    BY <2>1, <2>2 DEF Include, TypeOK, ChainTypeOK
<1>2. CASE UNCHANGED recordVars
  BY <1>2 DEF recordVars, TypeOK, ChainTypeOK
<1>3. Block \/ UNCHANGED recordVars
  BY DEF Next, BootStep, BootActive, BootRegister, BootReceipt, BootFails, BodyStep, Estimated,
     EstimateRefused, Admitted, Unclaimed, SubmitFault, Receipt, RecordsExist, WaitFault, Register,
     SeenActive, SeenInPool, RegisterFault, CallSent, CallTurnedDown, CallFault, Checked, Polled,
     ChainStep, RegistryBlock, Finalized, vars, chainVars, recordVars, Preflight, Broadcast, BroadcastFails
<1> QED
  BY <1>1, <1>2, <1>3

LEMMA TxStatesStep ==
  ASSUME TypeOK, MidInv, Effect
  PROVE  txState' \in [Txs -> TxStates]
  BY DEF Effect, ClientEffect, Still, Judged, Waits, BootPosts, EnrolPosts, BodyPosts, Estimates, Answered, Mines,
     Finalizes, Executes, TypeOK, ChainTypeOK, TxStates

LEMMA RegistryStep ==
  ASSUME TypeOK, MidInv, PoolSeq, [Next]_vars, Effect
  PROVE  RegistryTypeOK'
<1>1. details' \in [Attesters -> Details]
  <2>1. CASE AdminInclude
    BY <2>1, ExecutedCall
  <2>2. CASE UNCHANGED details
    BY <2>2 DEF TypeOK, RegistryTypeOK
  <2>3. AdminInclude \/ UNCHANGED details
    BY DEF Next, BootStep, BootActive, BootRegister, BootReceipt, BootFails, BodyStep, Estimated,
       EstimateRefused, Admitted, Unclaimed, SubmitFault, Receipt, RecordsExist, WaitFault, Register,
       SeenActive, SeenInPool, RegisterFault, CallSent, CallTurnedDown, CallFault, Checked, Polled,
       ChainStep, Block, RegistryBlock, Finalized, vars, registryVars
  <2> QED
    BY <2>1, <2>2, <2>3
<1>2. \A p \in 1..Len(adminPool') : IsCall(adminPool'[p])
  <2>1. \A p \in 1..Len(adminPool) : IsCall(adminPool[p])
    BY DEF TypeOK, RegistryTypeOK
  <2>2. ASSUME NEW c, IsCall(c), Post(c) PROVE \A p \in 1..Len(adminPool') : IsCall(adminPool'[p])
    BY <2>1, <2>2, PostAdds
  <2>3. CASE Executes
    BY <2>1, <2>3, TakeFirst DEF Executes, AdminInclude
  <2>4. CASE UNCHANGED adminPool
    BY <2>1, <2>4
  <2>5. CASE BootPosts
    BY <2>2, <2>5, PostedCalls DEF BootPosts
  <2>6. CASE EnrolPosts
    BY <2>2, <2>6, PostedCalls DEF EnrolPosts
  <2>7. CASE BodyPosts
    BY <2>2, <2>7, PostedCalls DEF BodyPosts
  <2> QED
    BY <2>3, <2>4, <2>5, <2>6, <2>7 DEF Effect, ClientEffect, Still, Judged, Waits, Estimates, Answered, Mines, Finalizes
<1> QED
  BY <1>1, <1>2 DEF RegistryTypeOK, IsCall, Addresses

LEMMA TypeStep ==
  ASSUME TypeOK, MidInv, PoolSeq, [Next]_vars, Effect
  PROVE  TypeOK'
<1>1. boot' \in {"start", "registering", "done", "failed"}
  BY DEF TypeOK, Next, BootStep, BootActive, BootRegister, BootReceipt, BootFails, BodyStep, Estimated,
     EstimateRefused, Admitted, Unclaimed, SubmitFault, Receipt, RecordsExist, WaitFault, Register,
     SeenActive, SeenInPool, RegisterFault, CallSent, CallTurnedDown, CallFault, Checked, Polled,
     ChainStep, Block, RegistryBlock, Finalized, vars
<1>2. ChainTypeOK'
  BY MembersStep, RecordsStep, TxStatesStep DEF ChainTypeOK
<1> QED
  BY <1>1, <1>2, RegistryStep, FaultedStep, ScriptTypeStep DEF TypeOK

-----------------------------------------------------------------------------
(* Places and transactions.                                                *)

\* A step of the suite is over.
Over == InBody /\ (Advance \/ Fail)

\* Otherwise the suite stays where it is, or goes on inside the step.
Stays == /\ UNCHANGED <<suite, at, step, verdict>>
         /\ UNCHANGED mid \/ mid' # "ready"

LEMMA OverOrStays ==
  ASSUME Effect
  PROVE  Over \/ Stays
  BY DEF Over, Stays, Effect, ClientEffect, Still, Judged, Waits, BootPosts, EnrolPosts, BodyPosts, Estimates,
     Answered, Mines, Finalizes, Executes, scriptVars, Reach

LEMMA MidStep ==
  ASSUME TypeOK, MidInv, TxInv, Effect
  PROVE  MidInv'
<1> USE DEF Submits
<1>1. CASE Over
  BY <1>1, StepEnds DEF Over, MidInv, TypeOK, SuiteIs, Suite, Scenarios
<1>2. CASE Estimates
  <2>1. Now.tx \in Txs
    BY <1>2, SuiteShape DEF Estimates, TypeOK, ScriptTypeOK, SuiteIs, InBody, KeepsTo, Now
  <2> QED
    BY <1>2, <2>1 DEF Estimates, Reach, MidInv, InBody, Now, Suite, Scenarios, TypeOK, ChainTypeOK
<1>3. CASE Mines
  <2>1. PICK t \in Txs, x \in {"ok", "reverted"} :
          txState[t] = "pool" /\ txState' = [txState EXCEPT ![t] = x] /\ UNCHANGED scriptVars
    BY <1>3 DEF Mines
  <2>2. mid = "checked" => Now.tx # t /\ txState'[Now.tx] = txState[Now.tx]
    BY <2>1 DEF MidInv, TypeOK, ChainTypeOK
  <2> QED
    BY <2>1, <2>2 DEF MidInv, scriptVars, InBody, Now, Suite, Scenarios
<1>4. CASE Waits \/ (EnrolPosts /\ ~Over)
  BY <1>4 DEF Waits, EnrolPosts, Over, Reach, MidInv, InBody, Now, Suite, Scenarios
<1>5. CASE UNCHANGED <<scriptVars, txState>>
  BY <1>5 DEF MidInv, scriptVars, InBody, Now, Suite, Scenarios
<1> QED
  BY <1>1, <1>2, <1>3, <1>4, <1>5 DEF Effect, ClientEffect, Over, Still, Judged, BootPosts, EnrolPosts, BodyPosts, Answered,
     Finalizes, Executes

\* A step goes well or it does not.
LEMMA NotBoth ==
  ASSUME TypeOK, InBody
  PROVE  ~(Advance /\ Fail)
<1>1. at \in Scenarios /\ verdict \in [Scenarios -> {"todo", "pass", "fail"}] /\ at \in Nat
  BY SuiteShape DEF TypeOK, ScriptTypeOK, InBody, SuiteIs, Scenarios
<1>2. Advance => at' = at \/ verdict' = [verdict EXCEPT ![at] = "pass"]
  BY DEF Advance, Pass, End
<1>3. Fail => at' = at + 1 /\ verdict' = [verdict EXCEPT ![at] = "fail"]
  BY DEF Fail, End
<1> QED
  BY <1>1, <1>2, <1>3

\* The transaction of one place is that of no other.
LEMMA OwnTx ==
  ASSUME SuiteIs, InBody, step \in 1..Len(Suite[at]), Submits(Now),
         NEW i \in Scenarios, NEW k \in 1..Len(Suite[i]), Submits(Suite[i][k]),
         Suite[i][k].tx = Now.tx
  PROVE  i = at /\ k = step
<1>1. i \in DOMAIN Suite /\ at \in DOMAIN Suite /\ k \in DOMAIN Suite[i] /\ step \in DOMAIN Suite[at]
  BY SuiteShape DEF InBody, Scenarios
<1>2. Submits(Suite[at][step]) /\ Suite[i][k].tx = Suite[at][step].tx
  BY DEF Now
<1>3. NoPlaceTwice(Suite)
  BY SuiteShape
<1> QED
  BY <1>1, <1>2, <1>3 DEF NoPlaceTwice

LEMMA TxStep ==
  ASSUME TypeOK, MidInv, TxInv, Effect
  PROVE  TxInv'
<1> USE DEF Submits
<1>1. SuiteIs /\ (InBody => step \in 1..Len(Suite[at])) /\ suite' = suite /\ Suite' = Suite /\ Scenarios' = Scenarios
      /\ at \in Nat /\ step \in Nat
  <2>1. suite' = suite
    BY OverOrStays, StepEnds DEF Over, Stays, TypeOK, MidInv
  <2> QED
    BY <2>1, SuiteShape DEF TypeOK, ScriptTypeOK, SuiteIs, InBody, Suite, Scenarios
<1>2. \A i \in Scenarios : \A k \in 1..Len(Suite[i]) : KeepsTo(Suite, i, k)
  BY <1>1, SuiteShape
<1>3. txState \in [Txs -> TxStates]
  BY DEF TypeOK, ChainTypeOK
<1> DEFINE Passed(i, k) == Done(i, k) \/ (i < at /\ verdict[i] = "pass")
<1>4. ASSUME Stays, NEW i \in Scenarios, NEW k \in 1..Len(Suite[i])
      PROVE  (Ahead(i, k)' => Ahead(i, k)) /\ (Passed(i, k)' => Passed(i, k))
  BY <1>4 DEF Stays, Ahead, Done
<1>5. ASSUME Over, NEW i \in Scenarios, NEW k \in 1..Len(Suite[i])
      PROVE  /\ Ahead(i, k)' => Ahead(i, k)
             /\ Passed(i, k)' => Passed(i, k) \/ (i = at /\ k = step /\ Advance)
  BY <1>5, <1>1, StepEnds DEF Over, TypeOK, MidInv
<1>6. CASE UNCHANGED txState /\ Stays /\ (mid = "checked" => UNCHANGED mid)
  <2>1. \A t \in Txs : txState'[t] = "checked" => mid' = "checked" /\ Now'.tx = t
    BY <1>1, <1>6 DEF TxInv, Stays, Now
  <2> QED
    BY <1>1, <1>4, <1>6, <2>1 DEF TxInv
<1>7. CASE Judged
  <2>1. Over /\ UNCHANGED txState /\ mid # "checked"
    BY <1>7 DEF Judged, Over
  <2>2. \A t \in Txs : txState[t] # "checked"
    BY <2>1 DEF TxInv
  <2>3. ASSUME Advance
        PROVE  /\ Now.op = "refused" => txState[Now.tx] = "unsent"
               /\ Now.op = "waitTx" => txState[Now.tx] = "ok"
    <3>1. Now.op = "refused" => mid = "ready"
      BY <1>7, <2>3, NotBoth DEF Judged
    <3>2. Now.op = "waitTx" => txState[Now.tx] = "ok"
      BY <1>7, <2>3, NotBoth DEF Judged
    <3> QED
      BY <1>1, <3>1, <3>2, <1>7 DEF TxInv, Ahead, Judged, InBody, Now
  <2> QED
    BY <1>1, <1>5, <2>1, <2>2, <2>3 DEF TxInv, Now, Over, InBody
<1>8. CASE (EnrolPosts \/ BodyPosts) /\ Over
  <2>1. Now.op \notin {"refused", "waitTx"} /\ UNCHANGED txState /\ mid # "checked"
    BY <1>8 DEF EnrolPosts, BodyPosts, Calls
  <2> QED
    BY <1>1, <1>5, <1>8, <2>1 DEF TxInv, Now
<1>9. CASE Estimates
  <2>1. Now.tx \in Txs /\ Submits(Now) /\ Stays
    BY <1>1, <1>2, <1>9 DEF Estimates, KeepsTo, Now, InBody, Reach, Stays
  <2>2. ASSUME NEW i \in Scenarios, NEW k \in 1..Len(Suite[i]), Ahead(i, k)' \/ Passed(i, k)',
               Submits(Suite[i][k])
        PROVE  Suite[i][k].tx \in Txs /\ txState'[Suite[i][k].tx] = txState[Suite[i][k].tx]
    <3>1. ~(i = at /\ k = step)
      BY <1>9, <2>2, <1>1 DEF Estimates, Reach, Ahead, Done
    <3>2. Suite[i][k].tx # Now.tx
      BY <1>1, <1>9, <2>1, <2>2, <3>1, OwnTx DEF Estimates
    <3>3. Suite[i][k].tx \in Txs
      BY <1>2, <2>2 DEF KeepsTo
    <3> QED
      BY <1>3, <1>9, <3>2, <3>3 DEF Estimates
  <2>3. ASSUME NEW i \in Scenarios, NEW k \in 1..Len(Suite[i]), Passed(i, k)', Suite[i][k].op = "waitTx"
        PROVE  txState'[Suite[i][k].tx] = "ok"
    <3>1. Suite[i][k].tx \in Txs /\ txState[Suite[i][k].tx] = "ok"
      BY <1>2, <1>4, <2>1, <2>3 DEF KeepsTo, TxInv
    <3> QED
      BY <1>3, <1>9, <3>1 DEF Estimates
  <2>4. \A t \in Txs : txState'[t] = "checked" => mid' = "checked" /\ Now'.tx = t
    BY <1>1, <1>3, <1>9, <2>1 DEF TxInv, Estimates, Reach, Now
  <2> QED
    BY <1>1, <1>4, <2>1, <2>2, <2>3, <2>4 DEF TxInv
<1>10. CASE Answered
  <2>1. /\ Now.tx \in Txs /\ Submits(Now) /\ Over /\ mid = "checked" /\ txState[Now.tx] = "checked"
        /\ (Advance => Now.op = "send")
    BY <1>1, <1>2, <1>10, NotBoth DEF Answered, MidInv, KeepsTo, Now, InBody, Over
  <2>2. PICK x \in {"pool", "unsent"} : txState' = [txState EXCEPT ![Now.tx] = x]
    BY <1>10 DEF Answered
  <2>3. ASSUME NEW i \in Scenarios, NEW k \in 1..Len(Suite[i]), Ahead(i, k) \/ Passed(i, k),
               Submits(Suite[i][k])
        PROVE  Suite[i][k].tx \in Txs /\ txState'[Suite[i][k].tx] = txState[Suite[i][k].tx]
    <3>1. ~(i = at /\ k = step)
      BY <1>1, <2>1, <2>3 DEF Ahead, Done, Over, InBody
    <3>2. Suite[i][k].tx # Now.tx
      BY <1>1, <2>1, <2>3, <3>1, OwnTx DEF Over
    <3>3. Suite[i][k].tx \in Txs
      BY <1>2, <2>3 DEF KeepsTo
    <3> QED
      BY <1>3, <2>2, <3>2, <3>3
  <2>4. ASSUME NEW i \in Scenarios, NEW k \in 1..Len(Suite[i]), Passed(i, k), Suite[i][k].op = "waitTx"
        PROVE  txState'[Suite[i][k].tx] = "ok"
    <3>1. Suite[i][k].tx \in Txs /\ txState[Suite[i][k].tx] = "ok"
      BY <1>2, <2>4 DEF KeepsTo, TxInv
    <3> QED
      BY <1>3, <2>1, <2>2, <3>1
  <2>5. \A t \in Txs : txState'[t] # "checked"
    BY <1>3, <2>1, <2>2 DEF TxInv
  <2> QED
    BY <1>1, <1>5, <2>1, <2>3, <2>4, <2>5 DEF TxInv, Now
<1>11. CASE Mines
  <2>1. PICK t \in Txs, x \in {"ok", "reverted"} :
          txState[t] = "pool" /\ txState' = [txState EXCEPT ![t] = x] /\ UNCHANGED scriptVars
    BY <1>11 DEF Mines
  <2>2. Stays /\ UNCHANGED mid
    BY <2>1 DEF Stays, scriptVars
  <2>3. \A u \in Txs : txState[u] # "pool" => txState'[u] = txState[u]
    BY <1>3, <2>1
  <2>4. \A u \in Txs : txState'[u] = "checked" => txState[u] = "checked"
    BY <1>3, <2>1
  <2>5. \A i \in Scenarios : \A k \in 1..Len(Suite[i]) :
          Submits(Suite[i][k]) \/ Suite[i][k].op = "waitTx" => Suite[i][k].tx \in Txs
    BY <1>2 DEF KeepsTo
  <2> QED
    BY <1>1, <1>4, <2>2, <2>3, <2>4, <2>5 DEF TxInv, Now, Stays
<1> QED
  BY <1>6, <1>7, <1>8, <1>9, <1>10, <1>11, OverOrStays DEF Effect, ClientEffect, Still, Waits, BootPosts,
     EnrolPosts, BodyPosts, Finalizes, Executes, Over, Stays, Reach, scriptVars

-----------------------------------------------------------------------------
(* Registration and revocation.                                            *)

\* How what a suite has done with an attester so far changes.
LEMMA PlacesMove ==
  ASSUME TypeOK, MidInv, Effect, NEW a
  PROVE  /\ SuiteIs /\ suite' = suite /\ Suite' = Suite /\ Scenarios' = Scenarios
         /\ at \in Nat /\ step \in Nat \ {0} /\ (InBody => step \in 1..Len(Suite[at]))
         /\ Unenrolled(a)' => Unenrolled(a)
         /\ Enrolled(a)' => Enrolled(a) \/ (Over /\ Advance /\ Enrols(Now, a))
         /\ SeenGone(a)' => SeenGone(a) \/ (Over /\ Advance /\ SeesRevoked(Now, a) /\ Enrolled(a))
         /\ Unrevoked(a)' => Unrevoked(a) /\ (Over => ~Revokes(Now, a))
<1>1. /\ SuiteIs /\ suite' = suite /\ Suite' = Suite /\ Scenarios' = Scenarios
      /\ at \in Nat /\ step \in Nat \ {0} /\ (InBody => step \in 1..Len(Suite[at]))
  <2>1. suite' = suite
    BY OverOrStays, StepEnds DEF Over, Stays, TypeOK, MidInv
  <2> QED
    BY <2>1, SuiteShape DEF TypeOK, ScriptTypeOK, SuiteIs, InBody, Suite, Scenarios
<1>2. CASE Stays
  <2>1. \A i \in Scenarios : \A k \in 1..Len(Suite[i]) : Ahead(i, k)' => Ahead(i, k)
    BY <1>2 DEF Stays, Ahead
  <2> QED
    BY <1>1, <1>2, <2>1 DEF Stays, Unenrolled, Enrolled, SeenGone, Unrevoked, InBody, Over
       , Fail, Advance, Pass, End
<1>3. CASE Over
  <2>1. (at' = at /\ step' = step + 1 /\ Advance) \/ (at' = at + 1 /\ step' = 1)
    BY <1>3 DEF Over, Advance, Pass, Fail, End
  <2>2. \A i \in Scenarios : \A k \in 1..Len(Suite[i]) : Ahead(i, k)' => Ahead(i, k)
    BY <1>3, StepEnds DEF Over, TypeOK, MidInv
  <2>3. Unenrolled(a)' => Unenrolled(a)
    BY <1>1, <2>2 DEF Unenrolled
  <2>4. Enrolled(a)' => Enrolled(a) \/ (Advance /\ Enrols(Now, a))
    BY <1>1, <1>3, <2>1 DEF Enrolled, Over, Now
  <2>5. SeenGone(a)' => SeenGone(a) \/ (Advance /\ SeesRevoked(Now, a) /\ Enrolled(a))
    BY <1>1, <1>3, <2>1 DEF SeenGone, Enrolled, Over, Now
  <2>6. Unrevoked(a)' => Unrevoked(a) /\ ~Revokes(Now, a)
    <3>1. ASSUME NEW i \in Scenarios, NEW k \in 1..Len(Suite[i]), i > at' \/ (i = at' /\ k >= step')
          PROVE  i > at \/ (i = at /\ k > step)
      BY <1>1, <2>1, <3>1 DEF Scenarios
    <3>2. Unrevoked(a)' => Unrevoked(a)
      BY <1>1, <3>1 DEF Unrevoked
    <3>3. Unrevoked(a)' => ~Revokes(Now, a)
      BY <1>1, <1>3, <3>1 DEF Unrevoked, Over, InBody, Now
    <3> QED
      BY <3>2, <3>3
  <2> QED
    BY <1>1, <1>3, <2>3, <2>4, <2>5, <2>6
<1> QED
  BY <1>2, <1>3, OverOrStays

\* Only the execution of a registration makes an attester active.
LEMMA Activation ==
  ASSUME PoolSeq, Effect, NEW a, a \in active'
  PROVE  a \in active \/ (Executes /\ Pending(1, "register", a))
<1>1. CASE UNCHANGED active
  BY <1>1
<1>2. CASE Executes
  <2>1. Head(adminPool) = adminPool[1] /\ 1 \in 1..Len(adminPool)
    BY <1>2, TakeFirst DEF Executes, AdminInclude
  <2> QED
    BY <1>2, <2>1 DEF Executes, AdminInclude, HeadBecomes, memberVars, Pending
<1> QED
  BY <1>1, <1>2 DEF Effect, ClientEffect, Still, Judged, Waits, BootPosts, EnrolPosts, BodyPosts, Estimates,
     Answered, Mines, Finalizes, Finalize, memberVars

\* Only new_attester posts a registration of an attester but the primary one.
LEMMA Registration ==
  ASSUME TypeOK, MidInv, PoolSeq, Effect, NEW a \in Attesters \ {Zero}, NEW p, Pending(p, "register", a)'
  PROVE  \/ UNCHANGED adminPool /\ Pending(p, "register", a)
         \/ Executes /\ Pending(p + 1, "register", a) /\ p \in Nat /\ p # 0
         \/ (BootPosts \/ BodyPosts) /\ Pending(p, "register", a)
         \/ EnrolPosts /\ (Pending(p, "register", a) \/ (Now.who = a /\ p = Len(adminPool) + 1))
<1> USE DEF RegisterCall
<1>1. CASE UNCHANGED adminPool
  BY <1>1 DEF Pending
<1>2. CASE Executes
  BY <1>2, TakeFirst DEF Executes, AdminInclude
<1>3. CASE BootPosts
  <2>1. Post(RegisterCall(Admin, Zero, AttesterMask)) /\ RegisterCall(Admin, Zero, AttesterMask).who = Zero
    BY <1>3 DEF BootPosts
  <2> HIDE DEF RegisterCall
  <2> QED
    BY <1>3, <2>1, PostAdds
<1>4. CASE BodyPosts
  BY <1>4, PostAdds, PostedCalls DEF BodyPosts
<1>5. CASE EnrolPosts
  <2>1. Post(RegisterCall(Admin, Now.who, AttesterMask))
    BY <1>5 DEF EnrolPosts
  <2> HIDE DEF RegisterCall
  <2>2. Pending(p, "register", a)
        \/ (p = Len(adminPool) + 1 /\ RegisterCall(Admin, Now.who, AttesterMask).who = a)
    BY <2>1, PostAdds
  <2> QED
    BY <1>5, <2>2 DEF RegisterCall
<1> QED
  BY <1>1, <1>2, <1>3, <1>4, <1>5 DEF Effect, ClientEffect, Still, Judged, Waits, Estimates, Answered, Mines, Finalizes

\* An attester is enrolled at one place.
LEMMA EnrolledOnce ==
  ASSUME SuiteIs, NEW a,
         NEW i \in Scenarios, NEW k \in 1..Len(Suite[i]), Enrols(Suite[i][k], a),
         NEW j \in Scenarios, NEW l \in 1..Len(Suite[j]), Enrols(Suite[j][l], a)
  PROVE  i = j /\ k = l
<1>1. i \in DOMAIN Suite /\ j \in DOMAIN Suite /\ k \in DOMAIN Suite[i] /\ l \in DOMAIN Suite[j]
  BY SuiteShape DEF Scenarios
<1>2. NoPlaceTwice(Suite)
  BY SuiteShape
<1> QED
  BY <1>1, <1>2 DEF NoPlaceTwice, Enrols

LEMMA RegisterStep ==
  ASSUME TypeOK, MidInv, PoolSeq, Effect, NEW a \in Attesters \ {Zero}, RegisterInv(a)
  PROVE  RegisterInv(a)'
<1> DEFINE enrols == EnrolPosts /\ Now.who = a
<1>1. /\ SuiteIs /\ Suite' = Suite /\ Scenarios' = Scenarios
      /\ at \in Nat /\ step \in Nat \ {0} /\ (InBody => step \in 1..Len(Suite[at]))
  BY PlacesMove
\* It is being enrolled: nobody has, and its place is no longer ahead.
<1>2. ASSUME enrols
      PROVE  /\ a \notin active /\ NonePending("register", a) /\ UNCHANGED active
             /\ ~Unenrolled(a)' /\ ~Enrolled(a)' /\ mid' # "waitPool"
  <2>1. Enrols(Suite[at][step], a) /\ at \in Scenarios /\ step \in 1..Len(Suite[at]) /\ mid = "ready"
    BY <1>1, <1>2 DEF EnrolPosts, Enrols, Now, InBody
  <2>2. Unenrolled(a)
    <3>1. ASSUME NEW i \in Scenarios, NEW k \in 1..Len(Suite[i]), Enrols(Suite[i][k], a) PROVE i = at /\ k = step
      BY <1>1, <2>1, <3>1, EnrolledOnce
    <3> QED
      BY <2>1, <3>1 DEF Unenrolled, Ahead
  <2>3. ~Enrolled(a)
    <3>1. ASSUME NEW k \in 1..(step - 1), Enrols(Suite[at][k], a) PROVE FALSE
      <4>1. k \in 1..Len(Suite[at])
        BY <1>1, <2>1, SuiteShape
      <4>2. k = step
        BY <1>1, <2>1, <3>1, <4>1, EnrolledOnce
      <4> QED
        BY <1>1, <4>2
    <3> QED
      BY <3>1 DEF Enrolled
  <2>4. (Reach("waitActive") \/ Fail) /\ UNCHANGED active
    BY <1>2 DEF EnrolPosts, memberVars
  <2>5. (at' = at /\ step' = step /\ mid' = "waitActive") \/ (at' = at + 1 /\ step' = 1 /\ mid' = "ready")
    BY <2>4 DEF Reach, Fail, End
  <2>6. ~Enrolled(a)'
    BY <1>1, <2>3, <2>5 DEF Enrolled, InBody
  <2>7. ~Unenrolled(a)'
    <3>1. PICK i \in Scenarios : \E k \in 1..Len(Suite[i]) : i = at /\ k = step /\ Enrols(Suite[i][k], a)
      BY <2>1
    <3>2. PICK k \in 1..Len(Suite[i]) : i = at /\ k = step /\ Enrols(Suite[i][k], a)
      BY <3>1
    <3>3. ~Ahead(i, k)'
      BY <1>1, <2>5, <3>2 DEF Ahead
    <3> QED
      BY <1>1, <3>2, <3>3 DEF Unenrolled
  <2> QED
    BY <2>2, <2>4, <2>5, <2>6, <2>7 DEF RegisterInv
\* Otherwise no registration of it is added.
<1>3. ASSUME ~enrols, NonePending("register", a) PROVE NonePending("register", a)'
  <2>1. ASSUME NEW p, Pending(p, "register", a)' PROVE FALSE
    BY <1>3, <2>1, Registration DEF NonePending
  <2> QED
    BY <2>1 DEF NonePending
<1>4. NonePending("register", a) => (a \in active' => a \in active)
  BY Activation DEF NonePending
<1>5. Unenrolled(a)' => a \notin active' /\ NonePending("register", a)'
  BY <1>2, <1>3, <1>4, PlacesMove DEF RegisterInv
<1>6. a \in active' => NonePending("register", a)'
  <2>1. CASE a \in active
    BY <1>2, <1>3, <2>1 DEF RegisterInv
  <2>2. CASE a \in active' /\ a \notin active
    <3>1. Executes /\ Pending(1, "register", a)
      BY <2>2, Activation
    <3>2. ASSUME NEW p, Pending(p, "register", a)' PROVE FALSE
      <4>1. Pending(p + 1, "register", a) /\ p \in Nat /\ p # 0
        BY <3>1, <3>2, TakeFirst DEF Executes, AdminInclude
      <4>2. p + 1 = 1
        BY <3>1, <4>1 DEF RegisterInv
      <4> QED
        BY <4>1, <4>2
    <3> QED
      BY <3>2 DEF NonePending
  <2> QED
    BY <2>1, <2>2
<1>7. \A p, q : Pending(p, "register", a)' /\ Pending(q, "register", a)' => p = q
  <2>1. CASE enrols
    BY <1>2, <2>1, Registration, TakeFirst DEF NonePending, EnrolPosts, Executes, AdminInclude, Post
  <2>2. CASE ~enrols
    <3>1. ASSUME NEW p, Pending(p, "register", a)'
          PROVE  Pending(p, "register", a) \/ (Executes /\ Pending(p + 1, "register", a) /\ p \in Nat /\ p # 0)
      BY <2>2, <3>1, Registration
    <3>2. Executes => \A p : Pending(p, "register", a)' => Pending(p + 1, "register", a) /\ p \in Nat /\ p # 0
      BY TakeFirst DEF Executes, AdminInclude
    <3>3. CASE Executes
      BY <3>2, <3>3 DEF RegisterInv
    <3>4. CASE ~Executes
      BY <3>1, <3>4 DEF RegisterInv
    <3> QED
      BY <3>3, <3>4
  <2> QED
    BY <2>1, <2>2
<1>8. Enrolled(a)' => NonePending("register", a)'
  <2>1. CASE Enrolled(a)
    BY <1>2, <1>3, <2>1 DEF RegisterInv
  <2>2. CASE Over /\ Advance /\ Enrols(Now, a)
    <3>1. mid = "waitPool" /\ ~EnrolPosts
      <4>1. Now.op = "newAttester"
        BY <2>2 DEF Enrols
      <4>2. Judged \/ EnrolPosts \/ BodyPosts \/ Answered
        BY <2>2 DEF Effect, ClientEffect, Over, Still, Waits, BootPosts, Estimates, Mines, Finalizes, Executes, scriptVars, Reach,
           Advance, Pass, End, TypeOK, ScriptTypeOK
      <4> QED
        BY <2>2, <4>1, <4>2, NotBoth DEF Over, Judged, EnrolPosts, BodyPosts, Calls, Answered, Reach, Advance, Pass, End
    <3>2. NonePending("register", a)
      BY <2>2, <3>1 DEF RegisterInv, Enrols
    <3> QED
      BY <1>3, <3>1, <3>2
  <2> QED
    BY <2>1, <2>2, PlacesMove
<1>9. mid' = "waitPool" /\ Now'.who = a => NonePending("register", a)'
  <2>1. SUFFICES ASSUME mid' = "waitPool", Now'.who = a PROVE NonePending("register", a)'
    OBVIOUS
  <2>2. Stays /\ Now' = Now
    <3>1. ~Over
      BY <2>1, StepEnds DEF Over, TypeOK, MidInv
    <3> QED
      BY <3>1, OverOrStays DEF Stays, Now, Suite
  <2>3. CASE mid = "waitPool"
    BY <1>2, <1>3, <2>1, <2>2, <2>3 DEF RegisterInv
  <2>4. CASE mid # "waitPool"
    <3>1. Waits
      BY <2>1, <2>2, <2>4, StepEnds DEF Effect, ClientEffect, Still, Judged, BootPosts, EnrolPosts, BodyPosts, Estimates, Answered,
         Mines, Finalizes, Executes, scriptVars, Reach, TypeOK, MidInv, Fail, Advance, Pass, End
    <3>2. a \in active /\ ~enrols
      BY <2>1, <2>2, <3>1 DEF Waits, EnrolPosts
    <3> QED
      BY <1>3, <3>2 DEF RegisterInv
  <2> QED
    BY <2>3, <2>4
<1>10. SeenGone(a)' => a \notin active'
  <2>1. SUFFICES ASSUME SeenGone(a)' PROVE a \notin active'
    OBVIOUS
  <2>2. CASE SeenGone(a)
    <3>1. Enrolled(a)
      BY <1>1, <2>2 DEF SeenGone, Enrolled
    <3> QED
      BY <1>4, <2>2, <3>1 DEF RegisterInv
  <2>3. CASE Over /\ Advance /\ SeesRevoked(Now, a) /\ Enrolled(a)
    <3>1. Judged
      BY <2>3, NotBoth DEF Effect, ClientEffect, Over, Still, Waits, BootPosts, EnrolPosts, BodyPosts, Calls, Estimates, Answered,
         Mines, Finalizes, Executes, scriptVars, Reach, Advance, Pass, End, TypeOK, ScriptTypeOK, SeesRevoked
    <3>2. a \notin active
      BY <2>3, <3>1, NotBoth DEF Judged
    <3> QED
      BY <1>4, <2>3, <3>2 DEF RegisterInv
  <2> QED
    BY <2>1, <2>2, <2>3, PlacesMove
<1> QED
  BY <1>5, <1>6, <1>7, <1>8, <1>9, <1>10 DEF RegisterInv

\* Only a body posts a revocation.
LEMMA Revocation ==
  ASSUME PoolSeq, Effect, NEW a, NEW p, Pending(p, "revoke", a)'
  PROVE  (\E q : Pending(q, "revoke", a)) \/ (BodyPosts /\ Revokes(Now, a))
<1>1. ASSUME NEW b, Post(RegisterCall(Admin, b, AttesterMask)) PROVE Pending(p, "revoke", a)
  <2>1. RegisterCall(Admin, b, AttesterMask).fn = "register"
    BY DEF RegisterCall
  <2> QED
    BY <1>1, <2>1, PostAdds
<1>2. CASE BodyPosts
  <2>1. Post(Now.call) /\ Calls(Now)
    BY <1>2 DEF BodyPosts
  <2> QED
    BY <1>2, <2>1, PostAdds DEF Revokes
<1>3. CASE Executes
  BY <1>3, TakeFirst DEF Executes, AdminInclude
<1>4. CASE UNCHANGED adminPool
  BY <1>4 DEF Pending
<1> QED
  BY <1>1, <1>2, <1>3, <1>4 DEF Effect, ClientEffect, Still, Judged, Waits, BootPosts, EnrolPosts, Estimates,
     Answered, Mines, Finalizes

\* What the head and the snapshot do to one who is not being revoked.
LEMMA StaysInStep ==
  ASSUME TypeOK, PoolSeq, Effect, NEW a, StaysIn(a), NonePending("revoke", a)
  PROVE  StaysIn(a)' /\ (a \in members => a \in members')
<1>1. backlog \in Seq(SUBSET Attesters)
  BY DEF TypeOK, ChainTypeOK, MemberTypeOK
<1>2. CASE UNCHANGED memberVars
  BY <1>2 DEF memberVars, StaysIn
<1>3. CASE Finalizes
  <2>1. backlog # <<>> /\ members' = Head(backlog) /\ backlog' = Tail(backlog) /\ active' = active
    BY <1>3 DEF Finalizes, Finalize
  <2>2. Len(backlog) \in Nat \ {0} /\ Len(backlog') = Len(backlog) - 1 /\ members' = backlog[1]
        /\ \A p \in 1..Len(backlog') : backlog'[p] = backlog[p + 1]
    BY <1>1, <2>1
  <2> QED
    BY <2>1, <2>2 DEF StaysIn
<1>4. CASE Executes
  <2>1. Head(adminPool) = adminPool[1] /\ 1 \in 1..Len(adminPool)
    BY <1>4, TakeFirst DEF Executes, AdminInclude
  <2>2. ~(Head(adminPool).fn = "revoke" /\ Head(adminPool).who = a)
    BY <2>1 DEF NonePending, Pending
  <2>3. UNCHANGED memberVars \/ \E s : HeadBecomes(s) /\ (a \in active => a \in s)
    BY <1>4, <2>2 DEF Executes, AdminInclude
  <2>4. ASSUME NEW s, HeadBecomes(s), a \in active => a \in s PROVE StaysIn(a)' /\ members' = members
    <3>1. active' = s /\ backlog' = Append(backlog, s) /\ members' = members
      BY <2>4 DEF HeadBecomes
    <3>2. Len(backlog) \in Nat /\ Len(backlog') = Len(backlog) + 1 /\ backlog'[Len(backlog) + 1] = s
          /\ \A p \in 1..Len(backlog) : backlog'[p] = backlog[p]
      BY <1>1, <3>1
    <3> QED
      BY <2>4, <3>1, <3>2 DEF StaysIn
  <2> QED
    BY <1>2, <2>3, <2>4
<1> QED
  BY <1>2, <1>3, <1>4 DEF Effect, ClientEffect, Still, Judged, Waits, BootPosts, EnrolPosts, BodyPosts, Estimates,
     Answered, Mines

LEMMA RevokeStep ==
  ASSUME TypeOK, MidInv, PoolSeq, Effect, NEW a \in Attesters, RevokeInv(a)
  PROVE  RevokeInv(a)'
<1>1. SUFFICES ASSUME Unrevoked(a)' PROVE NonePending("revoke", a)' /\ StaysIn(a)'
  BY DEF RevokeInv
<1>2. Unrevoked(a) /\ (Over => ~Revokes(Now, a))
  BY <1>1, PlacesMove
<1>3. NonePending("revoke", a) /\ StaysIn(a)
  BY <1>2 DEF RevokeInv
<1>4. ~(BodyPosts /\ Revokes(Now, a))
  BY <1>2 DEF BodyPosts, Over
<1>5. NonePending("revoke", a)'
  <2>1. ASSUME NEW p, Pending(p, "revoke", a)' PROVE FALSE
    BY <1>3, <1>4, <2>1, Revocation DEF NonePending
  <2> QED
    BY <2>1 DEF NonePending
<1> QED
  BY <1>3, <1>5, StaysInStep

LEMMA MemberStep ==
  ASSUME TypeOK, MidInv, PoolSeq, Effect, \A a \in Attesters : RevokeInv(a), MemberInv
  PROVE  MemberInv'
<1>1. SuiteIs /\ suite' = suite
  BY PlacesMove
<1>2. Unrevoked(Zero)
  <2>1. \A i \in Scenarios : \A k \in 1..Len(Suite[i]) : ~Revokes(Suite[i][k], Zero)
    BY <1>1, SuiteShape DEF KeepsTo, Revokes
  <2> QED
    BY <2>1 DEF Unrevoked
<1>3. ASSUME NEW a \in Attesters, Unrevoked(a), a \in members PROVE a \in members'
  BY <1>3, StaysInStep DEF RevokeInv
<1>4. Start[suite]' # {} => Zero \in members'
  BY <1>1, <1>2, <1>3, FlowAssumption DEF MemberInv
<1>5. ASSUME NEW a \in Attesters \ {Zero}, Enrolled(a)', Unrevoked(a)' PROVE a \in members'
  <2>1. Unrevoked(a) /\ (Enrolled(a) \/ (Over /\ Advance /\ Enrols(Now, a)))
    BY <1>5, PlacesMove
  <2>2. CASE Enrolled(a)
    BY <1>3, <2>1, <2>2 DEF MemberInv
  <2>3. CASE Over /\ Advance /\ Enrols(Now, a)
    <3>1. Judged
      BY <2>3, NotBoth DEF Effect, ClientEffect, Over, Still, Waits, BootPosts, EnrolPosts, BodyPosts, Calls, Estimates, Answered,
         Mines, Finalizes, Executes, scriptVars, Reach, Advance, Pass, End, TypeOK, ScriptTypeOK, Enrols
    <3>2. a \in members
      BY <2>3, <3>1, NotBoth DEF Judged, Enrols
    <3> QED
      BY <1>3, <2>1, <3>2
  <2> QED
    BY <2>1, <2>2, <2>3
<1> QED
  BY <1>4, <1>5 DEF MemberInv

\* The contract's gate turns down whoever a body may not count on.
LEMMA SenderStep ==
  ASSUME TypeOK, MidInv, Effect, SenderInv, \A a \in Attesters \ {Zero} : RegisterInv(a)
  PROVE  SenderInv'
<1>1. SuiteIs /\ suite' = suite /\ Suite' = Suite /\ (InBody => step \in 1..Len(Suite[at]))
      /\ step \in Nat \ {0} /\ at \in Nat
  BY PlacesMove
<1>2. SUFFICES ASSUME mid' = "checked" PROVE SenderInv'
  BY DEF SenderInv
<1>3. Stays /\ Now' = Now /\ UNCHANGED <<at, step>>
  BY <1>1, <1>2, OverOrStays, StepEnds DEF Over, Stays, Now, TypeOK, MidInv
<1>4. CASE Estimates
  <2> DEFINE a == Body[Now.tx].by
  <2>1. Submits(Now) /\ Accepted(Now.tx) /\ InBody
    BY <1>4 DEF Estimates
  <2>2. Now.tx \in Txs /\ (a = Zero \/ Counted(Suite, at, step, a) \/ Uncounted(Suite, at, step, a))
    BY <1>1, <2>1, SuiteShape DEF KeepsTo, InBody, Now
  <2>3. a \in active
    <3>1. Refusal(Now.tx) = "none"
      BY <2>1 DEF Accepted
    <3>2. a \notin active => Refusal(Now.tx) = "AttesterNotActive"
      BY DEF Refusal
    <3> QED
      BY <3>1, <3>2
  <2>4. ASSUME a # Zero PROVE ~Uncounted(Suite, at, step, a)
    <3>1. a \in Attesters \ {Zero}
      BY <2>2, <2>4, ChainAssumption DEF TxBodies
    <3>2. ~SeenGone(a) /\ ~Unenrolled(a)
      BY <2>3, <3>1 DEF RegisterInv
    <3>3. ~\E l \in 1..(step - 1) : \E j \in 1..(l - 1) : Enrols(Suite[at][j], a) /\ SeesRevoked(Suite[at][l], a)
      BY <2>1, <3>2 DEF SeenGone
    <3>4. ~\A m \in DOMAIN Suite : \A l \in DOMAIN Suite[m] : ~Enrols(Suite[m][l], a)
      BY <1>1, <3>2, SuiteShape DEF Unenrolled, Scenarios
    <3> QED
      BY <3>3, <3>4 DEF Uncounted
  <2> QED
    BY <1>1, <1>3, <2>2, <2>4 DEF SenderInv
<1>5. CASE mid = "checked"
  BY <1>1, <1>3, <1>5 DEF SenderInv
<1> QED
  BY <1>2, <1>3, <1>4, <1>5, StepEnds DEF Effect, ClientEffect, Still, Judged, Waits, BootPosts, EnrolPosts, BodyPosts, Answered,
     Mines, Finalizes, Executes, scriptVars, Reach, TypeOK, MidInv, Fail, Advance, Pass, End

-----------------------------------------------------------------------------
(* The invariant holds, and what follows from it.                          *)

LEMMA IInvInit == Init => IInv
<1> SUFFICES ASSUME Init PROVE IInv
  OBVIOUS
<1> USE DEF Init, ScriptInit, ChainInit, MemberInit, RegistryInit
<1>1. SuiteIs /\ Len(Suite) \in Nat
  BY SuiteShape DEF SuiteIs
<1>2. active \subseteq {Zero} /\ Zero \in Attesters /\ active \subseteq Attesters
  BY <1>1, FlowAssumption DEF SuiteIs
<1>3. ScriptTypeOK
  BY <1>1, SuiteShape DEF ScriptTypeOK, SuiteIs, Scenarios
<1>4. ChainTypeOK
  BY <1>2 DEF ChainTypeOK, MemberTypeOK, TxStates
<1>5. RegistryTypeOK
  <2>1. Blank \in Details /\ [Blank EXCEPT !.mask = AttesterMask] \in Details
    BY RegistryAssumption DEF Details, Blank, AttesterMask
  <2>2. Len(adminPool) = 0
    OBVIOUS
  <2>3. details \in [Attesters -> Details]
    BY <2>1
  <2> QED
    BY <2>2, <2>3 DEF RegistryTypeOK
<1>6. PoolSeq /\ \A p, fn, a : ~Pending(p, fn, a)
  <2>1. adminPool \in Seq({}) /\ Len(adminPool) = 0
    OBVIOUS
  <2> QED
    BY <2>1 DEF PoolSeq, Pending
<1>7. MidInv
  BY DEF MidInv
<1>8. TxInv
  <2>1. \A i \in Scenarios : \A k \in 1..Len(Suite[i]) : Submits(Suite[i][k]) => Suite[i][k].tx \in Txs
    BY <1>1, SuiteShape DEF KeepsTo
  <2> QED
    BY <1>1, <2>1, SuiteShape DEF TxInv, Done, Scenarios, Submits
<1>9. \A a : ~Enrolled(a) /\ ~SeenGone(a)
  BY DEF Enrolled, SeenGone
<1>10. \A a \in Attesters \ {Zero} : RegisterInv(a)
  BY <1>2, <1>6, <1>9 DEF RegisterInv, NonePending
<1>11. \A a \in Attesters : RevokeInv(a)
  BY <1>6 DEF RevokeInv, NonePending, StaysIn
<1>12. MemberInv
  BY <1>1, <1>9, FlowAssumption DEF MemberInv, SuiteIs
<1>13. SenderInv
  BY DEF SenderInv
<1> QED
  BY <1>3, <1>4, <1>5, <1>6, <1>7, <1>8, <1>10, <1>11, <1>12, <1>13 DEF IInv, TypeOK

LEMMA IInvStep == IInv /\ [Next]_vars => IInv'
<1> SUFFICES ASSUME IInv, [Next]_vars PROVE IInv'
  OBVIOUS
<1>1. TypeOK /\ PoolSeq /\ MidInv /\ TxInv /\ MemberInv /\ SenderInv
  BY DEF IInv
<1>2. Effect
  BY <1>1, ActionEffects
<1>3. \A a \in Attesters \ {Zero} : RegisterInv(a)'
  BY <1>1, <1>2, RegisterStep DEF IInv
<1>4. \A a \in Attesters : RevokeInv(a)'
  BY <1>1, <1>2, RevokeStep DEF IInv
<1>5. TypeOK' /\ PoolSeq' /\ MidInv' /\ TxInv'
  BY <1>1, <1>2, TypeStep, PoolSeqStep, MidStep, TxStep
<1>6. MemberInv' /\ SenderInv'
  BY <1>1, <1>2, MemberStep, SenderStep DEF IInv
<1> QED
  BY <1>3, <1>4, <1>5, <1>6 DEF IInv

\* What the places of the suite say of the pool and of the chain holds all the way.
THEOREM SuiteInvariant == Spec => []IInv
  BY IInvInit, IInvStep, PTL DEF Spec

\* Type correctness of the suite, its registry and its pool.
THEOREM SuiteTypeCorrect == Spec => []TypeOK
<1>1. IInv => TypeOK
  BY DEF IInv
<1> QED
  BY <1>1, SuiteInvariant, PTL

\* A scenario that passed has its transactions on chain, and what had to be refused is
\* not there and will not be: attester.rs:211-278, main.rs:106-121.
THEOREM SuitePassIsEvidence == Spec => []PassIsEvidence
<1>1. IInv => PassIsEvidence
  <2> SUFFICES ASSUME IInv, NEW i \in Scenarios, verdict[i] = "pass", NEW k \in 1..Len(Suite[i])
               PROVE  /\ Suite[i][k].op = "send" => txState[Suite[i][k].tx] = "ok"
                      /\ Suite[i][k].op = "refused" => txState[Suite[i][k].tx] = "unsent"
    BY DEF PassIsEvidence
  <2>1. TypeOK /\ MidInv /\ TxInv /\ SuiteIs
    BY DEF IInv, TypeOK, ScriptTypeOK, SuiteIs
  <2>2. i < at
    <3>1. i \in Nat /\ at \in Nat /\ ~(i >= at)
      BY <2>1, SuiteShape DEF MidInv, TypeOK, ScriptTypeOK, Scenarios
    <3> QED
      BY <3>1
  <2>3. ASSUME Suite[i][k].op = "send" PROVE txState[Suite[i][k].tx] = "ok"
    <3>1. KeepsTo(Suite, i, k) /\ DOMAIN Suite[i] = 1..Len(Suite[i])
      BY <2>1, SuiteShape
    <3>2. PICK l \in 1..Len(Suite[i]) : Suite[i][l] = WaitTx(Suite[i][k].tx)
      BY <2>3, <3>1 DEF KeepsTo
    <3>3. Suite[i][l].op = "waitTx" /\ Suite[i][l].tx = Suite[i][k].tx
      BY <3>2 DEF WaitTx
    <3> QED
      BY <2>1, <2>2, <3>3 DEF TxInv
  <2> QED
    BY <2>1, <2>2, <2>3 DEF TxInv
<1> QED
  BY <1>1, SuiteInvariant, PTL

\* The two waits of new_attester are enough: nothing a body sends after them is turned away
\* by the pool for its sender, however far the snapshot trails the registry (env.rs:184-191).
THEOREM NoneIsUnclaimed == Spec => []NoUnclaimedTx
<1>1. IInv => NoUnclaimedTx
  <2> SUFFICES ASSUME IInv, NEW t \in Txs, txState[t] = "checked"
               PROVE  Body[t].by \in members \/ (Body[t].by = Zero /\ Start[suite] = {})
    BY DEF NoUnclaimedTx
  <2> DEFINE a == Body[t].by
  <2>1. /\ mid = "checked" /\ Now.tx = t /\ InBody /\ SuiteIs /\ at \in Nat /\ step \in Nat
        /\ (a = Zero \/ Counted(Suite, at, step, a)) /\ MemberInv
    BY SuiteShape DEF IInv, TxInv, MidInv, SenderInv, TypeOK, ScriptTypeOK, SuiteIs
  <2>2. CASE a = Zero
    BY <2>1, <2>2 DEF MemberInv
  <2>3. CASE a # Zero
    <3>1. a \in Attesters \ {Zero}
      BY <2>3, ChainAssumption DEF TxBodies
    <3>2. Enrolled(a)
      BY <2>1, <2>3 DEF Counted, Enrolled
    <3>3. Unrevoked(a)
      BY <2>1, <2>3, SuiteShape DEF Counted, Unrevoked, Scenarios
    <3> QED
      BY <2>1, <3>1, <3>2, <3>3 DEF MemberInv
  <2> QED
    BY <2>2, <2>3
<1> QED
  BY <1>1, SuiteInvariant, PTL

-----------------------------------------------------------------------------
(* Verdicts: what the registries of records and attesters hold, by the     *)
(* place of the suite, on a node that knows the primary attester.          *)

\* The registry has known the primary attester all along.
Warm == Start[suite] # {}

\* A body sends it, for which it has to be taken.
IsSent(t) == \E i \in Scenarios : \E k \in 1..Len(Suite[i]) : Suite[i][k].op = "send" /\ Suite[i][k].tx = t

\* What is under way will be executed, and its sender is not about to be revoked.
NoRevocation(a) ==
  \A p \in 1..Len(adminPool) : ~(adminPool[p].fn = "revoke" /\ adminPool[p].who = a)
TrafficInv ==
  \A t \in Txs : /\ txState[t] # "unsent" => IsSent(t)
                 /\ txState[t] # "reverted"
                 /\ txState[t] \in {"checked", "pool"} => Accepted(t) /\ NoRevocation(Body[t].by)

\* The registries say what has been executed.
BooksInv ==
  /\ \A r \in Records : filedBy[r] # NoOne =>
       \E t \in Txs : /\ txState[t] = "ok" /\ Body[t].kind = "file"
                      /\ r \in Body[t].recs /\ Body[t].by = filedBy[r]
  /\ \A r \in Records : spentBy[r] # NoOne =>
       \E t \in Txs : txState[t] = "ok" /\ Body[t].kind = "mint" /\ r \in Body[t].recs
  /\ \A t \in Txs : txState[t] = "ok" =>
       \A r \in Body[t].recs : IF Body[t].kind = "file" THEN filedBy[r] = Body[t].by
                                                        ELSE spentBy[r] # NoOne

\* No body has called for `a` but to enrol it; the body that runs has seen its key.
Spared(a) ==
  \A i \in Scenarios : \A k \in 1..Len(Suite[i]) :
    Suite[i][k].op = "call" /\ Suite[i][k].call.who = a => i > at \/ (i = at /\ k >= step)
SeenKey(a) == InBody /\ KeyKnown(Suite, at, step, a)

\* The record of an attester, and what is to become of it.
AsEnrolled == [Blank EXCEPT !.mask = AttesterMask]
RecordInv(a) ==
  /\ \A p \in 1..Len(adminPool) : adminPool[p].who = a =>
       /\ adminPool[p].fn = "register" => adminPool[p].value = AsEnrolled
       /\ adminPool[p].fn = "setConsensusIdentity" => adminPool[p].value # NoKey
       /\ Spared(a) => adminPool[p].fn = "register"
  /\ Spared(a) /\ a \in active => details[a] = AsEnrolled
  /\ SeenKey(a) => details[a].key # NoKey

\* Who has failed has been hit.
Deserved == \A i \in Scenarios : verdict[i] = "fail" => i \in faulted

VInv ==
  /\ TrafficInv /\ BooksInv
  /\ \A a \in Attesters \ {Zero} : RecordInv(a)
  /\ Deserved

-----------------------------------------------------------------------------
(* What a body finds.                                                      *)

LEMMA SuiteExpects ==
  ASSUME SuiteIs
  PROVE  /\ NoRecordTwice(Suite)
         /\ \A i \in Scenarios : \A k \in 1..Len(Suite[i]) : Expects(Suite, i, k)
  BY SuiteShape, ExpectationsAssumption DEF SuiteIs, Suite, Scenarios

\* Where the suite is.
LEMMA Here ==
  ASSUME IInv
  PROVE  /\ TypeOK /\ MidInv /\ TxInv /\ PoolSeq /\ SuiteIs /\ at \in Nat /\ step \in Nat \ {0}
         /\ InBody => /\ at \in Scenarios /\ at \in DOMAIN Suite
                      /\ step \in 1..Len(Suite[at]) /\ step \in DOMAIN Suite[at]
                      /\ Len(Suite[at]) \in Nat /\ DOMAIN Suite[at] = 1..Len(Suite[at])
                      /\ KeepsTo(Suite, at, step) /\ Expects(Suite, at, step)
<1>1. TypeOK /\ MidInv /\ TxInv /\ PoolSeq /\ SuiteIs
  BY DEF IInv, TypeOK, ScriptTypeOK, SuiteIs
<1>2. at \in Nat /\ step \in Nat \ {0} /\ (InBody => step \in 1..Len(Suite[at]))
  BY <1>1, SuiteShape DEF TypeOK, ScriptTypeOK, InBody, Scenarios
<1> QED
  BY <1>1, <1>2, SuiteShape, SuiteExpects DEF InBody, Scenarios

\* Nobody revokes the primary attester.
LEMMA ZeroStays ==
  ASSUME IInv, Warm
  PROVE  Zero \in active /\ Zero \in members /\ NonePending("revoke", Zero)
<1>1. \A i \in Scenarios : \A k \in 1..Len(Suite[i]) : ~Revokes(Suite[i][k], Zero)
  BY Here, SuiteShape DEF KeepsTo, Revokes
<1>2. Unrevoked(Zero)
  BY <1>1 DEF Unrevoked
<1>3. NonePending("revoke", Zero) /\ StaysIn(Zero) /\ Zero \in members
  BY <1>2, FlowAssumption DEF IInv, RevokeInv, MemberInv, Warm
<1> QED
  BY <1>3 DEF StaysIn

\* Who has been enrolled and not revoked is there.
LEMMA StillThere ==
  ASSUME IInv, NEW a, Enrolled(a), Unrevoked(a)
  PROVE  /\ a \in Attesters \ {Zero} /\ a \in active /\ a \in members
         /\ NonePending("revoke", a) /\ NonePending("register", a)
<1>1. InBody /\ \E k \in 1..Len(Suite[at]) : Enrols(Suite[at][k], a)
  BY Here DEF Enrolled
<1>2. a \in Attesters \ {Zero}
  BY <1>1, Here, SuiteShape DEF KeepsTo, Enrols
<1>3. a \in members /\ NonePending("revoke", a) /\ StaysIn(a) /\ NonePending("register", a)
  BY <1>2 DEF IInv, MemberInv, RevokeInv, RegisterInv
<1> QED
  BY <1>2, <1>3 DEF StaysIn

LEMMA HeardIsThere ==
  ASSUME IInv, Warm, InBody, NEW a, Heard(Suite, at, step, a)
  PROVE  a \in active /\ a \in members /\ NonePending("revoke", a)
<1>1. CASE a = Zero
  BY <1>1, ZeroStays
<1>2. CASE Counted(Suite, at, step, a)
  <2>1. Enrolled(a)
    BY <1>2 DEF Counted, Enrolled
  <2>2. \A m \in Scenarios : \A l \in 1..Len(Suite[m]) : Revokes(Suite[m][l], a) => m = at /\ l > step
    BY <1>2, Here, SuiteShape DEF Counted, Scenarios
  <2>3. Unrevoked(a)
    BY <2>2, Here DEF Unrevoked
  <2> QED
    BY <2>1, <2>3, StillThere
<1> QED
  BY <1>1, <1>2 DEF Heard

\* Who is not counted on is not active.
LEMMA UncountedIsNot ==
  ASSUME IInv, InBody, NEW a \in Attesters \ {Zero}, Uncounted(Suite, at, step, a)
  PROVE  a \notin active
<1>1. SeenGone(a) \/ Unenrolled(a)
  <2>1. CASE \E l \in 1..(step - 1) : \E j \in 1..(l - 1) : Enrols(Suite[at][j], a) /\ SeesRevoked(Suite[at][l], a)
    BY <2>1 DEF SeenGone
  <2>2. CASE \A m \in DOMAIN Suite : \A l \in DOMAIN Suite[m] : ~Enrols(Suite[m][l], a)
    BY <2>2, Here, SuiteShape DEF Unenrolled, Scenarios
  <2> QED
    BY <2>1, <2>2 DEF Uncounted
<1> QED
  BY <1>1 DEF IInv, RegisterInv


\* What has been waited for is on chain.
LEMMA LandedIsOk ==
  ASSUME IInv, InBody, NEW t, Landed(Suite, at, step, t)
  PROVE  t \in Txs /\ txState[t] = "ok"
<1>1. PICK l \in 1..(step - 1) : Suite[at][l] = WaitTx(t)
  BY DEF Landed
<1>2. l \in 1..Len(Suite[at]) /\ Suite[at][l].op = "waitTx" /\ Suite[at][l].tx = t /\ Done(at, l)
  BY <1>1, Here DEF WaitTx, Done
<1>3. KeepsTo(Suite, at, l)
  BY <1>2, Here, SuiteShape
<1> QED
  BY <1>2, <1>3, Here DEF TxInv, KeepsTo

LEMMA OwnRecordsAreFiled ==
  ASSUME IInv, BooksInv, InBody, NEW b, OwnRecords(Suite, at, step, b)
  PROVE  \A r \in b.recs : filedBy[r] = b.by
<1> SUFFICES ASSUME NEW r \in b.recs PROVE filedBy[r] = b.by
  OBVIOUS
<1>1. PICK t \in Txs : Landed(Suite, at, step, t) /\ Body[t].kind = "file" /\ Body[t].by = b.by /\ r \in Body[t].recs
  BY DEF OwnRecords
<1>2. txState[t] = "ok"
  BY <1>1, LandedIsOk
<1> QED
  BY <1>1, <1>2 DEF BooksInv

\* Two that are sent at different places have no records of a kind in common.
LEMMA SentApart ==
  ASSUME SuiteIs, NEW t \in Txs, NEW u \in Txs, t # u, IsSent(t), IsSent(u),
         Body[t].kind = Body[u].kind, NEW r, r \in Body[t].recs, r \in Body[u].recs
  PROVE  FALSE
<1>1. PICK i \in Scenarios : \E k \in 1..Len(Suite[i]) : Suite[i][k].op = "send" /\ Suite[i][k].tx = t
  BY DEF IsSent
<1>2. PICK k \in 1..Len(Suite[i]) : Suite[i][k].op = "send" /\ Suite[i][k].tx = t
  BY <1>1
<1>3. PICK j \in Scenarios : \E l \in 1..Len(Suite[j]) : Suite[j][l].op = "send" /\ Suite[j][l].tx = u
  BY DEF IsSent
<1>4. PICK l \in 1..Len(Suite[j]) : Suite[j][l].op = "send" /\ Suite[j][l].tx = u
  BY <1>3
<1>5. i \in DOMAIN Suite /\ j \in DOMAIN Suite /\ k \in DOMAIN Suite[i] /\ l \in DOMAIN Suite[j]
  BY SuiteShape DEF Scenarios
<1>6. i = j /\ k = l
  BY <1>2, <1>4, <1>5, SuiteExpects DEF NoRecordTwice
<1> QED
  BY <1>2, <1>4, <1>6

\* What the body is to send is taken by the contracts.
LEMMA SendIsWelcome ==
  ASSUME IInv, Warm, TrafficInv, BooksInv, InBody, mid = "ready", Now.op = "send"
  PROVE  Refusal(Now.tx) = "none"
<1> DEFINE t == Now.tx
           b == Body[t]
<1>1. t \in Txs /\ Welcome(Suite, at, step, b)
  BY Here DEF Expects, KeepsTo, Submits, Now
<1>2. txState[t] = "unsent" /\ IsSent(t)
  BY Here DEF TxInv, Ahead, Submits, Now, InBody, IsSent
<1>3. b \in TxBodies /\ NoOne \notin Attesters
  BY <1>1, ChainAssumption
<1>4. b.by \in active
  BY <1>1, HeardIsThere DEF Welcome
\* Nothing of its kind has had its records before.
<1>5. ASSUME NEW u \in Txs, txState[u] = "ok", Body[u].kind = b.kind, NEW r, r \in Body[u].recs, r \in b.recs
      PROVE  FALSE
  <2>1. IsSent(u) /\ u # t
    BY <1>2, <1>5 DEF TrafficInv
  <2> QED
    BY <1>1, <1>2, <1>5, <2>1, SentApart, Here
<1>6. CASE b.kind = "file"
  <2>1. \A r \in b.recs : filedBy[r] = NoOne
    <3>1. SUFFICES ASSUME NEW r \in b.recs, filedBy[r] # NoOne PROVE FALSE
      OBVIOUS
    <3>2. r \in Records
      BY <1>3 DEF TxBodies
    <3> QED
      BY <1>5, <1>6, <3>1, <3>2 DEF BooksInv
  <2>2. FileRefusal(t) = "none"
    BY <1>1, <2>1 DEF FileRefusal, Welcome
  <2> QED
    BY <1>4, <1>6, <2>2 DEF Refusal
<1>7. CASE b.kind = "mint"
  <2>1. \A r \in b.recs : spentBy[r] = NoOne
    <3>1. SUFFICES ASSUME NEW r \in b.recs, spentBy[r] # NoOne PROVE FALSE
      OBVIOUS
    <3>2. r \in Records
      BY <1>3 DEF TxBodies
    <3> QED
      BY <1>5, <1>7, <3>1, <3>2 DEF BooksInv
  <2>2. b.recs # {} /\ \A r \in b.recs : filedBy[r] = b.by
    BY <1>1, <1>7, OwnRecordsAreFiled DEF Welcome
  <2>3. MintRefusal(t) = "none"
    BY <1>1, <2>1, <2>2 DEF MintRefusal, Welcome, BadOwner, Duplicate
  <2> QED
    BY <1>4, <1>7, <2>3 DEF Refusal
<1> QED
  BY <1>3, <1>6, <1>7 DEF TxBodies

\* What the body wants refused is, with the error it waits for.
LEMMA RefusedIsUnwelcome ==
  ASSUME IInv, Warm, TrafficInv, BooksInv, InBody, Now.op = "refused"
  PROVE  Refusal(Now.tx) = Now.error /\ Now.error # "none"
<1> DEFINE t == Now.tx
           b == Body[t]
<1>1. t \in Txs /\ Unwelcome(Suite, at, step, b, Now.error)
  BY Here DEF Expects, KeepsTo, Submits, Now
<1>2. b \in TxBodies /\ NoOne \notin Attesters /\ NoOne \notin Txs
  BY <1>1, ChainAssumption
<1>3. CASE Now.error = "AttesterNotActive" /\ b.by # Zero /\ Uncounted(Suite, at, step, b.by)
  <2>1. b.by \notin active
    BY <1>2, <1>3, UncountedIsNot DEF TxBodies
  <2> QED
    BY <1>3, <2>1 DEF Refusal
<1>4. CASE /\ Heard(Suite, at, step, b.by) /\ ~b.sound
           /\ Now.error = IF b.kind = "file" THEN "InvalidTokenId" ELSE "InvalidAmount"
  <2>1. b.by \in active
    BY <1>4, HeardIsThere
  <2> QED
    BY <1>4, <2>1 DEF Refusal, FileRefusal, MintRefusal
<1>5. CASE /\ Heard(Suite, at, step, b.by) /\ b.sound /\ b.kind = "file"
           /\ Now.error = "AlreadyExists" /\ Repeats(Suite, at, step, b, "file")
  <2>1. b.by \in active
    BY <1>5, HeardIsThere
  <2>2. PICK u \in Txs : Landed(Suite, at, step, u) /\ Body[u].kind = "file" /\ Body[u].recs \cap b.recs # {}
    BY <1>5 DEF Repeats
  <2>3. txState[u] = "ok" /\ Body[u].by # NoOne
    BY <1>2, <2>2, LandedIsOk, ChainAssumption DEF TxBodies
  <2>4. \E r \in b.recs : filedBy[r] # NoOne
    BY <2>2, <2>3 DEF BooksInv
  <2> QED
    BY <1>5, <2>1, <2>4 DEF Refusal, FileRefusal
<1>6. CASE /\ Heard(Suite, at, step, b.by) /\ b.sound /\ b.kind = "mint"
           /\ Now.error = "BadOwner" /\ \E r \in b.recs : NotFor(Suite, r, b.by)
  <2>1. b.by \in active
    BY <1>6, HeardIsThere
  <2>2. PICK r \in b.recs : NotFor(Suite, r, b.by)
    BY <1>6
  <2>3. filedBy[r] # b.by
    <3>1. SUFFICES ASSUME filedBy[r] = b.by PROVE FALSE
      OBVIOUS
    <3>2. r \in Records /\ b.by # NoOne
      BY <1>2 DEF TxBodies
    <3>3. PICK u \in Txs : /\ txState[u] = "ok" /\ Body[u].kind = "file"
                           /\ r \in Body[u].recs /\ Body[u].by = b.by
      BY <3>1, <3>2 DEF BooksInv
    <3>4. PICK i \in Scenarios : \E k \in 1..Len(Suite[i]) : Suite[i][k].op = "send" /\ Suite[i][k].tx = u
      BY <3>3 DEF TrafficInv, IsSent
    <3>5. PICK k \in 1..Len(Suite[i]) : Suite[i][k].op = "send" /\ Suite[i][k].tx = u
      BY <3>4
    <3>6. i \in DOMAIN Suite /\ k \in DOMAIN Suite[i]
      BY Here, SuiteShape DEF Scenarios
    <3> QED
      BY <2>2, <3>3, <3>5, <3>6 DEF NotFor
  <2>4. BadOwner(t) # {} /\ b.recs # {}
    BY <2>3 DEF BadOwner
  <2> QED
    BY <1>6, <2>1, <2>4 DEF Refusal, MintRefusal
<1>7. CASE /\ Heard(Suite, at, step, b.by) /\ b.sound /\ b.kind = "mint"
           /\ Now.error = "Duplicate" /\ OwnRecords(Suite, at, step, b) /\ Repeats(Suite, at, step, b, "mint")
  <2>1. b.by \in active
    BY <1>7, HeardIsThere
  <2>2. PICK u \in Txs : Landed(Suite, at, step, u) /\ Body[u].kind = "mint" /\ Body[u].recs \cap b.recs # {}
    BY <1>7 DEF Repeats
  <2>3. txState[u] = "ok"
    BY <2>2, LandedIsOk
  <2>4. Duplicate(t) # {} /\ b.recs # {}
    BY <2>2, <2>3 DEF BooksInv, Duplicate
  <2>5. BadOwner(t) = {}
    BY <1>7, OwnRecordsAreFiled DEF BadOwner
  <2> QED
    BY <1>7, <2>1, <2>4, <2>5 DEF Refusal, MintRefusal
<1> QED
  BY <1>1, <1>3, <1>4, <1>5, <1>6, <1>7 DEF Unwelcome


\* Whom new_attester registers is new.
LEMMA EnrolIsNew ==
  ASSUME IInv, InBody, mid = "ready", Now.op = "newAttester"
  PROVE  CallRefusal(RegisterCall(Admin, Now.who, AttesterMask)) = "none"
<1> DEFINE a == Now.who
           c == RegisterCall(Admin, a, AttesterMask)
<1>1. a \in Attesters \ {Zero}
  BY Here DEF KeepsTo, Now
<1>2. Enrols(Suite[at][step], a)
  BY DEF Enrols, Now
<1>3. Unenrolled(a)
  <2>1. ASSUME NEW i \in Scenarios, NEW k \in 1..Len(Suite[i]), Enrols(Suite[i][k], a) PROVE Ahead(i, k)
    <3>1. i = at /\ k = step
      BY <1>2, <2>1, EnrolledOnce, Here
    <3> QED
      BY <3>1 DEF Ahead
  <2> QED
    BY <2>1 DEF Unenrolled
<1>4. a \notin active
  BY <1>1, <1>3 DEF IInv, RegisterInv
<1>5. c.by = Admin /\ c.who = a /\ c.fn = "register" /\ c.value.mask = 15
  BY DEF RegisterCall, AttesterMask, Blank
<1>6. a # ZeroAddress
  BY <1>1, RegistryAssumption
<1> QED
  BY <1>4, <1>5, <1>6 DEF CallRefusal

\* Whoever the body calls for has been enrolled by it and not revoked.
LEMMA CallsStand ==
  ASSUME IInv, InBody, Now.op = "call"
  PROVE  /\ Obeyed(Suite, at, step, Now.call)
         /\ Enrolled(Now.call.who) /\ Unrevoked(Now.call.who)
         /\ Now.call.who \in Attesters \ {Zero}
<1> DEFINE a == Now.call.who
<1>1. Obeyed(Suite, at, step, Now.call)
  BY Here DEF Expects, Now
<1>2. Enrolled(a)
  BY <1>1 DEF Obeyed, Enrolled
<1>3. \A m \in Scenarios : \A l \in 1..Len(Suite[m]) : Revokes(Suite[m][l], a) => m = at /\ l >= step
  BY <1>1, Here, SuiteShape DEF Obeyed, Scenarios
<1>4. Unrevoked(a)
  BY <1>3, Here DEF Unrevoked
<1> QED
  BY <1>1, <1>2, <1>4, StillThere

LEMMA CallIsObeyed ==
  ASSUME IInv, \A a \in Attesters \ {Zero} : RecordInv(a), InBody, Now.op = "call"
  PROVE  CallRefusal(Now.call) = "none"
<1> DEFINE c == Now.call
           a == Now.call.who
<1>1. Obeyed(Suite, at, step, c) /\ a \in Attesters \ {Zero}
  BY CallsStand
<1>2. a \in active /\ a # ZeroAddress
  BY <1>1, CallsStand, StillThere, RegistryAssumption
<1>3. c.fn = "setRotationCandidate" /\ c.value = TRUE => details[a].key # NoKey
  <2>1. SUFFICES ASSUME c.fn = "setRotationCandidate", c.value = TRUE PROVE details[a].key # NoKey
    OBVIOUS
  <2>2. SeenKey(a)
    BY <1>1, <2>1 DEF Obeyed, SeenKey
  <2> QED
    BY <1>1, <2>2 DEF RecordInv
<1>4. c.fn = "setRotationCandidate" => c.value \in BOOLEAN
  BY Here DEF KeepsTo, Calls, IsCall, Values, Now
<1>5. c.by = Admin /\ c.fn # "register"
  BY <1>1 DEF Obeyed
<1> QED
  BY <1>2, <1>3, <1>4, <1>5 DEF CallRefusal

LEMMA CallIsTurnedAway ==
  ASSUME IInv, InBody, Now.op = "callRefused"
  PROVE  CallRefusal(Now.call) = Now.error /\ Now.error # "none"
<1> DEFINE c == Now.call
<1>1. TurnedAway(Suite, c, Now.error) /\ IsCall(c)
  BY Here DEF Expects, KeepsTo, Calls, Now
<1>2. CASE /\ Now.error = "NotRegistered" /\ c.by = Admin /\ c.who \notin {ZeroAddress, Zero}
           /\ c.fn # "register"
           /\ \A m \in DOMAIN Suite : \A l \in DOMAIN Suite[m] : ~Enrols(Suite[m][l], c.who)
  <2>1. c.who \in Attesters \ {Zero}
    BY <1>1, <1>2 DEF IsCall, Addresses
  <2>2. Unenrolled(c.who)
    BY <1>2, Here, SuiteShape DEF Unenrolled, Scenarios
  <2>3. c.who \notin active
    BY <2>1, <2>2 DEF IInv, RegisterInv
  <2> QED
    BY <1>2, <2>3 DEF CallRefusal
<1>3. CASE Now.error # "NotRegistered"
  BY <1>1, <1>3 DEF TurnedAway, CallRefusal
<1> QED
  BY <1>1, <1>2, <1>3 DEF TurnedAway

\* A read shows what the body expects of it.
LEMMA CheckShows ==
  ASSUME IInv, Warm, \A a \in Attesters \ {Zero} : RecordInv(a), InBody, Now.op = "check"
  PROVE  View(Now.who)[Now.field] = Now.value /\ View(Now.who).active \in Now.bits
<1> DEFINE a == Now.who
<1>1. /\ Counted(Suite, at, step, a) /\ Untouched(Suite, at, step, a)
      /\ Newcomer[Now.field] = Now.value /\ TRUE \in Now.bits
  BY Here DEF Expects, Now
<1>2. Heard(Suite, at, step, a)
  BY <1>1 DEF Heard
<1>3. a \in active
  BY <1>2, HeardIsThere
<1>4. a \in Attesters \ {Zero}
  <2>1. Enrolled(a)
    BY <1>1 DEF Counted, Enrolled
  <2>2. \E k \in 1..Len(Suite[at]) : Enrols(Suite[at][k], a)
    BY <2>1, Here DEF Enrolled
  <2> QED
    BY <2>2, Here, SuiteShape DEF KeepsTo, Enrols
<1>5. Spared(a)
  <2>1. \A m \in Scenarios : \A l \in 1..Len(Suite[m]) :
          Suite[m][l].op = "call" /\ Suite[m][l].call.who = a => m = at /\ l > step
    BY <1>1, Here, SuiteShape DEF Untouched, Scenarios
  <2> QED
    BY <2>1, Here DEF Spared
<1>6. details[a] = AsEnrolled
  BY <1>3, <1>4, <1>5 DEF RecordInv
<1>7. AsEnrolled.mask = AttesterMask /\ AsEnrolled.rotation = FALSE /\ AsEnrolled.key = NoKey
  BY DEF AsEnrolled, Blank
<1>8. View(a) = Newcomer
  <2>1. (a \in active) = TRUE
    BY <1>3
  <2>2. /\ details[a].mask = AttesterMask /\ details[a].rotation = FALSE /\ details[a].key = NoKey
    BY <1>6, <1>7
  <2> HIDE DEF a
  <2> QED
    BY <2>1, <2>2 DEF View, Newcomer
<1>9. Newcomer.active = TRUE
  BY DEF Newcomer
<1> QED
  BY <1>1, <1>8, <1>9

LEMMA PollShows ==
  ASSUME IInv, Warm, InBody, Now.op = "poll"
  PROVE  View(Now.who).active \in Now.bits
<1> DEFINE a == Now.who
<1>1. Now.bits = BOOLEAN \/ (TRUE \in Now.bits /\ Counted(Suite, at, step, a))
  BY Here DEF Expects, Now
<1>2. View(a).active = (a \in active)
  BY DEF View
<1>3. CASE Now.bits = BOOLEAN
  BY <1>2, <1>3
<1>4. CASE TRUE \in Now.bits /\ Counted(Suite, at, step, a)
  <2>1. a \in active
    BY <1>4, HeardIsThere DEF Heard
  <2>2. View(a).active = TRUE
    BY <1>2, <2>1
  <2> QED
    BY <1>4, <2>2
<1> QED
  BY <1>1, <1>3, <1>4


\* What has passed its estimate is to be sent, and the pool knows its sender.
LEMMA CheckedIsSent ==
  ASSUME IInv, Warm, TrafficInv, BooksInv, mid = "checked"
  PROVE  InBody /\ Now.op = "send" /\ Now.tx \in Txs /\ Body[Now.tx].by \in members
<1>1. InBody /\ Submits(Now) /\ txState[Now.tx] = "checked"
  BY Here DEF MidInv
<1>2. Now.tx \in Txs
  BY <1>1, Here DEF KeepsTo, Now
<1>3. Accepted(Now.tx)
  BY <1>1, <1>2 DEF TrafficInv
<1>4. Now.op # "refused"
  BY <1>1, <1>3, RefusedIsUnwelcome DEF Accepted
<1>5. Heard(Suite, at, step, Body[Now.tx].by)
  BY DEF IInv, SenderInv, Heard
<1> QED
  BY <1>1, <1>2, <1>4, <1>5, HeardIsThere DEF Submits

\* A scenario fails only by a fault.
LEMMA Outcomes ==
  ASSUME IInv, Warm, VInv, Next
  PROVE  /\ faulted \subseteq faulted'
         /\ \/ UNCHANGED verdict
            \/ InBody /\ Advance
            \/ InBody /\ Fail /\ at \in faulted'
<1> USE DEF Running, Doing, scriptVars
<1>0. TrafficInv /\ BooksInv /\ \A a \in Attesters \ {Zero} : RecordInv(a)
  BY DEF VInv
<1>1. CASE BootStep
  BY <1>1 DEF BootStep, BootActive, BootRegister, BootReceipt, BootFails
<1>2. CASE Estimated
  BY <1>2 DEF Estimated, Reach
<1>3. CASE EstimateRefused
  BY <1>0, <1>3, SendIsWelcome, RefusedIsUnwelcome DEF EstimateRefused, Submitting
<1>4. CASE Admitted
  BY <1>0, <1>4, CheckedIsSent DEF Admitted
<1>5. CASE Unclaimed
  BY <1>0, <1>5, CheckedIsSent DEF Unclaimed
<1>6. CASE Receipt
  <2>1. Now.tx \in Txs /\ InBody
    BY <1>6, Here DEF Receipt, KeepsTo, Now
  <2>2. txState[Now.tx] # "reverted"
    BY <1>0, <2>1 DEF TrafficInv
  <2> QED
    BY <1>6, <2>2 DEF Receipt
<1>7. CASE RecordsExist \/ SeenActive \/ SeenInPool
  BY <1>7 DEF RecordsExist, SeenActive, SeenInPool, Reach
<1>8. CASE SubmitFault \/ WaitFault \/ RegisterFault \/ CallFault
  <2>1. Fault /\ InBody
    BY <1>8 DEF SubmitFault, WaitFault, RegisterFault, CallFault, Submitting
  <2> QED
    BY <2>1 DEF Fault, Faulty
<1>9. CASE Register
  BY <1>9, EnrolIsNew DEF Register, Reach
<1>10. CASE CallSent
  BY <1>0, <1>10, CallIsObeyed DEF CallSent
<1>11. CASE CallTurnedDown
  BY <1>11, CallIsTurnedAway DEF CallTurnedDown
<1>12. CASE Checked
  BY <1>0, <1>12, CheckShows DEF Checked
<1>13. CASE Polled
  BY <1>0, <1>13, PollShows DEF Polled
<1>14. CASE ChainStep
  BY <1>14 DEF ChainStep, Block, RegistryBlock, Finalized
<1> QED
  BY <1>1, <1>2, <1>3, <1>4, <1>5, <1>6, <1>7, <1>8, <1>9, <1>10, <1>11, <1>12, <1>13, <1>14
     DEF Next, BodyStep

LEMMA DeservedStep ==
  ASSUME IInv, Warm, VInv, Next
  PROVE  Deserved'
<1>1. Effect /\ Scenarios' = Scenarios /\ at \in Scenarios \cup {Len(Suite) + 1}
  <2>1. MidInv /\ [Next]_vars
    BY Here
  <2>2. Effect
    BY <2>1, ActionEffects
  <2> QED
    BY <2>2, Here, PlacesMove, SuiteShape DEF TypeOK, ScriptTypeOK, Scenarios
<1>2. verdict \in [Scenarios -> {"todo", "pass", "fail"}] /\ Deserved
  BY Here DEF TypeOK, ScriptTypeOK, VInv
<1>3. SUFFICES ASSUME NEW i \in Scenarios, verdict'[i] = "fail" PROVE i \in faulted'
  BY <1>1 DEF Deserved
<1>4. CASE verdict[i] = "fail"
  BY <1>2, <1>4, Outcomes DEF Deserved
<1>5. CASE verdict[i] # "fail"
  <2>1. ~UNCHANGED verdict /\ ~(InBody /\ Advance)
    BY <1>2, <1>3, <1>5 DEF Advance, Pass, End, InBody
  <2>2. InBody /\ Fail /\ at \in faulted'
    BY <2>1, Outcomes
  <2>3. i = at
    BY <1>2, <1>3, <1>5, <2>2 DEF Fail, End, InBody
  <2> QED
    BY <2>2, <2>3
<1> QED
  BY <1>4, <1>5


-----------------------------------------------------------------------------
(* The records and what is under way.                                      *)

\* A block does what the call asks for, if it is not refused.
LEMMA RegistryEffect ==
  ASSUME PoolSeq, RegistryBlock
  PROVE  /\ PoolSeq' /\ UNCHANGED <<recordVars, txState, scriptVars>>
         /\ Len(adminPool) \in Nat \ {0} /\ Len(adminPool') = Len(adminPool) - 1
         /\ \A p \in 1..Len(adminPool') : adminPool'[p] = adminPool[p + 1] /\ p + 1 \in 1..Len(adminPool)
         /\ \/ UNCHANGED <<details, active>>
            \/ /\ CallRefusal(adminPool[1]) = "none"
               /\ details' = [details EXCEPT ![adminPool[1].who] = Written(adminPool[1])]
               /\ active' = CASE adminPool[1].fn = "register" -> active \cup {adminPool[1].who}
                              [] adminPool[1].fn = "revoke" -> active \ {adminPool[1].who}
                              [] OTHER -> active
<1>1. AdminInclude /\ UNCHANGED <<recordVars, txState, scriptVars>>
  BY DEF RegistryBlock
<1>2. /\ PoolSeq' /\ Len(adminPool) \in Nat \ {0} /\ Len(adminPool') = Len(adminPool) - 1
      /\ Head(adminPool) = adminPool[1]
      /\ \A p \in 1..Len(adminPool') : adminPool'[p] = adminPool[p + 1]
  BY <1>1, TakeFirst DEF AdminInclude
<1>3. \A p \in 1..Len(adminPool') : p + 1 \in 1..Len(adminPool)
  BY <1>2
<1>4. \/ UNCHANGED <<details, active>>
      \/ /\ CallRefusal(adminPool[1]) = "none"
         /\ details' = [details EXCEPT ![adminPool[1].who] = Written(adminPool[1])]
         /\ active' = CASE adminPool[1].fn = "register" -> active \cup {adminPool[1].who}
                        [] adminPool[1].fn = "revoke" -> active \ {adminPool[1].who}
                        [] OTHER -> active
  <2>1. CASE CallRefusal(adminPool[1]) # "none"
    BY <1>1, <1>2, <2>1 DEF AdminInclude, memberVars
  <2>2. CASE CallRefusal(adminPool[1]) = "none"
    <3>1. /\ details' = [details EXCEPT ![adminPool[1].who] = Written(adminPool[1])]
          /\ CASE adminPool[1].fn = "register" -> HeadBecomes(active \cup {adminPool[1].who})
               [] adminPool[1].fn = "revoke" -> HeadBecomes(active \ {adminPool[1].who})
               [] OTHER -> UNCHANGED memberVars
      BY <1>1, <1>2, <2>2 DEF AdminInclude
    <3> QED
      BY <2>2, <3>1 DEF HeadBecomes, memberVars
  <2> QED
    BY <2>1, <2>2
<1> QED
  BY <1>1, <1>2, <1>3, <1>4

\* What is under way when a block is made is executed.
LEMMA BlockEffect ==
  ASSUME IInv, TrafficInv, Block
  PROVE  \E t \in Txs :
           /\ txState[t] = "pool" /\ Accepted(t) /\ IsSent(t)
           /\ txState' = [txState EXCEPT ![t] = "ok"]
           /\ filedBy' = IF Body[t].kind = "file"
                           THEN [r \in Records |-> IF r \in Body[t].recs THEN Body[t].by ELSE filedBy[r]]
                           ELSE filedBy
           /\ spentBy' = IF Body[t].kind = "file" THEN spentBy
                           ELSE [r \in Records |-> IF r \in Body[t].recs THEN t ELSE spentBy[r]]
           /\ UNCHANGED <<active, adminPool, details, scriptVars>>
<1>1. PICK t \in Txs : Include(t) /\ UNCHANGED <<registryVars, scriptVars>>
  BY DEF Block
<1>2. txState[t] = "pool"
  BY <1>1 DEF Include
<1>3. Accepted(t) /\ IsSent(t)
  BY <1>2 DEF TrafficInv
<1> QED
  BY <1>1, <1>2, <1>3 DEF Include, memberVars, registryVars

\* What a file that is accepted takes nobody has filed.
LEMMA AcceptedFile ==
  ASSUME NEW t \in Txs, Accepted(t), Body[t].kind = "file"
  PROVE  \A r \in Body[t].recs : filedBy[r] = NoOne
  BY DEF Accepted, Refusal, FileRefusal

LEMMA AcceptedMint ==
  ASSUME NEW t \in Txs, Accepted(t), Body[t].kind = "mint"
  PROVE  /\ \A r \in Body[t].recs : filedBy[r] = Body[t].by
         /\ \A r \in Body[t].recs : spentBy[r] = NoOne
<1>1. MintRefusal(t) = "none"
  BY DEF Accepted, Refusal
<1> QED
  BY <1>1 DEF MintRefusal, BadOwner, Duplicate

\* What the guards look at: the sender, and the records.
LEMMA AcceptedStays ==
  ASSUME NEW t \in Txs, Accepted(t), Body[t].by \in active',
         Body[t].kind \in {"file", "mint"},
         \A r \in Body[t].recs : filedBy'[r] = filedBy[r],
         Body[t].kind = "mint" => \A r \in Body[t].recs : spentBy'[r] = spentBy[r]
  PROVE  Accepted(t)'
<1>1. CASE Body[t].kind = "file"
  BY <1>1 DEF Accepted, Refusal, FileRefusal
<1>2. CASE Body[t].kind = "mint"
  <2>1. MintRefusal(t) = "none"
    BY <1>2 DEF Accepted, Refusal
  <2>2. BadOwner(t)' = BadOwner(t) /\ Duplicate(t)' = Duplicate(t)
    BY <1>2 DEF BadOwner, Duplicate
  <2>3. MintRefusal(t)' = "none"
    BY <2>1, <2>2 DEF MintRefusal
  <2> QED
    BY <1>2, <2>3 DEF Accepted, Refusal
<1> QED
  BY <1>1, <1>2

LEMMA BooksStep ==
  ASSUME IInv, Warm, VInv, [Next]_vars
  PROVE  BooksInv'
<1>1. TrafficInv /\ BooksInv /\ MidInv /\ SuiteIs /\ TypeOK
  BY Here DEF VInv
<1>2. txState \in [Txs -> TxStates] /\ NoOne \notin Txs /\ NoOne \notin Attesters /\ Body \in [Txs -> TxBodies]
  BY <1>1, ChainAssumption DEF TypeOK, ChainTypeOK
<1>3. CASE Block
  <2>1. PICK t \in Txs :
           /\ txState[t] = "pool" /\ Accepted(t)
           /\ txState' = [txState EXCEPT ![t] = "ok"]
           /\ filedBy' = IF Body[t].kind = "file"
                           THEN [r \in Records |-> IF r \in Body[t].recs THEN Body[t].by ELSE filedBy[r]]
                           ELSE filedBy
           /\ spentBy' = IF Body[t].kind = "file" THEN spentBy
                           ELSE [r \in Records |-> IF r \in Body[t].recs THEN t ELSE spentBy[r]]
    BY <1>1, <1>3, BlockEffect
  <2>2. Body[t].by \in Attesters /\ Body[t].kind \in {"file", "mint"} /\ Body[t].recs \subseteq Records
    BY <1>2 DEF TxBodies
  <2>3. \A u \in Txs : (txState'[u] = "ok") = (txState[u] = "ok" \/ u = t)
    BY <1>2, <2>1
  <2>4. \A u \in Txs : \A r \in Body[u].recs : r \in Records
    BY <1>2 DEF TxBodies
  <2>5. ASSUME NEW r \in Records, filedBy'[r] # NoOne
        PROVE  \E u \in Txs : /\ txState'[u] = "ok" /\ Body[u].kind = "file"
                              /\ r \in Body[u].recs /\ Body[u].by = filedBy'[r]
    <3>1. CASE Body[t].kind = "file" /\ r \in Body[t].recs
      BY <2>1, <2>3, <3>1
    <3>2. CASE ~(Body[t].kind = "file" /\ r \in Body[t].recs)
      <4>1. filedBy'[r] = filedBy[r]
        BY <2>1, <3>2
      <4> QED
        BY <1>1, <2>3, <2>5, <4>1 DEF BooksInv
    <3> QED
      BY <3>1, <3>2
  <2>6. ASSUME NEW r \in Records, spentBy'[r] # NoOne
        PROVE  \E u \in Txs : txState'[u] = "ok" /\ Body[u].kind = "mint" /\ r \in Body[u].recs
    <3>1. CASE Body[t].kind = "mint" /\ r \in Body[t].recs
      BY <2>1, <2>3, <3>1
    <3>2. CASE ~(Body[t].kind = "mint" /\ r \in Body[t].recs)
      <4>1. spentBy'[r] = spentBy[r]
        BY <2>1, <2>2, <3>2
      <4> QED
        BY <1>1, <2>3, <2>6, <4>1 DEF BooksInv
    <3> QED
      BY <3>1, <3>2
  <2>7. ASSUME NEW u \in Txs, txState'[u] = "ok", NEW r \in Body[u].recs
        PROVE  IF Body[u].kind = "file" THEN filedBy'[r] = Body[u].by ELSE spentBy'[r] # NoOne
    <3>1. r \in Records
      BY <2>4
    <3>2. CASE u = t
      BY <1>2, <2>1, <2>2, <3>1, <3>2
    <3>3. CASE u # t
      <4>1. txState[u] = "ok" /\ Body[u].by \in Attesters
        BY <1>2, <2>3, <2>7, <3>3 DEF TxBodies
      <4>2. CASE Body[u].kind = "file"
        <5>1. filedBy[r] = Body[u].by /\ filedBy[r] # NoOne
          BY <1>1, <1>2, <4>1, <4>2 DEF BooksInv
        <5>2. ~(Body[t].kind = "file" /\ r \in Body[t].recs)
          BY <2>1, <5>1, AcceptedFile
        <5> QED
          BY <2>1, <3>1, <4>2, <5>1, <5>2
      <4>3. CASE Body[u].kind # "file"
        <5>1. spentBy[r] # NoOne
          BY <1>1, <4>1, <4>3 DEF BooksInv
        <5> QED
          BY <1>2, <2>1, <3>1, <4>3, <5>1
      <4> QED
        BY <4>2, <4>3
    <3> QED
      BY <3>2, <3>3
  <2> QED
    BY <2>5, <2>6, <2>7 DEF BooksInv
<1>4. CASE ~Block
  <2>1. UNCHANGED recordVars
    BY <1>1, <1>4, EffectsOf DEF RegistryBlock
  <2>2. \A u \in Txs : (txState'[u] = "ok") = (txState[u] = "ok")
    <3>1. CASE RegistryBlock
      BY <3>1 DEF RegistryBlock
    <3>2. CASE ClientEffect
      <4>1. CASE UNCHANGED txState
        BY <4>1
      <4>2. CASE Estimates
        BY <1>2, <4>2 DEF Estimates
      <4>3. CASE Answered
        <5>1. txState[Now.tx] = "checked"
          BY <1>1, <4>3 DEF MidInv, Answered
        <5> QED
          BY <1>2, <4>3, <5>1 DEF Answered
      <4> QED
        BY <3>2, <4>1, <4>2, <4>3 DEF ClientEffect, Still, Judged, Waits, BootPosts, EnrolPosts, BodyPosts, Finalizes
    <3> QED
      BY <1>1, <1>4, <3>1, <3>2, EffectsOf
  <2> QED
    BY <1>1, <2>1, <2>2 DEF BooksInv, recordVars
<1> QED
  BY <1>3, <1>4


\* A call posted revokes nobody who has something under way.
LEMMA RevokesNobodyHeard ==
  ASSUME IInv, TrafficInv, BodyPosts, Now.call.fn = "revoke",
         NEW t \in Txs, txState[t] \in {"checked", "pool"}, Body[t].by = Now.call.who
  PROVE  FALSE
<1> DEFINE a == Now.call.who
<1>1. InBody /\ Calls(Now) /\ CallRefusal(Now.call) = "none"
  BY DEF BodyPosts
<1>2. Now.op = "call"
  BY <1>1, CallIsTurnedAway DEF Calls
<1>3. Obeyed(Suite, at, step, Now.call) /\ a # Zero
  BY <1>1, <1>2, CallsStand
<1>4. PICK i \in Scenarios : \E k \in 1..Len(Suite[i]) : Suite[i][k].op = "send" /\ Suite[i][k].tx = t
  BY DEF TrafficInv, IsSent
<1>5. PICK k \in 1..Len(Suite[i]) : Suite[i][k].op = "send" /\ Suite[i][k].tx = t
  BY <1>4
<1>6. Counted(Suite, i, k, a)
  <2>1. Expects(Suite, i, k)
    BY Here, SuiteExpects
  <2> QED
    BY <1>3, <1>5, <2>1 DEF Expects, Welcome, Heard
<1>7. Revokes(Suite[at][step], a)
  BY <1>1 DEF Revokes, Now
<1>8. at = i /\ step > k
  BY <1>1, <1>6, <1>7, Here DEF Counted
<1>9. k \in 1..(step - 1)
  BY <1>8, Here
<1>10. Landed(Suite, at, step, t)
  BY <1>3, <1>5, <1>8, <1>9 DEF Obeyed
<1> QED
  BY <1>1, <1>10, LandedIsOk

LEMMA TrafficStep ==
  ASSUME IInv, Warm, VInv, [Next]_vars
  PROVE  TrafficInv'
<1>1. TrafficInv /\ BooksInv /\ MidInv /\ SuiteIs /\ TypeOK /\ PoolSeq /\ TxInv
  BY Here DEF VInv
<1>2. /\ txState \in [Txs -> TxStates] /\ NoOne \notin Txs /\ NoOne \notin Attesters /\ Body \in [Txs -> TxBodies]
      /\ \A t \in Txs : Body[t].kind \in {"file", "mint"} /\ Body[t].by \in Attesters /\ Body[t].recs \subseteq Records
  BY <1>1, ChainAssumption DEF TypeOK, ChainTypeOK, TxBodies
<1>3. Suite' = Suite /\ Scenarios' = Scenarios
  BY <1>1, PlacesMove, ActionEffects
<1>4. \A t : IsSent(t)' = IsSent(t)
  BY <1>3 DEF IsSent
<1>5. \A t \in Txs : txState[t] \in {"checked", "pool"} => Body[t].by \in active
  BY <1>1 DEF TrafficInv, Accepted, Refusal
<1>6. ASSUME NEW t \in Txs, Accepted(t), UNCHANGED <<recordVars, active>> PROVE Accepted(t)'
  BY <1>6 DEF recordVars, Accepted, Refusal, FileRefusal, MintRefusal, BadOwner, Duplicate
<1>7. CASE Block
  <2>1. PICK t \in Txs :
           /\ txState[t] = "pool" /\ Accepted(t) /\ IsSent(t)
           /\ txState' = [txState EXCEPT ![t] = "ok"]
           /\ filedBy' = IF Body[t].kind = "file"
                           THEN [r \in Records |-> IF r \in Body[t].recs THEN Body[t].by ELSE filedBy[r]]
                           ELSE filedBy
           /\ spentBy' = IF Body[t].kind = "file" THEN spentBy
                           ELSE [r \in Records |-> IF r \in Body[t].recs THEN t ELSE spentBy[r]]
           /\ UNCHANGED <<active, adminPool, details, scriptVars>>
    BY <1>1, <1>7, BlockEffect
  <2>2. ASSUME NEW u \in Txs, txState'[u] \in {"checked", "pool"} PROVE Accepted(u)' /\ NoRevocation(Body[u].by)'
    <3>1. u # t /\ txState[u] \in {"checked", "pool"}
      BY <1>2, <2>1, <2>2
    <3>2. Accepted(u) /\ IsSent(u) /\ NoRevocation(Body[u].by)
      BY <1>1, <3>1 DEF TrafficInv
    <3>3. \A r \in Body[u].recs : r \in Body[t].recs => Body[u].kind # Body[t].kind
      BY <1>1, <2>1, <3>1, <3>2, SentApart
    <3>4. \A r \in Body[u].recs : filedBy'[r] = filedBy[r]
      <4>1. CASE Body[t].kind = "file" /\ Body[u].kind = "mint"
        <5>1. \A r \in Body[u].recs : filedBy[r] = Body[u].by
          BY <3>2, <4>1, AcceptedMint
        <5>2. \A r \in Body[t].recs : filedBy[r] = NoOne
          BY <2>1, <4>1, AcceptedFile
        <5>3. \A r \in Body[u].recs : r \notin Body[t].recs /\ r \in Records
          BY <1>2, <5>1, <5>2
        <5> QED
          BY <2>1, <4>1, <5>3
      <4>2. CASE ~(Body[t].kind = "file" /\ Body[u].kind = "mint")
        BY <1>2, <2>1, <3>3, <4>2
      <4> QED
        BY <4>1, <4>2
    <3>5. Body[u].kind = "mint" => \A r \in Body[u].recs : spentBy'[r] = spentBy[r]
      BY <1>2, <2>1, <3>3
    <3>6. Body[u].by \in active' /\ NoRevocation(Body[u].by)'
      BY <1>5, <2>1, <3>1, <3>2 DEF NoRevocation
    <3> QED
      BY <1>2, <3>2, <3>4, <3>5, <3>6, AcceptedStays
  <2>3. ASSUME NEW u \in Txs PROVE (txState'[u] # "unsent" => IsSent(u)) /\ txState'[u] # "reverted"
    BY <1>1, <1>2, <2>1 DEF TrafficInv
  <2> QED
    BY <1>4, <2>2, <2>3 DEF TrafficInv
<1>8. CASE RegistryBlock
  <2>1. /\ UNCHANGED <<recordVars, txState, scriptVars>>
        /\ Len(adminPool) \in Nat \ {0} /\ Len(adminPool') = Len(adminPool) - 1
        /\ \A p \in 1..Len(adminPool') : adminPool'[p] = adminPool[p + 1] /\ p + 1 \in 1..Len(adminPool)
        /\ \/ UNCHANGED active
           \/ active' = CASE adminPool[1].fn = "register" -> active \cup {adminPool[1].who}
                          [] adminPool[1].fn = "revoke" -> active \ {adminPool[1].who}
                          [] OTHER -> active
    BY <1>1, <1>8, RegistryEffect
  <2>2. ASSUME NEW u \in Txs, txState'[u] \in {"checked", "pool"} PROVE Accepted(u)' /\ NoRevocation(Body[u].by)'
    <3>1. Accepted(u) /\ NoRevocation(Body[u].by) /\ Body[u].by \in active
      BY <1>1, <1>5, <2>1, <2>2 DEF TrafficInv
    <3>2. NoRevocation(Body[u].by)'
      BY <2>1, <3>1 DEF NoRevocation
    <3>3. ~(adminPool[1].fn = "revoke" /\ adminPool[1].who = Body[u].by)
      BY <2>1, <3>1 DEF NoRevocation
    <3>4. Body[u].by \in active'
      BY <2>1, <3>1, <3>3
    <3>5. UNCHANGED <<filedBy, spentBy>>
      BY <2>1 DEF recordVars
    <3> QED
      BY <1>2, <3>1, <3>2, <3>4, <3>5, AcceptedStays
  <2> QED
    BY <1>1, <1>4, <2>1, <2>2 DEF TrafficInv
<1>9. CASE ClientEffect /\ UNCHANGED <<recordVars, details>>
  <2>1. UNCHANGED active
    BY <1>9 DEF ClientEffect, Still, Judged, Waits, BootPosts, EnrolPosts, BodyPosts, Estimates, Answered,
       Finalizes, Finalize, memberVars
  <2>2. CASE UNCHANGED <<adminPool, txState>>
    BY <1>1, <1>4, <1>6, <1>9, <2>1, <2>2 DEF TrafficInv, NoRevocation
  <2>3. ASSUME NEW c, Post(c), UNCHANGED txState,
               \A t \in Txs : txState[t] \in {"checked", "pool"} => ~(c.fn = "revoke" /\ c.who = Body[t].by)
        PROVE  TrafficInv'
    <3>1. ASSUME NEW t \in Txs, txState'[t] \in {"checked", "pool"} PROVE NoRevocation(Body[t].by)'
      <4>1. NoRevocation(Body[t].by) /\ ~(c.fn = "revoke" /\ c.who = Body[t].by)
        BY <1>1, <2>3, <3>1 DEF TrafficInv
      <4>2. /\ Len(adminPool') = Len(adminPool) + 1 /\ Len(adminPool) \in Nat
            /\ \A p \in 1..Len(adminPool) : adminPool'[p] = adminPool[p]
            /\ adminPool'[Len(adminPool) + 1] = c
        BY <1>1, <2>3, PostAdds
      <4> QED
        BY <4>1, <4>2 DEF NoRevocation
    <3> QED
      BY <1>1, <1>4, <1>6, <1>9, <2>1, <2>3, <3>1 DEF TrafficInv
  <2>4. CASE BootPosts \/ EnrolPosts
    <3>1. ASSUME NEW a PROVE RegisterCall(Admin, a, AttesterMask).fn # "revoke"
      BY DEF RegisterCall
    <3>2. \E a : Post(RegisterCall(Admin, a, AttesterMask)) /\ UNCHANGED txState
      BY <2>4 DEF BootPosts, EnrolPosts
    <3> QED
      BY <2>3, <3>1, <3>2
  <2>5. CASE BodyPosts
    <3>1. Post(Now.call) /\ UNCHANGED txState
      BY <2>5 DEF BodyPosts
    <3> QED
      BY <1>1, <2>3, <2>5, <3>1, RevokesNobodyHeard
  <2>6. CASE Estimates
    <3>1. /\ InBody /\ mid = "ready" /\ Submits(Now) /\ Accepted(Now.tx)
          /\ txState' = [txState EXCEPT ![Now.tx] = "checked"] /\ UNCHANGED adminPool
      BY <2>6 DEF Estimates
    <3>2. Now.tx \in Txs /\ Now.op = "send"
      BY <1>1, <3>1, Here, RefusedIsUnwelcome DEF KeepsTo, Submits, Now, Accepted
    <3>3. IsSent(Now.tx)
      BY <3>1, <3>2, Here DEF IsSent, Now
    <3>4. Heard(Suite, at, step, Body[Now.tx].by)
      BY <3>1, <3>2, Here DEF Expects, Welcome, Now
    <3>5. NoRevocation(Body[Now.tx].by)
      BY <3>1, <3>4, HeardIsThere DEF NoRevocation, NonePending, Pending
    <3>6. ASSUME NEW t \in Txs
          PROVE  /\ txState'[t] # "unsent" => IsSent(t)
                 /\ txState'[t] # "reverted"
                 /\ txState'[t] \in {"checked", "pool"} => Accepted(t) /\ NoRevocation(Body[t].by)
      BY <1>1, <1>2, <3>1, <3>2, <3>3, <3>5 DEF TrafficInv
    <3> QED
      BY <1>4, <1>6, <1>9, <2>1, <3>1, <3>6 DEF TrafficInv, NoRevocation
  <2>7. CASE Answered
    <3>1. PICK x \in {"pool", "unsent"} : txState' = [txState EXCEPT ![Now.tx] = x]
      BY <2>7 DEF Answered
    <3>2. txState[Now.tx] = "checked" /\ UNCHANGED adminPool
      BY <1>1, <2>7 DEF MidInv, Answered
    <3>3. ASSUME NEW t \in Txs
          PROVE  /\ txState'[t] # "unsent" => IsSent(t)
                 /\ txState'[t] # "reverted"
                 /\ txState'[t] \in {"checked", "pool"} => Accepted(t) /\ NoRevocation(Body[t].by)
      BY <1>1, <1>2, <3>1, <3>2 DEF TrafficInv
    <3> QED
      BY <1>4, <1>6, <1>9, <2>1, <3>2, <3>3 DEF TrafficInv, NoRevocation
  <2> QED
    BY <1>9, <2>2, <2>4, <2>5, <2>6, <2>7 DEF ClientEffect, Still, Judged, Waits, Finalizes
<1> QED
  BY <1>1, <1>7, <1>8, <1>9, EffectsOf


-----------------------------------------------------------------------------
(* The record of an attester.                                              *)

\* A poll goes well on what it waits for.
LEMMA PollSaw ==
  ASSUME IInv, [Next]_vars, Over, Advance, Now.op = "poll"
  PROVE  View(Now.who)[Now.field] = Now.value
<1>1. MidInv /\ TypeOK /\ InBody /\ step \in Nat /\ at \in Nat
  BY Here DEF Over
<1>2. mid \notin {"checked", "waitActive", "waitPool"}
  BY <1>1 DEF MidInv, Submits
<1>3. ~Fail
  BY <1>1, NotBoth
<1>4. at' # at \/ step' # step
  BY <1>1 DEF Advance, Pass, End
<1> QED
  BY <1>2, <1>3, <1>4 DEF Next, BootStep, BootActive, BootRegister, BootReceipt, BootFails, BodyStep, Estimated,
     EstimateRefused, Admitted, Unclaimed, SubmitFault, Receipt, RecordsExist, WaitFault, Register,
     SeenActive, SeenInPool, RegisterFault, CallSent, CallTurnedDown, CallFault, Checked, Polled,
     ChainStep, Block, RegistryBlock, Finalized, vars, scriptVars, Doing, Submitting, Fault, Reach

\* How far the body is with the calls for an attester.
LEMMA SparedMoves ==
  ASSUME IInv, Effect, NEW a
  PROVE  /\ Spared(a)' => Spared(a) /\ (Over => ~(Now.op = "call" /\ Now.call.who = a))
         /\ SeenKey(a)' => SeenKey(a) \/ (Over /\ Advance /\ ShowsKey(Now, a) /\ Enrolled(a))
<1>1. /\ SuiteIs /\ suite' = suite /\ Suite' = Suite /\ Scenarios' = Scenarios
      /\ at \in Nat /\ step \in Nat \ {0} /\ (InBody => step \in 1..Len(Suite[at]))
  BY Here, PlacesMove
<1>2. CASE Stays
  <2>1. ~Over
    BY <1>1, <1>2 DEF Stays, Over, Fail, Advance, Pass, End
  <2> QED
    BY <1>1, <1>2, <2>1 DEF Stays, Spared, SeenKey, KeyKnown, InBody
<1>3. CASE Over
  <2>1. (at' = at /\ step' = step + 1 /\ Advance) \/ (at' = at + 1 /\ step' = 1)
    BY <1>3 DEF Over, Advance, Pass, Fail, End
  <2>2. ASSUME NEW i \in Scenarios, NEW k \in 1..Len(Suite[i]), i > at' \/ (i = at' /\ k >= step')
        PROVE  i > at \/ (i = at /\ k > step)
    BY <1>1, <2>1, <2>2 DEF Scenarios
  <2>3. Spared(a)' => Spared(a)
    BY <1>1, <2>2 DEF Spared
  <2>4. Spared(a)' => ~(Now.op = "call" /\ Now.call.who = a)
    BY <1>1, <1>3, <2>2 DEF Spared, Over, InBody, Now
  <2>5. SeenKey(a)' => SeenKey(a) \/ (Advance /\ ShowsKey(Now, a) /\ Enrolled(a))
    BY <1>1, <1>3, <2>1 DEF SeenKey, KeyKnown, Enrolled, Over, Now
  <2> QED
    BY <1>3, <2>3, <2>4, <2>5
<1> QED
  BY <1>2, <1>3, OverOrStays

\* What may be posted for an attester.
Fits(c, a) ==
  c.who = a => /\ c.fn = "register" => c.value = AsEnrolled
               /\ c.fn = "setConsensusIdentity" => c.value # NoKey
               /\ Spared(a)' => c.fn = "register"

LEMMA PostedFits ==
  ASSUME IInv, ClientEffect, NEW a \in Attesters \ {Zero}
  PROVE  UNCHANGED adminPool \/ \E c : Post(c) /\ Fits(c, a)
<1>1. CASE BootPosts
  <2>1. RegisterCall(Admin, Zero, AttesterMask).who # a
    BY DEF RegisterCall
  <2> QED
    BY <1>1, <2>1 DEF BootPosts, Fits
<1>2. CASE EnrolPosts
  <2>1. /\ RegisterCall(Admin, Now.who, AttesterMask).fn = "register"
        /\ RegisterCall(Admin, Now.who, AttesterMask).value = AsEnrolled
    BY DEF RegisterCall, AsEnrolled
  <2>2. Post(RegisterCall(Admin, Now.who, AttesterMask))
    BY <1>2 DEF EnrolPosts
  <2> QED
    BY <2>1, <2>2 DEF Fits
<1>3. CASE BodyPosts
  <2>1. InBody /\ Calls(Now) /\ CallRefusal(Now.call) = "none" /\ Post(Now.call) /\ Over
    BY <1>3 DEF BodyPosts, Over
  <2>2. Now.op = "call"
    BY <2>1, CallIsTurnedAway DEF Calls
  <2>3. Obeyed(Suite, at, step, Now.call)
    BY <2>1, <2>2, CallsStand
  <2>4. Spared(a)' => Now.call.who # a
    <3>1. Effect
      BY DEF Effect
    <3> QED
      BY <2>1, <2>2, <3>1, SparedMoves
  <2> QED
    BY <2>1, <2>3, <2>4 DEF Obeyed, Fits
<1> QED
  BY <1>1, <1>2, <1>3 DEF ClientEffect, Still, Judged, Waits, Estimates, Answered, Finalizes

LEMMA RecordStep ==
  ASSUME IInv, [Next]_vars, NEW a \in Attesters \ {Zero}, RecordInv(a)
  PROVE  RecordInv(a)'
<1>1. /\ TypeOK /\ MidInv /\ PoolSeq /\ SuiteIs /\ Effect
      /\ at \in Nat /\ step \in Nat \ {0} /\ (InBody => step \in 1..Len(Suite[at]))
  BY Here, ActionEffects
<1>2. /\ Spared(a)' => Spared(a)
      /\ SeenKey(a)' => SeenKey(a) \/ (Over /\ Advance /\ ShowsKey(Now, a) /\ Enrolled(a))
  BY <1>1, SparedMoves
<1>3. details[a] \in Details
  BY <1>1 DEF TypeOK, RegistryTypeOK
<1>4. CASE RegistryBlock
  <2> DEFINE c == adminPool[1]
  <2>1. /\ UNCHANGED <<recordVars, txState, scriptVars>>
        /\ Len(adminPool) \in Nat \ {0} /\ Len(adminPool') = Len(adminPool) - 1
        /\ \A p \in 1..Len(adminPool') : adminPool'[p] = adminPool[p + 1] /\ p + 1 \in 1..Len(adminPool)
        /\ \/ UNCHANGED <<details, active>>
           \/ /\ CallRefusal(c) = "none"
              /\ details' = [details EXCEPT ![c.who] = Written(c)]
              /\ active' = CASE c.fn = "register" -> active \cup {c.who}
                             [] c.fn = "revoke" -> active \ {c.who}
                             [] OTHER -> active
    BY <1>1, <1>4, RegistryEffect
  <2>2. 1 \in 1..Len(adminPool) /\ UNCHANGED scriptVars
    BY <2>1
  <2>3. Spared(a)' = Spared(a) /\ SeenKey(a)' = SeenKey(a) /\ Suite' = Suite
    BY <2>2 DEF scriptVars, Spared, SeenKey, KeyKnown, InBody, Scenarios, Suite
  <2>4. \A p \in 1..Len(adminPool') : adminPool'[p].who = a =>
          /\ adminPool'[p].fn = "register" => adminPool'[p].value = AsEnrolled
          /\ adminPool'[p].fn = "setConsensusIdentity" => adminPool'[p].value # NoKey
          /\ Spared(a)' => adminPool'[p].fn = "register"
    BY <2>1, <2>3 DEF RecordInv
  <2>5. details \in [Attesters -> Details]
    BY <1>1 DEF TypeOK, RegistryTypeOK
  <2>6. Spared(a)' /\ a \in active' => details'[a] = AsEnrolled
    <3>1. SUFFICES ASSUME Spared(a), a \in active' PROVE details'[a] = AsEnrolled
      BY <2>3
    <3>2. CASE UNCHANGED <<details, active>>
      BY <3>1, <3>2 DEF RecordInv
    <3>3. CASE c.who # a /\ ~UNCHANGED <<details, active>>
      <4>1. a \in active /\ details'[a] = details[a]
        BY <2>1, <2>5, <3>1, <3>3
      <4> QED
        BY <3>1, <4>1 DEF RecordInv
    <3>4. CASE c.who = a /\ ~UNCHANGED <<details, active>>
      <4>1. c.fn = "register" /\ c.value = AsEnrolled
        BY <2>2, <3>1, <3>4 DEF RecordInv
      <4>2. details'[a] = Written(c)
        BY <2>1, <2>5, <3>4
      <4> QED
        BY <4>1, <4>2 DEF Written
    <3> QED
      BY <3>2, <3>3, <3>4
  <2>7. SeenKey(a)' => details'[a].key # NoKey
    <3>1. SUFFICES ASSUME SeenKey(a) PROVE details'[a].key # NoKey
      BY <2>3
    <3>2. details[a].key # NoKey
      BY <3>1 DEF RecordInv
    <3>3. CASE details'[a] = details[a]
      BY <3>2, <3>3
    <3>4. CASE c.who = a /\ details'[a] = Written(c)
      <4>1. c.fn # "register"
        <5>1. Enrolled(a)
          <6>1. PICK l \in 1..(step - 1) : \E j \in 1..(l - 1) : Enrols(Suite[at][j], a)
            BY <3>1 DEF SeenKey, KeyKnown
          <6>2. PICK j \in 1..(l - 1) : Enrols(Suite[at][j], a)
            BY <6>1
          <6>3. j \in 1..(step - 1)
            BY <1>1
          <6> QED
            BY <3>1, <6>2, <6>3 DEF Enrolled, SeenKey
        <5>2. NonePending("register", a)
          BY <5>1 DEF IInv, RegisterInv
        <5> QED
          BY <2>2, <3>4, <5>2 DEF NonePending, Pending
      <4>2. CASE c.fn = "setConsensusIdentity"
        <5>1. c.value # NoKey
          BY <2>2, <3>4, <4>2 DEF RecordInv
        <5>2. details'[a].key = c.value
          BY <1>3, <3>4, <4>2 DEF Written, Details
        <5> QED
          BY <5>1, <5>2
      <4>3. CASE c.fn # "setConsensusIdentity"
        <5>1. details'[a].key = details[a].key
          BY <1>3, <3>4, <4>1, <4>3 DEF Written, Details
        <5> QED
          BY <3>2, <5>1
      <4> QED
        BY <4>2, <4>3
    <3> QED
      BY <2>1, <2>5, <3>3, <3>4
  <2> QED
    BY <2>4, <2>6, <2>7 DEF RecordInv
<1>5. CASE UNCHANGED <<details, active>> /\ (UNCHANGED adminPool \/ \E c : Post(c) /\ Fits(c, a))
  <2>1. \A p \in 1..Len(adminPool') : adminPool'[p].who = a =>
          /\ adminPool'[p].fn = "register" => adminPool'[p].value = AsEnrolled
          /\ adminPool'[p].fn = "setConsensusIdentity" => adminPool'[p].value # NoKey
          /\ Spared(a)' => adminPool'[p].fn = "register"
    <3>1. CASE UNCHANGED adminPool
      BY <1>2, <3>1 DEF RecordInv
    <3>2. CASE \E c : Post(c) /\ Fits(c, a)
      <4>1. PICK c : Post(c) /\ Fits(c, a)
        BY <3>2
      <4>2. /\ Len(adminPool') = Len(adminPool) + 1 /\ Len(adminPool) \in Nat
            /\ \A p \in 1..Len(adminPool) : adminPool'[p] = adminPool[p]
            /\ adminPool'[Len(adminPool) + 1] = c
        BY <1>1, <4>1, PostAdds
      <4>3. ASSUME NEW p \in 1..Len(adminPool'), adminPool'[p].who = a
            PROVE  /\ adminPool'[p].fn = "register" => adminPool'[p].value = AsEnrolled
                   /\ adminPool'[p].fn = "setConsensusIdentity" => adminPool'[p].value # NoKey
                   /\ Spared(a)' => adminPool'[p].fn = "register"
        <5>1. CASE p = Len(adminPool) + 1
          BY <4>1, <4>2, <4>3, <5>1 DEF Fits
        <5>2. CASE p \in 1..Len(adminPool)
          BY <1>2, <4>2, <4>3, <5>2 DEF RecordInv
        <5> QED
          BY <4>2, <5>1, <5>2
      <4> QED
        BY <4>3
    <3> QED
      BY <1>5, <3>1, <3>2
  <2>2. Spared(a)' /\ a \in active' => details'[a] = AsEnrolled
    BY <1>2, <1>5 DEF RecordInv
  <2>3. SeenKey(a)' => details'[a].key # NoKey
    <3>1. CASE SeenKey(a)
      BY <1>5, <3>1 DEF RecordInv
    <3>2. CASE Over /\ Advance /\ ShowsKey(Now, a) /\ Enrolled(a)
      <4>1. View(a)["key"] = Now.value /\ Now.value # NoKey
        BY <3>2, PollSaw DEF ShowsKey
      <4>2. details[a].key # NoKey
        BY <4>1 DEF View
      <4> QED
        BY <1>5, <4>2
    <3> QED
      BY <1>2, <3>1, <3>2
  <2> QED
    BY <2>1, <2>2, <2>3 DEF RecordInv
<1>6. CASE Block
  <2>1. UNCHANGED <<details, active, adminPool>>
    BY <1>6 DEF Block, Include, registryVars, memberVars
  <2> QED
    BY <1>5, <2>1
<1>7. CASE ClientEffect /\ UNCHANGED <<recordVars, details>>
  <2>1. UNCHANGED active
    BY <1>7 DEF ClientEffect, Still, Judged, Waits, BootPosts, EnrolPosts, BodyPosts, Estimates, Answered,
       Finalizes, Finalize, memberVars
  <2> QED
    BY <1>5, <1>7, <2>1, PostedFits
<1> QED
  BY <1>1, <1>4, <1>6, <1>7, EffectsOf

-----------------------------------------------------------------------------
(* Verdicts.                                                               *)

LEMMA VInvInit ==
  ASSUME Init
  PROVE  VInv
<1>1. /\ txState = [t \in Txs |-> "unsent"] /\ filedBy = [r \in Records |-> NoOne]
      /\ spentBy = [r \in Records |-> NoOne] /\ adminPool = <<>> /\ step = 1
      /\ active = Start[suite] /\ suite \in DOMAIN Suites
      /\ verdict = [i \in Scenarios |-> "todo"]
  BY DEF Init, ChainInit, RegistryInit, ScriptInit
<1>2. TrafficInv
  BY <1>1 DEF TrafficInv
<1>3. BooksInv
  BY <1>1 DEF BooksInv
<1>4. ASSUME NEW a \in Attesters \ {Zero} PROVE RecordInv(a)
  <2>1. a \notin active
    BY <1>1, FlowAssumption
  <2>2. ~SeenKey(a) /\ Len(adminPool) = 0
    BY <1>1 DEF SeenKey, KeyKnown
  <2> QED
    BY <2>1, <2>2 DEF RecordInv
<1>5. Deserved
  BY <1>1 DEF Deserved
<1> QED
  BY <1>2, <1>3, <1>4, <1>5 DEF VInv

LEMMA VInvStep ==
  ASSUME IInv, [Next]_vars, Warm => VInv
  PROVE  (Warm => VInv)'
<1>1. Warm' = Warm
  <2>1. Effect
    BY Here, ActionEffects
  <2>2. suite' = suite
    BY <2>1, Here, PlacesMove
  <2> QED
    BY <2>2 DEF Warm
<1>2. SUFFICES ASSUME Warm, VInv PROVE VInv'
  BY <1>1
<1>3. TrafficInv' /\ BooksInv'
  BY <1>2, TrafficStep, BooksStep
<1>4. ASSUME NEW a \in Attesters \ {Zero} PROVE RecordInv(a)'
  BY <1>2, <1>4, RecordStep DEF VInv
<1>5. Deserved'
  <2>1. CASE Next
    BY <1>2, <2>1, DeservedStep
  <2>2. CASE UNCHANGED vars
    BY <1>2, <2>2 DEF VInv, Deserved, vars, scriptVars, Scenarios, Suite
  <2> QED
    BY <2>1, <2>2
<1> QED
  BY <1>3, <1>4, <1>5 DEF VInv

\* On a node that knows the primary attester, a scenario fails only when something went
\* wrong in that scenario: neither the timing of blocks and of the snapshot nor what earlier
\* bodies left in the pool fails a body whose calls were all answered in time
\* (attester.rs:211-278, admin.rs:148-240, env.rs:184-219).
THEOREM FailuresAreOwn == Spec => []VerdictsAreDeserved
<1>1. Init => (Warm => VInv)
  BY VInvInit
<1>2. IInv /\ (Warm => VInv) /\ [Next]_vars => (Warm => VInv)'
  BY VInvStep
<1>3. (Warm => VInv) => VerdictsAreDeserved
  BY DEF Warm, VInv, Deserved, VerdictsAreDeserved
<1> QED
  BY <1>1, <1>2, <1>3, SuiteInvariant, PTL DEF Spec


-----------------------------------------------------------------------------
(* Candidacies: a body that makes an attester a candidate takes that back  *)
(* before it can pass.                                                     *)

\* A step makes `a` a candidate; it has read whether `a` is one.
Nominates(s, a) ==
  s.op = "call" /\ s.call.fn = "setRotationCandidate" /\ s.call.who = a /\ s.call.value = TRUE
SeesCandidacy(s, a, b) == s.op = "poll" /\ s.who = a /\ s.field = "rotation" /\ s.value = b

\* Step k of the body follows a nomination of `a`, and has shown it; or has shown it gone.
ShowsNominee(body, k, a) ==
  SeesCandidacy(body[k], a, TRUE) /\ \E j \in 1..(k - 1) : Nominates(body[j], a)
ShowsFormer(body, l, a) ==
  SeesCandidacy(body[l], a, FALSE) /\ \E k \in 1..(l - 1) : ShowsNominee(body, k, a)

\* In a suite S, `a` is nominated at one place, in a body that shows it gone.
CleansUpFor(S, a) ==
  /\ \A i, j \in 1..Len(S) : \A k \in 1..Len(S[i]), l \in 1..Len(S[j]) :
       Nominates(S[i][k], a) /\ Nominates(S[j][l], a) => i = j /\ k = l
  /\ \A i \in 1..Len(S) : \A k \in 1..Len(S[i]) :
       Nominates(S[i][k], a) => \E l \in 1..Len(S[i]) : ShowsFormer(S[i], l, a)
CleansUp(S) == \A a \in Attesters : CleansUpFor(S, a)

\* A call that is to make `a` a candidate, no block has executed.
Nomination(p, a) == Pending(p, "setRotationCandidate", a) /\ adminPool[p].value = TRUE
NoNomination(a) == \A p : ~Nomination(p, a)

\* A step that has gone well; no body has nominated `a` yet.
WentWell(i, k) == i \in Scenarios /\ k \in 1..Len(Suite[i]) /\ (Done(i, k) \/ (i < at /\ verdict[i] = "pass"))
Unnominated(a) ==
  \A i \in Scenarios : \A k \in 1..Len(Suite[i]) :
    Nominates(Suite[i][k], a) => i > at \/ (i = at /\ k >= step)
SeenNominee(a) == \E i, k : WentWell(i, k) /\ ShowsNominee(Suite[i], k, a)
SeenFormer(a) == \E i, k : WentWell(i, k) /\ ShowsFormer(Suite[i], k, a)

CandidateInv(a) ==
  /\ \A p : Pending(p, "register", a) => ~adminPool[p].value.rotation
  /\ \A p, q : Nomination(p, a) /\ Nomination(q, a) => p = q
  /\ details[a].rotation => NoNomination(a)
  /\ Unnominated(a) => ~details[a].rotation /\ NoNomination(a)
  /\ SeenNominee(a) => NoNomination(a)
  /\ SeenFormer(a) => ~details[a].rotation

\* A scenario that is over has a verdict.
JudgedInv == \A i \in Scenarios : i < at => verdict[i] # "todo"

\* How far the suite is with the nominations of an attester.
LEMMA NomineesMove ==
  ASSUME IInv, Effect, NEW a
  PROVE  /\ JudgedInv => JudgedInv'
         /\ Unnominated(a)' => Unnominated(a) /\ (Over => ~Nominates(Now, a))
         /\ SeenNominee(a)' => SeenNominee(a) \/ (Over /\ Advance /\ ShowsNominee(Suite[at], step, a))
         /\ SeenFormer(a)' => SeenFormer(a) \/ (Over /\ Advance /\ ShowsFormer(Suite[at], step, a))
<1>1. /\ SuiteIs /\ suite' = suite /\ Suite' = Suite /\ Scenarios' = Scenarios
      /\ at \in Nat /\ step \in Nat \ {0} /\ (InBody => step \in 1..Len(Suite[at]))
      /\ TypeOK /\ MidInv /\ Scenarios \subseteq Nat
  BY Here, PlacesMove, SuiteShape DEF Scenarios
<1>2. CASE Stays
  <2>1. UNCHANGED <<at, step, verdict>> /\ ~Over
    BY <1>1, <1>2 DEF Stays, Over, Fail, Advance, Pass, End
  <2>2. \A i, k : WentWell(i, k)' => WentWell(i, k)
    BY <1>1, <2>1 DEF WentWell, Done
  <2> QED
    BY <1>1, <2>1, <2>2 DEF JudgedInv, Unnominated, SeenNominee, SeenFormer
<1>3. CASE Over
  <2>1. (at' = at /\ step' = step + 1 /\ Advance /\ UNCHANGED verdict)
        \/ (at' = at + 1 /\ step' = 1 /\ \E o \in {"pass", "fail"} : verdict' = [verdict EXCEPT ![at] = o])
    BY <1>3 DEF Over, Advance, Pass, Fail, End
  <2>2. ASSUME NEW i \in Scenarios, NEW k \in 1..Len(Suite[i]), i > at' \/ (i = at' /\ k >= step')
        PROVE  i > at \/ (i = at /\ k > step)
    BY <1>1, <2>1, <2>2
  <2>3. Unnominated(a)' => Unnominated(a)
    BY <1>1, <2>2 DEF Unnominated, Nominates
  <2>4. Unnominated(a)' => ~Nominates(Now, a)
    BY <1>1, <1>3, <2>2 DEF Unnominated, Over, InBody, Now
  <2>5. JudgedInv => JudgedInv'
    <3>1. verdict \in [Scenarios -> {"todo", "pass", "fail"}]
      BY <1>1 DEF TypeOK, ScriptTypeOK
    <3> QED
      BY <1>1, <2>1, <3>1 DEF JudgedInv
  <2>6. ASSUME NEW i, NEW k, WentWell(i, k)'
        PROVE  WentWell(i, k) \/ (Advance /\ i = at /\ k = step)
    <3>1. i \in Scenarios /\ k \in 1..Len(Suite[i]) /\ (Done(i, k)' \/ (i < at' /\ verdict'[i] = "pass"))
      BY <1>1, <2>6 DEF WentWell
    <3>2. Done(i, k) \/ (i < at /\ verdict[i] = "pass") \/ (Advance /\ i = at /\ k = step)
      BY <1>1, <1>3, <3>1, StepEnds DEF Over, TypeOK, MidInv
    <3> QED
      BY <3>1, <3>2 DEF WentWell
  <2>7. SeenNominee(a)' => SeenNominee(a) \/ (Advance /\ ShowsNominee(Suite[at], step, a))
    BY <1>1, <2>6 DEF SeenNominee
  <2>8. SeenFormer(a)' => SeenFormer(a) \/ (Advance /\ ShowsFormer(Suite[at], step, a))
    BY <1>1, <2>6 DEF SeenFormer
  <2> QED
    BY <1>3, <2>3, <2>4, <2>5, <2>7, <2>8
<1> QED
  BY <1>2, <1>3, OverOrStays

\* Who was seen to be one no longer had been seen to be one.
LEMMA FormerWasSeen ==
  ASSUME IInv, NEW a
  PROVE  /\ SeenFormer(a) => SeenNominee(a)
         /\ InBody /\ ShowsFormer(Suite[at], step, a) => SeenNominee(a)
<1>1. at \in Nat /\ step \in Nat /\ (InBody => step \in 1..Len(Suite[at])) /\ SuiteIs
  BY Here
<1>2. ASSUME SeenFormer(a) PROVE SeenNominee(a)
  <2>1. PICK i, l : WentWell(i, l) /\ ShowsFormer(Suite[i], l, a)
    BY <1>2 DEF SeenFormer
  <2>2. PICK k \in 1..(l - 1) : ShowsNominee(Suite[i], k, a)
    BY <2>1 DEF ShowsFormer
  <2>3. l \in 1..Len(Suite[i]) /\ Len(Suite[i]) \in Nat
    BY <1>1, <2>1, SuiteShape DEF WentWell, Scenarios
  <2>4. WentWell(i, k)
    BY <1>1, <2>1, <2>2, <2>3 DEF WentWell, Done
  <2> QED
    BY <2>2, <2>4 DEF SeenNominee
<1>3. ASSUME InBody, ShowsFormer(Suite[at], step, a) PROVE SeenNominee(a)
  <2>1. PICK k \in 1..(step - 1) : ShowsNominee(Suite[at], k, a)
    BY <1>3 DEF ShowsFormer
  <2>2. at \in Scenarios /\ step \in 1..Len(Suite[at]) /\ Len(Suite[at]) \in Nat
    BY <1>1, <1>3, Here DEF InBody
  <2>3. WentWell(at, k)
    BY <1>1, <2>1, <2>2 DEF WentWell, Done
  <2> QED
    BY <2>1, <2>3 DEF SeenNominee
<1> QED
  BY <1>2, <1>3

\* Who has been seen to be one is not nominated again.
LEMMA SeenOnceNominated ==
  ASSUME IInv, NEW a, CleansUpFor(Suite, a), InBody, Nominates(Now, a)
  PROVE  ~SeenNominee(a)
<1>1. SUFFICES ASSUME SeenNominee(a) PROVE FALSE
  OBVIOUS
<1>2. PICK i, k : WentWell(i, k) /\ ShowsNominee(Suite[i], k, a)
  BY <1>1 DEF SeenNominee
<1>3. PICK j \in 1..(k - 1) : Nominates(Suite[i][j], a)
  BY <1>2 DEF ShowsNominee
<1>4. /\ i \in Scenarios /\ k \in 1..Len(Suite[i]) /\ Len(Suite[i]) \in Nat
      /\ at \in Scenarios /\ step \in 1..Len(Suite[at]) /\ at \in Nat /\ step \in Nat
  BY <1>2, Here, SuiteShape DEF WentWell, Scenarios
<1>5. j \in 1..Len(Suite[i])
  BY <1>4
<1>6. i = at /\ j = step
  BY <1>3, <1>4, <1>5 DEF CleansUpFor, Scenarios, Now
<1> QED
  BY <1>2, <1>4, <1>6 DEF WentWell, Done


\* What may be posted for an attester: a registration that makes it no candidate, or, by
\* the body that nominates it, a nomination.
Suits(c, a) ==
  c.who = a => /\ c.fn = "register" => ~c.value.rotation
               /\ c.fn = "setRotationCandidate" /\ c.value = TRUE => Over /\ Nominates(Now, a)

LEMMA PostedSuits ==
  ASSUME IInv, ClientEffect, NEW a
  PROVE  UNCHANGED adminPool \/ \E c : Post(c) /\ Suits(c, a)
<1>1. ASSUME NEW b PROVE Suits(RegisterCall(Admin, b, AttesterMask), a)
  <2> DEFINE c == RegisterCall(Admin, b, AttesterMask)
  <2>1. c.fn = "register" /\ ~c.value.rotation
    BY DEF RegisterCall, Blank
  <2> HIDE DEF c
  <2> QED
    BY <2>1 DEF Suits, c
<1>2. CASE BootPosts
  BY <1>1, <1>2 DEF BootPosts
<1>3. CASE EnrolPosts
  BY <1>1, <1>3 DEF EnrolPosts
<1>4. CASE BodyPosts
  <2>1. InBody /\ Calls(Now) /\ CallRefusal(Now.call) = "none" /\ Post(Now.call) /\ Over
    BY <1>4 DEF BodyPosts, Over
  <2>2. Now.op = "call"
    BY <2>1, CallIsTurnedAway DEF Calls
  <2>3. Now.call.fn # "register"
    BY <2>1, <2>2, CallsStand DEF Obeyed
  <2> QED
    BY <2>1, <2>2, <2>3 DEF Suits, Nominates
<1> QED
  BY <1>2, <1>3, <1>4 DEF ClientEffect, Still, Judged, Waits, Estimates, Answered, Finalizes

\* A block executes a call: what becomes of the candidacies.
LEMMA CandidateBlock ==
  ASSUME IInv, RegistryBlock, NEW a \in Attesters, CandidateInv(a)
  PROVE  CandidateInv(a)'
<1> DEFINE c == adminPool[1]
<1>1. /\ UNCHANGED scriptVars
      /\ Len(adminPool) \in Nat \ {0} /\ Len(adminPool') = Len(adminPool) - 1
      /\ \A p \in 1..Len(adminPool') : adminPool'[p] = adminPool[p + 1] /\ p + 1 \in 1..Len(adminPool)
      /\ \/ UNCHANGED <<details, active>>
         \/ details' = [details EXCEPT ![c.who] = Written(c)]
  BY Here, RegistryEffect
<1>2. details \in [Attesters -> Details] /\ IsCall(c) /\ 1 \in 1..Len(adminPool)
  BY <1>1, Here DEF TypeOK, RegistryTypeOK
<1>3. /\ Unnominated(a)' = Unnominated(a) /\ SeenNominee(a)' = SeenNominee(a)
      /\ SeenFormer(a)' = SeenFormer(a)
  BY <1>1 DEF scriptVars, Unnominated, SeenNominee, SeenFormer, WentWell, Done, Scenarios, Suite
<1>4. \A p, fn : Pending(p, fn, a)' => Pending(p + 1, fn, a) /\ adminPool'[p] = adminPool[p + 1] /\ p \in Nat \ {0}
  BY <1>1 DEF Pending
<1>5. \A p : Nomination(p, a)' => Nomination(p + 1, a) /\ p \in Nat \ {0}
  BY <1>4 DEF Nomination
<1>6. /\ \A p : Pending(p, "register", a)' => ~adminPool'[p].value.rotation
      /\ \A p, q : Nomination(p, a)' /\ Nomination(q, a)' => p = q
      /\ NoNomination(a) => NoNomination(a)'
  <2>1. \A p : Pending(p, "register", a)' => ~adminPool'[p].value.rotation
    BY <1>4 DEF CandidateInv
  <2>2. ASSUME NEW p, NEW q, Nomination(p, a)', Nomination(q, a)' PROVE p = q
    <3>1. p + 1 = q + 1 /\ p \in Nat /\ q \in Nat
      BY <1>5, <2>2 DEF CandidateInv
    <3> QED
      BY <3>1
  <2>3. NoNomination(a) => NoNomination(a)'
    BY <1>5 DEF NoNomination
  <2> QED
    BY <2>1, <2>2, <2>3
<1>7. CASE details'[a] = details[a]
  BY <1>3, <1>6, <1>7 DEF CandidateInv
<1>8. CASE c.who = a /\ details' = [details EXCEPT ![c.who] = Written(c)]
  <2>1. details'[a] = Written(c) /\ details[a] \in Details
    BY <1>2, <1>8
  <2>2. CASE c.fn = "register"
    <3>1. Pending(1, "register", a)
      BY <1>2, <1>8, <2>2 DEF Pending
    <3>2. ~details'[a].rotation
      BY <2>1, <2>2, <3>1 DEF CandidateInv, Written
    <3> QED
      BY <1>3, <1>6, <3>2 DEF CandidateInv
  <2>3. CASE c.fn = "setRotationCandidate" /\ c.value = TRUE
    <3>1. Nomination(1, a)
      BY <1>2, <1>8, <2>3 DEF Nomination, Pending
    <3>2. NoNomination(a)'
      <4>1. SUFFICES ASSUME NEW p, Nomination(p, a)' PROVE FALSE
        BY DEF NoNomination
      <4>2. p + 1 = 1 /\ p \in Nat \ {0}
        BY <1>5, <3>1, <4>1 DEF CandidateInv
      <4> QED
        BY <4>2
    <3>3. ~Unnominated(a) /\ ~SeenNominee(a) /\ ~SeenFormer(a)
      BY <3>1, FormerWasSeen DEF CandidateInv, NoNomination
    <3> QED
      BY <1>3, <1>6, <3>2, <3>3 DEF CandidateInv
  <2>4. CASE c.fn = "setRotationCandidate" /\ c.value # TRUE
    <3>1. c.value = FALSE
      <4>1. c.value \in Values[c.fn] /\ Values["setRotationCandidate"] = BOOLEAN
        BY <1>2 DEF IsCall, Values
      <4>2. c.value \in BOOLEAN
        BY <2>4, <4>1
      <4> QED
        BY <2>4, <4>2
    <3>2. Written(c) = [details[a] EXCEPT !.rotation = FALSE]
      BY <1>8, <2>4, <3>1 DEF Written
    <3>3. ~details'[a].rotation
      BY <2>1, <3>2 DEF Details
    <3> QED
      BY <1>3, <1>6, <3>3 DEF CandidateInv
  <2>5. CASE c.fn \notin {"register", "setRotationCandidate"}
    <3>1. \/ Written(c) = details[a]
          \/ Written(c) = [details[a] EXCEPT !.mask = c.value]
          \/ Written(c) = [details[a] EXCEPT !.key = c.value]
      BY <1>8, <2>5 DEF Written
    <3>2. details'[a].rotation = details[a].rotation
      BY <2>1, <3>1 DEF Details
    <3> QED
      BY <1>3, <1>6, <3>2 DEF CandidateInv
  <2> QED
    BY <2>2, <2>3, <2>4, <2>5
<1> QED
  BY <1>1, <1>2, <1>7, <1>8

\* A step of a body, or one that touches nothing of the registry.
LEMMA CandidateClient ==
  ASSUME IInv, [Next]_vars, NEW a \in Attesters, CleansUpFor(Suite, a), CandidateInv(a),
         details' = details, UNCHANGED adminPool \/ \E c : Post(c) /\ Suits(c, a)
  PROVE  CandidateInv(a)'
<1>1. /\ Unnominated(a)' => Unnominated(a) /\ (Over => ~Nominates(Now, a))
      /\ SeenNominee(a)' => SeenNominee(a) \/ (Over /\ Advance /\ ShowsNominee(Suite[at], step, a))
      /\ SeenFormer(a)' => SeenFormer(a) \/ (Over /\ Advance /\ ShowsFormer(Suite[at], step, a))
  BY Here, ActionEffects, NomineesMove
<1>2. \A p : /\ Pending(p, "register", a)' /\ ~Pending(p, "register", a) => ~adminPool'[p].value.rotation
             /\ Pending(p, "register", a) => adminPool'[p] = adminPool[p]
             /\ Nomination(p, a)' /\ ~Nomination(p, a) =>
                  Over /\ Nominates(Now, a) /\ p = Len(adminPool) + 1
  <2>1. CASE UNCHANGED adminPool
    BY <2>1 DEF Nomination, Pending
  <2>2. CASE \E c : Post(c) /\ Suits(c, a)
    <3>1. PICK c : Post(c) /\ Suits(c, a)
      BY <2>2
    <3>2. /\ Len(adminPool') = Len(adminPool) + 1 /\ Len(adminPool) \in Nat
          /\ \A p \in 1..Len(adminPool) : adminPool'[p] = adminPool[p]
          /\ adminPool'[Len(adminPool) + 1] = c
      BY <3>1, Here, PostAdds
    <3>3. ASSUME NEW p, p \in 1..Len(adminPool)
          PROVE  adminPool'[p] = adminPool[p] /\ p \in 1..Len(adminPool')
      BY <3>2, <3>3
    <3>4. ASSUME NEW p, p \in 1..Len(adminPool'), p \notin 1..Len(adminPool)
          PROVE  p = Len(adminPool) + 1 /\ adminPool'[p] = c
      BY <3>2, <3>4
    <3> QED
      BY <3>1, <3>3, <3>4 DEF Nomination, Pending, Suits
  <2> QED
    BY <2>1, <2>2
<1>3. NoNomination(a) /\ ~(Over /\ Nominates(Now, a)) => NoNomination(a)'
  BY <1>2 DEF NoNomination
<1>4. Over /\ Nominates(Now, a) =>
        Unnominated(a) /\ ~SeenNominee(a) /\ ~SeenFormer(a) /\ NoNomination(a) /\ ~details[a].rotation
  <2>1. SUFFICES ASSUME Over, Nominates(Now, a)
                 PROVE  Unnominated(a) /\ ~SeenNominee(a) /\ ~SeenFormer(a)
    BY DEF CandidateInv
  <2>2. InBody
    BY <2>1 DEF Over
  <2>3. ~SeenNominee(a) /\ ~SeenFormer(a)
    BY <2>1, <2>2, SeenOnceNominated, FormerWasSeen
  <2>4. Unnominated(a)
    <3>1. /\ at \in Scenarios /\ step \in 1..Len(Suite[at]) /\ at \in Nat /\ step \in Nat /\ Len(Suite) \in Nat
      BY <2>2, Here, SuiteShape DEF Scenarios
    <3>2. ASSUME NEW i \in Scenarios, NEW k \in 1..Len(Suite[i]), Nominates(Suite[i][k], a)
          PROVE  i = at /\ k = step
      BY <2>1, <3>1, <3>2 DEF CleansUpFor, Scenarios, Now
    <3> QED
      BY <3>1, <3>2 DEF Unnominated
  <2> QED
    BY <2>3, <2>4
<1>5. \A p : Pending(p, "register", a)' => ~adminPool'[p].value.rotation
  BY <1>2 DEF CandidateInv
<1>6. \A p, q : Nomination(p, a)' /\ Nomination(q, a)' => p = q
  BY <1>2, <1>4 DEF CandidateInv, NoNomination
<1>7. details'[a].rotation => NoNomination(a)'
  BY <1>3, <1>4 DEF CandidateInv
<1>8. Unnominated(a)' => ~details'[a].rotation /\ NoNomination(a)'
  BY <1>1, <1>3 DEF CandidateInv
<1>9. ASSUME Over, Advance, NEW b, SeesCandidacy(Now, a, b)
      PROVE  details[a].rotation = b /\ ~Nominates(Now, a)
  <2>1. Now.op = "poll" /\ Now.who = a /\ Now.field = "rotation" /\ Now.value = b
    BY <1>9 DEF SeesCandidacy
  <2>2. View(a)["rotation"] = b
    BY <1>9, <2>1, PollSaw
  <2> QED
    BY <2>1, <2>2 DEF View, Nominates
<1>10. SeenNominee(a)' => NoNomination(a)'
  <2>1. CASE SeenNominee(a)
    BY <1>3, <1>4, <2>1 DEF CandidateInv
  <2>2. CASE Over /\ Advance /\ ShowsNominee(Suite[at], step, a)
    <3>1. SeesCandidacy(Now, a, TRUE)
      BY <2>2 DEF ShowsNominee, Now
    <3>2. details[a].rotation = TRUE /\ ~Nominates(Now, a)
      BY <1>9, <2>2, <3>1
    <3> QED
      BY <1>3, <3>2 DEF CandidateInv
  <2> QED
    BY <1>1, <2>1, <2>2
<1>11. SeenFormer(a)' => ~details'[a].rotation
  <2>1. CASE SeenFormer(a)
    BY <2>1 DEF CandidateInv
  <2>2. CASE Over /\ Advance /\ ShowsFormer(Suite[at], step, a)
    <3>1. SeesCandidacy(Now, a, FALSE)
      BY <2>2 DEF ShowsFormer, Now
    <3>2. details[a].rotation = FALSE
      BY <1>9, <2>2, <3>1
    <3> QED
      BY <3>2
  <2> QED
    BY <1>1, <2>1, <2>2
<1> QED
  BY <1>5, <1>6, <1>7, <1>8, <1>10, <1>11 DEF CandidateInv


CandidatesInv == JudgedInv /\ \A a \in Attesters : CandidateInv(a)

LEMMA CandidatesInit ==
  ASSUME Init
  PROVE  CandidatesInv
<1>1. /\ at = 1 /\ step = 1 /\ adminPool = <<>> /\ Scenarios \subseteq Nat \ {0}
      /\ \A a \in Attesters : ~details[a].rotation
  <2>1. SuiteIs
    BY DEF Init, ScriptInit, SuiteIs
  <2>2. at = 1 /\ step = 1 /\ adminPool = <<>> /\ Scenarios \subseteq Nat \ {0}
    BY <2>1, SuiteShape DEF Init, ScriptInit, RegistryInit, Scenarios
  <2>3. ASSUME NEW a \in Attesters PROVE ~details[a].rotation
    BY DEF Init, RegistryInit, Blank
  <2> QED
    BY <2>2, <2>3
<1>2. JudgedInv
  BY <1>1 DEF JudgedInv
<1>3. \A p, fn, a : ~Pending(p, fn, a)
  BY <1>1 DEF Pending
<1>4. \A i, k : ~WentWell(i, k)
  <2>1. SUFFICES ASSUME NEW i, NEW k, WentWell(i, k) PROVE FALSE
    OBVIOUS
  <2>2. i \in Scenarios /\ k \in 1..Len(Suite[i]) /\ (Done(i, k) \/ i < at)
    BY <2>1 DEF WentWell
  <2>3. i \in Nat \ {0} /\ k >= 1
    BY <1>1, <2>2
  <2> QED
    BY <1>1, <2>2, <2>3 DEF Done
<1> QED
  BY <1>1, <1>2, <1>3, <1>4 DEF CandidatesInv, CandidateInv, Nomination, NoNomination, SeenNominee, SeenFormer

LEMMA CandidatesStep ==
  ASSUME IInv, [Next]_vars, CleansUp(Suite), CandidatesInv
  PROVE  CandidatesInv'
<1>1. Effect
  BY Here, ActionEffects
<1>2. JudgedInv'
  BY <1>1, NomineesMove DEF CandidatesInv
<1>3. ASSUME NEW a \in Attesters PROVE CandidateInv(a)'
  <2>1. CleansUpFor(Suite, a) /\ CandidateInv(a)
    BY DEF CleansUp, CandidatesInv
  <2>2. CASE RegistryBlock
    BY <2>1, <2>2, CandidateBlock
  <2>3. CASE Block
    <3>1. details' = details /\ UNCHANGED adminPool
      BY <2>3 DEF Block, registryVars
    <3> QED
      BY <2>1, <3>1, CandidateClient
  <2>4. CASE ClientEffect /\ UNCHANGED <<recordVars, details>>
    <3>1. details' = details /\ (UNCHANGED adminPool \/ \E c : Post(c) /\ Suits(c, a))
      BY <2>4, PostedSuits
    <3> QED
      BY <2>1, <3>1, CandidateClient
  <2> QED
    BY <2>2, <2>3, <2>4, Here, EffectsOf
<1> QED
  BY <1>2, <1>3 DEF CandidatesInv

\* Every body that makes an attester a candidate cleans up after itself, as S036 does.
AllCleanUp == \A n \in DOMAIN Suites : CleansUp(Suites[n])

\* If they do, no candidate is left at the end of a suite in which no scenario failed, in
\* whatever order the pool's blocks execute what was posted: a candidate with a dummy key
\* makes every later reshare of the committee fail
\* (s036_rotation_candidate_round_trip.rs).
THEOREM NoCandidateIsLeft ==
  ASSUME AllCleanUp
  PROVE  Spec => []NoStrayCandidate
<1>1. Init => CandidatesInv
  BY CandidatesInit
<1>2. IInv /\ CandidatesInv /\ [Next]_vars => CandidatesInv'
  <2> SUFFICES ASSUME IInv, CandidatesInv, [Next]_vars PROVE CandidatesInv'
    OBVIOUS
  <2>1. CleansUp(Suite)
    BY Here DEF AllCleanUp, SuiteIs, Suite
  <2> QED
    BY <2>1, CandidatesStep
<1>3. IInv /\ CandidatesInv => NoStrayCandidate
  <2> SUFFICES ASSUME IInv, CandidatesInv, Ended, NEW a \in Attesters, details[a].rotation,
                      \A i \in Scenarios : verdict[i] # "fail"
               PROVE  FALSE
    BY DEF NoStrayCandidate, Candidates
  <2>1. CandidateInv(a) /\ JudgedInv /\ CleansUpFor(Suite, a)
    BY Here DEF CandidatesInv, AllCleanUp, CleansUp, SuiteIs, Suite
  <2>2. ~Unnominated(a) /\ ~SeenFormer(a)
    BY <2>1 DEF CandidateInv
  <2>3. PICK i \in Scenarios : \E k \in 1..Len(Suite[i]) : Nominates(Suite[i][k], a)
    BY <2>2 DEF Unnominated
  <2>4. PICK l \in 1..Len(Suite[i]) : ShowsFormer(Suite[i], l, a)
    BY <2>1, <2>3 DEF CleansUpFor, Scenarios
  <2>5. i < at /\ verdict[i] \in {"todo", "pass", "fail"}
    BY Here, SuiteShape DEF Ended, Scenarios, TypeOK, ScriptTypeOK
  <2>6. WentWell(i, l)
    BY <2>1, <2>4, <2>5 DEF JudgedInv, WentWell
  <2> QED
    BY <2>2, <2>4, <2>6 DEF SeenFormer
<1> QED
  BY <1>1, <1>2, <1>3, SuiteInvariant, PTL DEF Spec


\* A body that nominates nobody.
NominatesNobody(body) == \A k \in 1..Len(body) : \A a \in Attesters : ~Nominates(body[k], a)

\* The bodies of the repository do clean up: of the registry's gates and round trips, only
\* S036 makes an attester a candidate, and its last step waits until it is one no longer
\* (s036_rotation_candidate_round_trip.rs; the suites are in the order of mod.rs).
THEOREM ScenariosCleanUp == CleansUp(RecordSuite) /\ CleansUp(RegistrySuite)
<1> USE DEF Send, WaitTx, WaitExists, Refused, NewAttester, Call, CallRefused, Check, Poll,
            RegisterCall, RevokeCall, MaskCall, RotationCall, IdentityCall
<1>1. NominatesNobody(S007) /\ NominatesNobody(S008) /\ NominatesNobody(S009)
  BY DEF NominatesNobody, Nominates, S007, S008, S009
<1>2. NominatesNobody(S010) /\ NominatesNobody(S011) /\ NominatesNobody(S020)
  BY DEF NominatesNobody, Nominates, S010, S011, S020
<1>3. NominatesNobody(S026) /\ NominatesNobody(S030) /\ NominatesNobody(S033)
  BY DEF NominatesNobody, Nominates, S026, S030, S033
<1>4. NominatesNobody(S027) /\ NominatesNobody(S028) /\ NominatesNobody(S029) /\ NominatesNobody(S037)
  BY DEF NominatesNobody, Nominates, S027, S028, S029, S037
<1>5. NominatesNobody(S035)
  BY DEF NominatesNobody, Nominates, S035
<1>6. /\ Len(S036) = 8
      /\ \A k \in 1..8 : \A a \in Attesters : Nominates(S036[k], a) => k = 5 /\ a = "att036"
      /\ ShowsFormer(S036, 8, "att036")
  <2>1. Len(S036) = 8
    BY DEF S036
  <2>2. \A k \in 1..8 : \A a \in Attesters : Nominates(S036[k], a) => k = 5 /\ a = "att036"
    BY DEF S036, Nominates
  <2>3. Nominates(S036[5], "att036")
    BY DEF S036, Nominates
  <2>4. SeesCandidacy(S036[6], "att036", TRUE) /\ SeesCandidacy(S036[8], "att036", FALSE)
    BY DEF S036, SeesCandidacy
  <2>5. ShowsNominee(S036, 6, "att036")
    <3>1. 5 \in 1..(6 - 1)
      OBVIOUS
    <3> QED
      BY <2>3, <2>4, <3>1, Zenon DEF ShowsNominee
  <2>6. ShowsFormer(S036, 8, "att036")
    <3>1. 6 \in 1..(8 - 1)
      OBVIOUS
    <3> QED
      BY <2>4, <2>5, <3>1, Zenon DEF ShowsFormer
  <2> QED
    BY <2>1, <2>2, <2>6
<1>7. CleansUp(RecordSuite)
  <2>1. Len(RecordSuite) = 9 /\ \A i \in 1..9 : NominatesNobody(RecordSuite[i])
    BY <1>1, <1>2, <1>3 DEF RecordSuite
  <2> QED
    BY <2>1 DEF CleansUp, CleansUpFor, NominatesNobody
<1>8. CleansUp(RegistrySuite)
  <2>1. /\ Len(RegistrySuite) = 7 /\ RegistrySuite[6] = S036
        /\ \A i \in 1..7 : i # 6 => NominatesNobody(RegistrySuite[i])
    BY <1>3, <1>4, <1>5 DEF RegistrySuite
  <2>2. SUFFICES ASSUME NEW a \in Attesters PROVE CleansUpFor(RegistrySuite, a)
    BY DEF CleansUp
  <2>3. ASSUME NEW i \in 1..Len(RegistrySuite), NEW k \in 1..Len(RegistrySuite[i]),
               Nominates(RegistrySuite[i][k], a)
        PROVE  i = 6 /\ k = 5 /\ a = "att036"
    <3>1. i = 6
      BY <2>1, <2>3 DEF NominatesNobody
    <3>2. k \in 1..8 /\ Nominates(S036[k], a)
      BY <1>6, <2>1, <2>3, <3>1
    <3> QED
      BY <1>6, <3>1, <3>2
  <2>4. ASSUME NEW i \in 1..Len(RegistrySuite), NEW k \in 1..Len(RegistrySuite[i]),
               Nominates(RegistrySuite[i][k], a)
        PROVE  \E l \in 1..Len(RegistrySuite[i]) : ShowsFormer(RegistrySuite[i], l, a)
    <3>1. i = 6 /\ a = "att036"
      BY <2>3, <2>4
    <3>2. RegistrySuite[i] = S036
      BY <2>1, <3>1
    <3>3. 8 \in 1..Len(S036)
      BY <1>6
    <3>4. ShowsFormer(S036, 8, a)
      BY <1>6, <3>1, Zenon
    <3> QED
      BY <3>2, <3>3, <3>4, Zenon
  <2>5. ASSUME NEW i \in 1..Len(RegistrySuite), NEW j \in 1..Len(RegistrySuite),
               NEW k \in 1..Len(RegistrySuite[i]), NEW l \in 1..Len(RegistrySuite[j]),
               Nominates(RegistrySuite[i][k], a), Nominates(RegistrySuite[j][l], a)
        PROVE  i = j /\ k = l
    BY <2>3, <2>5
  <2> QED
    BY <2>4, <2>5 DEF CleansUpFor
<1> QED
  BY <1>7, <1>8


=============================================================================
