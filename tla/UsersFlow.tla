------------------------------ MODULE UsersFlow ------------------------------
(***************************************************************************)
(* A run of the suite over the users lane: scripts of calls on the actor   *)
(* client (testsuite/src/clients/actor.rs).  submit_enveloped reads the    *)
(* difficulty and the head, then the pending nonce, then solves, signs and *)
(* broadcasts, and the chain moves on between any two of these.            *)
(***************************************************************************)
EXTENDS Script, UsersLane

CONSTANTS
  Zero,      \* key of attester_zero
  Age,       \* AGE_BLOCKS of S043
  Young,     \* the chain height S055 asks for
  StaleAge,  \* STALE_AGE of S055
  Slack,     \* bound: blocks while an envelope is on its way to the node
  Trouble    \* bound: suite -> checks the node lacks, faults and epochs, together

ASSUME UsersAssumption ==
  /\ Zero \in AttesterKeys
  /\ {Age, Young, StaleAge, Slack} \subseteq Nat
  /\ Trouble \in [DOMAIN Suites -> Nat]
  /\ Age > 0 /\ Age + Slack <= Window
  /\ Window <= Young /\ Window < StaleAge /\ Young < MaxHead

\* The steps of a script.  A submission: its key, where its difficulty and its block
\* come from, its scheme, what is done to the wire bytes, and what must come of it.
Plain(key) == [op |-> "submit", by |-> key, work |-> "fetched", block |-> "head",
               scheme |-> "Hashcash", tamper |-> "none", gated |-> FALSE, want |-> "admitted"]
ReadDifficulty(least) == [op |-> "read", least |-> least]
AdvanceEpoch == [op |-> "advance"]
PinHead == [op |-> "pin"]
PinOld == [op |-> "pinOld"]
AgeProof == [op |-> "age"]
Replay(w) == [op |-> "replay", want |-> w]
WaitReceipt(w) == [op |-> "receipt", want |-> w]

Ops == {"submit", "read", "advance", "pin", "pinOld", "age", "replay", "receipt"}

ASSUME StepAssumption ==
  StepsAmong(Ops)

Submits(s) == s.op = "submit"
Captures(s) == Submits(s) /\ s.tamper = "capture"

\* What a submission is made of, and what a body may expect of it.
IsSubmission(s) ==
  /\ s.by \in Signers
  /\ s.work \in {"fetched", "seen", "under"}
  /\ s.block \in {"head", "aged", "old"}
  /\ s.scheme \in {"Hashcash", "MinRoot"}
  /\ s.tamper \in {"none", "flip", "splice", "capture"}
  /\ s.gated \in BOOLEAN
  /\ \/ /\ s.want = "admitted" /\ ~s.gated /\ s.scheme = "Hashcash"
        /\ s.work # "under" /\ s.block # "old" /\ s.tamper \in {"none", "capture"}
     \/ /\ s.want = "unminted" /\ s.gated /\ s.scheme = "Hashcash"
        /\ s.work = "fetched" /\ s.block = "head" /\ s.tamper = "none"
     \/ /\ s.want = "rejected" /\ s.tamper \in {"none", "flip"}
        /\ s.work = "under" \/ s.block = "old" \/ s.scheme = "MinRoot" \/ s.tamper = "flip"
     \/ s.want = "InvalidVdfProof" /\ ~s.gated /\ s.scheme = "Hashcash" /\ s.tamper = "splice"

\* What a body keeps to at its step k: what it uses it has read, pinned, kept or sent
\* just before.
KeepsTo(b, k) ==
  LET s == b[k]
      after(op) == k > 1 /\ b[k - 1].op = op
  IN
  /\ Submits(s) =>
       /\ IsSubmission(s)
       /\ s.work = "seen" => after("advance")
       /\ s.work = "under" => after("read") /\ b[k - 1].least >= 2
       /\ s.block = "aged" => after("age")
       /\ s.block = "old" => after("pinOld")
       /\ s.tamper = "splice" =>
            /\ \E j \in 1..(k - 1) : Captures(b[j])
            /\ \A j \in 1..(k - 1) : Captures(b[j]) => b[j].by = s.by
  /\ s.op = "read" => s.least \in 0..2
  /\ s.op = "advance" => after("read")
  /\ s.op = "age" => after("pin")
  /\ s.op = "replay" => /\ after("submit") /\ Captures(b[k - 1]) /\ b[k - 1].work = "fetched"
                        /\ s.want = "NullifierAlreadyUsed"
  /\ s.op = "receipt" =>
       /\ after("submit") /\ b[k - 1].want \in {"admitted", "unminted"}
       /\ s.want = "success" => ~b[k - 1].gated
       /\ s.want = "reverted" => b[k - 1].gated /\ b[k - 1].by \notin AttesterKeys

ASSUME BodiesAssumption ==
  \A n \in DOMAIN Suites : \A i \in DOMAIN Suites[n] : \A k \in DOMAIN Suites[n][i] :
    KeepsTo(Suites[n][i], k)

VARIABLE body  \* the locals of the scenario body that runs

vars == <<laneVars, scriptVars, body>>

NoEnvelope ==
  [signer |-> Zero, nonce |-> 0, block |-> 0, scheme |-> "Hashcash", gated |-> FALSE,
   solution |-> [signer |-> Zero, nonce |-> 0, block |-> 0, work |-> 0]]

Locals ==
  [work : Nat, block : Nat, nonce : Nat,       \* the envelope under construction
   sent : Envelope,                            \* the one sent last
   captured : Envelope,                        \* the one a mutate closure has kept
   seen : [difficulty : Nat, floor : Nat],     \* what the body has read
   kept : Nat]                                 \* the block it has pinned

NoLocals ==
  [work |-> 0, block |-> 0, nonce |-> 0, sent |-> NoEnvelope, captured |-> NoEnvelope,
   seen |-> [difficulty |-> 0, floor |-> 0], kept |-> 0]

\* The locals after a step, if the body goes on; they end with it.
Bind(b) == body' = IF at' = at THEN b ELSE NoLocals

TypeOK ==
  /\ LaneTypeOK
  /\ ScriptTypeOK
  /\ mid \in {"ready", "read", "counted"}
  /\ body \in Locals

Init ==
  /\ LaneInit
  /\ head \in {0, Young + 1}
  /\ ScriptInit
  /\ Cardinality(Checks \ node) <= Trouble[suite]
  /\ body = NoLocals

Doing(op) == InBody /\ mid = "ready" /\ Now.op = op
Monus(a, b) == IF a > b THEN a - b ELSE 0
Lesser(a, b) == IF a < b THEN a ELSE b

\* One more thing may go wrong.
Luckless == Cardinality(Checks \ node) + Cardinality(faulted) + rolls < Trouble[suite]

\* What a step does when the body takes an Err for good: S003 to S006 do.
Err == IF Now.want = "unminted" THEN Pass ELSE Fail

-----------------------------------------------------------------------------
(* submit_enveloped.                                                       *)

\* The difficulty to solve at: the node's, the one the body has read, or a quarter of
\* the lower one it has read.
Work ==
  CASE Now.work = "fetched" -> current
    [] Now.work = "seen" -> body.seen.difficulty
    [] Now.work = "under" -> IF body.seen.floor < 4 THEN 1 ELSE body.seen.floor \div 4

\* pso_vdfInfo, or the half of it that is not overridden and eth_blockNumber.
ReadParameters ==
  /\ Doing("submit")
  /\ Reach("read")
  /\ Bind([body EXCEPT !.work = Work,
                      !.block = IF Now.block = "head" THEN head ELSE body.kept])
  /\ UNCHANGED <<laneVars, faulted>>

\* Mutant of CountNonce: the nonce of the last block.
CountMined ==
  /\ InBody /\ mid = "read"
  /\ Reach("counted")
  /\ Bind([body EXCEPT !.nonce = mined[Now.by]])
  /\ UNCHANGED <<laneVars, faulted>>

\* The nonce at the pending tag.
CountNonce ==
  /\ InBody /\ mid = "read"
  /\ Reach("counted")
  /\ Bind([body EXCEPT !.nonce = PendingNonce(Now.by)])
  /\ UNCHANGED <<laneVars, faulted>>

\* build_pow_envelope_with solves for (signer, nonce, block) at the difficulty; a
\* retired scheme has no solver.
Built ==
  [signer |-> Now.by, nonce |-> body.nonce, block |-> body.block, scheme |-> Now.scheme,
   gated |-> Now.gated,
   solution |-> [signer |-> Now.by, nonce |-> body.nonce, block |-> body.block,
                 work |-> IF Now.scheme = "MinRoot" THEN 0 ELSE body.work]]

\* The mutate closure: S049 flips a bit of the solution, S044 splices an old one in.
Wire ==
  CASE Now.tamper = "flip" -> [Built EXCEPT !.solution.work = 0]
    [] Now.tamper = "splice" -> [Built EXCEPT !.solution = body.captured.solution]
    [] OTHER -> Built

\* The node's answer, as the body reads it.
Judge(e) ==
  LET answer == Rejection(e) IN
  IF answer = "none"
    THEN /\ Admit(e)
         /\ IF Now.want \in {"admitted", "unminted"} THEN Advance ELSE Fail
    ELSE /\ UNCHANGED pool
         /\ IF Now.want = "rejected" \/ Now.want = answer THEN Advance ELSE Err

Send ==
  /\ InBody /\ mid = "counted"
  /\ Judge(Wire)
  /\ Bind([body EXCEPT !.work = 0, !.block = 0, !.nonce = 0, !.sent = Wire,
                      !.captured = IF Now.tamper = "capture" THEN Built ELSE @])
  /\ UNCHANGED <<node, head, current, previous, landed, mined, rolls, faulted>>

\* A read fails, or the broadcast does, before the node has the envelope or after.
SubmitFault ==
  /\ InBody
  /\ Doing("submit") \/ mid # "ready"
  /\ Luckless /\ Faulty
  /\ Err
  /\ Bind(body)
  /\ \/ UNCHANGED pool
     \/ mid = "counted" /\ Rejection(Wire) = "none" /\ Admit(Wire)
  /\ UNCHANGED <<node, head, current, previous, landed, mined, rolls>>

\* S054 broadcasts the captured bytes with another nullifier on them.
Resend ==
  /\ Doing("replay")
  /\ Judge(body.captured)
  /\ Bind(body)
  /\ UNCHANGED <<node, head, current, previous, landed, mined, rolls, faulted>>

-----------------------------------------------------------------------------
(* wait_for_receipt.                                                       *)

Receipt ==
  /\ Doing("receipt")
  /\ mined[body.sent.signer] > body.sent.nonce
  /\ IF /\ Now.want = "success" => Succeeds(body.sent)
        /\ Now.want = "reverted" => ~Succeeds(body.sent)
       THEN Advance ELSE Fail
  /\ Bind(body)
  /\ UNCHANGED <<laneVars, faulted>>

-----------------------------------------------------------------------------
(* The bodies' own reads and waits.                                        *)

\* S031 and S032 read what the node asks for; S031 needs room below it.
Read ==
  /\ Doing("read")
  /\ LET floor == Lesser(current, previous) IN
       /\ IF floor >= Now.least THEN Advance ELSE Fail
       /\ Bind([body EXCEPT !.seen = [difficulty |-> current, floor |-> floor]])
  /\ UNCHANGED <<laneVars, faulted>>

\* TestEnv::advance_epoch, and S032's check of what it reports.
Advanced ==
  /\ Doing("advance")
  /\ NewEpoch(2 * body.seen.difficulty)
  /\ IF current = body.seen.difficulty THEN Advance ELSE Fail
  /\ Bind(body)
  /\ UNCHANGED <<node, head, pool, landed, mined, rolls, faulted>>

\* S043 pins the head.
Pinned ==
  /\ Doing("pin")
  /\ Advance
  /\ Bind([body EXCEPT !.kept = head])
  /\ UNCHANGED <<laneVars, faulted>>

\* S055 pins a block far below it, or block 0 on a chain that is not that high.
PinnedOld ==
  /\ Doing("pinOld")
  /\ IF head > Young THEN Advance ELSE Fail
  /\ Bind([body EXCEPT !.kept = Monus(head, StaleAge)])
  /\ UNCHANGED <<laneVars, faulted>>

\* S043 waits until the pinned block is old enough.
Aged ==
  /\ Doing("age")
  /\ head >= body.kept + Age
  /\ Advance
  /\ Bind(body)
  /\ UNCHANGED <<laneVars, faulted>>

\* One of these calls fails, or a wait expires.
BodyFault ==
  /\ InBody /\ mid = "ready" /\ Now.op # "submit"
  /\ Luckless /\ Fault
  /\ Bind(body)
  /\ UNCHANGED laneVars

\* The node has advanced its epoch, and the answer is lost or not what it should be.
AdvanceLost ==
  /\ Doing("advance")
  /\ Luckless /\ Fault
  /\ NewEpoch(2 * body.seen.difficulty)
  /\ Bind(body)
  /\ UNCHANGED <<node, head, pool, landed, mined, rolls>>

-----------------------------------------------------------------------------
(* The chain.                                                              *)

\* The block by which an envelope under way reaches the node.
Due ==
  IF ~InBody THEN MaxHead
  ELSE IF Now.op = "age" \/ (Now.op = "submit" /\ Now.block = "aged") THEN body.kept + Age + Slack
  ELSE IF Now.op = "submit" /\ Now.block = "head" /\ mid # "ready" THEN body.block + Slack
  ELSE IF Now.op = "replay" THEN body.captured.block + Slack
  ELSE MaxHead

Block ==
  /\ head < Due
  /\ Mine
  /\ UNCHANGED <<scriptVars, body>>

Epoch ==
  /\ Luckless /\ Roll
  /\ UNCHANGED <<scriptVars, body>>

SubmitStep == ReadParameters \/ CountNonce \/ Send \/ SubmitFault \/ Resend
BodyStep ==
  Receipt \/ Read \/ Advanced \/ Pinned \/ PinnedOld \/ Aged \/ BodyFault \/ AdvanceLost
ChainStep == Block \/ Epoch

Next == SubmitStep \/ BodyStep \/ ChainStep

Spec == Init /\ [][Next]_vars

=============================================================================
