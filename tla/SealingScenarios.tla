--------------------------- MODULE SealingScenarios ---------------------------
(***************************************************************************)
(* S051, S052 and S053 as scripts: they anchor and advance the committees' *)
(* directory, register an enclave and settle a batch, in that order on one *)
(* devnet, and may be run again on what an earlier run has left there.     *)
(*                                                                         *)
(* A write asks the node to estimate its gas, which executes it on the     *)
(* state as it is; then it is broadcast, and get_receipt waits until it is *)
(* in a block, whatever it did there.  A fault can hit before or after the *)
(* broadcast.                                                              *)
(***************************************************************************)
EXTENDS Script, SealingChain

CONSTANTS
  Optional,   \* checks this build of the contracts may lack
  MaxLacking  \* bound: checks it lacks

ASSUME ScenariosAssumption ==
  /\ Optional \subseteq Checks
  /\ MaxLacking \in Nat

VARIABLE flying  \* transactions broadcast and not in a block

vars == <<sealingVars, scriptVars, flying>>

-----------------------------------------------------------------------------
(* What the bodies sign and send.  The days keep their order: epoch 0, then *)
(* epoch 1, then the days of the two pools.                                *)

Zero == "attester_zero"
RmDigest == "S052 runtime manifest"
Enclave == "S053 enclave"
Mock == "mock"
Ctx == "S053 loader context"
Sequence == 7

Epoch0 == [key |-> 0, start |-> 1, prev |-> Nobody]
Epoch1 == [key |-> 1, start |-> 2, prev |-> Digest(0, Epoch0)]
Signed(e, entry, signature) == [epoch |-> e, entry |-> entry, signature |-> signature]

\* S051's forgery: epoch 0's key signs an entry that still names epoch 0, and the entry
\* that is sent names epoch 1.
Forged ==
  LET entry == [Epoch1 EXCEPT !.start = 3] IN
  Signed(2, [entry EXCEPT !.prev = Digest(1, Epoch1)], Sign(0, Digest(2, entry)))

PoolsOfSync ==
  << [pool |-> 0, epoch |-> 1, day |-> 3, key |-> 1, handle |-> Nobody, count |-> 1, fold |-> 1],
     [pool |-> 1, epoch |-> 1, day |-> 4, key |-> 1, handle |-> Nobody, count |-> 1, fold |-> 1] >>

SignHandles(ctx, sequence, seals) ==
  [i \in DOMAIN seals |->
     [seals[i] EXCEPT !.handle =
        Sign(1, HandleMessage(Zero, ctx, SealId(ctx, sequence, seals[i]), seals[i]))]]

SettledBatch(ctx, sequence, seals) ==
  LET batch == [ctx |-> ctx, sequence |-> sequence, amount |-> 1, seals |-> seals,
                count |-> CountOf(seals), fold |-> FoldOf(seals), day |-> DayOf(seals),
                signature |-> Nobody] IN
  [batch EXCEPT !.signature = Sign(Enclave, SettlementMessage(batch, RmDigest))]

Batch(sequence) == SettledBatch(Ctx, sequence, SignHandles(Ctx, sequence, PoolsOfSync))

Anchor == [to |-> "anchor", by |-> "admin"]
Measurement == [to |-> "setMeasurement", by |-> "admin"]
Register == [to |-> "adminRegister", by |-> "admin"]
AdvanceTo(s) == [to |-> "advance", by |-> Zero, signed |-> s]
SubmitSU(su, batch) == [to |-> "submitSU", by |-> Zero, su |-> su, batch |-> batch]

\* The steps of a script: a write, or `over` steps skipped where something holds already;
\* a write that must be refused, for a reason or for any; a read; a pause between runs.
Write(c) == [op |-> "write", call |-> c, unless |-> "never", over |-> 1]
Refuse(c, w) == [op |-> "refuse", call |-> c, want |-> w]
Ensure(r) == [op |-> "ensure", reads |-> r]
Pause == [op |-> "pause"]

ASSUME StepAssumption ==
  StepsAmong({"write", "refuse", "ensure", "pause"})

\* Mutant of S051: whether epoch 0 is anchored is not asked.
S051Anchoring == << Write(Anchor), Ensure("anchored") >>

S051 == << [Write(Anchor) EXCEPT !.unless = "anchored"],
           Ensure("anchored"),
           [Write(AdvanceTo(Signed(1, Epoch1, Sign(0, Digest(1, Epoch1)))))
              EXCEPT !.unless = "advanced", !.over = 2],
           Refuse(AdvanceTo(Forged), "any"),
           Ensure("headIsOne"), Ensure("keyOfOne") >>

S052 == << Ensure("adminPath"),
           [Write(Measurement) EXCEPT !.unless = "active", !.over = 2],
           Write(Register),
           Ensure("active"), Ensure("notForOthers"), Ensure("notElsewhere"), Ensure("notUnknown") >>

\* Mutant of S053: each refusal may be for any reason.
S053AnyReason ==
  LET batch == Batch(Sequence) IN
  << [Write(SubmitSU(1, batch)) EXCEPT !.unless = "exists"],
     Ensure("entity"), Ensure("settled"),
     Refuse(SubmitSU(2, batch), "any"),
     Refuse(SubmitSU(3, Batch(Sequence + 1)), "any"),
     Refuse(SubmitSU(4, [batch EXCEPT !.seals = SubSeq(batch.seals, 1, 1)]), "any") >>

S053 ==
  LET batch == Batch(Sequence) IN
  << [Write(SubmitSU(1, batch)) EXCEPT !.unless = "exists"],
     Ensure("entity"), Ensure("settled"),
     Refuse(SubmitSU(2, batch), "AlreadySettled"),
     Refuse(SubmitSU(3, Batch(Sequence + 1)), "AlreadySettled"),
     Refuse(SubmitSU(4, [batch EXCEPT !.seals = SubSeq(batch.seals, 1, 1)]),
            "BatchTotalsMismatch") >>

Once == << S051, S052, S053 >>
Twice == << S051, S052, S053, << Pause >>, S051, S052, S053 >>

-----------------------------------------------------------------------------
(* The contracts' answers.                                                 *)

\* head() of an empty directory is 0.
HeadRead == IF directory = <<>> THEN 0 ELSE HeadEpoch

Holds(r) ==
  CASE r = "never" -> FALSE
    [] r = "anchored" -> directory # <<>>
    [] r = "advanced" -> HeadRead # 0
    [] r = "headIsOne" -> HeadRead = 1
    [] r = "keyOfOne" -> HeadRead >= 1 /\ KeyFor(1) = [epoch |-> 1, key |-> 1, start |-> 2, end |-> 0]
    [] r = "adminPath" -> "adminPath" \in makes
    [] r = "active" -> ActiveFor(Enclave, Zero, Mock)
    [] r = "notForOthers" -> ~ActiveFor(Enclave, "0xEE", Mock)
    [] r = "notElsewhere" -> ~ActiveFor(Enclave, Zero, "yapily")
    [] r = "notUnknown" -> ~ActiveFor("0xAB", Zero, Mock)
    [] r = "exists" -> \E u \in units : u.su = 1
    [] r = "entity" -> UnitOf(Zero, 1, Batch(Sequence)) \in units
    [] r = "settled" -> Settlements(Ctx) = {SettlementId(Ctx, Sequence)}

Refusal(c) ==
  CASE c.to = "anchor" -> IF Anchors(Epoch0) THEN "none" ELSE "AlreadyAnchored"
    [] c.to = "advance" -> IF directory # <<>> /\ Advances(c.signed) THEN "none" ELSE "BadEpoch"
    [] c.to = "submitSU" -> Settling(c.by, Mock, Enclave, c.batch)
    [] OTHER -> "none"

Execute(c) ==
  /\ directory' = CASE c.to = "anchor" -> <<Epoch0>>
                     [] c.to = "advance" -> Append(directory, c.signed.entry)
                     [] OTHER -> directory
  /\ deployments' = IF c.to = "adminRegister"
                       THEN {[enclave |-> Enclave, attester |-> Zero, provider |-> Mock,
                              manifest |-> RmDigest]}
                       ELSE deployments
  /\ units' = IF c.to = "submitSU" THEN units \cup {UnitOf(c.by, c.su, c.batch)} ELSE units

-----------------------------------------------------------------------------
(* The bodies.                                                             *)

Init ==
  /\ ScriptInit
  /\ makes \in {Checks \ lacking : lacking \in SUBSET Optional}
  /\ Cardinality(Checks \ makes) <= MaxLacking
  /\ directory = <<>> /\ deployments = {} /\ units = {}
  /\ flying = <<>>

Doing(op) == InBody /\ mid = "ready" /\ Now.op = op

Skip ==
  /\ Doing("write") /\ Holds(Now.unless)
  /\ step' = step + Now.over
  /\ UNCHANGED <<suite, at, mid, verdict, faulted, sealingVars, flying>>

\* What is read holds no more when the estimate is made, or not yet.
Begin ==
  /\ Doing("write") /\ ~Holds(Now.unless)
  /\ Reach("decided")
  /\ UNCHANGED <<faulted, sealingVars, flying>>

Sending == InBody /\ (mid = "decided" \/ (mid = "ready" /\ Now.op = "refuse"))

Send ==
  /\ Sending /\ Refusal(Now.call) = "none"
  /\ flying' = Append(flying, Now.call)
  /\ Reach("sent")
  /\ UNCHANGED <<faulted, sealingVars>>

\* The estimate fails.
TurnedDown ==
  /\ Sending /\ Refusal(Now.call) # "none"
  /\ IF Now.op = "refuse" /\ Now.want \in {"any", Refusal(Now.call)} THEN Advance ELSE Fail
  /\ UNCHANGED <<faulted, sealingVars, flying>>

\* S051 looks at send alone, S053 waits for the receipt first: either way a write that
\* had to be refused was not.
GetReceipt ==
  /\ InBody /\ mid = "sent"
  /\ Now.op = "refuse" \/ \A i \in 1..Len(flying) : flying[i].by # Now.call.by
  /\ IF Now.op = "refuse" THEN Fail ELSE Advance
  /\ UNCHANGED <<faulted, sealingVars, flying>>

Read ==
  /\ Doing("ensure")
  /\ IF Holds(Now.reads) THEN Advance ELSE Fail
  /\ UNCHANGED <<faulted, sealingVars, flying>>

\* The next run begins when what the last one sent has landed.
Paused ==
  /\ Doing("pause") /\ flying = <<>>
  /\ Advance
  /\ UNCHANGED <<faulted, sealingVars, flying>>

\* What is sent is lost on the way, or its answer on the way back.
Lost ==
  /\ Sending
  /\ \/ UNCHANGED flying
     \/ Refusal(Now.call) = "none" /\ flying' = Append(flying, Now.call)

\* A fault fails the body, except where any error of send passes for a refusal.
RpcFault ==
  /\ InBody /\ Now.op # "pause"
  /\ Faulty
  /\ \/ Fail /\ UNCHANGED flying
     \/ Lost /\ IF Now.op = "refuse" /\ Now.want = "any" THEN Advance ELSE Fail
  /\ UNCHANGED sealingVars

\* A block: a sender's transactions in order, one that reverts with no effect.
Land ==
  \E i \in 1..Len(flying) :
    /\ \A k \in 1..(i - 1) : flying[k].by # flying[i].by
    /\ IF Refusal(flying[i]) = "none" THEN Execute(flying[i])
                                      ELSE UNCHANGED <<directory, deployments, units>>
    /\ flying' = RemoveAt(flying, i)
    /\ UNCHANGED <<scriptVars, makes>>

Next ==
  Skip \/ Begin \/ Send \/ TurnedDown \/ GetReceipt \/ Read \/ Paused \/ RpcFault \/ Land

Spec == Init /\ [][Next]_vars

-----------------------------------------------------------------------------
(* What a run shows.                                                       *)

TypeOK ==
  /\ ScriptTypeOK
  /\ mid \in {"ready", "decided", "sent"}
  /\ makes \subseteq Checks
  /\ Len(directory) <= 3 /\ Cardinality(deployments) <= 1
  /\ \A u \in units : u.su \in 1..4
  /\ \A i \in 1..Len(flying) : flying[i].by \in {"admin", Zero}

Green == Ended /\ \A i \in Scenarios : verdict[i] = "pass"

\* A green run on a new devnet shows that the contracts make these checks: S052's of the
\* deployment, S053's of the totals and the context, whatever faults there were.  Of
\* S051's forgery it shows that some committee must have signed an entry, though not that
\* it was the head's, unless a fault has hit S051: s051:115-124 takes it for the refusal.
GreenMeansChecked ==
  Green => /\ {"attester", "provider", "enclave", "totals", "context"} \subseteq makes
           /\ \/ makes \cap {"signature", "signer"} # {}
              \/ \E i \in faulted : Suite[i] = S051

\* Which run of the three a scenario belongs to.
RunOf(i) == IF i <= 3 THEN 1..3 ELSE 5..7

\* s051:59-60, registries:1-3: the scenarios build on each other's state and can be run
\* again on a devnet that holds what an earlier run has left, at whatever step it broke
\* off.  On contracts that make every check one fails only if a fault has hit it or one
\* before it in its own run.
Rerunnable ==
  makes = Checks =>
    \A i \in Scenarios : verdict[i] = "fail" => \E j \in RunOf(i) : j <= i /\ j \in faulted

=============================================================================
