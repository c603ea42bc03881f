------------------------------ MODULE RerunProofs ------------------------------
(***************************************************************************)
(* S051, S052 and S053 on a devnet, once or twice, on contracts that lack  *)
(* any of the checks and with any number of faults: what a green run shows *)
(* of the contracts, and that what a run leaves behind, at whatever step   *)
(* it broke off, is no reason for the next one to fail.                    *)
(***************************************************************************)
EXTENDS SealingScenarios, InductionProofs, SequenceTheorems

\* The suites are the three scenarios, once or twice; a batch may hold two pools.
Reruns == \A n \in DOMAIN Suites : Suites[n] \in {Once, Twice}
TwoPools == MaxSeals >= 2

-----------------------------------------------------------------------------
(* The scripts.                                                            *)

Adv == AdvanceTo(Signed(1, Epoch1, Sign(0, Digest(1, Epoch1))))
Forge == AdvanceTo(Forged)
Sub(n) == CASE n = 1 -> SubmitSU(1, Batch(Sequence))
            [] n = 2 -> SubmitSU(2, Batch(Sequence))
            [] n = 3 -> SubmitSU(3, Batch(Sequence + 1))
            [] OTHER -> SubmitSU(4, [Batch(Sequence) EXCEPT !.seals = SubSeq(Batch(Sequence).seals, 1, 1)])

\* A step that writes, one that must be refused, one that reads.
IsWrite(s, c, u, over) == s.op = "write" /\ s.call = c /\ s.unless = u /\ s.over = over
IsRefuse(s, c, w) == s.op = "refuse" /\ s.call = c /\ s.want = w
IsEnsure(s, r) == s.op = "ensure" /\ s.reads = r

\* S051, step by step.
LEMMA StepsOfS051 ==
  /\ Len(S051) = 6
  /\ IsWrite(S051[1], Anchor, "anchored", 1)
  /\ IsEnsure(S051[2], "anchored")
  /\ IsWrite(S051[3], Adv, "advanced", 2)
  /\ IsRefuse(S051[4], Forge, "any")
  /\ IsEnsure(S051[5], "headIsOne")
  /\ IsEnsure(S051[6], "keyOfOne")
  BY DEF S051, IsWrite, IsEnsure, IsRefuse, Write, Ensure, Refuse, Adv, Forge

\* S052, step by step.
LEMMA StepsOfS052 ==
  /\ Len(S052) = 7
  /\ IsEnsure(S052[1], "adminPath")
  /\ IsWrite(S052[2], Measurement, "active", 2)
  /\ IsWrite(S052[3], Register, "never", 1)
  /\ IsEnsure(S052[4], "active")
  /\ IsEnsure(S052[5], "notForOthers")
  /\ IsEnsure(S052[6], "notElsewhere")
  /\ IsEnsure(S052[7], "notUnknown")
  BY DEF S052, IsWrite, IsEnsure, IsRefuse, Write, Ensure, Refuse

\* S053, step by step.
LEMMA StepsOfS053 ==
  /\ Len(S053) = 6
  /\ IsWrite(S053[1], Sub(1), "exists", 1)
  /\ IsEnsure(S053[2], "entity")
  /\ IsEnsure(S053[3], "settled")
  /\ IsRefuse(S053[4], Sub(2), "AlreadySettled")
  /\ IsRefuse(S053[5], Sub(3), "AlreadySettled")
  /\ IsRefuse(S053[6], Sub(4), "BatchTotalsMismatch")
  BY DEF S053, IsWrite, IsEnsure, IsRefuse, Write, Ensure, Refuse, Sub

\* A scenario of the suite is one of the three, or the pause between two runs.
First == at \in {1, 5}
Second == at \in {2, 6}
Third == at \in {3, 7}

LEMMA SuiteShape ==
  ASSUME Reruns, suite \in DOMAIN Suites
  PROVE  /\ Len(Suite) \in {3, 7}
         /\ \A i \in Scenarios : /\ i \in {1, 5} => Suite[i] = S051
                                 /\ i \in {2, 6} => Suite[i] = S052
                                 /\ i \in {3, 7} => Suite[i] = S053
                                 /\ i = 4 => Suite[i] = << Pause >>
<1>1. Suite \in {Once, Twice}
  BY DEF Reruns, Suite
<1>2. /\ Len(Once) = 3
      /\ Once[1] = S051 /\ Once[2] = S052 /\ Once[3] = S053
  BY DEF Once
<1>3. /\ Len(Twice) = 7
      /\ Twice[1] = S051 /\ Twice[2] = S052 /\ Twice[3] = S053 /\ Twice[4] = << Pause >>
      /\ Twice[5] = S051 /\ Twice[6] = S052 /\ Twice[7] = S053
  BY DEF Twice
<1> QED
  BY <1>1, <1>2, <1>3 DEF Scenarios

\* Where the suite is in a body says what its step is.
AtFirst ==
  /\ step \in 1..6 /\ Len(Suite[at]) = 6
  /\ step = 1 => IsWrite(Now, Anchor, "anchored", 1)
  /\ step = 2 => IsEnsure(Now, "anchored")
  /\ step = 3 => IsWrite(Now, Adv, "advanced", 2)
  /\ step = 4 => IsRefuse(Now, Forge, "any")
  /\ step = 5 => IsEnsure(Now, "headIsOne")
  /\ step = 6 => IsEnsure(Now, "keyOfOne")

AtSecond ==
  /\ step \in 1..7 /\ Len(Suite[at]) = 7
  /\ step = 1 => IsEnsure(Now, "adminPath")
  /\ step = 2 => IsWrite(Now, Measurement, "active", 2)
  /\ step = 3 => IsWrite(Now, Register, "never", 1)
  /\ step = 4 => IsEnsure(Now, "active")
  /\ step = 5 => IsEnsure(Now, "notForOthers")
  /\ step = 6 => IsEnsure(Now, "notElsewhere")
  /\ step = 7 => IsEnsure(Now, "notUnknown")

AtThird ==
  /\ step \in 1..6 /\ Len(Suite[at]) = 6
  /\ step = 1 => IsWrite(Now, Sub(1), "exists", 1)
  /\ step = 2 => IsEnsure(Now, "entity")
  /\ step = 3 => IsEnsure(Now, "settled")
  /\ step = 4 => IsRefuse(Now, Sub(2), "AlreadySettled")
  /\ step = 5 => IsRefuse(Now, Sub(3), "AlreadySettled")
  /\ step = 6 => IsRefuse(Now, Sub(4), "BatchTotalsMismatch")

LEMMA Where ==
  ASSUME Reruns, ScriptTypeOK, InBody
  PROVE  /\ Len(Suite) \in {3, 7} /\ at \in 1..7
         /\ First => AtFirst
         /\ Second => AtSecond
         /\ Third => AtThird
         /\ at = 4 => Now.op = "pause" /\ step = 1 /\ Len(Suite[at]) = 1
         /\ First \/ Second \/ Third \/ at = 4
<1>1. /\ Len(Suite) \in {3, 7} /\ at \in 1..7 /\ at \in Scenarios
      /\ step \in 1..Len(Suite[at])
  BY SuiteShape DEF ScriptTypeOK, InBody, Scenarios
<1>2. First => AtFirst
  <2> SUFFICES ASSUME First PROVE AtFirst
    OBVIOUS
  <2>1. Suite[at] = S051
    BY <1>1, SuiteShape DEF ScriptTypeOK, First
  <2> QED
    BY <1>1, <2>1, StepsOfS051 DEF AtFirst, Now
<1>3. Second => AtSecond
  <2> SUFFICES ASSUME Second PROVE AtSecond
    OBVIOUS
  <2>1. Suite[at] = S052
    BY <1>1, SuiteShape DEF ScriptTypeOK, Second
  <2> QED
    BY <1>1, <2>1, StepsOfS052 DEF AtSecond, Now
<1>4. Third => AtThird
  <2> SUFFICES ASSUME Third PROVE AtThird
    OBVIOUS
  <2>1. Suite[at] = S053
    BY <1>1, SuiteShape DEF ScriptTypeOK, Third
  <2> QED
    BY <1>1, <2>1, StepsOfS053 DEF AtThird, Now
<1>5. at = 4 => Now.op = "pause" /\ step = 1 /\ Len(Suite[at]) = 1
  <2> SUFFICES ASSUME at = 4 PROVE Now.op = "pause" /\ step = 1 /\ Len(Suite[at]) = 1
    OBVIOUS
  <2>1. Suite[at] = << Pause >>
    BY <1>1, SuiteShape DEF ScriptTypeOK
  <2> QED
    BY <1>1, <2>1 DEF Now, Pause
<1> QED
  BY <1>1, <1>2, <1>3, <1>4, <1>5 DEF First, Second, Third

-----------------------------------------------------------------------------
(* What is sent.                                                           *)

Calls == {Anchor, Measurement, Register, Adv, Forge} \cup {Sub(n) : n \in 1..4}

\* The calls that write the directory.
Directs(c) == c.to \in {"anchor", "advance"}

LEMMA CallsAre ==
  /\ Anchor.to = "anchor" /\ Anchor.by = "admin"
  /\ Measurement.to = "setMeasurement" /\ Measurement.by = "admin"
  /\ Register.to = "adminRegister" /\ Register.by = "admin"
  /\ Adv.to = "advance" /\ Adv.by = Zero /\ Forge.to = "advance" /\ Forge.by = Zero
  /\ \A n \in 1..4 : Sub(n).to = "submitSU" /\ Sub(n).by = Zero /\ Sub(n).su = n
  /\ Adv # Forge
<1>1. Adv.signed.epoch = 1 /\ Forge.signed.epoch = 2
  BY DEF Adv, Forge, AdvanceTo, Signed, Forged
<1> QED
  BY <1>1 DEF Anchor, Measurement, Register, Adv, Forge, AdvanceTo, Sub, SubmitSU

\* A call that a body sends is one of them.
LEMMA SentIsCall ==
  ASSUME Reruns, ScriptTypeOK, InBody, Now.op \in {"write", "refuse"}
  PROVE  Now.call \in Calls /\ (Directs(Now.call) => First)
<1>1. CASE First
  BY <1>1, Where DEF AtFirst, Calls, IsWrite, IsRefuse, IsEnsure
<1>2. CASE Second
  BY <1>2, Where, CallsAre DEF AtSecond, Calls, IsWrite, IsRefuse, IsEnsure, Directs
<1>3. CASE Third
  BY <1>3, Where, CallsAre DEF AtThird, Calls, IsWrite, IsRefuse, IsEnsure, Directs
<1> QED
  BY <1>1, <1>2, <1>3, Where

\* What is left of a queue without its i-th element, and where it was.
Shifted(i, j) == IF j < i THEN j ELSE j + 1

LEMMA TakenOut ==
  ASSUME NEW T, NEW q \in Seq(T), NEW i \in 1..Len(q)
  PROVE  /\ RemoveAt(q, i) \in Seq(T)
         /\ Len(RemoveAt(q, i)) = Len(q) - 1
         /\ \A j \in 1..(Len(q) - 1) : /\ RemoveAt(q, i)[j] = q[Shifted(i, j)]
                                       /\ Shifted(i, j) \in 1..Len(q) /\ Shifted(i, j) # i
         /\ \A j, k \in 1..(Len(q) - 1) : Shifted(i, j) = Shifted(i, k) => j = k
<1> DEFINE a == SubSeq(q, 1, i - 1)
           b == SubSeq(q, i + 1, Len(q))
<1>1. RemoveAt(q, i) = a \o b
  BY DEF RemoveAt
<1>2. /\ a \in Seq(T) /\ Len(a) = i - 1 /\ \A j \in 1..(i - 1) : a[j] = q[j]
      /\ b \in Seq(T) /\ Len(b) = Len(q) - i /\ \A j \in 1..(Len(q) - i) : b[j] = q[i + j]
  OBVIOUS
<1> HIDE DEF a, b
<1>3. /\ a \o b \in Seq(T) /\ Len(a \o b) = Len(q) - 1
      /\ \A j \in 1..(Len(q) - 1) : (a \o b)[j] = IF j < i THEN a[j] ELSE b[j - (i - 1)]
  <2>1. /\ a \o b \in Seq(T) /\ Len(a \o b) = Len(a) + Len(b)
        /\ \A j \in 1..(Len(a) + Len(b)) : (a \o b)[j] = IF j <= Len(a) THEN a[j] ELSE b[j - Len(a)]
    BY <1>2, Joined
  <2>2. Len(a) = i - 1 /\ Len(a) + Len(b) = Len(q) - 1
    BY <1>2
  <2> QED
    BY <2>1, <2>2
<1>4. ASSUME NEW j \in 1..(Len(q) - 1) PROVE (a \o b)[j] = q[Shifted(i, j)]
  <2>1. CASE j < i
    BY <1>2, <1>3, <2>1 DEF Shifted
  <2>2. CASE ~(j < i)
    <3>1. j - (i - 1) \in 1..(Len(q) - i) /\ i + (j - (i - 1)) = j + 1
      BY <2>2
    <3> QED
      BY <1>2, <1>3, <2>2, <3>1 DEF Shifted
  <2> QED
    BY <2>1, <2>2
<1>5. ASSUME NEW j \in 1..(Len(q) - 1)
      PROVE  Shifted(i, j) \in 1..Len(q) /\ Shifted(i, j) # i
  BY SMT DEF Shifted
<1>6. ASSUME NEW j \in 1..(Len(q) - 1), NEW k \in 1..(Len(q) - 1), Shifted(i, j) = Shifted(i, k)
      PROVE  j = k
  BY <1>6, SMT DEF Shifted
<1>7. RemoveAt(q, i) \in Seq(T) /\ Len(RemoveAt(q, i)) = Len(q) - 1
  BY <1>1, <1>3
<1>8. ASSUME NEW j \in 1..(Len(q) - 1) PROVE RemoveAt(q, i)[j] = q[Shifted(i, j)]
  BY <1>1, <1>4
<1> QED
  BY <1>5, <1>6, <1>7, <1>8

-----------------------------------------------------------------------------
(* Where the suite is.                                                     *)

PlaceInv ==
  /\ ScriptTypeOK
  /\ mid \in {"ready", "decided", "sent"}
  /\ mid = "decided" => InBody /\ Now.op = "write"
  /\ mid = "sent" => InBody /\ Now.op \in {"write", "refuse"}
  /\ \A i \in Scenarios : i >= at => verdict[i] = "todo"
  /\ \A i \in faulted : i <= at
  /\ flying \in Seq(Calls)

\* What a step of a body comes to: it goes on in the step, to a later one, or it ends; and
\* a fault that S051 takes for the refusal of its forgery does not end it.
Inside == UNCHANGED <<suite, at, step, verdict, faulted>>
Mistaken == First /\ step = 4 /\ step' = 5 /\ at \in faulted'
Onward ==
  /\ mid' = "ready" /\ UNCHANGED <<suite, at, verdict>>
  /\ faulted' = faulted \/ (faulted' = faulted \cup {at} /\ Mistaken)
  /\ step' \in Nat \ {0} /\ step' > step /\ step' <= Len(Suite[at])
Finished(v) ==
  /\ mid' = "ready" /\ at' = at + 1 /\ step' = 1 /\ suite' = suite
  /\ verdict' = [verdict EXCEPT ![at] = v]
Passed == Finished("pass") /\ faulted' = faulted /\ step = Len(Suite[at])
Failed == Finished("fail") /\ faulted' \in {faulted, faulted \cup {at}}

\* Only S051's forgery may be refused for any reason.
LEMMA AnyIsForge ==
  ASSUME Reruns, ScriptTypeOK, InBody, Now.op = "refuse", Now.want = "any"
  PROVE  First /\ step = 4 /\ Len(Suite[at]) = 6
<1>1. ~Second
  BY Where DEF AtSecond, IsEnsure, IsWrite
<1>2. ~Third
  BY Where DEF AtThird, IsEnsure, IsWrite, IsRefuse
<1>3. at # 4
  BY Where
<1> QED
  BY <1>1, <1>2, <1>3, Where DEF AtFirst, IsEnsure, IsWrite

\* A fault fails the body, or S051 takes it for the refusal of what it sent.
LEMMA Hit ==
  ASSUME Reruns, ScriptTypeOK, RpcFault
  PROVE  /\ InBody /\ faulted' = faulted \cup {at} /\ UNCHANGED sealingVars
         /\ \/ Failed
            \/ Onward /\ Mistaken /\ Now.op = "refuse" /\ Sending
         /\ \/ UNCHANGED flying
            \/ Sending /\ Refusal(Now.call) = "none" /\ flying' = Append(flying, Now.call)
<1>1. InBody /\ faulted' = faulted \cup {at} /\ UNCHANGED sealingVars
  BY DEF RpcFault, Faulty
<1>2. \/ UNCHANGED flying
      \/ Sending /\ Refusal(Now.call) = "none" /\ flying' = Append(flying, Now.call)
  BY DEF RpcFault, Lost
<1>3. CASE Fail
  BY <1>1, <1>2, <1>3 DEF Fail, End, Failed, Finished
<1>4. CASE ~Fail
  <2>1. Sending /\ Now.op = "refuse" /\ Now.want = "any" /\ Advance
    BY <1>4 DEF RpcFault, Lost
  <2>2. First /\ step = 4 /\ Len(Suite[at]) = 6
    BY <1>1, <2>1, AnyIsForge
  <2>3. mid = "ready" \/ mid = "decided"
    BY <2>1 DEF Sending
  <2> QED
    BY <1>1, <1>2, <2>1, <2>2, <2>3 DEF Advance, Onward, Mistaken
<1> QED
  BY <1>3, <1>4

LEMMA Steps ==
  ASSUME Reruns, ScriptTypeOK, Next
  PROVE  /\ InBody /\ (Onward \/ Passed \/ Failed)
         \/ Inside
<1>1. InBody => (step \in Nat \ {0} /\ step <= Len(Suite[at]) /\ Len(Suite[at]) \in Nat)
  BY Where DEF ScriptTypeOK, InBody, AtFirst, AtSecond, AtThird
<1>2. ASSUME InBody, Advance, UNCHANGED faulted PROVE Onward \/ Passed
  BY <1>1, <1>2 DEF Advance, Pass, End, Onward, Passed, Finished
<1>3. ASSUME InBody, Fail, faulted' \in {faulted, faulted \cup {at}} PROVE Failed
  BY <1>3 DEF Fail, End, Failed, Finished
<1>4. CASE Skip
  <2>1. InBody /\ step' = step + Now.over /\ Now.op = "write" /\ Now.unless # "never"
    BY <1>4 DEF Skip, Doing, Holds
  <2>2. /\ Now.over \in {1, 2} /\ step + Now.over <= Len(Suite[at])
    <3>1. CASE First
      <4>1. AtFirst
        BY <2>1, <3>1, Where
      <4>2. step \in {1, 3}
        BY <2>1, <4>1 DEF AtFirst, IsEnsure, IsRefuse
      <4> QED
        BY <4>1, <4>2 DEF AtFirst, IsWrite
    <3>2. CASE Second
      <4>1. AtSecond
        BY <2>1, <3>2, Where
      <4>2. step = 2
        BY <2>1, <4>1 DEF AtSecond, IsEnsure, IsWrite
      <4> QED
        BY <4>1, <4>2 DEF AtSecond, IsWrite
    <3>3. CASE Third
      <4>1. AtThird
        BY <2>1, <3>3, Where
      <4>2. step = 1
        BY <2>1, <4>1 DEF AtThird, IsEnsure, IsRefuse
      <4> QED
        BY <4>1, <4>2 DEF AtThird, IsWrite
    <3> QED
      BY <2>1, <3>1, <3>2, <3>3, Where
  <2>3. Onward
    BY <1>1, <1>4, <2>1, <2>2 DEF Skip, Onward, Doing
  <2> QED
    BY <2>1, <2>3
<1>5. CASE Begin \/ Send \/ Land
  BY <1>5 DEF Begin, Send, Land, Reach, Inside, scriptVars
<1>6. CASE TurnedDown
  BY <1>2, <1>3, <1>6 DEF TurnedDown, Sending
<1>7. CASE GetReceipt
  BY <1>2, <1>3, <1>7 DEF GetReceipt
<1>8. CASE Read
  BY <1>2, <1>3, <1>8 DEF Read, Doing
<1>9. CASE Paused
  BY <1>2, <1>9 DEF Paused, Doing
<1>10. CASE RpcFault
  BY <1>10, Hit
<1> QED
  BY <1>4, <1>5, <1>6, <1>7, <1>8, <1>9, <1>10 DEF Next

\* A body that has ended is the last one, or the next one begins.
LEMMA NextBegins ==
  ASSUME Reruns, ScriptTypeOK, InBody
  PROVE  at + 1 \in Scenarios => Len(Suite[at + 1]) \in Nat /\ Len(Suite[at + 1]) >= 1
<1>1. /\ Len(S051) = 6 /\ Len(S052) = 7 /\ Len(S053) = 6 /\ Len(<< Pause >>) = 1
  BY StepsOfS051, StepsOfS052, StepsOfS053
<1>2. suite \in DOMAIN Suites
  BY DEF ScriptTypeOK
<1>3. at + 1 \in Scenarios => at + 1 \in 1..7
  <2>1. Len(Suite) \in {3, 7}
    BY <1>2, SuiteShape
  <2>2. at \in Nat
    BY <2>1 DEF ScriptTypeOK
  <2>3. PICK n \in {3, 7} : n = Len(Suite)
    BY <2>1
  <2>4. Scenarios = 1..n
    BY <2>3 DEF Scenarios
  <2>5. PICK a \in Nat : a = at + 1
    BY <2>2
  <2>6. a \in 1..n => a \in 1..7
    OBVIOUS
  <2> QED
    BY <2>4, <2>5, <2>6
<1>4. ASSUME at + 1 \in Scenarios
      PROVE  Len(Suite[at + 1]) \in Nat /\ Len(Suite[at + 1]) >= 1
  <2>1. PICK i : i = at + 1 /\ i \in Scenarios
    BY <1>4
  <2>2. i \in 1..7
    BY <1>3, <1>4, <2>1
  <2>3. /\ i \in {1, 5} => Suite[i] = S051
        /\ i \in {2, 6} => Suite[i] = S052
        /\ i \in {3, 7} => Suite[i] = S053
        /\ i = 4 => Suite[i] = << Pause >>
    BY <1>2, <2>1, SuiteShape
  <2>4. Len(Suite[i]) \in {1, 6, 7}
    BY <1>1, <2>2, <2>3
  <2>5. Suite[at + 1] = Suite[i]
    BY <2>1
  <2>6. Len(Suite[at + 1]) \in {1, 6, 7}
    BY <2>4, <2>5
  <2> QED
    BY <2>6
<1> QED
  BY <1>4

\* The sequence of the bodies keeps its type.
LEMMA ScriptTypeStep ==
  ASSUME Reruns, ScriptTypeOK, Next
  PROVE  ScriptTypeOK'
<1>1. CASE Inside
  BY <1>1 DEF Inside, ScriptTypeOK, Scenarios, Suite
<1>2. CASE InBody /\ Onward
  <2>1. faulted' \subseteq Scenarios
    BY <1>2 DEF Onward, ScriptTypeOK, InBody
  <2>2. UNCHANGED <<suite, at, verdict>> /\ step' \in 1..Len(Suite[at])
    BY <1>2, Where DEF Onward, AtFirst, AtSecond, AtThird
  <2> QED
    BY <1>2, <2>1, <2>2 DEF Onward, ScriptTypeOK, Scenarios, Suite
<1>3. CASE InBody /\ (Passed \/ Failed)
  <2>1. at \in Scenarios /\ Len(Suite) \in Nat
    BY <1>3, Where DEF InBody
  <2>2. /\ suite' = suite /\ at' = at + 1 /\ step' = 1
        /\ verdict' \in [Scenarios -> {"todo", "pass", "fail"}]
        /\ faulted' \subseteq Scenarios
    BY <1>3, <2>1 DEF Passed, Failed, Finished, ScriptTypeOK
  <2> QED
    BY <1>3, <2>1, <2>2, NextBegins DEF ScriptTypeOK, Scenarios, Suite
<1> QED
  BY <1>1, <1>2, <1>3, Steps

\* What is under way after a step: as before, or one call more, which passes its estimate,
\* or one less, which has been executed if it still does.
Kept == UNCHANGED <<flying, sealingVars>>
Sent ==
  /\ InBody /\ mid \in {"decided", "ready"} /\ (mid = "decided" \/ Now.op = "refuse")
  /\ Now.op \in {"write", "refuse"}
  /\ Refusal(Now.call) = "none"
  /\ flying' = Append(flying, Now.call) /\ UNCHANGED sealingVars
  /\ (mid' = "sent" /\ Inside) \/ Failed \/ Onward
Landed(i) ==
  /\ flying' = RemoveAt(flying, i)
  /\ IF Refusal(flying[i]) = "none" THEN Execute(flying[i])
                                    ELSE UNCHANGED <<directory, deployments, units>>
  /\ UNCHANGED <<scriptVars, makes>>

LEMMA Traffic ==
  ASSUME Reruns, PlaceInv, Next
  PROVE  Kept \/ Sent \/ \E i \in 1..Len(flying) : Landed(i)
<1>1. CASE Skip \/ Begin \/ TurnedDown \/ GetReceipt \/ Read \/ Paused
  BY <1>1 DEF Skip, Begin, TurnedDown, GetReceipt, Read, Paused, Kept, sealingVars
<1>2. Sending => InBody /\ mid \in {"decided", "ready"} /\ (mid = "decided" \/ Now.op = "refuse")
                 /\ Now.op \in {"write", "refuse"}
  BY DEF Sending, PlaceInv
<1>3. CASE Send
  BY <1>2, <1>3 DEF Send, Sent, Reach, Inside, sealingVars
<1>4. CASE RpcFault
  <2>1. /\ InBody /\ UNCHANGED sealingVars /\ (Failed \/ Onward)
        /\ \/ UNCHANGED flying
           \/ Sending /\ Refusal(Now.call) = "none" /\ flying' = Append(flying, Now.call)
    BY <1>4, Hit DEF PlaceInv
  <2> QED
    BY <1>2, <2>1 DEF Sent, Kept
<1>5. CASE Land
  BY <1>5 DEF Land, Landed
<1> QED
  BY <1>1, <1>3, <1>4, <1>5 DEF Next

\* How far inside its step a body is.
LEMMA MidStep ==
  ASSUME Reruns, PlaceInv, Next
  PROVE  /\ mid' \in {"ready", "decided", "sent"}
         /\ mid' # "ready" => Inside /\ InBody
         /\ mid' = "decided" => Now.op = "write"
         /\ mid' = "sent" => Now.op \in {"write", "refuse"}
<1>1. CASE Skip \/ TurnedDown \/ GetReceipt \/ Read \/ Paused \/ RpcFault
  <2>1. RpcFault => mid' = "ready"
    BY DEF RpcFault, Advance, Pass, Fail, End
  <2> QED
    BY <1>1, <2>1 DEF Skip, TurnedDown, GetReceipt, Read, Paused, Advance, Pass, Fail, End, Doing, PlaceInv
<1>2. CASE Begin
  BY <1>2 DEF Begin, Doing, Reach, Inside
<1>3. CASE Send
  BY <1>3 DEF Send, Sending, Reach, Inside, PlaceInv
<1>4. CASE Land
  BY <1>4 DEF Land, scriptVars, PlaceInv, Inside
<1> QED
  BY <1>1, <1>2, <1>3, <1>4 DEF Next

LEMMA PlaceInvStep ==
  ASSUME Reruns, PlaceInv, Next
  PROVE  PlaceInv'
<1>1. ScriptTypeOK'
  BY ScriptTypeStep DEF PlaceInv
<1>2. /\ mid' \in {"ready", "decided", "sent"}
      /\ mid' = "decided" => InBody' /\ (Now.op = "write")'
      /\ mid' = "sent" => InBody' /\ (Now.op \in {"write", "refuse"})'
  BY MidStep DEF Inside, InBody, Now, Scenarios, Suite
<1>3. \A i \in Scenarios' : i >= at' => verdict'[i] = "todo"
  <2>1. CASE Inside
    BY <2>1 DEF Inside, PlaceInv, Scenarios, Suite
  <2>2. CASE Onward
    BY <2>2 DEF Onward, PlaceInv, Scenarios, Suite
  <2>3. CASE InBody /\ (Passed \/ Failed)
    <3>1. /\ at \in Scenarios /\ at' = at + 1 /\ Scenarios' = Scenarios /\ Scenarios \subseteq Nat
          /\ \E v : verdict' = [verdict EXCEPT ![at] = v]
      BY <2>3 DEF Passed, Failed, Finished, InBody, Scenarios, Suite
    <3>2. verdict \in [Scenarios -> {"todo", "pass", "fail"}]
      BY DEF PlaceInv, ScriptTypeOK
    <3> QED
      BY <3>1, <3>2 DEF PlaceInv
  <2> QED
    BY <2>1, <2>2, <2>3, Steps DEF PlaceInv
<1>4. \A i \in faulted' : i <= at'
  <2>1. at \in Nat /\ faulted \subseteq Nat
    <3>1. Len(Suite) \in {3, 7}
      BY SuiteShape DEF PlaceInv, ScriptTypeOK
    <3>2. at \in 1..(Len(Suite) + 1) /\ faulted \subseteq 1..Len(Suite)
      BY DEF PlaceInv, ScriptTypeOK, Scenarios
    <3> QED
      BY <3>1, <3>2
  <2>2. CASE Inside \/ Onward
    <3>1. at' = at /\ faulted' \subseteq faulted \cup {at}
      BY <2>2 DEF Inside, Onward
    <3>2. \A i \in faulted : i <= at
      BY DEF PlaceInv
    <3>3. at <= at
      BY <2>1
    <3> QED
      BY <3>1, <3>2, <3>3
  <2>3. CASE Passed \/ Failed
    <3>1. at' = at + 1 /\ faulted' \subseteq faulted \cup {at}
      BY <2>3 DEF Passed, Failed, Finished
    <3>2. \A i \in faulted : i <= at
      BY DEF PlaceInv
    <3> QED
      BY <2>1, <3>1, <3>2
  <2> QED
    BY <2>2, <2>3, Steps DEF PlaceInv
<1>5. flying' \in Seq(Calls)
  <2>1. CASE Kept
    BY <2>1 DEF Kept, PlaceInv
  <2>2. CASE Sent
    BY <2>2, SentIsCall DEF Sent, PlaceInv
  <2>3. CASE \E i \in 1..Len(flying) : Landed(i)
    <3>1. PICK i \in 1..Len(flying) : flying' = RemoveAt(flying, i)
      BY <2>3 DEF Landed
    <3> QED
      BY <3>1, TakenOut DEF PlaceInv
  <2> QED
    BY <2>1, <2>2, <2>3, Traffic
<1> QED
  BY <1>1, <1>2, <1>3, <1>4, <1>5 DEF PlaceInv

-----------------------------------------------------------------------------
(* The directory.                                                          *)

\* One more element behind one or two.
LEMMA AppendedToOne ==
  ASSUME NEW a, NEW b
  PROVE  Append(<< a >>, b) = << a, b >>
<1> DEFINE s == Append(<< a >>, b)
           t == << a, b >>
<1>1. s \in Seq({a, b}) /\ Len(s) = 2 /\ s[1] = a /\ s[2] = b
  OBVIOUS
<1>2. t \in Seq({a, b}) /\ Len(t) = 2 /\ t[1] = a /\ t[2] = b
  OBVIOUS
<1> HIDE DEF s, t
<1>3. s = t
  BY <1>1, <1>2, SeqEqual
<1> QED
  BY <1>3 DEF s, t

LEMMA AppendedToTwo ==
  ASSUME NEW a, NEW b, NEW c
  PROVE  Append(<< a, b >>, c) = << a, b, c >>
<1> DEFINE s == Append(<< a, b >>, c)
           t == << a, b, c >>
<1>1. s \in Seq({a, b, c}) /\ Len(s) = 3 /\ s[1] = a /\ s[2] = b /\ s[3] = c
  OBVIOUS
<1>2. t \in Seq({a, b, c}) /\ Len(t) = 3 /\ t[1] = a /\ t[2] = b /\ t[3] = c
  OBVIOUS
<1> HIDE DEF s, t
<1>3. s = t
  BY <1>1, <1>2, SeqEqual
<1> QED
  BY <1>3 DEF s, t

D1 == << Epoch0 >>
D2 == << Epoch0, Epoch1 >>
D3 == << Epoch0, Epoch1, Forged.entry >>

LEMMA Directories ==
  /\ D1 # <<>> /\ D2 # <<>> /\ D3 # <<>> /\ D1 # D2 /\ D1 # D3 /\ D2 # D3
  /\ Len(<<>>) = 0 /\ Len(D1) = 1 /\ Len(D2) = 2 /\ Len(D3) = 3
  /\ Append(D1, Adv.signed.entry) = D2
  /\ Append(D2, Forge.signed.entry) = D3
<1>1. /\ Len(<<>>) = 0 /\ Len(D1) = 1 /\ Len(D2) = 2 /\ Len(D3) = 3
  BY DEF D1, D2, D3
<1>2. Adv.signed.entry = Epoch1 /\ Forge.signed.entry = Forged.entry
  BY DEF Adv, Forge, AdvanceTo, Signed
<1>3. /\ \A a, b : Append(<< a >>, b) = << a, b >>
      /\ \A a, b, c : Append(<< a, b >>, c) = << a, b, c >>
  BY AppendedToOne, AppendedToTwo
<1>4. Append(D1, Adv.signed.entry) = D2 /\ Append(D2, Forge.signed.entry) = D3
  BY <1>2, <1>3 DEF D1, D2, D3
<1>5. D1 # <<>> /\ D2 # <<>> /\ D3 # <<>> /\ D1 # D2 /\ D1 # D3 /\ D2 # D3
  BY <1>1
<1> QED
  BY <1>1, <1>4, <1>5

\* What the head of the directory is, by how far it has come.
LEMMA Heads ==
  /\ directory = <<>> => HeadRead = 0
  /\ directory = D1 => HeadRead = 0 /\ HeadEpoch = 0
  /\ directory = D2 => HeadRead = 1 /\ HeadEpoch = 1
  /\ directory = D3 => HeadRead = 2 /\ HeadEpoch = 2
  BY Directories DEF HeadRead, HeadEpoch

\* Anchoring is open while there is no directory, and the entry of epoch 1 has its place
\* behind epoch 0.
LEMMA Openings ==
  /\ directory = <<>> => Refusal(Anchor) = "none"
  /\ directory = <<>> => Refusal(Adv) # "none" /\ Refusal(Forge) # "none"
  BY CallsAre DEF Refusal, Anchors

LEMMA AdvFits ==
  ASSUME directory = D1
  PROVE  Refusal(Adv) = "none"
<1>1. /\ Adv.to = "advance" /\ Adv.signed = Signed(1, Epoch1, Sign(0, Digest(1, Epoch1)))
      /\ directory # <<>> /\ HeadEpoch = 0
  BY Directories, Heads DEF Adv, AdvanceTo
<1> DEFINE s == Signed(1, Epoch1, Sign(0, Digest(1, Epoch1)))
<1>2. /\ s.epoch = 1 /\ s.entry = Epoch1 /\ s.signature = Sign(0, Digest(1, Epoch1))
      /\ Epoch1.prev = Digest(0, Epoch0)
  BY DEF Signed, Epoch1
<1>3. directory[1] = Epoch0 /\ Epoch0.key = 0
  BY DEF D1, Epoch0
<1> HIDE DEF s
<1>4. DigestAt(HeadEpoch) = Digest(0, Epoch0)
  BY <1>1, <1>3 DEF DigestAt
<1>5. Verifies(s.signature, directory[HeadEpoch + 1].key, Digest(s.epoch, s.entry))
  BY <1>1, <1>2, <1>3 DEF Verifies
<1>6. SignedBefore(s)
  BY <1>1, <1>5 DEF SignedBefore
<1>7. Advances(s)
  BY <1>1, <1>2, <1>4, <1>5, <1>6 DEF Advances
<1> QED
  BY <1>1, <1>7 DEF Refusal, s

\* The forged entry names the head and the next epoch; nobody has signed it.
LEMMA ForgeFits ==
  ASSUME directory = D2, Refusal(Forge) # "none"
  PROVE  makes \cap {"signature", "signer"} # {}
<1>1. /\ Forge.to = "advance" /\ Forge.signed = Forged
      /\ directory # <<>> /\ HeadEpoch = 1
  BY Directories, Heads DEF Forge, AdvanceTo
<1>2. Forged.epoch = 2 /\ Forged.entry.prev = Digest(1, Epoch1)
  BY DEF Forged, Signed, Epoch1
<1>3. directory[2] = Epoch1
  BY DEF D2
<1>4. DigestAt(HeadEpoch) = Digest(1, Epoch1)
  BY <1>1, <1>3 DEF DigestAt
<1>5. ~Advances(Forged)
  BY <1>1 DEF Refusal
<1> QED
  BY <1>1, <1>2, <1>4, <1>5 DEF Advances

LEMMA ForgeIsUnsigned ==
  ASSUME "signature" \in makes
  PROVE  Refusal(Forge) # "none"
<1>1. /\ Forge.to = "advance" /\ Forge.signed = Forged
  BY DEF Forge, AdvanceTo
<1> DEFINE signed == [Epoch1 EXCEPT !.start = 3]
           sent == [signed EXCEPT !.prev = Digest(1, Epoch1)]
<1>2. Forged = Signed(2, sent, Sign(0, Digest(2, signed)))
  BY DEF Forged
<1>3. signed.prev = Digest(0, Epoch0) /\ sent.prev = Digest(1, Epoch1)
  BY DEF Epoch1
<1>4. Digest(0, Epoch0) # Digest(1, Epoch1)
  BY DEF Digest
<1>5. signed # sent
  BY <1>3, <1>4
<1> HIDE DEF signed, sent
<1>6. Digest(2, signed) # Digest(2, sent)
  BY <1>5 DEF Digest
<1>7. ASSUME NEW k PROVE ~Verifies(Forged.signature, k, Digest(Forged.epoch, Forged.entry))
  BY <1>2, <1>6 DEF Verifies, Sign, Signed
<1>8. ~SignedBefore(Forged)
  BY <1>7 DEF SignedBefore
<1> QED
  BY <1>1, <1>8 DEF Refusal, Advances

\* What is under way to the directory finds it as it was when it was sent; S051 shares
\* the pool with nobody, and leaves nothing in it but a forgery whose answer was lost.
FirstInv ==
  /\ mid # "sent" /\ step <= 4 => flying = <<>>
  /\ mid = "sent" => flying \in {<<>>, << Now.call >>}
  /\ step \in {5, 6} => flying \in {<<>>, << Forge >>}
  /\ step = 1 => /\ mid = "decided" => directory = <<>>
                 /\ mid = "sent" /\ flying = <<>> => directory # <<>>
  /\ step = 2 => directory # <<>>
  /\ step = 3 => /\ directory # <<>>
                 /\ mid = "decided" => directory = D1
                 /\ mid = "sent" /\ flying = <<>> => directory = D2
  /\ step = 4 => directory = D2 \/ (mid = "sent" /\ directory = D3)
  /\ step \in {5, 6} => directory \in {D2, D3}

DirectoryInv ==
  /\ directory \in {<<>>, D1, D2, D3}
  /\ \A i, j \in 1..Len(flying) : Directs(flying[i]) /\ Directs(flying[j]) => i = j
  /\ \A i \in 1..Len(flying) : /\ flying[i] = Anchor => directory = <<>>
                               /\ flying[i] = Adv => directory = D1
                               /\ flying[i] = Forge => directory = D2
  /\ First /\ InBody => FirstInv

LEMMA LandedDirectory ==
  ASSUME PlaceInv, DirectoryInv, NEW i \in 1..Len(flying), Landed(i)
  PROVE  /\ flying[i] = Anchor => directory = <<>> /\ directory' = D1
         /\ flying[i] = Adv => directory = D1 /\ directory' = D2
         /\ flying[i] = Forge => directory = D2 /\ directory' \in {D2, D3}
         /\ ~Directs(flying[i]) => directory' = directory
         /\ Directs(flying[i]) => flying[i] \in {Anchor, Adv, Forge}
<1>1. flying[i] \in Calls
  BY DEF PlaceInv
<1>2. \/ UNCHANGED directory /\ Refusal(flying[i]) # "none"
      \/ directory' = CASE flying[i].to = "anchor" -> << Epoch0 >>
                        [] flying[i].to = "advance" -> Append(directory, flying[i].signed.entry)
                        [] OTHER -> directory
  BY DEF Landed, Execute
<1>3. CASE flying[i] = Anchor
  <2>1. directory = <<>> /\ Refusal(Anchor) = "none"
    BY <1>3, Openings DEF DirectoryInv
  <2> QED
    BY <1>2, <1>3, <2>1, CallsAre, Directories DEF D1, Directs
<1>4. CASE flying[i] = Adv
  <2>1. directory = D1 /\ Refusal(Adv) = "none"
    BY <1>4, AdvFits DEF DirectoryInv
  <2> QED
    BY <1>2, <1>4, <2>1, CallsAre, Directories DEF Directs
<1>5. CASE flying[i] = Forge
  <2>1. directory = D2
    BY <1>5 DEF DirectoryInv
  <2> QED
    BY <1>2, <1>5, <2>1, CallsAre, Directories DEF Directs
<1>6. CASE flying[i] \in {Measurement, Register} \cup {Sub(n) : n \in 1..4}
  BY <1>2, <1>6, CallsAre DEF Directs
<1> QED
  BY <1>1, <1>3, <1>4, <1>5, <1>6 DEF Calls

\* The calls of S051 are its own three.
LEMMA FirstSends ==
  ASSUME Reruns, PlaceInv, InBody, First, Now.op \in {"write", "refuse"}
  PROVE  /\ step \in {1, 3, 4} /\ Now.call \in {Anchor, Adv, Forge}
         /\ Now.call = Anchor <=> step = 1
         /\ Now.call = Adv <=> step = 3
         /\ Now.call = Forge <=> step = 4
         /\ step \in {1, 3} <=> Now.op = "write"
<1>1. AtFirst
  BY Where DEF PlaceInv
<1>2. Anchor # Adv /\ Anchor # Forge /\ Adv # Forge
  BY CallsAre
<1>3. step \in {1, 3, 4}
  BY <1>1 DEF AtFirst, IsEnsure
<1>4. CASE step = 1
  BY <1>1, <1>2, <1>4 DEF AtFirst, IsWrite
<1>5. CASE step = 3
  BY <1>1, <1>2, <1>5 DEF AtFirst, IsWrite
<1>6. CASE step = 4
  BY <1>1, <1>2, <1>6 DEF AtFirst, IsRefuse
<1> QED
  BY <1>3, <1>4, <1>5, <1>6

\* The directory and what is under way to it.
LEMMA DirectoryStep ==
  ASSUME Reruns, PlaceInv, DirectoryInv, Next
  PROVE  /\ directory' \in {<<>>, D1, D2, D3}
         /\ \A i, j \in 1..Len(flying') : Directs(flying'[i]) /\ Directs(flying'[j]) => i = j
         /\ \A i \in 1..Len(flying') : /\ flying'[i] = Anchor => directory' = <<>>
                                       /\ flying'[i] = Adv => directory' = D1
                                       /\ flying'[i] = Forge => directory' = D2
<1>1. flying \in Seq(Calls) /\ Len(flying) \in Nat
  BY DEF PlaceInv
<1>2. CASE Kept
  BY <1>2 DEF Kept, sealingVars, DirectoryInv
<1>3. CASE Sent
  <2>1. /\ directory' = directory /\ flying' = Append(flying, Now.call)
        /\ InBody /\ mid # "sent" /\ Now.op \in {"write", "refuse"}
        /\ Now.op = "write" => mid = "decided"
    BY <1>3 DEF Sent, sealingVars
  <2>2. Now.call \in Calls /\ (Directs(Now.call) => First)
    BY <2>1, SentIsCall DEF PlaceInv
  <2>3. /\ Len(flying') = Len(flying) + 1 /\ flying'[Len(flying) + 1] = Now.call
        /\ \A i \in 1..Len(flying) : flying'[i] = flying[i]
    BY <1>1, <2>1, <2>2
  <2>4. CASE Directs(Now.call)
    <3>1. First /\ FirstInv /\ Len(flying) = 0
      <4>1. First /\ FirstInv /\ step <= 4
        BY <2>1, <2>2, <2>4, FirstSends DEF DirectoryInv
      <4>2. flying = <<>>
        BY <2>1, <4>1 DEF FirstInv
      <4> QED
        BY <4>1, <4>2
    <3>2. /\ Now.call = Anchor => directory = <<>>
          /\ Now.call = Adv => directory = D1
          /\ Now.call = Forge => directory = D2
      BY <2>1, <3>1, FirstSends DEF FirstInv
    <3> QED
      BY <2>1, <2>3, <3>1, <3>2 DEF DirectoryInv
  <2>5. CASE ~Directs(Now.call)
    <3>1. Now.call \notin {Anchor, Adv, Forge}
      BY <2>5, CallsAre DEF Directs
    <3>2. \A i \in 1..Len(flying') : i \in 1..Len(flying) \/ flying'[i] = Now.call
      BY <1>1, <2>3
    <3> QED
      BY <2>1, <2>3, <2>5, <3>1, <3>2 DEF DirectoryInv
  <2> QED
    BY <2>4, <2>5
<1>4. CASE \E i \in 1..Len(flying) : Landed(i)
  <2>1. PICK i \in 1..Len(flying) : Landed(i)
    BY <1>4
  <2>2. flying' = RemoveAt(flying, i)
    BY <2>1 DEF Landed
  <2>3. /\ Len(flying') = Len(flying) - 1
        /\ \A j \in 1..Len(flying') : /\ flying'[j] = flying[Shifted(i, j)]
                                      /\ Shifted(i, j) \in 1..Len(flying) /\ Shifted(i, j) # i
        /\ \A j, k \in 1..Len(flying') : Shifted(i, j) = Shifted(i, k) => j = k
    <3>1. /\ Len(RemoveAt(flying, i)) = Len(flying) - 1
          /\ \A j \in 1..(Len(flying) - 1) : /\ RemoveAt(flying, i)[j] = flying[Shifted(i, j)]
                                             /\ Shifted(i, j) \in 1..Len(flying) /\ Shifted(i, j) # i
          /\ \A j, k \in 1..(Len(flying) - 1) : Shifted(i, j) = Shifted(i, k) => j = k
      BY <1>1, TakenOut
    <3> QED
      BY <2>2, <3>1
  <2>4. directory' \in {<<>>, D1, D2, D3}
    BY <2>1, LandedDirectory DEF DirectoryInv
  <2>5. \A j \in 1..Len(flying') : Directs(flying'[j]) => directory' = directory
    <3> SUFFICES ASSUME NEW j \in 1..Len(flying'), Directs(flying'[j]) PROVE directory' = directory
      OBVIOUS
    <3>1. ~Directs(flying[i])
      BY <2>3 DEF DirectoryInv
    <3> QED
      BY <2>1, <3>1, LandedDirectory
  <2>6. Directs(Anchor) /\ Directs(Adv) /\ Directs(Forge)
    BY CallsAre DEF Directs
  <2> QED
    BY <2>3, <2>4, <2>5, <2>6 DEF DirectoryInv
<1> QED
  BY <1>2, <1>3, <1>4, Traffic

\* S051 finds, at each of its steps, what it has made sure of before.
LEMMA FirstStep ==
  ASSUME Reruns, PlaceInv, DirectoryInv, Next, First', InBody'
  PROVE  FirstInv'
<1> USE DEF First
<1>1. CASE at' = at
  <2>1. InBody /\ First /\ suite' = suite
    BY <1>1, Steps DEF PlaceInv, InBody, Scenarios, Suite, Inside, Onward, Passed, Failed, Finished
  <2>2. AtFirst /\ FirstInv /\ Len(Suite[at]) = 6
    BY <2>1, Where DEF PlaceInv, DirectoryInv, AtFirst
  <2>3. PICK k \in 1..6 : k = step
    BY <2>2 DEF AtFirst
  <2>4. directory \in {<<>>, D1, D2, D3}
    BY DEF DirectoryInv
  <2>5. CASE Skip
    <3>1. /\ Now.op = "write" /\ Holds(Now.unless) /\ mid = "ready" /\ step' = step + Now.over
          /\ UNCHANGED <<mid, flying, directory>>
      BY <2>5 DEF Skip, Doing, sealingVars
    <3>2. step \in {1, 3} /\ flying = <<>>
      BY <2>1, <2>2, <3>1, FirstSends DEF FirstInv
    <3>3. CASE step = 1
      <4>1. Now.unless = "anchored" /\ step' = 2
        BY <2>2, <3>1, <3>3 DEF AtFirst, IsWrite
      <4>2. directory # <<>>
        BY <3>1, <4>1 DEF Holds
      <4> QED
        BY <2>2, <3>1, <3>2, <4>1, <4>2 DEF FirstInv
    <3>4. CASE step = 3
      <4>1. Now.unless = "advanced" /\ step' = 5
        BY <2>2, <3>1, <3>4 DEF AtFirst, IsWrite
      <4>2. HeadRead # 0
        BY <3>1, <4>1 DEF Holds
      <4>3. directory \in {D2, D3}
        BY <2>4, <4>2, Heads
      <4> QED
        BY <2>2, <3>1, <3>2, <4>1, <4>3 DEF FirstInv
    <3> QED
      BY <3>2, <3>3, <3>4
  <2>6. CASE Begin
    <3>1. /\ Now.op = "write" /\ ~Holds(Now.unless) /\ mid = "ready" /\ mid' = "decided"
          /\ UNCHANGED <<suite, at, step, flying, directory>>
      BY <2>6 DEF Begin, Doing, Reach, sealingVars
    <3>2. step \in {1, 3}
      BY <2>1, <3>1, FirstSends
    <3>3. step = 1 => directory = <<>>
      BY <2>2, <3>1 DEF AtFirst, IsWrite, Holds
    <3>4. step = 3 => directory = D1
      <4> SUFFICES ASSUME step = 3 PROVE directory = D1
        OBVIOUS
      <4>1. HeadRead = 0
        BY <2>2, <3>1 DEF AtFirst, IsWrite, Holds
      <4>2. directory # <<>>
        BY <2>2 DEF FirstInv
      <4> QED
        BY <2>4, <4>1, <4>2, Heads
    <3> QED
      BY <2>2, <3>1, <3>2, <3>3, <3>4 DEF FirstInv
  <2>7. CASE Send
    <3>1. /\ mid # "sent" /\ mid' = "sent" /\ flying' = Append(flying, Now.call)
          /\ Now.op \in {"write", "refuse"} /\ UNCHANGED <<suite, at, step, directory>>
      BY <2>7 DEF Send, Sending, Reach, sealingVars, PlaceInv
    <3>2. flying = <<>> /\ step \in {1, 3, 4}
      BY <2>1, <2>2, <3>1, FirstSends DEF FirstInv
    <3>3. flying' = << Now.call >> /\ flying' # <<>> /\ Now' = Now
      BY <3>1, <3>2 DEF Now, Suite
    <3> QED
      BY <2>2, <3>1, <3>2, <3>3 DEF FirstInv
  <2>8. CASE GetReceipt
    <3>1. /\ mid = "sent" /\ mid' = "ready" /\ UNCHANGED <<flying, directory>>
          /\ Now.op # "refuse" /\ step' = step + 1
          /\ \A i \in 1..Len(flying) : flying[i].by # Now.call.by
      BY <1>1, <2>1, <2>8 DEF GetReceipt, Advance, Pass, Fail, End, sealingVars, PlaceInv, ScriptTypeOK
    <3>2. step \in {1, 3}
      BY <2>1, <3>1, FirstSends DEF PlaceInv
    <3>3. flying = <<>>
      <4>1. flying \in {<<>>, << Now.call >>}
        BY <2>2, <3>1 DEF FirstInv
      <4>2. flying = << Now.call >> => 1 \in 1..Len(flying) /\ flying[1] = Now.call
        OBVIOUS
      <4> QED
        BY <3>1, <4>1, <4>2
    <3> QED
      BY <2>2, <3>1, <3>2, <3>3, Directories DEF FirstInv
  <2>9. CASE TurnedDown \/ Read \/ Paused
    <3>1. /\ mid' = "ready" /\ UNCHANGED directory /\ step' = step + 1
          /\ mid # "sent" /\ (mid = "decided" => Now.op = "write") /\ flying' = flying
          /\ mid = "decided" => Now.op # "refuse"
      <4>1. ~Paused
        <5>1. Now.op # "pause"
          BY <2>2 DEF AtFirst, IsWrite, IsEnsure, IsRefuse
        <5>2. at \in Nat
          BY <2>1, SuiteShape DEF PlaceInv, ScriptTypeOK, Scenarios
        <5> QED
          BY <1>1, <5>1, <5>2 DEF Paused, Fail, End, Doing
      <4> QED
        BY <1>1, <2>1, <2>9, <4>1 DEF TurnedDown, Read, Sending, Doing, Advance, Pass, Fail, End, sealingVars, PlaceInv, ScriptTypeOK
    <3>2. step = 1 \/ step = 3 => Now.op = "write"
      BY <2>2 DEF AtFirst, IsWrite
    <3>3. CASE step \in {1, 3}
      <4>1. mid = "decided" /\ TurnedDown /\ Now.op = "write"
        BY <2>9, <3>1, <3>2, <3>3 DEF TurnedDown, Read, Sending, Doing, Paused, Fail, End
      <4>2. Fail
        BY <4>1 DEF TurnedDown
      <4> QED
        BY <1>1, <2>1, <4>2, SuiteShape DEF Fail, End, PlaceInv, ScriptTypeOK, Scenarios
    <3>4. CASE step \notin {1, 3}
      BY <2>2, <2>3, <3>1, <3>4 DEF FirstInv
    <3> QED
      BY <3>3, <3>4
  <2>10. CASE Land
    <3>1. PICK i \in 1..Len(flying) : Landed(i)
      BY <2>10 DEF Land, Landed
    <3>2. UNCHANGED scriptVars /\ flying' = RemoveAt(flying, i)
      BY <3>1 DEF Landed
    <3>3. /\ i = 1 /\ Len(flying) = 1
          /\ \/ mid = "sent" /\ flying[1] = Now.call
             \/ step \in {5, 6} /\ mid # "sent" /\ flying[1] = Forge
      <4>1. flying # <<>>
        OBVIOUS
      <4>2. \/ mid = "sent" /\ flying = << Now.call >>
            \/ step \in {5, 6} /\ mid # "sent" /\ flying = << Forge >>
        BY <2>2, <2>3, <4>1 DEF FirstInv
      <4>3. \A c : Len(<< c >>) = 1 /\ << c >>[1] = c
        OBVIOUS
      <4>4. Len(flying) = 1
        BY <4>2, <4>3
      <4> QED
        BY <4>2, <4>3, <4>4
    <3>4. flying' = <<>>
      <4>1. RemoveAt(flying, i) \in Seq(Calls) /\ Len(RemoveAt(flying, i)) = Len(flying) - 1
        BY TakenOut DEF PlaceInv
      <4>2. RemoveAt(flying, i) = <<>>
        BY <3>3, <4>1
      <4> QED
        BY <3>2, <4>2
    <3>5. CASE mid = "sent"
      <4>1. flying[1] = Now.call /\ Now.op \in {"write", "refuse"}
        BY <3>3, <3>5 DEF PlaceInv
      <4>2. /\ step \in {1, 3, 4}
            /\ step = 1 => directory' = D1
            /\ step = 3 => directory' = D2
            /\ step = 4 => directory' \in {D2, D3}
        BY <2>1, <3>1, <3>3, <4>1, FirstSends, LandedDirectory
      <4> QED
        BY <3>2, <3>4, <3>5, <4>2, Directories DEF FirstInv, scriptVars
    <3>6. CASE mid # "sent"
      <4>1. step \in {5, 6} /\ flying[i] = Forge
        BY <3>3, <3>6
      <4>2. directory' \in {D2, D3}
        BY <3>1, <4>1, LandedDirectory
      <4> QED
        BY <3>2, <3>4, <3>6, <4>1, <4>2 DEF FirstInv, scriptVars
    <3> QED
      BY <3>5, <3>6
  <2>11. CASE RpcFault
    <3>1. /\ Onward /\ Mistaken /\ Now.op = "refuse" /\ Sending
          /\ UNCHANGED sealingVars
          /\ \/ UNCHANGED flying
             \/ flying' = Append(flying, Now.call)
      <4>1. at \in Nat
        BY <2>1, SuiteShape DEF PlaceInv, ScriptTypeOK, Scenarios
      <4>2. ~Failed
        BY <1>1, <4>1 DEF Failed, Finished
      <4> QED
        BY <2>11, <4>2, Hit DEF PlaceInv
    <3>2. step = 4 /\ step' = 5 /\ mid = "ready" /\ mid' = "ready" /\ Now.call = Forge
      BY <2>2, <3>1 DEF Onward, Mistaken, Sending, PlaceInv, AtFirst, IsRefuse
    <3>3. flying = <<>> /\ directory = D2
      BY <2>2, <3>2 DEF FirstInv
    <3>4. flying' \in {<<>>, << Forge >>} /\ directory' = D2
      BY <3>1, <3>2, <3>3 DEF sealingVars
    <3> QED
      BY <3>2, <3>4 DEF FirstInv
  <2> QED
    BY <2>5, <2>6, <2>7, <2>8, <2>9, <2>10, <2>11 DEF Next
<1>2. CASE at' # at
  <2>1. InBody /\ at' = at + 1 /\ mid' = "ready" /\ step' = 1
    BY <1>2, Steps DEF PlaceInv, Inside, Onward, Passed, Failed, Finished
  <2>2. at = 4
    BY <2>1, Where DEF PlaceInv
  <2>3. Now.op = "pause"
    BY <2>1, <2>2, Where DEF PlaceInv
  <2>4. mid = "ready"
    BY <2>3 DEF PlaceInv
  <2>5. Paused
    BY <1>2, <2>3, <2>4 DEF Next, Skip, Begin, Send, TurnedDown, GetReceipt, Read, RpcFault, Land, Sending, Doing, scriptVars
  <2>6. flying' = <<>>
    BY <2>5 DEF Paused
  <2> QED
    BY <2>1, <2>6 DEF FirstInv
<1> QED
  BY <1>1, <1>2

LEMMA DirectoryInvStep ==
  ASSUME Reruns, PlaceInv, DirectoryInv, Next
  PROVE  DirectoryInv'
  BY DirectoryStep, FirstStep DEF DirectoryInv

-----------------------------------------------------------------------------
(* What the contracts hold.                                                *)

Deployed == {[enclave |-> Enclave, attester |-> Zero, provider |-> Mock, manifest |-> RmDigest]}
Settled(n) == UnitOf(Sub(n).by, Sub(n).su, Sub(n).batch)

ContractInv ==
  /\ makes \subseteq Checks
  /\ deployments \in {{}, Deployed}
  /\ units \subseteq {Settled(n) : n \in 1..4}

\* A step changes registrations and units by what has landed, and checks not at all.
LEMMA ContractStep ==
  ASSUME Reruns, PlaceInv, Next
  PROVE  /\ makes' = makes
         /\ \/ UNCHANGED <<deployments, units>>
            \/ \E i \in 1..Len(flying) : \E n \in 1..4 :
                 /\ flying[i] = Sub(n) /\ units' = units \cup {Settled(n)}
                 /\ Refusal(Sub(n)) = "none" /\ deployments' = deployments
            \/ \E i \in 1..Len(flying) :
                 flying[i] = Register /\ deployments' = Deployed /\ units' = units
<1>1. CASE Kept
  BY <1>1 DEF Kept, sealingVars
<1>2. CASE Sent
  BY <1>2 DEF Sent, sealingVars
<1>3. CASE \E i \in 1..Len(flying) : Landed(i)
  <2>1. PICK i \in 1..Len(flying) : Landed(i)
    BY <1>3
  <2>2. flying[i] \in Calls /\ makes' = makes
    BY <2>1 DEF PlaceInv, Landed
  <2>3. CASE Refusal(flying[i]) # "none"
    BY <2>1, <2>2, <2>3 DEF Landed
  <2>4. CASE Refusal(flying[i]) = "none"
    <3>1. Execute(flying[i])
      BY <2>1, <2>4 DEF Landed
    <3>2. CASE flying[i] \in {Anchor, Measurement, Adv, Forge}
      BY <2>2, <3>1, <3>2, CallsAre DEF Execute
    <3>3. CASE flying[i] = Register
      BY <2>2, <3>1, <3>3, CallsAre DEF Execute, Deployed
    <3>4. CASE \E n \in 1..4 : flying[i] = Sub(n)
      <4>1. PICK n \in 1..4 : flying[i] = Sub(n)
        BY <3>4
      <4>2. units' = units \cup {Settled(n)} /\ deployments' = deployments
        BY <3>1, <4>1, CallsAre DEF Execute, Settled
      <4> QED
        BY <2>2, <2>4, <4>1, <4>2
    <3> QED
      BY <2>2, <3>2, <3>3, <3>4 DEF Calls
  <2> QED
    BY <2>3, <2>4
<1> QED
  BY <1>1, <1>2, <1>3, Traffic

LEMMA ContractInvStep ==
  ASSUME Reruns, PlaceInv, ContractInv, Next
  PROVE  ContractInv'
  BY ContractStep DEF ContractInv

\* Type correctness, from where things are.
LEMMA TypesHold ==
  ASSUME PlaceInv, DirectoryInv, ContractInv
  PROVE  TypeOK
<1>1. Len(directory) <= 3
  BY Directories DEF DirectoryInv
<1>2. Cardinality(deployments) <= 1
  <2>1. Cardinality({}) = 0
    BY FS_EmptySet
  <2>2. Cardinality(Deployed) = 1
    BY FS_Singleton DEF Deployed
  <2> QED
    BY <2>1, <2>2 DEF ContractInv
<1>3. \A u \in units : u.su \in 1..4
  <2>1. \A n \in 1..4 : Settled(n).su = n
    BY CallsAre DEF Settled, UnitOf
  <2> QED
    BY <2>1 DEF ContractInv
<1>4. \A c \in Calls : c.by \in {"admin", Zero}
  BY CallsAre DEF Calls
<1>5. \A i \in 1..Len(flying) : flying[i].by \in {"admin", Zero}
  BY <1>4 DEF PlaceInv
<1> QED
  BY <1>1, <1>2, <1>3, <1>5 DEF TypeOK, PlaceInv, ContractInv

\* A read that a body goes on after was true, and a write that had to be refused was, but
\* for the fault that S051 takes for that.
LEMMA GoesOn ==
  ASSUME Reruns, PlaceInv, Next, InBody, Onward \/ Passed
  PROVE  /\ Onward /\ Now.op # "write" => step' = step + 1
         /\ Onward => step' = step + 1 \/ Skip
         /\ Now.op \in {"ensure", "refuse"} => UNCHANGED sealingVars /\ mid = "ready"
         /\ Now.op = "ensure" => Holds(Now.reads) /\ flying' = flying
         /\ Now.op = "refuse" => \/ /\ Refusal(Now.call) # "none" /\ flying' = flying
                                    /\ Now.want \in {"any", Refusal(Now.call)}
                                 \/ RpcFault /\ Mistaken
<1>1. at \in Nat /\ at \in Scenarios /\ step \in Nat
  <2>1. Len(Suite) \in {3, 7}
    BY SuiteShape DEF PlaceInv, ScriptTypeOK
  <2> QED
    BY <2>1 DEF PlaceInv, ScriptTypeOK, Scenarios, InBody
<1>2. verdict \in [Scenarios -> {"todo", "pass", "fail"}]
  BY DEF PlaceInv, ScriptTypeOK
<1>3. ~Fail
  BY <1>1, <1>2 DEF Fail, End, Onward, Passed, Finished
<1>4. ~Begin /\ ~Send /\ ~Land
  BY <1>1, <1>3 DEF Begin, Send, Land, Reach, Onward, Passed, Finished, scriptVars
<1>5. Advance => (Onward => step' = step + 1)
  BY <1>1 DEF Advance, Pass, End, Onward
<1>6. CASE Skip
  BY <1>6 DEF Skip, Doing
<1>7. CASE TurnedDown
  BY <1>3, <1>5, <1>7 DEF TurnedDown, Sending, PlaceInv
<1>8. CASE GetReceipt
  BY <1>3, <1>5, <1>8 DEF GetReceipt, PlaceInv
<1>9. CASE Read
  BY <1>3, <1>5, <1>9 DEF Read, Doing
<1>10. CASE Paused
  BY <1>5, <1>10 DEF Paused, Doing
<1>11. CASE RpcFault
  <2>1. Onward /\ Mistaken /\ Now.op = "refuse" /\ Sending /\ UNCHANGED sealingVars
    <3>1. ~Failed
      BY <1>1, <1>2 DEF Failed, Onward, Passed, Finished
    <3> QED
      BY <1>11, <3>1, Hit DEF PlaceInv
  <2> QED
    BY <1>11, <2>1 DEF Mistaken, Sending, PlaceInv
<1> QED
  BY <1>4, <1>6, <1>7, <1>8, <1>9, <1>10, <1>11 DEF Next

-----------------------------------------------------------------------------
(* What a green run shows.                                                 *)

Signs == makes \cap {"signature", "signer"} # {} \/ 1 \in faulted

\* What the first run has shown of the contracts, by where it is.
ShownInv ==
  /\ at = 1 /\ (step <= 2 \/ (step = 3 /\ mid # "sent")) => directory \in {<<>>, D1}
  /\ at = 1 /\ step >= 5 => Signs
  /\ verdict[1] = "pass" => Signs
  /\ at = 2 /\ step >= 5 => "enclave" \notin makes \/ deployments = Deployed
  /\ at = 2 /\ step >= 6 => "attester" \in makes
  /\ at = 2 /\ step >= 7 => "provider" \in makes
  /\ verdict[2] = "pass" => {"attester", "provider", "enclave"} \subseteq makes
  /\ at = 3 /\ step >= 5 => "context" \in makes
  /\ verdict[3] = "pass" => {"totals", "context"} \subseteq makes

\* A deployment for this attester is one for another if the check is not made.
LEMMA ActiveForShows ==
  ASSUME deployments \in {{}, Deployed}
  PROVE  /\ Holds("active") => "enclave" \notin makes \/ deployments = Deployed
         /\ Holds("notForOthers") => "enclave" \in makes /\ (deployments = Deployed => "attester" \in makes)
         /\ Holds("notElsewhere") => "enclave" \in makes /\ (deployments = Deployed => "provider" \in makes)
         /\ Holds("notUnknown") => "enclave" \in makes
<1>1. Zero # "0xEE" /\ Mock # "yapily" /\ Enclave # "0xAB"
  BY DEF Zero, Mock, Enclave
<1>0. /\ Holds("active") <=> ActiveFor(Enclave, Zero, Mock)
      /\ Holds("notForOthers") <=> ~ActiveFor(Enclave, "0xEE", Mock)
      /\ Holds("notElsewhere") <=> ~ActiveFor(Enclave, Zero, "yapily")
      /\ Holds("notUnknown") <=> ~ActiveFor("0xAB", Zero, Mock)
  BY DEF Holds
<1>2. CASE deployments = {}
  <2>1. \A e, a, p : ActiveFor(e, a, p) <=> "enclave" \notin makes
    BY <1>2 DEF ActiveFor
  <2>2. deployments # Deployed
    BY <1>2 DEF Deployed
  <2> QED
    BY <1>0, <2>1, <2>2
<1>3. CASE deployments = Deployed
  <2>1. \A e, a, p : ActiveFor(e, a, p) <=> \/ "enclave" \notin makes
                                            \/ /\ e = Enclave
                                               /\ "attester" \in makes => a = Zero
                                               /\ "provider" \in makes => p = Mock
    BY <1>3 DEF ActiveFor, Deployed
  <2> QED
    BY <1>0, <1>1, <1>3, <2>1
<1> QED
  BY <1>2, <1>3

\* The errors S053 waits for are those of two checks.
LEMMA SettlingShows ==
  ASSUME NEW n \in 1..4
  PROVE  /\ Refusal(Sub(n)) = "AlreadySettled" => "context" \in makes
         /\ Refusal(Sub(n)) = "BatchTotalsMismatch" => "totals" \in makes
  BY CallsAre DEF Refusal, Settling

LEMMA ShownStep ==
  ASSUME Reruns, PlaceInv, DirectoryInv, ContractInv, ShownInv, Next
  PROVE  ShownInv'
<1>1. /\ makes' = makes /\ (deployments = Deployed => deployments' = Deployed)
      /\ Signs => Signs'
  BY ContractStep, Steps DEF ContractInv, Signs, PlaceInv, Inside, Onward, Passed, Failed, Finished
<1>2. /\ Len(Suite) \in {3, 7} /\ Scenarios = 1..Len(Suite) /\ at \in Nat
      /\ verdict \in [Scenarios -> {"todo", "pass", "fail"}]
  <2>1. Len(Suite) \in {3, 7}
    BY SuiteShape DEF PlaceInv, ScriptTypeOK
  <2> QED
    BY <2>1 DEF PlaceInv, ScriptTypeOK, Scenarios
<1>3. ASSUME NEW i \in 1..3, verdict'[i] = "pass"
      PROVE  verdict[i] = "pass" \/ (at = i /\ InBody /\ Passed)
  <2>1. i \in Scenarios
    <3>1. PICK n \in {3, 7} : Scenarios = 1..n
      BY <1>2
    <3> QED
      BY <3>1
  <2>2. CASE verdict' = verdict
    BY <1>3, <2>2
  <2>3. CASE InBody /\ (Passed \/ Failed)
    <3>1. \E v : verdict' = [verdict EXCEPT ![at] = v] /\ (v # "pass" => ~Passed) /\ (v = "pass" => Passed)
      <4>1. CASE Passed
        BY <4>1 DEF Passed, Finished
      <4>2. CASE ~Passed
        BY <2>3, <4>2 DEF Failed, Finished
      <4> QED
        BY <4>1, <4>2
    <3> QED
      BY <1>2, <1>3, <2>1, <2>3, <3>1
  <2> QED
    BY <2>2, <2>3, Steps DEF PlaceInv, Inside, Onward
<1>4. CASE InBody /\ (Onward \/ Passed)
  <2>1. /\ Onward /\ Now.op # "write" => step' = step + 1
        /\ Onward => step' = step + 1 \/ Skip
        /\ Now.op \in {"ensure", "refuse"} => UNCHANGED sealingVars /\ mid = "ready"
        /\ Now.op = "ensure" => Holds(Now.reads)
        /\ Now.op = "refuse" => \/ /\ Refusal(Now.call) # "none"
                                   /\ Now.want \in {"any", Refusal(Now.call)}
                                \/ Mistaken
    BY <1>4, GoesOn
  <2>2. CASE at = 1
    <3>1. AtFirst /\ FirstInv
      BY <1>4, <2>2, Where DEF PlaceInv, DirectoryInv, First
    <3>2. step = 4 => Signs'
      <4> SUFFICES ASSUME step = 4 PROVE Signs'
        OBVIOUS
      <4>1. Now.op = "refuse" /\ Now.call = Forge
        BY <3>1 DEF AtFirst, IsRefuse
      <4>2. CASE Mistaken
        BY <2>2, <4>2 DEF Mistaken, Signs
      <4>3. CASE ~Mistaken
        <5>1. Refusal(Forge) # "none" /\ directory = D2
          BY <2>1, <3>1, <4>1, <4>3 DEF FirstInv
        <5> QED
          BY <1>1, <5>1, ForgeFits DEF Signs
      <4> QED
        BY <4>2, <4>3
    <3>3. step >= 4 => Signs'
      BY <1>1, <2>2, <3>1, <3>2 DEF AtFirst, ShownInv
    <3>4. step <= 3 => Onward /\ (step' = step + 1 \/ Skip)
      <4>1. step <= 3 => Onward
        BY <1>4, <3>1 DEF AtFirst, Passed
      <4> QED
        BY <2>1, <4>1
    <3>5. step <= 3 => step' = step + 1
      <4> SUFFICES ASSUME step <= 3, Skip PROVE step' = step + 1
        BY <3>4
      <4>1. Now.op = "write" /\ Holds(Now.unless) /\ mid = "ready" /\ step' = step + Now.over
        BY DEF Skip, Doing
      <4>2. directory \in {<<>>, D1}
        BY <2>2, <3>1, <4>1 DEF ShownInv, AtFirst
      <4>3. ~Holds("advanced")
        BY <4>2, Heads DEF Holds
      <4> QED
        BY <3>1, <4>1, <4>3 DEF AtFirst, IsWrite, IsEnsure
    <3>6. step' = 3 /\ at' = 1 => directory' \in {<<>>, D1}
      <4> SUFFICES ASSUME step' = 3, at' = 1 PROVE directory' \in {<<>>, D1}
        OBVIOUS
      <4>1. step = 2
        BY <1>4, <2>2, <3>1, <3>5 DEF AtFirst, Onward, Passed, Finished
      <4>2. UNCHANGED directory
        BY <2>1, <3>1, <4>1 DEF AtFirst, IsEnsure, sealingVars
      <4> QED
        BY <2>2, <4>1, <4>2 DEF ShownInv
    <3>7. step' = 2 /\ at' = 1 => directory' \in {<<>>, D1}
      <4> SUFFICES ASSUME step' = 2, at' = 1 PROVE directory' \in {<<>>, D1}
        OBVIOUS
      <4>1. step = 1
        BY <1>4, <2>2, <3>1, <3>5 DEF AtFirst, Onward, Passed, Finished
      <4>2. ~Land
        BY <1>4, <4>1 DEF Land, Onward, Passed, Finished, scriptVars
      <4>3. UNCHANGED directory
        BY <4>2 DEF Next, Skip, Begin, Send, TurnedDown, GetReceipt, Read, Paused, RpcFault, sealingVars
      <4> QED
        BY <2>2, <4>1, <4>3 DEF ShownInv
    <3>8. at' = 1 /\ step' >= 5 => Signs'
      BY <2>2, <3>1, <3>3, <3>5 DEF AtFirst
    <3>9. Passed => Signs'
      BY <3>1, <3>3 DEF AtFirst, Passed
    <3>10. at' = 1 => step' \in Nat /\ step' > 1
      BY <1>2, <2>2, <3>1, <1>4 DEF AtFirst, Onward, Passed, Finished
    <3>12. at' = 2 => step' = 1
      BY <1>4, <2>2 DEF Onward, Passed, Finished
    <3> QED
      BY <1>1, <1>2, <1>3, <1>4, <2>2, <3>6, <3>7, <3>8, <3>9, <3>10, <3>12
         DEF ShownInv, Onward, Passed, Finished
  <2>3. CASE at = 2
    <3>1. AtSecond
      BY <1>4, <2>3, Where DEF PlaceInv, Second
    <3>2. step = 4 => "enclave" \notin makes \/ deployments = Deployed
      BY <2>1, <3>1, ActiveForShows DEF AtSecond, IsEnsure, ContractInv
    <3>3. step = 5 => "attester" \in makes
      <4>1. step = 5 => Holds("notForOthers")
        BY <2>1, <3>1 DEF AtSecond, IsEnsure
      <4> QED
        BY <2>3, <3>1, <4>1, ActiveForShows DEF AtSecond, ContractInv, ShownInv
    <3>4. step = 6 => "provider" \in makes
      <4>1. step = 6 => Holds("notElsewhere")
        BY <2>1, <3>1 DEF AtSecond, IsEnsure
      <4> QED
        BY <2>3, <3>1, <4>1, ActiveForShows DEF AtSecond, ContractInv, ShownInv
    <3>5. step = 7 => "enclave" \in makes
      <4>1. step = 7 => Holds("notUnknown")
        BY <2>1, <3>1 DEF AtSecond, IsEnsure
      <4> QED
        BY <3>1, <4>1, ActiveForShows DEF AtSecond, ContractInv
    <3>6. /\ step = 1 => Onward /\ step' = 2
          /\ step = 2 => Onward /\ step' \in {3, 4}
          /\ step = 3 => Onward /\ step' = 4
          /\ step >= 4 => (Onward /\ step' = step + 1) \/ Passed
      <4>1. step <= 6 => Onward
        BY <1>4, <3>1 DEF AtSecond, Passed
      <4>2. step = 1 \/ step >= 4 => Now.op # "write"
        BY <3>1 DEF AtSecond, IsEnsure
      <4>3. Skip => Now.op = "write" /\ Now.unless # "never" /\ step' = step + Now.over
        BY DEF Skip, Holds, Doing
      <4>4. step = 2 => Now.over = 2
        BY <3>1 DEF AtSecond, IsWrite
      <4>5. step = 3 => ~Skip
        BY <3>1, <4>3 DEF AtSecond, IsWrite
      <4>6. step \in 1..7
        BY <3>1 DEF AtSecond
      <4> QED
        BY <1>4, <2>1, <4>1, <4>2, <4>3, <4>4, <4>5, <4>6
    <3> QED
      BY <1>1, <1>2, <1>3, <1>4, <2>3, <3>1, <3>2, <3>3, <3>4, <3>5, <3>6
         DEF ShownInv, Onward, Passed, Finished, AtSecond
  <2>4. CASE at = 3
    <3>1. AtThird
      BY <1>4, <2>4, Where DEF PlaceInv, Third
    <3>2. step = 4 => "context" \in makes
      <4>1. step = 4 => Refusal(Sub(2)) = "AlreadySettled"
        BY <2>1, <2>4, <3>1 DEF AtThird, IsRefuse, Mistaken, First
      <4> QED
        BY <4>1, SettlingShows
    <3>3. step = 6 => "totals" \in makes
      <4>1. step = 6 => Refusal(Sub(4)) = "BatchTotalsMismatch"
        BY <2>1, <2>4, <3>1 DEF AtThird, IsRefuse, Mistaken, First
      <4> QED
        BY <4>1, SettlingShows
    <3>4. step >= 2 /\ Onward => step' = step + 1
      BY <2>1, <3>1 DEF AtThird, IsRefuse, IsEnsure
    <3>5. step = 1 /\ Onward => step' = 2
      <4>1. step = 1 => Now.op = "write" /\ Now.over = 1
        BY <3>1 DEF AtThird, IsWrite
      <4> QED
        BY <2>1, <4>1 DEF Skip
    <3> QED
      BY <1>1, <1>2, <1>3, <1>4, <2>4, <3>1, <3>2, <3>3, <3>4, <3>5
         DEF ShownInv, Onward, Passed, Finished, AtThird
  <2>5. CASE at \notin {1, 2, 3}
    <3>1. at' > 3
      BY <1>2, <1>4, <2>5, Where DEF PlaceInv, Onward, Passed, Finished
    <3> QED
      BY <1>1, <1>2, <1>3, <2>5, <3>1 DEF ShownInv
  <2> QED
    BY <2>2, <2>3, <2>4, <2>5
<1>5. CASE Inside
  <2>1. ASSUME at = 1, step <= 2 \/ (step = 3 /\ mid' # "sent") PROVE directory' \in {<<>>, D1}
    <3>1. CASE UNCHANGED directory /\ (mid # "sent" \/ mid' = mid)
      BY <2>1, <3>1 DEF ShownInv
    <3>2. CASE Land
      <4>1. PICK i \in 1..Len(flying) : Landed(i)
        BY <3>2 DEF Land, Landed
      <4>2. mid' = mid
        BY <3>2 DEF Land, scriptVars
      <4>3. CASE InBody
        <5>1. FirstInv /\ First
          BY <2>1, <4>3 DEF DirectoryInv, First
        <5>2. flying # <<>>
          OBVIOUS
        <5>3. mid = "sent" /\ flying = << Now.call >> /\ step <= 2
          <6>1. step \in {1, 2, 3}
            BY <2>1, <4>3, <5>1, Where DEF PlaceInv, AtFirst
          <6> QED
            BY <2>1, <4>2, <5>1, <5>2, <6>1 DEF FirstInv
        <5>4. Now.op \in {"write", "refuse"}
          BY <5>3 DEF PlaceInv
        <5>5. step = 1 /\ Now.call = Anchor
          BY <4>3, <5>1, <5>3, <5>4, FirstSends
        <5>6. Len(<< Now.call >>) = 1 /\ << Now.call >>[1] = Now.call
          OBVIOUS
        <5>7. flying[i] = Anchor
          BY <5>3, <5>5, <5>6
        <5> QED
          BY <4>1, <5>7, LandedDirectory
      <4>4. CASE ~InBody
        <5>1. PICK n \in {3, 7} : Scenarios = 1..n
          BY <1>2
        <5> QED
          BY <2>1, <4>4, <5>1 DEF InBody
      <4> QED
        BY <4>3, <4>4
    <3>3. Land \/ (UNCHANGED directory /\ (mid # "sent" \/ mid' = mid))
      <4>1. step' = step /\ at' = at /\ step \in Nat /\ at \in Nat
        BY <1>2, <1>5 DEF Inside, PlaceInv, ScriptTypeOK
      <4>2. ~Advance /\ ~Fail
        BY <4>1 DEF Advance, Pass, Fail, End
      <4>3. ~TurnedDown /\ ~GetReceipt /\ ~Read /\ ~Paused /\ ~RpcFault
        BY <4>2 DEF TurnedDown, GetReceipt, Read, Paused, RpcFault
      <4>4. CASE Skip
        BY <4>4 DEF Skip, Doing, sealingVars
      <4>5. CASE Begin
        BY <4>5 DEF Begin, Doing, sealingVars
      <4>6. CASE Send
        BY <4>6 DEF Send, Sending, sealingVars, PlaceInv
      <4> QED
        BY <4>3, <4>4, <4>5, <4>6 DEF Next
    <3> QED
      BY <3>1, <3>2, <3>3
  <2> QED
    BY <1>1, <1>5, <2>1 DEF Inside, ShownInv
<1>6. CASE InBody /\ Failed
  <2>1. ~Passed
    BY <1>2, <1>6 DEF Failed, Passed, Finished, InBody
  <2>2. at' = at + 1 /\ step' = 1
    BY <1>6 DEF Failed, Finished
  <2>3. at' # 1
    BY <1>2, <1>6, <2>2 DEF InBody
  <2> QED
    BY <1>1, <1>3, <2>1, <2>2, <2>3 DEF ShownInv
<1> QED
  BY <1>4, <1>5, <1>6, Steps DEF PlaceInv

-----------------------------------------------------------------------------
(* S053's batches.                                                         *)

\* The parts of a set of two, and what is left of each without its greatest.
LEMMA PartsOfTwo ==
  /\ 1..2 = {1, 2} /\ SUBSET (1..2) = {{}, {1}, {2}, {1, 2}}
  /\ {1} # {} /\ {2} # {} /\ {1, 2} # {}
  /\ {1} \ {1} = {} /\ {2} \ {2} = {} /\ {1, 2} \ {2} = {1} /\ {1, 2} \ {1} = {2}
  /\ Max({1}) = 1 /\ Max({2}) = 2 /\ Max({1, 2}) = 2
<1>1. 1..2 = {1, 2}
  OBVIOUS
<1>2. SUBSET {1, 2} = {{}, {1}, {2}, {1, 2}}
  <2>1. ASSUME NEW T \in SUBSET {1, 2} PROVE T \in {{}, {1}, {2}, {1, 2}}
    BY <2>1
  <2> QED
    BY <2>1
<1>3. Max({1}) = 1 /\ Max({2}) = 2
  BY DEF Max
<1>4. Max({1, 2}) = 2
  BY DEF Max
<1> QED
  BY <1>1, <1>2, <1>3, <1>4

\* A function that goes from each part to the part without its greatest.
LEMMA DownTwo ==
  ASSUME NEW h
  PROVE  /\ h[{1} \ {Max({1})}] = h[{}]
         /\ h[{2} \ {Max({2})}] = h[{}]
         /\ h[{1, 2} \ {Max({1, 2})}] = h[{1}]
<1>1. {1} \ {Max({1})} = {} /\ {2} \ {Max({2})} = {} /\ {1, 2} \ {Max({1, 2})} = {1}
  BY PartsOfTwo, Zenon
<1> QED
  BY <1>1, Zenon

\* Two of something, one each: the sums over a set and over a sequence.
TwoOfOne(q) ==
  /\ DOMAIN q = 1..2 /\ Len(q) = 2
  /\ q[1].count = 1 /\ q[2].count = 1 /\ q[1].fold = 1 /\ q[2].fold = 1
  /\ q[1].day = 3 /\ q[2].day = 4

LEMMA TwoCounted ==
  ASSUME NEW q, TwoOfOne(q)
  PROVE  CountOf(q) = 2
<1> DEFINE Folds(g) == g = [T \in SUBSET (1..2) |->
                              IF T = {} THEN 0 ELSE g[T \ {Max(T)}] + q[Max(T)].count]
           h == CHOOSE g : Folds(g)
           sum == [T \in SUBSET (1..2) |-> IF T = {} THEN 0 ELSE IF T = {1, 2} THEN 2 ELSE 1]
<1>1. CountOf(q) = h[1..2]
  BY DEF CountOf, FoldLeft, MapThenFoldSet, TwoOfOne
<1>2. q[Max({1})].count = 1 /\ q[Max({2})].count = 1 /\ q[Max({1, 2})].count = 1
  BY PartsOfTwo DEF TwoOfOne
<1>3. Folds(sum)
  <2>1. sum[{}] = 0 /\ sum[{1}] = 1 /\ sum[{2}] = 1 /\ sum[{1, 2}] = 2
    BY PartsOfTwo
  <2>2. \A T \in SUBSET (1..2) :
          sum[T] = IF T = {} THEN 0 ELSE sum[T \ {Max(T)}] + q[Max(T)].count
    <3> HIDE DEF sum
    <3>1. sum[{1}] = sum[{1} \ {Max({1})}] + q[Max({1})].count
      BY <1>2, <2>1, DownTwo
    <3>2. sum[{2}] = sum[{2} \ {Max({2})}] + q[Max({2})].count
      BY <1>2, <2>1, DownTwo
    <3>3. sum[{1, 2}] = sum[{1, 2} \ {Max({1, 2})}] + q[Max({1, 2})].count
      BY <1>2, <2>1, DownTwo
    <3>4. \A T \in {{}, {1}, {2}, {1, 2}} :
            sum[T] = IF T = {} THEN 0 ELSE sum[T \ {Max(T)}] + q[Max(T)].count
      <4> TAKE T \in {{}, {1}, {2}, {1, 2}}
      <4>1. CASE T = {}
        BY <2>1, <4>1
      <4>2. CASE T = {1}
        BY <3>1, <4>2, PartsOfTwo, Zenon
      <4>3. CASE T = {2}
        BY <3>2, <4>3, PartsOfTwo, Zenon
      <4>4. CASE T = {1, 2}
        BY <3>3, <4>4, PartsOfTwo, Zenon
      <4> QED
        BY <4>1, <4>2, <4>3, <4>4
    <3> QED
      BY <3>4, PartsOfTwo
  <2> QED
    BY <2>2
<1>4. Folds(h)
  BY <1>3
<1>5. \A T \in {{}, {1}, {2}, {1, 2}} : h[T] = IF T = {} THEN 0 ELSE h[T \ {Max(T)}] + q[Max(T)].count
  BY <1>4, PartsOfTwo
<1> HIDE DEF h
<1>6. h[{}] = 0
  BY <1>5
<1>7. h[{1}] = 1
  <2>1. h[{1}] = h[{1} \ {Max({1})}] + q[Max({1})].count
    BY <1>5
  <2> QED
    BY <1>2, <1>6, <2>1, DownTwo
<1>8. h[{1, 2}] = 2
  <2>1. h[{1, 2}] = h[{1, 2} \ {Max({1, 2})}] + q[Max({1, 2})].count
    BY <1>5
  <2> QED
    BY <1>2, <1>7, <2>1, DownTwo
<1> QED
  BY <1>1, <1>8, PartsOfTwo

LEMMA TwoFolded ==
  ASSUME NEW q, TwoOfOne(q)
  PROVE  FoldOf(q) = (((1 % Modulus) + 1) % Modulus)
<1> DEFINE Folds(g) == g = [T \in SUBSET (1..2) |->
                              IF T = {} THEN 0 ELSE (g[T \ {Max(T)}] + q[Max(T)].fold) % Modulus]
           h == CHOOSE g : Folds(g)
           sum == [T \in SUBSET (1..2) |-> IF T = {} THEN 0 ELSE
                     IF T = {1, 2} THEN ((1 % Modulus) + 1) % Modulus ELSE IF T = {1} THEN 1 % Modulus ELSE 1 % Modulus]
<1>1. FoldOf(q) = h[1..2]
  BY DEF FoldOf, FoldLeft, MapThenFoldSet, TwoOfOne
<1>2. /\ q[Max({1})].fold = 1 /\ q[Max({2})].fold = 1 /\ q[Max({1, 2})].fold = 1
      /\ 0 + 1 = 1
  BY PartsOfTwo DEF TwoOfOne
<1>3. Folds(sum)
  <2>1. sum[{}] = 0 /\ sum[{1}] = 1 % Modulus /\ sum[{2}] = 1 % Modulus /\ sum[{1, 2}] = ((1 % Modulus) + 1) % Modulus
    BY PartsOfTwo
  <2>2. \A T \in SUBSET (1..2) : sum[T] = IF T = {} THEN 0 ELSE (sum[T \ {Max(T)}] + q[Max(T)].fold) % Modulus
    <3> HIDE DEF sum
    <3>1. sum[{1}] = (sum[{1} \ {Max({1})}] + q[Max({1})].fold) % Modulus
      BY <1>2, <2>1, DownTwo
    <3>2. sum[{2}] = (sum[{2} \ {Max({2})}] + q[Max({2})].fold) % Modulus
      BY <1>2, <2>1, DownTwo
    <3>3. sum[{1, 2}] = (sum[{1, 2} \ {Max({1, 2})}] + q[Max({1, 2})].fold) % Modulus
      BY <1>2, <2>1, DownTwo
    <3>4. \A T \in {{}, {1}, {2}, {1, 2}} : sum[T] = IF T = {} THEN 0 ELSE (sum[T \ {Max(T)}] + q[Max(T)].fold) % Modulus
      <4> TAKE T \in {{}, {1}, {2}, {1, 2}}
      <4>1. CASE T = {}
        BY <2>1, <4>1
      <4>2. CASE T = {1}
        BY <3>1, <4>2, PartsOfTwo, Zenon
      <4>3. CASE T = {2}
        BY <3>2, <4>3, PartsOfTwo, Zenon
      <4>4. CASE T = {1, 2}
        BY <3>3, <4>4, PartsOfTwo, Zenon
      <4> QED
        BY <4>1, <4>2, <4>3, <4>4
    <3> QED
      BY <3>4, PartsOfTwo
  <2> QED
    BY <2>2
<1>4. Folds(h)
  BY <1>3
<1>5. \A T \in {{}, {1}, {2}, {1, 2}} : h[T] = IF T = {} THEN 0 ELSE (h[T \ {Max(T)}] + q[Max(T)].fold) % Modulus
  BY <1>4, PartsOfTwo
<1> HIDE DEF h
<1>6. h[{}] = 0
  BY <1>5
<1>7. h[{1}] = 1 % Modulus
  <2>1. h[{1}] = (h[{1} \ {Max({1})}] + q[Max({1})].fold) % Modulus
    BY <1>5
  <2> QED
    BY <1>2, <1>6, <2>1, DownTwo
<1>8. h[{1, 2}] = ((1 % Modulus) + 1) % Modulus
  <2>1. h[{1, 2}] = (h[{1, 2} \ {Max({1, 2})}] + q[Max({1, 2})].fold) % Modulus
    BY <1>5
  <2> QED
    BY <1>2, <1>7, <2>1, DownTwo
<1> QED
  BY <1>1, <1>8, PartsOfTwo

LEMMA TwoDated ==
  ASSUME NEW q, TwoOfOne(q)
  PROVE  DayOf(q) = 4
<1> DEFINE Folds(g) == g = [T \in SUBSET (1..2) |->
                              IF T = {} THEN 0 ELSE IF q[Max(T)].day > g[T \ {Max(T)}] THEN q[Max(T)].day ELSE g[T \ {Max(T)}]]
           h == CHOOSE g : Folds(g)
           sum == [T \in SUBSET (1..2) |-> IF T = {} THEN 0 ELSE
                     IF T = {1, 2} THEN 4 ELSE IF T = {1} THEN 3 ELSE 4]
<1>1. DayOf(q) = h[1..2]
  BY DEF DayOf, FoldLeft, MapThenFoldSet, TwoOfOne
<1>2. q[Max({1})].day = 3 /\ q[Max({2})].day = 4 /\ q[Max({1, 2})].day = 4
  BY PartsOfTwo DEF TwoOfOne
<1>3. Folds(sum)
  <2>1. sum[{}] = 0 /\ sum[{1}] = 3 /\ sum[{2}] = 4 /\ sum[{1, 2}] = 4
    BY PartsOfTwo
  <2>2. \A T \in SUBSET (1..2) : sum[T] = IF T = {} THEN 0 ELSE IF q[Max(T)].day > sum[T \ {Max(T)}] THEN q[Max(T)].day ELSE sum[T \ {Max(T)}]
    <3> HIDE DEF sum
    <3>1. sum[{1}] = IF q[Max({1})].day > sum[{1} \ {Max({1})}] THEN q[Max({1})].day ELSE sum[{1} \ {Max({1})}]
      BY <1>2, <2>1, DownTwo
    <3>2. sum[{2}] = IF q[Max({2})].day > sum[{2} \ {Max({2})}] THEN q[Max({2})].day ELSE sum[{2} \ {Max({2})}]
      BY <1>2, <2>1, DownTwo
    <3>3. sum[{1, 2}] = IF q[Max({1, 2})].day > sum[{1, 2} \ {Max({1, 2})}] THEN q[Max({1, 2})].day ELSE sum[{1, 2} \ {Max({1, 2})}]
      BY <1>2, <2>1, DownTwo
    <3>4. \A T \in {{}, {1}, {2}, {1, 2}} : sum[T] = IF T = {} THEN 0 ELSE IF q[Max(T)].day > sum[T \ {Max(T)}] THEN q[Max(T)].day ELSE sum[T \ {Max(T)}]
      <4> TAKE T \in {{}, {1}, {2}, {1, 2}}
      <4>1. CASE T = {}
        BY <2>1, <4>1
      <4>2. CASE T = {1}
        BY <3>1, <4>2, PartsOfTwo, Zenon
      <4>3. CASE T = {2}
        BY <3>2, <4>3, PartsOfTwo, Zenon
      <4>4. CASE T = {1, 2}
        BY <3>3, <4>4, PartsOfTwo, Zenon
      <4> QED
        BY <4>1, <4>2, <4>3, <4>4
    <3> QED
      BY <3>4, PartsOfTwo
  <2> QED
    BY <2>2
<1>4. Folds(h)
  BY <1>3
<1>5. \A T \in {{}, {1}, {2}, {1, 2}} : h[T] = IF T = {} THEN 0 ELSE IF q[Max(T)].day > h[T \ {Max(T)}] THEN q[Max(T)].day ELSE h[T \ {Max(T)}]
  BY <1>4, PartsOfTwo
<1> HIDE DEF h
<1>6. h[{}] = 0
  BY <1>5
<1>7. h[{1}] = 3
  <2>1. h[{1}] = IF q[Max({1})].day > h[{1} \ {Max({1})}] THEN q[Max({1})].day ELSE h[{1} \ {Max({1})}]
    BY <1>5
  <2> QED
    BY <1>2, <1>6, <2>1, DownTwo
<1>8. h[{1, 2}] = 4
  <2>1. h[{1, 2}] = IF q[Max({1, 2})].day > h[{1, 2} \ {Max({1, 2})}] THEN q[Max({1, 2})].day ELSE h[{1, 2} \ {Max({1, 2})}]
    BY <1>5
  <2> QED
    BY <1>2, <1>7, <2>1, DownTwo
<1> QED
  BY <1>1, <1>8, PartsOfTwo


\* The sums of submitSU, which the batch's own totals are compared with.
Counts(q) == MapThenSumSet(LAMBDA i : q[i].count, 1..Len(q))
FoldSums(q) == MapThenSumSet(LAMBDA i : q[i].fold, 1..Len(q))

LEMMA TotalsAre ==
  ASSUME NEW b
  PROVE  TotalsHold(b) <=> /\ Counts(b.seals) = b.count
                           /\ FoldSums(b.seals) % Modulus = b.fold
                           /\ \E i \in 1..Len(b.seals) : b.seals[i].day = b.day
                           /\ \A i \in 1..Len(b.seals) : b.seals[i].day <= b.day
  BY DEF TotalsHold, Counts, FoldSums

\* A function that goes from each part to the part without some element of it.
LEMMA FromTwo ==
  ASSUME NEW h
  PROVE  /\ h[{1} \ {CHOOSE x \in {1} : TRUE}] = h[{}]
         /\ h[{2} \ {CHOOSE x \in {2} : TRUE}] = h[{}]
         /\ h[{1, 2} \ {CHOOSE x \in {1, 2} : TRUE}] \in {h[{1}], h[{2}]}
         /\ (CHOOSE x \in {1} : TRUE) = 1 /\ (CHOOSE x \in {2} : TRUE) = 2
         /\ (CHOOSE x \in {1, 2} : TRUE) \in {1, 2}
<1>1. (CHOOSE x \in {1} : TRUE) = 1 /\ (CHOOSE x \in {2} : TRUE) = 2
  OBVIOUS
<1>2. (CHOOSE x \in {1, 2} : TRUE) \in {1, 2}
  OBVIOUS
<1>3. h[{1} \ {CHOOSE x \in {1} : TRUE}] = h[{}]
  BY <1>1, PartsOfTwo, Zenon
<1>4. h[{2} \ {CHOOSE x \in {2} : TRUE}] = h[{}]
  BY <1>1, PartsOfTwo, Zenon
<1>5. h[{1, 2} \ {CHOOSE x \in {1, 2} : TRUE}] \in {h[{1}], h[{2}]}
  BY <1>2, PartsOfTwo, Zenon
<1> QED
  BY <1>1, <1>2, <1>3, <1>4, <1>5, Zenon

LEMMA TwoSummed ==
  ASSUME NEW q, TwoOfOne(q)
  PROVE  Counts(q) = 2
<1> DEFINE Folds(g) == g = [T \in SUBSET (1..2) |-> IF T = {} THEN 0 ELSE
                              q[(CHOOSE x \in T : TRUE)].count + g[T \ {CHOOSE x \in T : TRUE}]]
           h == CHOOSE g : Folds(g)
           sum == [T \in SUBSET (1..2) |-> IF T = {} THEN 0 ELSE IF T = {1, 2} THEN 2 ELSE 1]
<1>1. Counts(q) = h[1..2]
  BY DEF Counts, MapThenSumSet, MapThenFoldSet, TwoOfOne
<1>2. /\ q[CHOOSE x \in {1} : TRUE].count = 1 /\ q[CHOOSE x \in {2} : TRUE].count = 1
      /\ q[CHOOSE x \in {1, 2} : TRUE].count = 1
  BY FromTwo DEF TwoOfOne
<1>3. Folds(sum)
  <2>1. sum[{}] = 0 /\ sum[{1}] = 1 /\ sum[{2}] = 1 /\ sum[{1, 2}] = 2
    BY PartsOfTwo
  <2>2. \A T \in SUBSET (1..2) :
          sum[T] = IF T = {} THEN 0 ELSE q[(CHOOSE x \in T : TRUE)].count + sum[T \ {CHOOSE x \in T : TRUE}]
    <3> HIDE DEF sum
    <3>1. sum[{1}] = q[(CHOOSE x \in {1} : TRUE)].count + sum[{1} \ {CHOOSE x \in {1} : TRUE}]
      BY <1>2, <2>1, FromTwo
    <3>2. sum[{2}] = q[(CHOOSE x \in {2} : TRUE)].count + sum[{2} \ {CHOOSE x \in {2} : TRUE}]
      BY <1>2, <2>1, FromTwo
    <3>3. sum[{1, 2}] = q[(CHOOSE x \in {1, 2} : TRUE)].count + sum[{1, 2} \ {CHOOSE x \in {1, 2} : TRUE}]
      BY <1>2, <2>1, FromTwo
    <3>4. \A T \in {{}, {1}, {2}, {1, 2}} :
            sum[T] = IF T = {} THEN 0 ELSE q[(CHOOSE x \in T : TRUE)].count + sum[T \ {CHOOSE x \in T : TRUE}]
      <4> TAKE T \in {{}, {1}, {2}, {1, 2}}
      <4>1. CASE T = {}
        BY <2>1, <4>1
      <4>2. CASE T = {1}
        BY <3>1, <4>2, PartsOfTwo, Zenon
      <4>3. CASE T = {2}
        BY <3>2, <4>3, PartsOfTwo, Zenon
      <4>4. CASE T = {1, 2}
        BY <3>3, <4>4, PartsOfTwo, Zenon
      <4> QED
        BY <4>1, <4>2, <4>3, <4>4
    <3> QED
      BY <3>4, PartsOfTwo
  <2> QED
    BY <2>2
<1>4. Folds(h)
  BY <1>3
<1>5. \A T \in {{}, {1}, {2}, {1, 2}} :
        h[T] = IF T = {} THEN 0 ELSE q[(CHOOSE x \in T : TRUE)].count + h[T \ {CHOOSE x \in T : TRUE}]
  BY <1>4, PartsOfTwo
<1> HIDE DEF h
<1>6. h[{}] = 0
  BY <1>5
<1>7. h[{1}] = 1
  <2>1. h[{1}] = q[(CHOOSE x \in {1} : TRUE)].count + h[{1} \ {CHOOSE x \in {1} : TRUE}]
    BY <1>5
  <2> QED
    BY <1>2, <1>6, <2>1, FromTwo
<1>8. h[{2}] = 1
  <2>1. h[{2}] = q[(CHOOSE x \in {2} : TRUE)].count + h[{2} \ {CHOOSE x \in {2} : TRUE}]
    BY <1>5
  <2> QED
    BY <1>2, <1>6, <2>1, FromTwo
<1>9. h[{1, 2}] = 2
  <2>1. h[{1, 2}] = q[(CHOOSE x \in {1, 2} : TRUE)].count + h[{1, 2} \ {CHOOSE x \in {1, 2} : TRUE}]
    BY <1>5
  <2> QED
    BY <1>2, <1>7, <1>8, <2>1, FromTwo
<1> QED
  BY <1>1, <1>9, PartsOfTwo

LEMMA TwoFoldSummed ==
  ASSUME NEW q, TwoOfOne(q)
  PROVE  FoldSums(q) = 2
<1> DEFINE Folds(g) == g = [T \in SUBSET (1..2) |-> IF T = {} THEN 0 ELSE
                              q[(CHOOSE x \in T : TRUE)].fold + g[T \ {CHOOSE x \in T : TRUE}]]
           h == CHOOSE g : Folds(g)
           sum == [T \in SUBSET (1..2) |-> IF T = {} THEN 0 ELSE IF T = {1, 2} THEN 2 ELSE 1]
<1>1. FoldSums(q) = h[1..2]
  BY DEF FoldSums, MapThenSumSet, MapThenFoldSet, TwoOfOne
<1>2. /\ q[CHOOSE x \in {1} : TRUE].fold = 1 /\ q[CHOOSE x \in {2} : TRUE].fold = 1
      /\ q[CHOOSE x \in {1, 2} : TRUE].fold = 1
  BY FromTwo DEF TwoOfOne
<1>3. Folds(sum)
  <2>1. sum[{}] = 0 /\ sum[{1}] = 1 /\ sum[{2}] = 1 /\ sum[{1, 2}] = 2
    BY PartsOfTwo
  <2>2. \A T \in SUBSET (1..2) :
          sum[T] = IF T = {} THEN 0 ELSE q[(CHOOSE x \in T : TRUE)].fold + sum[T \ {CHOOSE x \in T : TRUE}]
    <3> HIDE DEF sum
    <3>1. sum[{1}] = q[(CHOOSE x \in {1} : TRUE)].fold + sum[{1} \ {CHOOSE x \in {1} : TRUE}]
      BY <1>2, <2>1, FromTwo
    <3>2. sum[{2}] = q[(CHOOSE x \in {2} : TRUE)].fold + sum[{2} \ {CHOOSE x \in {2} : TRUE}]
      BY <1>2, <2>1, FromTwo
    <3>3. sum[{1, 2}] = q[(CHOOSE x \in {1, 2} : TRUE)].fold + sum[{1, 2} \ {CHOOSE x \in {1, 2} : TRUE}]
      BY <1>2, <2>1, FromTwo
    <3>4. \A T \in {{}, {1}, {2}, {1, 2}} :
            sum[T] = IF T = {} THEN 0 ELSE q[(CHOOSE x \in T : TRUE)].fold + sum[T \ {CHOOSE x \in T : TRUE}]
      <4> TAKE T \in {{}, {1}, {2}, {1, 2}}
      <4>1. CASE T = {}
        BY <2>1, <4>1
      <4>2. CASE T = {1}
        BY <3>1, <4>2, PartsOfTwo, Zenon
      <4>3. CASE T = {2}
        BY <3>2, <4>3, PartsOfTwo, Zenon
      <4>4. CASE T = {1, 2}
        BY <3>3, <4>4, PartsOfTwo, Zenon
      <4> QED
        BY <4>1, <4>2, <4>3, <4>4
    <3> QED
      BY <3>4, PartsOfTwo
  <2> QED
    BY <2>2
<1>4. Folds(h)
  BY <1>3
<1>5. \A T \in {{}, {1}, {2}, {1, 2}} :
        h[T] = IF T = {} THEN 0 ELSE q[(CHOOSE x \in T : TRUE)].fold + h[T \ {CHOOSE x \in T : TRUE}]
  BY <1>4, PartsOfTwo
<1> HIDE DEF h
<1>6. h[{}] = 0
  BY <1>5
<1>7. h[{1}] = 1
  <2>1. h[{1}] = q[(CHOOSE x \in {1} : TRUE)].fold + h[{1} \ {CHOOSE x \in {1} : TRUE}]
    BY <1>5
  <2> QED
    BY <1>2, <1>6, <2>1, FromTwo
<1>8. h[{2}] = 1
  <2>1. h[{2}] = q[(CHOOSE x \in {2} : TRUE)].fold + h[{2} \ {CHOOSE x \in {2} : TRUE}]
    BY <1>5
  <2> QED
    BY <1>2, <1>6, <2>1, FromTwo
<1>9. h[{1, 2}] = 2
  <2>1. h[{1, 2}] = q[(CHOOSE x \in {1, 2} : TRUE)].fold + h[{1, 2} \ {CHOOSE x \in {1, 2} : TRUE}]
    BY <1>5
  <2> QED
    BY <1>2, <1>7, <1>8, <2>1, FromTwo
<1> QED
  BY <1>1, <1>9, PartsOfTwo

LEMMA OneSummed ==
  ASSUME NEW q, Len(q) = 1, q[1].count = 1
  PROVE  Counts(q) = 1
<1> DEFINE Folds(g) == g = [T \in SUBSET (1..1) |-> IF T = {} THEN 0 ELSE
                              q[CHOOSE x \in T : TRUE].count + g[T \ {CHOOSE x \in T : TRUE}]]
           h == CHOOSE g : Folds(g)
           sum == [T \in SUBSET (1..1) |-> IF T = {} THEN 0 ELSE 1]
<1>1. Counts(q) = h[1..1]
  BY DEF Counts, MapThenSumSet, MapThenFoldSet
<1>2. /\ q[CHOOSE x \in {1} : TRUE].count = 1
      /\ 1..1 = {1} /\ SUBSET (1..1) = {{}, {1}}
  BY FromTwo
<1>3. Folds(sum)
  <2>1. sum[{}] = 0 /\ sum[{1}] = 1
    BY <1>2
  <2>2. \A T \in SUBSET (1..1) :
          sum[T] = IF T = {} THEN 0 ELSE
                     q[CHOOSE x \in T : TRUE].count + sum[T \ {CHOOSE x \in T : TRUE}]
    <3> HIDE DEF sum
    <3>1. sum[{1}] = q[CHOOSE x \in {1} : TRUE].count + sum[{1} \ {CHOOSE x \in {1} : TRUE}]
      BY <1>2, <2>1, FromTwo
    <3>2. \A T \in {{}, {1}} :
            sum[T] = IF T = {} THEN 0 ELSE
                       q[CHOOSE x \in T : TRUE].count + sum[T \ {CHOOSE x \in T : TRUE}]
      <4> TAKE T \in {{}, {1}}
      <4>1. CASE T = {}
        BY <2>1, <4>1
      <4>2. CASE T = {1}
        BY <3>1, <4>2, PartsOfTwo, Zenon
      <4> QED
        BY <4>1, <4>2
    <3> QED
      BY <1>2, <3>2
  <2> QED
    BY <2>2
<1>4. Folds(h)
  BY <1>3
<1>5. \A T \in {{}, {1}} :
        h[T] = IF T = {} THEN 0 ELSE
                 q[CHOOSE x \in T : TRUE].count + h[T \ {CHOOSE x \in T : TRUE}]
  <2>1. \A T \in SUBSET (1..1) :
          h[T] = IF T = {} THEN 0 ELSE
                   q[CHOOSE x \in T : TRUE].count + h[T \ {CHOOSE x \in T : TRUE}]
    BY <1>4
  <2> HIDE DEF h
  <2> QED
    BY <1>2, <2>1
<1> HIDE DEF h
<1>6. h[{}] = 0
  BY <1>5
<1>7. h[{1}] = 1
  <2>1. h[{1}] = q[CHOOSE x \in {1} : TRUE].count + h[{1} \ {CHOOSE x \in {1} : TRUE}]
    BY <1>5
  <2> QED
    BY <1>2, <1>6, <2>1, FromTwo
<1> QED
  BY <1>1, <1>2, <1>7, Zenon


\* A batch of two pools, with one transaction each, both signed under epoch 1.
Handled(q, s) ==
  \A i \in 1..2 : /\ q[i].epoch = 1
                  /\ q[i].handle = Sign(1, HandleMessage(Zero, Ctx, SealId(Ctx, s, q[i]), q[i]))

LEMMA SealsAre ==
  ASSUME NEW s, NEW q, q = SignHandles(Ctx, s, PoolsOfSync)
  PROVE  /\ TwoOfOne(q) /\ Ascending(q) /\ q \in Seq({q[1], q[2]})
         /\ Handled(q, s)
<1>1. /\ DOMAIN PoolsOfSync = 1..2 /\ Len(PoolsOfSync) = 2
      /\ PoolsOfSync[1] = [pool |-> 0, epoch |-> 1, day |-> 3, key |-> 1, handle |-> Nobody, count |-> 1, fold |-> 1]
      /\ PoolsOfSync[2] = [pool |-> 1, epoch |-> 1, day |-> 4, key |-> 1, handle |-> Nobody, count |-> 1, fold |-> 1]
  BY DEF PoolsOfSync
<1> DEFINE p(i) == PoolsOfSync[i]
           sign(i) == Sign(1, HandleMessage(Zero, Ctx, SealId(Ctx, s, p(i)), p(i)))
<1>2. q = [i \in 1..2 |-> [p(i) EXCEPT !.handle = sign(i)]]
  BY <1>1 DEF SignHandles
<1>3. DOMAIN q = 1..2 /\ Len(q) = 2 /\ q \in Seq({q[1], q[2]})
  BY <1>2
<1> HIDE DEF sign
<1>4. /\ q[1] = [pool |-> 0, epoch |-> 1, day |-> 3, key |-> 1, handle |-> sign(1), count |-> 1, fold |-> 1]
      /\ q[2] = [pool |-> 1, epoch |-> 1, day |-> 4, key |-> 1, handle |-> sign(2), count |-> 1, fold |-> 1]
  BY <1>1, <1>2
<1>5. TwoOfOne(q)
  BY <1>3, <1>4 DEF TwoOfOne
<1>6. Ascending(q)
  BY <1>3, <1>4 DEF Ascending
<1>7. /\ sign(1) = Sign(1, HandleMessage(Zero, Ctx, SealId(Ctx, s, q[1]), q[1]))
      /\ sign(2) = Sign(1, HandleMessage(Zero, Ctx, SealId(Ctx, s, q[2]), q[2]))
  BY <1>1, <1>4 DEF sign, HandleMessage, SealId
<1> QED
  BY <1>3, <1>4, <1>5, <1>6, <1>7 DEF Handled

LEMMA BatchIs ==
  ASSUME NEW s, NEW b, b = Batch(s)
  PROVE  /\ b.ctx = Ctx /\ b.sequence = s
         /\ b.seals = SignHandles(Ctx, s, PoolsOfSync)
         /\ b.count = 2 /\ b.day = 4
         /\ b.fold = (((1 % Modulus) + 1) % Modulus)
         /\ b.signature = Sign(Enclave, SettlementMessage(b, RmDigest))
<1> DEFINE q == SignHandles(Ctx, s, PoolsOfSync)
<1>1. CountOf(q) = 2 /\ FoldOf(q) = (((1 % Modulus) + 1) % Modulus) /\ DayOf(q) = 4
  <2>1. PICK r : r = q
    OBVIOUS
  <2>2. TwoOfOne(r)
    BY <2>1, SealsAre
  <2>3. CountOf(r) = 2 /\ FoldOf(r) = (((1 % Modulus) + 1) % Modulus) /\ DayOf(r) = 4
    BY <2>2, TwoCounted, TwoFolded, TwoDated
  <2> QED
    BY <2>1, <2>3
<1> DEFINE c == CountOf(q)
           f == FoldOf(q)
           d == DayOf(q)
           unsigned == [ctx |-> Ctx, sequence |-> s, amount |-> 1, seals |-> q,
                        count |-> c, fold |-> f, day |-> d, signature |-> Nobody]
           signature == Sign(Enclave, SettlementMessage(unsigned, RmDigest))
<1>2. b = [unsigned EXCEPT !.signature = signature]
  BY DEF Batch, SettledBatch
<1> HIDE DEF q, c, f, d, signature
<1>3. b = [ctx |-> Ctx, sequence |-> s, amount |-> 1, seals |-> q,
           count |-> c, fold |-> f, day |-> d, signature |-> signature]
  BY <1>2
<1>4. SettlementMessage(b, RmDigest) = SettlementMessage(unsigned, RmDigest)
  BY <1>3 DEF SettlementMessage
<1>5. b.signature = Sign(Enclave, SettlementMessage(b, RmDigest))
  BY <1>3, <1>4 DEF signature
<1> QED
  BY <1>1, <1>3, <1>5 DEF q, c, f, d

\* Two is two modulo whatever.
LEMMA TwoReduced == 2 % Modulus = ((1 % Modulus) + 1) % Modulus
<1>1. Modulus \in Nat \ {0}
  BY SealedBatchAssumption
<1>2. CASE Modulus = 1
  BY <1>2
<1>3. CASE Modulus = 2
  BY <1>3
<1>4. CASE Modulus >= 3
  <2>1. 1 % Modulus = 1
    BY <1>1, <1>4
  <2> QED
    BY <2>1
<1> QED
  BY <1>1, <1>2, <1>3, <1>4

\* With the directory and the deployment in place, nothing but the context is left to
\* refuse a batch for.
LEMMA Settles ==
  ASSUME TwoPools, directory = D2, deployments = Deployed, NEW s, NEW b, b = Batch(s)
  PROVE  Settling(Zero, Mock, Enclave, b) =
           IF "context" \in makes /\ Settlements(Ctx) # {} THEN "AlreadySettled" ELSE "none"
<1>1. PICK q : q = b.seals
  OBVIOUS
<1>2. /\ b.ctx = Ctx /\ b.sequence = s /\ q = SignHandles(Ctx, s, PoolsOfSync)
      /\ b.count = 2 /\ b.day = 4 /\ b.fold = (((1 % Modulus) + 1) % Modulus)
      /\ b.signature = Sign(Enclave, SettlementMessage(b, RmDigest))
  BY <1>1, BatchIs
<1>3. TwoOfOne(q) /\ Ascending(q) /\ Handled(q, s)
  BY <1>2, SealsAre
<1>4. ActiveFor(Enclave, Zero, Mock)
  BY DEF ActiveFor, Deployed
<1>5. Len(q) = 2 /\ Len(q) \in 1..MaxSeals /\ Ascending(q)
  BY <1>3, SealedBatchAssumption DEF TwoOfOne, TwoPools
<1>6. \A i \in 1..Len(q) : HandleVerifies(Zero, b, q[i])
  <2> SUFFICES ASSUME NEW i \in 1..2 PROVE HandleVerifies(Zero, b, q[i])
    BY <1>5
  <2>1. HeadEpoch = 1 /\ directory[2] = Epoch1
    BY Heads DEF D2
  <2>2. KeyFor(1) = [epoch |-> 1, key |-> 1, start |-> 2, end |-> 0]
    BY <2>1 DEF KeyFor, Epoch1
  <2>3. q[i].epoch = 1 /\ q[i].day \in {3, 4}
    BY <1>3 DEF TwoOfOne, Handled
  <2>4. InWindow(q[i].day, KeyFor(1))
    BY <2>2, <2>3 DEF InWindow
  <2>5. Verifies(q[i].handle, KeyFor(1).key,
                 HandleMessage(Zero, b.ctx, SealId(b.ctx, b.sequence, q[i]), q[i]))
    BY <1>2, <1>3, <2>2 DEF Verifies, Handled
  <2> QED
    BY <2>1, <2>3, <2>4, <2>5 DEF HandleVerifies
<1>7. TotalsHold(b)
  <2>1. Counts(q) = 2 /\ FoldSums(q) = 2
    BY <1>3, TwoSummed, TwoFoldSummed
  <2>2. FoldSums(q) % Modulus = b.fold
    BY <1>2, <2>1, TwoReduced
  <2>3. \E i \in 1..Len(q) : q[i].day = b.day
    BY <1>2, <1>3, <1>5 DEF TwoOfOne
  <2>4. \A i \in 1..Len(q) : q[i].day <= b.day
    BY <1>2, <1>3, <1>5 DEF TwoOfOne
  <2> QED
    BY <1>1, <1>2, <2>1, <2>2, <2>3, <2>4, TotalsAre
<1>8. \E d \in deployments : /\ d.enclave = Enclave
                             /\ Verifies(b.signature, Enclave, SettlementMessage(b, d.manifest))
  <2> DEFINE it == [enclave |-> Enclave, attester |-> Zero, provider |-> Mock, manifest |-> RmDigest]
  <2>1. PICK d : d = it
    OBVIOUS
  <2>2. d \in deployments
    BY <2>1 DEF Deployed
  <2>3. d.enclave = Enclave /\ d.manifest = RmDigest
    BY <2>1
  <2> QED
    BY <1>2, <2>2, <2>3 DEF Verifies
<1> QED
  BY <1>1, <1>2, <1>4, <1>5, <1>6, <1>7, <1>8 DEF Settling


\* The same batch without its second pool.
LEMMA Truncated ==
  ASSUME TwoPools, directory = D2, deployments = Deployed, makes = Checks
  PROVE  Refusal(Sub(4)) = "BatchTotalsMismatch"
<1>1. PICK b : b = Batch(Sequence)
  OBVIOUS
<1>2. PICK q : q = b.seals
  OBVIOUS
<1> DEFINE r == SubSeq(q, 1, 1)
<1>3. PICK t : t = [b EXCEPT !.seals = r]
  OBVIOUS
<1>4. q = SignHandles(Ctx, Sequence, PoolsOfSync) /\ b.ctx = Ctx /\ b.sequence = Sequence /\ b.count = 2
  BY <1>1, <1>2, BatchIs
<1>5. TwoOfOne(q) /\ Ascending(q) /\ Handled(q, Sequence) /\ q \in Seq({q[1], q[2]})
  BY <1>4, SealsAre
<1>6. Len(r) = 1 /\ r[1] = q[1]
  BY <1>5 DEF TwoOfOne
<1> HIDE DEF r
<1>7. Sub(4).to = "submitSU" /\ Sub(4).by = Zero /\ Sub(4).batch = t
  BY <1>1, <1>2, <1>3 DEF Sub, SubmitSU, r
<1>8. t.seals = r /\ t.ctx = Ctx /\ t.sequence = Sequence /\ t.count = 2
  BY <1>1, <1>3, <1>4 DEF Batch, SettledBatch
<1>9. ActiveFor(Enclave, Zero, Mock)
  BY DEF ActiveFor, Deployed
<1>10. Len(r) \in 1..MaxSeals /\ Ascending(r)
  BY <1>6, SealedBatchAssumption DEF TwoPools, Ascending
<1>11. HandleVerifies(Zero, t, r[1])
  <2>1. HeadEpoch = 1 /\ directory[2] = Epoch1
    BY Heads DEF D2
  <2>2. KeyFor(1) = [epoch |-> 1, key |-> 1, start |-> 2, end |-> 0]
    BY <2>1 DEF KeyFor, Epoch1
  <2>3. q[1].epoch = 1 /\ q[1].day = 3
    BY <1>5 DEF TwoOfOne, Handled
  <2>4. InWindow(q[1].day, KeyFor(1))
    BY <2>2, <2>3 DEF InWindow
  <2>5. Verifies(q[1].handle, KeyFor(1).key,
                 HandleMessage(Zero, t.ctx, SealId(t.ctx, t.sequence, q[1]), q[1]))
    BY <1>8, <1>5, <2>2 DEF Verifies, Handled
  <2> QED
    BY <1>6, <2>1, <2>3, <2>4, <2>5 DEF HandleVerifies
<1>12. ~TotalsHold(t)
  <2>1. r[1].count = 1
    BY <1>5, <1>6 DEF TwoOfOne
  <2>2. Counts(r) = 1
    BY <1>6, <2>1, OneSummed
  <2> QED
    BY <1>8, <2>2, TotalsAre
<1>13. \A i \in 1..Len(r) : i = 1
  BY <1>6
<1>14. Settling(Zero, Mock, Enclave, t) = "BatchTotalsMismatch"
  BY <1>6, <1>8, <1>9, <1>10, <1>11, <1>12, <1>13 DEF Settling, Checks
<1> QED
  BY <1>7, <1>14 DEF Refusal


\* A settled context is not settled again, whatever else is wrong with the batch.
LEMMA SettledOnce ==
  ASSUME "context" \in makes, Settled(1) \in units, NEW n \in 1..4
  PROVE  Refusal(Sub(n)) # "none"
<1>1. /\ Batch(Sequence).ctx = Ctx /\ Batch(Sequence + 1).ctx = Ctx
  <2>1. PICK b, c : b = Batch(Sequence) /\ c = Batch(Sequence + 1)
    OBVIOUS
  <2>2. b.ctx = Ctx /\ c.ctx = Ctx
    BY <2>1, BatchIs
  <2> QED
    BY <2>1, <2>2
<1>2. Sub(n).batch.ctx = Ctx
  <2>1. [Batch(Sequence) EXCEPT !.seals = SubSeq(Batch(Sequence).seals, 1, 1)].ctx = Ctx
    BY <1>1 DEF Batch, SettledBatch
  <2>2. n \in {1, 2, 3, 4}
    OBVIOUS
  <2> QED
    BY <1>1, <2>1, <2>2 DEF Sub, SubmitSU
<1>3. Settled(1).ctx = Ctx
  BY <1>1 DEF Settled, UnitOf, Sub, SubmitSU
<1>4. Settlements(Ctx) # {}
  BY <1>3 DEF Settlements
<1> QED
  BY <1>2, <1>4, CallsAre DEF Refusal, Settling

LEMMA SettledIs ==
  /\ Settled(1) = UnitOf(Zero, 1, Batch(Sequence))
  /\ Settled(1).su = 1 /\ Settled(1).ctx = Ctx /\ Settled(1).id = SettlementId(Ctx, Sequence)
<1>1. PICK b : b = Batch(Sequence)
  OBVIOUS
<1>2. b.ctx = Ctx /\ b.sequence = Sequence
  BY <1>1, BatchIs
<1>3. Sub(1).by = Zero /\ Sub(1).su = 1 /\ Sub(1).batch = b
  BY <1>1 DEF Sub, SubmitSU
<1> QED
  BY <1>1, <1>2, <1>3 DEF Settled, UnitOf

-----------------------------------------------------------------------------
(* Runs on contracts that make every check.                                *)

\* No fault has hit the bodies of the run that are over.
Untroubled == \A j \in RunOf(at) : j < at => j \notin faulted

\* Wherever a run without a fault is, it finds what it has made sure of before: nothing
\* is under way but its own call, the directory ends with epoch 1, the enclave is
\* registered, and the context has settled once, for S053's first unit.
Quiet ==
  /\ mid # "sent" => flying = <<>>
  /\ mid = "sent" => flying \in {<<>>, << Now.call >>}
  /\ Second => /\ directory = D2
               /\ step = 3 /\ mid = "sent" /\ flying = <<>> => deployments = Deployed
               /\ step >= 4 => deployments = Deployed
  /\ Third => /\ directory = D2 /\ deployments = Deployed
              /\ step = 1 /\ (mid = "decided" \/ (mid = "sent" /\ flying # <<>>)) => units = {}
              /\ step = 1 /\ mid = "sent" /\ flying = <<>> => units = {Settled(1)}
              /\ step >= 2 => units = {Settled(1)}

\* And whatever faults there are, what must be refused is.
Refused ==
  /\ directory # D3
  /\ units \subseteq {Settled(1)}
  /\ InBody /\ Third /\ step >= 3 => units # {}
  /\ \A i \in 1..Len(flying) : flying[i] \notin {Forge, Sub(2), Sub(3), Sub(4)}
  /\ mid = "sent" => Now.op = "write"

Deserved == \A i \in Scenarios : verdict[i] = "fail" => \E j \in RunOf(i) : j <= i /\ j \in faulted

GoodInv ==
  makes = Checks => /\ Refused
                    /\ InBody /\ (First \/ Second \/ Third) /\ Untroubled => Quiet
                    /\ Deserved

\* What a body expects to be refused is.
LEMMA IsRefused ==
  ASSUME Reruns, PlaceInv, Refused, makes = Checks, InBody, Now.op = "refuse"
  PROVE  Refusal(Now.call) # "none"
<1>1. CASE First
  <2>1. AtFirst
    BY <1>1, Where DEF PlaceInv
  <2>2. Now.call = Forge
    BY <2>1 DEF AtFirst, IsWrite, IsEnsure, IsRefuse
  <2> QED
    BY <2>2, ForgeIsUnsigned DEF Checks
<1>2. CASE Second
  BY <1>2, Where DEF PlaceInv, AtSecond, IsWrite, IsEnsure
<1>3. CASE Third
  <2>1. AtThird
    BY <1>3, Where DEF PlaceInv
  <2>2. step \in {4, 5, 6} /\ Now.call \in {Sub(2), Sub(3), Sub(4)}
    BY <2>1 DEF AtThird, IsWrite, IsEnsure, IsRefuse
  <2>3. Settled(1) \in units
    BY <1>3, <2>2 DEF Refused
  <2>4. "context" \in makes
    BY DEF Checks
  <2>5. Refusal(Sub(2)) # "none" /\ Refusal(Sub(3)) # "none" /\ Refusal(Sub(4)) # "none"
    BY <2>3, <2>4, SettledOnce
  <2> QED
    BY <2>2, <2>5
<1> QED
  BY <1>1, <1>2, <1>3, Where DEF PlaceInv

\* So a body only sends what it means to write.
LEMMA Writes ==
  ASSUME Reruns, PlaceInv, Refused, makes = Checks, InBody, Now.op = "write"
  PROVE  /\ Now.call \in {Anchor, Adv, Measurement, Register, Sub(1)}
         /\ Now.call \notin {Forge, Sub(2), Sub(3), Sub(4)}
<1>1. Now.call \in {Anchor, Adv, Measurement, Register, Sub(1)}
  <2>1. CASE First
    BY <2>1, Where DEF PlaceInv, AtFirst, IsWrite, IsEnsure, IsRefuse
  <2>2. CASE Second
    BY <2>2, Where DEF PlaceInv, AtSecond, IsWrite, IsEnsure
  <2>3. CASE Third
    BY <2>3, Where DEF PlaceInv, AtThird, IsWrite, IsEnsure, IsRefuse
  <2> QED
    BY <2>1, <2>2, <2>3, Where DEF PlaceInv
<1>2. /\ Sub(1).to = "submitSU" /\ Sub(1).su = 1
      /\ Sub(2).to = "submitSU" /\ Sub(2).su = 2
      /\ Sub(3).to = "submitSU" /\ Sub(3).su = 3
      /\ Sub(4).to = "submitSU" /\ Sub(4).su = 4
  BY CallsAre
<1> QED
  BY <1>1, <1>2, CallsAre


LEMMA RefusedStep ==
  ASSUME Reruns, PlaceInv, DirectoryInv, ContractInv, Refused, makes = Checks, Next
  PROVE  Refused'
<1>1. Sent => /\ InBody /\ Now.op = "write" /\ Now.call \notin {Forge, Sub(2), Sub(3), Sub(4)}
              /\ UNCHANGED <<directory, units>> /\ flying' = Append(flying, Now.call)
  BY IsRefused, Writes DEF Sent, sealingVars
<1>2. flying \in Seq(Calls) /\ Len(flying) \in Nat
  BY DEF PlaceInv
<1>3. directory' # D3
  <2>1. CASE Kept \/ Sent
    BY <1>1, <2>1 DEF Kept, sealingVars, Refused
  <2>2. CASE \E i \in 1..Len(flying) : Landed(i)
    <3>1. PICK i \in 1..Len(flying) : Landed(i)
      BY <2>2
    <3>2. flying[i] # Forge
      BY DEF Refused
    <3> QED
      BY <3>1, <3>2, LandedDirectory, Directories DEF Refused
  <2> QED
    BY <2>1, <2>2, Traffic
<1>4. units \subseteq units' /\ units' \subseteq {Settled(1)}
  <2>1. CASE UNCHANGED units
    BY <2>1 DEF Refused
  <2>2. CASE \E i \in 1..Len(flying) : \E n \in 1..4 :
               flying[i] = Sub(n) /\ units' = units \cup {Settled(n)}
    <3>1. PICK i \in 1..Len(flying), n \in 1..4 : flying[i] = Sub(n) /\ units' = units \cup {Settled(n)}
      BY <2>2
    <3>2. n = 1
      BY <3>1 DEF Refused
    <3> QED
      BY <3>1, <3>2 DEF Refused
  <2> QED
    BY <2>1, <2>2, ContractStep
<1>5. ASSUME InBody', Third', step' >= 3 PROVE units # {}
  <2>1. CASE Inside
    <3>1. InBody /\ Third /\ step >= 3
      BY <1>5, <2>1 DEF Inside, InBody, Third, Scenarios, Suite
    <3> QED
      BY <3>1 DEF Refused
  <2>2. CASE InBody /\ Onward
    <3>1. Third
      BY <1>5, <2>2 DEF Onward, Third
    <3>2. AtThird
      BY <2>2, <3>1, Where DEF PlaceInv
    <3>3. /\ Now.op # "write" => step' = step + 1
          /\ step' = step + 1 \/ Skip
          /\ Now.op = "ensure" => Holds(Now.reads)
      BY <2>2, GoesOn
    <3>4. step = 1 => step' = 2
      <4>1. step = 1 => Now.over = 1
        BY <3>2 DEF AtThird, IsWrite
      <4> QED
        BY <3>3, <4>1 DEF Skip
    <3>5. step = 2 => units # {}
      <4> SUFFICES ASSUME step = 2 PROVE units # {}
        OBVIOUS
      <4>1. Holds("entity")
        BY <3>2, <3>3 DEF AtThird, IsEnsure
      <4> QED
        BY <4>1 DEF Holds
    <3>6. step >= 3 => units # {}
      BY <2>2, <3>1 DEF Refused
    <3> QED
      BY <1>5, <3>2, <3>4, <3>5, <3>6 DEF AtThird
  <2>3. CASE Passed \/ Failed
    BY <1>5, <2>3 DEF Passed, Failed, Finished
  <2> QED
    BY <2>1, <2>2, <2>3, Steps DEF PlaceInv
<1>6. \A i \in 1..Len(flying') : flying'[i] \notin {Forge, Sub(2), Sub(3), Sub(4)}
  <2>1. CASE Kept
    BY <2>1 DEF Kept, Refused
  <2>2. CASE Sent
    <3>1. Now.call \in Calls
      BY <1>1, <2>2, SentIsCall DEF PlaceInv
    <3>2. \A i \in 1..Len(flying') : (i \in 1..Len(flying) /\ flying'[i] = flying[i]) \/ flying'[i] = Now.call
      BY <1>1, <1>2, <2>2, <3>1
    <3> QED
      BY <1>1, <2>2, <3>2 DEF Refused
  <2>3. CASE \E i \in 1..Len(flying) : Landed(i)
    <3>1. PICK i \in 1..Len(flying) : flying' = RemoveAt(flying, i)
      BY <2>3 DEF Landed
    <3>2. /\ Len(RemoveAt(flying, i)) = Len(flying) - 1
          /\ \A j \in 1..(Len(flying) - 1) : /\ RemoveAt(flying, i)[j] = flying[Shifted(i, j)]
                                             /\ Shifted(i, j) \in 1..Len(flying) /\ Shifted(i, j) # i
      BY <1>2, TakenOut
    <3>3. \A j \in 1..Len(flying') : flying'[j] = flying[Shifted(i, j)] /\ Shifted(i, j) \in 1..Len(flying)
      BY <3>1, <3>2
    <3> QED
      BY <3>3 DEF Refused
  <2> QED
    BY <2>1, <2>2, <2>3, Traffic
<1>7. mid' = "sent" => (Now.op = "write")'
  <2> SUFFICES ASSUME mid' = "sent" PROVE (Now.op = "write")'
    OBVIOUS
  <2>1. Inside /\ InBody /\ Now.op \in {"write", "refuse"}
    BY MidStep
  <2>2. mid = "sent" \/ Send
    BY DEF Next, Skip, Begin, TurnedDown, GetReceipt, Read, Paused, RpcFault, Land, Advance, Pass, Fail, End, Doing, Reach, scriptVars
  <2>3. Now.op = "write"
    <3>1. Send => Refusal(Now.call) = "none"
      BY DEF Send
    <3> QED
      BY <2>1, <2>2, <3>1, IsRefused DEF Refused
  <2> QED
    BY <2>1, <2>3 DEF Inside, Now, Suite
<1>8. (InBody /\ Third /\ step >= 3)' => units' # {}
  BY <1>4, <1>5
<1> QED
  BY <1>3, <1>4, <1>6, <1>7, <1>8 DEF Refused


\* A body fails where a call is turned down, where one goes through that must not, or
\* where a read is not as it should be.
LEMMA Fails ==
  ASSUME Reruns, PlaceInv, Next, InBody, Failed, at \notin faulted'
  PROVE  \/ /\ (mid = "decided" /\ Now.op = "write") \/ (mid = "ready" /\ Now.op = "refuse")
            /\ Refusal(Now.call) # "none"
            /\ ~(Now.op = "refuse" /\ Now.want \in {"any", Refusal(Now.call)})
         \/ mid = "sent" /\ Now.op = "refuse"
         \/ Now.op = "ensure" /\ ~Holds(Now.reads)
<1>1. at \in Scenarios /\ at \in Nat /\ at' = at + 1
  <2>1. PICK n \in {3, 7} : Scenarios = 1..n
    BY SuiteShape DEF PlaceInv, ScriptTypeOK, Scenarios
  <2> QED
    BY <2>1 DEF Failed, Finished, InBody
<1>2. verdict' = [verdict EXCEPT ![at] = "fail"] /\ verdict \in [Scenarios -> {"todo", "pass", "fail"}]
  BY DEF Failed, Finished, PlaceInv, ScriptTypeOK
<1>3. ~Pass
  BY <1>1, <1>2 DEF Pass, End
<1>4. ~Advance
  BY <1>1, <1>3 DEF Advance
<1>5. ~Begin /\ ~Send /\ ~Land /\ ~Skip /\ ~Paused /\ ~RpcFault
  BY <1>1, <1>4 DEF Begin, Send, Land, Reach, Skip, Paused, scriptVars, RpcFault, Faulty
<1>6. CASE TurnedDown
  BY <1>4, <1>6 DEF TurnedDown, Sending, PlaceInv
<1>7. CASE GetReceipt
  BY <1>4, <1>7 DEF GetReceipt
<1>8. CASE Read
  BY <1>4, <1>8 DEF Read, Doing
<1> QED
  BY <1>5, <1>6, <1>7, <1>8 DEF Next

\* With the directory at epoch 1 and the enclave registered, what S051 and S052 read
\* holds, on contracts that make every check.
LEMMA ReadsHold ==
  ASSUME makes = Checks
  PROVE  /\ directory = D2 => Holds("headIsOne") /\ Holds("keyOfOne")
         /\ deployments = Deployed => /\ Holds("active") /\ Holds("notForOthers")
                                      /\ Holds("notElsewhere") /\ Holds("notUnknown")
         /\ units = {Settled(1)} => Holds("entity") /\ Holds("settled")
         /\ Holds("active") => deployments # {}
         /\ Holds("adminPath")
<1>1. directory = D2 => Holds("headIsOne") /\ Holds("keyOfOne")
  <2> SUFFICES ASSUME directory = D2 PROVE Holds("headIsOne") /\ Holds("keyOfOne")
    OBVIOUS
  <2>1. HeadRead = 1 /\ HeadEpoch = 1 /\ directory[2] = Epoch1
    BY Heads DEF D2
  <2>2. KeyFor(1) = [epoch |-> 1, key |-> 1, start |-> 2, end |-> 0]
    BY <2>1 DEF KeyFor, Epoch1
  <2> QED
    BY <2>1, <2>2 DEF Holds
<1>2. deployments = Deployed => /\ Holds("active") /\ Holds("notForOthers")
                                /\ Holds("notElsewhere") /\ Holds("notUnknown")
  <2> SUFFICES ASSUME deployments = Deployed
               PROVE  /\ Holds("active") /\ Holds("notForOthers")
                      /\ Holds("notElsewhere") /\ Holds("notUnknown")
    OBVIOUS
  <2>1. Zero # "0xEE" /\ Mock # "yapily" /\ Enclave # "0xAB"
    BY DEF Zero, Mock, Enclave
  <2>2. \A e, a, p : ActiveFor(e, a, p) <=> e = Enclave /\ a = Zero /\ p = Mock
    BY DEF ActiveFor, Deployed, Checks
  <2> QED
    BY <2>1, <2>2 DEF Holds
<1>3. units = {Settled(1)} => Holds("entity") /\ Holds("settled")
  <2> SUFFICES ASSUME units = {Settled(1)} PROVE Holds("entity") /\ Holds("settled")
    OBVIOUS
  <2>1. Settlements(Ctx) = {SettlementId(Ctx, Sequence)}
    BY SettledIs DEF Settlements
  <2> QED
    BY <2>1, SettledIs DEF Holds
<1>4. Holds("active") => deployments # {}
  BY DEF Holds, ActiveFor, Checks
<1>5. Holds("adminPath")
  BY DEF Holds, Checks
<1> QED
  BY <1>1, <1>2, <1>3, <1>4, <1>5


\* In a run without a fault, nothing but a fault makes a body fail.
LEMMA OnlyFaults ==
  ASSUME Reruns, TwoPools, PlaceInv, DirectoryInv, ContractInv, makes = Checks, Refused, Quiet,
         Next, InBody, First \/ Second \/ Third, Failed
  PROVE  at \in faulted'
<1> SUFFICES ASSUME at \notin faulted' PROVE FALSE
  OBVIOUS
<1>1. \/ /\ (mid = "decided" /\ Now.op = "write") \/ (mid = "ready" /\ Now.op = "refuse")
         /\ Refusal(Now.call) # "none"
         /\ ~(Now.op = "refuse" /\ Now.want \in {"any", Refusal(Now.call)})
      \/ mid = "sent" /\ Now.op = "refuse"
      \/ Now.op = "ensure" /\ ~Holds(Now.reads)
  BY Fails
<1>2. ~(mid = "sent" /\ Now.op = "refuse")
  BY DEF Refused
<1>3. CASE First
  <2>1. AtFirst /\ FirstInv
    BY <1>3, Where DEF PlaceInv, DirectoryInv
  <2>2. step = 1 => Refusal(Now.call) = "none" \/ mid # "decided"
    BY <2>1, Openings DEF AtFirst, IsWrite, FirstInv
  <2>3. step = 3 => Refusal(Now.call) = "none" \/ mid # "decided"
    BY <2>1, AdvFits DEF AtFirst, IsWrite, FirstInv
  <2>4. step = 4 => Now.op = "refuse" /\ Now.want = "any"
    BY <2>1 DEF AtFirst, IsRefuse
  <2>5. step = 2 => Now.op = "ensure" /\ Holds(Now.reads)
    BY <2>1 DEF AtFirst, IsEnsure, FirstInv, Holds
  <2>6. step \in {5, 6} => Now.op = "ensure" /\ Holds(Now.reads)
    <3>1. step \in {5, 6} => directory = D2
      BY <2>1 DEF FirstInv, Refused
    <3> QED
      BY <2>1, <3>1, ReadsHold DEF AtFirst, IsEnsure
  <2>7. step \in {1, 3} => Now.op = "write"
    BY <2>1 DEF AtFirst, IsWrite
  <2>8. step \in {1, 2, 3, 4, 5, 6}
    BY <2>1 DEF AtFirst
  <2> QED
    BY <1>1, <1>2, <2>2, <2>3, <2>4, <2>5, <2>6, <2>7, <2>8
<1>4. CASE Second
  <2>1. AtSecond
    BY <1>4, Where DEF PlaceInv
  <2>2. step \in {2, 3} => Now.op = "write" /\ Refusal(Now.call) = "none"
    BY <2>1, CallsAre DEF AtSecond, IsWrite, Refusal
  <2>3. step \in {1, 4, 5, 6, 7} => Now.op = "ensure" /\ Holds(Now.reads)
    <3>1. step \in {4, 5, 6, 7} => deployments = Deployed
      BY <1>4 DEF Quiet
    <3> QED
      BY <2>1, <3>1, ReadsHold DEF AtSecond, IsEnsure
  <2>4. step \in {1, 2, 3, 4, 5, 6, 7}
    BY <2>1 DEF AtSecond
  <2> QED
    BY <1>1, <1>2, <2>2, <2>3, <2>4
<1>5. CASE Third
  <2>1. AtThird
    BY <1>5, Where DEF PlaceInv
  <2>2. directory = D2 /\ deployments = Deployed /\ "context" \in makes
    BY <1>5 DEF Quiet, Checks
  <2>3. /\ \A n \in 1..3 : Refusal(Sub(n)) = IF Settlements(Ctx) # {} THEN "AlreadySettled" ELSE "none"
    <3>1. PICK b, c : b = Batch(Sequence) /\ c = Batch(Sequence + 1)
      OBVIOUS
    <3>2. /\ Settling(Zero, Mock, Enclave, b) = IF Settlements(Ctx) # {} THEN "AlreadySettled" ELSE "none"
          /\ Settling(Zero, Mock, Enclave, c) = IF Settlements(Ctx) # {} THEN "AlreadySettled" ELSE "none"
      BY <2>2, <3>1, Settles
    <3>3. /\ Sub(1).to = "submitSU" /\ Sub(1).by = Zero /\ Sub(1).batch = b
          /\ Sub(2).to = "submitSU" /\ Sub(2).by = Zero /\ Sub(2).batch = b
          /\ Sub(3).to = "submitSU" /\ Sub(3).by = Zero /\ Sub(3).batch = c
      BY <3>1 DEF Sub, SubmitSU
    <3>4. \A n \in 1..3 : n \in {1, 2, 3}
      OBVIOUS
    <3> QED
      BY <3>2, <3>3, <3>4 DEF Refusal
  <2>4. step = 1 => Now.op = "write" /\ (Refusal(Now.call) = "none" \/ mid # "decided")
    <3>1. units = {} => Settlements(Ctx) = {}
      BY DEF Settlements
    <3>2. units = {} => Refusal(Sub(1)) = "none"
      BY <2>3, <3>1
    <3> QED
      BY <1>5, <2>1, <3>2 DEF AtThird, IsWrite, Quiet
  <2>5. step \in {2, 3} => Now.op = "ensure" /\ Holds(Now.reads)
    <3>1. step \in {2, 3} => units = {Settled(1)}
      BY <1>5 DEF Quiet
    <3> QED
      BY <2>1, <3>1, ReadsHold DEF AtThird, IsEnsure
  <2>6. step \in {4, 5} => Now.op = "refuse" /\ Now.want = Refusal(Now.call)
    <3>1. step \in {4, 5} => Settlements(Ctx) # {}
      BY <1>5, SettledIs DEF Quiet, Settlements
    <3> QED
      BY <2>1, <2>3, <3>1 DEF AtThird, IsRefuse
  <2>7. step = 6 => Now.op = "refuse" /\ Now.want = Refusal(Now.call)
    BY <2>1, <2>2, Truncated DEF AtThird, IsRefuse
  <2>8. step \in {1, 2, 3, 4, 5, 6}
    BY <2>1 DEF AtThird
  <2> QED
    BY <1>1, <1>2, <2>4, <2>5, <2>6, <2>7, <2>8
<1> QED
  BY <1>3, <1>4, <1>5


\* A single call under way, when it has landed.
LEMMA OneLands ==
  ASSUME PlaceInv, Quiet, NEW i \in 1..Len(flying), Landed(i)
  PROVE  /\ mid = "sent" /\ flying # <<>> /\ flying[i] = Now.call
         /\ flying' = <<>> /\ UNCHANGED scriptVars
<1>1. flying # <<>>
  OBVIOUS
<1>2. mid = "sent" /\ flying = << Now.call >>
  BY <1>1 DEF Quiet
<1>3. Len(<< Now.call >>) = 1 /\ << Now.call >>[1] = Now.call
  OBVIOUS
<1>4. Len(flying) = 1 /\ flying[1] = Now.call
  BY <1>2, <1>3
<1>5. i = 1
  BY <1>4
<1>6. RemoveAt(flying, i) \in Seq(Calls) /\ Len(RemoveAt(flying, i)) = Len(flying) - 1
  BY TakenOut DEF PlaceInv
<1>7. RemoveAt(flying, i) = <<>>
  BY <1>4, <1>6
<1> QED
  BY <1>1, <1>2, <1>4, <1>5, <1>7 DEF Landed

\* What goes on in a body, with no fault so far, keeps the run quiet.
LEMMA QuietGoesOn ==
  ASSUME Reruns, TwoPools, PlaceInv, DirectoryInv, ContractInv, makes = Checks, Refused, Quiet,
         Next, InBody, First \/ Second \/ Third, at' = at
  PROVE  Quiet'
<1>1. /\ UNCHANGED <<suite, at, First, Second, Third>> /\ makes' = makes
      /\ at \in Nat
  <2>1. PICK n \in {3, 7} : Scenarios = 1..n
    BY SuiteShape DEF PlaceInv, ScriptTypeOK, Scenarios
  <2>2. at \in Nat
    BY <2>1 DEF InBody
  <2>3. suite' = suite
    BY <2>2, Steps DEF PlaceInv, Inside, Onward, Passed, Failed, Finished
  <2> QED
    BY <2>2, <2>3, ContractStep DEF First, Second, Third
<1>2. /\ Second => AtSecond
      /\ Third => AtThird
      /\ First => AtFirst
  BY Where DEF PlaceInv
<1>3. step \in {1, 2, 3, 4, 5, 6, 7}
  BY <1>2 DEF AtFirst, AtSecond, AtThird
<1>4. /\ Second => (step \in {2, 3} <=> Now.op = "write")
      /\ Third => (step = 1 <=> Now.op = "write")
      /\ Second \/ First => (Second => Now.op \in {"write", "ensure"})
  BY <1>2, <1>3 DEF AtSecond, AtThird, IsWrite, IsEnsure, IsRefuse
<1>5. Len(Suite[at]) \in {6, 7}
  BY <1>2 DEF AtFirst, AtSecond, AtThird
<1>6. ~(First /\ Second) /\ ~(First /\ Third) /\ ~(Second /\ Third)
  BY <1>1 DEF First, Second, Third
<1>7. CASE Skip
  <2>1. /\ Now.op = "write" /\ Holds(Now.unless) /\ mid = "ready" /\ step' = step + Now.over
        /\ UNCHANGED <<mid, flying, directory, deployments, units>>
    BY <1>7 DEF Skip, Doing, sealingVars
  <2>2. Second => step' = 4 /\ deployments = Deployed
    <3> SUFFICES ASSUME Second PROVE step' = 4 /\ deployments = Deployed
      OBVIOUS
    <3>1. step = 2
      BY <1>2, <1>4, <2>1 DEF AtSecond, IsWrite, Holds
    <3>2. Now.over = 2 /\ Now.unless = "active"
      BY <1>2, <3>1 DEF AtSecond, IsWrite
    <3> QED
      BY <2>1, <3>1, <3>2, ReadsHold DEF ContractInv
  <2>3. Third => step' = 2 /\ units = {Settled(1)}
    <3> SUFFICES ASSUME Third PROVE step' = 2 /\ units = {Settled(1)}
      OBVIOUS
    <3>1. step = 1 /\ Now.over = 1 /\ Now.unless = "exists"
      BY <1>2, <1>4, <2>1 DEF AtThird, IsWrite
    <3>2. units # {}
      BY <2>1, <3>1 DEF Holds
    <3> QED
      BY <2>1, <3>1, <3>2 DEF Refused
  <2> QED
    BY <1>1, <2>1, <2>2, <2>3 DEF Quiet
<1>8. CASE Begin
  <2>1. /\ Now.op = "write" /\ ~Holds(Now.unless) /\ mid = "ready" /\ mid' = "decided"
        /\ UNCHANGED <<step, flying, directory, deployments, units>>
    BY <1>8 DEF Begin, Doing, Reach, sealingVars
  <2>2. Third => units = {}
    <3> SUFFICES ASSUME Third PROVE units = {}
      OBVIOUS
    <3>1. Now.unless = "exists"
      BY <1>2, <1>4, <2>1 DEF AtThird, IsWrite
    <3>2. Settled(1) \notin units
      BY <2>1, <3>1, SettledIs DEF Holds
    <3> QED
      BY <3>2 DEF Refused
  <2> QED
    BY <1>1, <2>1, <2>2 DEF Quiet
<1>9. CASE Send
  <2>1. /\ InBody /\ mid \in {"decided", "ready"} /\ (mid = "decided" \/ Now.op = "refuse") /\ mid' = "sent"
        /\ Refusal(Now.call) = "none" /\ flying' = Append(flying, Now.call)
        /\ UNCHANGED <<step, directory, deployments, units>>
    BY <1>9 DEF Send, Sending, Reach, sealingVars, PlaceInv
  <2>2. Now.op = "write" /\ mid = "decided"
    BY <2>1, IsRefused DEF PlaceInv
  <2>3. flying' = << Now.call >> /\ flying' # <<>>
    BY <2>1, <2>2 DEF Quiet
  <2>4. (Now.call)' = Now.call
    BY <1>1, <2>1 DEF Now, Suite
  <2> QED
    BY <1>1, <1>4, <2>1, <2>2, <2>3, <2>4 DEF Quiet
<1>10. CASE GetReceipt
  <2>1. Now.op = "write" /\ mid = "sent"
    BY <1>10 DEF GetReceipt, Refused
  <2>2. \A j \in 1..Len(flying) : flying[j].by # Now.call.by
    BY <1>10, <2>1 DEF GetReceipt
  <2>3. flying = <<>>
    <3>1. << Now.call >>[1] = Now.call /\ 1 \in 1..Len(<< Now.call >>)
      OBVIOUS
    <3>2. flying # << Now.call >>
      BY <2>2, <3>1
    <3> QED
      BY <2>1, <3>2 DEF Quiet
  <2>4. mid' = "ready" /\ step' = step + 1 /\ UNCHANGED <<flying, directory, deployments, units>>
    BY <1>1, <1>3, <1>5, <1>10, <2>1 DEF GetReceipt, Advance, Pass, End, sealingVars
  <2> QED
    BY <1>1, <1>3, <1>4, <2>1, <2>3, <2>4 DEF Quiet
<1>11. CASE TurnedDown \/ Read
  <2>1. /\ mid' = "ready" /\ step' = step + 1 /\ UNCHANGED <<flying, directory, deployments, units>>
        /\ mid # "sent" /\ Now.op # "write"
    BY <1>1, <1>3, <1>5, <1>11 DEF TurnedDown, Sending, Read, Doing, Advance, Pass, Fail, End, sealingVars, PlaceInv
  <2> QED
    BY <1>1, <1>3, <1>4, <2>1 DEF Quiet
<1>12. CASE Paused \/ RpcFault
  <2>1. Now.op # "pause"
    BY <1>2, <1>3 DEF AtFirst, AtSecond, AtThird, IsWrite, IsEnsure, IsRefuse
  <2>2. RpcFault
    BY <1>12, <2>1 DEF Paused, Doing
  <2>3. /\ Onward /\ Mistaken /\ Now.op = "refuse" /\ Sending /\ UNCHANGED sealingVars
        /\ flying' = flying \/ Refusal(Now.call) = "none"
    <3>1. ~Failed
      BY <1>1 DEF Failed, Finished
    <3> QED
      BY <2>2, <3>1, Hit DEF PlaceInv
  <2>4. flying' = flying /\ mid # "sent"
    BY <2>3, IsRefused DEF Sending
  <2> QED
    BY <1>1, <1>6, <2>3, <2>4 DEF Quiet, Mistaken, Onward, sealingVars
<1>13. CASE Land
  <2>1. PICK i \in 1..Len(flying) : Landed(i)
    BY <1>13 DEF Land, Landed
  <2>2. /\ mid = "sent" /\ flying # <<>> /\ flying[i] = Now.call
        /\ flying' = <<>> /\ UNCHANGED scriptVars
    BY <2>1, OneLands
  <2>3. Now.op = "write"
    BY <2>2 DEF Refused
  <2>4. CASE First
    BY <1>1, <1>6, <2>2, <2>4 DEF Quiet, scriptVars
  <2>5. CASE Second
    <3>1. step = 2 => Now.call = Measurement
      BY <1>2, <2>5 DEF AtSecond, IsWrite
    <3>2. step = 3 => Now.call = Register
      BY <1>2, <2>5 DEF AtSecond, IsWrite
    <3>3. step \in {2, 3}
      BY <1>4, <2>3, <2>5
    <3>4. directory' = directory
      BY <2>1, <2>2, <3>1, <3>2, <3>3, LandedDirectory, CallsAre DEF Directs
    <3>5. step = 3 => deployments' = Deployed
      <4> SUFFICES ASSUME step = 3 PROVE deployments' = Deployed
        OBVIOUS
      <4>1. flying[i] = Register /\ Refusal(Register) = "none"
        BY <2>2, <3>2, CallsAre DEF Refusal
      <4>2. Execute(Register)
        BY <2>1, <4>1 DEF Landed
      <4> QED
        BY <4>2, CallsAre DEF Execute, Deployed
    <3> QED
      BY <1>1, <1>6, <2>2, <2>5, <3>3, <3>4, <3>5 DEF Quiet, scriptVars
  <2>6. CASE Third
    <3>1. step = 1 /\ Now.call = Sub(1)
      BY <1>2, <1>4, <2>3, <2>6 DEF AtThird, IsWrite
    <3>2. units = {} /\ directory = D2 /\ deployments = Deployed
      BY <2>2, <2>6, <3>1 DEF Quiet
    <3>3. Refusal(Sub(1)) = "none"
      <4>1. PICK b : b = Batch(Sequence)
        OBVIOUS
      <4>2. Settlements(Ctx) = {}
        BY <3>2 DEF Settlements
      <4>3. Settling(Zero, Mock, Enclave, b) = "none"
        BY <3>2, <4>1, <4>2, Settles
      <4>4. Sub(1).to = "submitSU" /\ Sub(1).by = Zero /\ Sub(1).batch = b
        BY <4>1 DEF Sub, SubmitSU
      <4> QED
        BY <4>3, <4>4 DEF Refusal
    <3>4. Execute(Sub(1))
      BY <2>1, <2>2, <3>1, <3>3 DEF Landed
    <3>5. units' = {Settled(1)} /\ deployments' = deployments /\ directory' = directory
      BY <3>2, <3>4, CallsAre DEF Execute, Settled
    <3> QED
      BY <1>1, <1>6, <2>2, <2>6, <3>1, <3>2, <3>5 DEF Quiet, scriptVars
  <2> QED
    BY <2>4, <2>5, <2>6
<1> QED
  BY <1>7, <1>8, <1>9, <1>10, <1>11, <1>12, <1>13 DEF Next


\* A pause ends well, and when nothing is under way.
LEMMA PauseEnds ==
  ASSUME Reruns, PlaceInv, Next, InBody, at = 4
  PROVE  Inside \/ (Passed /\ flying' = <<>>)
<1>1. Now.op = "pause" /\ step = 1 /\ Len(Suite[at]) = 1
  BY Where DEF PlaceInv
<1>2. mid = "ready"
  BY <1>1 DEF PlaceInv
<1>3. CASE Paused
  BY <1>1, <1>3 DEF Paused, Advance, Pass, End, Passed, Finished
<1>4. CASE Land
  BY <1>4 DEF Land, scriptVars, Inside
<1> QED
  BY <1>1, <1>2, <1>3, <1>4 DEF Next, Skip, Begin, Send, TurnedDown, GetReceipt, Read, RpcFault, Sending, Doing

\* A run goes on as it has begun: quietly, from one body to the next.
LEMMA QuietStep ==
  ASSUME Reruns, TwoPools, PlaceInv, DirectoryInv, ContractInv, GoodInv, makes = Checks, Next,
         InBody', (First \/ Second \/ Third)', Untroubled'
  PROVE  Quiet'
<1>1. Refused /\ (InBody /\ (First \/ Second \/ Third) /\ Untroubled => Quiet)
  BY DEF GoodInv
<1>2. at \in Nat
  <2>1. PICK n \in {3, 7} : at \in 1..(n + 1)
    BY SuiteShape DEF PlaceInv, ScriptTypeOK, Scenarios
  <2> QED
    BY <2>1
<1>3. CASE at' = at
  <2>1. InBody /\ faulted \subseteq faulted'
    BY <1>2, <1>3, Steps DEF PlaceInv, InBody, Inside, Onward, Passed, Failed, Finished, Scenarios, Suite
  <2>2. (First \/ Second \/ Third) /\ Untroubled
    BY <1>3, <2>1 DEF First, Second, Third, Untroubled
  <2> QED
    BY <1>1, <1>3, <2>1, <2>2, QuietGoesOn
<1>4. CASE at' # at
  <2>1. /\ InBody /\ (Passed \/ Failed) /\ at' = at + 1 /\ mid' = "ready" /\ step' = 1
        /\ faulted \subseteq faulted' /\ at \in 1..7
    BY <1>4, Steps, Where DEF PlaceInv, Inside, Onward, Passed, Failed, Finished
  <2>2. CASE at = 4
    <3>1. flying' = <<>> /\ at' = 5
      BY <1>4, <2>1, <2>2, PauseEnds DEF Inside
    <3> QED
      BY <2>1, <3>1 DEF Quiet, Second, Third
  <2>3. CASE First \/ Second
    <3>1. RunOf(at') = RunOf(at) /\ at \in RunOf(at) /\ RunOf(at) \subseteq Nat
      BY <2>1, <2>3 DEF RunOf, First, Second
    <3>2. at \notin faulted' /\ Untroubled
      BY <1>2, <2>1, <3>1 DEF Untroubled
    <3>3. Quiet
      BY <1>1, <2>1, <2>3, <3>2
    <3>4. Passed
      BY <1>1, <2>1, <2>3, <3>2, <3>3, OnlyFaults
    <3>5. /\ First => step = 6
          /\ Second => step = 7
          /\ Now.op = "ensure"
      <4>1. First => step = 6 /\ Now.op = "ensure"
        BY <2>1, <3>4, Where DEF PlaceInv, AtFirst, IsEnsure, Passed
      <4>2. Second => step = 7 /\ Now.op = "ensure"
        BY <2>1, <3>4, Where DEF PlaceInv, AtSecond, IsEnsure, Passed
      <4> QED
        BY <2>3, <4>1, <4>2
    <3>6. UNCHANGED <<flying, directory, deployments>> /\ mid = "ready"
      BY <2>1, <3>4, <3>5, GoesOn DEF sealingVars
    <3>7. flying' = <<>>
      BY <3>3, <3>6 DEF Quiet
    <3>8. directory' = D2
      <4>1. First => directory = D2
        BY <1>1, <2>1, <3>5 DEF DirectoryInv, FirstInv, Refused
      <4>2. Second => directory = D2
        BY <3>3 DEF Quiet
      <4> QED
        BY <2>3, <3>6, <4>1, <4>2
    <3>9. Second => deployments' = Deployed
      BY <3>3, <3>5, <3>6 DEF Quiet
    <3>10. Third' => Second
      BY <2>1 DEF Third, Second
    <3> QED
      BY <2>1, <3>7, <3>8, <3>9, <3>10 DEF Quiet
  <2>4. CASE Third
    <3>1. at' \in {4, 8}
      BY <2>1, <2>4 DEF Third
    <3> QED
      BY <3>1 DEF First, Second, Third
  <2> QED
    BY <2>1, <2>2, <2>3, <2>4, Where DEF PlaceInv
<1> QED
  BY <1>3, <1>4

\* Every verdict of Err is deserved.
LEMMA DeservedStep ==
  ASSUME Reruns, TwoPools, PlaceInv, DirectoryInv, ContractInv, GoodInv, makes = Checks, Next
  PROVE  Deserved'
<1>1. Refused /\ (InBody /\ (First \/ Second \/ Third) /\ Untroubled => Quiet) /\ Deserved
  BY DEF GoodInv
<1>2. faulted \subseteq faulted' /\ Scenarios' = Scenarios
  BY Steps DEF PlaceInv, Inside, Onward, Passed, Failed, Finished, Scenarios, Suite
<1> SUFFICES ASSUME NEW i \in Scenarios, verdict'[i] = "fail"
             PROVE  \E j \in RunOf(i) : j <= i /\ j \in faulted'
  BY <1>2 DEF Deserved
<1>3. CASE verdict[i] = "fail"
  BY <1>1, <1>2, <1>3 DEF Deserved
<1>4. CASE verdict[i] # "fail"
  <2>1. InBody /\ (Passed \/ Failed) /\ i = at
    <3>1. verdict' # verdict
      BY <1>4
    <3>2. InBody /\ (Passed \/ Failed)
      BY <3>1, Steps DEF PlaceInv, Inside, Onward
    <3>3. \E v : verdict' = [verdict EXCEPT ![at] = v]
      BY <3>2 DEF Passed, Failed, Finished
    <3> QED
      BY <1>4, <3>2, <3>3 DEF PlaceInv, ScriptTypeOK
  <2>2. Failed
    <3>1. verdict \in [Scenarios -> {"todo", "pass", "fail"}]
      BY DEF PlaceInv, ScriptTypeOK
    <3> QED
      BY <2>1, <3>1 DEF Passed, Finished
  <2>3. at \in 1..7
    BY <2>1, Where DEF PlaceInv
  <2>4. CASE at = 4
    <3>1. Inside \/ Passed
      BY <2>1, <2>4, PauseEnds
    <3>2. Passed => verdict'[i] = "pass"
      BY <2>1 DEF Passed, Finished, PlaceInv, ScriptTypeOK
    <3> QED
      BY <1>4, <3>1, <3>2 DEF Inside
  <2>5. CASE First \/ Second \/ Third
    <3>1. at \in RunOf(at) /\ RunOf(at) \subseteq Nat
      BY <2>3, <2>5 DEF RunOf, First, Second, Third
    <3>2. CASE Untroubled
      <4>1. at \in faulted'
        BY <1>1, <2>1, <2>2, <2>5, <3>2, OnlyFaults
      <4> QED
        BY <2>1, <2>3, <3>1, <4>1
    <3>3. CASE ~Untroubled
      <4>1. PICK j \in RunOf(at) : j < at /\ j \in faulted
        BY <3>3 DEF Untroubled
      <4>2. j <= at
        BY <2>3, <3>1, <4>1
      <4> QED
        BY <1>2, <2>1, <4>1, <4>2
    <3> QED
      BY <3>2, <3>3
  <2> QED
    BY <2>1, <2>4, <2>5, Where DEF PlaceInv
<1> QED
  BY <1>3, <1>4

LEMMA GoodInvStep ==
  ASSUME Reruns, TwoPools, PlaceInv, DirectoryInv, ContractInv, GoodInv, Next
  PROVE  GoodInv'
<1>1. makes' = makes
  BY ContractStep
<1> SUFFICES ASSUME makes = Checks
             PROVE  Refused' /\ (InBody' /\ (First \/ Second \/ Third)' /\ Untroubled' => Quiet') /\ Deserved'
  BY <1>1 DEF GoodInv
<1>2. Refused'
  BY RefusedStep DEF GoodInv
<1>3. Deserved'
  BY DeservedStep
<1>4. InBody' /\ (First \/ Second \/ Third)' /\ Untroubled' => Quiet'
  BY QuietStep
<1> QED
  BY <1>2, <1>3, <1>4

-----------------------------------------------------------------------------
(* The theorems.                                                           *)

LEMMA Beginning ==
  ASSUME Reruns, Init
  PROVE  PlaceInv /\ DirectoryInv /\ ContractInv /\ ShownInv /\ GoodInv
<1>1. /\ suite \in DOMAIN Suites /\ at = 1 /\ step = 1 /\ mid = "ready"
      /\ verdict = [i \in Scenarios |-> "todo"] /\ faulted = {}
      /\ directory = <<>> /\ deployments = {} /\ units = {} /\ flying = <<>>
      /\ makes \subseteq Checks
  BY DEF Init, ScriptInit
<1>2. Len(Suite) \in {3, 7}
  BY <1>1, SuiteShape
<1>3. 1 \in Scenarios /\ Len(Suite[1]) = 6
  <2>1. PICK n \in {3, 7} : n = Len(Suite)
    BY <1>2
  <2>2. 1 \in Scenarios
    BY <2>1 DEF Scenarios
  <2> QED
    BY <1>1, <2>2, SuiteShape, StepsOfS051
<1>4. ScriptTypeOK
  <2>1. PICK n \in {3, 7} : n = Len(Suite)
    BY <1>2
  <2>2. at \in 1..(Len(Suite) + 1)
    BY <1>1, <2>1
  <2> QED
    BY <1>1, <1>3, <2>2 DEF ScriptTypeOK
<1>5. PlaceInv
  BY <1>1, <1>4 DEF PlaceInv
<1>6. DirectoryInv
  BY <1>1 DEF DirectoryInv, FirstInv
<1>7. ContractInv
  BY <1>1 DEF ContractInv
<1>8. ShownInv
  <2>1. {1, 2, 3} \subseteq Scenarios
    <3>1. PICK n \in {3, 7} : n = Len(Suite)
      BY <1>2
    <3> QED
      BY <3>1 DEF Scenarios
  <2> QED
    BY <1>1, <2>1 DEF ShownInv
<1>9. GoodInv
  BY <1>1, Directories DEF GoodInv, Refused, Quiet, Deserved, Second, Third
<1> QED
  BY <1>5, <1>6, <1>7, <1>8, <1>9

\* Where the suite is, what the directory and the contracts hold, and what the first run
\* has shown: together they are inductive.
LEMMA SealingInvariant ==
  ASSUME Reruns
  PROVE  Spec => [](PlaceInv /\ DirectoryInv /\ ContractInv /\ ShownInv)
<1>1. Init => PlaceInv /\ DirectoryInv /\ ContractInv /\ ShownInv
  BY Beginning
<1>2. PlaceInv /\ DirectoryInv /\ ContractInv /\ ShownInv /\ [Next]_vars
        => (PlaceInv /\ DirectoryInv /\ ContractInv /\ ShownInv)'
  <2> SUFFICES ASSUME PlaceInv, DirectoryInv, ContractInv, ShownInv, [Next]_vars
               PROVE  (PlaceInv /\ DirectoryInv /\ ContractInv /\ ShownInv)'
    OBVIOUS
  <2>1. CASE Next
    BY <2>1, PlaceInvStep, DirectoryInvStep, ContractInvStep, ShownStep
  <2>2. CASE UNCHANGED vars
    BY <2>2 DEF vars, sealingVars, scriptVars, PlaceInv, DirectoryInv, ContractInv, ShownInv,
       ScriptTypeOK, Scenarios, Suite, InBody, Now, First, FirstInv, Signs
  <2> QED
    BY <2>1, <2>2
<1> QED
  BY <1>1, <1>2, PTL DEF Spec

\* Type correctness of the three scenarios on a devnet: whatever checks the contracts
\* lack and whatever faults hit, the scripts stay inside their steps, the directory grows to
\* three entries at most, one enclave is registered and every unit is one that a body sent.
THEOREM SealingTypeAlways ==
  ASSUME Reruns
  PROVE  Spec => []TypeOK
<1>1. PlaceInv /\ DirectoryInv /\ ContractInv /\ ShownInv => TypeOK
  BY TypesHold
<1> QED
  BY <1>1, SealingInvariant, PTL

\* A suite that ends green on a new devnet has shown that the contracts check the
\* deployment, the totals and the context, whatever faults have hit it, and, unless one has
\* hit an S051, that some committee must have signed an entry: s051:115-124 takes any error
\* of send for the refusal of the forgery.
THEOREM GreenRunsMeanChecked ==
  ASSUME Reruns
  PROVE  Spec => []GreenMeansChecked
<1>1. PlaceInv /\ DirectoryInv /\ ContractInv /\ ShownInv => GreenMeansChecked
  <2> SUFFICES ASSUME PlaceInv, ShownInv, Green PROVE GreenMeansChecked
    BY DEF GreenMeansChecked
  <2>1. PICK n \in {3, 7} : n = Len(Suite)
    BY SuiteShape DEF PlaceInv, ScriptTypeOK
  <2>2. verdict[1] = "pass" /\ verdict[2] = "pass" /\ verdict[3] = "pass"
    BY <2>1 DEF Green, Scenarios
  <2>3. 1 \in faulted => Suite[1] = S051
    BY <2>1, SuiteShape DEF PlaceInv, ScriptTypeOK, Scenarios
  <2> QED
    BY <2>2, <2>3 DEF ShownInv, Signs, GreenMeansChecked
<1> QED
  BY <1>1, SealingInvariant, PTL

\* On contracts that make every check a scenario fails only if a fault has hit it or one
\* before it in its own run, whatever an earlier run has left at whatever step it broke off.
THEOREM RerunnableAlways ==
  ASSUME Reruns, TwoPools
  PROVE  Spec => []Rerunnable
<1> DEFINE Inv == PlaceInv /\ DirectoryInv /\ ContractInv /\ GoodInv
<1>1. Init => Inv
  BY Beginning
<1>2. Inv /\ [Next]_vars => Inv'
  <2> SUFFICES ASSUME Inv, [Next]_vars PROVE Inv'
    OBVIOUS
  <2>1. CASE Next
    BY <2>1, PlaceInvStep, DirectoryInvStep, ContractInvStep, GoodInvStep
  <2>2. CASE UNCHANGED vars
    BY <2>2 DEF vars, sealingVars, scriptVars, PlaceInv, DirectoryInv, ContractInv, GoodInv,
       Refused, Quiet, Deserved, Untroubled,
       ScriptTypeOK, Scenarios, Suite, InBody, Now, First, Second, Third, FirstInv
  <2> QED
    BY <2>1, <2>2
<1>3. Inv => Rerunnable
  BY DEF GoodInv, Deserved, Rerunnable
<1> QED
  BY <1>1, <1>2, <1>3, PTL DEF Spec

=============================================================================
