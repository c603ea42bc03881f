----------------------------- MODULE UsersProofs -----------------------------
(***************************************************************************)
(* What a run of the suite over the users lane shows, for every suite      *)
(* whose bodies keep to BodiesAssumption, every set of keys, every window  *)
(* and whatever a node lacks; blocks and epochs come when they like.       *)
(***************************************************************************)
EXTENDS UsersScenarios, InductionProofs, TLAPS

-----------------------------------------------------------------------------
(* The inductive invariant, in named parts.                                *)

\* The nonces of a signer's envelopes in the pool follow its account nonce, without a gap
\* and each once.
Numbered(T, m) ==
  /\ IsFiniteSet(T)
  /\ \A e, f \in T : e.nonce = f.nonce => e = f
  /\ {e.nonce : e \in T} = m..(m + Cardinality(T) - 1)

NonceInv == \A s \in Signers : Numbered(Pooled(s), mined[s])

\* The difficulties have not come far from the one at the start.
DifficultyInv ==
  /\ rolls = 0 => (current >= Base /\ previous >= Base)
  /\ (rolls = 1 /\ Base >= 4) => (current >= 2 /\ previous >= 2)

\* After one epoch at most, a difficulty that was the current one is accepted still.
Kept(w) == rolls <= 1 => (w = current \/ (w = previous /\ rolls > 0))

\* A quarter of the lower of the two difficulties that a body has read.
Quarter(floor) == IF floor < 4 THEN 1 ELSE floor \div 4

MidInv ==
  /\ mid # "ready" => InBody /\ Submits(Now)
  /\ mid = "counted" => body.nonce = PendingNonce(Now.by)
  /\ \A i \in Scenarios : i >= at => verdict[i] = "todo"

\* The block of an envelope under way.
BlockInv ==
  /\ Submits(Now) /\ mid # "ready" =>
       IF Now.block = "head" THEN (body.block <= head /\ head <= body.block + Slack)
                             ELSE (body.block = body.kept)
  /\ Now.op = "age" \/ (Submits(Now) /\ Now.block = "aged") =>
       (body.kept <= head /\ head <= body.kept + Age + Slack)
  /\ Submits(Now) /\ Now.block = "aged" => (body.kept + Age <= head)
  /\ Submits(Now) /\ Now.block = "old" => (body.kept + Window < head)

\* The difficulty it is solved at.
WorkInv ==
  /\ Submits(Now) /\ mid # "ready" =>
       /\ Now.work = "fetched" => (body.work > 0) /\ Kept(body.work)
       /\ Now.work = "seen" => body.work = body.seen.difficulty
       /\ Now.work = "under" => body.work = Quarter(body.seen.floor)
  /\ Now.op = "advance" => /\ body.seen.difficulty > 0
                           /\ rolls = 0 => body.seen.difficulty = current
  /\ Submits(Now) /\ Now.work = "seen" /\ rolls = 0 =>
       (current = 2 * body.seen.difficulty /\ previous = body.seen.difficulty)
  /\ Submits(Now) /\ Now.work = "under" =>
       /\ rolls = 0 => body.seen.floor = Lesser(current, previous)
       /\ (rolls = 1 /\ Base >= 4) => (Quarter(body.seen.floor) < Lesser(current, previous))

\* The envelope a body waits for, and the one it has captured.
SentInv ==
  Now.op = "receipt" =>
    body.sent.signer = Suite[at][step - 1].by /\ body.sent.gated = Suite[at][step - 1].gated

CaptureInv ==
  (\E j \in 1..(step - 1) : Captures(Suite[at][j])) =>
    \E j \in 1..(step - 1) :
      /\ Captures(Suite[at][j])
      /\ body.captured.signer = Suite[at][j].by
      /\ body.captured.solution.nonce = body.captured.nonce
      /\ body.captured.nonce < PendingNonce(body.captured.signer)

ReplayInv ==
  Now.op = "replay" =>
    LET e == body.captured IN
    /\ e.scheme = "Hashcash" /\ ~e.gated
    /\ e.solution.signer = e.signer /\ e.solution.block = e.block
    /\ e.solution.work > 0 /\ Kept(e.solution.work)
    /\ e.block <= head /\ head <= e.block + Window
    /\ e \in pool \/ e.nonce < mined[e.signer]

PlaceInv == InBody => BlockInv /\ WorkInv /\ SentInv /\ CaptureInv /\ ReplayInv

UInv ==
  /\ TypeOK /\ IsFiniteSet(pool)
  /\ NonceInv /\ DifficultyInv /\ MidInv /\ PlaceInv

-----------------------------------------------------------------------------
(* What a step shows that has gone as its body expected.                   *)

Shown(s) ==
  /\ Submits(s) /\ s.want = "admitted" /\ s.by \notin AttesterKeys => "open" \in node
  /\ Submits(s) /\ s.want = "admitted" /\ s.block = "aged" => "aged" \in node
  /\ Submits(s) /\ s.want = "admitted" /\ s.work = "seen" /\ rolls = 0 /\ "proof" \in node
       /\ "threshold" \in node => "previous" \in node
  /\ s.op = "receipt" /\ s.want = "success" => "execute" \in node
  /\ s.op = "replay" => "nullifier" \in node
  /\ rolls = 0 /\ "aged" \in node => \A b \in AttesterKeys :
       /\ s = [Plain(b) EXCEPT !.work = "under", !.want = "rejected"] => {"proof", "threshold"} \subseteq node
       /\ s = [Plain(b) EXCEPT !.tamper = "flip", !.want = "rejected"] => "proof" \in node
       /\ s = [Plain(b) EXCEPT !.scheme = "MinRoot", !.want = "rejected"] => "scheme" \in node
       /\ s = [Plain(b) EXCEPT !.block = "old", !.want = "rejected"] => "fresh" \in node

\* A body that takes no Err for good has done all its steps when it has passed.
Gone(i, k) ==
  \/ i = at /\ k < step
  \/ i < at /\ verdict[i] = "pass" /\ \A j \in 1..Len(Suite[i]) : Suite[i][j].op = "submit" => Suite[i][j].want # "unminted"

ShowInv ==
  \A i \in Scenarios : \A k \in 1..Len(Suite[i]) : Gone(i, k) => Shown(Suite[i][k])

-----------------------------------------------------------------------------
(* Places of a suite.                                                      *)

SuiteIs == suite \in DOMAIN Suites

LEMMA SuiteShape ==
  ASSUME SuiteIs
  PROVE  /\ Len(Suite) \in Nat /\ DOMAIN Suite = 1..Len(Suite)
         /\ \A i \in Scenarios : /\ Len(Suite[i]) \in Nat \ {0}
                                 /\ DOMAIN Suite[i] = 1..Len(Suite[i])
         /\ \A i \in Scenarios : \A k \in 1..Len(Suite[i]) :
              KeepsTo(Suite[i], k) /\ Suite[i][k].op \in Ops
  BY SuiteAssumption, StepAssumption, BodiesAssumption
     DEF SuiteIs, Suite, Scenarios, IsSequence, StepsAmong

\* A step is over: the body goes on, or it has ended.
Onward ==
  /\ step < Len(Suite[at]) /\ at' = at /\ step' = step + 1 /\ mid' = "ready"
  /\ UNCHANGED <<suite, verdict>>

Over(o) ==
  /\ at' = at + 1 /\ step' = 1 /\ mid' = "ready"
  /\ verdict' = [verdict EXCEPT ![at] = o]
  /\ UNCHANGED suite

LEMMA StepEnds ==
  ASSUME Advance \/ Pass \/ Fail
  PROVE  /\ Onward \/ Over("pass") \/ Over("fail")
         /\ Advance /\ ~Onward => Over("pass") /\ ~(step < Len(Suite[at]))
  BY DEF Advance, Pass, Fail, End, Onward, Over

LEMMA Ends ==
  ASSUME ScriptTypeOK, MidInv, InBody, Onward \/ Over("pass") \/ Over("fail"),
         faulted' = faulted \/ faulted' = faulted \cup {at}
  PROVE  ScriptTypeOK' /\ MidInv' /\ mid' = "ready"
<1>1. /\ suite \in DOMAIN Suites /\ at \in 1..Len(Suite) /\ step \in 1..Len(Suite[at])
      /\ verdict \in [1..Len(Suite) -> {"todo", "pass", "fail"}] /\ faulted \subseteq 1..Len(Suite)
      /\ Len(Suite) \in Nat /\ \A i \in 1..Len(Suite) : Len(Suite[i]) \in Nat \ {0}
  BY SuiteShape DEF ScriptTypeOK, SuiteIs, InBody, Scenarios
<1>2. suite' = suite /\ Suite' = Suite /\ mid' = "ready" /\ faulted' \subseteq 1..Len(Suite)
  BY <1>1 DEF Onward, Over, Suite
<1>3. \A i \in 1..Len(Suite) : i >= at => verdict[i] = "todo"
  BY DEF MidInv, Scenarios
<1>4. CASE Onward
  <2>1. at' = at /\ step' = step + 1 /\ step + 1 \in 1..Len(Suite[at]) /\ verdict' = verdict
    BY <1>1, <1>4 DEF Onward
  <2> QED
    BY <1>1, <1>2, <1>3, <2>1 DEF ScriptTypeOK, MidInv, Scenarios
<1>5. ASSUME NEW o \in {"pass", "fail"}, Over(o) PROVE ScriptTypeOK' /\ MidInv' /\ mid' = "ready"
  <2>1. /\ at' = at + 1 /\ step' = 1 /\ verdict' = [verdict EXCEPT ![at] = o]
        /\ at' \in 1..(Len(Suite) + 1)
        /\ verdict' \in [1..Len(Suite) -> {"todo", "pass", "fail"}]
    BY <1>1, <1>5 DEF Over
  <2>2. at' \in 1..Len(Suite) => step' \in 1..Len(Suite[at'])
    BY <1>1, <2>1
  <2>3. \A i \in 1..Len(Suite) : i >= at' => verdict'[i] = "todo"
    BY <1>1, <1>3, <2>1
  <2> QED
    BY <1>2, <2>1, <2>2, <2>3 DEF ScriptTypeOK, MidInv, Scenarios
<1> QED
  BY <1>4, <1>5

\* What the step that runs, and the one behind it, keep to.
LEMMA NowKeeps ==
  ASSUME ScriptTypeOK, InBody
  PROVE  /\ Now.op \in Ops
         /\ Submits(Now) => IsSubmission(Now)
         /\ Now.op = "read" => Now.least \in 0..2
         /\ Now.op = "replay" => Now.want = "NullifierAlreadyUsed"
  BY SuiteShape DEF ScriptTypeOK, SuiteIs, InBody, Now, KeepsTo

LEMMA NextKeeps ==
  ASSUME ScriptTypeOK, InBody, Onward
  PROVE  /\ InBody' /\ Suite' = Suite /\ Suite'[at'][step' - 1] = Now
         /\ Submits(Now') =>
              /\ IsSubmission(Now')
              /\ Now'.work = "seen" => Now.op = "advance"
              /\ Now'.work = "under" => Now.op = "read" /\ Now.least >= 2
              /\ Now'.block = "aged" => Now.op = "age"
              /\ Now'.block = "old" => Now.op = "pinOld"
         /\ Now'.op = "advance" => Now.op = "read"
         /\ Now'.op = "age" => Now.op = "pin"
         /\ Now'.op = "replay" => Captures(Now) /\ Now.work = "fetched"
         /\ Now'.op = "receipt" => Submits(Now)
<1>1. step + 1 \in 1..Len(Suite[at]) /\ (step + 1) - 1 = step /\ step + 1 > 1
  BY SuiteShape DEF ScriptTypeOK, SuiteIs, InBody, Onward
<1>2. KeepsTo(Suite[at], step + 1)
  BY <1>1, SuiteShape DEF ScriptTypeOK, SuiteIs, InBody
<1>3. Suite' = Suite /\ at' = at /\ step' = step + 1 /\ Now' = Suite[at][step + 1] /\ Now = Suite[at][step]
  BY DEF Onward, Suite, Now
<1>4. InBody'
  BY <1>3 DEF InBody, Scenarios
<1>5. Suite'[at'][step' - 1] = Now
  BY <1>1, <1>3
<1> QED
  BY <1>1, <1>2, <1>3, <1>4, <1>5 DEF KeepsTo, Submits

\* At the first step of a body nothing has been read, pinned or sent.
LEMMA FirstPlace ==
  ASSUME ScriptTypeOK', step' = 1, mid' = "ready"
  PROVE  PlaceInv'
<1> SUFFICES ASSUME InBody' PROVE (BlockInv /\ WorkInv /\ SentInv /\ CaptureInv /\ ReplayInv)'
  BY DEF PlaceInv
<1>1. /\ suite' \in DOMAIN Suites /\ at' \in 1..Len(Suites[suite'])
      /\ 1 \in 1..Len(Suites[suite'][at'])
      /\ Now' = Suites[suite'][at'][1]
  BY DEF ScriptTypeOK, InBody, Scenarios, Suite, Now
<1>2. KeepsTo(Suites[suite'][at'], 1)
  BY <1>1, SuiteAssumption, BodiesAssumption DEF IsSequence
<1>3. /\ Submits(Now') => Now'.work = "fetched" /\ Now'.block = "head"
      /\ Now'.op \notin {"advance", "age", "replay", "receipt"}
  BY <1>1, <1>2 DEF KeepsTo, IsSubmission, Submits
<1>4. 1..(step' - 1) = {}
  OBVIOUS
<1> QED
  BY <1>3, <1>4 DEF BlockInv, WorkInv, SentInv, CaptureInv, ReplayInv, Submits

-----------------------------------------------------------------------------
(* Nonces in the pool.                                                     *)

NoncesOf(T) == {e.nonce : e \in T}

LEMMA AsManyNonces ==
  ASSUME NEW T, IsFiniteSet(T), \A e, f \in T : e.nonce = f.nonce => e = f
  PROVE  Cardinality(NoncesOf(T)) = Cardinality(T) /\ IsFiniteSet(NoncesOf(T))
<1> DEFINE b == [e \in T |-> e.nonce]
<1>1. b \in Bijection(T, NoncesOf(T))
  BY DEF Bijection, Injection, Surjection, IsInjective, NoncesOf
<1>2. ExistsBijection(T, NoncesOf(T))
  BY <1>1 DEF ExistsBijection
<1> QED
  BY <1>2, FS_Bijection

\* Some of them, and with each those before it, are the first ones.
LEMMA FirstNonces ==
  ASSUME NEW m \in Nat, NEW T, Numbered(T, m), NEW U \in SUBSET T,
         \A e \in U : \A f \in T : f.nonce < e.nonce => f \in U
  PROVE  IsFiniteSet(U) /\ Cardinality(U) \in Nat /\ NoncesOf(U) = m..(m + Cardinality(U) - 1)
<1>1. IsFiniteSet(T) /\ Cardinality(T) \in Nat /\ IsFiniteSet(U) /\ Cardinality(U) \in Nat
  BY FS_Subset, FS_CardinalityType DEF Numbered
<1>2. /\ NoncesOf(T) = m..(m + Cardinality(T) - 1)
      /\ \A e, f \in T : e.nonce = f.nonce => e = f
  BY DEF Numbered, NoncesOf
<1>3. Cardinality(NoncesOf(U)) = Cardinality(U) /\ IsFiniteSet(NoncesOf(U))
  BY <1>1, <1>2, AsManyNonces
<1>4. NoncesOf(U) \subseteq NoncesOf(T) /\ NoncesOf(T) \subseteq Nat
  <2>1. m..(m + Cardinality(T) - 1) \subseteq Nat
    BY <1>1
  <2> QED
    BY <1>2, <2>1 DEF NoncesOf
<1>5. CASE U = {}
  <2>1. Cardinality(U) = 0
    BY <1>5, FS_EmptySet
  <2>2. m..(m + 0 - 1) = {} /\ NoncesOf(U) = {}
    BY <1>5 DEF NoncesOf
  <2> QED
    BY <1>1, <2>1, <2>2
<1>6. CASE U # {}
  <2> DEFINE last == Max(NoncesOf(U))
  <2>1. NoncesOf(U) # {} /\ NoncesOf(U) \subseteq Nat
    BY <1>4, <1>6 DEF NoncesOf
  <2>2. last \in NoncesOf(U) /\ \A n \in NoncesOf(U) : n <= last
    BY <1>3, <2>1, MaxOfFinite
  <2> HIDE DEF last
  <2>3. last \in m..(m + Cardinality(T) - 1)
    BY <1>2, <1>4, <2>2
  <2>4. PICK e \in U : e.nonce = last
    BY <2>2 DEF NoncesOf
  <2>5. ASSUME NEW n \in m..last PROVE n \in NoncesOf(U)
    <3>1. n \in NoncesOf(T)
      BY <1>1, <1>2, <2>3
    <3>2. PICK f \in T : f.nonce = n
      BY <3>1 DEF NoncesOf
    <3>3. f \in U
      <4>1. CASE n < last
        BY <2>4, <3>2, <4>1
      <4>2. CASE n = last
        BY <1>2, <2>4, <3>2, <4>2
      <4> QED
        BY <1>1, <2>3, <4>1, <4>2
    <3> QED
      BY <3>2, <3>3 DEF NoncesOf
  <2>6. ASSUME NEW n \in NoncesOf(U) PROVE n \in m..last
    BY <1>1, <1>2, <1>4, <2>2, <2>3
  <2>7. NoncesOf(U) = m..last
    BY <2>5, <2>6
  <2>8. last \in Int /\ m \in Int /\ m <= last
    BY <1>1, <2>3
  <2>9. Cardinality(m..last) = last - m + 1
    BY <2>8, FS_Interval
  <2>10. last = m + Cardinality(U) - 1
    BY <1>1, <1>3, <2>7, <2>8, <2>9
  <2> QED
    BY <1>1, <2>7, <2>10
<1> QED
  BY <1>5, <1>6

\* A block takes them, and the account nonce is the next one.
LEMMA NoncesTaken ==
  ASSUME NEW m \in Nat, NEW T, Numbered(T, m), NEW U \in SUBSET T,
         \A e \in U : \A f \in T : f.nonce < e.nonce => f \in U
  PROVE  /\ Cardinality(U) \in Nat
         /\ Numbered(T \ U, m + Cardinality(U))
         /\ \A e \in U : e.nonce < m + Cardinality(U)
         /\ m + Cardinality(U) + Cardinality(T \ U) = m + Cardinality(T)
<1>1. IsFiniteSet(T) /\ Cardinality(T) \in Nat
  BY FS_CardinalityType DEF Numbered
<1>2. IsFiniteSet(U) /\ Cardinality(U) \in Nat /\ NoncesOf(U) = m..(m + Cardinality(U) - 1)
  BY FirstNonces
<1>3. IsFiniteSet(T \ U) /\ Cardinality(T \ U) = Cardinality(T) - Cardinality(U)
  <2>1. T \cap U = U
    OBVIOUS
  <2> QED
    BY <1>1, <2>1, FS_Difference
<1>4. /\ NoncesOf(T) = m..(m + Cardinality(T) - 1)
      /\ \A e, f \in T : e.nonce = f.nonce => e = f
  BY DEF Numbered, NoncesOf
<1>5. NoncesOf(T \ U) = NoncesOf(T) \ NoncesOf(U)
  BY <1>4 DEF NoncesOf
<1>6. Cardinality(U) <= Cardinality(T)
  BY <1>1, FS_Subset
<1>7. NoncesOf(T \ U) = (m + Cardinality(U))..(m + Cardinality(U) + Cardinality(T \ U) - 1)
  <2> DEFINE t == Cardinality(T)
             u == Cardinality(U)
  <2>1. t \in Nat /\ u \in Nat /\ u <= t /\ Cardinality(T \ U) = t - u
    BY <1>1, <1>2, <1>3, <1>6
  <2> HIDE DEF t, u
  <2>2. (m..(m + t - 1)) \ (m..(m + u - 1)) = (m + u)..(m + u + (t - u) - 1)
    BY <2>1
  <2> QED
    BY <1>2, <1>4, <1>5, <2>1, <2>2 DEF t, u
<1>8. \A e \in U : e.nonce \in NoncesOf(U)
  BY DEF NoncesOf
<1>9. \A e \in U : e.nonce < m + Cardinality(U)
  BY <1>2, <1>8
<1>10. Numbered(T \ U, m + Cardinality(U))
  BY <1>3, <1>4, <1>7 DEF Numbered, NoncesOf
<1> QED
  BY <1>1, <1>2, <1>3, <1>9, <1>10

\* One is added at the end.
LEMMA NonceAdded ==
  ASSUME NEW m \in Nat, NEW T, Numbered(T, m), NEW e, e.nonce = m + Cardinality(T)
  PROVE  /\ Numbered(T \cup {e}, m)
         /\ Cardinality(T) \in Nat /\ Cardinality(T \cup {e}) = Cardinality(T) + 1
<1>1. IsFiniteSet(T) /\ Cardinality(T) \in Nat
  BY FS_CardinalityType DEF Numbered
<1>2. /\ NoncesOf(T) = m..(m + Cardinality(T) - 1)
      /\ \A f, g \in T : f.nonce = g.nonce => f = g
  BY DEF Numbered, NoncesOf
<1>3. \A f \in T : f.nonce \in NoncesOf(T)
  BY DEF NoncesOf
<1>4. e \notin T /\ \A f \in T : f.nonce # e.nonce
  BY <1>1, <1>2, <1>3
<1>5. IsFiniteSet(T \cup {e}) /\ Cardinality(T \cup {e}) = Cardinality(T) + 1
  BY <1>1, <1>4, FS_AddElement
<1>6. NoncesOf(T \cup {e}) = NoncesOf(T) \cup {m + Cardinality(T)}
  BY DEF NoncesOf
<1>7. NoncesOf(T \cup {e}) = m..(m + Cardinality(T \cup {e}) - 1)
  <2> DEFINE t == Cardinality(T)
  <2>1. t \in Nat /\ Cardinality(T \cup {e}) = t + 1
    BY <1>1, <1>5
  <2> HIDE DEF t
  <2>2. (m..(m + t - 1)) \cup {m + t} = m..(m + (t + 1) - 1)
    BY <2>1
  <2> QED
    BY <1>2, <1>6, <2>1, <2>2 DEF t
<1> QED
  BY <1>1, <1>2, <1>4, <1>5, <1>7 DEF Numbered, NoncesOf

\* What becomes of the pool: nobody's pending nonce falls, and what is in it stays until the
\* account nonce has passed it.
PoolKeeps ==
  /\ IsFiniteSet(pool') /\ NonceInv'
  /\ \A s \in Signers : PendingNonce(s)' >= PendingNonce(s)
  /\ \A e \in Envelope :
       e \in pool \/ e.nonce < mined[e.signer] => e \in pool' \/ e.nonce < mined'[e.signer]

PoolTypes == LaneTypeOK /\ IsFiniteSet(pool) /\ NonceInv

LEMMA PendingIsNat ==
  ASSUME PoolTypes, NEW s \in Signers
  PROVE  /\ Cardinality(Pooled(s)) \in Nat /\ mined[s] \in Nat /\ PendingNonce(s) \in Nat
         /\ PendingNonce(s) = mined[s] + Cardinality(Pooled(s))
         /\ \A e \in Pooled(s) : mined[s] <= e.nonce /\ e.nonce < PendingNonce(s)
<1>1. Numbered(Pooled(s), mined[s]) /\ mined[s] \in Nat
  BY DEF PoolTypes, NonceInv, LaneTypeOK
<1>2. Cardinality(Pooled(s)) \in Nat
  BY <1>1, FS_CardinalityType DEF Numbered
<1>3. NoncesOf(Pooled(s)) = mined[s]..(mined[s] + Cardinality(Pooled(s)) - 1)
  BY <1>1 DEF Numbered, NoncesOf
<1>4. \A e \in Pooled(s) : e.nonce \in NoncesOf(Pooled(s))
  BY DEF NoncesOf
<1> QED
  BY <1>1, <1>2, <1>3, <1>4 DEF PendingNonce

\* An envelope under the next nonce enters.
LEMMA AdmitKeeps ==
  ASSUME PoolTypes, NEW e \in Envelope, e.nonce = PendingNonce(e.signer), Admit(e), UNCHANGED mined
  PROVE  PoolKeeps /\ e \in pool' /\ e.nonce < PendingNonce(e.signer)'
<1>1. e.signer \in Signers /\ pool' = pool \cup {e}
  BY DEF Envelope, Admit
<1>2. ASSUME NEW s \in Signers
      PROVE  /\ Numbered(Pooled(s)', mined'[s]) /\ PendingNonce(s)' >= PendingNonce(s)
             /\ s = e.signer => PendingNonce(s) < PendingNonce(s)'
  <2>1. Numbered(Pooled(s), mined[s]) /\ mined[s] \in Nat /\ mined' = mined
    BY DEF PoolTypes, NonceInv, LaneTypeOK
  <2>2. CASE s = e.signer
    <3>1. Pooled(s)' = Pooled(s) \cup {e}
      BY <1>1, <2>2 DEF Pooled
    <3>2. e.nonce = mined[s] + Cardinality(Pooled(s))
      BY <2>2 DEF PendingNonce
    <3>3. /\ Numbered(Pooled(s) \cup {e}, mined[s]) /\ Cardinality(Pooled(s)) \in Nat
          /\ Cardinality(Pooled(s) \cup {e}) = Cardinality(Pooled(s)) + 1
      BY <2>1, <3>2, NonceAdded
    <3>4. PendingNonce(s)' = PendingNonce(s) + 1 /\ PendingNonce(s) \in Nat
      BY <2>1, <3>1, <3>3 DEF PendingNonce
    <3> QED
      BY <2>1, <3>1, <3>3, <3>4
  <2>3. CASE s # e.signer
    <3>1. Pooled(s)' = Pooled(s)
      BY <1>1, <2>3 DEF Pooled
    <3>2. PendingNonce(s)' = PendingNonce(s) /\ PendingNonce(s) \in Nat
      BY <2>1, <3>1, PendingIsNat DEF PendingNonce
    <3> QED
      BY <2>1, <2>3, <3>1, <3>2
  <2> QED
    BY <2>2, <2>3
<1>3. IsFiniteSet(pool')
  BY <1>1, FS_AddElement DEF PoolTypes
<1>4. NonceInv'
  BY <1>2 DEF NonceInv
<1>5. \A f \in Envelope : f \in pool \/ f.nonce < mined[f.signer] => f \in pool' \/ f.nonce < mined'[f.signer]
  BY <1>1
<1>6. e.nonce < PendingNonce(e.signer)'
  BY <1>1, <1>2
<1> QED
  BY <1>1, <1>2, <1>3, <1>4, <1>5, <1>6 DEF PoolKeeps

\* A block takes envelopes in the order of their nonces.
LEMMA MineKeeps ==
  ASSUME PoolTypes, Mine
  PROVE  /\ PoolKeeps /\ LaneTypeOK'
         /\ \A s \in Signers : PendingNonce(s)' = PendingNonce(s)
<1>1. PICK taken \in SUBSET pool :
        /\ \A e \in taken : \A f \in Pooled(e.signer) : f.nonce < e.nonce => f \in taken
        /\ pool' = pool \ taken
        /\ mined' = [s \in Signers |-> mined[s] + Cardinality(taken \cap Pooled(s))]
        /\ landed' = landed \cup {e.signer : e \in {f \in taken : f.gated /\ Succeeds(f)}}
  BY DEF Mine
<1>2. ASSUME NEW s \in Signers
      PROVE  /\ mined'[s] \in Nat
             /\ Numbered(Pooled(s)', mined'[s]) /\ PendingNonce(s)' = PendingNonce(s)
             /\ mined[s] <= mined'[s]
             /\ \A e \in taken \cap Pooled(s) : e.nonce < mined'[s]
  <2> DEFINE T == Pooled(s)
             U == taken \cap Pooled(s)
  <2>1. Numbered(T, mined[s]) /\ mined[s] \in Nat /\ U \in SUBSET T
    BY DEF PoolTypes, NonceInv, LaneTypeOK
  <2>2. \A e \in U : \A f \in T : f.nonce < e.nonce => f \in U
    BY <1>1 DEF Pooled
  <2>3. Pooled(s)' = T \ U /\ mined'[s] = mined[s] + Cardinality(U)
    BY <1>1 DEF Pooled
  <2>4. /\ Cardinality(U) \in Nat
        /\ Numbered(T \ U, mined[s] + Cardinality(U))
        /\ \A e \in U : e.nonce < mined[s] + Cardinality(U)
        /\ mined[s] + Cardinality(U) + Cardinality(T \ U) = mined[s] + Cardinality(T)
    <3> HIDE DEF T, U
    <3> QED
      BY <2>1, <2>2, NoncesTaken
  <2>5. PendingNonce(s)' = PendingNonce(s)
    <3> HIDE DEF U
    <3> QED
      BY <2>3, <2>4 DEF PendingNonce
  <2>6. mined'[s] \in Nat /\ mined[s] <= mined'[s]
    <3> HIDE DEF U
    <3> QED
      BY <2>1, <2>3, <2>4
  <2>7. Numbered(Pooled(s)', mined'[s])
    BY <2>3, <2>4
  <2>8. \A e \in taken \cap Pooled(s) : e.nonce < mined'[s]
    BY <2>3, <2>4
  <2> QED
    BY <2>5, <2>6, <2>7, <2>8
<1>3. IsFiniteSet(pool')
  BY <1>1, FS_Difference DEF PoolTypes
<1>4. NonceInv'
  BY <1>2 DEF NonceInv
<1>5. ASSUME NEW e \in Envelope, e \in pool \/ e.nonce < mined[e.signer]
      PROVE  e \in pool' \/ e.nonce < mined'[e.signer]
  <2>1. e.signer \in Signers /\ e.nonce \in Nat
    BY DEF Envelope
  <2>2. CASE e \in taken
    <3>1. e \in taken \cap Pooled(e.signer)
      BY <1>1, <2>2 DEF Pooled
    <3> QED
      BY <1>2, <2>1, <3>1
  <2>3. CASE e \in pool /\ e \notin taken
    BY <1>1, <2>3
  <2>4. CASE e.nonce < mined[e.signer]
    <3>1. mined[e.signer] \in Nat
      BY <2>1 DEF PoolTypes, LaneTypeOK
    <3> QED
      BY <1>2, <2>1, <2>4, <3>1
  <2> QED
    BY <1>5, <2>2, <2>3, <2>4
<1>6. PoolKeeps
  <2>1. \A s \in Signers : PendingNonce(s)' >= PendingNonce(s)
    BY <1>2, PendingIsNat
  <2> QED
    BY <1>3, <1>4, <1>5, <2>1 DEF PoolKeeps
<1>7. LaneTypeOK'
  <2>1. mined' \in [Signers -> Nat]
    BY <1>1, <1>2
  <2>2. landed' \subseteq Signers /\ pool' \subseteq Envelope
    BY <1>1 DEF PoolTypes, LaneTypeOK, Envelope
  <2>3. head' \in 0..MaxHead
    BY LaneAssumption DEF Mine, PoolTypes, LaneTypeOK
  <2> QED
    BY <2>1, <2>2, <2>3 DEF Mine, PoolTypes, LaneTypeOK
<1> QED
  BY <1>2, <1>6, <1>7

-----------------------------------------------------------------------------
(* The invariant, action by action.                                        *)

LEMMA FieldsOfBody ==
  ASSUME body \in Locals
  PROVE  /\ body.work \in Nat /\ body.block \in Nat /\ body.nonce \in Nat /\ body.kept \in Nat
         /\ body.seen.difficulty \in Nat /\ body.seen.floor \in Nat
         /\ body.sent \in Envelope /\ body.captured \in Envelope
  BY DEF Locals

LEMMA NoLocalsAreLocals == NoLocals \in Locals
<1>1. Zero \in Signers
  BY UsersAssumption, LaneAssumption
<1>2. NoEnvelope \in Envelope
  BY <1>1 DEF NoEnvelope, Envelope, Solution
<1> QED
  BY <1>2 DEF NoLocals, Locals

\* The envelope on the wire.
LEMMA OnTheWire ==
  ASSUME UInv, InBody, mid = "counted"
  PROVE  /\ Submits(Now) /\ IsSubmission(Now)
         /\ Built \in Envelope /\ Wire \in Envelope
         /\ Wire.signer = Now.by /\ Wire.nonce = PendingNonce(Now.by) /\ Wire.block = body.block
         /\ Wire.scheme = Now.scheme /\ Wire.gated = Now.gated
         /\ Now.tamper \notin {"flip", "splice"} => Wire = Built
         /\ Now.tamper = "flip" => Wire.solution.work = 0
         /\ Now.tamper = "splice" => Wire.solution = body.captured.solution
<1>1. Submits(Now) /\ body.nonce = PendingNonce(Now.by) /\ body \in Locals /\ ScriptTypeOK
  BY DEF UInv, MidInv, TypeOK
<1>2. IsSubmission(Now)
  BY <1>1, NowKeeps
<1>3. /\ body.work \in Nat /\ body.block \in Nat /\ body.nonce \in Nat
      /\ body.captured \in Envelope
  BY <1>1, FieldsOfBody
<1>4. Now.by \in Signers /\ Now.scheme \in {"Hashcash", "MinRoot"} /\ Now.gated \in BOOLEAN
  BY <1>2 DEF IsSubmission
<1>5. Built \in Envelope
  BY <1>3, <1>4 DEF Built, Envelope, Solution
<1>6. body.captured.solution \in Solution
  BY <1>3 DEF Envelope
<1>7. /\ Built.signer = Now.by /\ Built.nonce = body.nonce /\ Built.block = body.block
      /\ Built.scheme = Now.scheme /\ Built.gated = Now.gated
  BY DEF Built
<1>8. CASE Now.tamper = "flip"
  <2>1. Wire = [Built EXCEPT !.solution.work = 0]
    BY <1>8 DEF Wire
  <2>2. Wire = [Built EXCEPT !.solution = [Built.solution EXCEPT !.work = 0]]
    BY <2>1
  <2>3. Built.solution \in Solution
    BY <1>5 DEF Envelope
  <2>4. [Built.solution EXCEPT !.work = 0] \in Solution /\ [Built.solution EXCEPT !.work = 0].work = 0
    BY <2>3 DEF Solution
  <2>5. /\ Wire \in Envelope /\ Wire.solution.work = 0
        /\ Wire.signer = Built.signer /\ Wire.nonce = Built.nonce /\ Wire.block = Built.block
        /\ Wire.scheme = Built.scheme /\ Wire.gated = Built.gated
    BY <1>5, <2>2, <2>4 DEF Envelope
  <2> QED
    BY <1>1, <1>2, <1>5, <1>7, <1>8, <2>5
<1>9. CASE Now.tamper = "splice"
  <2>1. Wire = [Built EXCEPT !.solution = body.captured.solution]
    BY <1>9 DEF Wire
  <2>2. /\ Wire \in Envelope /\ Wire.solution = body.captured.solution
        /\ Wire.signer = Built.signer /\ Wire.nonce = Built.nonce /\ Wire.block = Built.block
        /\ Wire.scheme = Built.scheme /\ Wire.gated = Built.gated
    BY <1>5, <1>6, <2>1 DEF Envelope
  <2> QED
    BY <1>1, <1>2, <1>5, <1>7, <1>9, <2>2
<1>10. CASE Now.tamper \notin {"flip", "splice"}
  <2>1. Wire = Built
    BY <1>10 DEF Wire
  <2> QED
    BY <1>1, <1>2, <1>5, <1>7, <1>10, <2>1
<1> QED
  BY <1>8, <1>9, <1>10

\* A captured envelope is in the pool or behind the account nonce: it is never admitted again.
LEMMA NeverAgain ==
  ASSUME UInv, InBody, Now.op = "replay"
  PROVE  Rejection(body.captured) # "none"
<1>1. body.captured \in pool \/ body.captured.nonce < mined[body.captured.signer]
  BY DEF UInv, PlaceInv, ReplayInv
<1>2. CASE body.captured \in pool
  <2>1. body.captured \in Pooled(body.captured.signer)
    BY <1>2 DEF Pooled
  <2> QED
    BY <2>1 DEF Rejection
<1> QED
  BY <1>1, <1>2 DEF Rejection

\* A step of the body is over.
LEMMA TurnKeeps ==
  ASSUME UInv, InBody, Advance \/ Pass \/ Fail,
         faulted' = faulted \/ faulted' = faulted \cup {at},
         NEW b \in Locals, Bind(b),
         LaneTypeOK', IsFiniteSet(pool'), NonceInv', DifficultyInv',
         Onward /\ body' = b => (BlockInv /\ WorkInv /\ SentInv /\ CaptureInv /\ ReplayInv)'
  PROVE  UInv'
<1>1. Onward \/ Over("pass") \/ Over("fail")
  BY StepEnds
<1>2. ScriptTypeOK' /\ MidInv' /\ mid' = "ready"
  BY <1>1, Ends DEF UInv, TypeOK
<1>3. body' \in Locals
  BY NoLocalsAreLocals DEF Bind
<1>4. PlaceInv'
  <2>1. CASE Onward
    BY <2>1 DEF Onward, Bind, PlaceInv
  <2>2. CASE ~Onward
    <3>1. step' = 1
      BY <1>1, <2>2 DEF Over
    <3> QED
      BY <1>2, <3>1, FirstPlace
  <2> QED
    BY <2>1, <2>2
<1> QED
  BY <1>2, <1>3, <1>4 DEF UInv, TypeOK

\* What is behind a step that submits nothing.
LEMMA QuietStep ==
  ASSUME ScriptTypeOK, InBody, Onward, CaptureInv, ~Submits(Now),
         UNCHANGED <<pool, mined>>, body'.captured = body.captured
  PROVE  (SentInv /\ CaptureInv /\ ReplayInv)'
<1>1. /\ Suite' = Suite /\ at' = at /\ step' = step + 1
      /\ Now'.op # "receipt" /\ Now'.op # "replay"
  BY NextKeeps DEF Onward, Captures
<1>2. step \in Nat \ {0} /\ Now = Suite[at][step]
  BY DEF ScriptTypeOK, Now
<1>3. ASSUME NEW j \in 1..step, Captures(Suite[at][j]) PROVE j \in 1..(step - 1)
  BY <1>2, <1>3 DEF Captures
<1>4. \A s : PendingNonce(s)' = PendingNonce(s)
  BY DEF PendingNonce, Pooled
<1>5. CaptureInv'
  <2>1. (step + 1) - 1 = step /\ 1..(step - 1) \subseteq 1..step
    BY <1>2
  <2> QED
    BY <1>1, <1>3, <1>4, <2>1 DEF CaptureInv
<1> QED
  BY <1>1, <1>5 DEF SentInv, ReplayInv

LEMMA UInvInit == Init => UInv
<1> SUFFICES ASSUME Init PROVE UInv
  OBVIOUS
<1>1. ScriptTypeOK /\ mid = "ready" /\ step = 1 /\ at = 1
  <2>1. suite \in DOMAIN Suites
    BY DEF Init, ScriptInit
  <2>2. Len(Suite) \in Nat /\ \A i \in Scenarios : Len(Suite[i]) \in Nat \ {0}
    BY <2>1, SuiteShape DEF SuiteIs
  <2>3. 1 \in 1..(Len(Suite) + 1)
    BY <2>2
  <2> QED
    BY <2>1, <2>2, <2>3 DEF Init, ScriptInit, ScriptTypeOK, Scenarios
<1>2. LaneTypeOK
  <2>1. node \subseteq Checks
    BY DEF Init, LaneInit
  <2>2. head \in 0..MaxHead
    BY LaneAssumption, UsersAssumption DEF Init
  <2> QED
    BY <2>1, <2>2, LaneAssumption DEF Init, LaneInit, LaneTypeOK
<1>3. IsFiniteSet(pool) /\ pool = {} /\ mined = [s \in Signers |-> 0]
  BY FS_EmptySet DEF Init, LaneInit
<1>4. NonceInv
  <2>1. \A s \in Signers : Pooled(s) = {} /\ mined[s] = 0
    BY <1>3 DEF Pooled
  <2>2. IsFiniteSet({}) /\ Cardinality({}) = 0
    BY FS_EmptySet
  <2>3. 0..(0 + 0 - 1) = {}
    OBVIOUS
  <2>4. Numbered({}, 0)
    BY <2>2, <2>3 DEF Numbered
  <2> QED
    BY <2>1, <2>4 DEF NonceInv
<1>5. DifficultyInv
  BY LaneAssumption DEF Init, LaneInit, DifficultyInv
<1>6. MidInv
  BY <1>1 DEF MidInv, Init, ScriptInit
<1>7. PlaceInv
  <2> SUFFICES ASSUME InBody PROVE BlockInv /\ WorkInv /\ SentInv /\ CaptureInv /\ ReplayInv
    BY DEF PlaceInv
  <2>1. /\ Submits(Now) => Now.work = "fetched" /\ Now.block = "head"
        /\ Now.op \notin {"advance", "age", "replay", "receipt"}
    <3>1. KeepsTo(Suite[at], 1) /\ Now = Suite[at][1]
      BY <1>1, SuiteShape DEF ScriptTypeOK, SuiteIs, InBody, Now
    <3> QED
      BY <3>1 DEF KeepsTo, IsSubmission, Submits
  <2>2. 1..(step - 1) = {}
    BY <1>1
  <2> QED
    BY <1>1, <2>1, <2>2 DEF BlockInv, WorkInv, SentInv, CaptureInv, ReplayInv, Submits
<1>8. body \in Locals
  BY NoLocalsAreLocals DEF Init
<1> QED
  BY <1>1, <1>2, <1>3, <1>4, <1>5, <1>6, <1>7, <1>8 DEF UInv, TypeOK

\* What a step leaves alone of the lane.
LEMMA LaneStays ==
  ASSUME UInv, UNCHANGED laneVars
  PROVE  LaneTypeOK' /\ IsFiniteSet(pool') /\ NonceInv' /\ DifficultyInv'
  BY DEF UInv, TypeOK, laneVars, LaneTypeOK, NonceInv, Pooled, DifficultyInv

LEMMA ReadParametersKeeps ==
  ASSUME UInv, ReadParameters
  PROVE  UInv'
<1>1. /\ InBody /\ Submits(Now) /\ mid = "ready" /\ mid' = "read" /\ at' = at
      /\ UNCHANGED <<suite, at, step, verdict, faulted, laneVars>>
      /\ body' = [body EXCEPT !.work = Work,
                              !.block = IF Now.block = "head" THEN head ELSE body.kept]
  BY DEF ReadParameters, Doing, Reach, Bind, Submits
<1>2. ScriptTypeOK /\ LaneTypeOK /\ body \in Locals /\ head \in Nat /\ current \in Nat \ {0}
  BY DEF UInv, TypeOK, LaneTypeOK
<1>3. IsSubmission(Now)
  BY <1>1, <1>2, NowKeeps
<1>4. /\ Now.work = "fetched" => Work = current
      /\ Now.work = "seen" => Work = body.seen.difficulty
      /\ Now.work = "under" => Work = Quarter(body.seen.floor)
      /\ Work \in Nat
  <2>1. Now.work \in {"fetched", "seen", "under"} /\ body.seen.floor \in Nat /\ body.seen.difficulty \in Nat
    BY <1>2, <1>3, FieldsOfBody DEF IsSubmission
  <2>2. CASE Now.work = "fetched"
    BY <1>2, <2>2 DEF Work
  <2>3. CASE Now.work = "seen"
    BY <2>1, <2>3 DEF Work
  <2>4. CASE Now.work = "under"
    BY <2>1, <2>4 DEF Work, Quarter
  <2> QED
    BY <2>1, <2>2, <2>3, <2>4
<1>5. body' \in Locals /\ body'.work = Work /\ body'.seen = body.seen /\ body'.kept = body.kept
      /\ body'.block = (IF Now.block = "head" THEN head ELSE body.kept)
      /\ body'.captured = body.captured /\ body'.sent = body.sent
  BY <1>1, <1>2, <1>4 DEF Locals
<1>6. LaneTypeOK' /\ IsFiniteSet(pool') /\ NonceInv' /\ DifficultyInv'
  BY <1>1, LaneStays
<1>7. ScriptTypeOK' /\ MidInv' /\ Suite' = Suite /\ Now' = Now /\ InBody'
  BY <1>1, <1>2 DEF ScriptTypeOK, Suite, Scenarios, Now, InBody, UInv, MidInv
<1>8. BlockInv /\ WorkInv /\ SentInv /\ CaptureInv /\ ReplayInv
  BY <1>1 DEF UInv, PlaceInv
<1>9. BlockInv'
  <2>1. head' = head /\ Slack \in Nat /\ body.kept \in Nat
    BY <1>1, <1>2, UsersAssumption, FieldsOfBody DEF laneVars
  <2>2. Now.block = "head" => (body'.block <= head /\ head <= body'.block + Slack)
    BY <1>2, <1>5, <2>1
  <2> QED
    BY <1>5, <1>7, <1>8, <2>1, <2>2 DEF BlockInv
<1>10. WorkInv'
  <2>1. UNCHANGED <<current, previous, rolls>>
    BY <1>1 DEF laneVars
  <2> QED
    BY <1>2, <1>4, <1>5, <1>7, <1>8, <2>1 DEF WorkInv, Kept, Submits
<1>11. SentInv' /\ CaptureInv' /\ ReplayInv'
  <2>1. UNCHANGED <<pool, mined, head, current, previous, rolls>>
    BY <1>1 DEF laneVars
  <2>2. \A s : PendingNonce(s)' = PendingNonce(s)
    BY <2>1 DEF PendingNonce, Pooled
  <2>3. UNCHANGED <<at, step>>
    BY <1>1
  <2> QED
    BY <1>5, <1>7, <1>8, <2>1, <2>2, <2>3 DEF SentInv, CaptureInv, ReplayInv, Kept
<1>12. PlaceInv'
  BY <1>9, <1>10, <1>11 DEF PlaceInv
<1> QED
  BY <1>1, <1>5, <1>6, <1>7, <1>12 DEF UInv, TypeOK

LEMMA CountNonceKeeps ==
  ASSUME UInv, CountNonce
  PROVE  UInv'
<1>1. /\ InBody /\ mid = "read" /\ mid' = "counted"
      /\ UNCHANGED <<suite, at, step, verdict, faulted, laneVars>>
      /\ body' = [body EXCEPT !.nonce = PendingNonce(Now.by)]
  BY DEF CountNonce, Reach, Bind
<1>2. ScriptTypeOK /\ LaneTypeOK /\ body \in Locals /\ Submits(Now)
  BY <1>1 DEF UInv, TypeOK, MidInv
<1>3. PendingNonce(Now.by) \in Nat
  BY <1>1, <1>2, NowKeeps, PendingIsNat DEF IsSubmission, UInv, TypeOK, PoolTypes
<1>4. /\ body' \in Locals /\ body'.nonce = PendingNonce(Now.by)
      /\ body'.work = body.work /\ body'.block = body.block /\ body'.seen = body.seen
      /\ body'.kept = body.kept /\ body'.captured = body.captured /\ body'.sent = body.sent
  BY <1>1, <1>2, <1>3 DEF Locals
<1>5. LaneTypeOK' /\ IsFiniteSet(pool') /\ NonceInv' /\ DifficultyInv'
  BY <1>1, LaneStays
<1>6. /\ UNCHANGED <<pool, mined, head, current, previous, rolls, at, step, suite>>
      /\ \A s : PendingNonce(s)' = PendingNonce(s)
  BY <1>1 DEF laneVars, PendingNonce, Pooled
<1>7. ScriptTypeOK' /\ Suite' = Suite /\ Now' = Now /\ InBody'
  BY <1>1, <1>2 DEF ScriptTypeOK, Suite, Scenarios, Now, InBody
<1>8. MidInv'
  BY <1>1, <1>2, <1>4, <1>6, <1>7 DEF UInv, MidInv, Scenarios, Suite
<1>9. BlockInv /\ WorkInv /\ SentInv /\ CaptureInv /\ ReplayInv
  BY <1>1 DEF UInv, PlaceInv
<1>10. (BlockInv /\ WorkInv)'
  BY <1>1, <1>4, <1>6, <1>7, <1>9 DEF BlockInv, WorkInv, Kept
<1>11. (SentInv /\ CaptureInv /\ ReplayInv)'
  BY <1>4, <1>6, <1>7, <1>9 DEF SentInv, CaptureInv, ReplayInv, Kept
<1>12. PlaceInv'
  BY <1>10, <1>11 DEF PlaceInv
<1> QED
  BY <1>1, <1>4, <1>5, <1>7, <1>8, <1>12 DEF UInv, TypeOK

\* The rest of the lane, when the pool alone has changed.
LEMMA PoolChanges ==
  ASSUME UInv, UNCHANGED <<node, head, current, previous, landed, mined, rolls>>,
         \/ UNCHANGED pool
         \/ \E e \in Envelope : e.nonce = PendingNonce(e.signer) /\ Admit(e)
  PROVE  /\ LaneTypeOK' /\ IsFiniteSet(pool') /\ NonceInv' /\ DifficultyInv'
         /\ \A s \in Signers : PendingNonce(s)' >= PendingNonce(s)
<1>1. CASE UNCHANGED pool
  <2>1. UNCHANGED laneVars
    BY <1>1 DEF laneVars
  <2>2. \A s \in Signers : PendingNonce(s)' = PendingNonce(s) /\ PendingNonce(s) \in Nat
    BY <1>1, PendingIsNat DEF PendingNonce, Pooled, UInv, TypeOK, PoolTypes
  <2> QED
    BY <2>1, <2>2, LaneStays
<1>2. ASSUME NEW e \in Envelope, e.nonce = PendingNonce(e.signer), Admit(e)
      PROVE  /\ LaneTypeOK' /\ IsFiniteSet(pool') /\ NonceInv' /\ DifficultyInv'
             /\ \A s \in Signers : PendingNonce(s)' >= PendingNonce(s)
  <2>1. PoolKeeps
    BY <1>2, AdmitKeeps DEF UInv, TypeOK, PoolTypes
  <2>2. LaneTypeOK'
    BY <1>2 DEF UInv, TypeOK, LaneTypeOK, Admit
  <2>3. DifficultyInv'
    BY DEF UInv, DifficultyInv
  <2> QED
    BY <2>1, <2>2, <2>3 DEF PoolKeeps
<1> QED
  BY <1>1, <1>2

LEMMA SendKeeps ==
  ASSUME UInv, Send
  PROVE  UInv'
<1> DEFINE b == [body EXCEPT !.work = 0, !.block = 0, !.nonce = 0, !.sent = Wire,
                             !.captured = IF Now.tamper = "capture" THEN Built ELSE @]
<1>1. /\ InBody /\ mid = "counted" /\ Judge(Wire) /\ Bind(b)
      /\ UNCHANGED <<node, head, current, previous, landed, mined, rolls, faulted>>
  BY DEF Send
<1>2. /\ Submits(Now) /\ IsSubmission(Now) /\ Built \in Envelope /\ Wire \in Envelope
      /\ Wire.signer = Now.by /\ Wire.nonce = PendingNonce(Now.by)
      /\ Wire.gated = Now.gated
      /\ Now.tamper = "capture" => Wire = Built
  BY <1>1, OnTheWire
<1>3. /\ b \in Locals /\ b.sent = Wire /\ b.kept = body.kept
      /\ Now.tamper = "capture" => b.captured = Built
      /\ Now.tamper # "capture" => b.captured = body.captured
  BY <1>2 DEF UInv, TypeOK, Locals
<1> HIDE DEF b
<1>4. /\ Advance \/ Pass \/ Fail
      /\ UNCHANGED pool \/ Admit(Wire)
      /\ Advance /\ Now.want = "admitted" => Admit(Wire) \/ Over("pass")
  <2>1. CASE Rejection(Wire) = "none"
    BY <1>1, <2>1 DEF Judge
  <2>2. CASE Rejection(Wire) # "none"
    <3>1. UNCHANGED pool /\ (Now.want = "rejected" \/ Now.want = Rejection(Wire) \/ Err)
      BY <1>1, <2>2 DEF Judge
    <3>2. Rejection(Wire) # "admitted"
      BY DEF Rejection
    <3>3. Advance \/ Pass \/ Fail
      BY <1>1, <2>2 DEF Judge, Err
    <3>4. Now.want = "admitted" => Fail
      BY <1>1, <2>2, <3>2 DEF Judge, Err
    <3>5. Fail => ~Onward
      BY DEF Fail, End, Onward, UInv, TypeOK, ScriptTypeOK
    <3>6. Advance /\ Now.want = "admitted" => Over("pass")
      BY <3>4, <3>5, StepEnds
    <3> QED
      BY <3>1, <3>3, <3>6
  <2> QED
    BY <2>1, <2>2
<1>5. /\ LaneTypeOK' /\ IsFiniteSet(pool') /\ NonceInv' /\ DifficultyInv'
      /\ \A s \in Signers : PendingNonce(s)' >= PendingNonce(s)
  BY <1>1, <1>2, <1>4, PoolChanges
<1>6. ASSUME Onward, body' = b
      PROVE  (BlockInv /\ WorkInv /\ SentInv /\ CaptureInv /\ ReplayInv)'
  <2>1. /\ InBody' /\ Suite' = Suite /\ Suite'[at'][step' - 1] = Now
        /\ Submits(Now') => Now'.work = "fetched" /\ Now'.block = "head"
        /\ Now'.op # "advance" /\ Now'.op # "age"
        /\ Now'.op = "replay" => Captures(Now) /\ Now.work = "fetched"
        /\ at' = at /\ step' = step + 1 /\ mid' = "ready"
    BY <1>1, <1>2, <1>6, NextKeeps DEF UInv, TypeOK, Submits, IsSubmission, Onward
  <2>2. (BlockInv /\ WorkInv)'
    BY <2>1 DEF BlockInv, WorkInv, Submits
  <2>3. SentInv'
    BY <1>2, <1>3, <1>6, <2>1 DEF SentInv
  <2>4. /\ step \in Nat \ {0} /\ Now = Suite[at][step] /\ (step + 1) - 1 = step
        /\ \A j \in 1..step : j = step \/ j \in 1..(step - 1)
        /\ \A j \in 1..(step - 1) : j \in 1..step
    BY DEF UInv, TypeOK, ScriptTypeOK, Now
  <2>5. Captures(Now) => /\ Now.want = "admitted" /\ Now.tamper = "capture" /\ ~Now.gated
                         /\ Now.scheme = "Hashcash" /\ Now.block \in {"head", "aged"}
                         /\ Admit(Built) /\ Wire = Built
    <3>1. ~Over("pass")
      BY <1>6, <2>4 DEF Onward, Over
    <3>2. Onward => Advance
      BY <1>6 DEF Onward, Advance
    <3> QED
      BY <1>2, <1>4, <1>6, <3>1, <3>2 DEF Captures, IsSubmission
  <2> PICK e \in Envelope : e = Built
    BY <1>2
  <2>6. Captures(Now) => /\ e \in pool' /\ e.nonce < PendingNonce(e.signer)'
                         /\ body'.captured = e /\ e.signer = Now.by
                         /\ e.solution.nonce = e.nonce
                         /\ e.solution.signer = e.signer /\ e.solution.block = e.block
                         /\ e.block = body.block /\ e.scheme = Now.scheme /\ e.gated = Now.gated
                         /\ e.solution.work = body.work
    <3> SUFFICES ASSUME Captures(Now)
                 PROVE  /\ e \in pool' /\ e.nonce < PendingNonce(e.signer)'
                        /\ body'.captured = e /\ e.signer = Now.by
                        /\ e.solution.nonce = e.nonce
                        /\ e.solution.signer = e.signer /\ e.solution.block = e.block
                        /\ e.block = body.block /\ e.scheme = Now.scheme /\ e.gated = Now.gated
                        /\ e.solution.work = body.work
      OBVIOUS
    <3>1. e.signer = Now.by /\ e.nonce = PendingNonce(e.signer) /\ Admit(e)
      BY <1>2, <2>5 DEF Built
    <3>2. e \in pool' /\ e.nonce < PendingNonce(e.signer)'
      BY <1>1, <3>1, AdmitKeeps DEF UInv, TypeOK, PoolTypes
    <3>3. /\ e.solution.nonce = e.nonce
          /\ e.solution.signer = e.signer /\ e.solution.block = e.block
          /\ e.block = body.block /\ e.scheme = Now.scheme /\ e.gated = Now.gated
          /\ e.solution.work = body.work
      BY <2>5 DEF Built
    <3>4. body'.captured = e
      BY <1>3, <1>6, <2>5
    <3> QED
      BY <3>1, <3>2, <3>3, <3>4
  <2>7. CaptureInv'
    <3>1. CASE Captures(Now)
      <4>1. step \in 1..(step' - 1) /\ Captures(Suite'[at'][step]) /\ e.signer = Suite'[at'][step].by
        BY <2>1, <2>4, <2>6, <3>1
      <4> QED
        BY <2>6, <3>1, <4>1 DEF CaptureInv
    <3>2. CASE ~Captures(Now)
      <4>1. b.captured = body.captured
        BY <1>2, <1>3, <3>2 DEF Captures
      <4>2. ASSUME NEW j \in 1..(step' - 1), Captures(Suite'[at'][j]) PROVE j \in 1..(step - 1)
        BY <2>1, <2>4, <3>2, <4>2
      <4>3. CaptureInv
        BY <1>1 DEF UInv, PlaceInv
      <4> PICK f \in Envelope : f = body.captured
        BY FieldsOfBody DEF UInv, TypeOK
      <4>4. f.signer \in Signers /\ f.nonce \in Nat
        BY DEF Envelope
      <4>5. /\ PendingNonce(f.signer)' >= PendingNonce(f.signer)
            /\ PendingNonce(f.signer) \in Nat
        BY <1>5, <4>4, PendingIsNat DEF UInv, TypeOK, PoolTypes
      <4>6. PendingNonce(f.signer)' \in Nat
        BY <1>5, <4>4, FS_CardinalityType DEF PendingNonce, NonceInv, Numbered, LaneTypeOK
      <4>7. f.nonce < PendingNonce(f.signer) => f.nonce < PendingNonce(f.signer)'
        BY <4>4, <4>5, <4>6
      <4>8. body'.captured = f
        BY <1>6, <4>1
      <4> QED
        BY <2>1, <2>4, <4>2, <4>3, <4>7, <4>8 DEF CaptureInv
    <3> QED
      BY <3>1, <3>2
  <2>8. ReplayInv'
    <3> SUFFICES ASSUME Now'.op = "replay"
                 PROVE  ReplayInv'
      BY DEF ReplayInv
    <3>1. Captures(Now) /\ Now.work = "fetched"
      BY <2>1
    <3>2. BlockInv /\ WorkInv
      BY <1>1 DEF UInv, PlaceInv
    <3>3. body.work > 0 /\ Kept(body.work)
      BY <1>1, <1>2, <3>1, <3>2 DEF WorkInv
    <3>4. body.block <= head /\ head <= body.block + Window
      <4>1. /\ body.block \in Nat /\ body.kept \in Nat /\ head \in Nat
            /\ Age \in Nat /\ Slack \in Nat /\ Window \in Nat /\ Age + Slack <= Window
        BY FieldsOfBody, UsersAssumption, LaneAssumption DEF UInv, TypeOK, LaneTypeOK
      <4>2. CASE Now.block = "head"
        BY <1>1, <1>2, <3>2, <4>1, <4>2 DEF BlockInv
      <4>3. CASE Now.block = "aged"
        BY <1>1, <1>2, <3>2, <4>1, <4>3 DEF BlockInv
      <4> QED
        BY <2>5, <3>1, <4>2, <4>3
    <3>5. UNCHANGED <<head, current, previous, rolls, mined>>
      BY <1>1
    <3> QED
      BY <2>5, <2>6, <3>1, <3>3, <3>4, <3>5 DEF ReplayInv, Kept
  <2> QED
    BY <2>2, <2>3, <2>7, <2>8
<1> QED
  BY <1>1, <1>3, <1>4, <1>5, <1>6, TurnKeeps

LEMMA SubmitFaultKeeps ==
  ASSUME UInv, SubmitFault
  PROVE  UInv'
<1>1. /\ InBody /\ Err /\ Bind(body) /\ faulted' = faulted \cup {at}
      /\ UNCHANGED <<node, head, current, previous, landed, mined, rolls>>
      /\ UNCHANGED pool \/ (mid = "counted" /\ Admit(Wire))
  BY DEF SubmitFault, Faulty
<1>2. /\ LaneTypeOK' /\ IsFiniteSet(pool') /\ NonceInv' /\ DifficultyInv'
  <2>1. mid = "counted" => Wire \in Envelope /\ Wire.nonce = PendingNonce(Wire.signer)
    BY <1>1, OnTheWire
  <2> QED
    BY <1>1, <2>1, PoolChanges
<1>3. Pass \/ Fail
  BY <1>1 DEF Err
<1>4. ~Onward
  BY <1>3 DEF Pass, Fail, End, Onward, UInv, TypeOK, ScriptTypeOK
<1>5. body \in Locals
  BY DEF UInv, TypeOK
<1> QED
  BY <1>1, <1>2, <1>3, <1>4, <1>5, TurnKeeps

LEMMA ResendKeeps ==
  ASSUME UInv, Resend
  PROVE  UInv'
<1>1. /\ InBody /\ Now.op = "replay" /\ Judge(body.captured) /\ Bind(body)
      /\ UNCHANGED <<node, head, current, previous, landed, mined, rolls, faulted>>
  BY DEF Resend, Doing
<1>2. /\ UNCHANGED pool /\ Now.want = "NullifierAlreadyUsed"
      /\ Advance \/ Pass \/ Fail
  BY <1>1, NeverAgain, NowKeeps DEF Judge, Err, UInv, TypeOK
<1>3. UNCHANGED laneVars /\ body \in Locals /\ ScriptTypeOK
  BY <1>1, <1>2 DEF laneVars, UInv, TypeOK
<1>4. LaneTypeOK' /\ IsFiniteSet(pool') /\ NonceInv' /\ DifficultyInv'
  BY <1>3, LaneStays
<1>5. ASSUME Onward, body' = body
      PROVE  (BlockInv /\ WorkInv /\ SentInv /\ CaptureInv /\ ReplayInv)'
  <2>1. (SentInv /\ CaptureInv /\ ReplayInv)'
    BY <1>1, <1>2, <1>3, <1>5, QuietStep DEF UInv, PlaceInv, Submits
  <2>2. (BlockInv /\ WorkInv)'
    BY <1>1, <1>3, <1>5, NextKeeps DEF BlockInv, WorkInv, Submits, IsSubmission, Onward
  <2> QED
    BY <2>1, <2>2
<1> QED
  BY <1>1, <1>2, <1>3, <1>4, <1>5, TurnKeeps

LEMMA ReceiptKeeps ==
  ASSUME UInv, Receipt
  PROVE  UInv'
<1>1. /\ InBody /\ Now.op = "receipt" /\ (Advance \/ Fail) /\ Bind(body)
      /\ UNCHANGED <<laneVars, faulted>>
  BY DEF Receipt, Doing
<1>2. body \in Locals /\ ScriptTypeOK /\ UNCHANGED <<pool, mined>>
  BY <1>1 DEF laneVars, UInv, TypeOK
<1>3. LaneTypeOK' /\ IsFiniteSet(pool') /\ NonceInv' /\ DifficultyInv'
  BY <1>1, LaneStays
<1>4. ASSUME Onward, body' = body
      PROVE  (BlockInv /\ WorkInv /\ SentInv /\ CaptureInv /\ ReplayInv)'
  <2>1. (SentInv /\ CaptureInv /\ ReplayInv)'
    BY <1>1, <1>2, <1>4, QuietStep DEF UInv, PlaceInv, Submits
  <2>2. (BlockInv /\ WorkInv)'
    BY <1>1, <1>2, <1>4, NextKeeps DEF BlockInv, WorkInv, Submits, IsSubmission, Onward
  <2> QED
    BY <2>1, <2>2
<1> QED
  BY <1>1, <1>2, <1>3, <1>4, TurnKeeps

LEMMA ReadKeeps ==
  ASSUME UInv, Read
  PROVE  UInv'
<1> DEFINE floor == Lesser(current, previous)
           b == [body EXCEPT !.seen = [difficulty |-> current, floor |-> floor]]
<1>1. /\ InBody /\ Now.op = "read" /\ (IF floor >= Now.least THEN Advance ELSE Fail) /\ Bind(b)
      /\ UNCHANGED <<laneVars, faulted>>
  BY DEF Read, Doing
<1>2. /\ body \in Locals /\ ScriptTypeOK
      /\ current \in Nat \ {0} /\ previous \in Nat \ {0} /\ rolls \in Nat
      /\ UNCHANGED <<pool, mined, head, current, previous, rolls>>
  BY <1>1 DEF laneVars, UInv, TypeOK, LaneTypeOK
<1>3. floor \in Nat \ {0} /\ (floor = current \/ floor = previous) /\ floor <= current /\ floor <= previous
  BY <1>2 DEF Lesser
<1>4. /\ b \in Locals /\ b.seen.difficulty = current /\ b.seen.floor = floor
      /\ b.captured = body.captured
  <2>1. [difficulty |-> current, floor |-> floor] \in [difficulty : Nat, floor : Nat]
    BY <1>2, <1>3
  <2> QED
    BY <1>2, <2>1 DEF Locals
<1> HIDE DEF b
<1>5. LaneTypeOK' /\ IsFiniteSet(pool') /\ NonceInv' /\ DifficultyInv'
  BY <1>1, LaneStays
<1>6. ASSUME Onward, body' = b
      PROVE  (BlockInv /\ WorkInv /\ SentInv /\ CaptureInv /\ ReplayInv)'
  <2>1. (SentInv /\ CaptureInv /\ ReplayInv)'
    BY <1>1, <1>2, <1>4, <1>6, QuietStep DEF UInv, PlaceInv, Submits
  <2>2. /\ Submits(Now') => /\ Now'.work # "seen" /\ Now'.block = "head"
                            /\ (Now'.work = "under" => Now.least >= 2)
        /\ Now'.op # "age" /\ mid' = "ready"
    BY <1>1, <1>2, <1>6, NextKeeps DEF Submits, IsSubmission, Onward
  <2>3. Now.least \in Nat
    BY <1>1, <1>2, NowKeeps
  <2>4. floor >= Now.least
    <3>1. ~Fail
      BY <1>2, <1>6 DEF Fail, End, Onward, ScriptTypeOK
    <3> QED
      BY <1>1, <3>1
  <2>5. floor >= 2 => Quarter(floor) < floor
    BY <1>3 DEF Quarter
  <2>6. Lesser(current, previous)' = floor
    BY <1>2 DEF Lesser
  <2> HIDE DEF floor
  <2>7. floor >= 2 => Quarter(body'.seen.floor) < floor
    BY <1>4, <1>6, <2>5 DEF Quarter
  <2>8. WorkInv'
    <3>1. body'.seen.difficulty = current' /\ current' > 0 /\ body'.seen.floor = floor
      BY <1>2, <1>4, <1>6
    <3>2. Submits(Now') /\ Now'.work = "under" => floor >= 2
      BY <1>3, <2>2, <2>3, <2>4
    <3> QED
      BY <2>2, <2>6, <2>7, <3>1, <3>2 DEF WorkInv, Submits
  <2>9. BlockInv'
    BY <2>2 DEF BlockInv, Submits
  <2> QED
    BY <2>1, <2>8, <2>9
<1> QED
  BY <1>1, <1>4, <1>5, <1>6, TurnKeeps

\* What advance_epoch does to the node.
LEMMA EpochAdvanced ==
  ASSUME UInv, InBody, Now.op = "advance",
         previous' = current, current' = 2 * body.seen.difficulty,
         UNCHANGED <<node, head, pool, landed, mined, rolls>>
  PROVE  LaneTypeOK' /\ IsFiniteSet(pool') /\ NonceInv' /\ DifficultyInv'
<1>1. /\ current \in Nat \ {0} /\ previous \in Nat \ {0} /\ rolls \in Nat
      /\ body.seen.difficulty \in Nat
  BY FieldsOfBody DEF UInv, TypeOK, LaneTypeOK
<1>2. body.seen.difficulty > 0 /\ (rolls = 0 => body.seen.difficulty = current)
  BY DEF UInv, PlaceInv, WorkInv
<1>3. current' \in Nat \ {0} /\ previous' \in Nat \ {0}
  BY <1>1, <1>2
<1>4. LaneTypeOK'
  BY <1>3 DEF UInv, TypeOK, LaneTypeOK
<1>5. IsFiniteSet(pool') /\ NonceInv'
  BY DEF UInv, NonceInv, Pooled
<1>6. DifficultyInv'
  BY <1>1, <1>2, LaneAssumption DEF UInv, DifficultyInv
<1> QED
  BY <1>4, <1>5, <1>6

LEMMA AdvancedKeeps ==
  ASSUME UInv, Advanced
  PROVE  UInv'
<1>1. /\ InBody /\ Now.op = "advance" /\ Bind(body)
      /\ IF current = body.seen.difficulty THEN Advance ELSE Fail
      /\ previous' = current /\ current' = 2 * body.seen.difficulty
      /\ UNCHANGED <<node, head, pool, landed, mined, rolls, faulted>>
  BY DEF Advanced, Doing, NewEpoch
<1>2. /\ body \in Locals /\ ScriptTypeOK
      /\ current \in Nat \ {0} /\ previous \in Nat \ {0} /\ rolls \in Nat
      /\ body.seen.difficulty \in Nat
  BY <1>1, FieldsOfBody DEF UInv, TypeOK, LaneTypeOK
<1>3. body.seen.difficulty > 0 /\ (rolls = 0 => body.seen.difficulty = current)
  BY <1>1 DEF UInv, PlaceInv, WorkInv
<1>4. LaneTypeOK' /\ IsFiniteSet(pool') /\ NonceInv' /\ DifficultyInv'
  BY <1>1, EpochAdvanced
<1>5. ASSUME Onward, body' = body
      PROVE  (BlockInv /\ WorkInv /\ SentInv /\ CaptureInv /\ ReplayInv)'
  <2>1. (SentInv /\ CaptureInv /\ ReplayInv)'
    BY <1>1, <1>2, <1>5, QuietStep DEF UInv, PlaceInv, Submits
  <2>2. /\ Submits(Now') => Now'.work # "under" /\ Now'.block = "head"
        /\ Now'.op # "age" /\ Now'.op # "advance" /\ mid' = "ready"
    BY <1>1, <1>2, <1>5, NextKeeps DEF Submits, IsSubmission, Onward
  <2>3. (BlockInv /\ WorkInv)'
    BY <1>1, <1>3, <1>5, <2>2 DEF BlockInv, WorkInv, Submits
  <2> QED
    BY <2>1, <2>3
<1>6. Advance \/ Fail
  BY <1>1
<1> QED
  BY <1>1, <1>2, <1>4, <1>5, <1>6, TurnKeeps

LEMMA PinnedKeeps ==
  ASSUME UInv, Pinned
  PROVE  UInv'
<1> DEFINE b == [body EXCEPT !.kept = head]
<1>1. InBody /\ Now.op = "pin" /\ Advance /\ Bind(b) /\ UNCHANGED <<laneVars, faulted>>
  BY DEF Pinned, Doing
<1>2. /\ body \in Locals /\ ScriptTypeOK /\ head \in Nat
      /\ UNCHANGED <<pool, mined, head>>
  BY <1>1 DEF laneVars, UInv, TypeOK, LaneTypeOK
<1>3. b \in Locals /\ b.kept = head /\ b.captured = body.captured
  BY <1>2 DEF Locals
<1> HIDE DEF b
<1>4. LaneTypeOK' /\ IsFiniteSet(pool') /\ NonceInv' /\ DifficultyInv'
  BY <1>1, LaneStays
<1>5. ASSUME Onward, body' = b
      PROVE  (BlockInv /\ WorkInv /\ SentInv /\ CaptureInv /\ ReplayInv)'
  <2>1. (SentInv /\ CaptureInv /\ ReplayInv)'
    BY <1>1, <1>2, <1>3, <1>5, QuietStep DEF UInv, PlaceInv, Submits
  <2>2. /\ Submits(Now') => Now'.work = "fetched" /\ Now'.block = "head"
        /\ Now'.op # "advance" /\ mid' = "ready"
    BY <1>1, <1>2, <1>5, NextKeeps DEF Submits, IsSubmission, Onward
  <2>3. (body'.kept <= head' /\ head' <= body'.kept + Age + Slack)
    BY <1>2, <1>3, <1>5, UsersAssumption
  <2> QED
    BY <2>1, <2>2, <2>3 DEF BlockInv, WorkInv, Submits
<1> QED
  BY <1>1, <1>3, <1>4, <1>5, TurnKeeps

LEMMA PinnedOldKeeps ==
  ASSUME UInv, PinnedOld
  PROVE  UInv'
<1> DEFINE b == [body EXCEPT !.kept = Monus(head, StaleAge)]
<1>1. /\ InBody /\ Now.op = "pinOld" /\ Bind(b) /\ UNCHANGED <<laneVars, faulted>>
      /\ IF head > Young THEN Advance ELSE Fail
  BY DEF PinnedOld, Doing
<1>2. /\ body \in Locals /\ ScriptTypeOK /\ head \in Nat
      /\ UNCHANGED <<pool, mined, head>>
      /\ StaleAge \in Nat /\ Young \in Nat /\ Window \in Nat /\ Window <= Young /\ Window < StaleAge
  BY <1>1, UsersAssumption, LaneAssumption DEF laneVars, UInv, TypeOK, LaneTypeOK
<1>3. /\ Monus(head, StaleAge) \in Nat
      /\ head > Young => Monus(head, StaleAge) + Window < head
  BY <1>2 DEF Monus
<1>4. b \in Locals /\ b.kept = Monus(head, StaleAge) /\ b.captured = body.captured
  BY <1>2, <1>3 DEF Locals
<1> HIDE DEF b
<1>5. LaneTypeOK' /\ IsFiniteSet(pool') /\ NonceInv' /\ DifficultyInv'
  BY <1>1, LaneStays
<1>6. ASSUME Onward, body' = b
      PROVE  (BlockInv /\ WorkInv /\ SentInv /\ CaptureInv /\ ReplayInv)'
  <2>1. (SentInv /\ CaptureInv /\ ReplayInv)'
    BY <1>1, <1>2, <1>4, <1>6, QuietStep DEF UInv, PlaceInv, Submits
  <2>2. /\ Submits(Now') => Now'.work = "fetched" /\ Now'.block # "aged"
        /\ Now'.op # "advance" /\ Now'.op # "age" /\ mid' = "ready"
    BY <1>1, <1>2, <1>6, NextKeeps DEF Submits, IsSubmission, Onward
  <2>3. head > Young
    <3>1. ~Fail
      BY <1>2, <1>6 DEF Fail, End, Onward, ScriptTypeOK
    <3> QED
      BY <1>1, <3>1
  <2>4. body'.kept + Window < head'
    BY <1>2, <1>3, <1>4, <1>6, <2>3
  <2> QED
    BY <2>1, <2>2, <2>4 DEF BlockInv, WorkInv, Submits
<1>7. Advance \/ Fail
  BY <1>1
<1> QED
  BY <1>1, <1>4, <1>5, <1>6, <1>7, TurnKeeps

LEMMA AgedKeeps ==
  ASSUME UInv, Aged
  PROVE  UInv'
<1>1. /\ InBody /\ Now.op = "age" /\ head >= body.kept + Age
      /\ Advance /\ Bind(body) /\ UNCHANGED <<laneVars, faulted>>
  BY DEF Aged, Doing
<1>2. /\ body \in Locals /\ ScriptTypeOK /\ UNCHANGED <<pool, mined, head>>
      /\ head \in Nat /\ body.kept \in Nat /\ Age \in Nat
  BY <1>1, UsersAssumption, FieldsOfBody DEF laneVars, UInv, TypeOK, LaneTypeOK
<1>3. LaneTypeOK' /\ IsFiniteSet(pool') /\ NonceInv' /\ DifficultyInv'
  BY <1>1, LaneStays
<1>4. ASSUME Onward, body' = body
      PROVE  (BlockInv /\ WorkInv /\ SentInv /\ CaptureInv /\ ReplayInv)'
  <2>1. (SentInv /\ CaptureInv /\ ReplayInv)'
    BY <1>1, <1>2, <1>4, QuietStep DEF UInv, PlaceInv, Submits
  <2>2. /\ Submits(Now') => Now'.work = "fetched" /\ Now'.block # "old"
        /\ Now'.op # "advance" /\ Now'.op # "age" /\ mid' = "ready"
    BY <1>1, <1>2, <1>4, NextKeeps DEF Submits, IsSubmission, Onward
  <2>3. BlockInv
    BY <1>1 DEF UInv, PlaceInv
  <2>4. body'.kept <= head' /\ head' <= body'.kept + Age + Slack /\ body'.kept + Age <= head'
    BY <1>1, <1>2, <1>4, <2>3 DEF BlockInv
  <2> QED
    BY <2>1, <2>2, <2>4 DEF BlockInv, WorkInv, Submits
<1> QED
  BY <1>1, <1>2, <1>3, <1>4, TurnKeeps

LEMMA BodyFaultKeeps ==
  ASSUME UInv, BodyFault \/ AdvanceLost
  PROVE  UInv'
<1>1. InBody /\ Fail /\ Bind(body) /\ faulted' = faulted \cup {at}
  BY DEF BodyFault, AdvanceLost, Doing, Fault, Faulty
<1>2. LaneTypeOK' /\ IsFiniteSet(pool') /\ NonceInv' /\ DifficultyInv'
  <2>1. CASE BodyFault
    BY <2>1, LaneStays DEF BodyFault
  <2>2. CASE AdvanceLost
    <3>1. /\ InBody /\ Now.op = "advance"
          /\ previous' = current /\ current' = 2 * body.seen.difficulty
          /\ UNCHANGED <<node, head, pool, landed, mined, rolls>>
      BY <2>2 DEF AdvanceLost, Doing, NewEpoch
    <3> QED
      BY <3>1, EpochAdvanced
  <2> QED
    BY <2>1, <2>2
<1>3. ~Onward
  BY <1>1 DEF Fail, End, Onward, UInv, TypeOK, ScriptTypeOK
<1>4. body \in Locals
  BY DEF UInv, TypeOK
<1> QED
  BY <1>1, <1>2, <1>3, <1>4, TurnKeeps

LEMMA BlockKeeps ==
  ASSUME UInv, Block
  PROVE  UInv'
<1>1. head < Due /\ Mine /\ UNCHANGED <<scriptVars, body>>
  BY DEF Block
<1>2. /\ PoolKeeps /\ LaneTypeOK'
      /\ \A s \in Signers : PendingNonce(s)' = PendingNonce(s)
  BY <1>1, MineKeeps DEF UInv, TypeOK, PoolTypes
<1>3. /\ head' = head + 1 /\ UNCHANGED <<node, current, previous, rolls>>
      /\ UNCHANGED <<suite, at, step, mid, verdict, faulted, body>>
  BY <1>1 DEF Mine, scriptVars
<1>4. /\ ScriptTypeOK' /\ Suite' = Suite /\ Now' = Now /\ InBody' = InBody /\ body' \in Locals
      /\ mid' \in {"ready", "read", "counted"}
  BY <1>3 DEF UInv, TypeOK, ScriptTypeOK, Suite, Scenarios, Now, InBody
<1>5. DifficultyInv'
  BY <1>3 DEF UInv, DifficultyInv
<1>6. MidInv'
  <2>1. mid = "counted" => Now.by \in Signers
    BY NowKeeps DEF UInv, MidInv, TypeOK, IsSubmission
  <2>2. ASSUME mid = "counted" PROVE PendingNonce(Now.by)' = PendingNonce(Now.by)
    <3> PICK s \in Signers : s = Now.by
      BY <2>1, <2>2
    <3>1. PendingNonce(s)' = PendingNonce(s) /\ s = Now'.by
      BY <1>2, <1>4
    <3> QED
      BY <3>1
  <2> QED
    BY <1>3, <1>4, <2>2 DEF UInv, MidInv, Scenarios, Suite
<1>7. ASSUME InBody PROVE (BlockInv /\ WorkInv /\ SentInv /\ CaptureInv /\ ReplayInv)'
  <2>1. BlockInv /\ WorkInv /\ SentInv /\ CaptureInv /\ ReplayInv
    BY <1>7 DEF UInv, PlaceInv
  <2>2. /\ body.block \in Nat /\ body.kept \in Nat /\ head \in Nat /\ body.captured \in Envelope
        /\ Age \in Nat /\ Slack \in Nat /\ Window \in Nat /\ Age + Slack <= Window
    BY FieldsOfBody, UsersAssumption, LaneAssumption DEF UInv, TypeOK, LaneTypeOK
  <2>3. BlockInv'
    <3>1. Now.op = "age" \/ (Submits(Now) /\ Now.block = "aged") => head < body.kept + Age + Slack
      BY <1>1, <1>7 DEF Due, Submits
    <3>2. Submits(Now) /\ Now.block = "head" /\ mid # "ready" => head < body.block + Slack
      BY <1>1, <1>7 DEF Due, Submits
    <3>3. /\ Submits(Now) /\ mid # "ready" /\ Now.block = "head" => (body.block <= head /\ head <= body.block + Slack)
          /\ Submits(Now) /\ mid # "ready" /\ Now.block # "head" => body.block = body.kept
      BY <2>1 DEF BlockInv
    <3>4. Submits(Now) /\ mid # "ready" =>
            IF Now.block = "head" THEN (body.block <= head' /\ head' <= body.block + Slack)
                                  ELSE (body.block = body.kept)
      BY <1>3, <2>2, <3>2, <3>3
    <3>5. Now.op = "age" \/ (Submits(Now) /\ Now.block = "aged") =>
            (body.kept <= head' /\ head' <= body.kept + Age + Slack)
      BY <1>3, <2>1, <2>2, <3>1 DEF BlockInv
    <3>6. /\ Submits(Now) /\ Now.block = "aged" => (body.kept + Age <= head')
          /\ Submits(Now) /\ Now.block = "old" => (body.kept + Window < head')
      BY <1>3, <2>1, <2>2 DEF BlockInv
    <3> QED
      BY <1>3, <1>4, <3>4, <3>5, <3>6 DEF BlockInv
  <2>4. WorkInv'
    BY <1>3, <1>4, <2>1 DEF WorkInv, Kept
  <2>5. SentInv'
    BY <1>3, <1>4, <2>1 DEF SentInv
  <2> PICK e \in Envelope : e = body.captured
    BY <2>2
  <2>6. e.signer \in Signers /\ e.block \in Nat /\ body'.captured = e
    BY <1>3 DEF Envelope
  <2>7. PendingNonce(e.signer)' = PendingNonce(e.signer)
    BY <1>2, <2>6
  <2>8. CaptureInv'
    BY <1>3, <1>4, <2>1, <2>6, <2>7 DEF CaptureInv
  <2>9. ReplayInv'
    <3> SUFFICES ASSUME Now.op = "replay" PROVE ReplayInv'
      BY <1>4 DEF ReplayInv
    <3>1. head < e.block + Slack
      BY <1>1, <1>7 DEF Due, Submits
    <3>2. /\ e.scheme = "Hashcash" /\ ~e.gated
          /\ e.solution.signer = e.signer /\ e.solution.block = e.block
          /\ e.solution.work > 0 /\ Kept(e.solution.work)
          /\ e.block <= head
          /\ e \in pool \/ e.nonce < mined[e.signer]
      BY <2>1 DEF ReplayInv
    <3>3. e.block <= head' /\ head' <= e.block + Window
      BY <1>3, <2>2, <2>6, <3>1, <3>2
    <3>4. e \in pool' \/ e.nonce < mined'[e.signer]
      BY <1>2, <3>2 DEF PoolKeeps
    <3>5. Kept(e.solution.work)'
      BY <1>3, <3>2 DEF Kept
    <3> QED
      BY <2>6, <3>2, <3>3, <3>4, <3>5 DEF ReplayInv
  <2> QED
    BY <2>3, <2>4, <2>5, <2>8, <2>9
<1>8. PlaceInv'
  BY <1>4, <1>7 DEF PlaceInv
<1> QED
  BY <1>2, <1>4, <1>5, <1>6, <1>8 DEF UInv, TypeOK, PoolKeeps

LEMMA EpochKeeps ==
  ASSUME UInv, Epoch
  PROVE  UInv'
<1>1. /\ rolls < MaxRolls /\ rolls' = rolls + 1
      /\ current' \in {2 * current, current \div 2} /\ current' > 0 /\ previous' = current
      /\ UNCHANGED <<node, head, pool, landed, mined>>
      /\ UNCHANGED <<suite, at, step, mid, verdict, faulted, body>>
  BY DEF Epoch, Roll, NewEpoch, scriptVars
<1>2. /\ current \in Nat \ {0} /\ previous \in Nat \ {0} /\ rolls \in Nat /\ body \in Locals
      /\ Base \in Nat \ {0} /\ MaxRolls \in Nat
  BY LaneAssumption DEF UInv, TypeOK, LaneTypeOK
<1>3. LaneTypeOK'
  <2>1. current' \in Nat \ {0} /\ previous' \in Nat \ {0} /\ rolls' \in 0..MaxRolls
    BY <1>1, <1>2
  <2> QED
    BY <1>1, <2>1 DEF UInv, TypeOK, LaneTypeOK
<1>4. IsFiniteSet(pool') /\ NonceInv' /\ \A s : PendingNonce(s)' = PendingNonce(s)
  BY <1>1 DEF UInv, NonceInv, Pooled, PendingNonce
<1>5. DifficultyInv'
  BY <1>1, <1>2 DEF UInv, DifficultyInv
<1>6. /\ ScriptTypeOK' /\ Suite' = Suite /\ Now' = Now /\ InBody' = InBody /\ body' \in Locals
      /\ mid' \in {"ready", "read", "counted"}
  BY <1>1, <1>2 DEF UInv, TypeOK, ScriptTypeOK, Suite, Scenarios, Now, InBody
<1>7. MidInv'
  BY <1>1, <1>4, <1>6 DEF UInv, MidInv, Scenarios, Suite
<1>8. ASSUME InBody PROVE (BlockInv /\ WorkInv /\ SentInv /\ CaptureInv /\ ReplayInv)'
  <2>1. BlockInv /\ WorkInv /\ SentInv /\ CaptureInv /\ ReplayInv
    BY <1>8 DEF UInv, PlaceInv
  <2>2. BlockInv'
    BY <1>1, <1>6, <2>1 DEF BlockInv
  <2>3. SentInv'
    BY <1>1, <1>6, <2>1 DEF SentInv
  <2>4. CaptureInv'
    BY <1>1, <1>4, <1>6, <2>1 DEF CaptureInv
  <2>5. ASSUME NEW w, Kept(w) PROVE Kept(w)'
    BY <1>1, <1>2, <2>5 DEF Kept
  <2>6. ReplayInv'
    <3> PICK e : e = body.captured /\ e = body'.captured
      BY <1>1
    <3>1. Kept(e.solution.work) => Kept(e.solution.work)'
      BY <2>5
    <3> QED
      BY <1>1, <1>6, <2>1, <3>1 DEF ReplayInv
  <2>7. WorkInv'
    <3> PICK w \in Nat : w = body.work /\ w = body'.work
      BY <1>1, <1>2, FieldsOfBody
    <3>1. Kept(w) => Kept(w)'
      BY <2>5
    <3> PICK floor \in Nat : floor = body.seen.floor /\ floor = body'.seen.floor
      BY <1>1, <1>2, FieldsOfBody
    <3>2. ASSUME rolls = 0, Base >= 4, floor = Lesser(current, previous)
          PROVE  Quarter(floor) < Lesser(current, previous)'
      <4>1. current >= 4 /\ previous >= 4
        BY <1>2, <3>2 DEF UInv, DifficultyInv
      <4>2. floor >= 4 /\ floor <= current
        BY <1>2, <3>2, <4>1 DEF Lesser
      <4>3. floor \div 4 < current'
        <5>1. CASE current' = 2 * current
          BY <1>2, <4>2, <5>1
        <5>2. CASE current' = current \div 2
          BY <1>2, <4>2, <5>2
        <5> QED
          BY <1>1, <5>1, <5>2
      <4>4. floor \div 4 < current
        BY <1>2, <4>2
      <4>5. Quarter(floor) = floor \div 4
        BY <4>2 DEF Quarter
      <4> QED
        BY <1>1, <4>3, <4>4, <4>5 DEF Lesser
    <3>3. /\ rolls' # 0 /\ (rolls' = 1 => rolls = 0)
      BY <1>1, <1>2
    <3>4. Submits(Now) /\ Now.work = "under" /\ rolls' = 1 /\ Base >= 4 =>
            (Quarter(floor) < Lesser(current, previous)')
      BY <2>1, <3>2, <3>3 DEF WorkInv
    <3>5. /\ Submits(Now) /\ mid # "ready" =>
               /\ Now.work = "fetched" => (w > 0) /\ Kept(w)
               /\ Now.work = "seen" => w = body'.seen.difficulty
               /\ Now.work = "under" => w = Quarter(floor)
          /\ Now.op = "advance" => body'.seen.difficulty > 0
      BY <1>1, <2>1 DEF WorkInv
    <3> QED
      BY <1>1, <1>6, <3>1, <3>3, <3>4, <3>5 DEF WorkInv
  <2> QED
    BY <2>2, <2>3, <2>4, <2>6, <2>7
<1>9. PlaceInv'
  BY <1>6, <1>8 DEF PlaceInv
<1> QED
  BY <1>3, <1>4, <1>5, <1>6, <1>7, <1>9 DEF UInv, TypeOK

LEMMA UInvNext == UInv /\ [Next]_vars => UInv'
<1> SUFFICES ASSUME UInv, [Next]_vars PROVE UInv'
  OBVIOUS
<1>1. CASE SubmitStep
  BY <1>1, ReadParametersKeeps, CountNonceKeeps, SendKeeps, SubmitFaultKeeps, ResendKeeps DEF SubmitStep
<1>2. CASE BodyStep
  BY <1>2, ReceiptKeeps, ReadKeeps, AdvancedKeeps, PinnedKeeps, PinnedOldKeeps, AgedKeeps, BodyFaultKeeps
     DEF BodyStep
<1>3. CASE ChainStep
  BY <1>3, BlockKeeps, EpochKeeps DEF ChainStep
<1>4. CASE UNCHANGED vars
  <2>1. /\ UNCHANGED <<node, head, current, previous, pool, landed, mined, rolls>>
        /\ UNCHANGED <<suite, at, step, mid, verdict, faulted, body>>
    BY <1>4 DEF vars, laneVars, scriptVars
  <2>2. /\ Suite' = Suite /\ Scenarios' = Scenarios /\ Now' = Now /\ InBody' = InBody
        /\ \A s : PendingNonce(s)' = PendingNonce(s)
    BY <2>1 DEF Suite, Scenarios, Now, InBody, PendingNonce, Pooled
  <2>3. TypeOK' /\ NonceInv' /\ DifficultyInv' /\ MidInv'
    BY <2>1, <2>2 DEF UInv, TypeOK, LaneTypeOK, ScriptTypeOK, NonceInv, Pooled, DifficultyInv, MidInv
  <2>4. PlaceInv'
    <3>1. PlaceInv
      BY DEF UInv
    <3>2. (BlockInv' <=> BlockInv) /\ (WorkInv' <=> WorkInv) /\ (SentInv' <=> SentInv)
      BY <2>1, <2>2 DEF BlockInv, WorkInv, SentInv, Kept
    <3>3. (CaptureInv' <=> CaptureInv) /\ (ReplayInv' <=> ReplayInv)
      BY <2>1, <2>2 DEF CaptureInv, ReplayInv, Kept
    <3> QED
      BY <2>2, <3>1, <3>2, <3>3 DEF PlaceInv
  <2> QED
    BY <2>1, <2>3, <2>4 DEF UInv
<1> QED
  BY <1>1, <1>2, <1>3, <1>4 DEF Next

\* The inductive invariant: where the nonces of the pool, the difficulties, the envelope under
\* way and the one a body has kept stand, at each place of submit_enveloped and of the body.
THEOREM UsersInvariant == Spec => []UInv
  BY UInvInit, UInvNext, PTL DEF Spec

-----------------------------------------------------------------------------
(* What a node makes of an envelope.                                       *)

\* It has the next nonce of its signer.
LEMMA NextNonce ==
  ASSUME UInv, InBody, mid = "counted"
  PROVE  /\ ~(Wire.nonce < mined[Wire.signer])
         /\ \A f \in Pooled(Wire.signer) : f.nonce # Wire.nonce
         /\ ~Replayed(Wire)
<1>1. Wire \in Envelope /\ Wire.nonce = PendingNonce(Wire.signer) /\ Wire.signer \in Signers
  BY OnTheWire DEF Envelope
<1>2. /\ mined[Wire.signer] \in Nat /\ PendingNonce(Wire.signer) \in Nat
      /\ Cardinality(Pooled(Wire.signer)) \in Nat
      /\ PendingNonce(Wire.signer) = mined[Wire.signer] + Cardinality(Pooled(Wire.signer))
      /\ \A f \in Pooled(Wire.signer) : mined[Wire.signer] <= f.nonce /\ f.nonce < PendingNonce(Wire.signer)
  BY <1>1, PendingIsNat DEF UInv, TypeOK, PoolTypes
<1>3. \A f \in Pooled(Wire.signer) : f.nonce \in Nat
  BY DEF Pooled, UInv, TypeOK, LaneTypeOK, Envelope
<1> QED
  BY <1>1, <1>2, <1>3 DEF Replayed

\* What is left to refuse it for.
LEMMA Answer ==
  ASSUME UInv, InBody, mid = "counted"
  PROVE  Rejection(Wire) =
           IF "open" \notin node /\ Now.by \notin AttesterKeys THEN "Attester not registered"
           ELSE IF "lane" \in node /\ Now.gated THEN "UseMembersLane"
           ELSE IF "scheme" \in node /\ Now.scheme = "MinRoot" THEN "RetiredScheme"
           ELSE IF ~Verified(Wire) THEN "InvalidVdfProof"
           ELSE IF ~Fresh(Wire) THEN "StaleProof"
           ELSE "none"
<1>1. Wire.signer = Now.by /\ Wire.scheme = Now.scheme /\ Wire.gated = Now.gated
  BY OnTheWire
<1>2. ~(Wire.nonce < mined[Wire.signer]) /\ ~Replayed(Wire)
      /\ ~(\E f \in Pooled(Wire.signer) : f.nonce = Wire.nonce)
  BY NextNonce
<1> QED
  BY <1>1, <1>2 DEF Rejection

\* Its block.
LEMMA WireFresh ==
  ASSUME UInv, InBody, mid = "counted"
  PROVE  /\ Now.block \in {"head", "aged"} /\ "aged" \in node => Fresh(Wire)
         /\ Now.block = "aged" /\ Fresh(Wire) => "aged" \in node
         /\ Now.block = "old" /\ "fresh" \in node => ~Fresh(Wire)
         /\ "fresh" \notin node /\ "aged" \in node => Fresh(Wire)
<1>1. Submits(Now) /\ IsSubmission(Now) /\ Wire.block = body.block
  BY OnTheWire
<1>2. BlockInv
  BY DEF UInv, PlaceInv
<1>3. /\ body.block \in Nat /\ body.kept \in Nat /\ head \in Nat
      /\ Age \in Nat /\ Slack \in Nat /\ Window \in Nat /\ Age + Slack <= Window /\ Age > 0
  BY FieldsOfBody, UsersAssumption, LaneAssumption DEF UInv, TypeOK, LaneTypeOK
<1>4. /\ Now.block = "head" => (body.block <= head /\ head <= body.block + Slack)
      /\ Now.block # "head" => body.block = body.kept
      /\ Now.block = "aged" => (head <= body.kept + Age + Slack /\ body.kept + Age <= head)
      /\ Now.block = "old" => body.kept + Window < head
  BY <1>1, <1>2 DEF BlockInv
<1>5. /\ Now.block \in {"head", "aged"} => head <= Wire.block + Window
      /\ Now.block = "aged" => head # Wire.block
      /\ Now.block = "old" => ~(head <= Wire.block + Window)
  BY <1>1, <1>3, <1>4
<1> QED
  BY <1>5 DEF Fresh

\* Its solution.
LEMMA WireSolves ==
  ASSUME UInv, InBody, mid = "counted"
  PROVE  /\ Now.tamper \in {"none", "capture"} /\ Now.scheme = "Hashcash" =>
              (Solves(Wire) <=> EnoughWork(body.work))
         /\ Now.tamper = "flip" => ~Solves(Wire)
         /\ Now.tamper = "splice" /\ "nonce" \in node => ~Solves(Wire)
<1>1. /\ Submits(Now) /\ IsSubmission(Now) /\ Wire \in Envelope
      /\ Wire.signer = Now.by /\ Wire.nonce = PendingNonce(Now.by)
      /\ Now.tamper \notin {"flip", "splice"} => Wire = Built
      /\ Now.tamper = "flip" => Wire.solution.work = 0
      /\ Now.tamper = "splice" => Wire.solution = body.captured.solution
  BY OnTheWire
<1>2. current \in Nat \ {0} /\ previous \in Nat \ {0}
  BY DEF UInv, TypeOK, LaneTypeOK
<1>3. ~EnoughWork(0)
  BY <1>2 DEF EnoughWork
<1>4. Now.tamper = "flip" => ~Solves(Wire)
  BY <1>1, <1>3 DEF Solves
<1>5. Now.tamper \in {"none", "capture"} /\ Now.scheme = "Hashcash" => (Solves(Wire) <=> EnoughWork(body.work))
  BY <1>1 DEF Solves, Built
<1>6. ASSUME Now.tamper = "splice", "nonce" \in node PROVE ~Solves(Wire)
  <2>1. KeepsTo(Suite[at], step) /\ Now = Suite[at][step]
    BY SuiteShape DEF UInv, TypeOK, ScriptTypeOK, SuiteIs, InBody, Now
  <2>2. /\ \E j \in 1..(step - 1) : Captures(Suite[at][j])
        /\ \A j \in 1..(step - 1) : Captures(Suite[at][j]) => Suite[at][j].by = Now.by
    BY <1>1, <1>6, <2>1 DEF KeepsTo
  <2>3. /\ body.captured.signer = Now.by
        /\ body.captured.solution.nonce = body.captured.nonce
        /\ body.captured.nonce < PendingNonce(body.captured.signer)
    BY <2>2 DEF UInv, PlaceInv, CaptureInv
  <2>4. body.captured.nonce \in Nat /\ Wire.nonce \in Nat
    BY <1>1, FieldsOfBody DEF UInv, TypeOK, Envelope
  <2>5. Wire.solution.nonce # Wire.nonce
    BY <1>1, <1>6, <2>3, <2>4
  <2> QED
    BY <1>6, <2>5 DEF Solves
<1> QED
  BY <1>4, <1>5, <1>6

\* The work of a difficulty that was the current one, an epoch ago at most.
LEMMA KeptIsEnough ==
  ASSUME UInv, NEW w \in Nat, w > 0, Kept(w), rolls <= 1, rolls = 0 \/ "previous" \in node
  PROVE  EnoughWork(w)
  BY DEF EnoughWork, Kept, UInv, TypeOK, LaneTypeOK

-----------------------------------------------------------------------------
(* On a node that makes every check.                                       *)

Small == MaxRolls <= 1 /\ Base >= 4

LEMMA AtMostOneEpoch ==
  ASSUME UInv, Small
  PROVE  rolls \in {0, 1} /\ Base >= 4
  BY LaneAssumption DEF Small, UInv, TypeOK, LaneTypeOK

\* What has to be admitted is.
LEMMA GoodIsAdmitted ==
  ASSUME UInv, Small, node = Checks, InBody, mid = "counted", Now.want = "admitted", ~Excused
  PROVE  Rejection(Wire) = "none"
<1>1. Submits(Now) /\ IsSubmission(Now)
  BY OnTheWire
<1>2. /\ ~Now.gated /\ Now.scheme = "Hashcash" /\ Now.work \in {"fetched", "seen"}
      /\ Now.block \in {"head", "aged"} /\ Now.tamper \in {"none", "capture"}
  BY <1>1 DEF IsSubmission
<1>3. {"open", "lane", "scheme", "proof", "nonce", "threshold", "previous", "fresh", "aged",
       "nullifier", "execute", "gate"} \subseteq node
  BY DEF Checks
<1>4. Fresh(Wire)
  BY <1>2, <1>3, WireFresh
<1>5. EnoughWork(body.work)
  <2>1. WorkInv /\ rolls \in {0, 1}
    BY AtMostOneEpoch DEF UInv, PlaceInv
  <2>2. CASE Now.work = "fetched"
    <3>1. body.work \in Nat /\ body.work > 0 /\ Kept(body.work)
      BY <1>1, <2>1, <2>2, FieldsOfBody DEF WorkInv, UInv, TypeOK
    <3> QED
      BY <1>3, <2>1, <3>1, KeptIsEnough
  <2>3. CASE Now.work = "seen"
    <3>1. body.work = body.seen.difficulty /\ body.work \in Nat
      BY <1>1, <2>1, <2>3, FieldsOfBody DEF WorkInv, UInv, TypeOK
    <3>2. ~(body.seen.difficulty < Lesser(current, previous))
      BY <1>1, <2>3 DEF Excused, Submits
    <3> QED
      BY <1>3, <3>1, <3>2 DEF EnoughWork, Lesser, UInv, TypeOK, LaneTypeOK
  <2> QED
    BY <1>2, <2>2, <2>3
<1>6. Verified(Wire)
  BY <1>2, <1>5, WireSolves DEF Verified
<1> QED
  BY <1>2, <1>3, <1>4, <1>6, Answer

\* What has to be refused is, and for what it has to be refused for.
LEMMA BadIsRefused ==
  ASSUME UInv, Small, node = Checks, InBody, mid = "counted"
  PROVE  /\ Now.want = "rejected" => Rejection(Wire) # "none"
         /\ Now.want = "InvalidVdfProof" => Rejection(Wire) = "InvalidVdfProof"
<1>1. Submits(Now) /\ IsSubmission(Now)
  BY OnTheWire
<1>2. {"open", "lane", "scheme", "proof", "nonce", "threshold", "previous", "fresh", "aged",
       "nullifier", "execute", "gate"} \subseteq node
  BY DEF Checks
<1>3. ASSUME Now.want = "rejected", Rejection(Wire) = "none" PROVE FALSE
  <2>1. Verified(Wire) /\ Fresh(Wire) /\ Now.scheme # "MinRoot"
    BY <1>2, <1>3, Answer
  <2>2. Wire.scheme = Now.scheme
    BY OnTheWire
  <2>3. Solves(Wire) /\ Now.scheme = "Hashcash"
    BY <1>1, <1>2, <2>1, <2>2 DEF Verified, IsSubmission
  <2>4. Now.tamper = "none" /\ Now.work = "under"
    BY <1>1, <1>2, <1>3, <2>1, <2>3, WireSolves, WireFresh DEF IsSubmission
  <2>5. EnoughWork(body.work)
    BY <2>3, <2>4, WireSolves
  <2>6. /\ rolls \in {0, 1} /\ Base >= 4 /\ WorkInv
        /\ current \in Nat \ {0} /\ previous \in Nat \ {0} /\ body.seen.floor \in Nat
    BY AtMostOneEpoch, FieldsOfBody DEF UInv, PlaceInv, TypeOK, LaneTypeOK
  <2>7. body.work = Quarter(body.seen.floor)
    BY <1>1, <2>4, <2>6 DEF WorkInv
  <2>8. Quarter(body.seen.floor) < Lesser(current, previous)
    <3>1. CASE rolls = 1
      BY <1>1, <2>4, <2>6, <3>1 DEF WorkInv
    <3>2. CASE rolls = 0
      <4>1. body.seen.floor = Lesser(current, previous) /\ current >= 4 /\ previous >= 4
        BY <1>1, <2>4, <2>6, <3>2, LaneAssumption DEF WorkInv, UInv, DifficultyInv
      <4> QED
        BY <2>6, <4>1 DEF Quarter, Lesser
    <3> QED
      BY <2>6, <3>1, <3>2
  <2>9. body.work < current /\ body.work < previous /\ body.work \in Nat
    BY <2>6, <2>7, <2>8 DEF Lesser, Quarter
  <2> QED
    BY <1>2, <2>5, <2>6, <2>9 DEF EnoughWork
<1>4. ASSUME Now.want = "InvalidVdfProof" PROVE Rejection(Wire) = "InvalidVdfProof"
  <2>1. ~Now.gated /\ Now.scheme = "Hashcash" /\ Now.tamper = "splice"
    BY <1>1, <1>4 DEF IsSubmission
  <2>2. ~Solves(Wire) /\ Wire.scheme = "Hashcash"
    BY <1>2, <2>1, WireSolves, OnTheWire
  <2> QED
    BY <1>2, <2>1, <2>2, Answer DEF Verified
<1> QED
  BY <1>3, <1>4

\* A replay is refused as one, unless its original has been mined.
LEMMA ReplayIsRefused ==
  ASSUME UInv, Small, node = Checks, InBody, Now.op = "replay",
         ~(mined[body.captured.signer] > body.captured.nonce)
  PROVE  Rejection(body.captured) = "NullifierAlreadyUsed"
<1> PICK e \in Envelope : e = body.captured
  BY FieldsOfBody DEF UInv, TypeOK
<1>1. ReplayInv /\ rolls \in {0, 1} /\ head \in Nat
  BY AtMostOneEpoch DEF UInv, PlaceInv, TypeOK, LaneTypeOK
<1>2. /\ e.scheme = "Hashcash" /\ ~e.gated
      /\ e.solution.signer = e.signer /\ e.solution.block = e.block
      /\ e.solution.work > 0 /\ Kept(e.solution.work)
      /\ e.block <= head /\ head <= e.block + Window
      /\ e \in pool \/ e.nonce < mined[e.signer]
  BY <1>1 DEF ReplayInv
<1>3. e.nonce \in Nat /\ e.signer \in Signers /\ mined[e.signer] \in Nat /\ e.solution.work \in Nat
  BY DEF Envelope, Solution, UInv, TypeOK, LaneTypeOK
<1>4. {"open", "lane", "scheme", "proof", "nonce", "threshold", "previous", "fresh", "aged",
       "nullifier", "execute", "gate"} \subseteq node
  BY DEF Checks
<1>5. ~(e.nonce < mined[e.signer]) /\ e \in pool
  BY <1>2, <1>3
<1>6. EnoughWork(e.solution.work)
  BY <1>1, <1>2, <1>3, <1>4, KeptIsEnough
<1>7. e.solution.nonce = e.nonce
  <2>1. KeepsTo(Suite[at], step) /\ Now = Suite[at][step] /\ step \in Nat
    BY SuiteShape DEF UInv, TypeOK, ScriptTypeOK, SuiteIs, InBody, Now
  <2>2. step > 1 /\ Captures(Suite[at][step - 1])
    BY <2>1 DEF KeepsTo
  <2>3. step - 1 \in 1..(step - 1)
    BY <2>1, <2>2
  <2> QED
    BY <2>2, <2>3 DEF UInv, PlaceInv, CaptureInv
<1>8. Verified(e) /\ Fresh(e)
  BY <1>2, <1>4, <1>6, <1>7 DEF Verified, Solves, Fresh
<1>9. Replayed(e)
  BY <1>5 DEF Replayed, Pooled
<1> QED
  BY <1>2, <1>4, <1>5, <1>8, <1>9 DEF Rejection

\* A body that fails does so at its step.
LEMMA FailsHere ==
  ASSUME UInv, NEW i \in Scenarios, verdict[i] = "todo", verdict'[i] = "fail",
         InBody, Advance \/ Pass \/ Fail
  PROVE  i = at /\ Over("fail") /\ ~Over("pass") /\ ~Onward /\ ~Advance /\ ~Pass
<1>1. verdict \in [Scenarios -> {"todo", "pass", "fail"}] /\ at \in Scenarios
  BY DEF UInv, TypeOK, ScriptTypeOK, InBody
<1>2. ~Onward
  BY DEF Onward
<1>3. ~Over("pass")
  BY <1>1 DEF Over
<1>4. Over("fail")
  BY <1>2, <1>3, StepEnds
<1>5. i = at
  BY <1>1, <1>4 DEF Over
<1> QED
  BY <1>2, <1>3, <1>4, <1>5, StepEnds DEF Pass, End, Over

LEMMA FailureStep ==
  ASSUME UInv, Small, Next, node = Checks, NEW i \in Scenarios,
         verdict[i] = "todo", verdict'[i] = "fail"
  PROVE  i \in faulted' \/ Excused
<1> SUFFICES ASSUME ~Excused PROVE i \in faulted'
  OBVIOUS
<1>1. CASE ReadParameters \/ CountNonce \/ ChainStep
  BY <1>1 DEF ReadParameters, CountNonce, Reach, ChainStep, Block, Epoch, scriptVars
<1>2. CASE Send
  <2>1. InBody /\ mid = "counted" /\ Judge(Wire)
    BY <1>2 DEF Send
  <2>2. Submits(Now) /\ IsSubmission(Now)
    BY <2>1, OnTheWire
  <2>3. ~Advance /\ ~Pass
    <3>1. Advance \/ Pass \/ Fail
      BY <2>1 DEF Judge, Err
    <3> QED
      BY <2>1, <3>1, FailsHere
  <2>4. Rejection(Wire) = "none" => Now.want \notin {"admitted", "unminted"}
    BY <2>1, <2>3 DEF Judge
  <2>5. Rejection(Wire) # "none" => Now.want # "unminted" /\ Now.want # "rejected" /\ Now.want # Rejection(Wire)
    BY <2>1, <2>3 DEF Judge, Err
  <2> QED
    BY <2>1, <2>2, <2>4, <2>5, GoodIsAdmitted, BadIsRefused DEF IsSubmission
<1>3. CASE Resend
  <2>1. /\ InBody /\ Now.op = "replay" /\ Judge(body.captured) /\ Now.want = "NullifierAlreadyUsed"
    BY <1>3, NowKeeps DEF Resend, Doing, UInv, TypeOK
  <2>2. ~(mined[body.captured.signer] > body.captured.nonce)
    BY <2>1 DEF Excused
  <2>3. Rejection(body.captured) = "NullifierAlreadyUsed"
    BY <2>1, <2>2, ReplayIsRefused
  <2>4. Advance
    BY <2>1, <2>3 DEF Judge
  <2> QED
    BY <2>1, <2>4, FailsHere
<1>4. CASE Receipt
  <2>1. /\ InBody /\ Now.op = "receipt"
        /\ IF /\ Now.want = "success" => Succeeds(body.sent)
              /\ Now.want = "reverted" => ~Succeeds(body.sent)
             THEN Advance ELSE Fail
    BY <1>4 DEF Receipt, Doing
  <2>2. KeepsTo(Suite[at], step) /\ Now = Suite[at][step]
    BY SuiteShape, <2>1 DEF UInv, TypeOK, ScriptTypeOK, SuiteIs, InBody, Now
  <2>3. body.sent.signer = Suite[at][step - 1].by /\ body.sent.gated = Suite[at][step - 1].gated
    BY <2>1 DEF UInv, PlaceInv, SentInv
  <2>4. "execute" \in node /\ "gate" \in node
    BY DEF Checks
  <2>5. /\ Now.want = "success" => Succeeds(body.sent)
        /\ Now.want = "reverted" => ~Succeeds(body.sent)
    BY <2>1, <2>2, <2>3, <2>4 DEF KeepsTo, Succeeds
  <2> QED
    BY <2>1, <2>5, FailsHere
<1>5. CASE Read
  <2>1. InBody /\ Now.op = "read" /\ (IF Lesser(current, previous) >= Now.least THEN Advance ELSE Fail)
    BY <1>5 DEF Read, Doing
  <2>2. Now.least \in 0..2
    BY <2>1, NowKeeps DEF UInv, TypeOK
  <2>3. /\ current \in Nat /\ previous \in Nat /\ current >= 2 /\ previous >= 2
    BY AtMostOneEpoch, LaneAssumption DEF UInv, TypeOK, LaneTypeOK, DifficultyInv
  <2>4. Lesser(current, previous) >= Now.least
    BY <2>2, <2>3 DEF Lesser
  <2> QED
    BY <2>1, <2>4, FailsHere
<1>6. CASE Advanced
  <2>1. InBody /\ Now.op = "advance" /\ (IF current = body.seen.difficulty THEN Advance ELSE Fail)
    BY <1>6 DEF Advanced, Doing
  <2> QED
    BY <2>1, FailsHere DEF Excused
<1>7. CASE PinnedOld
  <2>1. InBody /\ Now.op = "pinOld" /\ (IF head > Young THEN Advance ELSE Fail)
    BY <1>7 DEF PinnedOld, Doing
  <2>2. head \in Nat /\ Young \in Nat
    BY UsersAssumption DEF UInv, TypeOK, LaneTypeOK
  <2>3. head > Young
    BY <2>1, <2>2 DEF Excused
  <2> QED
    BY <2>1, <2>3, FailsHere
<1>8. CASE Pinned \/ Aged
  <2>1. InBody /\ Advance
    BY <1>8 DEF Pinned, Aged, Doing
  <2> QED
    BY <2>1, FailsHere
<1>9. CASE SubmitFault \/ BodyFault \/ AdvanceLost
  <2>1. InBody /\ (Pass \/ Fail) /\ faulted' = faulted \cup {at}
    BY <1>9 DEF SubmitFault, BodyFault, AdvanceLost, Doing, Fault, Faulty, Err
  <2>2. i = at
    BY <2>1, FailsHere
  <2> QED
    BY <2>1, <2>2
<1> QED
  BY <1>1, <1>2, <1>3, <1>4, <1>5, <1>6, <1>7, <1>8, <1>9 DEF Next, SubmitStep, BodyStep


-----------------------------------------------------------------------------
(* The theorems.                                                           *)

\* Every variable keeps its type: the locals of a body are an envelope under construction
\* and what the body has read or kept, and the difficulties never come to 0.
THEOREM UsersTypeAlways == Spec => []TypeOK
<1>1. UInv => TypeOK
  BY DEF UInv
<1> QED
  BY <1>1, UsersInvariant, PTL

\* On a node that makes every check, a scenario fails only for a fault or for a reason the
\* scenario names (submit_enveloped reads the difficulty, the head and the nonce one after
\* another, and the chain goes on between them).  The chain ends at most one epoch by
\* itself, and its first difficulty is 4 or more.
THEOREM UsersFailuresAreDeserved ==
  ASSUME Small
  PROVE  Spec => FailuresDeserved
<1>1. ASSUME UInv, [Next]_vars
      PROVE  node = Checks =>
               \A i \in Scenarios : verdict[i] = "todo" /\ verdict'[i] = "fail" =>
                 i \in faulted' \/ Excused
  <2>1. CASE Next
    BY <1>1, <2>1, FailureStep
  <2>2. CASE UNCHANGED vars
    BY <2>2 DEF vars, scriptVars
  <2> QED
    BY <1>1, <2>1, <2>2
<1> QED
  BY <1>1, UsersInvariant, PTL DEF Spec, FailuresDeserved

-----------------------------------------------------------------------------
(* What the steps of a green run show.                                     *)

LEMMA ShowInit == Init => ShowInv
<1> SUFFICES ASSUME Init, NEW i \in Scenarios, NEW k \in 1..Len(Suite[i]) PROVE ~Gone(i, k)
  BY DEF ShowInv
<1>1. at = 1 /\ step = 1 /\ suite \in DOMAIN Suites
  BY DEF Init, ScriptInit
<1>2. i \in Nat /\ i >= 1 /\ k \in Nat /\ k >= 1
  BY <1>1, SuiteShape DEF SuiteIs, Scenarios
<1> QED
  BY <1>1, <1>2 DEF Gone

\* Once shown, a thing stays shown.
LEMMA ShownStays ==
  ASSUME UNCHANGED node, rolls \in Nat, rolls' \in Nat, rolls' >= rolls, NEW s, Shown(s)
  PROVE  Shown(s)'
<1>1. rolls' = 0 => rolls = 0
  OBVIOUS
<1> QED
  BY <1>1 DEF Shown

\* A step that ends leaves shown what it has shown itself, or ends a body that takes any Err.
LEMMA ShowTurn ==
  ASSUME UInv, ShowInv, InBody, UNCHANGED <<node, rolls>>,
         \/ Fail
         \/ Advance /\ Shown(Now)
         \/ Pass /\ Submits(Now) /\ Now.want = "unminted"
  PROVE  ShowInv'
<1>1. Onward \/ Over("pass") \/ Over("fail")
  BY StepEnds
<1>2. /\ suite \in DOMAIN Suites /\ at \in Scenarios /\ step \in 1..Len(Suite[at])
      /\ Len(Suite) \in Nat /\ Len(Suite[at]) \in Nat /\ Scenarios = 1..Len(Suite)
      /\ verdict \in [Scenarios -> {"todo", "pass", "fail"}] /\ Now = Suite[at][step]
      /\ rolls \in Nat
  BY SuiteShape DEF UInv, TypeOK, ScriptTypeOK, LaneTypeOK, SuiteIs, InBody, Scenarios, Now
<1>3. suite' = suite /\ Suite' = Suite /\ Scenarios' = Scenarios
  BY <1>1 DEF Onward, Over, Suite, Scenarios
<1>4. ASSUME NEW i \in Scenarios, NEW k \in 1..Len(Suite[i]), Gone(i, k)'
      PROVE  Gone(i, k) \/ (i = at /\ k = step /\ Advance /\ Shown(Now))
  <2>1. i \in Nat /\ at \in Nat /\ step \in Nat /\ k \in Nat /\ k >= 1 /\ k <= Len(Suite[i])
        /\ Len(Suite[i]) \in Nat
    BY <1>2, SuiteShape DEF SuiteIs
  <2>2. CASE Onward
    <3>1. at' = at /\ step' = step + 1 /\ verdict' = verdict
      BY <2>2 DEF Onward
    <3>2. Advance /\ Shown(Now)
      BY <1>2, <2>1, <2>2 DEF Onward, Fail, Pass, End
    <3> QED
      BY <1>3, <1>4, <2>1, <3>1, <3>2 DEF Gone
  <2>3. CASE ~Onward
    <3>1. at' = at + 1 /\ step' = 1 /\ \A j \in Scenarios : j # at => verdict'[j] = verdict[j]
      BY <1>1, <1>2, <2>3 DEF Over
    <3>2. CASE i # at
      BY <1>3, <1>4, <2>1, <3>1, <3>2 DEF Gone
    <3>3. CASE i = at
      <4>1. verdict'[at] = "pass"
            /\ \A j \in 1..Len(Suite[at]) : Suite[at][j].op = "submit" => Suite[at][j].want # "unminted"
        BY <1>3, <1>4, <2>1, <3>1, <3>3 DEF Gone
      <4>2. ~Fail
        BY <1>2, <4>1 DEF Fail, End
      <4>3. Advance /\ Shown(Now)
        BY <1>2, <4>1, <4>2 DEF Submits
      <4>4. step = Len(Suite[at])
        BY <1>2, <2>1, <2>3, <4>3, StepEnds
      <4> QED
        BY <2>1, <3>3, <4>3, <4>4 DEF Gone
    <3> QED
      BY <3>2, <3>3
  <2> QED
    BY <2>2, <2>3
<1>5. ASSUME NEW i \in Scenarios, NEW k \in 1..Len(Suite[i]), Gone(i, k)'
      PROVE  Shown(Suite[i][k])'
  <2> PICK s : s = Suite[i][k] /\ s = Suite'[i][k]
    BY <1>3
  <2>1. Shown(s)
    <3>1. CASE Gone(i, k)
      BY <3>1 DEF ShowInv
    <3>2. CASE i = at /\ k = step /\ Shown(Now)
      BY <1>2, <3>2
    <3> QED
      BY <1>4, <1>5, <3>1, <3>2
  <2>2. Shown(s)'
    BY <1>2, <2>1, ShownStays
  <2> QED
    BY <2>2
<1> QED
  BY <1>3, <1>5 DEF ShowInv


\* A submission that gets the answer it wants.
LEMMA SendShows ==
  ASSUME UInv, InBody, mid = "counted",
         \/ Rejection(Wire) = "none" /\ Now.want \in {"admitted", "unminted"}
         \/ Rejection(Wire) # "none" /\ (Now.want = "rejected" \/ Now.want = Rejection(Wire))
  PROVE  Shown(Now)
<1>1. /\ Submits(Now) /\ IsSubmission(Now) /\ Wire.scheme = Now.scheme
      /\ body.work \in Nat /\ current \in Nat \ {0} /\ previous \in Nat \ {0}
      /\ body.seen.floor \in Nat
  BY OnTheWire, FieldsOfBody DEF UInv, TypeOK, LaneTypeOK
<1>2. WorkInv
  BY DEF UInv, PlaceInv
<1>3. Rejection(Wire) # "admitted"
  BY DEF Rejection
<1>4. ASSUME Now.want = "admitted"
      PROVE  /\ Now.by \notin AttesterKeys => "open" \in node
             /\ Now.block = "aged" => "aged" \in node
             /\ Now.work = "seen" /\ rolls = 0 /\ "proof" \in node /\ "threshold" \in node =>
                  "previous" \in node
  <2>1. Rejection(Wire) = "none"
    BY <1>3, <1>4
  <2>2. /\ ~("open" \notin node /\ Now.by \notin AttesterKeys)
        /\ Verified(Wire) /\ Fresh(Wire)
    BY <2>1, Answer
  <2>3. Now.scheme = "Hashcash" /\ Now.tamper \in {"none", "capture"}
    BY <1>1, <1>4 DEF IsSubmission
  <2>4. ASSUME Now.work = "seen", rolls = 0, "proof" \in node, "threshold" \in node
        PROVE  "previous" \in node
    <3>1. EnoughWork(body.work)
      BY <1>1, <2>2, <2>3, <2>4, WireSolves DEF Verified
    <3>2. body.work = body.seen.difficulty /\ current = 2 * body.seen.difficulty
      <4>1. mid # "ready"
        OBVIOUS
      <4> QED
        BY <1>1, <1>2, <2>4, <4>1 DEF WorkInv
    <3>3. ~(body.work >= current)
      BY <1>1, <3>2
    <3> QED
      BY <2>4, <3>1, <3>3 DEF EnoughWork
  <2> QED
    BY <2>2, <2>4, WireFresh
<1>5. ASSUME rolls = 0, "aged" \in node, Now.want = "rejected", Now.by \in AttesterKeys, ~Now.gated
      PROVE  /\ Now.work = "under" /\ Now.block = "head" /\ Now.scheme = "Hashcash" /\ Now.tamper = "none" =>
                  {"proof", "threshold"} \subseteq node
             /\ Now.tamper = "flip" /\ Now.block = "head" /\ Now.scheme = "Hashcash" => "proof" \in node
             /\ Now.scheme = "MinRoot" /\ Now.block = "head" => "scheme" \in node
             /\ Now.block = "old" /\ Now.work = "fetched" /\ Now.scheme = "Hashcash" /\ Now.tamper = "none" =>
                  "fresh" \in node
  <2>1. Rejection(Wire) # "none"
    BY <1>5
  <2>2. \/ "scheme" \in node /\ Now.scheme = "MinRoot"
        \/ ~Verified(Wire)
        \/ ~Fresh(Wire)
    BY <1>5, <2>1, Answer
  <2>3. Now.block = "head" => Fresh(Wire)
    BY <1>5, WireFresh
  <2>4. ASSUME Now.work = "under", Now.block = "head", Now.scheme = "Hashcash", Now.tamper = "none"
        PROVE  {"proof", "threshold"} \subseteq node
    <3>1. ~Verified(Wire)
      BY <2>2, <2>3, <2>4
    <3>2. "proof" \in node /\ ~EnoughWork(body.work)
      BY <2>4, <3>1, WireSolves DEF Verified
    <3>3. body.work = Quarter(body.seen.floor)
      BY <1>1, <1>2, <2>4 DEF WorkInv
    <3>4. body.work > 0
      BY <1>1, <3>3 DEF Quarter
    <3> QED
      BY <3>2, <3>4 DEF EnoughWork
  <2>5. ASSUME Now.block = "old", Now.work = "fetched", Now.scheme = "Hashcash", Now.tamper = "none"
        PROVE  "fresh" \in node
    <3>1. body.work > 0 /\ Kept(body.work)
      BY <1>1, <1>2, <2>5 DEF WorkInv
    <3>2. EnoughWork(body.work)
      BY <1>1, <1>5, <3>1, KeptIsEnough
    <3>3. Verified(Wire)
      BY <2>5, <3>2, WireSolves DEF Verified
    <3> QED
      BY <1>5, <2>2, <2>5, <3>3, WireFresh
  <2>6. Now.tamper = "flip" /\ Now.block = "head" /\ Now.scheme = "Hashcash" => "proof" \in node
    BY <2>2, <2>3 DEF Verified
  <2>7. Now.scheme = "MinRoot" /\ Now.block = "head" => "scheme" \in node
    BY <1>1, <2>2, <2>3 DEF Verified
  <2> QED
    BY <2>4, <2>5, <2>6, <2>7
<1>6. ASSUME NEW b \in AttesterKeys, rolls = 0, "aged" \in node
      PROVE  /\ Now = [Plain(b) EXCEPT !.work = "under", !.want = "rejected"] => {"proof", "threshold"} \subseteq node
             /\ Now = [Plain(b) EXCEPT !.tamper = "flip", !.want = "rejected"] => "proof" \in node
             /\ Now = [Plain(b) EXCEPT !.scheme = "MinRoot", !.want = "rejected"] => "scheme" \in node
             /\ Now = [Plain(b) EXCEPT !.block = "old", !.want = "rejected"] => "fresh" \in node
  BY <1>5, <1>6 DEF Plain
<1> QED
  BY <1>1, <1>4, <1>6 DEF Shown, Submits

\* The other steps that show something.
LEMMA StepShows ==
  ASSUME UInv, InBody, ~Submits(Now),
         Now.op = "receipt" /\ Now.want = "success" => "execute" \in node,
         Now.op = "replay" => "nullifier" \in node
  PROVE  Shown(Now)
<1>1. \A b \in AttesterKeys :
        /\ Now # [Plain(b) EXCEPT !.work = "under", !.want = "rejected"]
        /\ Now # [Plain(b) EXCEPT !.tamper = "flip", !.want = "rejected"]
        /\ Now # [Plain(b) EXCEPT !.scheme = "MinRoot", !.want = "rejected"]
        /\ Now # [Plain(b) EXCEPT !.block = "old", !.want = "rejected"]
  BY DEF Submits, Plain
<1> QED
  BY <1>1 DEF Shown

LEMMA ShowNext == UInv /\ ShowInv /\ [Next]_vars => ShowInv'
<1> SUFFICES ASSUME UInv, ShowInv, [Next]_vars PROVE ShowInv'
  OBVIOUS
<1>1. rolls \in Nat /\ MaxRolls \in Nat
  BY LaneAssumption DEF UInv, TypeOK, LaneTypeOK
<1>2. ASSUME UNCHANGED <<node, suite, at, step, verdict>>, rolls' \in Nat, rolls' >= rolls
      PROVE  ShowInv'
  <2>1. Suite' = Suite /\ Scenarios' = Scenarios
    BY <1>2 DEF Suite, Scenarios
  <2>2. ASSUME NEW i \in Scenarios, NEW k \in 1..Len(Suite[i]), Gone(i, k)'
        PROVE  Shown(Suite[i][k])'
    <3> PICK s : s = Suite[i][k] /\ s = Suite'[i][k]
      BY <2>1
    <3>1. Gone(i, k)
      BY <1>2, <2>1, <2>2 DEF Gone
    <3>2. Shown(s)
      BY <3>1 DEF ShowInv
    <3>3. Shown(s)'
      BY <1>1, <1>2, <3>2, ShownStays
    <3> QED
      BY <3>3
  <2> QED
    BY <2>1, <2>2 DEF ShowInv
<1>3. CASE ReadParameters \/ CountNonce \/ ChainStep \/ UNCHANGED vars
  <2>1. UNCHANGED <<node, suite, at, step, verdict>>
    BY <1>3 DEF ReadParameters, CountNonce, Reach, ChainStep, Block, Epoch, Mine, Roll,
                vars, laneVars, scriptVars
  <2>2. rolls' = rolls \/ rolls' = rolls + 1
    BY <1>3 DEF ReadParameters, CountNonce, ChainStep, Block, Epoch, Mine, Roll, vars, laneVars
  <2> QED
    BY <1>1, <1>2, <2>1, <2>2
<1>4. CASE Send
  <2>1. InBody /\ mid = "counted" /\ Judge(Wire) /\ UNCHANGED <<node, rolls>>
    BY <1>4 DEF Send
  <2>2. Submits(Now)
    BY <2>1, OnTheWire
  <2>3. CASE Rejection(Wire) = "none" /\ Now.want \in {"admitted", "unminted"}
    <3>1. Advance
      BY <2>1, <2>3 DEF Judge
    <3> QED
      BY <2>1, <2>3, <3>1, SendShows, ShowTurn
  <2>4. CASE Rejection(Wire) # "none" /\ (Now.want = "rejected" \/ Now.want = Rejection(Wire))
    <3>1. Advance
      BY <2>1, <2>4 DEF Judge
    <3> QED
      BY <2>1, <2>4, <3>1, SendShows, ShowTurn
  <2>5. CASE Fail \/ (Pass /\ Now.want = "unminted")
    BY <2>1, <2>2, <2>5, ShowTurn
  <2> QED
    BY <2>1, <2>3, <2>4, <2>5 DEF Judge, Err
<1>5. CASE SubmitFault
  <2>1. InBody /\ (Fail \/ (Pass /\ Now.want = "unminted")) /\ UNCHANGED <<node, rolls>>
    BY <1>5 DEF SubmitFault, Err
  <2>2. Submits(Now)
    BY <1>5 DEF SubmitFault, Doing, Submits, UInv, MidInv
  <2> QED
    BY <2>1, <2>2, ShowTurn
<1>6. CASE Resend
  <2>1. /\ InBody /\ Now.op = "replay" /\ Judge(body.captured) /\ UNCHANGED <<node, rolls>>
        /\ Now.want = "NullifierAlreadyUsed"
    BY <1>6, NowKeeps DEF Resend, Doing, UInv, TypeOK
  <2>2. CASE Rejection(body.captured) = "NullifierAlreadyUsed"
    <3>1. Advance /\ "nullifier" \in node
      BY <2>1, <2>2 DEF Judge, Rejection
    <3>2. Shown(Now)
      BY <2>1, <3>1, StepShows DEF Submits
    <3> QED
      BY <2>1, <3>1, <3>2, ShowTurn
  <2>3. CASE Rejection(body.captured) # "NullifierAlreadyUsed"
    <3>1. Fail
      BY <2>1, <2>3 DEF Judge, Err
    <3> QED
      BY <2>1, <3>1, ShowTurn
  <2> QED
    BY <2>2, <2>3
<1>7. CASE Receipt
  <2>1. /\ InBody /\ Now.op = "receipt" /\ UNCHANGED <<node, rolls>>
        /\ Fail \/ (Advance /\ (Now.want = "success" => Succeeds(body.sent)))
    BY <1>7 DEF Receipt, Doing, laneVars
  <2>2. CASE Fail
    BY <2>1, <2>2, ShowTurn
  <2>3. CASE Advance /\ (Now.want = "success" => Succeeds(body.sent))
    <3>1. Shown(Now)
      BY <2>1, <2>3, StepShows DEF Submits, Succeeds
    <3> QED
      BY <2>1, <2>3, <3>1, ShowTurn
  <2> QED
    BY <2>1, <2>2, <2>3
<1>8. CASE Read \/ Advanced \/ Pinned \/ PinnedOld \/ Aged
  <2>1. /\ InBody /\ Now.op \in {"read", "advance", "pin", "pinOld", "age"}
        /\ UNCHANGED <<node, rolls>> /\ (Advance \/ Fail)
    BY <1>8 DEF Read, Advanced, Pinned, PinnedOld, Aged, Doing, laneVars
  <2>2. Shown(Now)
    BY <2>1, StepShows DEF Submits
  <2> QED
    BY <2>1, <2>2, ShowTurn
<1>9. CASE BodyFault \/ AdvanceLost
  <2>1. InBody /\ Fail /\ UNCHANGED <<node, rolls>>
    BY <1>9 DEF BodyFault, AdvanceLost, Doing, Fault, laneVars
  <2> QED
    BY <2>1, ShowTurn
<1> QED
  BY <1>3, <1>4, <1>5, <1>6, <1>7, <1>8, <1>9 DEF Next, SubmitStep, BodyStep


\* None of them takes any Err, and none calls the agents pool.
Fits(b) ==
  /\ Len(b) \in Nat
  /\ \A k \in 1..Len(b) : b[k].op = "submit" => b[k].want # "unminted" /\ ~b[k].gated

LEMMA EnvelopeSteps ==
  Len(EnvelopeSuite) = 11 /\ \A i \in 1..11 : Fits(EnvelopeSuite[i])
<1>1. /\ Len(EnvelopeSuite) = 11
      /\ EnvelopeSuite[1] = S031 /\ EnvelopeSuite[2] = S032 /\ EnvelopeSuite[3] = S041
      /\ EnvelopeSuite[4] = S042 /\ EnvelopeSuite[5] = S043 /\ EnvelopeSuite[6] = S044
      /\ EnvelopeSuite[7] = S048 /\ EnvelopeSuite[8] = S049 /\ EnvelopeSuite[9] = S050
      /\ EnvelopeSuite[10] = S054 /\ EnvelopeSuite[11] = S055
  BY DEF EnvelopeSuite
<1>2. Fits(S031)
  <2>1. /\ Len(S031) = 2
        /\ S031[1].op = "read" /\ S031[2].want = "rejected" /\ ~S031[2].gated
    BY DEF S031, Plain, ReadDifficulty
  <2> QED
    BY <2>1 DEF Fits
<1>3. Fits(S032)
  <2>1. /\ Len(S032) = 3
        /\ S032[1].op = "read" /\ S032[2].op = "advance"
        /\ S032[3].want = "admitted" /\ ~S032[3].gated
    BY DEF S032, Plain, AdvanceEpoch, ReadDifficulty
  <2> QED
    BY <2>1 DEF Fits
<1>4. Fits(S041)
  <2>1. /\ Len(S041) = 1
        /\ S041[1].want = "admitted" /\ ~S041[1].gated
    BY DEF S041, Plain
  <2> QED
    BY <2>1 DEF Fits
<1>5. Fits(S042)
  <2>1. /\ Len(S042) = 2
        /\ S042[1].want = "admitted" /\ ~S042[1].gated /\ S042[2].op = "receipt"
    BY DEF S042, Plain, WaitReceipt
  <2> QED
    BY <2>1 DEF Fits
<1>6. Fits(S043)
  <2>1. /\ Len(S043) = 4
        /\ S043[1].op = "pin" /\ S043[2].op = "age" /\ S043[3].want = "admitted" /\ ~S043[3].gated
        /\ S043[4].op = "receipt"
    BY DEF S043, Plain, AgeProof, PinHead, WaitReceipt
  <2> QED
    BY <2>1 DEF Fits
<1>7. Fits(S044)
  <2>1. /\ Len(S044) = 5
        /\ S044[1].want = "admitted" /\ ~S044[1].gated /\ S044[2].op = "receipt"
        /\ S044[3].want = "admitted" /\ ~S044[3].gated /\ S044[4].op = "receipt"
        /\ S044[5].want = "InvalidVdfProof" /\ ~S044[5].gated
    BY DEF S044, Plain, WaitReceipt
  <2> QED
    BY <2>1 DEF Fits
<1>8. Fits(S048)
  <2>1. /\ Len(S048) = 2
        /\ S048[1].want = "admitted" /\ ~S048[1].gated /\ S048[2].op = "receipt"
    BY DEF S048, Plain, WaitReceipt
  <2> QED
    BY <2>1 DEF Fits
<1>9. Fits(S049)
  <2>1. /\ Len(S049) = 1
        /\ S049[1].want = "rejected" /\ ~S049[1].gated
    BY DEF S049, Plain
  <2> QED
    BY <2>1 DEF Fits
<1>10. Fits(S050)
  <2>1. /\ Len(S050) = 1
        /\ S050[1].want = "rejected" /\ ~S050[1].gated
    BY DEF S050, Plain
  <2> QED
    BY <2>1 DEF Fits
<1>11. Fits(S054)
  <2>1. /\ Len(S054) = 2
        /\ S054[1].want = "admitted" /\ ~S054[1].gated /\ S054[2].op = "replay"
    BY DEF S054, Plain, Replay
  <2> QED
    BY <2>1 DEF Fits
<1>12. Fits(S055)
  <2>1. /\ Len(S055) = 2
        /\ S055[1].op = "pinOld" /\ S055[2].want = "rejected" /\ ~S055[2].gated
    BY DEF S055, Plain, PinOld
  <2> QED
    BY <2>1 DEF Fits
<1> QED
  BY <1>1, <1>2, <1>3, <1>4, <1>5, <1>6, <1>7, <1>8, <1>9, <1>10, <1>11, <1>12

\* The steps of the envelope scenarios that show a check each.
LEMMA EnvelopePlaces ==
  /\ Len(S031) = 2 /\ S031[2] = [Plain(Zero) EXCEPT !.work = "under", !.want = "rejected"]
  /\ Len(S032) = 3 /\ S032[3] = [Plain(Zero) EXCEPT !.work = "seen"]
  /\ Len(S041) = 1 /\ S041[1] = Plain("w041")
  /\ Len(S043) = 4 /\ S043[3] = [Plain("w043") EXCEPT !.block = "aged"]
  /\ Len(S048) = 2 /\ S048[2] = WaitReceipt("success")
  /\ Len(S049) = 1 /\ S049[1] = [Plain(Zero) EXCEPT !.tamper = "flip", !.want = "rejected"]
  /\ Len(S050) = 1 /\ S050[1] = [Plain(Zero) EXCEPT !.scheme = "MinRoot", !.want = "rejected"]
  /\ Len(S054) = 2 /\ S054[2] = Replay("NullifierAlreadyUsed")
  /\ Len(S055) = 2 /\ S055[2] = [Plain(Zero) EXCEPT !.block = "old", !.want = "rejected"]
  BY DEF S031, S032, S041, S043, S048, S049, S050, S054, S055

LEMMA GreenShows ==
  ASSUME UInv, ShowInv, Green, rolls = 0, Suite = EnvelopeSuite
  PROVE  Checks \ {"nonce", "lane", "gate"} \subseteq node
<1>1. /\ Len(Suite) = 11 /\ Scenarios = 1..11 /\ at > 11 /\ at \in Nat
      /\ \A i \in Scenarios : verdict[i] = "pass"
  <2>1. at \in 1..(Len(Suite) + 1) /\ Len(Suite) = 11
    BY EnvelopeSteps DEF UInv, TypeOK, ScriptTypeOK
  <2> QED
    BY <2>1 DEF Green, Ended, Scenarios
<1>2. \A i \in 1..11 : \A k \in 1..Len(EnvelopeSuite[i]) : Shown(EnvelopeSuite[i][k])
  <2> SUFFICES ASSUME NEW i \in 1..11, NEW k \in 1..Len(EnvelopeSuite[i])
               PROVE  Shown(EnvelopeSuite[i][k])
    OBVIOUS
  <2>1. Fits(Suite[i]) /\ i < at /\ i \in Scenarios /\ k \in 1..Len(Suite[i])
    BY <1>1, EnvelopeSteps
  <2>2. Gone(i, k)
    BY <1>1, <2>1 DEF Gone, Fits
  <2> QED
    BY <1>1, <2>1, <2>2 DEF ShowInv
<1>3. /\ Shown(S031[2]) /\ Shown(S032[3]) /\ Shown(S041[1]) /\ Shown(S043[3]) /\ Shown(S048[2])
      /\ Shown(S049[1]) /\ Shown(S050[1]) /\ Shown(S054[2]) /\ Shown(S055[2])
  <2>1. ASSUME NEW i \in 1..11, NEW b, b = EnvelopeSuite[i], NEW k \in 1..Len(b), NEW s, s = b[k]
        PROVE  Shown(s)
    BY <1>2, <2>1
  <2>2. /\ EnvelopeSuite[1] = S031 /\ EnvelopeSuite[2] = S032 /\ EnvelopeSuite[3] = S041
        /\ EnvelopeSuite[5] = S043 /\ EnvelopeSuite[7] = S048 /\ EnvelopeSuite[8] = S049
        /\ EnvelopeSuite[9] = S050 /\ EnvelopeSuite[10] = S054 /\ EnvelopeSuite[11] = S055
    BY DEF EnvelopeSuite
  <2>3. Shown(S031[2])
    <3>1. 1 \in 1..11 /\ 2 \in 1..Len(S031)
      BY EnvelopePlaces
    <3> QED
      BY <2>1, <2>2, <3>1
  <2>4. Shown(S032[3])
    <3>1. 2 \in 1..11 /\ 3 \in 1..Len(S032)
      BY EnvelopePlaces
    <3> QED
      BY <2>1, <2>2, <3>1
  <2>5. Shown(S041[1])
    <3>1. 3 \in 1..11 /\ 1 \in 1..Len(S041)
      BY EnvelopePlaces
    <3> QED
      BY <2>1, <2>2, <3>1
  <2>6. Shown(S043[3])
    <3>1. 5 \in 1..11 /\ 3 \in 1..Len(S043)
      BY EnvelopePlaces
    <3> QED
      BY <2>1, <2>2, <3>1
  <2>7. Shown(S048[2])
    <3>1. 7 \in 1..11 /\ 2 \in 1..Len(S048)
      BY EnvelopePlaces
    <3> QED
      BY <2>1, <2>2, <3>1
  <2>8. Shown(S049[1])
    <3>1. 8 \in 1..11 /\ 1 \in 1..Len(S049)
      BY EnvelopePlaces
    <3> QED
      BY <2>1, <2>2, <3>1
  <2>9. Shown(S050[1])
    <3>1. 9 \in 1..11 /\ 1 \in 1..Len(S050)
      BY EnvelopePlaces
    <3> QED
      BY <2>1, <2>2, <3>1
  <2>10. Shown(S054[2])
    <3>1. 10 \in 1..11 /\ 2 \in 1..Len(S054)
      BY EnvelopePlaces
    <3> QED
      BY <2>1, <2>2, <3>1
  <2>11. Shown(S055[2])
    <3>1. 11 \in 1..11 /\ 2 \in 1..Len(S055)
      BY EnvelopePlaces
    <3> QED
      BY <2>1, <2>2, <3>1
  <2> QED
    BY <2>3, <2>4, <2>5, <2>6, <2>7, <2>8, <2>9, <2>10, <2>11
<1>4. Zero \in AttesterKeys /\ "w041" \notin AttesterKeys
  BY UsersAssumption, WalletsAssumption DEF Wallets
<1>5. "open" \in node
  <2> PICK s : s = S041[1]
    OBVIOUS
  <2>1. Submits(s) /\ s.want = "admitted" /\ s.by = "w041"
    BY EnvelopePlaces DEF Submits, Plain
  <2> QED
    BY <1>3, <1>4, <2>1 DEF Shown
<1>6. "aged" \in node
  <2> PICK s : s = S043[3]
    OBVIOUS
  <2>1. Submits(s) /\ s.want = "admitted" /\ s.block = "aged"
    BY EnvelopePlaces DEF Submits, Plain
  <2> QED
    BY <1>3, <1>4, <2>1 DEF Shown
<1>7. "execute" \in node
  <2> PICK s : s = S048[2]
    OBVIOUS
  <2>1. s.op = "receipt" /\ s.want = "success"
    BY EnvelopePlaces DEF WaitReceipt
  <2> QED
    BY <1>3, <1>4, <2>1 DEF Shown
<1>8. "nullifier" \in node
  <2> PICK s : s = S054[2]
    OBVIOUS
  <2>1. s.op = "replay"
    BY EnvelopePlaces DEF Replay
  <2> QED
    BY <1>3, <1>4, <2>1 DEF Shown
<1>9. {"proof", "threshold"} \subseteq node
  BY <1>3, <1>4, <1>6, EnvelopePlaces DEF Shown
<1>10. "scheme" \in node
  BY <1>3, <1>4, <1>6, EnvelopePlaces DEF Shown
<1>11. "fresh" \in node
  BY <1>3, <1>4, <1>6, EnvelopePlaces DEF Shown
<1>12. "previous" \in node
  <2> PICK s : s = S032[3]
    OBVIOUS
  <2>1. Submits(s) /\ s.want = "admitted" /\ s.work = "seen"
    BY EnvelopePlaces DEF Submits, Plain
  <2> QED
    BY <1>3, <1>9, <2>1 DEF Shown
<1> QED
  BY <1>5, <1>6, <1>7, <1>8, <1>9, <1>10, <1>11, <1>12 DEF Checks

\* A run in which every envelope scenario has passed, and whose difficulty has changed only
\* where S032 changes it, shows nine checks of the node.  Each scenario is refused, or
\* admitted, for what it is about: the others' envelopes in the pool, the blocks between
\* the reads of submit_enveloped and whatever else the node lacks explain none of it.
THEOREM GreenEnvelopesMeanChecked == Spec => []GreenMeansChecked
<1>1. Spec => [](UInv /\ ShowInv)
  <2>1. Init => UInv /\ ShowInv
    BY UInvInit, ShowInit
  <2>2. UInv /\ ShowInv /\ [Next]_vars => UInv' /\ ShowInv'
    BY UInvNext, ShowNext
  <2> QED
    BY <2>1, <2>2, PTL DEF Spec
<1>2. UInv /\ ShowInv => GreenMeansChecked
  BY GreenShows DEF GreenMeansChecked
<1> QED
  BY <1>1, <1>2, PTL


-----------------------------------------------------------------------------
(* What a wallet mints.                                                    *)

\* A wallet's call of the agents pool, and the rule for it: its receipt must say reverted.
WalletCall(s) == Submits(s) /\ s.gated /\ s.by \notin AttesterKeys

Watched(b) ==
  \A k \in 1..Len(b) : WalletCall(b[k]) =>
    k < Len(b) /\ b[k + 1].op = "receipt" /\ b[k + 1].want = "reverted"

Watchful == \A n \in DOMAIN Suites : \A i \in DOMAIN Suites[n] : Watched(Suites[n][i])

\* The contracts take a wallet for an attester.
Ungated == "execute" \in node /\ "gate" \notin node

\* What wallets have sent that is on chain, or may come to be there.
Sending(w) == w \in landed \/ \E e \in pool : e.gated /\ e.signer = w

\* The scenario waits for the receipt of a call of `w`; a fault has hit it, or it has failed.
Waits(i, w) ==
  i = at /\ step > 1 /\ WalletCall(Suite[at][step - 1]) /\ Suite[at][step - 1].by = w
Told(i, w) == i \in faulted \/ verdict[i] = "fail" \/ Waits(i, w)

MintInv ==
  /\ landed \subseteq AttesterKeys \/ Ungated
  /\ Ungated => \A w \in Signers \ AttesterKeys : Sending(w) =>
       \E i \in Scenarios : CallsFor(i, w) /\ Told(i, w)

LEMMA MintInit == Init => MintInv
  BY DEF Init, LaneInit, MintInv, Sending

\* A step of a body ends, or its last one; what it has pooled for a wallet it waits for, or
\* a fault has hit it; and a body that waits goes on with a failure only.
LEMMA MintTurn ==
  ASSUME UInv, MintInv, InBody, UNCHANGED <<node, landed>>,
         faulted' = faulted \/ faulted' = faulted \cup {at},
         \/ UNCHANGED pool
         \/ \E e \in Envelope : /\ pool' = pool \cup {e}
                                /\ e.gated /\ e.signer \notin AttesterKeys =>
                                     /\ WalletCall(Now) /\ Now.by = e.signer
                                     /\ Onward \/ Over("fail") \/ at \in faulted',
         Onward \/ Over("pass") \/ Over("fail"),
         Ungated /\ step > 1 /\ WalletCall(Suite[at][step - 1]) => Over("fail") \/ at \in faulted'
  PROVE  MintInv'
<1>1. /\ at \in Scenarios /\ step \in 1..Len(Suite[at]) /\ Len(Suite[at]) \in Nat
      /\ verdict \in [Scenarios -> {"todo", "pass", "fail"}] /\ Now = Suite[at][step]
      /\ at \in Nat /\ verdict[at] = "todo"
  BY SuiteShape DEF UInv, TypeOK, ScriptTypeOK, SuiteIs, InBody, Scenarios, Now, MidInv
<1>2. Suite' = Suite /\ Scenarios' = Scenarios /\ \A i, w : CallsFor(i, w)' <=> CallsFor(i, w)
  BY DEF Onward, Over, Suite, Scenarios, CallsFor
<1>3. landed' \subseteq AttesterKeys \/ Ungated'
  BY DEF MintInv, Ungated
<1>4. ASSUME Ungated', NEW w \in Signers \ AttesterKeys, Sending(w)'
      PROVE  \E i \in Scenarios : CallsFor(i, w) /\ Told(i, w)'
  <2>1. Ungated
    BY <1>4 DEF Ungated
  <2>2. CASE Sending(w)
    <3>1. PICK i \in Scenarios : CallsFor(i, w) /\ Told(i, w)
      BY <2>1, <2>2 DEF MintInv
    <3>2. CASE i \in faulted
      BY <3>1, <3>2 DEF Told
    <3>3. CASE verdict[i] = "fail"
      <4>1. i # at
        BY <1>1, <3>3
      <4>2. verdict'[i] = "fail"
        BY <1>1, <3>3, <4>1 DEF Onward, Over
      <4> QED
        BY <3>1, <4>2 DEF Told
    <3>4. CASE Waits(i, w)
      <4>1. i = at /\ (Over("fail") \/ at \in faulted')
        BY <2>1, <3>4 DEF Waits
      <4>2. Over("fail") => verdict'[at] = "fail"
        BY <1>1 DEF Over
      <4> QED
        BY <3>1, <4>1, <4>2 DEF Told
    <3> QED
      BY <3>1, <3>2, <3>3, <3>4 DEF Told
  <2>3. CASE ~Sending(w)
    <3>1. PICK e \in Envelope : /\ pool' = pool \cup {e}
                                /\ e.gated /\ e.signer \notin AttesterKeys =>
                                     /\ WalletCall(Now) /\ Now.by = e.signer
                                     /\ Onward \/ Over("fail") \/ at \in faulted'
      BY <1>4, <2>3 DEF Sending
    <3>2. e.gated /\ e.signer = w
      BY <1>4, <2>3, <3>1 DEF Sending
    <3>3. /\ WalletCall(Now) /\ Now.by = w
          /\ Onward \/ Over("fail") \/ at \in faulted'
      BY <3>1, <3>2
    <3>4. PICK i \in Scenarios : i = at
      BY <1>1
    <3>5. CallsFor(i, w)
      BY <1>1, <3>3, <3>4 DEF CallsFor, WalletCall
    <3>6. Told(i, w)'
      <4>1. CASE Onward
        <5>1. at' = at /\ step' = step + 1 /\ step + 1 > 1 /\ (step + 1) - 1 = step
          BY <1>1, <4>1 DEF Onward
        <5>2. Suite'[at'][step' - 1] = Now /\ step' > 1 /\ i = at'
          BY <1>1, <1>2, <3>4, <5>1
        <5>3. Waits(i, w)'
          BY <3>3, <5>2 DEF Waits, WalletCall
        <5> QED
          BY <5>3 DEF Told
      <4>2. CASE Over("fail")
        <5>1. verdict'[i] = "fail"
          BY <1>1, <3>4, <4>2 DEF Over
        <5> QED
          BY <5>1 DEF Told
      <4>3. CASE at \in faulted'
        BY <3>4, <4>3 DEF Told
      <4> QED
        BY <3>3, <4>1, <4>2, <4>3
    <3> QED
      BY <3>5, <3>6
  <2> QED
    BY <2>2, <2>3
<1> QED
  BY <1>2, <1>3, <1>4 DEF MintInv

\* What a body does at the step after a wallet's call: it looks at a receipt.
LEMMA LooksAtReceipt ==
  ASSUME UInv, Watchful, InBody, step > 1, WalletCall(Suite[at][step - 1])
  PROVE  Now.op = "receipt" /\ Now.want = "reverted" /\ mid = "ready"
<1>1. /\ suite \in DOMAIN Suites /\ at \in DOMAIN Suites[suite] /\ Suite[at] = Suites[suite][at]
      /\ step \in 1..Len(Suite[at]) /\ Len(Suite[at]) \in Nat /\ Now = Suite[at][step]
  BY SuiteShape DEF UInv, TypeOK, ScriptTypeOK, SuiteIs, InBody, Scenarios, Suite, Now
<1>2. step - 1 \in 1..Len(Suite[at]) /\ (step - 1) + 1 = step
  BY <1>1
<1>3. Watched(Suite[at])
  BY <1>1 DEF Watchful
<1>4. Now.op = "receipt" /\ Now.want = "reverted"
  BY <1>1, <1>2, <1>3 DEF Watched
<1> QED
  BY <1>4 DEF UInv, MidInv, Submits

LEMMA MintNext == UInv /\ Watchful /\ MintInv /\ [Next]_vars => MintInv'
<1> SUFFICES ASSUME UInv, Watchful, MintInv, [Next]_vars PROVE MintInv'
  OBVIOUS
<1>1. CASE Block
  <2>1. PICK taken \in SUBSET pool :
          /\ pool' = pool \ taken
          /\ landed' = landed \cup {e.signer : e \in {f \in taken : f.gated /\ Succeeds(f)}}
    BY <1>1 DEF Block, Mine
  <2>2. UNCHANGED <<node, suite, at, step, verdict, faulted>> /\ landed \subseteq Signers
    BY <1>1 DEF Block, Mine, scriptVars, UInv, TypeOK, LaneTypeOK
  <2>3. \A f \in taken : f.gated /\ Succeeds(f) /\ f.signer \notin AttesterKeys => Ungated
    BY DEF Succeeds, Ungated
  <2>4. landed' \subseteq AttesterKeys \/ Ungated
    BY <2>1, <2>3 DEF MintInv
  <2>5. \A w : Sending(w)' => Sending(w)
    BY <2>1 DEF Sending
  <2>6. Scenarios' = Scenarios /\ \A i, w : /\ CallsFor(i, w)' <=> CallsFor(i, w)
                                           /\ Told(i, w)' <=> Told(i, w)
    BY <2>2 DEF Scenarios, Suite, CallsFor, Told, Waits
  <2>7. Ungated' <=> Ungated
    BY <2>2 DEF Ungated
  <2> QED
    BY <2>4, <2>5, <2>6, <2>7 DEF MintInv
<1>2. CASE ReadParameters \/ CountNonce \/ Epoch \/ UNCHANGED vars
  <2>1. UNCHANGED <<node, pool, landed, suite, at, step, verdict, faulted>>
    BY <1>2 DEF ReadParameters, CountNonce, Reach, Epoch, Roll, vars, laneVars, scriptVars
  <2>2. /\ Scenarios' = Scenarios /\ (Ungated' <=> Ungated)
        /\ \A i, w : /\ CallsFor(i, w)' <=> CallsFor(i, w)
                     /\ Told(i, w)' <=> Told(i, w)
        /\ \A w : Sending(w)' <=> Sending(w)
    BY <2>1 DEF Scenarios, Suite, CallsFor, Told, Waits, Sending, Ungated
  <2> QED
    BY <2>1, <2>2 DEF MintInv
<1>3. CASE Send
  <2>1. InBody /\ mid = "counted" /\ Judge(Wire) /\ UNCHANGED <<node, landed, faulted>>
    BY <1>3 DEF Send
  <2>2. /\ Submits(Now) /\ Wire \in Envelope /\ Wire.signer = Now.by /\ Wire.gated = Now.gated
    BY <2>1, OnTheWire
  <2>3. ~(step > 1 /\ WalletCall(Suite[at][step - 1]))
    BY <2>1, LooksAtReceipt
  <2>4. CASE Rejection(Wire) # "none"
    <3>1. UNCHANGED pool /\ (Advance \/ Pass \/ Fail)
      BY <2>1, <2>4 DEF Judge, Err
    <3>2. Onward \/ Over("pass") \/ Over("fail")
      BY <3>1, StepEnds
    <3> QED
      BY <2>1, <2>3, <3>1, <3>2, MintTurn
  <2>5. CASE Rejection(Wire) = "none"
    <3>1. pool' = pool \cup {Wire} /\ (Advance \/ Fail)
      BY <2>1, <2>5 DEF Judge, Admit
    <3>2. Onward \/ Over("pass") \/ Over("fail")
      BY <3>1, StepEnds
    <3>3. ASSUME Wire.gated, Wire.signer \notin AttesterKeys
          PROVE  WalletCall(Now) /\ Now.by = Wire.signer /\ (Onward \/ Over("fail"))
      <4>1. WalletCall(Now) /\ Now.by = Wire.signer
        BY <2>2, <3>3 DEF WalletCall
      <4>2. CASE Fail
        BY <4>1, <4>2 DEF Fail, End, Over
      <4>3. CASE Advance
        <5>1. suite \in DOMAIN Suites /\ at \in DOMAIN Suites[suite] /\ Suite[at] = Suites[suite][at]
              /\ step \in 1..Len(Suite[at]) /\ Now = Suite[at][step]
          BY <2>1, SuiteShape DEF UInv, TypeOK, ScriptTypeOK, SuiteIs, InBody, Scenarios, Suite, Now
        <5>2. step < Len(Suite[at])
          BY <4>1, <5>1 DEF Watchful, Watched
        <5> QED
          BY <4>1, <4>3, <5>2, StepEnds
      <4> QED
        BY <3>1, <4>2, <4>3
    <3>4. \E e \in Envelope : /\ pool' = pool \cup {e}
                              /\ e.gated /\ e.signer \notin AttesterKeys =>
                                   /\ WalletCall(Now) /\ Now.by = e.signer
                                   /\ Onward \/ Over("fail") \/ at \in faulted'
      BY <2>2, <3>1, <3>3
    <3> QED
      BY <2>1, <2>3, <3>2, <3>4, MintTurn
  <2> QED
    BY <2>4, <2>5
<1>4. CASE SubmitFault
  <2>1. /\ InBody /\ (Fail \/ Pass) /\ UNCHANGED <<node, landed>> /\ faulted' = faulted \cup {at}
        /\ UNCHANGED pool \/ (mid = "counted" /\ pool' = pool \cup {Wire})
    BY <1>4 DEF SubmitFault, Err, Admit, Faulty
  <2>2. mid = "counted" => /\ Submits(Now) /\ Wire \in Envelope
                           /\ Wire.signer = Now.by /\ Wire.gated = Now.gated
    BY <2>1, OnTheWire
  <2>3. at \in faulted' /\ (Onward \/ Over("pass") \/ Over("fail"))
    BY <2>1, StepEnds
  <2>4. \/ UNCHANGED pool
        \/ \E e \in Envelope : /\ pool' = pool \cup {e}
                               /\ e.gated /\ e.signer \notin AttesterKeys =>
                                    /\ WalletCall(Now) /\ Now.by = e.signer
                                    /\ Onward \/ Over("fail") \/ at \in faulted'
    BY <2>1, <2>2, <2>3 DEF WalletCall
  <2> QED
    BY <2>1, <2>3, <2>4, MintTurn
<1>5. CASE Resend
  <2>1. /\ InBody /\ Now.op = "replay" /\ Judge(body.captured) /\ UNCHANGED <<node, landed, faulted>>
        /\ Now.want = "NullifierAlreadyUsed"
    BY <1>5, NowKeeps DEF Resend, Doing, UInv, TypeOK
  <2>2. UNCHANGED pool /\ (Fail \/ Advance)
    BY <2>1, NeverAgain DEF Judge, Err
  <2>3. Onward \/ Over("pass") \/ Over("fail")
    BY <2>2, StepEnds
  <2>4. ~(step > 1 /\ WalletCall(Suite[at][step - 1]))
    BY <2>1, LooksAtReceipt
  <2> QED
    BY <2>1, <2>2, <2>3, <2>4, MintTurn
<1>6. CASE Receipt
  <2>1. /\ InBody /\ Now.op = "receipt" /\ UNCHANGED <<node, landed, pool, faulted>>
        /\ IF /\ Now.want = "success" => Succeeds(body.sent)
              /\ Now.want = "reverted" => ~Succeeds(body.sent)
             THEN Advance ELSE Fail
    BY <1>6 DEF Receipt, Doing, laneVars
  <2>2. body.sent.signer = Suite[at][step - 1].by /\ body.sent.gated = Suite[at][step - 1].gated
    BY <2>1 DEF UInv, PlaceInv, SentInv
  <2>3. ASSUME Ungated, step > 1, WalletCall(Suite[at][step - 1]) PROVE Over("fail")
    <3>1. Succeeds(body.sent)
      BY <2>2, <2>3 DEF Succeeds, Ungated, WalletCall
    <3>2. Now.want = "reverted"
      BY <2>1, <2>3, LooksAtReceipt
    <3>3. Fail
      BY <2>1, <3>1, <3>2
    <3> QED
      BY <3>3 DEF Fail, End, Over
  <2>4. Onward \/ Over("pass") \/ Over("fail")
    BY <2>1, StepEnds
  <2> QED
    BY <2>1, <2>3, <2>4, MintTurn
<1>7. CASE Read \/ Advanced \/ Pinned \/ PinnedOld \/ Aged
  <2>1. /\ InBody /\ Now.op # "receipt" /\ UNCHANGED <<node, pool, landed, faulted>> /\ (Advance \/ Fail)
    BY <1>7 DEF Read, Advanced, Pinned, PinnedOld, Aged, Doing, laneVars
  <2>2. Onward \/ Over("pass") \/ Over("fail")
    BY <2>1, StepEnds
  <2>3. ~(step > 1 /\ WalletCall(Suite[at][step - 1]))
    BY <2>1, LooksAtReceipt
  <2> QED
    BY <2>1, <2>2, <2>3, MintTurn
<1>8. CASE BodyFault \/ AdvanceLost
  <2>1. InBody /\ Over("fail") /\ UNCHANGED <<node, pool, landed>> /\ faulted' = faulted \cup {at}
    BY <1>8 DEF BodyFault, AdvanceLost, Doing, Fault, Faulty, Fail, End, Over, laneVars
  <2> QED
    BY <2>1, MintTurn
<1> QED
  BY <1>1, <1>2, <1>3, <1>4, <1>5, <1>6, <1>7, <1>8 DEF Next, SubmitStep, BodyStep, ChainStep

\* The suites the source has watch their wallets.
LEMMA OursAreWatched ==
  /\ \A i \in DOMAIN WalletSuite : Watched(WalletSuite[i])
  /\ \A i \in DOMAIN EnvelopeSuite : Watched(EnvelopeSuite[i])
<1>1. ASSUME NEW key PROVE Watched(WalletCannot(key))
  <2>1. /\ Len(WalletCannot(key)) = 2
        /\ WalletCannot(key)[2] = WaitReceipt("reverted")
    BY DEF WalletCannot
  <2>2. ~WalletCall(WalletCannot(key)[2]) /\ WaitReceipt("reverted").op = "receipt"
        /\ WaitReceipt("reverted").want = "reverted"
    BY <2>1 DEF WaitReceipt, WalletCall, Submits
  <2> QED
    BY <2>1, <2>2 DEF Watched
<1>2. Watched(S006)
  <2>1. Len(S006) = 2 /\ S006[1].by = Zero /\ S006[2].op = "receipt"
    BY DEF S006, WaitReceipt, Plain
  <2>2. \A k \in 1..2 : ~WalletCall(S006[k])
    BY <2>1, UsersAssumption DEF WalletCall, Submits
  <2> QED
    BY <2>1, <2>2 DEF Watched
<1>3. /\ DOMAIN WalletSuite = 1..4
      /\ WalletSuite[1] = WalletCannot("w003") /\ WalletSuite[2] = WalletCannot("w004")
      /\ WalletSuite[3] = WalletCannot("w005") /\ WalletSuite[4] = S006
  BY DEF WalletSuite, S003, S004, S005
<1>4. \A i \in 1..11 : Watched(EnvelopeSuite[i])
  BY EnvelopeSteps DEF Fits, Watched, WalletCall, Submits
<1>5. DOMAIN EnvelopeSuite = 1..11
  BY DEF EnvelopeSuite
<1> QED
  BY <1>1, <1>2, <1>3, <1>4, <1>5

\* No record that a wallet has minted goes unseen (s003:21) but for one whose answer was
\* lost, whatever checks the node lacks and however much else goes wrong: the receipt of a
\* call that can succeed says so, whichever of the wallet's calls it was.  Every wallet's
\* receipt must be looked at, as it is in the suites of the source.
THEOREM NoMintGoesUnseen ==
  ASSUME Watchful
  PROVE  Spec => []NoMintUnseen
<1>1. Init => UInv /\ MintInv
  BY UInvInit, MintInit
<1>2. UInv /\ MintInv /\ [Next]_vars => UInv' /\ MintInv'
  BY UInvNext, MintNext
<1>3. ASSUME UInv, MintInv, Green, NEW w \in landed \ AttesterKeys
      PROVE  \E i \in faulted : CallsFor(i, w)
  <2>1. at > Len(Suite) /\ at \in Nat /\ Len(Suite) \in Nat /\ \A i \in Scenarios : verdict[i] = "pass"
    BY <1>3, SuiteShape DEF Green, Ended, UInv, TypeOK, ScriptTypeOK, SuiteIs
  <2>2. w \in Signers /\ Ungated /\ Sending(w)
    BY <1>3 DEF MintInv, Sending, UInv, TypeOK, LaneTypeOK
  <2>3. PICK i \in Scenarios : CallsFor(i, w) /\ Told(i, w)
    BY <1>3, <2>2 DEF MintInv
  <2>4. i # at
    BY <2>1 DEF Scenarios
  <2> QED
    BY <2>1, <2>3, <2>4 DEF Told, Waits
<1>4. UInv /\ MintInv => NoMintUnseen
  BY <1>3 DEF NoMintUnseen
<1> QED
  BY <1>1, <1>2, <1>4, PTL DEF Spec

=============================================================================
