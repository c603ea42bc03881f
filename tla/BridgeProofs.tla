----------------------------- MODULE BridgeProofs -----------------------------
(***************************************************************************)
(* Proofs about the bridge, for every set of calls, records and            *)
(* transactions, every channel capacity and every sender.                  *)
(***************************************************************************)
EXTENDS Bridge, Integers, TLAPS

-----------------------------------------------------------------------------
(* The inductive invariant, in named parts.                                *)

\* A request in the channel is untouched, and it is there once.
QueueInv ==
  /\ \A i \in 1..Len(queue) :
       /\ phase[queue[i]] \in {"awaiting", "cancelled"}
       /\ mailbox[queue[i]] = "open"
       /\ txState[queue[i]] = "unsent"
       /\ queue[i] # cur
  /\ \A i, j \in 1..Len(queue) : queue[i] = queue[j] => i = j

\* The request being served has a caller that has not been answered.
CurInv ==
  /\ cur = NoOne <=> loop \in {"idle", "exited", "dead"}
  /\ cur # NoOne => /\ phase[cur] \in {"awaiting", "cancelled"}
                    /\ mailbox[cur] = "open"

\* Where the transaction of the request being served stands at each step of
\* handle_mint.
StageInv ==
  /\ loop \in {"issuing", "preflight"} => txState[cur] = "unsent"
  /\ loop = "broadcast" => txState[cur] = "checked"
  /\ loop = "polling" => txState[cur] \in {"pool", "ok", "reverted"}
  /\ loop = "replying" => /\ txState[cur] # "checked"
                          /\ res = "ok" => txState[cur] = "ok"
                          /\ res = "crypto" => txState[cur] = "unsent"

\* What a caller holds, or is about to, agrees with the chain.
CallerInv(c) ==
  /\ phase[c] \in {"new", "sending"} => mailbox[c] = "open" /\ txState[c] = "unsent"
  /\ "ok" \in {phase[c], mailbox[c]} => txState[c] = "ok"
  /\ "crypto" \in {phase[c], mailbox[c]} => txState[c] = "unsent"
  /\ mailbox[c] = "dropped" => loop = "dead"
  /\ phase[c] = "closed" => loop = "dead" \/ txState[c] = "unsent"
  /\ phase[c] = "awaiting" /\ mailbox[c] = "open" =>
       cur = c \/ \E i \in 1..Len(queue) : queue[i] = c
  /\ txState[c] = "checked" => loop = "dead" \/ cur = c

\* Whoever is using a sender has it.
SenderInv ==
  /\ \A c \in Calls : InFlight(c) /\ Via[c] = Handle => handle = "held"
  /\ \A c \in Calls : phase[c] = "sending" /\ Via[c] # Handle => Via[c] \in clones
  /\ loop = "exited" => handle # "held" /\ clones = {} /\ queue = <<>>
  /\ loop = "dead" => queue = <<>>

\* The records of a unit are spent on it.
SpentInv ==
  \A t \in Txs : Body[t].kind = "mint" /\ txState[t] = "ok" =>
    \A r \in Body[t].recs : spentBy[r] = t

IInv ==
  /\ TypeOK
  /\ QueueInv
  /\ CurInv
  /\ StageInv
  /\ \A c \in Calls : CallerInv(c)
  /\ SenderInv
  /\ SpentInv

-----------------------------------------------------------------------------
(* Type correctness.                                                       *)

\* Every variable keeps its type, whatever the callers, the loop and the chain do.
LEMMA TypeStep == TypeOK /\ [Next]_vars => TypeOK'
<1> SUFFICES ASSUME TypeOK, [Next]_vars PROVE TypeOK'
  OBVIOUS
<1> USE ChainAssumption, BridgeAssumption
        DEF TypeOK, ChainTypeOK, MemberTypeOK, chainVars, memberVars, recordVars, bridgeVars,
            Phases, Outcomes, LoopStates, TxStates
<1>1. ASSUME NEW c \in Calls, StartCall(c) PROVE TypeOK'
  BY <1>1 DEF StartCall
<1>2. ASSUME NEW c \in Calls, Cancel(c) PROVE TypeOK'
  BY <1>2 DEF Cancel
<1>3. ASSUME NEW c \in Calls, Enqueue(c) PROVE TypeOK'
  BY <1>3 DEF Enqueue
<1>4. ASSUME NEW c \in Calls, EnqueueFails(c) PROVE TypeOK'
  BY <1>4 DEF EnqueueFails
<1>5. ASSUME NEW c \in Calls, TakeReply(c) PROVE TypeOK'
  BY <1>5 DEF TakeReply
<1>6. ASSUME NEW h \in Holders, CloneSender(h) \/ DropClone(h) PROVE TypeOK'
  BY <1>6 DEF CloneSender, DropClone
<1>7. CASE Shutdown \/ JoinReturns \/ DropBridge
  BY <1>7 DEF Shutdown, JoinReturns, DropBridge
<1>8. CASE Recv
  BY <1>8 DEF Recv
<1>9. CASE LoopExit \/ Issue
  BY <1>9 DEF LoopExit, Issue, Return
<1>10. CASE MintPreflight
  BY <1>10 DEF MintPreflight, Preflight, Return
<1>11. CASE MintBroadcast
  BY <1>11 DEF MintBroadcast, Broadcast, BroadcastFails, Return
<1>12. CASE PollReceipt \/ PollTimeout \/ PollFails
  BY <1>12 DEF PollReceipt, PollTimeout, PollFails, Return
<1>13. CASE Reply
  BY <1>13 DEF Reply
<1>14. CASE LoopDies
  BY <1>14 DEF LoopDies, Held
<1>15. ASSUME NEW t \in Txs, OtherClient(t) PROVE TypeOK'
  BY <1>15 DEF OtherClient, Preflight, Broadcast, BroadcastFails
<1>16. ASSUME NEW t \in Txs, Include(t), UNCHANGED bridgeVars PROVE TypeOK'
  <2>1. txState' \in [Txs -> TxStates]
    BY <1>16 DEF Include
  <2>2. Body[t].by \in Attesters
    BY DEF TxBodies
  <2>3. filedBy' \in [Records -> Attesters \cup {NoOne}]
    BY <1>16, <2>2 DEF Include
  <2>4. spentBy' \in [Records -> Txs \cup {NoOne}]
    BY <1>16 DEF Include
  <2> QED BY <1>16, <2>1, <2>3, <2>4 DEF Include
<1>17. ASSUME MembersChange, UNCHANGED bridgeVars PROVE TypeOK'
  <2>1. CASE Finalize
    <3>1. members' \in SUBSET Attesters /\ backlog' \in Seq(SUBSET Attesters)
      BY <2>1 DEF Finalize
    <3> QED BY <1>17, <2>1, <3>1 DEF MembersChange, Finalize
  <2>2. ASSUME NEW a \in Attesters, SetActive(a) PROVE TypeOK'
    <3>1. active' \in SUBSET Attesters
      BY <2>2 DEF SetActive, HeadBecomes
    <3>2. backlog' \in Seq(SUBSET Attesters)
      BY <2>2, <3>1 DEF SetActive, HeadBecomes
    <3> QED BY <1>17, <2>2, <3>1, <3>2 DEF MembersChange, SetActive, HeadBecomes
  <2> QED BY <1>17, <2>1, <2>2 DEF MembersChange
<1>18. CASE UNCHANGED vars
  BY <1>18 DEF vars
<1> QED
  BY <1>1, <1>2, <1>3, <1>4, <1>5, <1>6, <1>7, <1>8, <1>9, <1>10, <1>11, <1>12, <1>13, <1>14,
     <1>15, <1>16, <1>17, <1>18
     DEF Next, CallerStep, LoopStep, LoopTurn, ChainStep

\* Type correctness of the bridge.
THEOREM TypeCorrect == Spec => []TypeOK
<1>1. Init => TypeOK
  BY ChainAssumption, BridgeAssumption
     DEF Init, ChainInit, MemberInit, TypeOK, ChainTypeOK, MemberTypeOK, Phases, Outcomes,
         LoopStates, TxStates
<1> QED BY <1>1, TypeStep, PTL DEF Spec

-----------------------------------------------------------------------------
(* The invariant is inductive.                                             *)

\* The initial states satisfy the invariant.
LEMMA InvInit == Init => IInv
  BY ChainAssumption, BridgeAssumption
     DEF Init, ChainInit, MemberInit, IInv, TypeOK, ChainTypeOK, MemberTypeOK, QueueInv, CurInv,
         StageInv, CallerInv, SenderInv, SpentInv, InFlight, Phases, Outcomes, LoopStates, TxStates

\* Steps of the callers.
LEMMA CallerStepInv ==
  ASSUME IInv, TypeOK', NEW c \in Calls, StartCall(c) \/ Cancel(c) \/ CallerStep(c)
  PROVE  IInv'
<1> USE ChainAssumption, BridgeAssumption
        DEF IInv, TypeOK, ChainTypeOK, chainVars, memberVars, recordVars, QueueInv,
            CurInv, StageInv, CallerInv, SenderInv, SpentInv, InFlight, ReceiverAlive, Phases,
            Outcomes, LoopStates
<1>1. CASE StartCall(c)
  BY <1>1 DEF StartCall
<1>2. CASE Cancel(c)
  BY <1>2 DEF Cancel
<1>3. CASE Enqueue(c)
  BY <1>3 DEF Enqueue
<1>4. CASE EnqueueFails(c)
  BY <1>4 DEF EnqueueFails
<1>5. CASE TakeReply(c)
  BY <1>5 DEF TakeReply
<1> QED BY <1>1, <1>2, <1>3, <1>4, <1>5 DEF CallerStep

\* Steps on the sender side of the channel.
LEMMA SenderStepInv ==
  ASSUME IInv, TypeOK',
         \/ \E h \in Holders : CloneSender(h) \/ DropClone(h)
         \/ Shutdown \/ JoinReturns \/ DropBridge
  PROVE  IInv'
<1> USE ChainAssumption, BridgeAssumption
        DEF IInv, TypeOK, ChainTypeOK, chainVars, memberVars, recordVars, QueueInv,
            CurInv, StageInv, CallerInv, SenderInv, SpentInv, InFlight, ReceiverAlive, Phases,
            Outcomes, LoopStates
<1>1. ASSUME NEW h \in Holders, CloneSender(h) PROVE IInv'
  BY <1>1 DEF CloneSender
<1>2. ASSUME NEW h \in Holders, DropClone(h) PROVE IInv'
  BY <1>2 DEF DropClone
<1>3. CASE Shutdown
  BY <1>3 DEF Shutdown, Unborrowed
<1>4. CASE JoinReturns
  BY <1>4 DEF JoinReturns
<1>5. CASE DropBridge
  BY <1>5 DEF DropBridge, Unborrowed
<1> QED BY <1>1, <1>2, <1>3, <1>4, <1>5

\* Steps of the background task.
LEMMA LoopStepInv ==
  ASSUME IInv, TypeOK', LoopStep \/ LoopDies
  PROVE  IInv'
<1> USE ChainAssumption, BridgeAssumption
        DEF IInv, TypeOK, ChainTypeOK, chainVars, memberVars, recordVars, QueueInv,
            CurInv, StageInv, CallerInv, SenderInv, SpentInv, InFlight, ReceiverAlive, Phases,
            Outcomes, LoopStates
<1>1. CASE Recv
  <2>1. /\ queue \in Seq(Calls) /\ queue # <<>>
        /\ cur' = queue[1] /\ cur' \in Calls
        /\ Len(queue') = Len(queue) - 1
        /\ \A i \in 1..Len(queue') : i + 1 \in 1..Len(queue) /\ queue'[i] = queue[i + 1]
    BY <1>1 DEF Recv
  <2>2. /\ cur' # NoOne /\ cur = NoOne /\ 1 \in 1..Len(queue)
        /\ loop = "idle" /\ loop' = "issuing"
        /\ UNCHANGED <<phase, mailbox, txState, spentBy, handle, clones>>
    BY <1>1, <2>1 DEF Recv
  <2>3. QueueInv'
    <3>1. ASSUME NEW i \in 1..Len(queue')
          PROVE  /\ phase'[queue'[i]] \in {"awaiting", "cancelled"}
                 /\ mailbox'[queue'[i]] = "open"
                 /\ txState'[queue'[i]] = "unsent"
                 /\ queue'[i] # cur'
      <4>1. i \in Int /\ i + 1 \in 1..Len(queue) /\ i + 1 # 1 /\ queue'[i] = queue[i + 1]
        BY <2>1
      <4> QED BY <2>1, <2>2, <4>1
    <3>2. ASSUME NEW i \in 1..Len(queue'), NEW j \in 1..Len(queue'), queue'[i] = queue'[j]
          PROVE  i = j
      <4>1. queue[i + 1] = queue[j + 1] /\ i + 1 \in 1..Len(queue) /\ j + 1 \in 1..Len(queue)
        BY <2>1, <3>2
      <4>2. i + 1 = j + 1
        BY <4>1
      <4> QED BY <4>2
    <3> QED BY <3>1, <3>2
  <2>4. CurInv' /\ StageInv'
    BY <2>1, <2>2
  <2>5. ASSUME NEW c \in Calls PROVE CallerInv(c)'
    <3>1. ASSUME NEW i \in 1..Len(queue), i # 1
          PROVE  i - 1 \in 1..Len(queue') /\ queue'[i - 1] = queue[i]
      <4>1. Len(queue) \in Nat /\ i \in Int /\ i - 1 \in 1..Len(queue')
        BY <2>1, <3>1
      <4>2. queue'[i - 1] = queue[(i - 1) + 1]
        BY <2>1, <4>1
      <4> QED BY <4>1, <4>2
    <3>2. phase[c] = "awaiting" /\ mailbox[c] = "open" =>
            cur' = c \/ \E i \in 1..Len(queue') : queue'[i] = c
      <4> SUFFICES ASSUME phase[c] = "awaiting", mailbox[c] = "open"
                   PROVE  cur' = c \/ \E i \in 1..Len(queue') : queue'[i] = c
        OBVIOUS
      <4>1. PICK i \in 1..Len(queue) : queue[i] = c
        BY <2>2
      <4>2. CASE i = 1
        BY <2>1, <4>1, <4>2
      <4>3. CASE i # 1
        <5>1. i - 1 \in 1..Len(queue') /\ queue'[i - 1] = c
          BY ONLY <3>1, <4>1, <4>3
        <5> QED BY ONLY <5>1
      <4> QED BY <4>2, <4>3
    <3> QED BY <2>2, <3>2
  <2>6. SenderInv' /\ SpentInv'
    BY <2>2
  <2> QED BY <2>3, <2>4, <2>5, <2>6
<1>2. CASE LoopExit
  BY <1>2 DEF LoopExit
<1>3. CASE Issue
  BY <1>3 DEF Issue, Return
<1>4. CASE MintPreflight
  <2>1. CASE Preflight(cur) /\ loop' = "broadcast" /\ UNCHANGED res
    BY <1>4, <2>1 DEF MintPreflight, Preflight
  <2>2. CASE Return("mint") /\ UNCHANGED chainVars
    BY <1>4, <2>2 DEF MintPreflight, Return
  <2> QED BY <1>4, <2>1, <2>2 DEF MintPreflight
<1>5. CASE MintBroadcast
  BY <1>5 DEF MintBroadcast, Broadcast, BroadcastFails, Return
<1>6. CASE PollReceipt \/ PollTimeout \/ PollFails
  BY <1>6 DEF PollReceipt, PollTimeout, PollFails, Return
<1>7. CASE Reply
  BY <1>7 DEF Reply
<1>8. CASE LoopDies
  BY <1>8 DEF LoopDies, Held
<1> QED BY <1>1, <1>2, <1>3, <1>4, <1>5, <1>6, <1>7, <1>8 DEF LoopStep, LoopTurn

\* Steps of the other clients and of the chain.
LEMMA ChainStepInv ==
  ASSUME IInv, TypeOK', ChainStep \/ \E t \in Txs : OtherClient(t)
  PROVE  IInv'
<1> USE ChainAssumption, BridgeAssumption
        DEF IInv, TypeOK, ChainTypeOK, recordVars, bridgeVars, QueueInv, CurInv, StageInv,
            CallerInv, SenderInv, SpentInv, InFlight, ReceiverAlive, Phases, Outcomes, LoopStates
<1>1. ASSUME NEW t \in Txs, OtherClient(t) PROVE IInv'
  BY <1>1 DEF OtherClient, Preflight, Broadcast, BroadcastFails
<1>2. ASSUME NEW t \in Txs, Include(t), UNCHANGED bridgeVars PROVE IInv'
  <2>1. /\ txState[t] = "pool"
        /\ \E s \in {"ok", "reverted"} : txState' = [txState EXCEPT ![t] = s]
    BY <1>2 DEF Include
  <2>2. QueueInv' /\ CurInv' /\ StageInv' /\ SenderInv'
    BY <1>2, <2>1
  <2>3. \A c \in Calls : CallerInv(c)'
    BY <1>2, <2>1
  <2>4. ASSUME NEW u \in Txs, Body[u].kind = "mint", txState'[u] = "ok",
               NEW r \in Body[u].recs
        PROVE  spentBy'[r] = u
    <3>1. r \in Records
      BY DEF TxBodies
    <3>2. CASE u = t
      BY <1>2, <2>1, <2>4, <3>1, <3>2 DEF Include
    <3>3. CASE u # t
      <4>1. txState[u] = "ok" /\ spentBy[r] = u
        BY <2>1, <2>4, <3>3
      <4>2. CASE Accepted(t) /\ Body[t].kind # "file"
        <5>1. r \notin Body[t].recs
          BY <4>1, <4>2 DEF Accepted, Refusal, MintRefusal, Duplicate
        <5> QED BY <1>2, <3>1, <4>1, <4>2, <5>1 DEF Include
      <4>3. CASE ~(Accepted(t) /\ Body[t].kind # "file")
        BY <1>2, <4>1, <4>3 DEF Include
      <4> QED BY <4>2, <4>3
    <3> QED BY <3>2, <3>3
  <2> QED BY <2>2, <2>3, <2>4
<1>3. ASSUME MembersChange, UNCHANGED bridgeVars PROVE IInv'
  <2>1. UNCHANGED <<filedBy, spentBy, txState, bridgeVars>>
    BY <1>3 DEF MembersChange
  <2> HIDE DEF TypeOK
  <2>2. /\ QueueInv' /\ CurInv' /\ StageInv' /\ SenderInv' /\ SpentInv'
        /\ \A c \in Calls : CallerInv(c)'
    BY <2>1
  <2> QED BY <2>2
<1> QED BY <1>1, <1>2, <1>3 DEF ChainStep

\* Every step of the bridge, its callers and the chain keeps the invariant.
LEMMA InvStep == IInv /\ [Next]_vars => IInv'
<1> SUFFICES ASSUME IInv, [Next]_vars PROVE IInv'
  OBVIOUS
<1>1. TypeOK'
  BY TypeStep DEF IInv
<1>2. CASE UNCHANGED vars
  BY <1>1, <1>2 DEF vars, chainVars, memberVars, recordVars, bridgeVars, IInv, QueueInv,
                    CurInv, StageInv, CallerInv, SenderInv, SpentInv, InFlight
<1>3. CASE Next
  BY <1>1, <1>3, CallerStepInv, SenderStepInv, LoopStepInv, ChainStepInv DEF Next
<1> QED BY <1>2, <1>3

\* The invariant holds in every reachable state.
THEOREM Invariant == Spec => []IInv
  BY InvInit, InvStep, PTL DEF Spec

-----------------------------------------------------------------------------
(* What the invariant says.                                                *)

\* A receipt is only ever given for a unit that exists and owns its records.
THEOREM ReceiptsAreTrue == Spec => []OkIsOnChain
<1>1. IInv => OkIsOnChain
  BY BridgeAssumption DEF IInv, CallerInv, SpentInv, OkIsOnChain
<1> QED BY <1>1, Invariant, PTL

\* A call that failed in the FFI has nothing in the pool and never will.
THEOREM CryptoSettles == Spec => []CryptoIsFinal
<1>1. IInv => CryptoIsFinal
  BY DEF IInv, CallerInv, CryptoIsFinal
<1> QED BY <1>1, Invariant, PTL

\* Every transaction that left the process is accounted for by an answer.
THEOREM NothingIsSilent == Spec => []NoSilentMint
<1>1. IInv => NoSilentMint
  <2> SUFFICES ASSUME IInv, NEW c \in Calls, txState[c] \in {"pool", "ok", "reverted"}
               PROVE  Accounted(c)
    BY DEF NoSilentMint
  <2>1. CallerInv(c) /\ phase[c] \in Phases /\ mailbox[c] \in {"open", "dropped"} \cup Outcomes
    BY DEF IInv, TypeOK
  <2>2. CASE phase[c] = "awaiting" /\ mailbox[c] = "open"
    <3>1. ASSUME NEW i \in 1..Len(queue), queue[i] = c PROVE FALSE
      BY <3>1 DEF IInv, QueueInv
    <3> QED BY <2>1, <2>2, <3>1 DEF CallerInv, Accounted
  <2>3. CASE ~(phase[c] = "awaiting" /\ mailbox[c] = "open")
    BY <2>1, <2>3 DEF CallerInv, Accounted, Phases, Outcomes
  <2> QED BY <2>2, <2>3
<1> QED BY <1>1, Invariant, PTL

\* Two mints of the bridge never overlap between estimate and broadcast.
THEOREM MintsAreSequential == Spec => []OneMintAtATime
<1>1. IInv => OneMintAtATime
  BY DEF IInv, CallerInv, OneMintAtATime
<1> QED BY <1>1, Invariant, PTL

\* When the loop has ended by itself, nobody is left waiting for it.
THEOREM CleanExit == Spec => []ExitIsClean
<1>1. IInv => ExitIsClean
  <2> SUFFICES ASSUME IInv, loop = "exited" PROVE ExitIsClean
    BY DEF ExitIsClean
  <2>1. queue = <<>> /\ handle # "held" /\ clones = {} /\ cur = NoOne
    BY DEF IInv, SenderInv, CurInv
  <2>2. ASSUME NEW c \in Calls, phase[c] = "awaiting" PROVE mailbox[c] \in Outcomes
    <3>1. mailbox[c] # "dropped"
      BY DEF IInv, CallerInv
    <3>2. mailbox[c] # "open"
      <4>1. cur # c
        BY <2>1, ChainAssumption, BridgeAssumption
      <4>2. ~\E i \in 1..Len(queue) : queue[i] = c
        BY <2>1
      <4> QED BY <2>2, <4>1, <4>2 DEF IInv, CallerInv
    <3> QED BY <3>1, <3>2 DEF IInv, TypeOK
  <2>3. ASSUME NEW c \in Calls PROVE phase[c] # "sending"
    BY <2>1, BridgeAssumption DEF IInv, SenderInv, InFlight
  <2> QED BY <2>1, <2>2, <2>3 DEF ExitIsClean
<1> QED BY <1>1, Invariant, PTL

-----------------------------------------------------------------------------
(* The bridge implements MintService.                                      *)

\* What a change of one caller's phase does to the answer it shows.
LEMMA AnswerChange ==
  ASSUME TypeOK, NEW c \in Calls, NEW p \in Phases,
         phase' = [phase EXCEPT ![c] = p], UNCHANGED txState
  PROVE  /\ AnswerHeld[c] = AnswerOf(phase[c])
         /\ AnswerHeld' = [AnswerHeld EXCEPT ![c] = AnswerOf(p)]
         /\ UNCHANGED MintedTxs
  BY DEF AnswerHeld, MintedTxs, TypeOK

\* A transaction that neither was nor becomes "ok" changes no unit.
LEMMA MintedUnchanged ==
  ASSUME TypeOK, NEW t \in Txs, NEW s, s # "ok", txState[t] # "ok",
         txState' = [txState EXCEPT ![t] = s]
  PROVE  UNCHANGED MintedTxs
  BY DEF MintedTxs, TypeOK, ChainTypeOK

\* The bridge starts where the service starts.
LEMMA RefinesInit == Init => Service!ServiceInit
  BY DEF Init, ChainInit, Service!ServiceInit, AnswerHeld, AnswerOf, MintedTxs

\* What a step of a caller shows of itself.
LEMMA CallerRefines ==
  ASSUME IInv, NEW c \in Calls, StartCall(c) \/ Cancel(c) \/ CallerStep(c)
  PROVE  [Service!ServiceNext]_(Service!serviceVars)
<1> USE DEF IInv, TypeOK, chainVars, memberVars, recordVars
<1>1. ASSUME StartCall(c) PROVE Service!Open(c)
  <2>1. /\ phase[c] = "new" /\ phase' = [phase EXCEPT ![c] = "sending"] /\ UNCHANGED txState
        /\ "sending" \in Phases
    BY <1>1 DEF StartCall, Phases
  <2> QED BY <2>1, AnswerChange DEF Service!Open, AnswerOf
<1>2. ASSUME Enqueue(c) PROVE UNCHANGED Service!serviceVars
  <2>1. /\ phase[c] = "sending" /\ phase' = [phase EXCEPT ![c] = "awaiting"] /\ UNCHANGED txState
        /\ "awaiting" \in Phases
    BY <1>2 DEF Enqueue, Phases
  <2>2. AnswerHeld' = [AnswerHeld EXCEPT ![c] = AnswerHeld[c]] /\ UNCHANGED MintedTxs
    BY <2>1, AnswerChange DEF AnswerOf
  <2> QED BY <2>2 DEF Service!serviceVars, AnswerHeld
<1>3. ASSUME Cancel(c) \/ EnqueueFails(c) PROVE Service!AnswerUnknown(c)
  <2>1. PICK p \in {"cancelled", "closed"} : phase' = [phase EXCEPT ![c] = p]
    BY <1>3 DEF Cancel, EnqueueFails
  <2>2. phase[c] \in {"sending", "awaiting"} /\ p \in Phases /\ UNCHANGED txState
    BY <1>3, <2>1 DEF Cancel, EnqueueFails, InFlight, Phases
  <2>3. AnswerOf(p) = "unknown" /\ AnswerOf(phase[c]) = "open"
    BY <2>1, <2>2 DEF AnswerOf
  <2> QED BY <2>1, <2>2, <2>3, AnswerChange DEF Service!AnswerUnknown
<1>4. ASSUME TakeReply(c)
      PROVE  Service!AnswerOk(c) \/ Service!AnswerFailed(c) \/ Service!AnswerUnknown(c)
  <2>1. CallerInv(c) /\ phase[c] = "awaiting" /\ UNCHANGED txState
    BY <1>4 DEF TakeReply
  <2>2. AnswerOf("awaiting") = "open"
    BY DEF AnswerOf
  <2>3. CASE mailbox[c] = "ok"
    <3>1. phase' = [phase EXCEPT ![c] = "ok"] /\ "ok" \in Phases /\ AnswerOf("ok") = "ok"
      BY <1>4, <2>3 DEF TakeReply, Phases, Outcomes, AnswerOf
    <3>2. c \in MintedTxs
      BY <2>1, <2>3, BridgeAssumption DEF CallerInv, MintedTxs
    <3> QED BY <2>1, <2>2, <3>1, <3>2, AnswerChange DEF Service!AnswerOk
  <2>4. CASE mailbox[c] = "crypto"
    <3>1. /\ phase' = [phase EXCEPT ![c] = "crypto"] /\ "crypto" \in Phases
          /\ AnswerOf("crypto") = "failed"
      BY <1>4, <2>4 DEF TakeReply, Phases, Outcomes, AnswerOf
    <3>2. c \notin MintedTxs
      BY <2>1, <2>4 DEF CallerInv, MintedTxs
    <3> QED BY <2>1, <2>2, <3>1, <3>2, AnswerChange DEF Service!AnswerFailed
  <2>5. CASE mailbox[c] \notin {"ok", "crypto"}
    <3>1. PICK p \in {"closed", "mint", "receipt"} : phase' = [phase EXCEPT ![c] = p]
      BY <1>4, <2>5 DEF TakeReply, Outcomes
    <3>2. p \in Phases /\ AnswerOf(p) = "unknown"
      BY <3>1 DEF Phases, Outcomes, AnswerOf
    <3> QED BY <2>1, <2>2, <3>1, <3>2, AnswerChange DEF Service!AnswerUnknown
  <2> QED BY <2>3, <2>4, <2>5
<1> QED BY <1>1, <1>2, <1>3, <1>4 DEF CallerStep, Service!ServiceNext

\* No step of the clients short of inclusion shows.
LEMMA SubmissionHidden ==
  ASSUME TypeOK, NEW t \in Txs, Preflight(t) \/ Broadcast(t) \/ BroadcastFails(t), UNCHANGED phase
  PROVE  UNCHANGED Service!serviceVars
<1>1. PICK s \in {"checked", "pool", "unsent"} : txState' = [txState EXCEPT ![t] = s]
  BY DEF Preflight, Broadcast, BroadcastFails
<1>2. txState[t] # "ok"
  BY DEF Preflight, Broadcast, BroadcastFails
<1>3. UNCHANGED MintedTxs
  BY <1>1, <1>2, MintedUnchanged
<1> QED BY <1>3 DEF Service!serviceVars, AnswerHeld

\* An inclusion lands a unit, or shows nothing.
LEMMA IncludeRefines ==
  ASSUME IInv, NEW t \in Txs, Include(t), UNCHANGED bridgeVars
  PROVE  (Service!Land(t) /\ t \in Calls \cup OtherMints) \/ UNCHANGED Service!serviceVars
<1>1. UNCHANGED AnswerHeld
  BY DEF bridgeVars, AnswerHeld
<1>2. CASE ~Accepted(t)
  <2>1. txState[t] # "ok" /\ txState' = [txState EXCEPT ![t] = "reverted"]
    BY <1>2 DEF Include
  <2>2. UNCHANGED MintedTxs
    BY <2>1, MintedUnchanged DEF IInv
  <2> QED BY <1>1, <2>2 DEF Service!serviceVars
<1>3. CASE Body[t].kind = "file" /\ Accepted(t)
  <2>1. txState' = [txState EXCEPT ![t] = "ok"]
    BY <1>3 DEF Include
  <2>2. UNCHANGED MintedTxs
    BY <1>3, <2>1 DEF MintedTxs, IInv, TypeOK, ChainTypeOK
  <2> QED BY <1>1, <2>2 DEF Service!serviceVars
<1>4. CASE Body[t].kind = "mint" /\ Accepted(t)
  <2>1. txState[t] = "pool" /\ txState' = [txState EXCEPT ![t] = "ok"]
    BY <1>4 DEF Include
  <2>2. t \notin MintedTxs /\ MintedTxs' = MintedTxs \cup {t}
    BY <1>4, <2>1 DEF MintedTxs, IInv, TypeOK, ChainTypeOK
  <2>3. ASSUME t \in Calls PROVE AnswerHeld[t] \in {"open", "unknown"}
    <3>1. phase[t] \in Phases \ {"new", "ok", "crypto"}
      BY <2>1, <2>3 DEF IInv, TypeOK, CallerInv
    <3> QED BY <2>3, <3>1 DEF AnswerHeld, AnswerOf, Phases, Outcomes
  <2>4. ASSUME NEW u \in MintedTxs PROVE Body[u].recs \cap Body[t].recs = {}
    <3>1. ASSUME NEW r \in Body[u].recs, r \in Body[t].recs PROVE FALSE
      <4>1. spentBy[r] = u
        BY DEF IInv, SpentInv, MintedTxs
      <4>2. spentBy[r] = NoOne
        BY <1>4, <3>1 DEF Accepted, Refusal, MintRefusal, Duplicate
      <4> QED BY <4>1, <4>2, ChainAssumption DEF MintedTxs
    <3> QED BY <3>1
  <2>5. ASSUME NEW u \in MintedTxs
        PROVE  [x \in Txs |-> Body[x].recs][u] \cap [x \in Txs |-> Body[x].recs][t] = {}
    BY <2>4 DEF MintedTxs
  <2>6. t \in Calls \cup OtherMints
    BY <1>4 DEF OtherMints
  <2> QED BY <1>1, <2>2, <2>3, <2>5, <2>6 DEF Service!Land
<1>5. Body[t].kind \in {"file", "mint"}
  BY ChainAssumption DEF TxBodies
<1> QED BY <1>2, <1>3, <1>4, <1>5

\* Every step of the bridge is a step of the service, or shows nothing.
LEMMA RefinesStep == IInv /\ [Next]_vars => [Service!ServiceNext]_(Service!serviceVars)
<1> SUFFICES ASSUME IInv, [Next]_vars PROVE [Service!ServiceNext]_(Service!serviceVars)
  OBVIOUS
<1>1. ASSUME UNCHANGED <<phase, txState>> PROVE UNCHANGED Service!serviceVars
  BY <1>1 DEF Service!serviceVars, AnswerHeld, MintedTxs
<1>2. ASSUME NEW c \in Calls, StartCall(c) \/ Cancel(c) \/ CallerStep(c)
      PROVE  [Service!ServiceNext]_(Service!serviceVars)
  BY <1>2, CallerRefines
<1>3. ASSUME NEW h \in Holders, CloneSender(h) \/ DropClone(h) PROVE UNCHANGED Service!serviceVars
  BY <1>1, <1>3 DEF CloneSender, DropClone, chainVars, memberVars, recordVars
<1>4. CASE Shutdown \/ JoinReturns \/ DropBridge
  BY <1>1, <1>4 DEF Shutdown, JoinReturns, DropBridge, chainVars, memberVars, recordVars
<1>5. CASE LoopStep \/ LoopDies
  <2>1. CASE MintPreflight \/ MintBroadcast
    <3>1. UNCHANGED phase /\ cur \in Txs
      BY <2>1, BridgeAssumption
         DEF MintPreflight, MintBroadcast, IInv, TypeOK, CurInv
    <3>2. CASE Preflight(cur) \/ Broadcast(cur) \/ BroadcastFails(cur)
      BY <3>1, <3>2, SubmissionHidden DEF IInv
    <3>3. CASE UNCHANGED chainVars
      BY <1>1, <3>1, <3>3 DEF chainVars, memberVars, recordVars
    <3> QED BY <2>1, <3>2, <3>3 DEF MintPreflight, MintBroadcast
  <2>2. CASE ~(MintPreflight \/ MintBroadcast)
    <3>1. UNCHANGED <<phase, txState>>
      BY <1>5, <2>2
         DEF LoopStep, LoopTurn, Recv, LoopExit, Issue, PollReceipt, PollTimeout, PollFails, Reply,
             LoopDies, chainVars, memberVars, recordVars
    <3> QED BY <1>1, <3>1
  <2> QED BY <2>1, <2>2
<1>6. ASSUME NEW t \in Txs, OtherClient(t) PROVE UNCHANGED Service!serviceVars
  BY <1>6, SubmissionHidden DEF OtherClient, bridgeVars, IInv
<1>7. CASE ChainStep
  <2>1. ASSUME NEW t \in Txs, Include(t), UNCHANGED bridgeVars
        PROVE  [Service!ServiceNext]_(Service!serviceVars)
    BY <2>1, IncludeRefines DEF Service!ServiceNext, Service!Mints
  <2>2. ASSUME MembersChange, UNCHANGED bridgeVars
        PROVE  UNCHANGED Service!serviceVars
    BY <1>1, <2>2 DEF MembersChange, bridgeVars
  <2> QED BY <1>7, <2>1, <2>2 DEF ChainStep
<1>8. CASE UNCHANGED vars
  BY <1>1, <1>8 DEF vars, chainVars, memberVars, recordVars, bridgeVars
<1> QED BY <1>2, <1>3, <1>4, <1>5, <1>6, <1>7, <1>8 DEF Next

\* Whatever the capacity, the callers and the chain do, the bridge keeps the
\* promises of MintService.
THEOREM BridgeImplementsService == Spec => ImplementsService
  BY RefinesInit, RefinesStep, Invariant, PTL DEF Spec, ImplementsService, Service!ServiceSpec

=============================================================================
