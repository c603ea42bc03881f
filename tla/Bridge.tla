-------------------------------- MODULE Bridge --------------------------------
(***************************************************************************)
(* The in-process attester bridge (testsuite/src/bridge.rs): callers of    *)
(* `mint_su` put requests on a bounded mpsc channel, one background loop   *)
(* takes them in order, issues the unit through the attester FFI, submits  *)
(* it on the agents pool, polls for the receipt and answers on the         *)
(* request's oneshot.                                                      *)
(*                                                                         *)
(* A call is one invocation of `mint_su`; the seed of its issuance is      *)
(* fresh, so its unit and its transaction are its own, and the call stands *)
(* for the transaction too.  `sorted_unique_u256` is why the records of a  *)
(* call are a set.                                                         *)
(***************************************************************************)
EXTENDS AgentsChain

CONSTANTS
  Calls,     \* invocations of mint_su
  Capacity,  \* slots of the mpsc channel (64 in the source)
  Holders,   \* parties that may clone the public `tx` field
  Handle,    \* the Bridge value itself, as the sender behind a call
  Via        \* call -> the sender it goes through: Handle or a holder

ASSUME BridgeAssumption ==
  /\ Calls \subseteq Txs
  /\ \A c \in Calls : Body[c].kind = "mint"
  /\ Capacity \in Nat \ {0}
  /\ Handle \notin Holders
  /\ Via \in [Calls -> Holders \cup {Handle}]

VARIABLES
  phase,    \* call -> how far its caller is, or the outcome it was given
  queue,    \* requests in the channel, oldest first
  mailbox,  \* call -> what its oneshot holds
  loop,     \* program counter of the background task
  cur,      \* the request the task is serving, or NoOne
  res,      \* the task's `res` for it
  handle,   \* what became of the Bridge value
  clones    \* holders with a live clone of `tx`

bridgeVars == <<phase, queue, mailbox, loop, cur, res, handle, clones>>
vars == <<chainVars, bridgeVars>>

\* Ok(receipt) and the three errors handle_mint can return.
Outcomes == {"ok", "crypto", "mint", "receipt"}

\* "closed" is BridgeError::ChannelClosed, "cancelled" a dropped future.
Phases == {"new", "sending", "awaiting", "closed", "cancelled"} \cup Outcomes

\* "exited" is the end of the while-let, "dead" a task that was torn down.
LoopStates == {"idle", "issuing", "preflight", "broadcast", "polling", "replying",
               "exited", "dead"}

TypeOK ==
  /\ ChainTypeOK
  /\ phase \in [Calls -> Phases]
  /\ queue \in Seq(Calls)
  /\ mailbox \in [Calls -> {"open", "dropped"} \cup Outcomes]
  /\ loop \in LoopStates
  /\ cur \in Calls \cup {NoOne}
  /\ res \in Outcomes
  /\ handle \in {"held", "joining", "joined", "dropped"}
  /\ clones \subseteq Holders

Init ==
  /\ ChainInit
  /\ phase = [c \in Calls |-> "new"]
  /\ queue = <<>>
  /\ mailbox = [c \in Calls |-> "open"]
  /\ loop = "idle"
  /\ cur = NoOne
  /\ res = "ok"
  /\ handle = "held"
  /\ clones = {}

-----------------------------------------------------------------------------
(* Callers: Bridge::mint_su.                                               *)

ReceiverAlive == loop \notin {"exited", "dead"}
InFlight(c) == phase[c] \in {"sending", "awaiting"}

\* The future runs up to `self.tx.send(..)`: it borrows the Bridge, or owns a clone.
StartCall(c) ==
  /\ phase[c] = "new"
  /\ IF Via[c] = Handle THEN handle = "held" ELSE Via[c] \in clones
  /\ phase' = [phase EXCEPT ![c] = "sending"]
  /\ UNCHANGED <<chainVars, queue, mailbox, loop, cur, res, handle, clones>>

\* The channel has a free slot.
Enqueue(c) ==
  /\ phase[c] = "sending"
  /\ ReceiverAlive
  /\ Len(queue) < Capacity
  /\ queue' = Append(queue, c)
  /\ phase' = [phase EXCEPT ![c] = "awaiting"]
  /\ UNCHANGED <<chainVars, mailbox, loop, cur, res, handle, clones>>

\* The receiver is gone: ChannelClosed before anything was handed over.
EnqueueFails(c) ==
  /\ phase[c] = "sending"
  /\ ~ReceiverAlive
  /\ phase' = [phase EXCEPT ![c] = "closed"]
  /\ UNCHANGED <<chainVars, queue, mailbox, loop, cur, res, handle, clones>>

\* Mutant of TakeReply: a dropped oneshot is handed on as it is.
TakeReplyRaw(c) ==
  /\ phase[c] = "awaiting"
  /\ mailbox[c] # "open"
  /\ phase' = [phase EXCEPT ![c] = mailbox[c]]
  /\ UNCHANGED <<chainVars, queue, mailbox, loop, cur, res, handle, clones>>

\* `rx.await` yields the reply, or the sender side of the oneshot is gone.
TakeReply(c) ==
  /\ phase[c] = "awaiting"
  /\ mailbox[c] # "open"
  /\ phase' = [phase EXCEPT ![c] = IF mailbox[c] = "dropped" THEN "closed" ELSE mailbox[c]]
  /\ UNCHANGED <<chainVars, queue, mailbox, loop, cur, res, handle, clones>>

\* The caller drops its future at one of the two await points.  A request that
\* is already in the channel stays there.
Cancel(c) ==
  /\ InFlight(c)
  /\ phase' = [phase EXCEPT ![c] = "cancelled"]
  /\ UNCHANGED <<chainVars, queue, mailbox, loop, cur, res, handle, clones>>

-----------------------------------------------------------------------------
(* Ownership of the sender side.                                           *)

\* Bridge.tx is public: it can be cloned through the Bridge or from a clone.
CloneSender(h) ==
  /\ h \notin clones
  /\ handle = "held" \/ clones # {}
  /\ clones' = clones \cup {h}
  /\ UNCHANGED <<chainVars, phase, queue, mailbox, loop, cur, res, handle>>

\* A clone in the middle of `send` is borrowed by it.
DropClone(h) ==
  /\ h \in clones
  /\ \A c \in Calls : Via[c] = h => phase[c] # "sending"
  /\ clones' = clones \ {h}
  /\ UNCHANGED <<chainVars, phase, queue, mailbox, loop, cur, res, handle>>

\* Only when no `mint_su` borrows the Bridge can it be moved.
Unborrowed == \A c \in Calls : Via[c] = Handle => ~InFlight(c)

\* Bridge::shutdown up to `handle.await`.
Shutdown ==
  /\ handle = "held"
  /\ Unborrowed
  /\ handle' = "joining"
  /\ UNCHANGED <<chainVars, phase, queue, mailbox, loop, cur, res, clones>>

\* `handle.await` returns, with Ok or with the JoinError it ignores.
JoinReturns ==
  /\ handle = "joining"
  /\ ~ReceiverAlive
  /\ handle' = "joined"
  /\ UNCHANGED <<chainVars, phase, queue, mailbox, loop, cur, res, clones>>

\* The Bridge goes out of scope without a shutdown: the task is detached.
DropBridge ==
  /\ handle = "held"
  /\ Unborrowed
  /\ handle' = "dropped"
  /\ UNCHANGED <<chainVars, phase, queue, mailbox, loop, cur, res, clones>>

-----------------------------------------------------------------------------
(* The background task: spawn_attester_loop and handle_mint.               *)

\* Mutant of Recv: the next request is taken while one awaits its broadcast.
RecvEarly ==
  /\ loop \in {"idle", "broadcast"}
  /\ queue # <<>>
  /\ cur' = Head(queue)
  /\ queue' = Tail(queue)
  /\ loop' = "issuing"
  /\ UNCHANGED <<chainVars, phase, mailbox, res, handle, clones>>

\* `rx.recv()` yields the oldest request.
Recv ==
  /\ loop = "idle"
  /\ queue # <<>>
  /\ cur' = Head(queue)
  /\ queue' = Tail(queue)
  /\ loop' = "issuing"
  /\ UNCHANGED <<chainVars, phase, mailbox, res, handle, clones>>

\* Mutant of LoopExit: shutdown awaits the task before it drops its sender.
LoopExitAfterJoin ==
  /\ loop = "idle"
  /\ queue = <<>>
  /\ handle \in {"joined", "dropped"}
  /\ clones = {}
  /\ loop' = "exited"
  /\ UNCHANGED <<chainVars, phase, queue, mailbox, cur, res, handle, clones>>

\* `rx.recv()` yields None: the channel is empty and every sender is gone.
LoopExit ==
  /\ loop = "idle"
  /\ queue = <<>>
  /\ handle # "held"
  /\ clones = {}
  /\ loop' = "exited"
  /\ UNCHANGED <<chainVars, phase, queue, mailbox, cur, res, handle, clones>>

\* handle_mint returns `r`: the early return of a `?`, or its last line.
Return(r) ==
  /\ res' = r
  /\ loop' = "replying"

\* generate_nft_header and issue_with_header on a blocking thread: they produce
\* the unit, or the join or the FFI fails.
Issue ==
  /\ loop = "issuing"
  /\ \/ loop' = "preflight" /\ UNCHANGED res
     \/ Return("crypto")
  /\ UNCHANGED <<chainVars, phase, queue, mailbox, cur, handle, clones>>

\* mint_spending_unit, the gas estimate: it passes, or the call is refused at the
\* head, or the RPC fails.
MintPreflight ==
  /\ loop = "preflight"
  /\ \/ Preflight(cur) /\ loop' = "broadcast" /\ UNCHANGED res
     \/ Return("mint") /\ UNCHANGED chainVars
  /\ UNCHANGED <<phase, queue, mailbox, cur, handle, clones>>

\* Mutant of MintBroadcast: a transport error is reported as a failed issuance.
MintBroadcastAsCrypto ==
  /\ loop = "broadcast"
  /\ \/ Broadcast(cur) /\ loop' = "polling" /\ UNCHANGED res
     \/ Broadcast(cur) /\ Return("crypto")
     \/ BroadcastFails(cur) /\ Return("crypto")
  /\ UNCHANGED <<phase, queue, mailbox, cur, handle, clones>>

\* mint_spending_unit, the broadcast: accepted; accepted with the answer lost on
\* the way back; or not accepted.
MintBroadcast ==
  /\ loop = "broadcast"
  /\ \/ Broadcast(cur) /\ loop' = "polling" /\ UNCHANGED res
     \/ Broadcast(cur) /\ Return("mint")
     \/ BroadcastFails(cur) /\ Return("mint")
  /\ UNCHANGED <<phase, queue, mailbox, cur, handle, clones>>

\* Mutant of PollReceipt: any receipt counts, its status flag is not read.
PollReceiptAnyStatus ==
  /\ loop = "polling"
  /\ txState[cur] \in {"ok", "reverted"}
  /\ Return("ok")
  /\ UNCHANGED <<chainVars, phase, queue, mailbox, cur, handle, clones>>

\* wait_for_tx_success finds a receipt.
PollReceipt ==
  /\ loop = "polling"
  /\ \/ txState[cur] = "ok" /\ Return("ok")
     \/ txState[cur] = "reverted" /\ Return("receipt")
  /\ UNCHANGED <<chainVars, phase, queue, mailbox, cur, handle, clones>>

\* Mutant of PollTimeout: a poll without a deadline.
PollTimeoutNever == FALSE /\ UNCHANGED vars

\* Mutant of PollTimeout: the deadline settles the call as not minted.
PollTimeoutAsFinal ==
  /\ loop = "polling"
  /\ txState[cur] = "pool"
  /\ Return("crypto")
  /\ UNCHANGED <<chainVars, phase, queue, mailbox, cur, handle, clones>>

\* It finds none and the deadline has passed.
PollTimeout ==
  /\ loop = "polling"
  /\ txState[cur] = "pool"
  /\ Return("receipt")
  /\ UNCHANGED <<chainVars, phase, queue, mailbox, cur, handle, clones>>

\* The poll itself fails: the `?` on get_transaction_receipt.
PollFails ==
  /\ loop = "polling"
  /\ Return("receipt")
  /\ UNCHANGED <<chainVars, phase, queue, mailbox, cur, handle, clones>>

\* Mutant of Reply: the loop breaks when the caller has gone away.
ReplyOrBreak ==
  /\ loop = "replying"
  /\ mailbox' = IF phase[cur] = "awaiting" THEN [mailbox EXCEPT ![cur] = res] ELSE mailbox
  /\ cur' = NoOne
  /\ loop' = IF phase[cur] = "awaiting" THEN "idle" ELSE "exited"
  /\ UNCHANGED <<chainVars, phase, queue, res, handle, clones>>

\* Mutant of Reply: an error leaves through a `?` in the loop body, and the
\* oneshot is dropped unanswered.
ReplyOnlyOk ==
  /\ loop = "replying"
  /\ mailbox' = IF phase[cur] = "awaiting"
                  THEN [mailbox EXCEPT ![cur] = IF res = "ok" THEN res ELSE "dropped"]
                  ELSE mailbox
  /\ cur' = NoOne
  /\ loop' = "idle"
  /\ UNCHANGED <<chainVars, phase, queue, res, handle, clones>>

\* `reply.send(res)`; a caller that has gone away is ignored.
Reply ==
  /\ loop = "replying"
  /\ mailbox' = IF phase[cur] = "awaiting" THEN [mailbox EXCEPT ![cur] = res] ELSE mailbox
  /\ cur' = NoOne
  /\ loop' = "idle"
  /\ UNCHANGED <<chainVars, phase, queue, res, handle, clones>>

\* The requests whose oneshot the task holds, in the channel or in its hands.
Held == {queue[i] : i \in 1..Len(queue)} \cup ({cur} \ {NoOne})

\* The task is torn down: a panic, or its runtime goes away.  The receiver and
\* every oneshot sender it holds are dropped with it.
LoopDies ==
  /\ ReceiverAlive
  /\ loop' = "dead"
  /\ mailbox' = [c \in Calls |-> IF c \in Held THEN "dropped" ELSE mailbox[c]]
  /\ queue' = <<>>
  /\ cur' = NoOne
  /\ UNCHANGED <<chainVars, phase, res, handle, clones>>

-----------------------------------------------------------------------------
(* Everyone else on the chain.                                             *)

\* Scenario bodies and other attesters use the pool directly.
OtherClient(t) ==
  /\ t \in Txs \ Calls
  /\ Preflight(t) \/ Broadcast(t) \/ BroadcastFails(t)
  /\ UNCHANGED bridgeVars

ChainStep ==
  /\ \/ \E t \in Txs : Include(t)
     \/ MembersChange
  /\ UNCHANGED bridgeVars

-----------------------------------------------------------------------------
CallerStep(c) == Enqueue(c) \/ EnqueueFails(c) \/ TakeReply(c)

\* What the task does of its own accord; a read of the node that fails is no such thing.
LoopTurn ==
  \/ Recv \/ LoopExit
  \/ Issue \/ MintPreflight \/ MintBroadcast
  \/ PollReceipt \/ PollTimeout
  \/ Reply

LoopStep == LoopTurn \/ PollFails

Next ==
  \/ \E c \in Calls : StartCall(c) \/ Cancel(c) \/ CallerStep(c)
  \/ \E h \in Holders : CloneSender(h) \/ DropClone(h)
  \/ Shutdown \/ JoinReturns \/ DropBridge
  \/ LoopStep \/ LoopDies
  \/ \E t \in Txs : OtherClient(t)
  \/ ChainStep

Spec == Init /\ [][Next]_vars

\* The runtime keeps polling the task, every awaiting caller and the join; the
\* chain owes nothing, and nobody has to start, cancel, clone, drop or shut down.
Fairness ==
  /\ WF_vars(LoopTurn)
  /\ WF_vars(JoinReturns)
  /\ \A c \in Calls : WF_vars(CallerStep(c))

FairSpec == Spec /\ Fairness

-----------------------------------------------------------------------------
(* Properties.                                                             *)

\* A caller that holds a receipt holds it for a unit that exists, that was paid
\* for with its own records, all of them (handle_mint answers Ok only after
\* wait_for_tx_success, and answers the request it served).
OkIsOnChain ==
  \A c \in Calls : phase[c] = "ok" =>
    /\ txState[c] = "ok"
    /\ \A r \in Body[c].recs : spentBy[r] = c

\* Crypto is the one error that settles the matter: nothing of the call reaches
\* the pool, then or later (the FFI runs before the broadcast).
CryptoIsFinal ==
  \A c \in Calls : phase[c] = "crypto" => txState[c] = "unsent"

\* The answers a mint that left the process may have been given, or still waits for.
Accounted(c) ==
  \/ cur = c
  \/ phase[c] = "cancelled"
  \/ phase[c] = "closed" /\ loop = "dead"
  \/ phase[c] = "awaiting" /\ mailbox[c] \in {"ok", "mint", "receipt", "dropped"}
  \/ phase[c] \in {"ok", "mint", "receipt"}

\* No transaction is lost track of: whatever the pool or the chain has of a call,
\* the loop is still serving it, or its caller was told, or walked away, or the
\* loop died under it (bridge.rs maps every failure after the broadcast to an
\* answer and loses none).
NoSilentMint ==
  \A c \in Calls : txState[c] \in {"pool", "ok", "reverted"} => Accounted(c)

\* The loop ends normally only when nobody can need it any more: no request is
\* left in the channel, every caller's oneshot is filled, and no sender lives
\* (mpsc hands out what is buffered before it yields None).
ExitIsClean ==
  loop = "exited" =>
    /\ queue = <<>>
    /\ handle # "held" /\ clones = {}
    /\ \A c \in Calls : phase[c] = "awaiting" => mailbox[c] \in Outcomes
    /\ \A c \in Calls : phase[c] # "sending"

\* One mint at a time: a call of the bridge that is between its gas estimate and its
\* broadcast is the one the loop is serving, whatever its callers do, so two of them never
\* race for the signer's nonce.  (No further than that: a mint the loop has given up waiting
\* for stays in the pool while the next one is served.)
OneMintAtATime ==
  \A c \in Calls : txState[c] = "checked" /\ loop # "dead" => cur = c

\* A caller at the channel or on its oneshot does not wait for ever, even if the
\* chain never includes anything (the 30 s deadline of wait_for_tx_success).
EveryCallReturns ==
  \A c \in Calls : InFlight(c) ~> ~InFlight(c)

\* Bridge::shutdown returns when nobody else keeps a sender.
ShutdownReturns ==
  handle = "joining" ~> handle = "joined" \/ clones # {}

\* bridge.rs:27-29, 159-160: dropping the Bridge closes the channel and lets the
\* loop exit.
DropEndsLoop ==
  handle = "dropped" ~> ~ReceiverAlive

-----------------------------------------------------------------------------
(* The bridge implements what mint_su promises.                            *)

AnswerOf(p) ==
  CASE p = "new" -> "idle"
    [] p \in {"sending", "awaiting"} -> "open"
    [] p = "ok" -> "ok"
    [] p = "crypto" -> "failed"
    [] p \in {"mint", "receipt", "closed", "cancelled"} -> "unknown"

AnswerHeld == [c \in Calls |-> AnswerOf(phase[c])]

OtherMints == {t \in Txs \ Calls : Body[t].kind = "mint"}

Service == INSTANCE MintService WITH
  Calls <- Calls,
  Others <- OtherMints,
  Recs <- [t \in Txs |-> Body[t].recs],
  answer <- AnswerHeld,
  landed <- MintedTxs

\* Every behaviour of the bridge is one of the service.
ImplementsService == Service!ServiceSpec

=============================================================================
