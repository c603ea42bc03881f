------------------------------ MODULE UsersLane ------------------------------
(***************************************************************************)
(* The permissionless lane behind the actor RPC, as the suite's actor      *)
(* client meets it (testsuite/src/clients/actor.rs, envelope.rs): an       *)
(* envelope is a signed transaction with an anti-spam solution, and a node *)
(* admits it after a row of checks.                                        *)
(*                                                                         *)
(* The node is the system under test, so it is not assumed to be right:    *)
(* `node` holds the checks this build of it makes, the whole of Checks for *)
(* a good one.  The checks and their order are the ones the scenarios S003 *)
(* to S006, S031, S032, S041, S043, S044, S048 to S050, S054 and S055 and  *)
(* testsuite/src/data.rs describe.                                         *)
(***************************************************************************)
EXTENDS Naturals, FiniteSets, FiniteSetsExt

CONSTANTS
  Signers,        \* keys that sign envelopes
  AttesterKeys,   \* those the registry knows
  Window,         \* PSO_PROOF_MAX_AGE
  Optional,       \* checks a node may lack
  MaxLacking,     \* bound: checks a node lacks at once
  Base,           \* the difficulty at the start
  MaxHead,        \* bound: blocks
  MaxRolls        \* bound: difficulty changes the chain makes by itself

Checks ==
  {"open",       \* takes a sender the registry does not know (S041)
   "lane",       \* refuses the destinations of the agents pool (data.rs)
   "scheme",     \* refuses the retired scheme (S050)
   "proof",      \* verifies the solution (S049)
   "nonce",      \* derives the solution's input from the nonce, too (S044)
   "threshold",  \* asks for the work of an accepted difficulty (S031)
   "previous",   \* accepts the previous difficulty (S032)
   "fresh",      \* refuses a block below the window (S055)
   "aged",       \* accepts a block inside the window (S043)
   "nullifier",  \* derives the nullifier instead of reading it (S054)
   "execute",    \* runs the inner call (S048)
   "gate"}       \* onlyActiveAttester (S003 to S005)

ASSUME LaneAssumption ==
  /\ AttesterKeys \subseteq Signers
  /\ Optional \subseteq Checks
  /\ {Window, MaxLacking, MaxHead, MaxRolls} \subseteq Nat
  /\ Base \in Nat \ {0}

\* `work` is the difficulty the solution was found at, 0 when it solves nothing.
Solution == [signer : Signers, nonce : Nat, block : Nat, work : Nat]

\* `gated`: the call is one of the agents pool's.
Envelope == [signer : Signers, nonce : Nat, block : Nat, scheme : {"Hashcash", "MinRoot"},
             solution : Solution, gated : BOOLEAN]

VARIABLES
  node,      \* the checks this node makes
  head,      \* number of the head block
  current,   \* difficulty of the epoch
  previous,  \* difficulty of the epoch before
  pool,      \* envelopes admitted and not mined yet
  landed,    \* senders of agents-pool calls that have succeeded
  mined,     \* signer -> its account nonce
  rolls      \* difficulty changes so far

laneVars == <<node, head, current, previous, pool, landed, mined, rolls>>

LaneTypeOK ==
  /\ node \subseteq Checks
  /\ head \in 0..MaxHead
  /\ {current, previous} \subseteq Nat \ {0}
  /\ pool \subseteq Envelope
  /\ landed \subseteq Signers
  /\ mined \in [Signers -> Nat]
  /\ rolls \in 0..MaxRolls

LaneInit ==
  /\ \E lacks \in UNION {kSubset(k, Optional) : k \in 0..MaxLacking} : node = Checks \ lacks
  /\ current = Base
  /\ previous = Base
  /\ pool = {}
  /\ landed = {}
  /\ mined = [s \in Signers |-> 0]
  /\ rolls = 0

Pooled(s) == {e \in pool : e.signer = s}

\* eth_getTransactionCount at the pending tag.
PendingNonce(s) == mined[s] + Cardinality(Pooled(s))

-----------------------------------------------------------------------------
(* Admission.                                                              *)

EnoughWork(w) ==
  IF "threshold" \in node
    THEN w >= current \/ ("previous" \in node /\ w >= previous)
    ELSE w > 0

\* The solution solves the input derived from the envelope around it.
Solves(e) ==
  /\ e.solution.signer = e.signer
  /\ e.solution.block = e.block
  /\ e.solution.nonce = e.nonce \/ "nonce" \notin node
  /\ EnoughWork(e.solution.work)

\* A node that goes by the tag takes the retired scheme's word for it.
Verified(e) == "proof" \notin node \/ e.scheme = "MinRoot" \/ Solves(e)

Fresh(e) ==
  /\ "fresh" \in node => head <= e.block + Window
  /\ "aged" \in node \/ head = e.block

\* One solution gives one nullifier, however its slot on the wire is filled; that of
\* a mined envelope is out of reach behind the nonce check.
Replayed(e) ==
  \E f \in Pooled(e.signer) : f.nonce = e.nonce /\ f.block = e.block

Rejection(e) ==
  IF e.nonce < mined[e.signer] THEN "nonce too low"
  ELSE IF "open" \notin node /\ e.signer \notin AttesterKeys THEN "Attester not registered"
  ELSE IF "lane" \in node /\ e.gated THEN "UseMembersLane"
  ELSE IF "scheme" \in node /\ e.scheme = "MinRoot" THEN "RetiredScheme"
  ELSE IF ~Verified(e) THEN "InvalidVdfProof"
  ELSE IF ~Fresh(e) THEN "StaleProof"
  ELSE IF "nullifier" \in node /\ Replayed(e) THEN "NullifierAlreadyUsed"
  ELSE IF \E f \in Pooled(e.signer) : f.nonce = e.nonce THEN "underpriced"
  ELSE "none"

Admit(e) == pool' = pool \cup {e}

\* What the receipt of an included envelope says.
Succeeds(e) ==
  /\ "execute" \in node
  /\ e.gated => e.signer \in AttesterKeys \/ "gate" \notin node

-----------------------------------------------------------------------------
(* Blocks and epochs.                                                      *)

\* A block takes a prefix of each sender's pooled nonces, the empty one included.
Mine ==
  /\ head < MaxHead
  /\ head' = head + 1
  /\ \E taken \in SUBSET pool :
       /\ \A e \in taken : \A f \in Pooled(e.signer) : f.nonce < e.nonce => f \in taken
       /\ pool' = pool \ taken
       /\ mined' = [s \in Signers |-> mined[s] + Cardinality(taken \cap Pooled(s))]
       /\ landed' = landed \cup {e.signer : e \in {f \in taken : f.gated /\ Succeeds(f)}}
  /\ UNCHANGED <<node, current, previous, rolls>>

\* The epoch ends, with a difficulty `d` for the next one.
NewEpoch(d) ==
  /\ previous' = current
  /\ current' = d

\* The chain's own epochs: the difficulty doubles or halves.
Roll ==
  /\ rolls < MaxRolls
  /\ rolls' = rolls + 1
  /\ \E d \in {2 * current, current \div 2} : d > 0 /\ NewEpoch(d)
  /\ UNCHANGED <<node, head, pool, landed, mined>>

=============================================================================
