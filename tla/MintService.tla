----------------------------- MODULE MintService -----------------------------
(***************************************************************************)
(* What a caller of `Bridge::mint_su` may rely on, with no queue, no loop  *)
(* and no receipt polling: a call is answered at most once, "ok" is only   *)
(* said of a unit that exists, "failed" only of one that never will, and   *)
(* anything else leaves the caller not knowing.  No record goes into two   *)
(* units, whoever mints them.                                              *)
(***************************************************************************)
CONSTANTS
  Calls,   \* invocations of mint_su
  Others,  \* mints other agents-pool clients send
  Recs     \* mint -> the records it consumes

Mints == Calls \cup Others

VARIABLES
  answer,  \* what the caller of each call holds
  landed   \* the mints whose unit exists on chain

serviceVars == <<answer, landed>>

\* "unknown" covers every error that does not rule the mint out, and a caller
\* that has gone away.
Answers == {"idle", "open", "ok", "failed", "unknown"}

ServiceTypeOK ==
  /\ answer \in [Calls -> Answers]
  /\ landed \subseteq Mints

ServiceInit ==
  /\ answer = [c \in Calls |-> "idle"]
  /\ landed = {}

Open(c) ==
  /\ answer[c] = "idle"
  /\ answer' = [answer EXCEPT ![c] = "open"]
  /\ UNCHANGED landed

\* A unit comes into existence, before the answer or after an uncertain one.
Land(m) ==
  /\ m \notin landed
  /\ m \in Calls => answer[m] \in {"open", "unknown"}
  /\ \A n \in landed : Recs[n] \cap Recs[m] = {}
  /\ landed' = landed \cup {m}
  /\ UNCHANGED answer

AnswerOk(c) ==
  /\ answer[c] = "open"
  /\ c \in landed
  /\ answer' = [answer EXCEPT ![c] = "ok"]
  /\ UNCHANGED landed

AnswerFailed(c) ==
  /\ answer[c] = "open"
  /\ c \notin landed
  /\ answer' = [answer EXCEPT ![c] = "failed"]
  /\ UNCHANGED landed

AnswerUnknown(c) ==
  /\ answer[c] = "open"
  /\ answer' = [answer EXCEPT ![c] = "unknown"]
  /\ UNCHANGED landed

ServiceNext ==
  \/ \E c \in Calls : Open(c) \/ AnswerOk(c) \/ AnswerFailed(c) \/ AnswerUnknown(c)
  \/ \E m \in Mints : Land(m)

ServiceSpec == ServiceInit /\ [][ServiceNext]_serviceVars

=============================================================================
