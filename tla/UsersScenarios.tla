---------------------------- MODULE UsersScenarios ----------------------------
(***************************************************************************)
(* The scenario bodies of the suite that work on the users lane            *)
(* (testsuite/src/scenarios), as scripts of UsersFlow, and what a green    *)
(* run of them says about the node.  A fresh wallet is a key of its own.   *)
(***************************************************************************)
EXTENDS UsersFlow, TLC

Wallets == {"w003", "w004", "w005", "w041", "w042", "w043", "w044"}
Keys == {Zero} \cup Wallets

\* A wallet is generated where it is used: the registry has never seen it.
ASSUME WalletsAssumption ==
  Wallets \cap AttesterKeys = {}

\* Mutant of WalletCannot: the receipt's status is not looked at.
WalletMay(key) ==
  << [Plain(key) EXCEPT !.gated = TRUE, !.want = "unminted"], WaitReceipt("any") >>

\* SpendingRecord.submit, AmendmentRecord.submit or SpendingUnit.submit on the users
\* lane: any Err will do, and so will a receipt that says reverted.
WalletCannot(key) ==
  << [Plain(key) EXCEPT !.gated = TRUE, !.want = "unminted"], WaitReceipt("reverted") >>

S003 == WalletCannot("w003")
S004 == WalletCannot("w004")
S005 == WalletCannot("w005")

\* The same from the attester's key, where a success is only logged.
S006 == << [Plain(Zero) EXCEPT !.gated = TRUE, !.want = "unminted"], WaitReceipt("any") >>

\* Solved below both accepted difficulties.
S031 == << ReadDifficulty(2), [Plain(Zero) EXCEPT !.work = "under", !.want = "rejected"] >>

\* Solved at what was the difficulty before the epoch was advanced.
S032 == << ReadDifficulty(1), AdvanceEpoch, [Plain(Zero) EXCEPT !.work = "seen"] >>

\* A key the registry has never seen.
S041 == << Plain("w041") >>

\* The same from the mobile crate's own encoder, and its inner call executed.
S042 == << Plain("w042"), WaitReceipt("success") >>

\* A proof that is old, but inside the window.
S043 == << PinHead, AgeProof,
           [Plain("w043") EXCEPT !.block = "aged"], WaitReceipt("success") >>

\* Nonces 0 and 1, then nonce 2 with the solution of nonce 0.
S044 == << [Plain("w044") EXCEPT !.tamper = "capture"], WaitReceipt("success"),
           Plain("w044"), WaitReceipt("success"),
           [Plain("w044") EXCEPT !.tamper = "splice", !.want = "InvalidVdfProof"] >>

\* Admitted, and its inner call executed.
S048 == << Plain(Zero), WaitReceipt("success") >>

\* One bit of the solution flipped.
S049 == << [Plain(Zero) EXCEPT !.tamper = "flip", !.want = "rejected"] >>

\* The retired scheme's tag.
S050 == << [Plain(Zero) EXCEPT !.scheme = "MinRoot", !.want = "rejected"] >>

\* The same solution twice, with another nullifier on the wire.
S054 == << [Plain(Zero) EXCEPT !.tamper = "capture"], Replay("NullifierAlreadyUsed") >>

\* Mutant of S055: aimed at a destination of the agents pool.
S055Gated == << PinOld,
                [Plain(Zero) EXCEPT !.block = "old", !.gated = TRUE, !.want = "rejected"] >>

\* Solved for a block below the window.
S055 == << PinOld, [Plain(Zero) EXCEPT !.block = "old", !.want = "rejected"] >>

\* In the order of scenarios::all.
WalletSuite == << S003, S004, S005, S006 >>
EnvelopeSuite == << S031, S032, S041, S042, S043, S044, S048, S049, S050, S054, S055 >>

-----------------------------------------------------------------------------
(* Properties.                                                             *)

\* What may fail a body of its own accord, one reason for each scenario that names
\* it: S054's first envelope is mined before the replay; S055's chain is too young;
\* S032's difficulty was changed under it.
Excused ==
  \/ Now.op = "replay" /\ mined[body.captured.signer] > body.captured.nonce
  \/ Now.op = "pinOld" /\ head <= Young
  \/ Now.op = "advance" /\ current # body.seen.difficulty
  \/ Now.op = "submit" /\ Now.work = "seen" /\ body.seen.difficulty < Lesser(current, previous)

\* On a node that makes every check, a scenario fails only for a fault or for one of
\* these reasons: neither blocks and epochs between the reads of submit_enveloped nor
\* what earlier scenarios left in the pool fail it.
FailuresDeserved ==
  [][node = Checks =>
       \A i \in Scenarios : verdict[i] = "todo" /\ verdict'[i] = "fail" =>
         i \in faulted' \/ Excused]_vars

Green == Ended /\ \A i \in Scenarios : verdict[i] = "pass"

\* A green run of the envelope scenarios shows that the node makes every check of the
\* envelope: one that had to be refused was refused for what the scenario is about
\* (data.rs:22-32), not for its nonce, its destination or a leftover.  (An epoch that
\* ends by itself can give S032 the difficulty it wants to be the previous one.)
GreenMeansChecked ==
  Green /\ rolls = 0 /\ Suite = EnvelopeSuite => Checks \ {"nonce", "lane", "gate"} \subseteq node

\* A scenario that calls the agents pool's contracts for `w`.
CallsFor(i, w) == \E k \in 1..Len(Suite[i]) :
  Submits(Suite[i][k]) /\ Suite[i][k].gated /\ Suite[i][k].by = w

\* s003:21 (and S004, S005): whichever path fires, the record must not land on chain.  In a
\* green run a wallet's record is there only if a fault has hit the scenario that sent it:
\* the answer to an envelope the node has admitted was lost, which s003:64-68 takes for a
\* refusal.  Whatever else is wrong with the node, the receipt gives it away.
NoMintUnseen ==
  Green => \A w \in landed \ AttesterKeys : \E i \in faulted : CallsFor(i, w)

=============================================================================
