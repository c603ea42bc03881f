------------------------------- MODULE MCUsers -------------------------------
(***************************************************************************)
(* Runs of the users-lane scenarios.  The heights of the source (an age of *)
(* 20 in a window of 32, a chain of 64 blocks, an age of 10000) are scaled *)
(* down in the same order.                                                 *)
(***************************************************************************)
EXTENDS UsersScenarios

BothSuites == << EnvelopeSuite, WalletSuite >>
SomeTrouble == << 1, 3 >>

=============================================================================
