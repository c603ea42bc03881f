-------------------------- MODULE MCSealingScenarios --------------------------
(***************************************************************************)
(* Runs of S051 to S053 on a new devnet, once and twice.                   *)
(***************************************************************************)
EXTENDS SealingScenarios

OnceOrTwice == << Once, Twice >>

=============================================================================
