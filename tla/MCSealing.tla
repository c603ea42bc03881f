------------------------------- MODULE MCSealing -------------------------------
(***************************************************************************)
(* Model checking of SealingService: one context synced twice, two pools   *)
(* whose folds sum past the modulus, a new manifest, and a rotation while  *)
(* seals are under way.                                                    *)
(***************************************************************************)
EXTENDS SealingService

\* Pools alike, so that one counted twice passes for both; in a field of 3 two folds of 2
\* come to 1.
SomeContents == [p \in {1, 2} |-> [count |-> 1, fold |-> 2]]

=============================================================================
