------------------------------- MODULE MCDrafts -------------------------------
(***************************************************************************)
(* Runs of the TributeDraft scenarios: those around the full draft, and    *)
(* those that mint units for a draft to be refused.                        *)
(***************************************************************************)
EXTENDS DraftScenarios

BothSuites == << FullSuite, RefusalSuite >>
ThreeEach == << 3, 3 >>

=============================================================================
