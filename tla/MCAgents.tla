------------------------------- MODULE MCAgents -------------------------------
(***************************************************************************)
(* Runs of the agents-pool scenarios.  The ids of the scripts are strings, *)
(* so the instances differ only in the suite, the registry at the start    *)
(* and the bounds.                                                         *)
(***************************************************************************)
EXTENDS AgentsScenarios

\* Bodies that need no registration, the bootstrap's, and one of their own.
ColdSuite == << S030, S007, S010, S033 >>

AllSuites == << RecordSuite, RegistrySuite, ColdSuite >>
AllStarts == << {Zero}, {Zero}, {} >>

ColdSuites == << ColdSuite >>
ColdStart == << {} >>

=============================================================================
