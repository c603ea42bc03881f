-------------------------------- MODULE Script --------------------------------
(***************************************************************************)
(* A run of the suite as the runner sees it (testsuite/src/main.rs,        *)
(* testsuite/src/scenario.rs): the scenario bodies one after another, each *)
(* a script of steps that stops at the first step that does not go as the  *)
(* body expects.  What a step does is for the modules that extend this one.*)
(*                                                                         *)
(* A fault is an RPC failure or an expired deadline.  No scenario of the   *)
(* suite overrides pre_start or post_stop, so the body is all there is.    *)
(***************************************************************************)
EXTENDS Naturals, Sequences, FiniteSets

CONSTANTS
  Suites,    \* the suites to choose from, each the sequence of its bodies, and a body
             \* a sequence of records with a field op
  MaxFaults  \* bound: scenarios in which a fault occurs

\* Every step of every body is one of `ops`.
StepsAmong(ops) ==
  \A n \in DOMAIN Suites : \A i \in DOMAIN Suites[n] : \A k \in DOMAIN Suites[n][i] :
    Suites[n][i][k].op \in ops

IsSequence(s) == Len(s) \in Nat /\ DOMAIN s = 1..Len(s)

ASSUME SuiteAssumption ==
  /\ \A n \in DOMAIN Suites :
       /\ IsSequence(Suites[n])
       /\ \A i \in DOMAIN Suites[n] : IsSequence(Suites[n][i]) /\ Len(Suites[n][i]) > 0
  /\ MaxFaults \in Nat

VARIABLES
  suite,    \* the suite that runs
  at,       \* the scenario that runs
  step,     \* the step of its script
  mid,      \* how far inside that step
  verdict,  \* scenario -> "todo", "pass" or "fail"
  faulted   \* scenarios a fault has hit

scriptVars == <<suite, at, step, mid, verdict, faulted>>

Suite == Suites[suite]
Scenarios == 1..Len(Suite)

ScriptTypeOK ==
  /\ suite \in DOMAIN Suites
  /\ at \in 1..(Len(Suite) + 1)
  /\ step \in Nat \ {0}
  /\ at \in Scenarios => step \in 1..Len(Suite[at])
  /\ verdict \in [Scenarios -> {"todo", "pass", "fail"}]
  /\ faulted \subseteq Scenarios

ScriptInit ==
  /\ suite \in DOMAIN Suites
  /\ at = 1 /\ step = 1 /\ mid = "ready"
  /\ verdict = [i \in Scenarios |-> "todo"]
  /\ faulted = {}

InBody == at \in Scenarios
Now == Suite[at][step]

\* Mutant of Advance: a body that never ends.
AdvanceOn ==
  /\ mid' = "ready"
  /\ step' = step + 1
  /\ UNCHANGED <<suite, at, verdict>>

\* The body ends with Ok, or with Err; the runner goes on to the next scenario.
End(outcome) ==
  /\ mid' = "ready"
  /\ step' = 1 /\ at' = at + 1
  /\ verdict' = [verdict EXCEPT ![at] = outcome]
  /\ UNCHANGED suite

Pass == End("pass")
Fail == End("fail")

\* The body goes on to its next step, if it has one.
Advance ==
  IF step < Len(Suite[at])
    THEN mid' = "ready" /\ step' = step + 1 /\ UNCHANGED <<suite, at, verdict>>
    ELSE Pass

\* The body goes on inside its step.
Reach(m) == mid' = m /\ UNCHANGED <<suite, at, step, verdict>>

\* A call fails for a reason that has nothing to do with what it asks.
Faulty ==
  /\ faulted' = faulted \cup {at}
  /\ Cardinality(faulted') <= MaxFaults

Fault == Faulty /\ Fail

Ended == at > Len(Suite)

=============================================================================
