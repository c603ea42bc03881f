------------------------------- MODULE Runner -------------------------------
(***************************************************************************)
(* The pso-e2e binary around the scenarios' bodies (testsuite/src/main.rs, *)
(* scenario.rs and cli.rs): which scenarios a command line selects, the    *)
(* hooks around each body, the report and its files, the exit code.        *)
(*                                                                         *)
(* A body is whatever returns; the scenarios of today override no hook,    *)
(* and ScenarioResult::time serves those that do.                          *)
(***************************************************************************)
EXTENDS Naturals, Sequences, FiniteSets

CONSTANTS
  All,          \* scenarios::all, the ids in its order
  NeedL1,       \* S045 and S046
  Hooked,       \* the scenarios with a pre_start that can fail
  CommandLines  \* what the binary may be called with

Ids == {All[i] : i \in DOMAIN All}
Formats == {"json", "junit"}

\* A filter's part between two commas, by the ids that contain it.
FilterPart == [blank : BOOLEAN, hits : SUBSET Ids]

ASSUME RunnerAssumption ==
  /\ All \in Seq(Ids) /\ \A i, j \in DOMAIN All : All[i] = All[j] => i = j
  /\ NeedL1 \subseteq Ids /\ Hooked \subseteq Ids
  /\ \A c \in CommandLines :
       /\ c.only \subseteq FilterPart /\ c.skip \subseteq FilterPart
       /\ {c.list, c.l1, c.inbox} \subseteq BOOLEAN
       /\ c.keys \in {"given", "missing", "malformed"}
       /\ {c.json, c.junit} \subseteq {"none", "writable", "unwritable"}

VARIABLES
  cli,        \* the command line
  phase,      \* how far main is
  at,         \* the scenario that runs, or the next one
  outcome,    \* what its body has returned
  results,    \* Report::results
  files,      \* format -> the results written to --json-output or --junit-output
  exit,       \* the exit code
  unstopped   \* scenarios that are set up and not torn down

runnerVars == <<cli, phase, at, outcome, results, files, exit, unstopped>>

Running == 255  \* an exit code no run ends with

\* Mutant of Named: blank parts count, and every id contains them.
NamedOrBlank(parts) == parts

Named(parts) == {p \in parts : ~p.blank}

apply_filters(c, id) ==
  /\ Named(c.only) = {} \/ \E p \in Named(c.only) : id \in p.hits
  /\ ~ \E p \in Named(c.skip) : id \in p.hits

Kept(c) == {i \in DOMAIN All : apply_filters(c, All[i]) /\ (c.l1 \/ All[i] \notin NeedL1)}

\* The n-th scenario that is kept: n of them stand up to it.
Nth(c, n) == CHOOSE i \in Kept(c) : Cardinality({j \in Kept(c) : j <= i}) = n

Selected(c) == [n \in 1..Cardinality(Kept(c)) |-> All[Nth(c, n)]]

\* required_unless_present applies to keys that are not there, not to malformed ones.
Parses(c) == c.keys = "given" \/ (c.keys = "missing" /\ c.list)

Failed(rows) == {i \in DOMAIN rows : rows[i].outcome = "fail"}

RunnerTypeOK ==
  /\ cli \in CommandLines
  /\ phase \in {"args", "boot", "next", "body", "stopping", "json", "junit", "done", "exited"}
  /\ at \in 1..(Len(Selected(cli)) + 1)
  /\ outcome \in {"none", "pass", "fail"}
  /\ results \in Seq([id : Ids, outcome : {"pass", "fail"}]) /\ Len(results) = at - 1
  /\ files \in [Formats -> {<<>>} \cup {<<results>>}]
  /\ exit \in {0, 1, 2, 101, Running}
  /\ unstopped \subseteq 1..at

RunnerInit ==
  /\ cli \in CommandLines
  /\ phase = "args" /\ at = 1 /\ outcome = "none"
  /\ results = <<>> /\ files = [f \in Formats |-> <<>>]
  /\ exit = Running /\ unstopped = {}

-----------------------------------------------------------------------------

Exit(code) ==
  /\ phase' = "exited" /\ exit' = code
  /\ UNCHANGED <<cli, at, outcome, results, files, unstopped>>

Goes(to) ==
  /\ phase' = to
  /\ UNCHANGED <<cli, at, outcome, results, files, exit, unstopped>>

\* try_parse and --list: neither touches the chain.
ReadArgs ==
  /\ phase = "args"
  /\ \/ ~Parses(cli) /\ Exit(2)
     \/ Parses(cli) /\ cli.list /\ Exit(0)
     \/ Parses(cli) /\ ~cli.list /\ Goes("boot")

Bootstrap == phase = "boot" /\ (Goes("next") \/ Exit(2))

\* Mutant of PreStart: a setup that fails pushes its row itself.
PreStartReports ==
  /\ phase = "next" /\ at <= Len(Selected(cli))
  /\ unstopped' = unstopped \cup {at}
  /\ \/ phase' = "body" /\ UNCHANGED <<outcome, results>>
     \/ /\ Selected(cli)[at] \in Hooked /\ phase' = "stopping" /\ outcome' = "fail"
        /\ results' = Append(results, [id |-> Selected(cli)[at], outcome |-> "fail"])
  /\ UNCHANGED <<cli, at, files, exit>>

\* The scenario that runs; pre_start is its first part.
PreStart ==
  /\ phase = "next" /\ at <= Len(Selected(cli))
  /\ unstopped' = unstopped \cup {at}
  /\ \/ phase' = "body" /\ UNCHANGED outcome
     \/ Selected(cli)[at] \in Hooked /\ phase' = "stopping" /\ outcome' = "fail"
  /\ UNCHANGED <<cli, at, results, files, exit>>

BodyReturns(o) ==
  /\ phase = "body"
  /\ phase' = "stopping" /\ outcome' = o
  /\ UNCHANGED <<cli, at, results, files, exit, unstopped>>

\* Nothing between a body and main catches a panic.
BodyPanics == phase = "body" /\ Exit(101)

\* Mutant of PostStop: it runs after a body that passed.
PostStopAfterPass ==
  /\ phase = "stopping"
  /\ unstopped' = IF outcome = "pass" THEN unstopped \ {at} ELSE unstopped
  /\ results' = Append(results, [id |-> Selected(cli)[at], outcome |-> outcome])
  /\ at' = at + 1 /\ phase' = "next" /\ outcome' = "none"
  /\ UNCHANGED <<cli, files, exit>>

\* Whether it fails or not, the row is what the body has returned.
PostStop ==
  /\ phase = "stopping"
  /\ unstopped' = unstopped \ {at}
  /\ results' = Append(results, [id |-> Selected(cli)[at], outcome |-> outcome])
  /\ at' = at + 1 /\ phase' = "next" /\ outcome' = "none"
  /\ UNCHANGED <<cli, files, exit>>

PrintReport == phase = "next" /\ at > Len(Selected(cli)) /\ Goes("json")

\* Mutant of WriteFile: a file that cannot be written is only logged.
WriteIfPossible(f, to) ==
  /\ phase = f
  /\ files' = [files EXCEPT ![f] = IF cli[f] = "writable" THEN <<results>> ELSE <<>>]
  /\ phase' = to
  /\ UNCHANGED <<cli, at, outcome, results, exit, unstopped>>

WriteFile(f, to) ==
  /\ phase = f
  /\ \/ cli[f] = "none" /\ Goes(to)
     \/ cli[f] = "unwritable" /\ Exit(2)
     \/ /\ cli[f] = "writable"
        /\ files' = [files EXCEPT ![f] = <<results>>]
        /\ phase' = to
        /\ UNCHANGED <<cli, at, outcome, results, exit, unstopped>>

Finish == phase = "done" /\ Exit(IF Failed(results) = {} THEN 0 ELSE 1)

\* What main does apart from the bodies.
MainStep ==
  \/ ReadArgs \/ Bootstrap \/ PreStart \/ PostStop \/ PrintReport \/ Finish
  \/ WriteFile("json", "junit") \/ WriteFile("junit", "done")

HarnessNext == MainStep \/ BodyPanics \/ \E o \in {"pass", "fail"} : BodyReturns(o)

Harness == RunnerInit /\ [][HarnessNext]_runnerVars

-----------------------------------------------------------------------------
(* What the caller of the binary may rely on.                              *)

\* Exit codes 0 and 1 stand for a report: it has a row for each selected scenario, in the
\* suite's order, 0 says that all of them passed, and every file that was asked for holds
\* it.  main.rs:6-9 promises the codes, main.rs:115-120 writes the files first.
ExitTellsReport ==
  exit \in {0, 1} /\ ~cli.list =>
    /\ Len(results) = Len(Selected(cli))
    /\ \A i \in 1..Len(results) : results[i].id = Selected(cli)[i]
    /\ exit = 0 <=> \A i \in 1..Len(results) : results[i].outcome = "pass"
    /\ \A f \in Formats : cli[f] # "none" => files[f] = <<results>>

\* scenario.rs:36-40: a scenario is torn down before the next one starts and before the
\* process ends, whatever its setup and its body returned.  A panic is the exception.
TornDown ==
  phase \notin {"body", "stopping"} /\ exit # 101 => unstopped = {}

\* cli.rs:99-105, main.rs:82-93: a scenario is left out only because a filter that names
\* something says so, or for want of an L1.  An empty report with exit code 0 is never
\* the doing of an empty filter.
LeftOutOnlyIfAsked ==
  exit \in {0, 1} /\ ~cli.list =>
    \A id \in Ids : (\A i \in DOMAIN results : results[i].id # id) =>
      \/ \E p \in cli.only : ~p.blank
      \/ \E p \in cli.skip : ~p.blank /\ id \in p.hits
      \/ id \in NeedL1 /\ ~cli.l1

=============================================================================
