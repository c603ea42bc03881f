------------------------------- MODULE MCRunner -------------------------------
(***************************************************************************)
(* Runs of the binary on the command line of a complete run, with an L1    *)
(* or without, or on one that differs in a few options that have to do     *)
(* with each other.                                                        *)
(***************************************************************************)
EXTENDS RunnerScenarios

Suite4 == << "S030", "S045", "S046", "S049" >>
OnlyS030 == << "S030" >>
OnL1 == {"S045", "S046"}
NoIds == {}
OneHooked == {"S049"}

Blank == [blank |-> TRUE, hits |-> {"S030", "S045", "S046", "S049"}]
Part(ids) == [blank |-> FALSE, hits |-> ids]

Filters == {{}, {Blank}, {Part({"S046"})}, {Blank, Part({"S030"})}, {Part({})}}

Lines ==
  [only : Filters, skip : Filters, list : BOOLEAN, l1 : BOOLEAN, inbox : BOOLEAN,
   keys : {"given", "missing", "malformed"},
   json : {"none", "writable", "unwritable"}, junit : {"none", "writable", "unwritable"}]

Complete ==
  [only |-> {}, skip |-> {}, list |-> FALSE, l1 |-> TRUE, inbox |-> TRUE, keys |-> "given",
   json |-> "none", junit |-> "none"]

WithoutL1 == [Complete EXCEPT !.l1 = FALSE, !.inbox = FALSE]

Like(base, options) == {c \in Lines : \A o \in DOMAIN c \ options : c[o] = base[o]}

SomeLines ==
  Like(Complete, {"only"}) \cup Like(Complete, {"l1", "inbox"}) \cup
  Like(WithoutL1, {"only", "skip"}) \cup Like(WithoutL1, {"json", "junit"}) \cup
  Like(WithoutL1, {"list", "keys"})

OnlyS046 == {[Complete EXCEPT !.only = {Part({"S046"})}]}

JustComplete == {Complete}

TextWords ==
  {"PSO pool rejection", "MethodNotPermitted", "to:", "selector:", "execution reverted"}
AllSelectors == KnownErrors \cup {Address}
AllShapes == {"none", "uint256", "uint256[] x 4", "address"}
AllValues == {Address}
LeafValues == {Mine, Others, Empty}
TwoPlaces == 0..1

=============================================================================
