---------------------------- MODULE EvidenceProofs ----------------------------
(***************************************************************************)
(* What a report is worth.  First what the decoder makes of a text, of any *)
(* length and with any words, addresses and lists in any order; then what  *)
(* the caller of the binary may rely on, for every suite, every command    *)
(* line and whatever the bodies return, and that the scenarios of          *)
(* RunnerScenarios are such bodies.  Then what a verdict is worth, on every*)
(* chain and whatever a node makes up: no bound on blocks, rounds or the   *)
(* command lines on which it lies; what a pass is evidence for comes       *)
(* first, what excuses a failure after it.                                 *)
(***************************************************************************)
EXTENDS RunnerScenarios, ErrorDecode, InductionProofs

-----------------------------------------------------------------------------
(* Places in a text.                                                       *)

\* Of some places in a text one is the first.
LEMMA FirstOfPlaces ==
  ASSUME NEW places \in SUBSET Nat, places # {}
  PROVE  First(places) \in places /\ \A j \in places : First(places) <= j
<1>1. \E i \in places : \A j \in places : <<j, i>> \notin OpToRel(<, Nat)
  BY NatLessThanWellFounded, WFMin
<1>2. \E i \in places : \A j \in places : i <= j
  <2>1. PICK i \in places : \A j \in places : <<j, i>> \notin OpToRel(<, Nat)
    BY <1>1
  <2>2. \A j \in places : ~(j < i)
    BY <2>1 DEF OpToRel
  <2> QED
    BY <2>2
<1> QED
  BY <1>2 DEF First

\* The places the decoder looks at are places.
LEMMA PlacesAreNumbers ==
  ASSUME NEW msg \in Text
  PROVE  /\ DOMAIN msg \in SUBSET Nat
         /\ Explicit(msg) \in SUBSET Nat /\ Explicit(msg) \subseteq DOMAIN msg
         /\ Bare(msg) \in SUBSET Nat /\ Bare(msg) \subseteq DOMAIN msg
  BY DEF Text, Explicit, Bare

\* A run of digits holds a payload, whichever of the two forms it is in.
LEMMA RunsHoldPayloads ==
  ASSUME NEW msg \in Text, NEW i \in DOMAIN msg, msg[i].is \in {"hex", "data"}
  PROVE  msg[i].hex \in Hex /\ msg[i].hex.bytes \in Payload /\ msg[i].hex.even \in BOOLEAN
<1>1. msg[i] \in Token
  BY DEF Text
<1> QED
  BY <1>1 DEF Token, Hex

\* What is taken from a text for revert data stands in it, in an even run of digits.
LEMMA ExtractedIsThere ==
  ASSUME NEW msg \in Text, extract_revert_bytes(msg) # None
  PROVE  \E i \in DOMAIN msg :
           /\ msg[i].is \in {"hex", "data"}
           /\ msg[i].hex.even
           /\ extract_revert_bytes(msg) = msg[i].hex.bytes
<1> USE PlacesAreNumbers
<1>1. CASE Quotes(msg)
  <2>1. First(Explicit(msg)) \in Explicit(msg)
    BY <1>1, FirstOfPlaces DEF Quotes
  <2>2. msg[First(Explicit(msg))].hex.even
    BY <1>1 DEF extract_revert_bytes
  <2>3. extract_revert_bytes(msg) = msg[First(Explicit(msg))].hex.bytes
    BY <1>1, <2>2 DEF extract_revert_bytes
  <2> QED
    BY <2>1, <2>2, <2>3 DEF Explicit
<1>2. CASE ~Quotes(msg)
  <2>1. Bare(msg) # {}
    BY <1>2 DEF extract_revert_bytes
  <2>2. First(Bare(msg)) \in Bare(msg)
    BY <2>1, FirstOfPlaces
  <2>3. extract_revert_bytes(msg) = msg[First(Bare(msg))].hex.bytes
    BY <1>2, <2>1 DEF extract_revert_bytes
  <2> QED
    BY <2>2, <2>3 DEF Bare
<1> QED
  BY <1>1, <1>2

-----------------------------------------------------------------------------
(* What a scenario is told.                                                *)

\* A revert that the node quotes as data: "0x..." is decoded from these bytes, whatever
\* addresses, hashes and words stand before and after it.
THEOREM QuotedRevertDecides ==
  ASSUME NEW msg \in Text, NEW i \in DOMAIN msg,
         msg[i].is = "data", msg[i].closed, msg[i].hex.even,
         \A j \in DOMAIN msg : j < i => msg[j].is # "data"
  PROVE  decode_text(msg) = decode_from_bytes(msg[i].hex.bytes)
<1> USE PlacesAreNumbers
<1>1. First(Explicit(msg)) = i
  <2>1. i \in Explicit(msg)
    BY DEF Explicit
  <2>2. First(Explicit(msg)) \in Explicit(msg) /\ First(Explicit(msg)) <= i
    BY <2>1, FirstOfPlaces
  <2> QED
    BY <2>1, <2>2 DEF Explicit
<1>2. Quotes(msg)
  BY <1>1 DEF Quotes, Explicit
<1>3. extract_revert_bytes(msg) = msg[i].hex.bytes
  BY <1>1, <1>2 DEF extract_revert_bytes
<1>4. extract_revert_bytes(msg) # None
  BY <1>3, RunsHoldPayloads, DecodeAssumption
<1> QED
  BY <1>3, <1>4 DEF decode_text

\* Decoding undoes encoding: an error comes back as itself, with its arguments; the one
\* exception is a tier beyond u32, which comes back as u32::MAX.
THEOREM RevertRoundTrip ==
  ASSUME NEW e \in KnownErrors, NEW v \in Values,
         e = "AggregationTierUnavailable" => v \in Nat /\ v <= U32Max
  PROVE  decode_from_bytes(RevertOf(e, v)) = Typed(e, IF e \in StaticErrors THEN None ELSE v)
<1>1. CASE e \in StaticErrors
  <2>1. e \notin DOMAIN ShapeOf
    BY <1>1 DEF StaticErrors, ShapeOf
  <2>2. RevertOf(e, v).size = 4 /\ RevertOf(e, v).selector = e
    BY <2>1 DEF RevertOf
  <2> QED
    BY <1>1, <2>2 DEF decode_from_bytes
<1>2. CASE e \notin StaticErrors
  <2>1. e \in DOMAIN ShapeOf
    BY <1>2 DEF KnownErrors
  <2>2. RevertOf(e, v) = [size |-> 36, selector |-> e, shape |-> ShapeOf[e], value |-> v]
    BY <2>1 DEF RevertOf
  <2>3. ~(e = "AggregationTierUnavailable" /\ v > U32Max)
    BY DecodeAssumption
  <2> QED
    BY <1>2, <2>1, <2>2, <2>3 DEF decode_from_bytes
<1> QED
  BY <1>1, <1>2

\* A typed error is never made up: four bytes of the text are its selector.
THEOREM TypedErrorWasSent ==
  ASSUME NEW msg \in Text, decode_text(msg).is \in KnownErrors
  PROVE  \E i \in DOMAIN msg : /\ msg[i].is \in {"hex", "data"}
                               /\ msg[i].hex.bytes.selector = decode_text(msg).is
<1>1. "MethodNotPermitted" \notin KnownErrors /\ "PoolRejection" \notin KnownErrors
      /\ "Other" \notin KnownErrors
  BY DEF KnownErrors, StaticErrors, ShapeOf
<1>2. parse_method_not_permitted(msg) # None =>
        parse_method_not_permitted(msg).is = "MethodNotPermitted"
  BY DEF parse_method_not_permitted, Typed
<1>3. extract_revert_bytes(msg) # None
  BY <1>1, <1>2 DEF decode_text, Other, Typed
<1>4. decode_text(msg) = decode_from_bytes(extract_revert_bytes(msg))
  BY <1>3 DEF decode_text
<1>5. decode_text(msg).is = extract_revert_bytes(msg).selector
  BY <1>1, <1>4 DEF decode_from_bytes, Other, Typed
<1> QED
  BY <1>3, <1>5, ExtractedIsThere

\* The two fields a pool names are told apart only when the text quotes revert data that
\* is no hex: otherwise the address itself, being a run of twenty bytes, is taken for the
\* data of a revert.
THEOREM RejectionIsShadowed ==
  ASSUME NEW msg \in Text, decode_text(msg).is = "MethodNotPermitted"
  PROVE  \E i \in DOMAIN msg : msg[i].is = "data" /\ msg[i].closed /\ ~msg[i].hex.even
<1> USE PlacesAreNumbers
<1>1. parse_method_not_permitted(msg) # None /\ extract_revert_bytes(msg) = None
  <2>1. \A b : decode_from_bytes(b).is \in KnownErrors \cup {"Other"}
    BY DEF decode_from_bytes, KnownErrors, Other, Typed
  <2>2. "MethodNotPermitted" \notin KnownErrors \cup {"Other"}
    BY DEF KnownErrors, StaticErrors, ShapeOf
  <2>3. extract_revert_bytes(msg) = None
    BY <2>1, <2>2 DEF decode_text
  <2> QED
    BY <2>3 DEF decode_text, Other, Typed
<1> DEFINE start == First({i \in DOMAIN msg : msg[i].is = "word" /\ msg[i].word = "MethodNotPermitted"})
           runs == {j \in After(msg, start, "to:") : msg[j].is \in {"hex", "data"}}
<1>2. start \in DOMAIN msg
  <2>1. {i \in DOMAIN msg : msg[i].is = "word" /\ msg[i].word = "MethodNotPermitted"} # {}
    BY <1>1 DEF parse_method_not_permitted
  <2> QED
    BY <2>1, FirstOfPlaces
<1>3. parse_addr_after(msg, start) # None
  BY <1>1 DEF parse_method_not_permitted
<1>4. runs # {} /\ msg[First(runs)].hex.even /\ msg[First(runs)].hex.bytes.size = 20
  BY <1>3 DEF parse_addr_after
<1>5. First(runs) \in runs /\ First(runs) \in DOMAIN msg
  <2>1. runs \subseteq DOMAIN msg
    BY <1>2 DEF After, Text
  <2> QED
    BY <1>4, <2>1, FirstOfPlaces
<1>6. Bare(msg) # {}
  <2>1. PICK j \in runs : j \in DOMAIN msg /\ msg[j].hex.even /\ msg[j].hex.bytes.size = 20
    BY <1>4, <1>5
  <2>2. msg[j].is \in {"hex", "data"}
    OBVIOUS
  <2>3. j \in Bare(msg)
    BY <2>1, <2>2 DEF Bare
  <2> QED
    BY <2>3
<1>7. Quotes(msg)
  <2> SUFFICES ASSUME ~Quotes(msg) PROVE FALSE
    OBVIOUS
  <2>1. First(Bare(msg)) \in Bare(msg)
    BY <1>6, FirstOfPlaces
  <2>2. extract_revert_bytes(msg) = msg[First(Bare(msg))].hex.bytes
    BY <1>6 DEF extract_revert_bytes
  <2>3. msg[First(Bare(msg))].hex.bytes \in Payload
    BY <2>1, RunsHoldPayloads DEF Bare
  <2> QED
    BY <1>1, <2>2, <2>3, DecodeAssumption
<1>8. First(Explicit(msg)) \in Explicit(msg)
  BY <1>7, FirstOfPlaces DEF Quotes
<1>9. ~msg[First(Explicit(msg))].hex.even
  <2> SUFFICES ASSUME msg[First(Explicit(msg))].hex.even PROVE FALSE
    OBVIOUS
  <2>1. extract_revert_bytes(msg) = msg[First(Explicit(msg))].hex.bytes
    BY <1>7 DEF extract_revert_bytes
  <2>2. msg[First(Explicit(msg))].hex.bytes \in Payload
    BY <1>8, RunsHoldPayloads DEF Explicit
  <2> QED
    BY <1>1, <2>1, <2>2, DecodeAssumption
<1> QED
  BY <1>7, <1>8, <1>9 DEF Quotes, Explicit

-----------------------------------------------------------------------------
(* The selected scenarios.                                                 *)

UpTo(c, m) == {j \in Kept(c) : j <= m}

\* The kept places are finitely many natural numbers, and so are those up to a place.
LEMMA KeptIsFinite ==
  ASSUME NEW c
  PROVE  /\ Kept(c) \subseteq 1..Len(All) /\ Len(All) \in Nat
         /\ IsFiniteSet(Kept(c)) /\ Cardinality(Kept(c)) \in Nat
         /\ \A m : IsFiniteSet(UpTo(c, m)) /\ Cardinality(UpTo(c, m)) \in Nat
<1>1. Len(All) \in Nat /\ DOMAIN All = 1..Len(All)
  BY RunnerAssumption
<1>2. Kept(c) \subseteq 1..Len(All)
  BY <1>1 DEF Kept
<1>3. IsFiniteSet(1..Len(All))
  BY <1>1, FS_Interval
<1>4. IsFiniteSet(Kept(c))
  BY <1>2, <1>3, FS_Subset
<1>5. ASSUME NEW m PROVE IsFiniteSet(UpTo(c, m))
  <2>1. UpTo(c, m) \in SUBSET Kept(c)
    BY DEF UpTo
  <2> QED
    BY <1>4, <2>1, FS_Subset
<1> QED
  BY <1>1, <1>2, <1>4, <1>5, FS_CardinalityType

\* Among the kept places there is one up to which n of them stand.
LEMMA NthExists ==
  ASSUME NEW c, NEW n \in 1..Cardinality(Kept(c))
  PROVE  \E i \in Kept(c) : Cardinality(UpTo(c, i)) = n
<1> USE KeptIsFinite
<1> DEFINE enough == {m \in Nat : Cardinality(UpTo(c, m)) >= n}
<1>1. Len(All) \in enough
  <2>1. UpTo(c, Len(All)) = Kept(c)
    BY DEF UpTo
  <2> QED
    BY <2>1
<1>2. PICK m \in enough : \A k \in enough : m <= k
  <2>1. PICK m \in enough : \A k \in enough : <<k, m>> \notin OpToRel(<, Nat)
    <3>1. enough \subseteq Nat /\ enough # {}
      BY <1>1
    <3> QED
      BY <3>1, NatLessThanWellFounded, WFMin
  <2>2. \A k \in enough : ~(k < m)
    BY <2>1 DEF OpToRel
  <2> QED
    BY <2>2
<1>3. m # 0
  <2>1. UpTo(c, 0) = {}
    BY DEF UpTo
  <2> QED
    BY <2>1, FS_EmptySet
<1>4. m - 1 \in Nat /\ m - 1 \notin enough
  BY <1>2, <1>3
<1>5. Cardinality(UpTo(c, m - 1)) < n
  BY <1>4
<1>6. m \in Kept(c)
  <2>1. SUFFICES ASSUME m \notin Kept(c) PROVE FALSE
    OBVIOUS
  <2>2. UpTo(c, m) = UpTo(c, m - 1)
    BY <1>2, <2>1 DEF UpTo
  <2> QED
    BY <1>2, <1>5, <2>2
<1>7. UpTo(c, m) = UpTo(c, m - 1) \cup {m}
  BY <1>2, <1>6 DEF UpTo
<1>8. Cardinality(UpTo(c, m)) <= Cardinality(UpTo(c, m - 1)) + 1
  <2>1. IsFiniteSet(UpTo(c, m - 1)) /\ Cardinality(UpTo(c, m - 1)) \in Nat
    OBVIOUS
  <2>2. Cardinality(UpTo(c, m - 1) \cup {m}) \in {Cardinality(UpTo(c, m - 1)), Cardinality(UpTo(c, m - 1)) + 1}
    BY <2>1, FS_AddElement
  <2> QED
    BY <1>7, <2>1, <2>2
<1>9. Cardinality(UpTo(c, m)) = n
  BY <1>2, <1>5, <1>8
<1> QED
  BY <1>6, <1>9

\* No two kept places have as many up to them.
LEMMA NthIsUnique ==
  ASSUME NEW c, NEW i \in Kept(c), NEW j \in Kept(c), Cardinality(UpTo(c, i)) = Cardinality(UpTo(c, j))
  PROVE  i = j
<1> USE KeptIsFinite
<1>1. i <= j \/ j <= i
  OBVIOUS
<1>2. CASE i <= j
  <2>1. UpTo(c, i) \in SUBSET UpTo(c, j)
    BY <1>2 DEF UpTo
  <2>2. UpTo(c, i) = UpTo(c, j)
    BY <2>1, FS_Subset
  <2>3. j \in UpTo(c, i)
    BY <2>2 DEF UpTo
  <2> QED
    BY <1>2, <2>3 DEF UpTo
<1>3. CASE j <= i
  <2>1. UpTo(c, j) \in SUBSET UpTo(c, i)
    BY <1>3 DEF UpTo
  <2>2. UpTo(c, i) = UpTo(c, j)
    BY <2>1, FS_Subset
  <2>3. i \in UpTo(c, j)
    BY <2>2 DEF UpTo
  <2> QED
    BY <1>3, <2>3 DEF UpTo
<1> QED
  BY <1>1, <1>2, <1>3

\* The list the runner goes through holds kept scenarios, each of them.
LEMMA SelectedIsKept ==
  ASSUME NEW c
  PROVE  /\ Selected(c) \in Seq(Ids)
         /\ Len(Selected(c)) = Cardinality(Kept(c)) /\ Len(Selected(c)) \in Nat
         /\ \A i \in Kept(c) : \E n \in 1..Len(Selected(c)) : Selected(c)[n] = All[i]
<1> USE KeptIsFinite
<1>1. ASSUME NEW n \in 1..Cardinality(Kept(c))
      PROVE  Nth(c, n) \in Kept(c) /\ Cardinality(UpTo(c, Nth(c, n))) = n
  BY NthExists DEF Nth, UpTo
<1>2. \A n \in 1..Cardinality(Kept(c)) : All[Nth(c, n)] \in Ids
  BY <1>1, RunnerAssumption DEF Ids
<1>3. Selected(c) \in Seq(Ids) /\ Len(Selected(c)) = Cardinality(Kept(c))
  BY <1>2 DEF Selected
<1>4. ASSUME NEW i \in Kept(c)
      PROVE  \E n \in 1..Len(Selected(c)) : Selected(c)[n] = All[i]
  <2> DEFINE n == Cardinality(UpTo(c, i))
  <2>1. UpTo(c, i) \in SUBSET Kept(c) /\ i \in UpTo(c, i)
    BY DEF UpTo
  <2>2. n <= Cardinality(Kept(c)) /\ n # 0
    BY <2>1, FS_Subset, FS_EmptySet
  <2>3. n \in 1..Cardinality(Kept(c))
    BY <2>2
  <2>4. Nth(c, n) = i
    BY <1>1, <2>3, NthIsUnique
  <2> QED
    BY <1>3, <2>3, <2>4 DEF Selected
<1> QED
  BY <1>3, <1>4

\* None of them comes twice.
LEMMA SelectedOnce ==
  ASSUME NEW c, NEW m \in 1..Len(Selected(c)), NEW n \in 1..Len(Selected(c)),
         Selected(c)[m] = Selected(c)[n]
  PROVE  m = n
<1>1. \A k \in 1..Len(Selected(c)) : Nth(c, k) \in Kept(c) /\ Cardinality(UpTo(c, Nth(c, k))) = k
  <2>1. Len(Selected(c)) = Cardinality(Kept(c))
    BY SelectedIsKept
  <2>2. \A k \in 1..Cardinality(Kept(c)) : Nth(c, k) \in Kept(c) /\ Cardinality(UpTo(c, Nth(c, k))) = k
    BY NthExists DEF Nth, UpTo
  <2> QED
    BY <2>1, <2>2
<1>2. All[Nth(c, m)] = All[Nth(c, n)]
  BY SelectedIsKept DEF Selected
<1>3. Nth(c, m) \in DOMAIN All /\ Nth(c, n) \in DOMAIN All
  BY <1>1 DEF Kept
<1>4. Nth(c, m) = Nth(c, n)
  BY <1>2, <1>3, RunnerAssumption
<1> QED
  BY <1>1, <1>4

-----------------------------------------------------------------------------
(* The runner.                                                             *)

BeforeFiles == {"args", "boot", "next", "body", "stopping", "json"}

\* What main knows at each of its places.
RInv ==
  /\ RunnerTypeOK
  /\ \A i \in 1..Len(results) : results[i].id = Selected(cli)[i]
  /\ phase \in {"body", "stopping"} => at <= Len(Selected(cli)) /\ unstopped = {at}
  /\ phase \notin {"body", "stopping"} => exit = 101 \/ unstopped = {}
  /\ phase = "stopping" => outcome \in {"pass", "fail"}
  /\ phase \in {"json", "junit", "done"} => at = Len(Selected(cli)) + 1
  /\ phase \in BeforeFiles => files = [f \in Formats |-> <<>>]
  /\ phase \in {"junit", "done"} /\ cli.json # "none" => files["json"] = <<results>>
  /\ phase = "done" /\ cli.junit # "none" => files["junit"] = <<results>>
  /\ phase \notin {"args", "exited"} => ~cli.list
  /\ phase # "exited" => exit = Running
  /\ ExitTellsReport

LEMMA RInvInit == RunnerInit => RInv
<1> SUFFICES ASSUME RunnerInit PROVE RInv
  OBVIOUS
<1> USE SelectedIsKept DEF RunnerInit
<1>1. results \in Seq([id : Ids, outcome : {"pass", "fail"}]) /\ Len(results) = 0
  OBVIOUS
<1>2. RunnerTypeOK
  BY <1>1 DEF RunnerTypeOK, Formats, Running
<1> QED
  BY <1>1, <1>2 DEF RInv, ExitTellsReport, Running, BeforeFiles

\* Going on to another phase.
LEMMA GoesKeeps ==
  ASSUME RInv, RunnerTypeOK, NEW to, Goes(to), phase # "exited",
         to \in {"boot", "next", "json", "junit", "done"},
         to \notin {"boot", "next", "json"} => phase \in {"json", "junit"},
         to \in {"boot", "next", "json"} => phase \in {"args", "boot", "next"},
         to = "junit" => phase = "json" /\ cli.json = "none",
         to = "done" => phase = "junit" /\ cli.junit = "none",
         to = "json" => at > Len(Selected(cli)),
         phase = "args" => ~cli.list
  PROVE  RInv'
<1> USE SelectedIsKept
<1>1. RunnerTypeOK'
  BY DEF Goes, RunnerTypeOK
<1>2. ExitTellsReport'
  BY DEF Goes, RInv, ExitTellsReport, Running
<1>3. to = "json" => at = Len(Selected(cli)) + 1
  BY DEF RunnerTypeOK
<1> QED
  BY <1>1, <1>2, <1>3 DEF Goes, RInv, BeforeFiles

\* Leaving with an exit code that says nothing of the scenarios.
LEMMA ExitKeeps ==
  ASSUME RInv, NEW code \in {0, 2, 101}, Exit(code), code = 0 => cli.list,
         code # 101 => phase \notin {"body", "stopping"}, phase # "exited"
  PROVE  RInv'
<1> USE SelectedIsKept
<1>1. RunnerTypeOK'
  BY DEF Exit, RInv, RunnerTypeOK
<1>2. ExitTellsReport'
  BY DEF Exit, ExitTellsReport
<1>3. code # 101 => unstopped = {}
  BY DEF RInv, Running
<1> QED
  BY <1>1, <1>2, <1>3 DEF Exit, RInv, BeforeFiles

LEMMA FinishKeeps ==
  ASSUME RInv, Finish
  PROVE  RInv'
<1> DEFINE code == IF Failed(results) = {} THEN 0 ELSE 1
<1>1. Exit(code) /\ phase = "done" /\ code \in {0, 1}
  BY DEF Finish
<1>2. RunnerTypeOK'
  BY <1>1 DEF Exit, RInv, RunnerTypeOK
<1>3. results \in Seq([id : Ids, outcome : {"pass", "fail"}])
  BY DEF RInv, RunnerTypeOK
<1>4. code = 0 <=> \A i \in 1..Len(results) : results[i].outcome = "pass"
  <2>1. \A i \in 1..Len(results) : results[i].outcome \in {"pass", "fail"}
    <3> DEFINE rows == [id : Ids, outcome : {"pass", "fail"}]
    <3>1. ASSUME NEW set, results \in Seq(set)
          PROVE  \A i \in 1..Len(results) : results[i] \in set
      BY <3>1
    <3>2. \A i \in 1..Len(results) : results[i] \in rows
      <4> HIDE DEF rows
      <4> QED
        BY <1>3, <3>1 DEF rows
    <3> QED
      BY <3>2
  <2>2. DOMAIN results = 1..Len(results)
    BY <1>3
  <2> QED
    BY <2>1, <2>2 DEF Failed
<1>5. Len(results) = Len(Selected(cli))
  BY <1>1, SelectedIsKept DEF RInv, RunnerTypeOK
<1>6. \A f \in Formats : cli[f] # "none" => files[f] = <<results>>
  BY <1>1 DEF RInv, Formats
<1>7. ExitTellsReport'
  BY <1>1, <1>4, <1>5, <1>6 DEF Exit, RInv, ExitTellsReport
<1>8. unstopped = {}
  BY <1>1 DEF RInv, Running
<1> QED
  BY <1>1, <1>2, <1>7, <1>8 DEF Exit, RInv, BeforeFiles

LEMMA PreStartKeeps ==
  ASSUME RInv, PreStart
  PROVE  RInv'
<1> USE SelectedIsKept
<1>1. unstopped' = {at} /\ phase' \in {"body", "stopping"} /\ at <= Len(Selected(cli)) /\ exit = Running
  BY DEF PreStart, RInv, Running
<1>2. RunnerTypeOK'
  BY <1>1 DEF PreStart, RInv, RunnerTypeOK
<1>3. ExitTellsReport'
  BY <1>1 DEF PreStart, ExitTellsReport, Running
<1> QED
  BY <1>1, <1>2, <1>3 DEF PreStart, RInv, BeforeFiles

LEMMA BodyReturnsKeeps ==
  ASSUME RInv, NEW o \in {"pass", "fail"}, BodyReturns(o)
  PROVE  RInv'
<1>1. RunnerTypeOK'
  BY DEF BodyReturns, RInv, RunnerTypeOK
<1>2. ExitTellsReport'
  BY DEF BodyReturns, RInv, ExitTellsReport, Running
<1> QED
  BY <1>1, <1>2 DEF BodyReturns, RInv, BeforeFiles

LEMMA PostStopKeeps ==
  ASSUME RInv, PostStop
  PROVE  RInv'
<1> DEFINE row == [id |-> Selected(cli)[at], outcome |-> outcome]
<1>1. at \in Nat \ {0} /\ at <= Len(Selected(cli)) /\ outcome \in {"pass", "fail"} /\ Len(results) = at - 1
      /\ results \in Seq([id : Ids, outcome : {"pass", "fail"}]) /\ unstopped = {at} /\ exit = Running
      /\ files = [f \in Formats |-> <<>>]
  BY DEF PostStop, RInv, RunnerTypeOK, BeforeFiles
<1>2. row \in [id : Ids, outcome : {"pass", "fail"}]
  <2>1. Selected(cli)[at] \in Ids
    BY <1>1, SelectedIsKept
  <2> QED
    BY <1>1, <2>1
<1>3. results' = Append(results, row) /\ at' = at + 1 /\ phase' = "next" /\ outcome' = "none" /\ unstopped' = {}
      /\ UNCHANGED <<cli, files, exit>>
  BY <1>1 DEF PostStop
<1>4. /\ results' \in Seq([id : Ids, outcome : {"pass", "fail"}]) /\ Len(results') = at
      /\ \A i \in 1..at : results'[i] = IF i = at THEN row ELSE results[i]
  BY <1>1, <1>2, <1>3
<1>5. RunnerTypeOK'
  BY <1>1, <1>3, <1>4, SelectedIsKept DEF RInv, RunnerTypeOK
<1>6. \A i \in 1..Len(results') : results'[i].id = Selected(cli)[i]
  BY <1>1, <1>4 DEF RInv
<1>7. ExitTellsReport'
  BY <1>1, <1>3 DEF ExitTellsReport, Running
<1>8. cli' = cli /\ ~cli.list
  BY <1>3 DEF PostStop, RInv
<1>9. files' = [f \in Formats |-> <<>>] /\ exit' = Running /\ phase' = "next" /\ unstopped' = {}
  BY <1>1, <1>3
<1>10. \A i \in 1..Len(results') : results'[i].id = Selected(cli')[i]
  BY <1>6, <1>8
<1> QED
  BY <1>5, <1>7, <1>8, <1>9, <1>10 DEF RInv, BeforeFiles

LEMMA WriteFileKeeps ==
  ASSUME RInv, WriteFile("json", "junit") \/ WriteFile("junit", "done")
  PROVE  RInv'
<1>1. cli \in CommandLines /\ {cli.json, cli.junit} \subseteq {"none", "writable", "unwritable"}
  BY RunnerAssumption DEF RInv, RunnerTypeOK
<1>2. ASSUME NEW f \in Formats, NEW to, WriteFile(f, to),
             (f = "json" /\ to = "junit") \/ (f = "junit" /\ to = "done")
      PROVE  RInv'
  <2>1. CASE cli[f] = "none" /\ Goes(to)
    BY <1>2, <2>1, GoesKeeps DEF RInv, WriteFile
  <2>2. CASE cli[f] = "unwritable" /\ Exit(2)
    BY <1>2, <2>2, ExitKeeps DEF WriteFile
  <2>3. CASE /\ cli[f] = "writable"
             /\ files' = [files EXCEPT ![f] = <<results>>] /\ phase' = to
             /\ UNCHANGED <<cli, at, outcome, results, exit, unstopped>>
    <3>1. files \in [Formats -> {<<>>} \cup {<<results>>}] /\ phase = f /\ exit = Running
      BY <1>2 DEF WriteFile, RInv, RunnerTypeOK
    <3>2. RunnerTypeOK'
      BY <1>2, <2>3, <3>1 DEF RInv, RunnerTypeOK
    <3>3. ExitTellsReport'
      BY <2>3, <3>1 DEF ExitTellsReport, Running
    <3>4. /\ files'[f] = <<results>>
          /\ f = "junit" => files'["json"] = files["json"]
      BY <2>3, <3>1 DEF Formats
    <3>5. /\ at = Len(Selected(cli)) + 1 /\ unstopped = {} /\ ~cli.list
          /\ \A i \in 1..Len(results) : results[i].id = Selected(cli)[i]
      BY <1>2, <3>1 DEF RInv, Running
    <3>6. phase' \in {"junit", "done"} /\ cli.json # "none" => files'["json"] = <<results>>
      BY <1>2, <2>3, <3>1, <3>4 DEF RInv
    <3>7. phase' = "done" /\ cli.junit # "none" => files'["junit"] = <<results>>
      BY <1>2, <2>3, <3>1, <3>4 DEF RInv
    <3> QED
      BY <1>2, <2>3, <3>1, <3>2, <3>3, <3>5, <3>6, <3>7 DEF RInv, BeforeFiles
  <2> QED
    BY <1>2, <2>1, <2>2, <2>3 DEF WriteFile
<1>3. "json" \in Formats /\ "junit" \in Formats
  BY DEF Formats
<1>4. ASSUME WriteFile("json", "junit") PROVE RInv'
  BY <1>2, <1>3, <1>4
<1>5. ASSUME WriteFile("junit", "done") PROVE RInv'
  BY <1>2, <1>3, <1>5
<1> QED
  BY <1>4, <1>5

LEMMA RInvStep == RInv /\ [HarnessNext]_runnerVars => RInv'
<1> SUFFICES ASSUME RInv, [HarnessNext]_runnerVars PROVE RInv'
  OBVIOUS
<1>1. CASE ReadArgs
  BY <1>1, GoesKeeps, ExitKeeps DEF ReadArgs, RInv
<1>2. CASE Bootstrap
  BY <1>2, GoesKeeps, ExitKeeps DEF Bootstrap, RInv
<1>3. CASE PreStart
  BY <1>3, PreStartKeeps
<1>4. CASE PostStop
  BY <1>4, PostStopKeeps
<1>5. CASE PrintReport
  BY <1>5, GoesKeeps DEF PrintReport, RInv
<1>6. CASE Finish
  BY <1>6, FinishKeeps
<1>7. CASE WriteFile("json", "junit") \/ WriteFile("junit", "done")
  BY <1>7, WriteFileKeeps
<1>8. CASE BodyPanics
  BY <1>8, ExitKeeps DEF BodyPanics
<1>9. CASE \E o \in {"pass", "fail"} : BodyReturns(o)
  BY <1>9, BodyReturnsKeeps
<1>10. CASE UNCHANGED runnerVars
  BY <1>10 DEF runnerVars, RInv, RunnerTypeOK, ExitTellsReport
<1> QED
  BY <1>1, <1>2, <1>3, <1>4, <1>5, <1>6, <1>7, <1>8, <1>9, <1>10 DEF HarnessNext, MainStep

LEMMA RInvHolds == Harness => []RInv
  BY RInvInit, RInvStep, PTL DEF Harness

\* Exit codes 0 and 1 stand for a whole report, on stdout and in the files that were asked
\* for, whatever the bodies do; main.rs:6-9, 115-120.
THEOREM ReportIsWhole == Harness => []ExitTellsReport
<1>1. RInv => ExitTellsReport
  BY DEF RInv
<1> QED
  BY <1>1, RInvHolds, PTL

\* Every scenario that was set up is torn down before the next one and before the process
\* ends, short of a panic; scenario.rs:36-40.
THEOREM EachIsTornDown == Harness => []TornDown
<1>1. RInv => TornDown
  BY DEF RInv, TornDown
<1> QED
  BY <1>1, RInvHolds, PTL

\* No scenario is left out of a report but by a filter that says something or for want of
\* an L1; main.rs:79-93.
THEOREM NoneIsForgotten == Harness => []LeftOutOnlyIfAsked
<1>1. RInv => LeftOutOnlyIfAsked
  <2>1. SUFFICES ASSUME RInv, exit \in {0, 1}, ~cli.list, NEW id \in Ids,
                        \A i \in DOMAIN results : results[i].id # id
                 PROVE  \/ \E p \in cli.only : ~p.blank
                        \/ \E p \in cli.skip : ~p.blank /\ id \in p.hits
                        \/ id \in NeedL1 /\ ~cli.l1
    BY DEF LeftOutOnlyIfAsked
  <2>2. PICK k \in DOMAIN All : All[k] = id
    BY DEF Ids
  <2>3. k \notin Kept(cli)
    <3>1. SUFFICES ASSUME k \in Kept(cli) PROVE FALSE
      OBVIOUS
    <3>2. PICK n \in 1..Len(Selected(cli)) : Selected(cli)[n] = id
      BY <2>2, <3>1, SelectedIsKept
    <3>3. n \in 1..Len(results) /\ results[n].id = id
      BY <2>1, <3>2 DEF RInv, ExitTellsReport
    <3>4. DOMAIN results = 1..Len(results)
      BY <2>1 DEF RInv, RunnerTypeOK
    <3> QED
      BY <2>1, <3>3, <3>4
  <2>4. ~apply_filters(cli, id) \/ (~cli.l1 /\ id \in NeedL1)
    BY <2>2, <2>3 DEF Kept
  <2> QED
    BY <2>4 DEF apply_filters, Named
<1> QED
  BY <1>1, RInvHolds, PTL

-----------------------------------------------------------------------------
(* The scenarios are bodies for the runner.                                *)

\* A body's step is one of the runner's: it returns, or stays where it is.
LEMMA BodyStep ==
  ASSUME Suite \/ Panic \/ OthersBlock \/ FinalizeBlock \/ PostBatch
  PROVE  HarnessNext \/ UNCHANGED runnerVars
<1> USE DEF Ends, Reach, Faults
<1>1. ASSUME \E o \in {"pass", "fail"} : BodyReturns(o) PROVE HarnessNext
  BY <1>1 DEF HarnessNext
<1>2. CASE Main \/ Panic
  BY <1>2 DEF Main, Panic, HarnessNext
<1>3. CASE S030
  BY <1>1, <1>3 DEF S030, Refusal
<1>4. CASE S049
  BY <1>1, <1>4 DEF S049, Refusal
<1>5. CASE Unwired
  BY <1>1, <1>5 DEF Unwired
<1>6. CASE S045Sees \/ S045
  BY <1>1, <1>6 DEF S045Sees, S045
<1>7. CASE S046Submit
  BY <1>1, <1>7 DEF S046Submit
<1>8. CASE S046Path
  BY <1>1, <1>8 DEF S046Path
<1>9. CASE S046
  BY <1>1, <1>9 DEF S046
<1>10. CASE Deadlines
  BY <1>1, <1>10 DEF Deadlines
<1>11. CASE OthersBlock \/ FinalizeBlock \/ PostBatch
  BY <1>11 DEF OthersBlock, FinalizeBlock, PostBatch
<1> QED
  BY <1>2, <1>3, <1>4, <1>5, <1>6, <1>7, <1>8, <1>9, <1>10, <1>11 DEF Suite

\* What holds of the runner whatever its bodies do holds of it with these.
THEOREM ScenariosRunInHarness == Spec => StaysInHarness
<1>1. Init => RunnerInit
  BY DEF Init
<1>2. [Step]_vars => [HarnessNext]_runnerVars
  BY BodyStep DEF Step, vars
<1> QED
  BY <1>1, <1>2, PTL DEF Spec, Harness, StaysInHarness

-----------------------------------------------------------------------------
(* What a signature is over.                                               *)

\* What is put together of n parts is a sequence.
LEMMA PartsAreSeq ==
  ASSUME NEW n \in Nat, NEW S, NEW f \in [1..n -> S]
  PROVE  f \in Seq(S) /\ Len(f) = n
  OBVIOUS

\* The division of a number by Radix, and what is left of it.
LEMMA DigitAndRest ==
  ASSUME NEW n \in Nat
  PROVE  /\ n \div Radix \in Nat /\ n % Radix \in 0..(Radix - 1)
         /\ n = (Radix * (n \div Radix)) + (n % Radix)
         /\ n # 0 => n \div Radix < n
<1>1. Radix \in Nat /\ Radix >= 2
  BY CertAssumption
<1>2. n \div Radix \in Nat /\ n % Radix \in 0..(Radix - 1) /\ n = (Radix * (n \div Radix)) + (n % Radix)
  <2>1. Radix \in Nat \ {0}
    BY CertAssumption
  <2> DEFINE d == Radix
  <2>2. d \in Nat \ {0}
    BY <2>1
  <2> HIDE DEF d
  <2>3. n % d \in 0..(d - 1) /\ n \div d \in Nat /\ n = (d * (n \div d)) + (n % d)
    BY <2>2, Division
  <2> QED
    BY <2>3 DEF d
<1>3. PICK q \in Nat, r \in Nat : q = n \div Radix /\ r = n % Radix /\ n = (Radix * q) + r
  BY <1>1, <1>2
<1>4. Radix * q >= 2 * q
  BY <1>1, <1>3
<1>5. n # 0 => q < n
  BY <1>1, <1>3, <1>4
<1> QED
  BY <1>2, <1>3, <1>5

\* The loop of uint_varint: a byte, and unless that was all, the bytes of the rest.
LEMMA VarintIs ==
  ASSUME NEW v \in Nat
  PROVE  /\ uint_varint(v) \in Seq(Nat)
         /\ uint_varint(v) = IF v \div Radix = 0 THEN <<v % Radix>>
                             ELSE <<(v % Radix) + Radix>> \o uint_varint(v \div Radix)
<1> DEFINE Loop(f) == f = [n \in Nat |-> IF n \div Radix = 0 THEN <<n % Radix>>
                                         ELSE <<(n % Radix) + Radix>> \o f[n \div Radix]]
           base == {n \in Nat : n \div Radix = 0}
           a == [n \in Nat |-> <<n % Radix>>]
           d == [n \in Nat |-> n \div Radix]
           h == [p \in Nat \X Seq(Nat) |-> <<(p[1] % Radix) + Radix>> \o p[2]]
           bytes == CHOOSE f : Loop(f)
<1>1. Radix \in Nat
  BY CertAssumption
<1>2. GoesDown(base, a, d, h, Seq(Nat))
  <2>1. a \in [Nat -> Seq(Nat)] /\ d \in [Nat -> Nat]
    BY DigitAndRest
  <2>2. h \in [Nat \X Seq(Nat) -> Seq(Nat)]
    <3>1. ASSUME NEW p \in Nat \X Seq(Nat) PROVE <<(p[1] % Radix) + Radix>> \o p[2] \in Seq(Nat)
      <4>1. (p[1] % Radix) + Radix \in Nat
        BY <1>1, DigitAndRest
      <4>2. <<(p[1] % Radix) + Radix>> \in Seq(Nat) /\ p[2] \in Seq(Nat)
        BY <4>1
      <4> QED
        BY <4>2
    <3> QED
      BY <3>1
  <2>3. \A n \in Nat \ base : d[n] < n
    <3> SUFFICES ASSUME NEW n \in Nat, n \div Radix # 0 PROVE n \div Radix < n
      OBVIOUS
    <3>1. CASE n = 0
      <4>1. 0 = (Radix * (n \div Radix)) + (n % Radix) /\ n \div Radix \in Nat /\ n % Radix \in Nat
        BY <3>1, DigitAndRest
      <4>2. PICK q \in Nat, r \in Nat : q = n \div Radix /\ 0 = (Radix * q) + r
        BY <4>1
      <4>3. Radix >= 2
        BY CertAssumption
      <4>4. Radix * q >= 2 * q
        BY <1>1, <4>3
      <4> QED
        BY <1>1, <4>2, <4>4
    <3> QED
      BY <3>1, DigitAndRest
  <2> HIDE DEF a, d, h
  <2> QED
    BY <2>1, <2>2, <2>3 DEF GoesDown
<1>3. \E f : Loop(f) /\ f \in [Nat -> Seq(Nat)]
  <2>1. PICK f : /\ f \in [Nat -> Seq(Nat)]
                 /\ \A n \in Nat : f[n] = IF n \in base THEN a[n] ELSE h[<<n, f[d[n]]>>]
    <3> HIDE DEF base, a, d, h
    <3> QED
      BY <1>2, DefinedDownwards
  <2>2. ASSUME NEW n \in Nat
        PROVE  f[n] = IF n \div Radix = 0 THEN <<n % Radix>>
                      ELSE <<(n % Radix) + Radix>> \o f[n \div Radix]
    <3>1. n \div Radix \in Nat
      BY DigitAndRest
    <3>2. f[n \div Radix] \in Seq(Nat)
      BY <2>1, <3>1
    <3>3. h[<<n, f[n \div Radix]>>] = <<(n % Radix) + Radix>> \o f[n \div Radix]
      BY <3>2
    <3> HIDE DEF h
    <3> QED
      BY <2>1, <3>3
  <2>3. Loop(f)
    BY <2>1, <2>2
  <2> QED
    BY <2>1, <2>3
<1>4. \A f, g : Loop(f) /\ Loop(g) /\ g \in [Nat -> Seq(Nat)] => f = g
  <2> SUFFICES ASSUME NEW f, NEW g, Loop(f), Loop(g) PROVE f = g
    OBVIOUS
  <2> DEFINE T == {n \in Nat : f[n] # g[n]}
  <2>1. T = {}
    <3> SUFFICES ASSUME T # {} PROVE FALSE
      OBVIOUS
    <3>1. PICK n \in T : \A m \in T : n <= m
      <4>1. T \in SUBSET Nat
        OBVIOUS
      <4> HIDE DEF T
      <4> QED
        BY <4>1, LeastNumber
    <3>2. /\ f[n] = IF n \div Radix = 0 THEN <<n % Radix>>
                    ELSE <<(n % Radix) + Radix>> \o f[n \div Radix]
          /\ g[n] = IF n \div Radix = 0 THEN <<n % Radix>>
                    ELSE <<(n % Radix) + Radix>> \o g[n \div Radix]
      BY <3>1
    <3>3. n \div Radix # 0 /\ f[n \div Radix] # g[n \div Radix]
      BY <3>1, <3>2
    <3>4. n \div Radix \in Nat /\ n \div Radix < n
      <4>1. d[n] < n
        <5> HIDE DEF a, d, h
        <5> QED
          BY <1>2, <3>1, <3>3 DEF GoesDown
      <4>2. n \in Nat
        BY <3>1
      <4> HIDE DEF T
      <4> QED
        BY <4>1, <4>2, DigitAndRest
    <3>5. n \div Radix \in T
      BY <3>3, <3>4
    <3>6. n \in Nat /\ n <= n \div Radix
      BY <3>1, <3>5
    <3> DEFINE q == n \div Radix
    <3>7. n \in Nat /\ q \in Nat /\ q < n /\ n <= q
      BY <3>4, <3>6
    <3> HIDE DEF q, T, Loop
    <3> QED
      BY <3>7
  <2>2. f = [n \in Nat |-> f[n]] /\ g = [n \in Nat |-> g[n]]
    OBVIOUS
  <2> QED
    BY <2>1, <2>2
<1>5. Loop(bytes) /\ bytes \in [Nat -> Seq(Nat)]
  <2>1. Loop(bytes)
    BY <1>3
  <2>2. PICK g : Loop(g) /\ g \in [Nat -> Seq(Nat)]
    BY <1>3
  <2>3. bytes = g
    <3> HIDE DEF bytes, Loop
    <3> QED
      BY <1>4, <2>1, <2>2
  <2> QED
    BY <2>1, <2>2, <2>3
<1>6. \A n : uint_varint(n) = bytes[n]
  BY DEF uint_varint
<1>7. v \div Radix \in Nat
  BY DigitAndRest
<1>8. bytes[v] = IF v \div Radix = 0 THEN <<v % Radix>>
                 ELSE <<(v % Radix) + Radix>> \o bytes[v \div Radix]
  <2> HIDE DEF bytes
  <2> QED
    BY <1>5
<1> HIDE DEF bytes
<1> QED
  BY <1>5, <1>6, <1>7, <1>8

\* Encodings do not run into one another: what a varint starts with tells it from every other.
Starts(v, S) ==
  \A w \in Nat, s, t \in Seq(S) :
    uint_varint(v) \o s = uint_varint(w) \o t => v = w /\ s = t

Before(a, s) == <<a>> \o s

LEMMA OneByte ==
  ASSUME NEW S
  PROVE  \A a, b \in S, s, t \in Seq(S) : Before(a, s) = Before(b, t) => a = b /\ s = t
<1> USE DEF Before
<1> SUFFICES ASSUME NEW a \in S, NEW b \in S, NEW s \in Seq(S), NEW t \in Seq(S), <<a>> \o s = <<b>> \o t
             PROVE  a = b /\ s = t
  OBVIOUS
<1>1. a = (<<a>> \o s)[1] /\ b = (<<b>> \o t)[1]
  OBVIOUS
<1>2. Len(<<a>> \o s) = 1 + Len(s) /\ Len(<<b>> \o t) = 1 + Len(t)
  OBVIOUS
<1>3. Len(s) = Len(t) /\ Len(s) \in Nat
  BY <1>2
<1>4. ASSUME NEW i \in 1..Len(s) PROVE s[i] = t[i]
  <2>1. (<<a>> \o s)[i + 1] = s[i] /\ (<<b>> \o t)[i + 1] = t[i]
    BY <1>3
  <2> QED
    BY <2>1
<1> QED
  BY <1>1, <1>3, <1>4

LEMMA BytesRejoin ==
  ASSUME NEW S, NEW a \in S, NEW s \in Seq(S), NEW t \in Seq(S)
  PROVE  (<<a>> \o s) \o t = <<a>> \o (s \o t)
  OBVIOUS

LEMMA VarintStarts ==
  ASSUME NEW S, Nat \subseteq S
  PROVE  \A v \in Nat : Starts(v, S)
<1> DEFINE T == {v \in Nat : ~Starts(v, S)}
<1> SUFFICES ASSUME T # {} PROVE FALSE
  OBVIOUS
<1>1. PICK v \in T : \A m \in T : v <= m
  <2>1. T \in SUBSET Nat
    OBVIOUS
  <2> HIDE DEF T
  <2> QED
    BY <2>1, LeastNumber
<1>2. PICK w \in Nat, s \in Seq(S), t \in Seq(S) :
        uint_varint(v) \o s = uint_varint(w) \o t /\ ~(v = w /\ s = t)
  BY <1>1 DEF Starts
<1> DEFINE first(n) == IF n \div Radix = 0 THEN n % Radix ELSE (n % Radix) + Radix
           rest(n, u) == IF n \div Radix = 0 THEN u ELSE uint_varint(n \div Radix) \o u
<1>3. ASSUME NEW n \in Nat, NEW u \in Seq(S)
      PROVE  /\ uint_varint(n) \o u = <<first(n)>> \o rest(n, u)
             /\ first(n) \in S /\ rest(n, u) \in Seq(S)
  <2>1. /\ uint_varint(n) = IF n \div Radix = 0 THEN <<n % Radix>>
                            ELSE <<(n % Radix) + Radix>> \o uint_varint(n \div Radix)
        /\ uint_varint(n \div Radix) \in Seq(Nat)
    BY VarintIs, DigitAndRest
  <2>2. n % Radix \in Nat /\ (n % Radix) + Radix \in Nat
    <3>1. Radix \in Nat
      BY CertAssumption
    <3>2. n % Radix \in 0..(Radix - 1)
      BY DigitAndRest
    <3> QED
      BY <3>1, <3>2
  <2>3. uint_varint(n \div Radix) \in Seq(S) /\ n % Radix \in S /\ (n % Radix) + Radix \in S
    <3>1. Seq(Nat) \subseteq Seq(S)
      OBVIOUS
    <3> QED
      BY <2>1, <2>2, <3>1
  <2>4. uint_varint(n \div Radix) \o u \in Seq(S)
    BY <2>3
  <2>5. CASE n \div Radix = 0
    BY <2>1, <2>3, <2>5
  <2>6. CASE n \div Radix # 0
    <3>1. uint_varint(n) \o u = (<<(n % Radix) + Radix>> \o uint_varint(n \div Radix)) \o u
      BY <2>1, <2>6
    <3>2. uint_varint(n) \o u = <<(n % Radix) + Radix>> \o (uint_varint(n \div Radix) \o u)
      <4> DEFINE a == (n % Radix) + Radix
                 b == uint_varint(n \div Radix)
      <4>1. a \in S /\ b \in Seq(S)
        BY <2>3
      <4> HIDE DEF a, b
      <4>2. (<<a>> \o b) \o u = <<a>> \o (b \o u)
        BY <4>1, BytesRejoin
      <4> QED
        BY <3>1, <4>2 DEF a, b
    <3> QED
      BY <2>3, <2>4, <2>6, <3>2
  <2> QED
    BY <2>5, <2>6
<1>4. first(v) = first(w) /\ rest(v, s) = rest(w, t)
  <2> HIDE DEF first, rest, T
  <2>1. v \in Nat
    BY <1>1 DEF T
  <2>2. /\ uint_varint(v) \o s = <<first(v)>> \o rest(v, s)
        /\ first(v) \in S /\ rest(v, s) \in Seq(S)
    BY <1>3, <2>1
  <2>3. /\ uint_varint(w) \o t = <<first(w)>> \o rest(w, t)
        /\ first(w) \in S /\ rest(w, t) \in Seq(S)
    BY <1>3
  <2>4. <<first(v)>> \o rest(v, s) = <<first(w)>> \o rest(w, t)
    BY <1>2, <2>2, <2>3
  <2> DEFINE a == first(v)
             b == first(w)
             x == rest(v, s)
             y == rest(w, t)
  <2>5. a \in S /\ b \in S /\ x \in Seq(S) /\ y \in Seq(S) /\ <<a>> \o x = <<b>> \o y
    BY <2>2, <2>3, <2>4
  <2> HIDE DEF a, b, x, y, first, rest
  <2>6. Before(a, x) = Before(b, y)
    BY <2>5 DEF Before
  <2>7. a = b /\ x = y
    BY <2>5, <2>6, OneByte
  <2> QED
    BY <2>7 DEF a, b, x, y
<1>5. Radix \in Nat /\ v \in Nat
  BY CertAssumption
<1>6. (v \div Radix = 0 <=> w \div Radix = 0) /\ v % Radix = w % Radix
  <2>1. v % Radix \in 0..(Radix - 1) /\ w % Radix \in 0..(Radix - 1)
    BY <1>5, DigitAndRest
  <2> QED
    BY <1>4, <1>5, <2>1
<1>7. v \div Radix = w \div Radix /\ s = t
  <2>1. CASE v \div Radix = 0
    BY <1>4, <1>6, <2>1
  <2>2. CASE v \div Radix # 0
    <3>1. v \div Radix \in Nat /\ w \div Radix \in Nat
      BY <1>5, DigitAndRest
    <3>2. v \div Radix < v
      <4>1. v # 0
        <5> SUFFICES ASSUME v = 0 PROVE FALSE
          OBVIOUS
        <5>1. 0 \div Radix = 0
          BY CertAssumption
        <5> QED
          BY <2>2, <5>1
      <4> QED
        BY <1>5, <4>1, DigitAndRest
    <3>3. Starts(v \div Radix, S)
      BY <1>1, <1>5, <3>1, <3>2
    <3>4. uint_varint(v \div Radix) \o s = uint_varint(w \div Radix) \o t
      BY <1>4, <1>6, <2>2
    <3> QED
      BY <3>1, <3>3, <3>4 DEF Starts
  <2> QED
    BY <2>1, <2>2
<1>8. v = w
  <2>1. v = (Radix * (v \div Radix)) + (v % Radix) /\ w = (Radix * (w \div Radix)) + (w % Radix)
    BY <1>5, DigitAndRest
  <2> QED
    BY <1>6, <1>7, <2>1
<1> QED
  BY <1>2, <1>7, <1>8

Rounds == [epoch : Nat, view : Nat, parent : Nat]

\* One message is over one round and one digest.
LEMMA MessageBinds ==
  ASSUME NEW r1 \in Rounds, NEW r2 \in Rounds, NEW d1, NEW d2,
         proposal_bytes(r1, d1) = proposal_bytes(r2, d2)
  PROVE  r1 = r2 /\ d1 = d2
<1> DEFINE S == Nat \cup {d1, d2}
<1>1. /\ Nat \subseteq S /\ d1 \in S /\ d2 \in S
      /\ <<d1>> \in Seq(S) /\ <<d2>> \in Seq(S)
  OBVIOUS
<1>2. /\ r1.epoch \in Nat /\ r1.view \in Nat /\ r1.parent \in Nat
      /\ r2.epoch \in Nat /\ r2.view \in Nat /\ r2.parent \in Nat
  BY DEF Rounds
<1> HIDE DEF S
<1>3. \A n \in Nat : uint_varint(n) \in Seq(S)
  <2>1. Seq(Nat) \subseteq Seq(S)
    BY <1>1
  <2> QED
    BY <2>1, VarintIs
<1>4. ASSUME NEW r \in Rounds, NEW d, <<d>> \in Seq(S)
      PROVE  /\ proposal_bytes(r, d) =
                  uint_varint(r.epoch) \o (uint_varint(r.view) \o (uint_varint(r.parent) \o <<d>>))
             /\ uint_varint(r.view) \o (uint_varint(r.parent) \o <<d>>) \in Seq(S)
             /\ uint_varint(r.parent) \o <<d>> \in Seq(S)
  <2> DEFINE a == uint_varint(r.epoch)
             b == uint_varint(r.view)
             c == uint_varint(r.parent)
             e == <<d>>
  <2>1. a \in Seq(S) /\ b \in Seq(S) /\ c \in Seq(S) /\ e \in Seq(S)
    BY <1>3, <1>4 DEF Rounds
  <2>2. proposal_bytes(r, d) = ((a \o b) \o c) \o e
    BY DEF proposal_bytes
  <2> HIDE DEF a, b, c, e
  <2>3. a \o b \in Seq(S) /\ c \o e \in Seq(S) /\ b \o (c \o e) \in Seq(S)
    BY <2>1
  <2>4. ((a \o b) \o c) \o e = (a \o b) \o (c \o e)
    BY <2>1, <2>3
  <2>5. (a \o b) \o (c \o e) = a \o (b \o (c \o e))
    BY <2>1, <2>3
  <2> QED
    BY <2>2, <2>3, <2>4, <2>5 DEF a, b, c, e
<1>5. Starts(r1.epoch, S) /\ Starts(r1.view, S) /\ Starts(r1.parent, S)
  BY <1>1, <1>2, VarintStarts
<1> DEFINE s1 == uint_varint(r1.parent) \o <<d1>>
           s2 == uint_varint(r2.parent) \o <<d2>>
           t1 == uint_varint(r1.view) \o s1
           t2 == uint_varint(r2.view) \o s2
<1>6. /\ s1 \in Seq(S) /\ s2 \in Seq(S) /\ t1 \in Seq(S) /\ t2 \in Seq(S)
      /\ uint_varint(r1.epoch) \o t1 = uint_varint(r2.epoch) \o t2
  BY <1>1, <1>4
<1>7. t1 = t2 /\ r1.epoch = r2.epoch
  <2> HIDE DEF t1, t2
  <2> QED
    BY <1>2, <1>5, <1>6 DEF Starts
<1>8. s1 = s2 /\ r1.view = r2.view
  <2>1. uint_varint(r1.view) \o s1 = uint_varint(r2.view) \o s2
    BY <1>7
  <2>2. Starts(r1.view, S) /\ r2.view \in Nat /\ s1 \in Seq(S) /\ s2 \in Seq(S)
    BY <1>2, <1>5, <1>6
  <2> HIDE DEF s1, s2, t1, t2
  <2>3. \A w \in Nat, s, t \in Seq(S) :
          uint_varint(r1.view) \o s = uint_varint(w) \o t => r1.view = w /\ s = t
    BY <2>2 DEF Starts
  <2> QED
    BY <2>1, <2>2, <2>3
<1>9. <<d1>> = <<d2>> /\ r1.parent = r2.parent
  <2>1. uint_varint(r1.parent) \o <<d1>> = uint_varint(r2.parent) \o <<d2>>
    BY <1>8
  <2> QED
    BY <1>1, <1>2, <1>5, <2>1 DEF Starts
<1>10. d1 = d2
  BY <1>9
<1> QED
  BY <1>7, <1>8, <1>9, <1>10 DEF Rounds

\* A certificate over a preimage holds only if the committee has signed the preimage, for
\* this chain and in that round.
LEMMA SignatureBinds ==
  ASSUME NEW path, NEW cert, CertHolds(path, cert), cert.round \in Rounds,
         NEW key, NEW chain_id, NEW round \in Rounds, NEW pre,
         cert.sig = Sign(key, chain_id, round, Digest(pre))
  PROVE  chain_id = Chain /\ cert.pre = pre /\ pre.r = path.root /\ cert.round = round
<1>1. cert.pre.r = path.root /\ cert.pre = cert.tip
  BY DEF CertHolds, CertBinds, Digest
<1>2. cert.sig.namespace = finalize_namespace(Chain) /\ cert.sig.message = proposal_bytes(cert.round, cert.tip)
  BY DEF CertHolds, verify_finalize_cert
<1>3. finalize_namespace(chain_id) = finalize_namespace(Chain)
      /\ proposal_bytes(round, pre) = proposal_bytes(cert.round, cert.tip)
  BY <1>2 DEF Sign, Digest
<1>4. pre = cert.tip /\ round = cert.round
  BY <1>3, MessageBinds
<1>5. chain_id = Chain
  BY <1>3 DEF finalize_namespace
<1> QED
  BY <1>1, <1>4, <1>5

-----------------------------------------------------------------------------
(* What the chain does.                                                    *)

ChainOK == blocks \in Seq(Trees) /\ final \in 0..Len(blocks)

\* Blocks, finalizations and batches stay.
ChainGrows ==
  /\ Len(blocks) <= Len(blocks') /\ \A h \in 1..Len(blocks) : blocks'[h] = blocks[h]
  /\ final <= final' /\ (posted => posted')

LEMMA TipIsTree == ChainOK => Tip \in Trees
<1> SUFFICES ASSUME ChainOK PROVE Tip \in Trees
  OBVIOUS
<1>1. CASE blocks = <<>>
  BY <1>1, ScenariosAssumption DEF Tip, Trees
<1>2. CASE blocks # <<>>
  BY <1>2 DEF Tip, ChainOK
<1> QED
  BY <1>1, <1>2

LEMMA AppendGrows ==
  ASSUME ChainOK, NEW tree \in Trees, blocks' = Append(blocks, tree), UNCHANGED <<final, posted>>
  PROVE  ChainOK' /\ ChainGrows
  BY DEF ChainOK, ChainGrows

LEMMA StaysGrows ==
  ASSUME ChainOK, UNCHANGED <<blocks, final, posted>>
  PROVE  ChainOK' /\ ChainGrows
  BY DEF ChainOK, ChainGrows

LEMMA StepGrows ==
  ASSUME ChainOK, [Step]_vars
  PROVE  ChainOK' /\ ChainGrows
<1>1. CASE OthersBlock
  <2>1. [Tip EXCEPT ![NextPlace(Tip)] = Others] \in Trees
    BY TipIsTree, ScenariosAssumption DEF Trees
  <2>2. \E tree \in Trees : blocks' = Append(blocks, tree)
    BY <1>1, <2>1, TipIsTree DEF OthersBlock
  <2> QED
    BY <1>1, <2>2, AppendGrows DEF OthersBlock
<1>2. CASE S046Submit
  <2>1. [Tip EXCEPT ![NextPlace(Tip)] = Mine] \in Trees
    BY TipIsTree, ScenariosAssumption DEF Trees
  <2> QED
    BY <1>2, <2>1, AppendGrows DEF S046Submit
<1>3. CASE FinalizeBlock
  BY <1>3 DEF FinalizeBlock, ChainOK, ChainGrows
<1>4. CASE PostBatch
  BY <1>4 DEF PostBatch, ChainOK, ChainGrows
<1>5. CASE Main \/ Panic
  BY <1>5, StaysGrows DEF Main, Panic, chainVars
<1>6. CASE S030 \/ S049
  BY <1>6, StaysGrows DEF S030, S049, Refusal, Faults, chainVars
<1>7. CASE Unwired \/ S045Sees \/ S045
  BY <1>7, StaysGrows DEF Unwired, S045Sees, S045, chainVars
<1>8. CASE S046Path
  BY <1>8, StaysGrows DEF S046Path, chainVars
<1>9. CASE S046
  BY <1>9, StaysGrows DEF S046, chainVars
<1>10. CASE Deadlines
  BY <1>10, StaysGrows DEF Deadlines, Faults, chainVars
<1>11. CASE UNCHANGED vars
  BY <1>11, StaysGrows DEF vars, chainVars
<1> QED
  BY <1>1, <1>2, <1>3, <1>4, <1>5, <1>6, <1>7, <1>8, <1>9, <1>10, <1>11 DEF Step, Suite

-----------------------------------------------------------------------------
(* The invariant.                                                          *)

Evidence(id) ==
  /\ id = "S030" => shown[id] = "AttesterNotActive"
  /\ id = "S049" => shown[id] = "pool"
  /\ id = "S045" => posted
  /\ id = "S046" => \E h \in 1..final : /\ blocks[h][shown[id].leaf.place] = shown[id].leaf.leaf
                                       /\ Round(h) = shown[id].round

\* Its row says so, or its body has just said so.
Passed(id) ==
  \/ Row(id, "pass")
  \/ phase = "stopping" /\ outcome = "pass" /\ Selected(cli)[at] = id

\* What S045 and S046 have made sure of on their way.
Midway ==
  /\ mid = "epoch" => posted
  /\ mid = "proved" => /\ heard.path.block \in Nat \ {0}
                       /\ heard.path.root[heard.leaf.place] = heard.leaf.leaf

EInv ==
  /\ ChainOK
  /\ DOMAIN shown = Ids
  /\ Midway
  /\ \A id \in Ids : Passed(id) => Evidence(id)

\* In a body, the row of its scenario is yet to come.
LEMMA NoRowYet ==
  ASSUME RInv, phase = "body", NEW o
  PROVE  ~Row(Selected(cli)[at], o) /\ Selected(cli)[at] \in Ids
<1>1. at \in 1..Len(Selected(cli)) /\ Len(results) = at - 1 /\ DOMAIN results = 1..Len(results)
      /\ Len(Selected(cli)) \in Nat
  BY SelectedIsKept DEF RInv, RunnerTypeOK
<1>2. Selected(cli)[at] \in Ids
  BY <1>1, SelectedIsKept
<1>3. \A i \in 1..(at - 1) : results[i].id = Selected(cli)[i]
  BY <1>1 DEF RInv
<1>4. \A i \in 1..(at - 1) : Selected(cli)[i] # Selected(cli)[at]
  BY <1>1, SelectedOnce
<1> QED
  BY <1>1, <1>2, <1>3, <1>4 DEF Row

LEMMA RowIsOfAScenario ==
  ASSUME RInv, NEW id, NEW o, Row(id, o)
  PROVE  id \in Ids
<1>1. results \in Seq([id : Ids, outcome : {"pass", "fail"}])
  BY DEF RInv, RunnerTypeOK
<1>2. ASSUME NEW set, NEW s \in Seq(set) PROVE \A i \in DOMAIN s : s[i] \in set
  OBVIOUS
<1>3. \A i \in DOMAIN results : results[i] \in [id : Ids, outcome : {"pass", "fail"}]
  BY <1>1, <1>2
<1> QED
  BY <1>3 DEF Row

\* The verdict of a body is the only new one.
LEMMA NewVerdicts ==
  ASSUME RInv, HarnessNext \/ UNCHANGED runnerVars, NEW id, Passed(id)'
  PROVE  Passed(id) \/ (phase = "body" /\ BodyReturns("pass") /\ id = Selected(cli)[at])
<1> USE DEF Passed, Row
<1>1. CASE UNCHANGED runnerVars
  BY <1>1 DEF runnerVars
<1>2. CASE ReadArgs \/ Bootstrap \/ PrintReport \/ Finish \/ BodyPanics
  BY <1>2 DEF ReadArgs, Bootstrap, PrintReport, Finish, BodyPanics, Goes, Exit
<1>3. CASE PreStart
  BY <1>3 DEF PreStart, RInv
<1>4. CASE PostStop
  <2>1. results \in Seq([id : Ids, outcome : {"pass", "fail"}])
    BY DEF RInv, RunnerTypeOK
  <2>2. results' = Append(results, [id |-> Selected(cli)[at], outcome |-> outcome]) /\ phase = "stopping" /\ phase' = "next"
    BY <1>4 DEF PostStop
  <2>3. DOMAIN results' = 1..(Len(results) + 1) /\ DOMAIN results = 1..Len(results) /\ Len(results) \in Nat
        /\ results'[Len(results) + 1] = [id |-> Selected(cli)[at], outcome |-> outcome]
        /\ \A i \in 1..Len(results) : results'[i] = results[i]
    BY <2>1, <2>2
  <2> QED
    BY <2>2, <2>3
<1>5. CASE WriteFile("json", "junit") \/ WriteFile("junit", "done")
  BY <1>5 DEF WriteFile, Goes, Exit
<1>6. ASSUME NEW o \in {"pass", "fail"}, BodyReturns(o)
      PROVE  Passed(id) \/ (phase = "body" /\ BodyReturns("pass") /\ id = Selected(cli)[at])
  BY <1>6 DEF BodyReturns
<1> QED
  BY <1>1, <1>2, <1>3, <1>4, <1>5, <1>6 DEF HarnessNext, MainStep

\* Evidence stays, once it is there, as long as it is not replaced.
LEMMA EvidenceStays ==
  ASSUME ChainOK, ChainOK', ChainGrows, NEW id, Evidence(id), shown'[id] = shown[id]
  PROVE  Evidence(id)'
<1>1. ASSUME id = "S046" 
      PROVE  \E h \in 1..final' : /\ blocks'[h][shown'[id].leaf.place] = shown'[id].leaf.leaf
                                  /\ Round(h) = shown'[id].round
  <2>1. PICK h \in 1..final : /\ blocks[h][shown[id].leaf.place] = shown[id].leaf.leaf
                              /\ Round(h) = shown[id].round
    BY <1>1 DEF Evidence
  <2>2. h \in 1..final' /\ blocks'[h] = blocks[h]
    <3>1. final \in 0..Len(blocks) /\ final <= final' /\ Len(blocks) \in Nat
      BY DEF ChainOK, ChainGrows
    <3>2. final' \in Nat
      BY DEF ChainOK
    <3> QED
      BY <3>1, <3>2 DEF ChainGrows
  <2> QED
    BY <2>1, <2>2
<1>2. id = "S045" => posted'
  BY DEF Evidence, ChainGrows
<1> QED
  BY <1>1, <1>2 DEF Evidence

-----------------------------------------------------------------------------
(* What each body has in hand when it passes.                              *)

\* s046:119-189: the root under the certificate is that of a finalized block, and so is
\* the round it names.
LEMMA CertifiedRoot ==
  ASSUME ChainOK, NEW path, path.block \in Nat \ {0}, NEW cert, CertHolds(path, cert),
         cert \in (IF path.block <= final THEN {CertOf(path.block)} ELSE {}) \cup MadeUpCerts(path)
  PROVE  \E h \in 1..final : blocks[h] = path.root /\ Round(h) = cert.round
<1>1. \A h \in Nat \ {0} : Round(h) \in Rounds
  BY DEF Round, Rounds
<1>2. ASSUME NEW h \in 1..final, cert.sig = Finalized(h), cert.round \in Rounds
      PROVE  blocks[h] = path.root /\ Round(h) = cert.round
  <2>1. Round(h) \in Rounds
    BY <1>1
  <2>2. Preimage(h).r = path.root /\ Round(h) = cert.round
    BY <1>2, <2>1, SignatureBinds DEF Finalized
  <2> QED
    BY <2>2 DEF Preimage
<1>3. CASE path.block <= final /\ cert = CertOf(path.block)
  <2>1. path.block \in 1..final
    BY <1>3 DEF ChainOK
  <2>2. cert.sig = Finalized(path.block) /\ cert.round \in Rounds
    BY <1>1, <1>3 DEF CertOf
  <2> QED
    BY <1>2, <2>1, <2>2
<1>4. CASE cert \in MadeUpCerts(path)
  <2>1. /\ cert.sig \in {Finalized(h) : h \in 1..final} \cup {Foreign.sig, Nothing}
        /\ cert.round \in [epoch : {1}, view : 0..MaxRound, parent : 0..MaxRound]
    BY <1>4 DEF MadeUpCerts
  <2>2. cert.sig # Nothing
    BY DEF CertHolds, verify_finalize_cert
  <2>3. cert.round \in Rounds
    BY <2>1 DEF Rounds
  <2>4. cert.sig # Foreign.sig
    <3>1. SUFFICES ASSUME cert.sig = Foreign.sig PROVE FALSE
      OBVIOUS
    <3>2. Foreign.sig = Sign(Committee, OtherChain, Round(1), Digest(Foreign.pre)) /\ Round(1) \in Rounds
      BY <1>1 DEF Foreign
    <3>3. OtherChain = Chain
      BY <2>3, <3>1, <3>2, SignatureBinds
    <3> QED
      BY <3>3, ScenariosAssumption
  <2> QED
    BY <1>2, <2>1, <2>2, <2>3, <2>4
<1> QED
  BY <1>3, <1>4

\* s046:97-116: the path leads from the receipt's leaf to the root.
LEMMA PathLeads ==
  ASSUME NEW inserted, NEW path, PathHolds(inserted, path), path.root \in Trees, path.siblings \in Trees
  PROVE  path.root[inserted.place] = inserted.leaf
<1>1. inserted.place \in Places
  BY ScenariosAssumption DEF PathHolds, root_from_inclusion_path
<1>2. path.root = [path.siblings EXCEPT ![inserted.place] = inserted.leaf]
  BY <1>1 DEF PathHolds, root_from_inclusion_path
<1> QED
  BY <1>1, <1>2 DEF Trees

LEMMA ShortSeqs ==
  ASSUME NEW S
  PROVE  /\ \A a \in S : <<a>> \in Seq(S)
         /\ \A a, b, c \in S : <<a, b, c>> \in Seq(S)
         /\ \A a, b, c, d, e, f \in S : <<a, b, c, d, e, f>> \in Seq(S)
  OBVIOUS

LEMMA SixPlaces ==
  ASSUME NEW a, NEW b, NEW c, NEW d, NEW e, NEW f
  PROVE  DOMAIN <<a, b, c, d, e, f>> = 1..6
  OBVIOUS

LEMMA RefusingSays ==
  ASSUME NEW cause, NEW code, NEW message, NEW data
  PROVE  Refusing(cause, code, message, data).cause = cause
         /\ Refusing(cause, code, message, data).err.code = code
  BY DEF Refusing

\* The texts of a revert are texts, and hold no selector but the revert's and an address.
LEMMA RevertTextHolds ==
  ASSUME NEW b \in Reverts, NEW t \in RevertTexts(b)
  PROVE  /\ t \in Text
         /\ \A i \in DOMAIN t : t[i].is \in {"hex", "data"} => t[i].hex.bytes.selector \in {b.selector, Address}
<1>1. /\ b.size \in Nat /\ b.selector \in {"AttesterNotActive", "NotRegistered"}
      /\ b \in Payload
  <2>1. PICK e \in {"AttesterNotActive", "NotRegistered"} : b = RevertOf(e, Address)
    BY DEF Reverts
  <2>2. "AttesterNotActive" \notin DOMAIN ShapeOf /\ "NotRegistered" \in DOMAIN ShapeOf
        /\ ShapeOf["NotRegistered"] = "address"
    BY DEF ShapeOf
  <2>3. {"AttesterNotActive", "NotRegistered"} \subseteq Selectors
    BY DecodeAssumption DEF KnownErrors, StaticErrors, ShapeOf
  <2>4. CASE e = "AttesterNotActive"
    <3>1. b = [size |-> 4, selector |-> e, shape |-> "none", value |-> Address]
      BY <2>1, <2>2, <2>4 DEF RevertOf
    <3> QED
      BY <2>3, <2>4, <3>1, ScenariosAssumption DEF Payload
  <2>5. CASE e = "NotRegistered"
    <3>1. b = [size |-> 36, selector |-> e, shape |-> "address", value |-> Address]
      BY <2>1, <2>2, <2>5 DEF RevertOf
    <3> QED
      BY <2>3, <2>5, <3>1, ScenariosAssumption DEF Payload
  <2> QED
    BY <2>4, <2>5
<1>2. Data(b) \in Token
  BY <1>1 DEF Data, Token, Hex
<1>3. AddressBytes \in Payload
  BY ScenariosAssumption DEF AddressBytes, Payload
<1>4. Bytes("hex", AddressBytes) \in Token
  BY <1>3 DEF Bytes, Token, Hex
<1>5. Word("to:") \in Token
  BY ScenariosAssumption DEF Word, Token
<1>6. t = <<Data(b)>> \/ t = <<Word("to:"), Bytes("hex", AddressBytes), Data(b)>>
  BY DEF RevertTexts
<1>7. t \in Text
  BY <1>2, <1>4, <1>5, <1>6, ShortSeqs DEF Text
<1>8. Data(b).hex.bytes.selector = b.selector /\ Bytes("hex", AddressBytes).hex.bytes.selector = Address
      /\ Word("to:").is = "word"
  BY DEF Data, Bytes, Word, AddressBytes
<1> QED
  BY <1>6, <1>7, <1>8

\* s030:46-50: the typed error is the contract's.
LEMMA S030WantsContract ==
  ASSUME NEW reply \in AgentsReplies, S030Wants(reply.err)
  PROVE  reply.cause = "AttesterNotActive"
<1>1. reply.err.is = "Contract" /\ decode_text(reply.err.text).is = "AttesterNotActive"
  <2>1. reply.err.is = "Contract"
    BY DEF AgentsReplies
  <2> QED
    BY <2>1 DEF S030Wants, into_pso_error
<1>2. "AttesterNotActive" \in KnownErrors /\ Address # "AttesterNotActive"
  BY ScenariosAssumption DEF KnownErrors, StaticErrors
<1>3. CASE reply.err.text = PoolText
  <2> DEFINE list == [is |-> "list", items |-> [i \in 1..4 |-> [written |-> "decimal", value |-> 40 * i]]]
  <2>1. \A i \in DOMAIN PoolText : PoolText[i].is \in {"hex", "data"} => PoolText[i].hex.bytes.selector = Address
    <3>1. list.is = "list" /\ (\A w : Word(w).is = "word")
          /\ Bytes("hex", AddressBytes).hex.bytes.selector = Address
      BY DEF Word, Bytes, AddressBytes
    <3>2. PoolText = << Word("PSO pool rejection"), Word("MethodNotPermitted"), Word("to:"),
                        Bytes("hex", AddressBytes), Word("selector:"), list >>
      BY DEF PoolText
    <3> HIDE DEF list
    <3>3. DOMAIN PoolText = 1..6
      BY <3>2, SixPlaces
    <3>4. PoolText[1].is = "word" /\ PoolText[2].is = "word" /\ PoolText[3].is = "word"
          /\ PoolText[4] = Bytes("hex", AddressBytes) /\ PoolText[5].is = "word" /\ PoolText[6].is = "list"
      BY <3>1, <3>2
    <3>5. ASSUME NEW i \in 1..6, PoolText[i].is \in {"hex", "data"} PROVE i = 4
      BY <3>4, <3>5
    <3> QED
      BY <3>1, <3>3, <3>4, <3>5
  <2>2. PoolText \in Text
    <3>1. AddressBytes \in Payload
      BY ScenariosAssumption DEF AddressBytes, Payload
    <3>2. Bytes("hex", AddressBytes) \in Token
      BY <3>1 DEF Bytes, Token, Hex
    <3>3. \A w \in {"PSO pool rejection", "MethodNotPermitted", "to:", "selector:"} : Word(w) \in Token
      BY ScenariosAssumption DEF Word, Token
    <3>4. list \in Token
      <4>1. [i \in 1..4 |-> [written |-> "decimal", value |-> 40 * i]] \in Seq([written : {"hex", "decimal"}, value : 0..255])
        <5>1. \A i \in 1..4 : [written |-> "decimal", value |-> 40 * i] \in [written : {"hex", "decimal"}, value : 0..255]
          OBVIOUS
        <5> QED
          BY <5>1, PartsAreSeq
      <4> QED
        BY <4>1 DEF Token
    <3>5. PoolText = << Word("PSO pool rejection"), Word("MethodNotPermitted"), Word("to:"),
                        Bytes("hex", AddressBytes), Word("selector:"), list >>
      BY DEF PoolText
    <3> HIDE DEF list
    <3> QED
      BY <3>2, <3>3, <3>4, <3>5, ShortSeqs DEF Text
  <2> QED
    BY <1>1, <1>2, <1>3, <2>1, <2>2, TypedErrorWasSent
<1>4. ASSUME NEW b \in Reverts, reply.cause = b.selector, reply.err.text \in RevertTexts(b)
      PROVE  reply.cause = "AttesterNotActive"
  BY <1>1, <1>2, <1>4, RevertTextHolds, TypedErrorWasSent
<1> QED
  BY <1>3, <1>4 DEF AgentsReplies

\* s049:60-72: only an answer of the pool is a PoolRejection.
LEMMA S049WantsPool ==
  ASSUME NEW reply \in ActorReplies, S049Wants(reply.err)
  PROVE  reply.cause = "pool"
<1>1. CASE reply.cause # "pool"
  <2>1. reply.err.code # InvalidParams
    <3>1. CASE reply = Refusing("pool", InvalidParams, PoolText, None)
      BY <1>1, <3>1, RefusingSays
    <3>2. CASE \E x, m, d : reply = Refusing(x, ExecutionReverted, m, d)
      BY <3>2, RefusingSays DEF InvalidParams, ExecutionReverted
    <3>3. CASE \E x, m, d : reply = Refusing(x, InternalError, m, d)
      BY <3>3, RefusingSays DEF InvalidParams, InternalError
    <3> QED
      BY <3>1, <3>2, <3>3 DEF ActorReplies
  <2> QED
    BY <2>1 DEF S049Wants, json_rpc_error_to_typed, Typed
<1> QED
  BY <1>1

-----------------------------------------------------------------------------
(* The invariant is kept.                                                  *)

\* A step keeps it that changes what is shown of the scenario that runs alone, and lets that
\* one pass with its evidence alone.
LEMMA EInvKept ==
  ASSUME RInv, EInv, [Step]_vars, DOMAIN shown' = Ids, Midway',
         \A id \in Ids : shown'[id] = shown[id] \/ (phase = "body" /\ id = Selected(cli)[at]),
         \A id \in Ids : phase = "body" /\ BodyReturns("pass") /\ id = Selected(cli)[at] => Evidence(id)'
  PROVE  EInv'
<1>1. ChainOK' /\ ChainGrows
  BY StepGrows DEF EInv
<1>2. HarnessNext \/ UNCHANGED runnerVars
  BY BodyStep DEF Step, vars
<1>3. ASSUME NEW id \in Ids, Passed(id)' PROVE Evidence(id)'
  <2>1. CASE Passed(id)
    <3>1. ~(phase = "body" /\ id = Selected(cli)[at])
      BY <2>1, NoRowYet DEF Passed
    <3>2. Evidence(id) /\ ChainOK /\ shown'[id] = shown[id]
      BY <2>1, <3>1 DEF EInv
    <3> QED
      BY <1>1, <3>2, EvidenceStays
  <2>2. CASE ~Passed(id)
    BY <1>2, <1>3, <2>2, NewVerdicts
  <2> QED
    BY <2>1, <2>2
<1> QED
  BY <1>1, <1>3 DEF EInv

\* A body that has not passed.
LEMMA NotPassing ==
  ASSUME Ends("fail") \/ UNCHANGED runnerVars \/ MainStep \/ BodyPanics
  PROVE  ~(phase = "body" /\ BodyReturns("pass"))
<1>1. CASE Ends("fail")
  BY <1>1 DEF Ends, BodyReturns
<1>2. CASE UNCHANGED runnerVars
  BY <1>2 DEF runnerVars, BodyReturns
<1>3. CASE BodyPanics
  BY <1>3 DEF BodyPanics, Exit, BodyReturns
<1>4. CASE MainStep
  BY <1>4 DEF MainStep, ReadArgs, Bootstrap, PreStart, PostStop, PrintReport, WriteFile, Finish
<1> QED
  BY <1>1, <1>2, <1>3, <1>4

LEMMA EInvInit == Init => EInv
<1> SUFFICES ASSUME Init PROVE EInv
  OBVIOUS
<1>1. ChainOK
  BY DEF Init, ChainOK
<1>2. results = <<>> /\ phase = "args"
  BY DEF Init, RunnerInit
<1>3. \A id \in Ids : ~Passed(id)
  BY <1>2 DEF Passed, Row
<1> QED
  BY <1>1, <1>3 DEF EInv, Midway, Init

\* S030 and S049.
LEMMA RefusalKeeps ==
  ASSUME RInv, EInv, S030 \/ S049
  PROVE  EInv'
<1> DEFINE this == Selected(cli)[at]
<1>1. [Step]_vars /\ phase = "body" /\ this \in Ids /\ DOMAIN shown = Ids
  BY NoRowYet DEF Step, Suite, S030, S049, Refusal, InBody, EInv
<1>2. Midway' /\ (\A id \in Ids : shown'[id] = shown[id] \/ id = this) /\ DOMAIN shown' = Ids
  BY <1>1 DEF S030, S049, Refusal, Faults, Ends, Shows, InBody, Midway
<1>3. ASSUME S030, BodyReturns("pass") PROVE this = "S030" /\ Evidence("S030")'
  <2>1. this = "S030"
    BY <1>3 DEF S030, Refusal, InBody
  <2>2. ~Ends("fail")
    BY <1>1, <1>3, NotPassing
  <2>3. PICK reply \in AgentsReplies : S030Wants(reply.err) /\ Shows("S030", reply.cause)
    BY <1>3, <2>2 DEF S030, Refusal, Faults
  <2>4. shown'["S030"] = "AttesterNotActive"
    BY <1>1, <2>1, <2>3, S030WantsContract DEF Shows
  <2> QED
    BY <2>1, <2>4 DEF Evidence
<1>4. ASSUME S049, BodyReturns("pass") PROVE this = "S049" /\ Evidence("S049")'
  <2>1. this = "S049"
    BY <1>4 DEF S049, Refusal, InBody
  <2>2. ~Ends("fail")
    BY <1>1, <1>4, NotPassing
  <2>3. PICK reply \in ActorReplies : S049Wants(reply.err) /\ Shows("S049", reply.cause)
    BY <1>4, <2>2 DEF S049, Refusal, Faults
  <2>4. shown'["S049"] = "pool"
    BY <1>1, <2>1, <2>3, S049WantsPool DEF Shows
  <2> QED
    BY <2>1, <2>4 DEF Evidence
<1> QED
  BY <1>1, <1>2, <1>3, <1>4, EInvKept

\* The failures and the waits.
LEMMA FailureKeeps ==
  ASSUME RInv, EInv, [Step]_vars, UNCHANGED shown,
         Ends("fail") \/ (UNCHANGED <<mid, heard>> /\ (UNCHANGED runnerVars \/ MainStep \/ BodyPanics))
  PROVE  EInv'
<1>1. ChainGrows
  BY StepGrows DEF EInv
<1>2. Midway'
  BY <1>1 DEF Ends, Midway, EInv, ChainGrows
<1>3. DOMAIN shown' = Ids /\ \A id \in Ids : shown'[id] = shown[id]
  BY DEF EInv
<1> QED
  BY <1>2, <1>3, NotPassing, EInvKept

LEMMA S045Keeps ==
  ASSUME RInv, EInv, S045Sees \/ S045
  PROVE  EInv'
<1> DEFINE this == Selected(cli)[at]
<1>1. [Step]_vars /\ phase = "body" /\ this = "S045" /\ DOMAIN shown' = Ids
      /\ \A id \in Ids : shown'[id] = shown[id]
  BY DEF Step, Suite, S045Sees, S045, Wired, InBody, Reach, EInv
<1>2. posted' /\ Midway'
  BY DEF S045Sees, S045, Wired, InBody, Reach, Ends, chainVars, Midway, EInv
<1>3. Evidence("S045")'
  BY <1>2 DEF Evidence
<1> QED
  BY <1>1, <1>2, <1>3, EInvKept

LEMMA S046SubmitKeeps ==
  ASSUME RInv, EInv, S046Submit
  PROVE  EInv'
<1>1. [Step]_vars
  BY DEF Step, Suite
<1>2. PICK logs : IF leaf_inserted(logs) = Nothing THEN Ends("fail") /\ UNCHANGED <<shown, faulted>>
                  ELSE Reach("inserted", [leaf |-> leaf_inserted(logs), path |-> Nothing])
  BY DEF S046Submit
<1>3. CASE Ends("fail") /\ UNCHANGED shown
  BY <1>1, <1>3, FailureKeeps
<1>4. CASE mid' = "inserted" /\ UNCHANGED <<runnerVars, shown>>
  <2>1. Midway'
    BY <1>4 DEF Midway
  <2> QED
    BY <1>1, <1>4, <2>1, NotPassing, EInvKept DEF EInv
<1> QED
  BY <1>2, <1>3, <1>4 DEF Reach

LEMMA S046PathKeeps ==
  ASSUME RInv, EInv, S046Path
  PROVE  EInv'
<1>1. [Step]_vars
  BY DEF Step, Suite
<1>2. PICK path \in (IF final > 0 /\ Holding(blocks[final]) THEN {PathAt(final)} ELSE {})
                     \cup (IF node = "lying" THEN MadeUpPaths ELSE {}) :
        IF PathHolds(heard.leaf, path)
          THEN Reach("proved", [leaf |-> heard.leaf, path |-> [root |-> path.root, block |-> path.block]])
          ELSE Ends("fail") /\ UNCHANGED <<shown, faulted>>
  BY DEF S046Path
<1>3. CASE Ends("fail") /\ UNCHANGED shown
  BY <1>1, <1>3, FailureKeeps
<1>4. ASSUME PathHolds(heard.leaf, path),
             Reach("proved", [leaf |-> heard.leaf, path |-> [root |-> path.root, block |-> path.block]])
      PROVE  EInv'
  <2>1. path.root \in Trees /\ path.siblings \in Trees /\ path.block \in Nat \ {0}
    <3>1. CASE final > 0 /\ path = PathAt(final)
      <4>1. final \in 1..Len(blocks) /\ final \in Nat \ {0} /\ blocks \in Seq(Trees)
        BY <3>1 DEF EInv, ChainOK
      <4>2. blocks[final] \in Trees
        BY <4>1
      <4>3. path.root = blocks[final] /\ path.siblings = blocks[final] /\ path.block = final
        BY <3>1 DEF PathAt
      <4> QED
        BY <4>1, <4>2, <4>3
    <3>2. CASE path \in MadeUpPaths
      <4>1. PICK t \in Trees, u \in Trees, h \in 1..MaxBlocks : path = [root |-> t, siblings |-> u, block |-> h]
        BY <3>2 DEF MadeUpPaths
      <4>2. path.root = t /\ path.siblings = u /\ path.block = h
        BY <4>1
      <4>3. h \in Nat \ {0}
        OBVIOUS
      <4> QED
        BY <4>2, <4>3
    <3> QED
      BY <1>2, <3>1, <3>2
  <2>2. path.root[heard.leaf.place] = heard.leaf.leaf
    BY <1>4, <2>1, PathLeads
  <2>3. mid' = "proved" /\ heard' = [leaf |-> heard.leaf, path |-> [root |-> path.root, block |-> path.block]]
        /\ UNCHANGED <<runnerVars, shown>>
    BY <1>4 DEF Reach
  <2>4. InBody("S046", "inserted")
    BY DEF S046Path
  <2>5. heard'.leaf = heard.leaf /\ heard'.path = [root |-> path.root, block |-> path.block]
    BY <2>3, <2>4 DEF EInv, Midway
  <2>6. Midway'
    BY <2>1, <2>2, <2>3, <2>5 DEF Midway
  <2> QED
    BY <1>1, <2>3, <2>6, NotPassing, EInvKept DEF EInv
<1> QED
  BY <1>2, <1>3, <1>4

LEMMA S046Keeps ==
  ASSUME RInv, EInv, S046
  PROVE  EInv'
<1> DEFINE this == Selected(cli)[at]
<1>1. [Step]_vars /\ phase = "body" /\ this = "S046" /\ mid = "proved" /\ DOMAIN shown = Ids /\ this \in Ids
      /\ UNCHANGED <<blocks, final>> /\ ChainOK
  BY NoRowYet DEF Step, Suite, S046, InBody, EInv, chainVars
<1>2. CASE Ends("fail") /\ UNCHANGED shown
  BY <1>1, <1>2, FailureKeeps
<1>3. ASSUME NEW cert \in (IF heard.path.block <= final THEN {CertOf(heard.path.block)} ELSE {})
                          \cup (IF node = "lying" THEN MadeUpCerts(heard.path) ELSE {}),
             CertHolds(heard.path, cert), Ends("pass"),
             Shows("S046", [leaf |-> heard.leaf, round |-> cert.round])
      PROVE  EInv'
  <2>1. /\ heard.path.block \in Nat \ {0}
        /\ heard.path.root[heard.leaf.place] = heard.leaf.leaf
    BY <1>1 DEF EInv, Midway
  <2>2. PICK h \in 1..final : blocks[h] = heard.path.root /\ Round(h) = cert.round
    BY <1>1, <1>3, <2>1, CertifiedRoot
  <2>3. shown' = [shown EXCEPT !["S046"] = [leaf |-> heard.leaf, round |-> cert.round]]
    BY <1>3 DEF Shows
  <2>4. shown'["S046"].leaf = heard.leaf /\ shown'["S046"].round = cert.round
    BY <1>1, <2>3
  <2>5. Evidence("S046")'
    BY <1>1, <2>1, <2>2, <2>4 DEF Evidence
  <2>6. Midway'
    BY <1>3 DEF Ends, Midway
  <2>7. DOMAIN shown' = Ids /\ \A id \in Ids : shown'[id] = shown[id] \/ id = this
    BY <1>1, <2>3
  <2> QED
    BY <1>1, <2>5, <2>6, <2>7, EInvKept
<1> QED
  BY <1>2, <1>3 DEF S046

LEMMA EInvStep == RInv /\ EInv /\ [Step]_vars => EInv'
<1> SUFFICES ASSUME RInv, EInv, [Step]_vars PROVE EInv'
  OBVIOUS
<1>1. CASE Main
  BY <1>1, FailureKeeps DEF Main
<1>2. CASE Panic
  BY <1>2, FailureKeeps DEF Panic, bodyVars
<1>3. CASE OthersBlock \/ FinalizeBlock \/ PostBatch
  BY <1>3, FailureKeeps DEF OthersBlock, FinalizeBlock, PostBatch, bodyVars
<1>4. CASE UNCHANGED vars
  BY <1>4, FailureKeeps DEF vars, bodyVars
<1>5. CASE S030 \/ S049
  BY <1>5, RefusalKeeps
<1>6. CASE Unwired
  BY <1>6, FailureKeeps DEF Unwired
<1>7. CASE S045Sees \/ S045
  BY <1>7, S045Keeps
<1>8. CASE S046Submit
  BY <1>8, S046SubmitKeeps
<1>9. CASE S046Path
  BY <1>9, S046PathKeeps
<1>10. CASE S046
  BY <1>10, S046Keeps
<1>11. CASE Deadlines
  BY <1>11, FailureKeeps DEF Deadlines, Faults
<1> QED
  BY <1>1, <1>2, <1>3, <1>4, <1>5, <1>6, <1>7, <1>8, <1>9, <1>10, <1>11 DEF Step, Suite

LEMMA EvidenceHolds == Spec => [](RInv /\ EInv)
<1>1. Spec => []RInv
  BY ScenariosRunInHarness, RInvHolds DEF StaysInHarness
<1>2. RInv /\ EInv /\ [Step]_vars => EInv'
  BY EInvStep
<1> QED
  BY <1>1, <1>2, EInvInit, PTL DEF Spec

\* A pass of S030 was answered by the contract with AttesterNotActive, one of S049 by the
\* pool, and S045 passes with a batch on the L1, whatever stands in the answers; s030:46-50,
\* s049:60-72, s045:71-101.
THEOREM PassesAreEvidence == Spec => []PassIsEvidence
<1>1. RInv /\ EInv => PassIsEvidence
  <2> SUFFICES ASSUME RInv, EInv PROVE PassIsEvidence
    OBVIOUS
  <2>1. ASSUME NEW id, Row(id, "pass") PROVE Evidence(id)
    BY <2>1, RowIsOfAScenario DEF Passed, EInv
  <2> QED
    BY <2>1 DEF PassIsEvidence, Evidence
<1> QED
  BY <1>1, EvidenceHolds, PTL

\* A pass of S046 means that a block the committee has finalized on this chain holds the
\* leaf of the receipt at the place it names, on every chain and whatever the node makes up;
\* s046:4-25, bls_verify.rs:95-121.
THEOREM InclusionIsCommitted == Spec => []IncludedMeansCommitted
<1>1. RInv /\ EInv => IncludedMeansCommitted
  <2> SUFFICES ASSUME RInv, EInv, Row("S046", "pass") PROVE IncludedMeansCommitted
    BY DEF IncludedMeansCommitted
  <2>1. Evidence("S046")
    BY RowIsOfAScenario DEF Passed, EInv
  <2> QED
    BY <2>1 DEF IncludedMeansCommitted, Evidence
<1> QED
  BY <1>1, EvidenceHolds, PTL

\* The round such a pass names is one the committee has finalized a block in: a signature
\* is over its round as much as over its digest, since no varint is the beginning of
\* another; bls_verify.rs:40-52, :108-112.
THEOREM GenuineRounds == Spec => []RoundIsGenuine
<1>1. RInv /\ EInv => RoundIsGenuine
  <2> SUFFICES ASSUME RInv, EInv, Row("S046", "pass") PROVE RoundIsGenuine
    BY DEF RoundIsGenuine
  <2>1. Evidence("S046")
    BY RowIsOfAScenario DEF Passed, EInv
  <2> QED
    BY <2>1 DEF RoundIsGenuine, Evidence
<1> QED
  BY <1>1, EvidenceHolds, PTL

-----------------------------------------------------------------------------
(* What a failure comes from: the invariant.                               *)

\* The places of the list at which S046 may still submit its draft.
Ahead == {n \in 1..Len(Selected(cli)) : n > at \/ (n = at /\ phase # "stopping" /\ mid = "start")}
NotYet == \E n \in Ahead : Selected(cli)[n] = "S046"

NoneHolds == \A h \in 1..Len(blocks) : ~Holding(blocks[h])

\* As long as the draft's leaf is not in the tree, a place of the tree is kept for it, and a
\* block of the chain.
Room ==
  /\ Len(blocks) <= MaxBlocks
  /\ ~Holding(Tip) => Len(blocks) < MaxBlocks /\ Free(Tip) # {}
  /\ NotYet => NoneHolds

\* The draft's leaf stands in no other place, in no block.
Stands(p) == \A h \in 1..Len(blocks) : \A q \in Places : blocks[h][q] = Mine => q = p

\* What a node that serves its own chain has told S046.
Honest ==
  node = "honest" =>
    /\ mid \in {"inserted", "proved"} =>
         heard.leaf.leaf = Mine /\ heard.leaf.place \in Places /\ Stands(heard.leaf.place)
    /\ mid = "proved" =>
         heard.path.block \in 1..final /\ heard.path.root = blocks[heard.path.block]

\* Its row says so, or its body has just said so.
FailedNow(id) ==
  \/ Row(id, "fail")
  \/ phase = "stopping" /\ outcome = "fail" /\ Selected(cli)[at] = id

Excused(id) ==
  \/ id \in faulted
  \/ id \in NeedL1 /\ ~(cli.l1 /\ cli.inbox)
  \/ id = "S046" /\ node = "lying"
  \/ id = "S030" /\ shown[id] # "AttesterNotActive"
  \/ id = "S049" /\ shown[id] # "pool"

Plain ==
  /\ node \in {"honest", "lying"} /\ posted \in BOOLEAN
  /\ mid \in {"start", "epoch", "inserted", "proved"}
  /\ faulted \subseteq Ids

FInv ==
  /\ Plain /\ Room /\ Honest
  /\ \A id \in Ids : FailedNow(id) => Excused(id)

-----------------------------------------------------------------------------
(* The tree.                                                               *)

LEMMA NextPlaceFree ==
  ASSUME Free(Tip) # {}
  PROVE  NextPlace(Tip) \in Free(Tip) /\ NextPlace(Tip) \in Places
<1>1. Free(Tip) \in SUBSET Nat
  <2>1. Places = 0..1
    BY ScenariosAssumption
  <2> QED
    BY <2>1 DEF Free
<1>2. \E p \in Free(Tip) : \A q \in Free(Tip) : p <= q
  BY <1>1, LeastNumber
<1> QED
  BY <1>2 DEF NextPlace, Free

LEMMA Appended ==
  ASSUME ChainOK, NEW tree \in Trees, blocks' = Append(blocks, tree)
  PROVE  /\ Tip' = tree /\ Len(blocks) \in Nat /\ Len(blocks') = Len(blocks) + 1
         /\ \A h \in 1..Len(blocks) : blocks'[h] = blocks[h]
         /\ blocks'[Len(blocks) + 1] = tree
<1>1. blocks \in Seq(Trees)
  BY DEF ChainOK
<1>2. Len(blocks') = Len(blocks) + 1 /\ blocks'[Len(blocks) + 1] = tree /\ blocks' # <<>>
  BY <1>1
<1> QED
  BY <1>1, <1>2 DEF Tip

\* The first tree is empty, each other one that of a block.
LEMMA TipIsOneOf ==
  ASSUME ChainOK
  PROVE  (\A p \in Places : Tip[p] = Empty) \/ \E h \in 1..Len(blocks) : Tip = blocks[h]
<1>1. CASE blocks = <<>>
  BY <1>1 DEF Tip
<1>2. CASE blocks # <<>>
  <2>1. Len(blocks) \in 1..Len(blocks)
    BY <1>2 DEF ChainOK
  <2> QED
    BY <1>2, <2>1 DEF Tip
<1> QED
  BY <1>1, <1>2

\* What another draft's block makes of the tree.
LEMMA OthersTree ==
  ASSUME ChainOK, OthersBlock
  PROVE  \E tree \in Trees :
           /\ blocks' = Append(blocks, tree)
           /\ \A p \in Places : tree[p] = Mine <=> Tip[p] = Mine
           /\ ~Holding(Tip) /\ Free(Tip) # {} => Free(tree) # {}
<1>1. Tip \in Trees
  BY TipIsTree
<1>2. CASE blocks' = Append(blocks, Tip)
  BY <1>1, <1>2
<1>3. CASE /\ Cardinality(Free(Tip)) > (IF Holding(Tip) THEN 0 ELSE 1)
           /\ blocks' = Append(blocks, [Tip EXCEPT ![NextPlace(Tip)] = Others])
  <2> DEFINE p == NextPlace(Tip)
             tree == [Tip EXCEPT ![p] = Others]
  <2>1. IsFiniteSet(Free(Tip))
    <3>1. 0 \in Int /\ 1 \in Int
      OBVIOUS
    <3>2. IsFiniteSet(0..1)
      BY <3>1, FS_Interval
    <3>3. Free(Tip) \in SUBSET (0..1)
      BY ScenariosAssumption DEF Free
    <3> QED
      BY <3>2, <3>3, FS_Subset
  <2>2. Free(Tip) # {}
    <3>1. Cardinality({}) = 0
      BY FS_EmptySet
    <3>2. Cardinality(Free(Tip)) # 0
      BY <1>3
    <3> QED
      BY <3>1, <3>2
  <2>3. p \in Free(Tip) /\ p \in Places
    BY <2>2, NextPlaceFree
  <2>4. tree \in Trees /\ tree[p] = Others /\ \A q \in Places \ {p} : tree[q] = Tip[q]
    BY <1>1, <2>3, ScenariosAssumption DEF Trees
  <2>5. Tip[p] = Empty /\ Mine # Empty /\ Mine # Others
    BY <2>3, ScenariosAssumption DEF Free
  <2>6. \A q \in Places : tree[q] = Mine <=> Tip[q] = Mine
    BY <2>4, <2>5
  <2>7. ASSUME ~Holding(Tip) PROVE Free(tree) # {}
    <3>1. Free(Tip) # {p}
      <4>1. Cardinality({p}) = 1
        BY FS_Singleton
      <4>2. Cardinality(Free(Tip)) # 1
        BY <1>3, <2>7
      <4> HIDE DEF p
      <4> QED
        BY <4>1, <4>2
    <3>2. PICK q \in Free(Tip) : q # p
      BY <2>3, <3>1
    <3>3. q \in Places \ {p} /\ Tip[q] = Empty
      BY <3>2 DEF Free
    <3>4. q \in Free(tree)
      BY <2>4, <3>3 DEF Free
    <3> QED
      BY <3>4
  <2> QED
    BY <1>3, <2>4, <2>6, <2>7
<1> QED
  BY <1>2, <1>3 DEF OthersBlock

-----------------------------------------------------------------------------
(* S046 submits once.                                                      *)

LEMMA MidSteps ==
  ASSUME [Step]_vars
  PROVE  mid' = mid \/ mid' # "start" \/ (phase' = "stopping" /\ at' = at)
<1> USE DEF Ends, Reach, Faults, BodyReturns
<1>1. CASE Main \/ Panic \/ OthersBlock \/ FinalizeBlock \/ PostBatch \/ UNCHANGED vars
  BY <1>1 DEF Main, Panic, OthersBlock, FinalizeBlock, PostBatch, vars, bodyVars
<1>2. CASE S030 \/ S049
  BY <1>2 DEF S030, S049, Refusal
<1>3. CASE Unwired \/ S045Sees \/ S045 \/ Deadlines
  BY <1>3 DEF Unwired, S045Sees, S045, Deadlines
<1>4. CASE S046Submit \/ S046Path
  BY <1>4 DEF S046Submit, S046Path
<1>5. CASE S046
  BY <1>5 DEF S046
<1> QED
  BY <1>1, <1>2, <1>3, <1>4, <1>5 DEF Step, Suite

LEMMA CliAndPlace ==
  ASSUME RInv, HarnessNext \/ UNCHANGED runnerVars
  PROVE  /\ cli' = cli
         /\ at' = at \/ (at' = at + 1 /\ phase = "stopping")
         /\ at' = at => phase' = phase \/ phase # "stopping"
<1>1. CASE UNCHANGED runnerVars
  BY <1>1 DEF runnerVars
<1>2. CASE ReadArgs \/ Bootstrap \/ PrintReport \/ Finish \/ BodyPanics \/ PreStart
  BY <1>2 DEF ReadArgs, Bootstrap, PrintReport, Finish, BodyPanics, Goes, Exit, PreStart
<1>3. CASE PostStop
  BY <1>3 DEF PostStop, RInv, RunnerTypeOK
<1>4. CASE WriteFile("json", "junit") \/ WriteFile("junit", "done")
  BY <1>4 DEF WriteFile, Goes, Exit
<1>5. CASE \E o \in {"pass", "fail"} : BodyReturns(o)
  BY <1>5 DEF BodyReturns
<1> QED
  BY <1>1, <1>2, <1>3, <1>4, <1>5 DEF HarnessNext, MainStep

LEMMA NotYetBefore ==
  ASSUME RInv, [Step]_vars, NotYet'
  PROVE  NotYet
<1>1. HarnessNext \/ UNCHANGED runnerVars
  BY BodyStep DEF Step, vars
<1>2. /\ cli' = cli /\ (at' = at \/ (at' = at + 1 /\ phase = "stopping"))
      /\ at' = at => phase' = phase \/ phase # "stopping"
  BY <1>1, CliAndPlace
<1>3. mid' = mid \/ mid' # "start" \/ (phase' = "stopping" /\ at' = at)
  BY MidSteps
<1>4. PICK n \in Ahead' : Selected(cli')[n] = "S046"
  BY DEF NotYet
<1>5. at \in Nat
  BY SelectedIsKept DEF RInv, RunnerTypeOK
<1>6. n \in Ahead
  BY <1>2, <1>3, <1>4, <1>5 DEF Ahead
<1> QED
  BY <1>2, <1>4, <1>6 DEF NotYet

LEMMA SubmitsOnce ==
  ASSUME RInv, S046Submit
  PROVE  NotYet /\ ~NotYet'
<1>1. phase = "body" /\ Selected(cli)[at] = "S046" /\ mid = "start"
  BY DEF S046Submit, Wired, InBody
<1>2. at \in 1..Len(Selected(cli)) /\ Len(Selected(cli)) \in Nat
  BY <1>1, SelectedIsKept DEF RInv, RunnerTypeOK
<1>3. NotYet
  BY <1>1, <1>2 DEF NotYet, Ahead
<1>4. /\ cli' = cli /\ at' = at
      /\ phase' = "stopping" \/ mid' = "inserted"
  BY DEF S046Submit, Ends, BodyReturns, Reach, runnerVars
<1>5. \A n \in 1..Len(Selected(cli)) : Selected(cli)[n] = "S046" => n = at
  BY <1>1, <1>2, SelectedOnce
<1>6. \A n \in Ahead' : n \in 1..Len(Selected(cli)) /\ n > at
  BY <1>2, <1>4 DEF Ahead
<1>7. ~NotYet'
  BY <1>2, <1>4, <1>5, <1>6 DEF NotYet
<1> QED
  BY <1>3, <1>7

-----------------------------------------------------------------------------
(* The chain has room for the draft.                                       *)

LEMMA NoneInTip == ChainOK /\ NoneHolds => ~Holding(Tip)
<1> SUFFICES ASSUME ChainOK, NoneHolds PROVE ~Holding(Tip)
  OBVIOUS
<1>1. CASE \A p \in Places : Tip[p] = Empty
  BY <1>1, ScenariosAssumption DEF Holding
<1>2. CASE \E h \in 1..Len(blocks) : Tip = blocks[h]
  BY <1>2 DEF NoneHolds
<1> QED
  BY <1>1, <1>2, TipIsOneOf

\* The tree with the draft's leaf in it.
LEMMA SubmittedTree ==
  ASSUME ChainOK, S046Submit, Free(Tip) # {}
  PROVE  /\ [Tip EXCEPT ![NextPlace(Tip)] = Mine] \in Trees
         /\ blocks' = Append(blocks, [Tip EXCEPT ![NextPlace(Tip)] = Mine])
         /\ NextPlace(Tip) \in Places
         /\ [Tip EXCEPT ![NextPlace(Tip)] = Mine][NextPlace(Tip)] = Mine
         /\ \A q \in Places \ {NextPlace(Tip)} : [Tip EXCEPT ![NextPlace(Tip)] = Mine][q] = Tip[q]
<1>1. Tip \in Trees /\ Mine \in Leaves
  BY TipIsTree, ScenariosAssumption
<1>2. NextPlace(Tip) \in Places
  BY NextPlaceFree
<1>3. blocks' = Append(blocks, [Tip EXCEPT ![NextPlace(Tip)] = Mine])
  BY DEF S046Submit
<1> QED
  BY <1>1, <1>2, <1>3 DEF Trees

LEMMA BlocksSteps ==
  ASSUME [Step]_vars
  PROVE  UNCHANGED blocks \/ OthersBlock \/ S046Submit
<1>1. CASE Main \/ Panic \/ FinalizeBlock \/ PostBatch \/ UNCHANGED vars
  BY <1>1 DEF Main, Panic, FinalizeBlock, PostBatch, vars, chainVars
<1>2. CASE S030 \/ S049
  BY <1>2 DEF S030, S049, Refusal, Faults, chainVars
<1>3. CASE Unwired \/ S045Sees \/ S045 \/ Deadlines
  BY <1>3 DEF Unwired, S045Sees, S045, Deadlines, Faults, chainVars
<1>4. CASE S046Path \/ S046
  BY <1>4 DEF S046Path, S046, chainVars
<1> QED
  BY <1>1, <1>2, <1>3, <1>4 DEF Step, Suite

LEMMA RoomInit == Init => Room
<1> SUFFICES ASSUME Init PROVE Room
  OBVIOUS
<1>1. blocks = <<>> /\ Len(blocks) = 0
  BY DEF Init
<1>2. Tip = [p \in Places |-> Empty]
  BY <1>1 DEF Tip
<1>3. 0 \in Free(Tip)
  <2>1. Places = 0..1
    BY ScenariosAssumption
  <2>2. 0 \in Places
    BY <2>1
  <2> QED
    BY <1>2, <2>2 DEF Free
<1>4. MaxBlocks \in Nat \ {0}
  BY ScenariosAssumption
<1> QED
  BY <1>1, <1>3, <1>4 DEF Room, NoneHolds

LEMMA RoomStep ==
  ASSUME RInv, ChainOK, Room, [Step]_vars
  PROVE  Room'
<1>0. MaxBlocks \in Nat /\ Len(blocks) \in Nat
  <2>1. blocks \in Seq(Trees)
    BY DEF ChainOK
  <2>2. MaxBlocks \in Nat \ {0}
    BY ScenariosAssumption
  <2> QED
    BY <2>1, <2>2
<1>1. NotYet' => NotYet
  BY NotYetBefore
<1>2. CASE UNCHANGED blocks
  <2>1. Tip' = Tip /\ NoneHolds' = NoneHolds
    BY <1>2 DEF Tip, NoneHolds
  <2>2. Free(Tip)' = Free(Tip) /\ Holding(Tip)' = Holding(Tip)
    BY <2>1 DEF Free, Holding
  <2> QED
    BY <1>1, <1>2, <2>1, <2>2 DEF Room
<1>3. CASE OthersBlock
  <2>1. PICK tree \in Trees :
           /\ blocks' = Append(blocks, tree)
           /\ \A p \in Places : tree[p] = Mine <=> Tip[p] = Mine
           /\ ~Holding(Tip) /\ Free(Tip) # {} => Free(tree) # {}
    BY <1>3, OthersTree
  <2>2. /\ Tip' = tree /\ Len(blocks') = Len(blocks) + 1
        /\ \A h \in 1..Len(blocks) : blocks'[h] = blocks[h]
        /\ blocks'[Len(blocks) + 1] = tree
    BY <2>1, Appended
  <2>3. Holding(Tip)' <=> Holding(Tip)
    BY <2>1, <2>2 DEF Holding
  <2>4. Free(Tip)' = Free(tree)
    BY <2>2 DEF Free
  <2>5. Len(blocks) + (IF Holding(Tip) THEN 0 ELSE 1) < MaxBlocks
    BY <1>3 DEF OthersBlock
  <2>6. ASSUME NotYet' PROVE NoneHolds'
    <3>1. NoneHolds /\ ~Holding(tree)
      <4>1. NoneHolds
        BY <1>1, <2>6 DEF Room
      <4>2. ~Holding(Tip)
        BY <4>1, NoneInTip
      <4> QED
        BY <2>1, <4>1, <4>2 DEF Holding
    <3>2. ASSUME NEW h \in 1..Len(blocks') PROVE ~Holding(blocks'[h])
      <4>1. h \in 1..Len(blocks) \/ h = Len(blocks) + 1
        BY <1>0, <2>2
      <4> QED
        BY <2>2, <3>1, <4>1 DEF NoneHolds
    <3>3. \A h \in 1..Len(blocks') : Holding(blocks[h])' <=> Holding(blocks'[h])
      BY DEF Holding
    <3> QED
      BY <3>2, <3>3 DEF NoneHolds
  <2> QED
    BY <1>0, <2>1, <2>2, <2>3, <2>4, <2>5, <2>6 DEF Room
<1>4. CASE S046Submit
  <2>1. NotYet /\ ~NotYet'
    BY <1>4, SubmitsOnce
  <2>2. ~Holding(Tip) /\ Free(Tip) # {} /\ Len(blocks) < MaxBlocks
    BY <2>1, NoneInTip DEF Room
  <2> DEFINE p == NextPlace(Tip)
             tree == [Tip EXCEPT ![p] = Mine]
  <2>3. tree \in Trees /\ blocks' = Append(blocks, tree) /\ p \in Places /\ tree[p] = Mine
    BY <1>4, <2>2, SubmittedTree
  <2>4. Tip' = tree /\ Len(blocks') = Len(blocks) + 1
    <3> HIDE DEF tree
    <3> QED
      BY <2>3, Appended
  <2>5. Holding(Tip)'
    BY <2>3, <2>4 DEF Holding
  <2> QED
    BY <1>0, <2>1, <2>2, <2>4, <2>5 DEF Room
<1> QED
  BY <1>2, <1>3, <1>4, BlocksSteps

-----------------------------------------------------------------------------
(* What an honest node says holds.                                         *)

\* The logs of the receipt are read as what they say.
LEMMA OwnLeaf ==
  ASSUME NextPlace(Tip) \in Places
  PROVE  /\ leaf_inserted(OwnLogs) = [place |-> NextPlace(Tip), leaf |-> Mine]
         /\ leaf_inserted(OwnLogs) # Nothing
<1> DEFINE first == [from |-> "SpendingUnit", event |-> "Minted", topics |-> 3, size |-> 32, place |-> 0, leaf |-> Empty]
           second == [from |-> "TributeDraft", event |-> "LeafInserted", topics |-> 3, size |-> 32,
                      place |-> NextPlace(Tip), leaf |-> Mine]
           own == {i \in DOMAIN OwnLogs : OwnLogs[i].from = "TributeDraft" /\ OwnLogs[i].event = "LeafInserted"}
<1>1. OwnLogs = <<first, second>>
  BY DEF OwnLogs
<1>2. first.from = "SpendingUnit" /\ second.from = "TributeDraft" /\ second.event = "LeafInserted"
      /\ second.topics = 3 /\ second.size = 32 /\ second.place = NextPlace(Tip) /\ second.leaf = Mine
  OBVIOUS
<1>3. DOMAIN OwnLogs = 1..2 /\ OwnLogs[1] = first /\ OwnLogs[2] = second
  <2> HIDE DEF first, second
  <2> QED
    BY <1>1
<1>4. own = {2}
  <2> HIDE DEF first, second
  <2>1. \A i \in 1..2 : i = 1 \/ i = 2
    OBVIOUS
  <2> QED
    BY <1>2, <1>3, <2>1
<1>5. (CHOOSE i \in own : \A j \in own : i <= j) = 2
  <2>1. \E i \in own : \A j \in own : i <= j
    BY <1>4
  <2> QED
    BY <1>4, <2>1
<1>6. leaf_inserted(OwnLogs) = [place |-> NextPlace(Tip), leaf |-> Mine]
  <2> HIDE DEF first, second
  <2>1. own # {} /\ ~(second.topics < 3) /\ ~(second.size < 32)
    BY <1>2, <1>4
  <2> QED
    BY <1>2, <1>3, <1>5, <2>1 DEF leaf_inserted
<1>7. [place |-> NextPlace(Tip), leaf |-> Mine] \in [place : Places, leaf : Leaves]
  BY ScenariosAssumption
<1> QED
  BY <1>6, <1>7, NothingAssumption

\* The path at a finalized block with the draft's leaf leads there.
LEMMA OwnPathHolds ==
  ASSUME ChainOK, final > 0, Holding(blocks[final]),
         heard.leaf.leaf = Mine, heard.leaf.place \in Places, Stands(heard.leaf.place)
  PROVE  PathHolds(heard.leaf, PathAt(final)) /\ final \in 1..Len(blocks)
<1>1. final \in 1..Len(blocks) /\ blocks \in Seq(Trees)
  BY DEF ChainOK
<1>2. blocks[final] \in [Places -> Leaves]
  BY <1>1 DEF Trees
<1>3. blocks[final][heard.leaf.place] = Mine
  BY <1>1 DEF Holding, Stands
<1>4. [blocks[final] EXCEPT ![heard.leaf.place] = heard.leaf.leaf] = blocks[final]
  BY <1>2, <1>3
<1>5. PathAt(final).siblings = blocks[final] /\ PathAt(final).root = blocks[final]
  BY DEF PathAt
<1>6. DOMAIN blocks[final] = Places
  BY <1>2
<1> QED
  BY <1>1, <1>4, <1>5, <1>6 DEF PathHolds, root_from_inclusion_path

\* The certificate of a finalized block holds for the path at that block.
LEMMA OwnCertHolds ==
  ASSUME ChainOK, Len(blocks) <= MaxBlocks, NEW path, path.block \in 1..final, path.root = blocks[path.block]
  PROVE  CertHolds(path, CertOf(path.block))
<1> DEFINE h == path.block
           sig == Sign(Committee, Chain, Round(h), Digest(Preimage(h)))
<1>1. h \in 1..MaxBlocks /\ h \in 1..Len(blocks) /\ blocks[h] \in Trees
  <2>1. blocks \in Seq(Trees) /\ final \in 0..Len(blocks) /\ Len(blocks) \in Nat
    BY DEF ChainOK
  <2>2. h \in 1..Len(blocks)
    BY <2>1
  <2>3. MaxBlocks \in Nat \ {0}
    BY ScenariosAssumption
  <2>4. h \in 1..MaxBlocks
    BY <2>1, <2>2, <2>3
  <2> QED
    BY <2>1, <2>2, <2>4
<1>2. /\ CertOf(h).pre = Preimage(h) /\ CertOf(h).tip = Digest(Preimage(h))
      /\ CertOf(h).round = Round(h) /\ CertOf(h).sig = sig
  BY DEF CertOf, Finalized
<1>3. Preimage(h).r = path.root
  BY DEF Preimage
<1>4. sig # Nothing
  <2>1. Preimage(h) = [height |-> h, parent |-> h - 1, r |-> blocks[h]]
    BY DEF Preimage
  <2> HIDE DEF h
  <2> QED
    BY <1>1, <2>1, NothingAssumption
<1>5. g2_eip2537_to_compressed(GroupPubKey) = Committee /\ Committee # Nothing
  BY NothingAssumption DEF g2_eip2537_to_compressed, GroupPubKey
<1>6. sig = [key |-> Committee, namespace |-> finalize_namespace(Chain),
             message |-> proposal_bytes(Round(h), Digest(Preimage(h)))]
  BY DEF Sign
<1> HIDE DEF sig, h
<1>7. CertBinds(path, CertOf(h))
  BY <1>2, <1>3 DEF CertBinds
<1>8. verify_finalize_cert(GroupPubKey, Chain, CertOf(h).round, CertOf(h).tip, CertOf(h).sig)
  BY <1>2, <1>4, <1>5, <1>6 DEF verify_finalize_cert
<1> QED
  BY <1>7, <1>8 DEF CertHolds, h

\* A step that leaves the leaf standing where it stands.
LEMMA StandsStep ==
  ASSUME ChainOK, [Step]_vars, ~S046Submit, NEW p, Stands(p)
  PROVE  Stands(p)'
<1>1. CASE UNCHANGED blocks
  BY <1>1 DEF Stands
<1>2. CASE OthersBlock
  <2>1. PICK tree \in Trees :
           /\ blocks' = Append(blocks, tree)
           /\ \A q \in Places : tree[q] = Mine <=> Tip[q] = Mine
    BY <1>2, OthersTree
  <2>2. /\ Len(blocks) \in Nat /\ Len(blocks') = Len(blocks) + 1
        /\ \A h \in 1..Len(blocks) : blocks'[h] = blocks[h]
        /\ blocks'[Len(blocks) + 1] = tree
    BY <2>1, Appended
  <2>3. \A q \in Places : Tip[q] = Mine => q = p
    <3>1. CASE \A q \in Places : Tip[q] = Empty
      BY <3>1, ScenariosAssumption
    <3>2. CASE \E h \in 1..Len(blocks) : Tip = blocks[h]
      BY <3>2 DEF Stands
    <3> QED
      BY <3>1, <3>2, TipIsOneOf
  <2>4. ASSUME NEW h \in 1..Len(blocks'), NEW q \in Places, blocks'[h][q] = Mine PROVE q = p
    <3>1. h \in 1..Len(blocks) \/ h = Len(blocks) + 1
      BY <2>2
    <3> QED
      BY <2>1, <2>2, <2>3, <2>4, <3>1 DEF Stands
  <2> QED
    BY <2>4 DEF Stands
<1> QED
  BY <1>1, <1>2, BlocksSteps

LEMMA NodeStays ==
  ASSUME [Step]_vars
  PROVE  node' = node
<1>1. CASE Main \/ Panic \/ OthersBlock \/ FinalizeBlock \/ PostBatch \/ UNCHANGED vars
  BY <1>1 DEF Main, Panic, OthersBlock, FinalizeBlock, PostBatch, vars, chainVars
<1>2. CASE S030 \/ S049
  BY <1>2 DEF S030, S049, Refusal, Faults, chainVars
<1>3. CASE Unwired \/ S045Sees \/ S045 \/ Deadlines
  BY <1>3 DEF Unwired, S045Sees, S045, Deadlines, Faults, chainVars
<1>4. CASE S046Submit \/ S046Path \/ S046
  BY <1>4 DEF S046Submit, S046Path, S046, chainVars
<1> QED
  BY <1>1, <1>2, <1>3, <1>4 DEF Step, Suite

LEMMA HeardSteps ==
  ASSUME [Step]_vars
  PROVE  \/ mid' = mid /\ heard' = heard /\ ~S046Submit
         \/ mid' \in {"start", "epoch"} /\ ~S046Submit
         \/ S046Submit
         \/ S046Path
<1> USE DEF Ends, Reach, Faults
<1>1. CASE Main \/ Panic \/ OthersBlock \/ FinalizeBlock \/ PostBatch \/ UNCHANGED vars
  BY <1>1 DEF Main, Panic, OthersBlock, FinalizeBlock, PostBatch, vars, bodyVars
<1>2. CASE S030 \/ S049
  BY <1>2 DEF S030, S049, Refusal
<1>3. CASE Unwired \/ S045Sees \/ S045 \/ Deadlines
  BY <1>3 DEF Unwired, S045Sees, S045, Deadlines
<1>4. CASE S046
  BY <1>4 DEF S046
<1> QED
  BY <1>1, <1>2, <1>3, <1>4 DEF Step, Suite

LEMMA HonestInit == Init => Honest
  BY DEF Init, Honest

\* The receipt of a draft that is submitted for the first time.
LEMMA SubmitHonest ==
  ASSUME RInv, ChainOK, Room, S046Submit, node = "honest"
  PROVE  /\ Reach("inserted", [leaf |-> [place |-> NextPlace(Tip), leaf |-> Mine], path |-> Nothing])
         /\ NextPlace(Tip) \in Places
         /\ \A h \in 1..Len(blocks') : \A q \in Places : blocks'[h][q] = Mine => q = NextPlace(Tip)
<1>1. NotYet
  BY SubmitsOnce
<1>2. NoneHolds /\ ~Holding(Tip) /\ Free(Tip) # {}
  BY <1>1, NoneInTip DEF Room
<1> DEFINE p == NextPlace(Tip)
           tree == [Tip EXCEPT ![p] = Mine]
<1>3. /\ tree \in Trees /\ blocks' = Append(blocks, tree) /\ p \in Places
      /\ \A q \in Places \ {p} : tree[q] = Tip[q]
  BY <1>2, SubmittedTree
<1>4. /\ Len(blocks) \in Nat /\ Len(blocks') = Len(blocks) + 1
      /\ \A h \in 1..Len(blocks) : blocks'[h] = blocks[h]
      /\ blocks'[Len(blocks) + 1] = tree
  <2> HIDE DEF tree
  <2> QED
    BY <1>3, Appended
<1>5. ASSUME NEW h \in 1..Len(blocks'), NEW q \in Places, blocks'[h][q] = Mine PROVE q = p
  <2>1. h \in 1..Len(blocks) \/ h = Len(blocks) + 1
    BY <1>4
  <2>2. CASE h \in 1..Len(blocks)
    BY <1>2, <1>4, <1>5, <2>2 DEF NoneHolds, Holding
  <2>3. CASE h = Len(blocks) + 1
    <3> HIDE DEF tree
    <3> QED
      BY <1>2, <1>3, <1>4, <1>5, <2>3 DEF Holding
  <2> QED
    BY <2>1, <2>2, <2>3
<1>6. leaf_inserted(OwnLogs) = [place |-> p, leaf |-> Mine] /\ leaf_inserted(OwnLogs) # Nothing
  BY <1>3, OwnLeaf
<1>7. PICK logs \in {OwnLogs} \cup (IF node = "lying" THEN MadeUpLogs ELSE {}) :
        leaf_inserted(logs) # Nothing => Reach("inserted", [leaf |-> leaf_inserted(logs), path |-> Nothing])
  BY DEF S046Submit
<1>8. logs = OwnLogs
  BY <1>7
<1> QED
  BY <1>3, <1>5, <1>6, <1>7, <1>8

LEMMA HonestStep ==
  ASSUME RInv, ChainOK, Room, Honest, [Step]_vars
  PROVE  Honest'
<1>1. node' = node
  BY NodeStays
<1> SUFFICES ASSUME node = "honest" PROVE Honest'
  BY <1>1 DEF Honest
<1>2. ChainOK' /\ ChainGrows
  BY StepGrows
<1>3. CASE mid' = mid /\ heard' = heard /\ ~S046Submit
  <2>1. ASSUME mid \in {"inserted", "proved"}
        PROVE  heard'.leaf.leaf = Mine /\ heard'.leaf.place \in Places /\ Stands(heard.leaf.place)'
    <3>1. heard.leaf.leaf = Mine /\ heard.leaf.place \in Places /\ Stands(heard.leaf.place)
      BY <2>1 DEF Honest
    <3> DEFINE p == heard.leaf.place
    <3>2. p' = p /\ heard'.leaf = heard.leaf
      BY <1>3
    <3>3. \A h \in 1..Len(blocks') : \A q \in Places : blocks'[h][q] = Mine => q = p
      <4>1. PICK x : x = p
        OBVIOUS
      <4>2. Stands(x)'
        BY <1>3, <3>1, <4>1, StandsStep
      <4> QED
        BY <4>1, <4>2 DEF Stands
    <3> QED
      BY <3>1, <3>2, <3>3 DEF Stands
  <2>2. ASSUME mid = "proved"
        PROVE  heard'.path.block \in 1..final' /\ heard'.path.root = blocks'[heard'.path.block]
    <3>1. heard.path.block \in 1..final /\ heard.path.root = blocks[heard.path.block]
      BY <2>2 DEF Honest
    <3>2. final \in 0..Len(blocks) /\ Len(blocks) \in Nat /\ final <= final' /\ final' \in Nat
      BY <1>2 DEF ChainOK, ChainGrows
    <3>3. heard.path.block \in 1..Len(blocks) /\ heard.path.block \in 1..final'
      BY <3>1, <3>2
    <3>4. blocks'[heard.path.block] = blocks[heard.path.block]
      BY <1>2, <3>3 DEF ChainGrows
    <3> QED
      BY <1>3, <3>1, <3>3, <3>4
  <2> QED
    BY <1>3, <2>1, <2>2 DEF Honest
<1>4. CASE mid' \in {"start", "epoch"}
  BY <1>4 DEF Honest
<1>5. CASE S046Submit
  <2>1. /\ Reach("inserted", [leaf |-> [place |-> NextPlace(Tip), leaf |-> Mine], path |-> Nothing])
        /\ NextPlace(Tip) \in Places
        /\ \A h \in 1..Len(blocks') : \A q \in Places : blocks'[h][q] = Mine => q = NextPlace(Tip)
    BY <1>5, SubmitHonest
  <2>2. mid' = "inserted" /\ heard'.leaf.place = NextPlace(Tip) /\ heard'.leaf.leaf = Mine
    BY <2>1 DEF Reach
  <2>3. Stands(heard.leaf.place)'
    BY <2>1, <2>2 DEF Stands
  <2> QED
    BY <2>1, <2>2, <2>3 DEF Honest
<1>6. CASE S046Path
  <2>1. mid = "inserted" /\ UNCHANGED <<blocks, final>>
    BY <1>6 DEF S046Path, InBody, chainVars
  <2>2. heard.leaf.leaf = Mine /\ heard.leaf.place \in Places /\ Stands(heard.leaf.place)
    BY <2>1 DEF Honest
  <2>3. final > 0 /\ Holding(blocks[final])
        /\ (PathHolds(heard.leaf, PathAt(final)) =>
              Reach("proved", [leaf |-> heard.leaf, path |-> [root |-> PathAt(final).root, block |-> PathAt(final).block]]))
    BY <1>6 DEF S046Path
  <2>4. PathHolds(heard.leaf, PathAt(final)) /\ final \in 1..Len(blocks)
    BY <2>2, <2>3, OwnPathHolds
  <2>5. mid' = "proved"
        /\ heard' = [leaf |-> heard.leaf, path |-> [root |-> PathAt(final).root, block |-> PathAt(final).block]]
    BY <2>3, <2>4 DEF Reach
  <2>6. heard'.leaf = heard.leaf
        /\ heard'.path = [root |-> PathAt(final).root, block |-> PathAt(final).block]
    BY <2>5
  <2>7. heard'.path.block = final /\ heard'.path.root = blocks[final]
    BY <2>6 DEF PathAt
  <2>8. final \in 1..final
    BY <2>4
  <2>9. Stands(heard.leaf.place)'
    <3>1. \A h \in 1..Len(blocks') : \A q \in Places : blocks'[h][q] = Mine => q = heard.leaf.place
      BY <2>1, <2>2 DEF Stands
    <3> QED
      BY <2>6, <3>1 DEF Stands
  <2> QED
    BY <2>1, <2>2, <2>5, <2>6, <2>7, <2>8, <2>9 DEF Honest
<1> QED
  BY <1>3, <1>4, <1>5, <1>6, HeardSteps

-----------------------------------------------------------------------------
(* A failure has its reason.                                               *)

LEMMA SmallSteps ==
  ASSUME RInv, [Step]_vars
  PROVE  /\ posted' \in {posted, TRUE}
         /\ mid' \in {mid, "start", "epoch", "inserted", "proved"}
         /\ \/ faulted' = faulted
            \/ faulted' = faulted \cup {Selected(cli)[at]} /\ at \in 1..Len(Selected(cli))
<1> USE DEF Ends, Reach
<1>1. phase = "body" => at \in 1..Len(Selected(cli))
  BY SelectedIsKept DEF RInv, RunnerTypeOK
<1>2. ASSUME NEW id, Faults(id), NEW m, InBody(id, m)
      PROVE  posted' = posted /\ mid' = "start" /\ faulted' = faulted \cup {Selected(cli)[at]} /\ phase = "body"
  BY <1>2 DEF Faults, InBody, chainVars
<1>3. CASE Main
  <2>1. PreStart => at \in 1..Len(Selected(cli))
    BY SelectedIsKept DEF PreStart, RInv, RunnerTypeOK
  <2> QED
    BY <1>3, <2>1 DEF Main, chainVars
<1>4. CASE Panic \/ OthersBlock \/ FinalizeBlock \/ PostBatch \/ UNCHANGED vars
  BY <1>4 DEF Panic, OthersBlock, FinalizeBlock, PostBatch, vars, bodyVars, chainVars
<1>5. CASE S030 \/ S049
  BY <1>1, <1>2, <1>5 DEF S030, S049, Refusal, chainVars
<1>6. CASE Unwired \/ S045Sees \/ S045
  BY <1>6 DEF Unwired, S045Sees, S045, chainVars
<1>7. CASE Deadlines
  BY <1>1, <1>2, <1>7 DEF Deadlines, Wired
<1>8. CASE S046Submit \/ S046Path
  BY <1>8 DEF S046Submit, S046Path, chainVars
<1>9. CASE S046
  BY <1>9 DEF S046, chainVars
<1> QED
  BY <1>3, <1>4, <1>5, <1>6, <1>7, <1>8, <1>9 DEF Step, Suite

LEMMA PlainStep ==
  ASSUME RInv, Plain, [Step]_vars
  PROVE  Plain'
<1>1. \A n \in 1..Len(Selected(cli)) : Selected(cli)[n] \in Ids
  <2>1. Selected(cli) \in Seq(Ids)
    BY SelectedIsKept
  <2> QED
    BY <2>1
<1> QED
  BY <1>1, NodeStays, SmallSteps DEF Plain

LEMMA NewFailures ==
  ASSUME RInv, HarnessNext \/ UNCHANGED runnerVars, NEW id, FailedNow(id)'
  PROVE  \/ FailedNow(id)
         \/ phase = "body" /\ BodyReturns("fail") /\ id = Selected(cli)[at]
         \/ PreStart /\ outcome' = "fail" /\ id = Selected(cli)[at]
<1> USE DEF FailedNow, Row
<1>1. CASE UNCHANGED runnerVars
  BY <1>1 DEF runnerVars
<1>2. CASE ReadArgs \/ Bootstrap \/ PrintReport \/ Finish \/ BodyPanics
  BY <1>2 DEF ReadArgs, Bootstrap, PrintReport, Finish, BodyPanics, Goes, Exit
<1>3. CASE PreStart
  BY <1>3 DEF PreStart, RInv
<1>4. CASE PostStop
  <2>1. results \in Seq([id : Ids, outcome : {"pass", "fail"}])
    BY DEF RInv, RunnerTypeOK
  <2>2. results' = Append(results, [id |-> Selected(cli)[at], outcome |-> outcome]) /\ phase = "stopping" /\ phase' = "next"
    BY <1>4 DEF PostStop
  <2>3. DOMAIN results' = 1..(Len(results) + 1) /\ DOMAIN results = 1..Len(results) /\ Len(results) \in Nat
        /\ results'[Len(results) + 1] = [id |-> Selected(cli)[at], outcome |-> outcome]
        /\ \A i \in 1..Len(results) : results'[i] = results[i]
    BY <2>1, <2>2
  <2> QED
    BY <2>2, <2>3
<1>5. CASE WriteFile("json", "junit") \/ WriteFile("junit", "done")
  BY <1>5 DEF WriteFile, Goes, Exit
<1>6. ASSUME NEW o \in {"pass", "fail"}, BodyReturns(o)
      PROVE  FailedNow(id) \/ (phase = "body" /\ BodyReturns("fail") /\ id = Selected(cli)[at])
  BY <1>6 DEF BodyReturns
<1> QED
  BY <1>1, <1>2, <1>3, <1>4, <1>5, <1>6 DEF HarnessNext, MainStep

\* Only the scenario that runs is shown anything.
LEMMA ShownSteps ==
  ASSUME [Step]_vars, DOMAIN shown = Ids, NEW id \in Ids
  PROVE  shown'[id] = shown[id] \/ (phase = "body" /\ id = Selected(cli)[at])
<1> USE DEF Shows, Reach, Faults, InBody
<1>1. CASE Main \/ Panic \/ OthersBlock \/ FinalizeBlock \/ PostBatch \/ UNCHANGED vars
  BY <1>1 DEF Main, Panic, OthersBlock, FinalizeBlock, PostBatch, vars, bodyVars
<1>2. CASE S030 \/ S049
  BY <1>2 DEF S030, S049, Refusal
<1>3. CASE Unwired \/ S045Sees \/ S045 \/ Deadlines
  BY <1>3 DEF Unwired, S045Sees, S045, Deadlines
<1>4. CASE S046Submit \/ S046Path
  BY <1>4 DEF S046Submit, S046Path
<1>5. CASE S046
  BY <1>5 DEF S046
<1> QED
  BY <1>1, <1>2, <1>3, <1>4, <1>5 DEF Step, Suite

\* s030:46-50: the typed error is looked for where the node quotes the revert.
LEMMA S030WantsThis ==
  ASSUME NEW reply \in AgentsReplies, reply.cause = "AttesterNotActive"
  PROVE  S030Wants(reply.err)
<1>1. PICK b \in Reverts : \E t \in RevertTexts(b) :
        reply = [cause |-> b.selector, err |-> [is |-> "Contract", text |-> t]]
  BY DEF AgentsReplies
<1> DEFINE t == reply.err.text
<1>0. t \in RevertTexts(b) /\ reply.cause = b.selector /\ reply.err.is = "Contract"
  BY <1>1
<1> HIDE DEF t
<1>2. b = RevertOf("AttesterNotActive", Address)
  BY <1>0 DEF Reverts, RevertOf
<1>3. t \in Text
  BY <1>0, RevertTextHolds
<1>4. decode_text(t) = decode_from_bytes(b)
  <2>1. Data(b).is = "data" /\ Data(b).closed /\ Data(b).hex.even /\ Data(b).hex.bytes = b
        /\ Word("to:").is = "word" /\ Bytes("hex", AddressBytes).is = "hex"
    BY DEF Data, Word, Bytes
  <2>2. CASE t = <<Data(b)>>
    <3>1. DOMAIN t = 1..1 /\ t[1] = Data(b)
      BY <2>2
    <3>2. 1 \in DOMAIN t /\ \A j \in DOMAIN t : ~(j < 1)
      BY <3>1
    <3> QED
      BY <1>3, <2>1, <3>1, <3>2, QuotedRevertDecides
  <2>3. CASE t = <<Word("to:"), Bytes("hex", AddressBytes), Data(b)>>
    <3>1. DOMAIN t = 1..3 /\ t[1] = Word("to:") /\ t[2] = Bytes("hex", AddressBytes) /\ t[3] = Data(b)
      BY <2>3
    <3>2. 3 \in DOMAIN t /\ \A j \in DOMAIN t : j < 3 => j = 1 \/ j = 2
      BY <3>1
    <3> QED
      BY <1>3, <2>1, <3>1, <3>2, QuotedRevertDecides
  <2> QED
    BY <1>0, <2>2, <2>3 DEF RevertTexts
<1>5. decode_from_bytes(b) = Typed("AttesterNotActive", None)
  <2>1. "AttesterNotActive" \in StaticErrors /\ "AttesterNotActive" \in KnownErrors
    BY DEF StaticErrors, KnownErrors
  <2>2. Address \in Values
    BY ScenariosAssumption
  <2> QED
    BY <1>2, <2>1, <2>2, RevertRoundTrip
<1> QED
  BY <1>0, <1>4, <1>5 DEF S030Wants, into_pso_error, Typed, t

\* s049:60-72: a pool's refusal comes as a JSON-RPC error of its own code.
LEMMA S049WantsThis ==
  ASSUME NEW reply \in ActorReplies, reply.cause = "pool"
  PROVE  S049Wants(reply.err)
<1>1. \A b \in Reverts : b.selector # "pool"
  BY DEF Reverts, RevertOf
<1>2. reply = Refusing("pool", InvalidParams, PoolText, None)
  <2>1. ASSUME NEW b \in Reverts, NEW m, NEW d, NEW c, reply = Refusing(b.selector, c, m, d) PROVE FALSE
    BY <1>1, <2>1, RefusingSays
  <2> QED
    BY <2>1 DEF ActorReplies
<1>3. reply.err.code = InvalidParams /\ reply.err.data = None
  BY <1>2 DEF Refusing
<1> QED
  BY <1>3 DEF S049Wants, json_rpc_error_to_typed, Typed

\* Whoever fails on a node that serves its own chain has been given the reason.
LEMMA FailureExcused ==
  ASSUME RInv, EInv, Plain, Room, Honest, [Step]_vars, phase = "body", BodyReturns("fail")
  PROVE  Excused(Selected(cli)[at])'
<1> DEFINE this == Selected(cli)[at]
<1>1. /\ this \in Ids /\ DOMAIN shown = Ids /\ ChainOK
      /\ cli' = cli /\ at' = at /\ node' = node
      /\ phase' = "stopping" /\ outcome' = "fail"
  BY NoRowYet, NodeStays DEF EInv, BodyReturns
<1>2. this' = this
  BY <1>1
<1>3. \A o : Ends(o) => o = "fail"
  BY <1>1 DEF Ends, BodyReturns
<1>4. ~UNCHANGED runnerVars /\ \A m, x : ~Reach(m, x)
  BY <1>1 DEF runnerVars, Reach
<1>5. ASSUME NEW id, Faults(id), NEW m, InBody(id, m) PROVE Excused(this)'
  BY <1>2, <1>5 DEF Faults, InBody, Excused
<1>6. ~(Main \/ Panic \/ OthersBlock \/ FinalizeBlock \/ PostBatch \/ UNCHANGED vars)
  <2>1. ~MainStep
    BY DEF MainStep, ReadArgs, Bootstrap, PreStart, PostStop, PrintReport, WriteFile, Finish
  <2>2. ~BodyPanics
    BY <1>1 DEF BodyPanics, Exit
  <2> QED
    BY <1>4, <2>1, <2>2 DEF Main, Panic, OthersBlock, FinalizeBlock, PostBatch, vars
<1>7. CASE S030
  <2>1. this = "S030" /\ InBody("S030", "start")
    BY <1>7 DEF S030, Refusal, InBody
  <2>2. CASE Faults("S030")
    BY <1>5, <2>1, <2>2
  <2>3. CASE Shows("S030", "admitted")
    BY <1>1, <2>1, <2>3 DEF Shows, Excused
  <2>4. CASE \E reply \in AgentsReplies : ~S030Wants(reply.err) /\ Shows("S030", reply.cause)
    <3>1. PICK reply \in AgentsReplies : ~S030Wants(reply.err) /\ Shows("S030", reply.cause)
      BY <2>4
    <3>2. reply.cause # "AttesterNotActive"
      BY <3>1, S030WantsThis
    <3> QED
      BY <1>1, <2>1, <3>1, <3>2 DEF Shows, Excused
  <2> QED
    BY <1>3, <1>7, <2>2, <2>3, <2>4 DEF S030, Refusal
<1>8. CASE S049
  <2>1. this = "S049" /\ InBody("S049", "start")
    BY <1>8 DEF S049, Refusal, InBody
  <2>2. CASE Faults("S049")
    BY <1>5, <2>1, <2>2
  <2>3. CASE Shows("S049", "admitted")
    BY <1>1, <2>1, <2>3 DEF Shows, Excused
  <2>4. CASE \E reply \in ActorReplies : ~S049Wants(reply.err) /\ Shows("S049", reply.cause)
    <3>1. PICK reply \in ActorReplies : ~S049Wants(reply.err) /\ Shows("S049", reply.cause)
      BY <2>4
    <3>2. reply.cause # "pool"
      BY <3>1, S049WantsThis
    <3> QED
      BY <1>1, <2>1, <3>1, <3>2 DEF Shows, Excused
  <2> QED
    BY <1>3, <1>8, <2>2, <2>3, <2>4 DEF S049, Refusal
<1>9. CASE Unwired
  BY <1>1, <1>2, <1>9 DEF Unwired, InBody, Excused
<1>10. CASE S045Sees \/ S045
  BY <1>3, <1>4, <1>10 DEF S045Sees, S045
<1>11. CASE Deadlines
  BY <1>5, <1>11 DEF Deadlines, Wired
<1>12. CASE S046Submit \/ S046Path \/ S046
  <2>1. this = "S046"
    BY <1>12 DEF S046Submit, S046Path, S046, Wired, InBody
  <2>2. CASE node = "lying"
    BY <1>1, <1>2, <2>1, <2>2 DEF Excused
  <2>3. CASE node = "honest"
    <3>1. ~S046Submit
      BY <1>4, <2>3, <1>1, SubmitHonest
    <3>2. ~S046Path
      <4>1. SUFFICES ASSUME S046Path PROVE FALSE
        OBVIOUS
      <4>2. final > 0 /\ Holding(blocks[final]) /\ ~PathHolds(heard.leaf, PathAt(final)) /\ mid = "inserted"
        BY <1>4, <2>3, <4>1 DEF S046Path, InBody
      <4>3. heard.leaf.leaf = Mine /\ heard.leaf.place \in Places /\ Stands(heard.leaf.place)
        BY <2>3, <4>2 DEF Honest
      <4> QED
        BY <1>1, <4>2, <4>3, OwnPathHolds
    <3>3. ~S046
      <4>1. SUFFICES ASSUME S046 PROVE FALSE
        OBVIOUS
      <4>2. mid = "proved"
        BY <4>1 DEF S046, InBody
      <4>3. heard.path.block \in 1..final /\ heard.path.root = blocks[heard.path.block]
        BY <2>3, <4>2 DEF Honest
      <4>4. CertHolds(heard.path, CertOf(heard.path.block))
        BY <1>1, <4>3, OwnCertHolds DEF Room
      <4>5. ~(heard.path.block > final)
        BY <1>1, <4>3 DEF ChainOK
      <4>6. ~Ends("pass")
        BY <1>3
      <4> QED
        BY <2>3, <4>1, <4>4, <4>5, <4>6 DEF S046
    <3> QED
      BY <1>12, <3>1, <3>2, <3>3
  <2> QED
    BY <2>2, <2>3 DEF Plain
<1> QED
  BY <1>6, <1>7, <1>8, <1>9, <1>10, <1>11, <1>12 DEF Step, Suite

\* A scenario whose setup fails is one that a fault has hit.
LEMMA SetupExcused ==
  ASSUME RInv, [Step]_vars, PreStart, outcome' = "fail"
  PROVE  Excused(Selected(cli)[at])'
<1>1. phase = "next" /\ phase' # phase /\ at' = at /\ cli' = cli
  BY DEF PreStart
<1>2. ~UNCHANGED runnerVars /\ phase # "body"
  BY <1>1 DEF runnerVars
<1>3. Main
  <2> USE DEF InBody, Wired
  <2>1. ~(Panic \/ OthersBlock \/ FinalizeBlock \/ PostBatch \/ UNCHANGED vars)
    BY <1>2 DEF Panic, BodyPanics, OthersBlock, FinalizeBlock, PostBatch, Watches, vars
  <2>2. ~(S030 \/ S049)
    BY <1>2 DEF S030, S049, Refusal
  <2>3. ~(Unwired \/ S045Sees \/ S045 \/ Deadlines)
    BY <1>2 DEF Unwired, S045Sees, S045, Deadlines
  <2>4. ~(S046Submit \/ S046Path \/ S046)
    BY <1>2 DEF S046Submit, S046Path, S046
  <2> QED
    BY <2>1, <2>2, <2>3, <2>4 DEF Step, Suite
<1>4. faulted' = faulted \cup {Selected(cli)[at]}
  BY <1>3 DEF Main
<1> QED
  BY <1>1, <1>4 DEF Excused

LEMMA ExcusesStay ==
  ASSUME RInv, EInv, [Step]_vars, NEW id \in Ids, FailedNow(id), Excused(id)
  PROVE  Excused(id)'
<1>1. ~(phase = "body" /\ id = Selected(cli)[at])
  BY NoRowYet DEF FailedNow
<1>2. shown'[id] = shown[id]
  BY <1>1, ShownSteps DEF EInv
<1>3. cli' = cli /\ node' = node /\ faulted \subseteq faulted'
  <2>1. HarnessNext \/ UNCHANGED runnerVars
    BY BodyStep DEF Step, vars
  <2> QED
    BY <2>1, CliAndPlace, NodeStays, SmallSteps
<1> QED
  BY <1>2, <1>3 DEF Excused

LEMMA FInvInit == Init => FInv
<1> SUFFICES ASSUME Init PROVE FInv
  OBVIOUS
<1>1. Plain
  BY DEF Init, Plain
<1>2. results = <<>> /\ phase = "args"
  BY DEF Init, RunnerInit
<1>3. \A id \in Ids : ~FailedNow(id)
  BY <1>2 DEF FailedNow, Row
<1> QED
  BY <1>1, <1>3, RoomInit, HonestInit DEF FInv

LEMMA FInvStep == RInv /\ EInv /\ FInv /\ [Step]_vars => FInv'
<1> SUFFICES ASSUME RInv, EInv, FInv, [Step]_vars PROVE FInv'
  OBVIOUS
<1>1. Plain' /\ Room' /\ Honest'
  BY PlainStep, RoomStep, HonestStep DEF FInv, EInv
<1>2. ASSUME NEW id \in Ids, FailedNow(id)' PROVE Excused(id)'
  <2>1. HarnessNext \/ UNCHANGED runnerVars
    BY BodyStep DEF Step, vars
  <2>2. CASE FailedNow(id)
    BY <2>2, ExcusesStay DEF FInv
  <2>3. CASE phase = "body" /\ BodyReturns("fail") /\ id = Selected(cli)[at]
    <3>1. Excused(Selected(cli)[at])'
      BY <2>3, FailureExcused DEF FInv
    <3>2. Selected(cli')[at'] = id
      BY <2>3 DEF BodyReturns
    <3> QED
      BY <3>1, <3>2
  <2>4. CASE PreStart /\ outcome' = "fail" /\ id = Selected(cli)[at]
    <3>1. Excused(Selected(cli)[at])'
      BY <2>4, SetupExcused
    <3>2. Selected(cli')[at'] = id
      BY <2>4 DEF PreStart
    <3> QED
      BY <3>1, <3>2
  <2> QED
    BY <1>2, <2>1, <2>2, <2>3, <2>4, NewFailures
<1>3. Ids' = Ids
  OBVIOUS
<1> QED
  BY <1>1, <1>2 DEF FInv

LEMMA FInvHolds == Spec => [](RInv /\ EInv /\ FInv)
<1>1. RInv /\ EInv /\ FInv /\ [Step]_vars => FInv'
  BY FInvStep
<1> QED
  BY <1>1, FInvInit, EvidenceHolds, PTL DEF Spec

\* The state of a run is of its type, and the chain within its bound, although S046 submits
\* its draft without asking for room: the others have left it a block and a place.
THEOREM SuiteTypeAlways == Spec => []TypeOK
<1>1. RInv /\ EInv /\ FInv => TypeOK
  BY DEF TypeOK, RInv, EInv, FInv, Plain, Room, ChainOK
<1> QED
  BY <1>1, FInvHolds, PTL

\* A scenario that fails has been given a reason: a read that failed or a deadline, an L1
\* that is not there, a node that makes things up, or an answer that is not the refusal it
\* is about; s030:46-50, s046:97-189, s049:60-72.
THEOREM FailuresAreDeserved == Spec => []FailuresDeserved
<1>1. RInv /\ EInv /\ FInv => FailuresDeserved
  BY DEF FInv, FailedNow, Excused, FailuresDeserved
<1> QED
  BY <1>1, FInvHolds, PTL

=============================================================================
