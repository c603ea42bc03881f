------------------------------ MODULE DraftProofs ------------------------------
(***************************************************************************)
(* The TributeDraft scenarios on a node that lacks any of the checks, with *)
(* any number of faults: what a green run shows of the node, and that on   *)
(* one that makes every check a scenario fails for a fault of its own      *)
(* only, whatever others have left in the pool and whenever it lands.      *)
(***************************************************************************)
EXTENDS DraftScenarios, InductionProofs

\* The suites are the two of the model.
Known == \A n \in DOMAIN Suites : Suites[n] \in {FullSuite, RefusalSuite}

\* The zero address is nobody's hash and nobody's key.
NobodyElse ==
  /\ Nobody # Header.owner
  /\ \A id, owner, d : Nobody # DraftHash(id, owner, d)

-----------------------------------------------------------------------------
(* The scripts.                                                            *)

\* A step that files a record, mints a unit, waits for records, witnesses a unit, or tries
\* a draft that must be refused.
IsFile(s, r) == s.op = "file" /\ s.record = r
IsMint(s, ids, day, cur, rs) ==
  s.op = "mint" /\ s.ids = ids /\ s.day = day /\ s.currency = cur /\ s.recs = rs
IsWait(s, rs) == s.op = "waitRecords" /\ s.recs = rs
IsOwn(s, i) == s.op = "own" /\ s.nth = i
IsRefused(s, how, us, proof, wants) ==
  s.op = how /\ s.units = us /\ s.proof = proof /\ s.wants = wants

\* A full draft under name `a`, and what the scenario does with it at last.
IsFull(b, a, ids, last) ==
  /\ Len(b) = 15
  /\ IsFile(b[1], <<a, 1>>) /\ IsFile(b[2], <<a, 2>>) /\ IsFile(b[3], <<a, 3>>)
  /\ IsFile(b[4], <<a, 4>>) /\ IsFile(b[5], <<a, 5>>) /\ IsFile(b[6], <<a, 6>>)
  /\ IsWait(b[7], {<<a, n>> : n \in 1..6})
  /\ IsMint(b[8], ids, 1, "EUR", {<<a, 1>>, <<a, 2>>, <<a, 3>>})
  /\ IsMint(b[9], ids, 1, "EUR", {<<a, 4>>, <<a, 5>>, <<a, 6>>})
  /\ b[10].op = "waitUnits" /\ b[11].op = "newActor"
  /\ IsOwn(b[12], 1) /\ IsOwn(b[13], 2) /\ b[14].op = "submit"
  /\ b[15].op = last

\* A draft that must be refused: at once, over one unit, over two.
IsAlone(b, how, us, wants) == Len(b) = 1 /\ IsRefused(b[1], how, us, NoProof, wants)

IsOne(b, a, id, proof, wants) ==
  /\ Len(b) = 5
  /\ IsFile(b[1], <<a, id>>) /\ IsWait(b[2], {<<a, id>>})
  /\ IsMint(b[3], {id}, 1, "EUR", {<<a, id>>}) /\ b[4].op = "waitUnits"
  /\ IsRefused(b[5], "refused", Minted, proof, wants)

IsTwo(b, a, ids, day, cur, wants) ==
  /\ Len(b) = 9
  /\ IsFile(b[1], <<a, 1>>) /\ IsWait(b[2], {<<a, 1>>})
  /\ IsMint(b[3], ids, 1, "EUR", {<<a, 1>>}) /\ b[4].op = "waitUnits"
  /\ IsFile(b[5], <<a, 2>>) /\ IsWait(b[6], {<<a, 2>>})
  /\ IsMint(b[7], ids, day, cur, {<<a, 2>>}) /\ b[8].op = "waitUnits"
  /\ IsRefused(b[9], "refused", Minted, NoProof, wants)

LEMMA FullSteps ==
  ASSUME NEW a, NEW ids, NEW s
  PROVE  IsFull(FullDraft(a, ids) \o << s >>, a, ids, s.op)
<1> DEFINE f == FullDraft(a, ids)
           T == {f[i] : i \in 1..14} \cup {s}
<1>0. Len(f) = 14
  BY DEF FullDraft
<1>1. f \in Seq(T)
  <2>1. ASSUME NEW U, \A i \in 1..14 : f[i] \in U PROVE f \in Seq(U)
    BY <2>1 DEF FullDraft
  <2>2. \A i \in 1..14 : f[i] \in T
    OBVIOUS
  <2> HIDE DEF f, T
  <2> QED
    BY <2>1, <2>2
<1>2. << s >> \in Seq(T) /\ Len(<< s >>) = 1 /\ << s >>[1] = s
  OBVIOUS
<1>3. /\ IsFile(f[1], <<a, 1>>) /\ IsFile(f[2], <<a, 2>>) /\ IsFile(f[3], <<a, 3>>)
      /\ IsFile(f[4], <<a, 4>>) /\ IsFile(f[5], <<a, 5>>) /\ IsFile(f[6], <<a, 6>>)
  BY DEF FullDraft, File, IsFile
<1>4. IsWait(f[7], {<<a, n>> : n \in 1..6})
  BY DEF FullDraft, WaitRecords, IsWait
<1>5. /\ IsMint(f[8], ids, 1, "EUR", {<<a, 1>>, <<a, 2>>, <<a, 3>>})
      /\ IsMint(f[9], ids, 1, "EUR", {<<a, 4>>, <<a, 5>>, <<a, 6>>})
  BY DEF FullDraft, MintSU, IsMint
<1>6. /\ f[10].op = "waitUnits" /\ f[11].op = "newActor"
      /\ IsOwn(f[12], 1) /\ IsOwn(f[13], 2) /\ f[14].op = "submit"
  BY DEF FullDraft, WaitUnits, NewActor, Own, Submit, IsOwn
<1> HIDE DEF f, T
<1>7. /\ Len(f \o << s >>) = 15
      /\ \A j \in 1..15 : (f \o << s >>)[j] = IF j <= 14 THEN f[j] ELSE << s >>[j - 14]
  <2>1. /\ Len(f \o << s >>) = Len(f) + Len(<< s >>)
        /\ \A j \in 1..(Len(f) + Len(<< s >>)) :
             (f \o << s >>)[j] = IF j <= Len(f) THEN f[j] ELSE << s >>[j - Len(f)]
    BY <1>1, <1>2, Joined
  <2>2. Len(f) + Len(<< s >>) = 15
    BY <1>0, <1>2
  <2> QED
    BY <1>0, <2>1, <2>2
<1>8. PICK b : b = f \o << s >>
  OBVIOUS
<1>9. Len(b) = 15 /\ (\A j \in 1..14 : b[j] = f[j]) /\ b[15] = s
  BY <1>2, <1>7, <1>8
<1>10. /\ b[1] = f[1] /\ b[2] = f[2] /\ b[3] = f[3] /\ b[4] = f[4] /\ b[5] = f[5]
       /\ b[6] = f[6] /\ b[7] = f[7] /\ b[8] = f[8] /\ b[9] = f[9] /\ b[10] = f[10]
       /\ b[11] = f[11] /\ b[12] = f[12] /\ b[13] = f[13] /\ b[14] = f[14]
  BY <1>9
<1>11. IsFull(b, a, ids, s.op)
  BY <1>3, <1>4, <1>5, <1>6, <1>9, <1>10, Zenon DEF IsFull
<1> QED
  BY <1>8, <1>11 DEF f

LEMMA OneSteps ==
  ASSUME NEW a, NEW id, NEW proof, NEW wants
  PROVE  IsOne(OneUnit(a, id, 1, "EUR") \o << Refused("refused", Minted, proof, wants) >>,
               a, id, proof, wants)
<1> DEFINE f == OneUnit(a, id, 1, "EUR")
           s == Refused("refused", Minted, proof, wants)
           T == {f[i] : i \in 1..4} \cup {s}
<1>1. Len(f) = 4
  BY DEF OneUnit
<1>2. f \in Seq(T)
  <2>1. ASSUME NEW U, \A i \in 1..4 : f[i] \in U PROVE f \in Seq(U)
    BY <2>1 DEF OneUnit
  <2>2. \A i \in 1..4 : f[i] \in T
    OBVIOUS
  <2> HIDE DEF f, T
  <2> QED
    BY <2>1, <2>2
<1>3. << s >> \in Seq(T) /\ Len(<< s >>) = 1 /\ << s >>[1] = s
  OBVIOUS
<1>4. /\ IsFile(f[1], <<a, id>>) /\ IsWait(f[2], {<<a, id>>})
      /\ IsMint(f[3], {id}, 1, "EUR", {<<a, id>>}) /\ f[4].op = "waitUnits"
  BY DEF OneUnit, File, IsFile, WaitRecords, IsWait, MintSU, IsMint, WaitUnits
<1>5. IsRefused(s, "refused", Minted, proof, wants)
  BY DEF Refused, IsRefused
<1> HIDE DEF f, s, T
<1>6. /\ Len(f \o << s >>) = 5
      /\ \A j \in 1..5 : (f \o << s >>)[j] = IF j <= 4 THEN f[j] ELSE << s >>[j - 4]
  <2>1. /\ Len(f \o << s >>) = Len(f) + Len(<< s >>)
        /\ \A j \in 1..(Len(f) + Len(<< s >>)) :
             (f \o << s >>)[j] = IF j <= Len(f) THEN f[j] ELSE << s >>[j - Len(f)]
    BY <1>2, <1>3, Joined
  <2>2. Len(f) + Len(<< s >>) = 5
    BY <1>1, <1>3
  <2> QED
    BY <1>1, <2>1, <2>2
<1>7. PICK b : b = f \o << s >>
  OBVIOUS
<1>8. Len(b) = 5 /\ b[1] = f[1] /\ b[2] = f[2] /\ b[3] = f[3] /\ b[4] = f[4] /\ b[5] = s
  BY <1>3, <1>6, <1>7
<1>9. IsOne(b, a, id, proof, wants)
  BY <1>4, <1>5, <1>8, Zenon DEF IsOne
<1> QED
  BY <1>7, <1>9 DEF f, s

LEMMA TwoSteps ==
  ASSUME NEW a, NEW ids, NEW day, NEW cur, NEW wants
  PROVE  IsTwo(EitherUnit(a, ids, 1, 1, "EUR") \o EitherUnit(a, ids, 2, day, cur)
                 \o << Refused("refused", Minted, NoProof, wants) >>,
               a, ids, day, cur, wants)
<1> DEFINE f == EitherUnit(a, ids, 1, 1, "EUR")
           g == EitherUnit(a, ids, 2, day, cur)
           s == Refused("refused", Minted, NoProof, wants)
           T == {f[i] : i \in 1..4} \cup {g[i] : i \in 1..4} \cup {s}
<1>1. Len(f) = 4 /\ Len(g) = 4
  BY DEF EitherUnit
<1>2. f \in Seq(T) /\ g \in Seq(T)
  <2>1. ASSUME NEW U, \A i \in 1..4 : f[i] \in U PROVE f \in Seq(U)
    BY <2>1 DEF EitherUnit
  <2>2. ASSUME NEW U, \A i \in 1..4 : g[i] \in U PROVE g \in Seq(U)
    BY <2>2 DEF EitherUnit
  <2>3. \A i \in 1..4 : f[i] \in T /\ g[i] \in T
    OBVIOUS
  <2> HIDE DEF f, g, T
  <2> QED
    BY <2>1, <2>2, <2>3
<1>3. << s >> \in Seq(T) /\ Len(<< s >>) = 1 /\ << s >>[1] = s
  OBVIOUS
<1>4. /\ IsFile(f[1], <<a, 1>>) /\ IsWait(f[2], {<<a, 1>>})
      /\ IsMint(f[3], ids, 1, "EUR", {<<a, 1>>}) /\ f[4].op = "waitUnits"
  BY DEF EitherUnit, File, IsFile, WaitRecords, IsWait, MintSU, IsMint, WaitUnits
<1>5. /\ IsFile(g[1], <<a, 2>>) /\ IsWait(g[2], {<<a, 2>>})
      /\ IsMint(g[3], ids, day, cur, {<<a, 2>>}) /\ g[4].op = "waitUnits"
  BY DEF EitherUnit, File, IsFile, WaitRecords, IsWait, MintSU, IsMint, WaitUnits
<1>6. IsRefused(s, "refused", Minted, NoProof, wants)
  BY DEF Refused, IsRefused
<1> HIDE DEF f, g, s, T
<1>7. PICK h : h = f \o g
  OBVIOUS
<1>8. /\ h \in Seq(T) /\ Len(h) = 8
      /\ h[1] = f[1] /\ h[2] = f[2] /\ h[3] = f[3] /\ h[4] = f[4]
      /\ h[5] = g[1] /\ h[6] = g[2] /\ h[7] = g[3] /\ h[8] = g[4]
  <2>1. /\ f \o g \in Seq(T) /\ Len(f \o g) = Len(f) + Len(g)
        /\ \A j \in 1..(Len(f) + Len(g)) :
             (f \o g)[j] = IF j <= Len(f) THEN f[j] ELSE g[j - Len(f)]
    BY <1>2, Joined
  <2> QED
    BY <1>1, <1>7, <2>1
<1>9. PICK b : b = h \o << s >>
  OBVIOUS
<1>10. /\ Len(b) = 9
       /\ b[1] = h[1] /\ b[2] = h[2] /\ b[3] = h[3] /\ b[4] = h[4]
       /\ b[5] = h[5] /\ b[6] = h[6] /\ b[7] = h[7] /\ b[8] = h[8] /\ b[9] = s
  <2>1. /\ Len(h \o << s >>) = Len(h) + Len(<< s >>)
        /\ \A j \in 1..(Len(h) + Len(<< s >>)) :
             (h \o << s >>)[j] = IF j <= Len(h) THEN h[j] ELSE << s >>[j - Len(h)]
    BY <1>3, <1>8, Joined
  <2> QED
    BY <1>3, <1>8, <1>9, <2>1
<1>11. IsTwo(b, a, ids, day, cur, wants)
  BY <1>4, <1>5, <1>6, <1>8, <1>10, Zenon DEF IsTwo
<1> QED
  BY <1>7, <1>9, <1>11 DEF f, g, s

\* The nine scenarios.
LEMMA Scripts ==
  /\ IsFull(S001, "S001", {1, 2}, "readBack")
  /\ IsFull(S047, "S047", {3, 4}, "proveFull")
  /\ IsAlone(S002, "gated", <<9>>, {})
  /\ IsAlone(S012, "asked", <<>>, {"EmptyArray", "MalformedAggregationProof"})
  /\ IsAlone(S021, "refused", <<9>>, {"NotFound"})
  /\ IsOne(S018, "S018", 1, NoProof, {"MalformedAggregationProof"})
  /\ IsOne(S019, "S019", 2, ZeroProof(3), {"InvalidAggregationProof"})
  /\ IsTwo(S022, "S022", {3, 4}, 2, "EUR", {"NotSameWorldwideDay"})
  /\ IsTwo(S023, "S023", {5, 6}, 1, "USD", {"NotSameCurrency"})
<1>1. IsFull(S001, "S001", {1, 2}, "readBack")
  BY FullSteps DEF S001, ReadBack
<1>2. IsFull(S047, "S047", {3, 4}, "proveFull")
  BY FullSteps DEF S047, ProveFull
<1>3. /\ IsAlone(S002, "gated", <<9>>, {})
      /\ IsAlone(S012, "asked", <<>>, {"EmptyArray", "MalformedAggregationProof"})
      /\ IsAlone(S021, "refused", <<9>>, {"NotFound"})
  BY DEF S002, S012, S021, IsAlone, Refused, IsRefused
<1>4. /\ IsOne(S018, "S018", 1, NoProof, {"MalformedAggregationProof"})
      /\ IsOne(S019, "S019", 2, ZeroProof(3), {"InvalidAggregationProof"})
  BY OneSteps DEF S018, S019
<1>5. IsTwo(S022, "S022", {3, 4}, 2, "EUR", {"NotSameWorldwideDay"})
  BY TwoSteps DEF S022
<1>6. IsTwo(S023, "S023", {5, 6}, 1, "USD", {"NotSameCurrency"})
  BY TwoSteps DEF S023
<1> QED
  BY <1>1, <1>2, <1>3, <1>4, <1>5, <1>6

\* Which of them a place of a suite holds, the name its records go under, and the ids its
\* units draw from.
Fulls == Suite = FullSuite
FullAt == Fulls /\ at \in {1, 5}
AloneAt == Fulls /\ at \in {2, 3, 4}
OneAt == ~Fulls /\ at \in {1, 2}
TwoAt == ~Fulls /\ at \in {3, 4}

NameOf(i) ==
  IF Fulls THEN CASE i = 1 -> "S001" [] i = 5 -> "S047" [] OTHER -> "none"
  ELSE CASE i = 1 -> "S018" [] i = 2 -> "S019" [] i = 3 -> "S022" [] OTHER -> "S023"

IdsAt(i) ==
  IF Fulls THEN CASE i = 1 -> {1, 2} [] i = 5 -> {3, 4} [] OTHER -> {}
  ELSE CASE i = 1 -> {1} [] i = 2 -> {2} [] i = 3 -> {3, 4} [] i = 4 -> {5, 6} [] OTHER -> {}

LastOp == IF at = 1 THEN "readBack" ELSE "proveFull"
AloneIs ==
  /\ at = 2 => IsAlone(Suite[at], "gated", <<9>>, {})
  /\ at = 3 => IsAlone(Suite[at], "asked", <<>>, {"EmptyArray", "MalformedAggregationProof"})
  /\ at = 4 => IsAlone(Suite[at], "refused", <<9>>, {"NotFound"})
OneIs ==
  /\ at = 1 => IsOne(Suite[at], NameOf(at), 1, NoProof, {"MalformedAggregationProof"})
  /\ at = 2 => IsOne(Suite[at], NameOf(at), 2, ZeroProof(3), {"InvalidAggregationProof"})
TwoIs ==
  /\ at = 3 => IsTwo(Suite[at], NameOf(at), IdsAt(at), 2, "EUR", {"NotSameWorldwideDay"})
  /\ at = 4 => IsTwo(Suite[at], NameOf(at), IdsAt(at), 1, "USD", {"NotSameCurrency"})

LEMMA SuiteShape ==
  ASSUME Known, suite \in DOMAIN Suites
  PROVE  /\ Suite \in {FullSuite, RefusalSuite}
         /\ Fulls => Len(Suite) = 5
         /\ ~Fulls => Len(Suite) = 4
<1>1. Len(FullSuite) = 5 /\ Len(RefusalSuite) = 4
  BY DEF FullSuite, RefusalSuite
<1> QED
  BY <1>1 DEF Known, Suite, Fulls

LEMMA Where ==
  ASSUME Known, suite \in DOMAIN Suites, InBody
  PROVE  /\ FullAt \/ AloneAt \/ OneAt \/ TwoAt
         /\ at \in 1..5
         /\ FullAt => IsFull(Suite[at], NameOf(at), IdsAt(at), LastOp)
         /\ AloneAt => AloneIs
         /\ OneAt => OneIs
         /\ TwoAt => TwoIs
<1>1. CASE Fulls
  <2>1. Scenarios = 1..5
    BY <1>1, SuiteShape DEF Scenarios
  <2>2. at \in {1, 2, 3, 4, 5}
    BY <2>1 DEF InBody
  <2>3. /\ FullSuite[1] = S001 /\ FullSuite[2] = S002 /\ FullSuite[3] = S012
        /\ FullSuite[4] = S021 /\ FullSuite[5] = S047
    BY DEF FullSuite
  <2>4. FullAt => IsFull(Suite[at], NameOf(at), IdsAt(at), LastOp)
    BY <1>1, <2>3, Scripts DEF FullAt, Fulls, NameOf, IdsAt, LastOp
  <2>5. AloneAt => AloneIs
    BY <1>1, <2>3, Scripts DEF AloneAt, AloneIs, Fulls
  <2> QED
    BY <1>1, <2>2, <2>4, <2>5 DEF FullAt, AloneAt, OneAt, TwoAt
<1>2. CASE ~Fulls
  <2>1. Scenarios = 1..4
    BY <1>2, SuiteShape DEF Scenarios
  <2>2. at \in {1, 2, 3, 4}
    BY <2>1 DEF InBody
  <2>3. /\ RefusalSuite[1] = S018 /\ RefusalSuite[2] = S019 /\ RefusalSuite[3] = S022
        /\ RefusalSuite[4] = S023
    BY DEF RefusalSuite
  <2>4. Suite = RefusalSuite
    BY <1>2, SuiteShape DEF Fulls
  <2>5. OneAt => OneIs
    BY <1>2, <2>3, <2>4, Scripts DEF OneAt, OneIs, NameOf
  <2>6. TwoAt => TwoIs
    BY <1>2, <2>3, <2>4, Scripts DEF TwoAt, TwoIs, NameOf, IdsAt
  <2> QED
    BY <1>2, <2>2, <2>5, <2>6 DEF FullAt, AloneAt, OneAt, TwoAt
<1> QED
  BY <1>1, <1>2

\* How long a body is, and what its step is.
LEMMA Lengths ==
  ASSUME Known, suite \in DOMAIN Suites, InBody
  PROVE  /\ FullAt => Len(Suite[at]) = 15
         /\ AloneAt => Len(Suite[at]) = 1
         /\ OneAt => Len(Suite[at]) = 5
         /\ TwoAt => Len(Suite[at]) = 9
<1>1. FullAt => Len(Suite[at]) = 15
  BY Where DEF IsFull
<1>2. AloneAt => Len(Suite[at]) = 1
  BY Where DEF AloneAt, AloneIs, IsAlone
<1>3. OneAt => Len(Suite[at]) = 5
  BY Where DEF OneAt, OneIs, IsOne
<1>4. TwoAt => Len(Suite[at]) = 9
  BY Where DEF TwoAt, TwoIs, IsTwo
<1> QED
  BY <1>1, <1>2, <1>3, <1>4


-----------------------------------------------------------------------------
(* What a step is, by its place.                                           *)

RecordsOf(j) == {<<NameOf(j), n>> : n \in 1..6}

\* The second unit of S022 is of another day, that of S023 in another currency.
DayOf(i) == IF TwoAt /\ at = 3 /\ i = 2 THEN 2 ELSE 1
CurOf(i) == IF TwoAt /\ at = 4 /\ i = 2 THEN "USD" ELSE "EUR"

FullNow ==
  /\ step \in 1..15
  /\ step \in 1..6 => IsFile(Now, <<NameOf(at), step>>)
  /\ step = 7 => IsWait(Now, {<<NameOf(at), n>> : n \in 1..6})
  /\ step \in {8, 9} => /\ Now.op = "mint" /\ Now.ids = IdsAt(at) /\ Now.day = 1
                        /\ Now.currency = "EUR" /\ Now.recs \subseteq RecordsOf(at)
  /\ step = 10 => Now.op = "waitUnits"
  /\ step = 11 => Now.op = "newActor"
  /\ step \in {12, 13} => IsOwn(Now, step - 11)
  /\ step = 14 => Now.op = "submit"
  /\ step = 15 => Now.op = LastOp

OneNow ==
  /\ step \in 1..5
  /\ step = 1 => IsFile(Now, <<NameOf(at), at>>)
  /\ step = 2 => Now.op = "waitRecords"
  /\ step = 3 => /\ Now.op = "mint" /\ Now.ids = IdsAt(at) /\ Now.day = 1
                 /\ Now.currency = "EUR" /\ Now.recs \subseteq RecordsOf(at)
  /\ step = 4 => Now.op = "waitUnits"
  /\ step = 5 => /\ Now.op = "refused" /\ Now.units = Minted
                 /\ at = 1 => Now.proof = NoProof /\ Now.wants = {"MalformedAggregationProof"}
                 /\ at = 2 => Now.proof = ZeroProof(3) /\ Now.wants = {"InvalidAggregationProof"}

TwoNow ==
  /\ step \in 1..9
  /\ step \in {1, 5} => Now.op = "file" /\ Now.record \in RecordsOf(at)
  /\ step \in {2, 6} => Now.op = "waitRecords"
  /\ step \in {3, 7} => /\ Now.op = "mint" /\ Now.ids = IdsAt(at)
                        /\ Now.recs \subseteq RecordsOf(at)
  /\ step = 3 => Now.day = DayOf(1) /\ Now.currency = CurOf(1)
  /\ step = 7 => Now.day = DayOf(2) /\ Now.currency = CurOf(2)
  /\ step \in {4, 8} => Now.op = "waitUnits"
  /\ step = 9 => /\ Now.op = "refused" /\ Now.units = Minted /\ Now.proof = NoProof
                 /\ at = 3 => Now.wants = {"NotSameWorldwideDay"}
                 /\ at = 4 => Now.wants = {"NotSameCurrency"}

AloneNow ==
  /\ step = 1 /\ Now.proof = NoProof
  /\ at = 2 => Now.op = "gated" /\ Now.units = <<9>>
  /\ at = 3 => /\ Now.op = "asked" /\ Now.units = <<>>
               /\ Now.wants = {"EmptyArray", "MalformedAggregationProof"}
  /\ at = 4 => Now.op = "refused" /\ Now.units = <<9>> /\ Now.wants = {"NotFound"}

LEMMA FullNows ==
  ASSUME Known, ScriptTypeOK, FullAt
  PROVE  FullNow
<1>1. InBody /\ suite \in DOMAIN Suites
  BY SuiteShape DEF FullAt, Fulls, ScriptTypeOK, InBody, Scenarios
<1>2. IsFull(Suite[at], NameOf(at), IdsAt(at), LastOp)
  BY <1>1, Where
<1>3. step \in 1..15
  BY <1>1, Lengths DEF ScriptTypeOK, InBody
<1>4. PICK b : b = Suite[at]
  OBVIOUS
<1>5. IsFull(b, NameOf(at), IdsAt(at), LastOp) /\ Now = b[step]
  BY <1>2, <1>4 DEF Now
<1>6. /\ <<NameOf(at), 1>> \in RecordsOf(at) /\ <<NameOf(at), 2>> \in RecordsOf(at)
      /\ <<NameOf(at), 3>> \in RecordsOf(at) /\ <<NameOf(at), 4>> \in RecordsOf(at)
      /\ <<NameOf(at), 5>> \in RecordsOf(at) /\ <<NameOf(at), 6>> \in RecordsOf(at)
  BY DEF RecordsOf
<1>7. step \in 1..6 => IsFile(Now, <<NameOf(at), step>>)
  <2>1. ASSUME step \in 1..6 PROVE IsFile(Now, <<NameOf(at), step>>)
    <3>1. step \in {1, 2, 3, 4, 5, 6}
      BY <2>1
    <3> QED
      BY <1>5, <3>1 DEF IsFull
  <2> QED
    BY <2>1
<1>8. step \in {8, 9} => /\ Now.op = "mint" /\ Now.ids = IdsAt(at) /\ Now.day = 1
                         /\ Now.currency = "EUR" /\ Now.recs \subseteq RecordsOf(at)
  BY <1>5, <1>6 DEF IsFull, IsMint
<1>9. step \in {12, 13} => IsOwn(Now, step - 11)
  BY <1>5 DEF IsFull, IsOwn
<1> QED
  BY <1>3, <1>5, <1>7, <1>8, <1>9 DEF IsFull, FullNow

LEMMA OneNows ==
  ASSUME Known, ScriptTypeOK, OneAt
  PROVE  OneNow
<1>1. InBody /\ suite \in DOMAIN Suites
  BY SuiteShape DEF OneAt, Fulls, ScriptTypeOK, InBody, Scenarios
<1>2. OneIs
  BY <1>1, Where
<1>3. step \in 1..5
  BY <1>1, Lengths DEF ScriptTypeOK, InBody
<1>4. PICK b : b = Suite[at]
  OBVIOUS
<1>5. PICK proof, wants :
        /\ IsOne(b, NameOf(at), at, proof, wants)
        /\ at = 1 => proof = NoProof /\ wants = {"MalformedAggregationProof"}
        /\ at = 2 => proof = ZeroProof(3) /\ wants = {"InvalidAggregationProof"}
  BY <1>2, <1>4 DEF OneIs, OneAt
<1>6. <<NameOf(at), at>> \in RecordsOf(at)
  BY DEF RecordsOf, OneAt
<1>7. {at} = IdsAt(at)
  BY DEF IdsAt, OneAt
<1>8. Now = b[step]
  BY <1>4 DEF Now
<1> QED
  BY <1>3, <1>5, <1>6, <1>7, <1>8 DEF IsOne, OneNow, IsMint, IsWait, IsRefused

LEMMA TwoNows ==
  ASSUME Known, ScriptTypeOK, TwoAt
  PROVE  TwoNow
<1>1. InBody /\ suite \in DOMAIN Suites
  BY SuiteShape DEF TwoAt, Fulls, ScriptTypeOK, InBody, Scenarios
<1>2. TwoIs
  BY <1>1, Where
<1>3. step \in 1..9
  BY <1>1, Lengths DEF ScriptTypeOK, InBody
<1>4. PICK b : b = Suite[at]
  OBVIOUS
<1>5. PICK day, cur, wants :
        /\ IsTwo(b, NameOf(at), IdsAt(at), day, cur, wants)
        /\ at = 3 => day = 2 /\ cur = "EUR" /\ wants = {"NotSameWorldwideDay"}
        /\ at = 4 => day = 1 /\ cur = "USD" /\ wants = {"NotSameCurrency"}
  BY <1>2, <1>4 DEF TwoIs, TwoAt
<1>6. <<NameOf(at), 1>> \in RecordsOf(at) /\ <<NameOf(at), 2>> \in RecordsOf(at)
  BY DEF RecordsOf
<1>7. day = DayOf(2) /\ cur = CurOf(2) /\ 1 = DayOf(1) /\ "EUR" = CurOf(1)
  BY <1>5 DEF DayOf, CurOf, TwoAt
<1>8. Now = b[step]
  BY <1>4 DEF Now
<1>9. step \in {1, 5} => Now.op = "file" /\ Now.record \in RecordsOf(at)
  BY <1>5, <1>6, <1>8 DEF IsTwo, IsFile
<1>10. /\ step \in {3, 7} => /\ Now.op = "mint" /\ Now.ids = IdsAt(at)
                             /\ Now.recs \subseteq RecordsOf(at)
       /\ step = 3 => Now.day = DayOf(1) /\ Now.currency = CurOf(1)
       /\ step = 7 => Now.day = DayOf(2) /\ Now.currency = CurOf(2)
  BY <1>5, <1>6, <1>7, <1>8 DEF IsTwo, IsMint
<1> QED
  BY <1>3, <1>5, <1>8, <1>9, <1>10 DEF IsTwo, TwoNow, IsWait, IsRefused

LEMMA AloneNows ==
  ASSUME Known, ScriptTypeOK, AloneAt
  PROVE  AloneNow
<1>1. InBody /\ suite \in DOMAIN Suites
  BY SuiteShape DEF AloneAt, Fulls, ScriptTypeOK, InBody, Scenarios
<1>2. AloneIs
  BY <1>1, Where
<1>3. step = 1
  <2>1. Len(Suite[at]) = 1
    BY <1>1, Lengths
  <2>2. step \in 1..Len(Suite[at])
    BY <1>1 DEF ScriptTypeOK, InBody
  <2>3. step \in 1..1
    BY <2>1, <2>2
  <2> QED
    BY <2>3
<1> QED
  BY <1>2, <1>3 DEF AloneIs, AloneNow, IsAlone, IsRefused, Now, AloneAt

LEMMA Nows ==
  ASSUME Known, ScriptTypeOK, InBody
  PROVE  \/ FullAt /\ FullNow
         \/ OneAt /\ OneNow
         \/ TwoAt /\ TwoNow
         \/ AloneAt /\ AloneNow
BY Where, FullNows, OneNows, TwoNows, AloneNows DEF ScriptTypeOK

\* And by its kind.
LEMMA ByKind ==
  ASSUME Known, ScriptTypeOK, InBody
  PROVE  /\ Now.op = "file" => Now.record \in RecordsOf(at)
         /\ Now.op = "mint" =>
              /\ Now.ids = IdsAt(at) /\ Now.recs \subseteq RecordsOf(at)
              /\ \/ FullAt /\ step \in {8, 9}
                 \/ OneAt /\ step = 3
                 \/ TwoAt /\ step \in {3, 7}
         /\ Now.op = "newActor" => FullAt /\ step = 11
         /\ Now.op = "own" => FullAt /\ step \in {12, 13} /\ Now.nth = step - 11
         /\ Now.op = "submit" => FullAt /\ step = 14
         /\ Now.op = "readBack" => FullAt /\ step = 15 /\ at = 1
         /\ Now.op = "proveFull" => FullAt /\ step = 15 /\ at = 5
         /\ Now.op \in {"refused", "asked", "gated"} => AloneAt \/ (OneAt /\ step = 5) \/ (TwoAt /\ step = 9)
<1>1. CASE FullAt /\ FullNow
  <2>1. step \in {1, 2, 3, 4, 5, 6} => Now.op = "file" /\ Now.record \in RecordsOf(at)
    BY <1>1 DEF FullNow, IsFile, RecordsOf
  <2>2. step \in {12, 13} => Now.op = "own" /\ Now.nth = step - 11
    BY <1>1 DEF FullNow, IsOwn
  <2>3. step \in {1, 2, 3, 4, 5, 6} \/ step \in {8, 9} \/ step \in {12, 13} \/ step \in {7, 10, 11, 14, 15}
    BY <1>1 DEF FullNow
  <2>4. step = 7 => Now.op = "waitRecords"
    BY <1>1 DEF FullNow, IsWait
  <2>5. step = 15 => Now.op = LastOp /\ at \in {1, 5}
    BY <1>1 DEF FullNow, FullAt
  <2> QED
    BY <1>1, <2>1, <2>2, <2>3, <2>4, <2>5 DEF FullNow, LastOp
<1>2. CASE OneAt /\ OneNow
  <2>1. step = 1 => Now.op = "file" /\ Now.record \in RecordsOf(at)
    BY <1>2 DEF OneNow, OneAt, IsFile, RecordsOf
  <2> QED
    BY <1>2, <2>1 DEF OneNow
<1>3. CASE TwoAt /\ TwoNow
  BY <1>3 DEF TwoNow
<1>4. CASE AloneAt /\ AloneNow
  BY <1>4 DEF AloneNow, AloneAt
<1> QED
  BY <1>1, <1>2, <1>3, <1>4, Nows

-----------------------------------------------------------------------------
(* Where the suite is.                                                     *)

IsSeq(q) == \E T : q \in Seq(T)

LEMMA Appended ==
  ASSUME NEW q, IsSeq(q), NEW e
  PROVE  /\ IsSeq(Append(q, e)) /\ Append(q, e) # <<>> /\ Len(q) \in Nat
         /\ Len(Append(q, e)) = Len(q) + 1 /\ Append(q, e)[Len(q) + 1] = e
         /\ \A i \in 1..Len(q) : Append(q, e)[i] = q[i]
<1>1. PICK T : q \in Seq(T)
  BY DEF IsSeq
<1>2. PICK U : U = T \cup {e}
  OBVIOUS
<1>3. q \in Seq(U) /\ e \in U
  BY <1>1, <1>2
<1>4. Append(q, e) \in Seq(U)
  BY <1>3
<1> QED
  BY <1>3, <1>4 DEF IsSeq

\* What is left of a queue without its i-th element, and where it was.
Shifted(i, j) == IF j < i THEN j ELSE j + 1

LEMMA Shortened ==
  ASSUME NEW q, IsSeq(q), NEW i \in 1..Len(q)
  PROVE  /\ IsSeq(RemoveAt(q, i)) /\ Len(q) \in Nat /\ Len(q) >= 1 /\ Len(RemoveAt(q, i)) = Len(q) - 1
         /\ \A j \in 1..(Len(q) - 1) : /\ RemoveAt(q, i)[j] = q[Shifted(i, j)]
                                       /\ Shifted(i, j) \in 1..Len(q) /\ Shifted(i, j) # i
<1> DEFINE a == SubSeq(q, 1, i - 1)
           b == SubSeq(q, i + 1, Len(q))
<1>0. PICK T : q \in Seq(T)
  BY DEF IsSeq
<1>1. RemoveAt(q, i) = a \o b
  BY DEF RemoveAt
<1>2. /\ a \in Seq(T) /\ Len(a) = i - 1 /\ \A j \in 1..(i - 1) : a[j] = q[j]
      /\ b \in Seq(T) /\ Len(b) = Len(q) - i /\ \A j \in 1..(Len(q) - i) : b[j] = q[i + j]
      /\ Len(q) \in Nat /\ Len(q) >= 1
  BY <1>0
<1> HIDE DEF a, b
<1>3. /\ a \o b \in Seq(T) /\ Len(a \o b) = Len(q) - 1
      /\ \A j \in 1..(Len(q) - 1) : (a \o b)[j] = IF j < i THEN a[j] ELSE b[j - (i - 1)]
  <2>1. /\ a \o b \in Seq(T) /\ Len(a \o b) = Len(a) + Len(b)
        /\ \A j \in 1..(Len(a) + Len(b)) : (a \o b)[j] = IF j <= Len(a) THEN a[j] ELSE b[j - Len(a)]
    BY <1>2, Joined
  <2>2. Len(a) = i - 1 /\ Len(a) + Len(b) = Len(q) - 1
    BY <1>2
  <2> QED
    BY <2>1, <2>2
<1>4. ASSUME NEW j \in 1..(Len(q) - 1) PROVE (a \o b)[j] = q[Shifted(i, j)]
  <2>1. CASE j < i
    BY <1>2, <1>3, <2>1 DEF Shifted
  <2>2. CASE ~(j < i)
    <3>1. j - (i - 1) \in 1..(Len(q) - i) /\ i + (j - (i - 1)) = j + 1
      BY <1>2, <2>2
    <3> QED
      BY <1>2, <1>3, <2>2, <3>1 DEF Shifted
  <2> QED
    BY <2>1, <2>2
<1>5. ASSUME NEW j \in 1..(Len(q) - 1)
      PROVE  Shifted(i, j) \in 1..Len(q) /\ Shifted(i, j) # i
  BY <1>2, SMT DEF Shifted
<1>6. IsSeq(RemoveAt(q, i)) /\ Len(RemoveAt(q, i)) = Len(q) - 1
  BY <1>1, <1>3 DEF IsSeq
<1>7. ASSUME NEW j \in 1..(Len(q) - 1) PROVE RemoveAt(q, i)[j] = q[Shifted(i, j)]
  BY <1>1, <1>4
<1> QED
  BY <1>2, <1>5, <1>6, <1>7

PlaceInv ==
  /\ ScriptTypeOK
  /\ mid \in {"ready", "sent"}
  /\ mid = "sent" => InBody /\ Now.op \in {"file", "mint", "submit", "gated"}
  /\ makes \subseteq Checks
  /\ IsSeq(flying)

\* What a step of a body comes to: it goes on in the step, to the next one, or it ends.
Inside == UNCHANGED <<suite, at, step, verdict, faulted>>
Hit == faulted' \in {faulted, faulted \cup {at}}
Onward ==
  /\ mid' = "ready" /\ UNCHANGED <<suite, at, verdict>> /\ Hit
  /\ step' = step + 1 /\ step < Len(Suite[at])
Ends(v) ==
  /\ mid' = "ready" /\ at' = at + 1 /\ step' = 1 /\ suite' = suite /\ Hit
  /\ verdict' = [verdict EXCEPT ![at] = v]
Passed == Ends("pass") /\ step = Len(Suite[at])
Failed == Ends("fail")

LEMMA Numbers ==
  ASSUME Known, ScriptTypeOK
  PROVE  /\ suite \in DOMAIN Suites /\ at \in Nat /\ Len(Suite) \in {4, 5}
         /\ Scenarios = 1..Len(Suite) /\ Scenarios \subseteq 1..5
         /\ InBody => step \in Nat /\ step >= 1 /\ Len(Suite[at]) \in {1, 5, 9, 15} /\ step <= Len(Suite[at])
<1>1. suite \in DOMAIN Suites /\ Len(Suite) \in {4, 5}
  BY SuiteShape DEF ScriptTypeOK
<1>2. InBody => Len(Suite[at]) \in {1, 5, 9, 15}
  BY <1>1, Where, Lengths
<1>3. PICK n \in {4, 5} : n = Len(Suite)
  BY <1>1
<1>4. Scenarios = 1..n /\ at \in 1..(n + 1)
  BY <1>3 DEF ScriptTypeOK, Scenarios
<1>5. InBody => step \in 1..Len(Suite[at])
  BY DEF ScriptTypeOK, InBody
<1> QED
  BY <1>1, <1>2, <1>3, <1>4, <1>5

LEMMA Steps ==
  ASSUME Known, PlaceInv, Next
  PROVE  (InBody /\ (Onward \/ Passed \/ Failed)) \/ Inside
<1>1. InBody => step \in Nat /\ step >= 1 /\ step <= Len(Suite[at]) /\ Len(Suite[at]) \in Nat
  BY Numbers DEF PlaceInv
<1>2. ASSUME InBody, Advance, Hit PROVE Onward \/ Passed
  BY <1>1, <1>2 DEF Advance, Pass, End, Onward, Passed, Ends
<1>3. ASSUME Fail, Hit PROVE Failed
  BY <1>3 DEF Fail, End, Failed, Ends
<1>4. faulted' = faulted => Hit
  BY DEF Hit
<1>5. CASE SendRecord \/ SendUnit \/ Land
  BY <1>5 DEF SendRecord, SendUnit, Land, Reach, Inside, scriptVars
<1>6. CASE Receipt
  <2>1. Now.op \in {"file", "mint", "submit", "gated"} => Advance \/ Fail
    BY <1>6 DEF Receipt
  <2> QED
    BY <1>2, <1>3, <1>4, <1>6, <2>1 DEF Receipt, PlaceInv
<1>7. CASE Exist
  BY <1>2, <1>4, <1>7 DEF Exist, Doing
<1>8. CASE TurnedDown
  BY <1>2, <1>3, <1>4, <1>8 DEF TurnedDown, Doing
<1>9. CASE TakenUp
  <2>1. InBody /\ faulted' = faulted /\ (Fail \/ Advance \/ Reach("sent"))
    BY <1>9 DEF TakenUp, Doing
  <2>2. Reach("sent") => Inside
    BY <2>1 DEF Reach, Inside
  <2> QED
    BY <1>2, <1>3, <1>4, <2>1, <2>2
<1>10. CASE MakeActor \/ OwnUnit \/ OwnerRead \/ ProvedInFull
  BY <1>2, <1>3, <1>4, <1>10 DEF MakeActor, OwnUnit, OwnerRead, ProvedInFull, Doing
<1>11. CASE SendDraft
  BY <1>2, <1>3, <1>4, <1>11 DEF SendDraft, Doing, Reach, Inside
<1>12. CASE RpcFault
  BY <1>2, <1>3, <1>12 DEF RpcFault, Faulty, Hit
<1> QED
  BY <1>5, <1>6, <1>7, <1>8, <1>9, <1>10, <1>11, <1>12 DEF Next

\* A body that has ended is the last one, or the next one begins.
LEMMA NextBegins ==
  ASSUME Known, ScriptTypeOK, InBody
  PROVE  at + 1 \in Scenarios => Len(Suite[at + 1]) \in Nat /\ Len(Suite[at + 1]) >= 1
<1>1. suite \in DOMAIN Suites
  BY DEF ScriptTypeOK
<1>2. IsSequence(Suite) /\ \A i \in DOMAIN Suite : IsSequence(Suite[i]) /\ Len(Suite[i]) > 0
  BY <1>1, SuiteAssumption DEF Suite
<1>3. \A i \in Scenarios : IsSequence(Suite[i]) /\ Len(Suite[i]) > 0
  BY <1>2 DEF IsSequence, Scenarios
<1>4. \A i \in Scenarios : Len(Suite[i]) \in Nat /\ Len(Suite[i]) >= 1
  BY <1>3 DEF IsSequence
<1> QED
  BY <1>4

\* The sequence of the bodies keeps its type.
LEMMA ScriptTypeStep ==
  ASSUME Known, PlaceInv, Next
  PROVE  ScriptTypeOK'
<1> USE DEF PlaceInv
<1>1. CASE Inside
  BY <1>1 DEF Inside, ScriptTypeOK, Scenarios, Suite
<1>2. CASE InBody /\ Onward
  <2>1. at \in Scenarios /\ step \in Nat /\ Len(Suite[at]) \in Nat
    BY <1>2, Numbers DEF InBody
  <2> QED
    BY <1>2, <2>1 DEF Onward, Hit, ScriptTypeOK, Scenarios, Suite
<1>3. CASE InBody /\ (Passed \/ Failed)
  <2>1. at \in Scenarios /\ Len(Suite) \in Nat /\ at \in Nat /\ Scenarios = 1..Len(Suite)
    BY <1>3, Numbers DEF InBody
  <2>2. /\ suite' = suite /\ at' = at + 1 /\ step' = 1
        /\ verdict' \in [Scenarios -> {"todo", "pass", "fail"}]
        /\ faulted' \subseteq Scenarios
    BY <1>3, <2>1 DEF Passed, Failed, Ends, Hit, ScriptTypeOK
  <2> QED
    BY <1>3, <2>1, <2>2, NextBegins DEF ScriptTypeOK, Scenarios, Suite
<1> QED
  BY <1>1, <1>2, <1>3, Steps

\* What is under way after a step: as before, or one transaction more of a body that has
\* nothing under way, or one less, which has been executed.
StoresKept == UNCHANGED <<makes, units, drafts, records>>
Calm == flying' = flying /\ StoresKept
Sends(tx) ==
  /\ InBody /\ mid = "ready"
  /\ flying' = Append(flying, tx) /\ StoresKept
  /\ (mid' = "sent" /\ Inside /\ (Now.op = "submit" => body' = body)) \/ \E v : Ends(v)
LandsAt(i) ==
  /\ i \in 1..Len(flying)
  /\ \A k \in 1..(i - 1) : flying[k].by # flying[i].by
  /\ Execute(flying[i])
  /\ flying' = RemoveAt(flying, i)
  /\ UNCHANGED <<makes, suite, at, step, mid, verdict, faulted, body>>
Lands == \E i : LandsAt(i)

\* What a step may send.
Sendable(tx) ==
  \/ Now.op = "file" /\ tx = Filing(Now.record)
  \/ Now.op = "mint" /\ \E id \in Now.ids \ {u.id : u \in units} : tx = Minting(Minting1(id), Now.recs)
  \/ Now.op \in {"refused", "gated"} /\ tx = Drafting(Tried(Attester))
  \/ Now.op = "submit" /\ tx = Drafting(FullDraftOf(Submitter))

LEMMA OutgoingSent ==
  ASSUME NEW tx \in Outgoing
  PROVE  InBody /\ mid = "ready" /\ Sendable(tx)
<1>1. CASE Doing("file")
  BY <1>1 DEF Outgoing, Doing, Sendable
<1>2. CASE Doing("mint")
  BY <1>2 DEF Outgoing, Doing, Sendable
<1>3. CASE Doing("submit")
  BY <1>3 DEF Outgoing, Doing, Sendable
<1>4. CASE Doing("refused") \/ Doing("gated")
  BY <1>4 DEF Outgoing, Doing, Sendable
<1> QED
  BY <1>1, <1>2, <1>3, <1>4 DEF Outgoing

LEMMA Traffic ==
  ASSUME Known, PlaceInv, Next
  PROVE  Calm \/ Lands \/ \E tx : Sendable(tx) /\ Sends(tx)
<1> USE DEF StoresKept, draftVars
<1>1. CASE SendRecord
  BY <1>1 DEF SendRecord, Doing, Sendable, Sends, Reach, Inside
<1>2. CASE SendUnit
  BY <1>2 DEF SendUnit, Doing, Sendable, Sends, Reach, Inside, Minting
<1>3. CASE Receipt \/ Exist \/ TurnedDown \/ MakeActor \/ OwnUnit \/ OwnerRead \/ ProvedInFull
  BY <1>3 DEF Receipt, Exist, TurnedDown, MakeActor, OwnUnit, OwnerRead, ProvedInFull, Calm
<1>4. CASE TakenUp
  <2>1. CASE flying' = flying
    BY <1>4, <2>1 DEF TakenUp, Calm
  <2>2. CASE flying' # flying
    <3>1. InBody /\ mid = "ready" /\ Now.op \in {"refused", "gated"} /\ "lane" \notin makes
      BY <1>4, <2>2 DEF TakenUp, Doing
    <3>2. flying' = Append(flying, Drafting(Tried(Attester)))
      BY <1>4, <2>2 DEF TakenUp
    <3>3. (mid' = "sent" /\ Inside) \/ \E v : Ends(v)
      <4>1. Fail \/ Reach("sent")
        BY <1>4, <3>1 DEF TakenUp
      <4>2. faulted' = faulted
        BY <1>4 DEF TakenUp
      <4>3. Fail => Ends("fail")
        BY <4>2 DEF Fail, End, Ends, Hit
      <4> QED
        BY <4>1, <4>2, <4>3 DEF Reach, Inside
    <3> QED
      BY <1>4, <3>1, <3>2, <3>3 DEF TakenUp, Sendable, Sends
  <2> QED
    BY <2>1, <2>2
<1>5. CASE SendDraft
  BY <1>5 DEF SendDraft, Doing, Sendable, Sends, Calm, Reach, Inside, Bind
<1>6. CASE RpcFault
  <2>1. CASE flying' = flying
    BY <1>6, <2>1 DEF RpcFault, Calm
  <2>2. CASE Unanswered
    <3>1. PICK tx \in Outgoing : flying' = Append(flying, tx)
      BY <2>2 DEF Unanswered
    <3>2. InBody /\ mid = "ready" /\ Sendable(tx)
      BY <3>1, OutgoingSent
    <3>3. Hit /\ (Advance \/ Fail)
      BY <1>6 DEF RpcFault, Faulty, Hit
    <3>4. Fail => Ends("fail")
      BY <3>3 DEF Fail, End, Ends
    <3>5. Advance => Ends("pass")
      <4>1. CASE Doing("gated")
        <5>0. ScriptTypeOK /\ InBody /\ Now.op = "gated"
          BY <4>1 DEF Doing, PlaceInv
        <5>1. AloneAt /\ step = 1
          <6>1. ~(FullAt /\ FullNow)
            BY <5>0, ByKind DEF FullAt, OneAt, TwoAt, AloneAt
          <6>2. OneAt /\ OneNow => step = 5
            BY <5>0, ByKind DEF OneAt, TwoAt, AloneAt
          <6>3. TwoAt /\ TwoNow => step = 9
            BY <5>0, ByKind DEF OneAt, TwoAt, AloneAt
          <6> QED
            BY <5>0, <6>1, <6>2, <6>3, Nows DEF OneNow, TwoNow, AloneNow
        <5>2. Len(Suite[at]) = 1
          BY <3>2, <5>1, Lengths DEF PlaceInv, ScriptTypeOK
        <5> QED
          BY <3>3, <5>1, <5>2 DEF Advance, Pass, End, Ends
      <4>2. CASE ~Doing("gated")
        <5>1. Fail
          BY <1>6, <4>2 DEF RpcFault
        <5>2. verdict'[at] = "fail" /\ at' = at + 1
          BY <3>2, <5>1 DEF Fail, End, PlaceInv, ScriptTypeOK, InBody
        <5>3. at \in Nat /\ verdict \in [Scenarios -> {"todo", "pass", "fail"}]
          BY Numbers DEF PlaceInv, ScriptTypeOK
        <5>4. ~Advance
          BY <3>2, <5>2, <5>3 DEF Advance, Pass, End, InBody
        <5> QED
          BY <5>4
      <4> QED
        BY <4>1, <4>2
    <3> QED
      BY <1>6, <3>1, <3>2, <3>3, <3>4, <3>5 DEF RpcFault, Sends
  <2> QED
    BY <1>6, <2>1, <2>2 DEF RpcFault
<1>7. CASE Land
  BY <1>7 DEF Land, Lands, LandsAt, scriptVars
<1> QED
  BY <1>1, <1>2, <1>3, <1>4, <1>5, <1>6, <1>7 DEF Next

\* How far inside its step a body is.
LEMMA MidStep ==
  ASSUME PlaceInv, Next
  PROVE  /\ mid' \in {"ready", "sent"}
         /\ mid' = "sent" => Inside /\ InBody /\ Now.op \in {"file", "mint", "submit", "gated"}
<1>1. CASE Receipt
  BY <1>1 DEF Receipt, PlaceInv, Advance, Pass, Fail, End
<1>2. CASE Exist \/ TurnedDown \/ MakeActor \/ OwnUnit \/ OwnerRead \/ ProvedInFull \/ RpcFault
  BY <1>2 DEF Exist, TurnedDown, MakeActor, OwnUnit, OwnerRead, ProvedInFull, RpcFault,
       Advance, Pass, Fail, End
<1>3. CASE TakenUp
  BY <1>3 DEF TakenUp, Doing, Advance, Pass, Fail, End, Reach, Inside
<1>4. CASE SendRecord \/ SendUnit
  BY <1>4 DEF SendRecord, SendUnit, Doing, Reach, Inside
<1>5. CASE SendDraft
  BY <1>5 DEF SendDraft, Doing, Reach, Inside, Fail, End
<1>6. CASE Land
  BY <1>6 DEF Land, scriptVars, PlaceInv, Inside
<1> QED
  BY <1>1, <1>2, <1>3, <1>4, <1>5, <1>6 DEF Next

LEMMA PlaceInvStep ==
  ASSUME Known, PlaceInv, Next
  PROVE  PlaceInv'
<1>1. ScriptTypeOK'
  BY ScriptTypeStep
<1>2. /\ mid' \in {"ready", "sent"}
      /\ mid' = "sent" => InBody' /\ (Now.op \in {"file", "mint", "submit", "gated"})'
  BY MidStep DEF Inside, InBody, Now, Scenarios, Suite
<1>3. makes' \subseteq Checks /\ IsSeq(flying')
  <2>1. CASE Calm
    BY <2>1 DEF Calm, StoresKept, PlaceInv
  <2>2. CASE Lands
    BY <2>2, Shortened DEF Lands, LandsAt, PlaceInv
  <2>3. CASE \E tx : Sendable(tx) /\ Sends(tx)
    BY <2>3, Appended DEF Sends, StoresKept, PlaceInv
  <2> QED
    BY <2>1, <2>2, <2>3, Traffic
<1> QED
  BY <1>1, <1>2, <1>3 DEF PlaceInv


-----------------------------------------------------------------------------
(* The locals of the body.                                                 *)

IsLocals(b) == \E m, s, w : b = [minted |-> m, sender |-> s, witnesses |-> w]

MintsBefore ==
  CASE FullAt -> IF step < 9 THEN 0 ELSE IF step = 9 THEN 1 ELSE 2
    [] OneAt -> IF step < 4 THEN 0 ELSE 1
    [] TwoAt -> IF step < 4 THEN 0 ELSE IF step < 8 THEN 1 ELSE 2
    [] OTHER -> 0
Mints == IF mid = "sent" /\ Now.op = "mint" THEN MintsBefore + 1 ELSE MintsBefore
Owns == IF FullAt /\ step >= 13 THEN IF step = 13 THEN 1 ELSE 2 ELSE 0

\* The unit a consent issues.
Unit(id, day, cur) == [id |-> id, owner |-> DerivedOwner(Consent, id), day |-> day, currency |-> cur]

LocalsInv ==
  /\ IsLocals(body)
  /\ IsSeq(body.minted) /\ Len(body.minted) = Mints
  /\ \A i \in 1..Len(body.minted) : \E id \in IdsAt(at) : body.minted[i] = Unit(id, DayOf(i), CurOf(i))
  /\ IsSeq(body.witnesses) /\ Len(body.witnesses) = Owns

\* What becomes of them: a new body, a unit more, another order, a witness more, or nothing.
Afresh == body' = NoLocals /\ \E v : Ends(v)
OneMinted ==
  /\ InBody /\ Now.op = "mint" /\ mid = "ready" /\ mid' = "sent" /\ Inside
  /\ StoresKept /\ Now.recs \subseteq records
  /\ \E id \in Now.ids \ {u.id : u \in units} :
       /\ flying' = Append(flying, Minting(Minting1(id), Now.recs))
       /\ body' = [body EXCEPT !.minted = Append(@, Minting1(id))]
ActorMade ==
  /\ InBody /\ Now.op = "newActor" /\ mid = "ready" /\ Onward /\ Calm
  /\ body' = [body EXCEPT !.minted = InSubmittedOrder(@), !.sender = at]
OneWitnessed ==
  /\ InBody /\ Now.op = "own" /\ mid = "ready" /\ Onward /\ Calm
  /\ body' = [body EXCEPT !.witnesses =
                Append(@, Witness(Consent, body.minted[Now.nth], Binding(body.sender, DraftId, "L2")))]
LocalsKept ==
  /\ body' = body
  /\ \/ Inside /\ mid' = mid
     \/ Inside /\ InBody /\ mid = "ready" /\ mid' = "sent" /\ Now.op # "mint"
     \/ InBody /\ Onward /\ Now.op \notin {"own", "newActor"} /\ (Now.op = "mint" => mid = "sent")

LEMMA LocalsMove ==
  ASSUME Known, PlaceInv, Next
  PROVE  Afresh \/ OneMinted \/ ActorMade \/ OneWitnessed \/ LocalsKept
<1>0. at \in Nat
  BY Numbers DEF PlaceInv
<1>1. ASSUME NEW b, Bind(b), InBody, Hit, Advance
      PROVE  Afresh \/ (Onward /\ body' = b)
  <2>1. step \in Nat /\ step >= 1 /\ step <= Len(Suite[at]) /\ Len(Suite[at]) \in Nat
    BY <1>1, Numbers DEF PlaceInv
  <2> QED
    BY <1>0, <1>1, <2>1 DEF Bind, Advance, Pass, End, Afresh, Ends, Onward
<1>2. ASSUME NEW b, Bind(b), Hit, Fail
      PROVE  Afresh
  <2>1. Ends("fail")
    BY <1>2 DEF Fail, End, Ends
  <2>2. at' # at
    BY <1>0, <2>1 DEF Ends
  <2> QED
    BY <1>2, <2>1, <2>2 DEF Bind, Afresh
<1>3. faulted' = faulted => Hit
  BY DEF Hit
<1>4. CASE SendRecord
  BY <1>4 DEF SendRecord, Doing, Reach, Bind, Inside, LocalsKept
<1>5. CASE SendUnit
  <2>1. PICK id \in Now.ids \ {u.id : u \in units} :
          /\ RefusalOf(Minting(Minting1(id), Now.recs)) = "none"
          /\ flying' = Append(flying, Minting(Minting1(id), Now.recs))
          /\ Reach("sent")
          /\ Bind([body EXCEPT !.minted = Append(@, Minting(Minting1(id), Now.recs).unit)])
    BY <1>5 DEF SendUnit
  <2>2. Now.recs \subseteq records
    <3>1. PICK tx : tx = Minting(Minting1(id), Now.recs)
      OBVIOUS
    <3>2. RefusalOf(tx) = "none" /\ tx.to = "mint" /\ tx.recs = Now.recs
      BY <2>1, <3>1 DEF Minting
    <3>3. RefusalOf(tx) = IF tx.recs \subseteq records THEN "none" ELSE "InvalidSpendingRecords"
      BY <3>2 DEF RefusalOf
    <3> QED
      BY <3>2, <3>3
  <2>3. Minting(Minting1(id), Now.recs).unit = Minting1(id)
    BY DEF Minting
  <2>4. body' = [body EXCEPT !.minted = Append(@, Minting1(id))]
    BY <2>1, <2>3 DEF Bind, Reach
  <2> QED
    BY <1>5, <2>1, <2>2, <2>4 DEF SendUnit, Doing, Reach, OneMinted, Inside, StoresKept, draftVars
<1>6. CASE Receipt
  <2>1. Now.op \in {"file", "mint", "submit", "gated"} /\ (Advance \/ Fail)
    BY <1>6 DEF Receipt, PlaceInv
  <2> QED
    BY <1>1, <1>2, <1>3, <1>6, <2>1 DEF Receipt, LocalsKept
<1>7. CASE Exist
  BY <1>1, <1>3, <1>7 DEF Exist, Doing, LocalsKept
<1>8. CASE TurnedDown
  BY <1>1, <1>2, <1>3, <1>8 DEF TurnedDown, Doing, LocalsKept
<1>9. CASE TakenUp
  <2>1. Advance \/ Fail \/ Reach("sent")
    BY <1>9 DEF TakenUp, Doing
  <2>2. Now.op \in {"refused", "asked", "gated"} /\ mid = "ready" /\ InBody /\ Bind(body) /\ faulted' = faulted
    BY <1>9 DEF TakenUp, Doing
  <2>3. CASE Reach("sent")
    BY <2>2, <2>3 DEF Reach, Inside, Bind, LocalsKept
  <2> QED
    BY <1>1, <1>2, <1>3, <2>1, <2>2, <2>3 DEF LocalsKept
<1>10. CASE MakeActor
  BY <1>1, <1>3, <1>10 DEF MakeActor, Doing, ActorMade, Calm, StoresKept, draftVars
<1>11. CASE OwnUnit
  BY <1>1, <1>2, <1>3, <1>11 DEF OwnUnit, Doing, OneWitnessed, Calm, StoresKept, draftVars
<1>12. CASE SendDraft
  <2>1. CASE Reach("sent")
    BY <1>12, <2>1 DEF SendDraft, Doing, Reach, Inside, Bind, LocalsKept
  <2> QED
    BY <1>2, <1>3, <1>12, <2>1 DEF SendDraft
<1>13. CASE OwnerRead \/ ProvedInFull
  BY <1>1, <1>2, <1>3, <1>13 DEF OwnerRead, ProvedInFull, Doing, LocalsKept
<1>14. CASE RpcFault
  <2>1. Hit /\ InBody /\ Bind(body)
    BY <1>14 DEF RpcFault, Faulty, Hit
  <2> QED
    BY <1>1, <1>2, <1>14, <2>1 DEF RpcFault, Doing, LocalsKept
<1>15. CASE Land
  BY <1>15 DEF Land, scriptVars, Inside, LocalsKept
<1> QED
  BY <1>4, <1>5, <1>6, <1>7, <1>8, <1>9, <1>10, <1>11, <1>12, <1>13, <1>14, <1>15 DEF Next

\* How many units and witnesses a body has.
LEMMA OnwardCounts ==
  ASSUME Known, ScriptTypeOK, InBody, Onward
  PROVE  /\ MintsBefore \in Nat /\ Owns \in Nat
         /\ MintsBefore' = IF Now.op = "mint" THEN MintsBefore + 1 ELSE MintsBefore
         /\ Owns' = IF Now.op = "own" THEN Owns + 1 ELSE Owns
<1>0. Fulls' = Fulls /\ at' = at /\ step' = step + 1
  BY DEF Onward, Fulls, Suite
<1>00. FullAt' = FullAt /\ OneAt' = OneAt /\ TwoAt' = TwoAt
  BY <1>0 DEF FullAt, OneAt, TwoAt
<1>1. CASE FullAt /\ FullNow
  <2>1. step \in 1..15 /\ ~OneAt /\ ~TwoAt
    BY <1>1 DEF FullNow, FullAt, OneAt, TwoAt
  <2>2. Now.op = "mint" <=> step \in {8, 9}
    BY <1>1, ByKind DEF FullNow, OneAt, TwoAt, FullAt
  <2>3. Now.op = "own" <=> step \in {12, 13}
    BY <1>1, ByKind DEF FullNow, IsOwn
  <2> QED
    BY <1>0, <1>00, <1>1, <2>1, <2>2, <2>3 DEF MintsBefore, Owns
<1>2. CASE OneAt /\ OneNow
  <2>1. step \in 1..5 /\ ~FullAt /\ ~TwoAt
    BY <1>2 DEF OneNow, FullAt, OneAt, TwoAt
  <2>2. (Now.op = "mint" <=> step = 3) /\ Now.op # "own"
    BY <1>2, <2>1, ByKind DEF OneNow
  <2> QED
    BY <1>0, <1>00, <1>2, <2>1, <2>2 DEF MintsBefore, Owns
<1>3. CASE TwoAt /\ TwoNow
  <2>1. step \in 1..9 /\ ~FullAt /\ ~OneAt
    BY <1>3 DEF TwoNow, FullAt, OneAt, TwoAt
  <2>2. (Now.op = "mint" <=> step \in {3, 7}) /\ Now.op # "own"
    BY <1>3, <2>1, ByKind DEF TwoNow
  <2> QED
    BY <1>0, <1>00, <1>3, <2>1, <2>2 DEF MintsBefore, Owns
<1>4. CASE AloneAt /\ AloneNow
  <2>1. ~FullAt /\ ~OneAt /\ ~TwoAt
    BY <1>4 DEF FullAt, OneAt, TwoAt, AloneAt
  <2>2. Now.op # "mint" /\ Now.op # "own"
    BY <2>1, ByKind
  <2> QED
    BY <1>0, <1>00, <2>1, <2>2 DEF MintsBefore, Owns
<1> QED
  BY <1>1, <1>2, <1>3, <1>4, Nows

LEMMA InsideCounts ==
  ASSUME Inside
  PROVE  Owns' = Owns /\ MintsBefore' = MintsBefore /\ (Now.op)' = Now.op
BY DEF Inside, Owns, MintsBefore, FullAt, OneAt, TwoAt, Fulls, Suite, Now

\* The order of the receipts is one of as many.
LEMMA SortedLength ==
  ASSUME NEW q, IsSeq(q), Len(q) = 2, q[1].id \in Nat, q[2].id \in Nat, NEW s, s = InSubmittedOrder(q)
  PROVE  /\ IsSeq(s) /\ Len(s) = 2 /\ s[1].id <= s[2].id
         /\ (s[1] = q[1] /\ s[2] = q[2]) \/ (s[1] = q[2] /\ s[2] = q[1])
<1> DEFINE T == {q[i] : i \in DOMAIN q}
           Good(r) == /\ \A i \in DOMAIN q : \E j \in DOMAIN q : r[j] = q[i]
                      /\ \A i, j \in DOMAIN q : i < j => r[i].id <= r[j].id
<1>1. DOMAIN q = {1, 2} /\ 1..2 = {1, 2} /\ q[1] \in T /\ q[2] \in T /\ T = {q[1], q[2]}
  BY DEF IsSeq
<1>2. \E r \in [DOMAIN q -> T] : Good(r)
  <2>1. CASE q[1].id <= q[2].id
    <3>1. PICK r : r = [i \in DOMAIN q |-> q[i]]
      OBVIOUS
    <3>2. r \in [DOMAIN q -> T] /\ r[1] = q[1] /\ r[2] = q[2]
      BY <1>1, <3>1
    <3>3. Good(r)
      BY <1>1, <2>1, <3>2
    <3> QED
      BY <3>2, <3>3
  <2>2. CASE ~(q[1].id <= q[2].id)
    <3>1. PICK r : r = [i \in DOMAIN q |-> IF i = 1 THEN q[2] ELSE q[1]]
      OBVIOUS
    <3>2. r \in [DOMAIN q -> T] /\ r[1] = q[2] /\ r[2] = q[1]
      BY <1>1, <3>1
    <3>3. Good(r)
      BY <1>1, <2>2, <3>2
    <3> QED
      BY <3>2, <3>3
  <2> QED
    BY <2>1, <2>2
<1>3. s \in [DOMAIN q -> T] /\ Good(s)
  <2>1. s = CHOOSE r \in [DOMAIN q -> T] : Good(r)
    BY DEF InSubmittedOrder
  <2> HIDE DEF T, Good
  <2> QED
    BY <1>2, <2>1
<1>4. s \in [1..2 -> T]
  BY <1>1, <1>3
<1>5. s \in Seq(T) /\ Len(s) = 2
  <2>1. s[1] \in T /\ s[2] \in T
    BY <1>1, <1>4
  <2>2. PICK t : t = << s[1], s[2] >>
    OBVIOUS
  <2> HIDE DEF T
  <2>3. t \in Seq(T) /\ Len(t) = 2 /\ t \in [1..2 -> T] /\ t[1] = s[1] /\ t[2] = s[2]
    BY <2>1, <2>2
  <2>4. \A i \in 1..2 : t[i] = s[i]
    BY <2>3
  <2>5. s = t
    BY <1>4, <2>3, <2>4
  <2> QED
    BY <2>3, <2>5
<1>6. s[1].id <= s[2].id
  BY <1>1, <1>3
<1>7. s[1] \in {q[1], q[2]} /\ s[2] \in {q[1], q[2]}
  BY <1>1, <1>4
<1>8. (\E j \in {1, 2} : s[j] = q[1]) /\ (\E j \in {1, 2} : s[j] = q[2])
  BY <1>1, <1>3
<1> QED
  BY <1>5, <1>6, <1>7, <1>8 DEF IsSeq

LEMMA IdsAreNumbers ==
  \A j : IdsAt(j) \subseteq 1..6
BY DEF IdsAt

LEMMA NextUnit ==
  ASSUME Known, ScriptTypeOK, InBody, Now.op = "mint", NEW id
  PROVE  /\ Now.ids = IdsAt(at) /\ Now.recs \subseteq RecordsOf(at)
         /\ Minting1(id) = Unit(id, DayOf(MintsBefore + 1), CurOf(MintsBefore + 1))
         /\ Now.day \in {1, 2} /\ Now.currency \in {"EUR", "USD"}
         /\ MintsBefore \in {0, 1}
<1>1. CASE FullAt
  <2>1. step \in {8, 9} /\ ~TwoAt /\ ~OneAt
    BY <1>1, ByKind DEF FullAt, OneAt, TwoAt
  <2>2. Now.day = 1 /\ Now.currency = "EUR"
    BY <1>1, <2>1, FullNows DEF FullNow
  <2> QED
    BY <1>1, <2>1, <2>2, ByKind DEF Minting1, Unit, DayOf, CurOf, MintsBefore
<1>2. CASE OneAt
  <2>1. step = 3 /\ ~TwoAt /\ ~FullAt
    BY <1>2, ByKind DEF FullAt, OneAt, TwoAt
  <2>2. Now.day = 1 /\ Now.currency = "EUR"
    BY <1>2, <2>1, OneNows DEF OneNow
  <2> QED
    BY <1>2, <2>1, <2>2, ByKind DEF Minting1, Unit, DayOf, CurOf, MintsBefore
<1>3. CASE TwoAt
  <2>1. step \in {3, 7} /\ ~OneAt /\ ~FullAt
    BY <1>3, ByKind DEF FullAt, OneAt, TwoAt
  <2>2. MintsBefore \in {0, 1} /\ Now.day = DayOf(MintsBefore + 1) /\ Now.currency = CurOf(MintsBefore + 1)
    BY <1>3, <2>1, TwoNows DEF TwoNow, MintsBefore
  <2> QED
    BY <1>3, <2>1, <2>2, ByKind DEF Minting1, Unit, DayOf, CurOf
<1> QED
  BY <1>1, <1>2, <1>3, ByKind

LEMMA TwoInFull ==
  ASSUME Known, PlaceInv, LocalsInv, FullAt, step >= 10
  PROVE  Len(body.minted) = 2
<1>1. step # 8 /\ step # 9 /\ step # 3 /\ InBody
  <2>1. InBody /\ step \in 1..15
    BY FullNows, SuiteShape DEF FullAt, Fulls, ScriptTypeOK, InBody, Scenarios, PlaceInv, FullNow
  <2> QED
    BY <2>1
<1>2. Now.op # "mint"
  BY <1>1, ByKind DEF PlaceInv, FullAt, OneAt, TwoAt
<1>3. step \in 1..15
  BY FullNows DEF PlaceInv, FullNow
<1>4. ~(step < 9) /\ step # 9
  BY <1>3
<1>5. Mints = 2
  BY <1>2, <1>4 DEF Mints, MintsBefore, FullAt, OneAt, TwoAt
<1> QED
  BY <1>5 DEF LocalsInv

LEMMA LocalsInvStep ==
  ASSUME Known, PlaceInv, LocalsInv, Next
  PROVE  LocalsInv'
<1>0. PICK m, s, w : body = [minted |-> m, sender |-> s, witnesses |-> w]
  BY DEF LocalsInv, IsLocals
<1>1. body.minted = m /\ body.sender = s /\ body.witnesses = w
  BY <1>0
<1>2. CASE Afresh
  <2>1. IsSeq(<<>>) /\ Len(<<>>) = 0
    <3>1. <<>> \in Seq({})
      OBVIOUS
    <3> QED
      BY <3>1 DEF IsSeq
  <2>2. body'.minted = <<>> /\ body'.witnesses = <<>> /\ IsLocals(body')
    BY <1>2 DEF Afresh, NoLocals, IsLocals
  <2>3. step' = 1 /\ mid' = "ready"
    BY <1>2 DEF Afresh, Ends
  <2>4. Mints' = 0 /\ Owns' = 0
    BY <2>3 DEF Mints, MintsBefore, Owns
  <2> QED
    BY <2>1, <2>2, <2>4 DEF LocalsInv
<1>3. CASE OneMinted
  <2>1. PICK id \in Now.ids : body' = [body EXCEPT !.minted = Append(@, Minting1(id))]
    BY <1>3 DEF OneMinted
  <2>2. body' = [minted |-> Append(m, Minting1(id)), sender |-> s, witnesses |-> w]
    BY <1>0, <2>1
  <2>3. IsLocals(body') /\ body'.minted = Append(m, Minting1(id)) /\ body'.witnesses = w
    BY <2>2 DEF IsLocals
  <2>4. Mints' = Mints + 1 /\ Owns' = Owns /\ Mints = MintsBefore
    BY <1>3, InsideCounts DEF OneMinted, Mints, Inside
  <2>5. IsSeq(body'.minted) /\ Len(body'.minted) = Mints'
    BY <1>1, <2>3, <2>4, Appended DEF LocalsInv
  <2>6. \A i \in 1..Len(m) : body'.minted[i] = m[i]
    BY <1>1, <2>3, Appended DEF LocalsInv
  <2>7. body'.minted[Len(m) + 1] = Unit(id, DayOf(Len(m) + 1), CurOf(Len(m) + 1)) /\ id \in IdsAt(at)
    <3>1. body'.minted[Len(m) + 1] = Minting1(id)
      BY <1>1, <2>3, Appended DEF LocalsInv
    <3>2. Len(m) = MintsBefore /\ InBody /\ Now.op = "mint"
      BY <1>1, <1>3, <2>4 DEF LocalsInv, OneMinted
    <3> QED
      BY <2>1, <3>1, <3>2, NextUnit DEF PlaceInv
  <2>8. \A i \in 1..Len(body'.minted) : \E k \in IdsAt(at) : body'.minted[i] = Unit(k, DayOf(i), CurOf(i))
    <3>1. Len(m) \in Nat /\ Len(body'.minted) = Len(m) + 1
      BY <1>1, <2>3, Appended DEF LocalsInv
    <3>2. \A i \in 1..Len(m) : \E k \in IdsAt(at) : m[i] = Unit(k, DayOf(i), CurOf(i))
      BY <1>1 DEF LocalsInv
    <3> QED
      BY <2>6, <2>7, <3>1, <3>2
  <2>9. at' = at /\ suite' = suite
    BY <1>3 DEF OneMinted, Inside
  <2> QED
    BY <1>1, <2>3, <2>4, <2>5, <2>8, <2>9 DEF LocalsInv, IdsAt, DayOf, CurOf, TwoAt, Fulls, Suite
<1>4. CASE ActorMade
  <2>1. FullAt /\ step = 11 /\ InBody
    BY <1>4, ByKind DEF ActorMade, PlaceInv
  <2>2. Len(m) = 2 /\ IsSeq(m)
    BY <1>1, <2>1, TwoInFull DEF LocalsInv
  <2>3. PICK q : q = InSubmittedOrder(m)
    OBVIOUS
  <2>4. body' = [minted |-> q, sender |-> at, witnesses |-> w]
    BY <1>0, <1>4, <2>3 DEF ActorMade
  <2>5. IsLocals(body') /\ body'.minted = q /\ body'.witnesses = w
    BY <2>4 DEF IsLocals
  <2>6. Mints' = Mints /\ Owns' = Owns
    <3>1. InBody /\ Onward /\ Now.op = "newActor"
      BY <1>4 DEF ActorMade
    <3> QED
      BY <3>1, OnwardCounts DEF Mints, Onward, PlaceInv
  <2>7. /\ \E k \in IdsAt(at) : m[1] = Unit(k, 1, "EUR")
        /\ \E k \in IdsAt(at) : m[2] = Unit(k, 1, "EUR")
    <3>1. ~TwoAt
      BY <2>1 DEF FullAt, TwoAt
    <3>2. DayOf(1) = 1 /\ DayOf(2) = 1 /\ CurOf(1) = "EUR" /\ CurOf(2) = "EUR"
      BY <3>1 DEF DayOf, CurOf
    <3>3. 1 \in 1..Len(m) /\ 2 \in 1..Len(m)
      BY <2>2
    <3>4. /\ \E k \in IdsAt(at) : m[1] = Unit(k, DayOf(1), CurOf(1))
          /\ \E k \in IdsAt(at) : m[2] = Unit(k, DayOf(2), CurOf(2))
      BY <1>1, <3>3 DEF LocalsInv
    <3> QED
      BY <3>2, <3>4
  <2>8. m[1].id \in Nat /\ m[2].id \in Nat
    BY <2>7, IdsAreNumbers DEF Unit
  <2>9. IsSeq(q) /\ Len(q) = 2 /\ ((q[1] = m[1] /\ q[2] = m[2]) \/ (q[1] = m[2] /\ q[2] = m[1]))
    BY <2>2, <2>3, <2>8, SortedLength
  <2>10. \A i \in 1..Len(q) : \E k \in IdsAt(at) : q[i] = Unit(k, 1, "EUR")
    BY <2>7, <2>9
  <2>11. at' = at /\ suite' = suite
    BY <1>4 DEF ActorMade, Onward
  <2>12. ~TwoAt'
    BY <2>1, <2>11 DEF FullAt, TwoAt, Fulls, Suite
  <2>13. \A i : DayOf(i)' = 1 /\ CurOf(i)' = "EUR"
    BY <2>12 DEF DayOf, CurOf
  <2>14. \A i \in 1..Len(body'.minted) : \E k \in IdsAt(at)' : body'.minted[i] = Unit(k, DayOf(i)', CurOf(i)')
    BY <2>5, <2>10, <2>11, <2>13 DEF IdsAt, Fulls, Suite
  <2> QED
    BY <1>1, <2>2, <2>5, <2>6, <2>9, <2>14 DEF LocalsInv
<1>5. CASE OneWitnessed
  <2>1. PICK e : e = Witness(Consent, body.minted[Now.nth], Binding(body.sender, DraftId, "L2"))
    OBVIOUS
  <2>2. body' = [minted |-> m, sender |-> s, witnesses |-> Append(w, e)]
    BY <1>0, <1>5, <2>1 DEF OneWitnessed
  <2>3. IsLocals(body') /\ body'.minted = m /\ body'.witnesses = Append(w, e)
    BY <2>2 DEF IsLocals
  <2>4. Mints' = Mints /\ Owns' = Owns + 1
    <3>1. InBody /\ Onward /\ Now.op = "own"
      BY <1>5 DEF OneWitnessed
    <3> QED
      BY <3>1, OnwardCounts DEF Mints, Onward, PlaceInv
  <2>5. IsSeq(body'.witnesses) /\ Len(body'.witnesses) = Owns'
    BY <1>1, <2>3, <2>4, Appended DEF LocalsInv
  <2>6. at' = at /\ suite' = suite
    BY <1>5 DEF OneWitnessed, Onward
  <2> QED
    BY <1>1, <2>3, <2>4, <2>5, <2>6 DEF LocalsInv, IdsAt, DayOf, CurOf, TwoAt, Fulls, Suite
<1>6. CASE LocalsKept
  <2>1. CASE Inside /\ (mid' = mid \/ Now.op # "mint")
    <3>1. Mints' = Mints /\ Owns' = Owns
      BY <2>1, InsideCounts DEF Mints
    <3>2. at' = at /\ suite' = suite
      BY <2>1 DEF Inside
    <3> QED
      BY <1>6, <3>1, <3>2 DEF LocalsInv, LocalsKept, IdsAt, DayOf, CurOf, TwoAt, Fulls, Suite
  <2>2. CASE InBody /\ Onward /\ Now.op \notin {"own", "newActor"} /\ (Now.op = "mint" => mid = "sent")
    <3>1. Mints' = Mints /\ Owns' = Owns
      BY <2>2, OnwardCounts DEF Mints, Onward, PlaceInv
    <3>2. at' = at /\ suite' = suite
      BY <2>2 DEF Onward
    <3> QED
      BY <1>6, <3>1, <3>2 DEF LocalsInv, LocalsKept, IdsAt, DayOf, CurOf, TwoAt, Fulls, Suite
  <2> QED
    BY <1>6, <2>1, <2>2 DEF LocalsKept
<1> QED
  BY <1>2, <1>3, <1>4, <1>5, <1>6, LocalsMove


-----------------------------------------------------------------------------
(* Whose the transactions are.                                             *)

IsUnit(j, u) == \E id \in IdsAt(j), day \in {1, 2}, cur \in {"EUR", "USD"} : u = Unit(id, day, cur)

OwnerOf(j) == IF Fulls /\ j \in {1, 5} THEN Header.owner ELSE Nobody

\* A transaction of scenario j: the drafts of S001 and S047 are a wallet's.
ByWallet(j) == Fulls /\ j \in {1, 5}
IsDraft(j, d) == d.id = j /\ d.owner = OwnerOf(j) /\ (ByWallet(j) => d.sender # Attester)
IsFrom(j, tx) ==
  \/ \E r \in RecordsOf(j) : tx = Filing(r)
  \/ \E u, rs : IsUnit(j, u) /\ rs \subseteq RecordsOf(j) /\ tx = Minting(u, rs)
  \/ \E d : IsDraft(j, d) /\ tx = Drafting(d)

\* The wallet of a full draft is the body's own.
SenderInv == FullAt /\ step >= 12 => body.sender = at

LEMMA Settled ==
  ASSUME Known, PlaceInv, LocalsKept
  PROVE  (FullAt /\ step >= 12)' => FullAt /\ step >= 12
<1>1. CASE Inside
  BY <1>1 DEF Inside, FullAt, Fulls, Suite
<1>2. CASE InBody /\ Onward /\ Now.op \notin {"own", "newActor"}
  <2>1. FullAt' => FullAt
    BY <1>2 DEF Onward, FullAt, Fulls, Suite
  <2>2. FullAt => step \in 1..15 /\ step # 11
    BY <1>2, FullNows DEF FullNow, PlaceInv
  <2>3. FullAt /\ step + 1 >= 12 => step >= 12
    BY <2>2
  <2> QED
    BY <1>2, <2>1, <2>3 DEF Onward
<1> QED
  BY <1>1, <1>2 DEF LocalsKept

LEMMA SenderInvStep ==
  ASSUME Known, PlaceInv, LocalsInv, SenderInv, Next
  PROVE  SenderInv'
<1>0. PICK m, s, w : body = [minted |-> m, sender |-> s, witnesses |-> w]
  BY DEF LocalsInv, IsLocals
<1>1. body.sender = s /\ ScriptTypeOK
  BY <1>0 DEF PlaceInv
<1>2. CASE Afresh
  BY <1>2 DEF Afresh, Ends, SenderInv
<1>3. CASE OneMinted
  <2>1. PICK u : body' = [body EXCEPT !.minted = Append(@, u)]
    BY <1>3 DEF OneMinted
  <2>2. body'.sender = s
    BY <1>0, <2>1
  <2> QED
    BY <1>1, <1>3, <2>2 DEF OneMinted, Inside, SenderInv, FullAt, Fulls, Suite
<1>4. CASE ActorMade
  <2>1. PICK q : q = InSubmittedOrder(m)
    OBVIOUS
  <2>2. body' = [minted |-> q, sender |-> at, witnesses |-> w]
    BY <1>0, <1>4, <2>1 DEF ActorMade
  <2>3. body'.sender = at /\ at' = at
    BY <1>4, <2>2 DEF ActorMade, Onward
  <2> QED
    BY <2>3 DEF SenderInv
<1>5. CASE OneWitnessed
  <2>1. FullAt /\ step \in {12, 13}
    BY <1>1, <1>5, ByKind DEF OneWitnessed
  <2>2. PICK e : body' = [body EXCEPT !.witnesses = Append(@, e)]
    BY <1>5 DEF OneWitnessed
  <2>3. body'.sender = s /\ s = at /\ at' = at
    BY <1>0, <1>1, <1>5, <2>1, <2>2 DEF SenderInv, OneWitnessed, Onward
  <2> QED
    BY <2>3 DEF SenderInv
<1>6. CASE LocalsKept
  <2>1. body' = body /\ at' = at
    BY <1>6 DEF LocalsKept, Inside, Onward
  <2> QED
    BY <1>6, <2>1, Settled DEF SenderInv
<1> QED
  BY <1>2, <1>3, <1>4, <1>5, <1>6, LocalsMove

\* What is under way is of scenarios that have ended, but for the last one while the body
\* waits for its receipt: that one is of the key the body waits for.
TrafficInv ==
  \A k \in 1..Len(flying) : \E j \in 1..at :
    IsFrom(j, flying[k]) /\ (j = at => mid = "sent" /\ k = Len(flying) /\ flying[k].by = Signer)

\* Something of that key is under way.
Underway == \E k \in 1..Len(flying) : flying[k].by = Signer

LEMMA SendableFrom ==
  ASSUME Known, PlaceInv, SenderInv, InBody, NEW tx, Sendable(tx)
  PROVE  IsFrom(at, tx) /\ tx.by = Signer
<1>0. ScriptTypeOK
  BY DEF PlaceInv
<1>1. CASE Now.op = "file"
  <2>1. Now.record \in RecordsOf(at) /\ tx = Filing(Now.record)
    BY <1>0, <1>1, ByKind DEF Sendable
  <2> QED
    BY <1>1, <2>1 DEF IsFrom, Filing, Signer
<1>2. CASE Now.op = "mint"
  <2>1. PICK id \in Now.ids : tx = Minting(Minting1(id), Now.recs)
    BY <1>2 DEF Sendable
  <2>2. Now.ids = IdsAt(at) /\ Now.recs \subseteq RecordsOf(at) /\ Now.day \in {1, 2} /\ Now.currency \in {"EUR", "USD"}
    BY <1>0, <1>2, NextUnit
  <2>3. IsUnit(at, Minting1(id))
    BY <2>2 DEF IsUnit, Minting1, Unit
  <2>4. tx.by = Attester
    BY <2>1 DEF Minting
  <2> QED
    BY <1>2, <2>1, <2>2, <2>3, <2>4 DEF IsFrom, Signer
<1>3. CASE Now.op \in {"refused", "gated"}
  <2>1. PICK d : d = Tried(Attester)
    OBVIOUS
  <2>2. d.id = at /\ d.owner = Nobody /\ d.sender = Attester /\ tx = Drafting(d) /\ tx.by = d.sender
    BY <1>3, <2>1 DEF Sendable, Tried, DraftId, Drafting
  <2>3. ~FullAt
    BY <1>0, <1>3, ByKind DEF FullAt, OneAt, TwoAt, AloneAt
  <2>4. d.owner = OwnerOf(at)
    BY <2>2, <2>3 DEF OwnerOf, FullAt
  <2> QED
    BY <1>3, <2>2, <2>3, <2>4 DEF IsFrom, IsDraft, ByWallet, FullAt, Signer
<1>4. CASE Now.op = "submit"
  <2>1. PICK d : d = FullDraftOf(Submitter)
    OBVIOUS
  <2>2. d.id = at /\ d.owner = Header.owner /\ d.sender = body.sender /\ tx = Drafting(d) /\ tx.by = d.sender
    BY <1>4, <2>1 DEF Sendable, FullDraftOf, DraftId, Drafting, Submitter
  <2>3. FullAt /\ step = 14
    BY <1>0, <1>4, ByKind
  <2>5. d.sender = at /\ at # Attester
    BY <2>2, <2>3 DEF SenderInv, FullAt, Attester
  <2>4. d.owner = OwnerOf(at)
    BY <2>2, <2>3 DEF OwnerOf, FullAt
  <2> QED
    BY <1>4, <2>2, <2>4, <2>5 DEF IsFrom, IsDraft, Signer, Submitter
<1> QED
  BY <1>1, <1>2, <1>3, <1>4 DEF Sendable

\* A body that waits for its receipt goes on when nothing of its key is under way, or ends.
LEMMA Waits ==
  ASSUME PlaceInv, Next, mid = "sent", Underway
  PROVE  Lands \/ (StoresKept /\ flying' = flying /\ \E v : Ends(v))
<1>1. CASE Land
  BY <1>1 DEF Land, Lands, LandsAt, scriptVars
<1>2. CASE RpcFault
  <2>1. ~Unanswered /\ ~Doing("gated")
    BY OutgoingSent DEF Unanswered, Doing
  <2>2. Ends("fail")
    BY <1>2, <2>1 DEF RpcFault, Faulty, Fail, End, Ends, Hit
  <2> QED
    BY <1>2, <2>1, <2>2 DEF RpcFault, StoresKept, draftVars
<1>3. ~(SendRecord \/ SendUnit \/ Receipt \/ Exist \/ TurnedDown \/ TakenUp
        \/ MakeActor \/ OwnUnit \/ SendDraft \/ OwnerRead \/ ProvedInFull)
  BY DEF SendRecord, SendUnit, Receipt, Exist, TurnedDown, TakenUp, MakeActor, OwnUnit,
     SendDraft, OwnerRead, ProvedInFull, Doing, Underway
<1> QED
  BY <1>1, <1>2, <1>3 DEF Next

\* Where the suite may be after a step.
LEMMA AtGrows ==
  ASSUME Known, PlaceInv, Next
  PROVE  /\ at \in Nat /\ at' \in {at, at + 1} /\ suite' = suite
         /\ (\E v : Ends(v)) => at' = at + 1
BY Steps, Numbers DEF PlaceInv, Inside, Onward, Passed, Failed, Ends

LEMMA SameFrom ==
  ASSUME suite' = suite, NEW j, NEW tx
  PROVE  /\ IsFrom(j, tx)' = IsFrom(j, tx)
         /\ IdsAt(j)' = IdsAt(j) /\ RecordsOf(j)' = RecordsOf(j) /\ OwnerOf(j)' = OwnerOf(j)
         /\ ByWallet(j)' = ByWallet(j)
<1>1. Fulls' = Fulls
  BY DEF Fulls, Suite
<1>2. IdsAt(j)' = IdsAt(j) /\ NameOf(j)' = NameOf(j) /\ OwnerOf(j)' = OwnerOf(j)
  BY <1>1 DEF IdsAt, NameOf, OwnerOf
<1>3. RecordsOf(j)' = RecordsOf(j) /\ ByWallet(j)' = ByWallet(j)
  BY <1>1, <1>2 DEF RecordsOf, ByWallet
<1> QED
  BY <1>2, <1>3 DEF IsFrom, IsUnit, IsDraft

\* Whose key a body waits for does not change while it waits.
LEMMA SameSigner ==
  ASSUME Inside, Now.op = "submit" => body' = body
  PROVE  Signer' = Signer
BY DEF Inside, Signer, Submitter, Now, Suite

LEMMA TrafficInvStep ==
  ASSUME Known, PlaceInv, LocalsInv, SenderInv, TrafficInv, Next
  PROVE  TrafficInv'
<1>0. at \in Nat /\ at' \in {at, at + 1} /\ suite' = suite
  BY AtGrows
<1> DEFINE Right(j, k) == IsFrom(j, flying[k]) /\ (j = at => mid = "sent" /\ k = Len(flying) /\ flying[k].by = Signer)
<1>1. CASE Calm
  <2>1. flying' = flying
    BY <1>1 DEF Calm
  <2> SUFFICES ASSUME NEW k \in 1..Len(flying) PROVE \E j \in 1..at' : Right(j, k)'
    BY <2>1 DEF TrafficInv
  <2>2. PICK j \in 1..at : Right(j, k)
    BY DEF TrafficInv
  <2>3. j # at'
    <3>1. CASE j # at
      BY <1>0, <3>1
    <3>2. CASE j = at
      <4>1. mid = "sent" /\ Underway
        BY <2>2, <3>2 DEF Underway
      <4>2. ~Lands
        <5>1. Lands => Len(flying') = Len(flying) - 1 /\ Len(flying) \in Nat
          BY Shortened DEF PlaceInv, Lands, LandsAt
        <5> QED
          BY <2>1, <5>1
      <4>3. at' = at + 1
        BY <4>1, <4>2, Waits, AtGrows
      <4> QED
        BY <1>0, <3>2, <4>3
    <3> QED
      BY <3>1, <3>2
  <2>4. j \in 1..at'
    BY <1>0
  <2>5. PICK tx : tx = flying[k]
    OBVIOUS
  <2>6. IsFrom(j, tx)'
    BY <1>0, <2>2, <2>5, SameFrom
  <2> QED
    BY <2>1, <2>3, <2>4, <2>5, <2>6
<1>2. CASE Lands
  <2>1. PICK i \in 1..Len(flying) : LandsAt(i)
    BY <1>2 DEF Lands, LandsAt
  <2>2. /\ Len(flying) \in Nat /\ Len(flying) >= 1 /\ Len(flying') = Len(flying) - 1
        /\ \A k \in 1..(Len(flying) - 1) : /\ flying'[k] = flying[Shifted(i, k)]
                                           /\ Shifted(i, k) \in 1..Len(flying)
    BY <2>1, Shortened DEF PlaceInv, LandsAt
  <2>3. at' = at /\ mid' = mid /\ Signer' = Signer
    BY <2>1, SameSigner DEF LandsAt, Inside
  <2> SUFFICES ASSUME NEW k \in 1..(Len(flying) - 1) PROVE \E j \in 1..at' : Right(j, k)'
    BY <2>2 DEF TrafficInv
  <2>4. PICK n \in 1..Len(flying) : n = Shifted(i, k) /\ flying'[k] = flying[n]
    BY <2>2
  <2>5. PICK j \in 1..at : Right(j, n)
    BY DEF TrafficInv
  <2>6. PICK tx : tx = flying[n]
    OBVIOUS
  <2>7. IsFrom(j, tx)' /\ flying'[k] = tx
    BY <1>0, <2>4, <2>5, <2>6, SameFrom
  <2>8. n = Len(flying) => k = Len(flying')
    BY <2>2, <2>4 DEF Shifted
  <2> QED
    BY <2>3, <2>5, <2>6, <2>7, <2>8
<1>3. CASE \E tx : Sendable(tx) /\ Sends(tx)
  <2>1. PICK tx : Sendable(tx) /\ Sends(tx)
    BY <1>3
  <2>2. /\ IsSeq(flying') /\ Len(flying) \in Nat /\ Len(flying') = Len(flying) + 1
        /\ flying'[Len(flying) + 1] = tx /\ \A i \in 1..Len(flying) : flying'[i] = flying[i]
    BY <2>1, Appended DEF Sends, PlaceInv
  <2> SUFFICES ASSUME NEW k \in 1..(Len(flying) + 1) PROVE \E j \in 1..at' : Right(j, k)'
    BY <2>2 DEF TrafficInv
  <2>3. CASE k \in 1..Len(flying)
    <3>1. mid = "ready"
      BY <2>1 DEF Sends
    <3>2. PICK j \in 1..at : Right(j, k) /\ j # at
      BY <2>3, <3>1 DEF TrafficInv
    <3>3. j \in 1..at' /\ j # at'
      BY <1>0, <3>2
    <3>4. PICK t : t = flying[k]
      OBVIOUS
    <3>5. IsFrom(j, t)' /\ flying'[k] = t
      BY <1>0, <2>2, <2>3, <3>2, <3>4, SameFrom
    <3> QED
      BY <3>3, <3>5
  <2>4. CASE k = Len(flying) + 1
    <3>1. InBody /\ IsFrom(at, tx) /\ tx.by = Signer
      BY <2>1, SendableFrom DEF Sends
    <3>2. at \in 1..at' /\ (at = at' => mid' = "sent" /\ Signer' = Signer)
      <4>1. at >= 1
        BY Numbers DEF PlaceInv, ScriptTypeOK
      <4>2. at = at' => mid' = "sent" /\ Inside /\ (Now.op = "submit" => body' = body)
        <5>1. ~(\E v : Ends(v)) \/ at' = at + 1
          BY AtGrows
        <5>3. at + 1 # at
          BY <1>0
        <5>2. at = at' => ~(\E v : Ends(v))
          BY <5>1, <5>3, Zenon
        <5> QED
          BY <2>1, <5>2 DEF Sends
      <4> QED
        BY <1>0, <4>1, <4>2, SameSigner
    <3>3. PICK j : j = at
      OBVIOUS
    <3>4. IsFrom(j, tx)'
      BY <1>0, <3>1, <3>3, SameFrom
    <3>5. flying'[k] = tx /\ k = Len(flying')
      BY <2>2, <2>4
    <3>6. j \in 1..at' /\ (j = at' => mid' = "sent" /\ tx.by = Signer')
      BY <3>1, <3>2, <3>3
    <3> QED
      BY <3>4, <3>5, <3>6
  <2> QED
    BY <2>2, <2>3, <2>4
<1> QED
  BY <1>1, <1>2, <1>3, Traffic


-----------------------------------------------------------------------------
(* What a block makes of them.                                             *)

Unmoved == UNCHANGED <<records, units, drafts>>
Filed(j, tx) ==
  \E r \in RecordsOf(j) :
    /\ tx = Filing(r)
    /\ records' = records \cup {r} /\ UNCHANGED <<units, drafts>>
Issued(j, tx) ==
  \E u, rs :
    /\ IsUnit(j, u) /\ rs \subseteq RecordsOf(j) /\ rs \subseteq records
    /\ tx = Minting(u, rs)
    /\ MintUnit(u) /\ records' = records \ rs /\ drafts' = drafts
Drafted(j, tx) ==
  \E d :
    /\ IsDraft(j, d) /\ tx = Drafting(d)
    /\ Refusal(d) = "none" /\ (ByWallet(j) => "dispatch" \in makes)
    /\ MintDraft(d) /\ UNCHANGED <<records, units>>

\* What holds when it leaves the stores as they are.
Spoiled(tx) == RefusalOf(tx) # "none" \/ ~Dispatched(tx)

LEMMA Landing ==
  ASSUME Known, PlaceInv, TrafficInv, NEW i, LandsAt(i), NEW tx, tx = flying[i]
  PROVE  \E j \in 1..at :
           /\ IsFrom(j, tx) /\ (j = at => mid = "sent" /\ i = Len(flying) /\ tx.by = Signer)
           /\ (Unmoved /\ Spoiled(tx)) \/ Filed(j, tx) \/ Issued(j, tx) \/ Drafted(j, tx)
<1>1. i \in 1..Len(flying) /\ Execute(tx)
  BY DEF LandsAt
<1>2. PICK j \in 1..at : IsFrom(j, tx) /\ (j = at => mid = "sent" /\ i = Len(flying) /\ tx.by = Signer)
  BY <1>1 DEF TrafficInv
<1>3. CASE Spoiled(tx)
  <2>1. Unmoved
    BY <1>1, <1>3 DEF Execute, Spoiled, Unmoved
  <2> QED
    BY <1>2, <1>3, <2>1
<1>4. CASE ~Spoiled(tx)
  <2>0. RefusalOf(tx) = "none" /\ Dispatched(tx)
    BY <1>4 DEF Spoiled
  <2>1. CASE \E r \in RecordsOf(j) : tx = Filing(r)
    <3>1. PICK r \in RecordsOf(j) : tx = Filing(r)
      BY <2>1
    <3>2. tx.to = "file" /\ tx.record = r
      BY <3>1 DEF Filing
    <3>3. records' = records \cup {tx.record} /\ UNCHANGED <<units, drafts>>
      BY <1>1, <2>0, <3>2 DEF Execute
    <3>4. Filed(j, tx)
      BY <3>1, <3>2, <3>3 DEF Filed
    <3> QED
      BY <1>2, <3>4
  <2>2. CASE \E u, rs : IsUnit(j, u) /\ rs \subseteq RecordsOf(j) /\ tx = Minting(u, rs)
    <3>1. PICK u, rs : IsUnit(j, u) /\ rs \subseteq RecordsOf(j) /\ tx = Minting(u, rs)
      BY <2>2
    <3>2. tx.to = "mint" /\ tx.unit = u /\ tx.recs = rs
      BY <3>1 DEF Minting
    <3>3. rs \subseteq records
      BY <2>0, <3>2 DEF RefusalOf
    <3>4. MintUnit(tx.unit) /\ records' = records \ tx.recs /\ drafts' = drafts
      BY <1>1, <2>0, <3>2 DEF Execute
    <3>5. Issued(j, tx)
      BY <3>1, <3>2, <3>3, <3>4 DEF Issued
    <3> QED
      BY <1>2, <3>5
  <2>3. CASE \E d : IsDraft(j, d) /\ tx = Drafting(d)
    <3>1. PICK d : IsDraft(j, d) /\ tx = Drafting(d)
      BY <2>3
    <3>2. tx.to = "draft" /\ tx.draft = d /\ tx.by = d.sender
      BY <3>1 DEF Drafting
    <3>3. Refusal(tx.draft) = "none"
      BY <2>0, <3>2 DEF RefusalOf
    <3>4. MintDraft(tx.draft) /\ UNCHANGED <<records, units>>
      BY <1>1, <2>0, <3>2 DEF Execute
    <3>5. ByWallet(j) => "dispatch" \in makes
      BY <2>0, <3>1, <3>2 DEF Dispatched, IsDraft
    <3>6. Drafted(j, tx)
      BY <3>1, <3>2, <3>3, <3>4, <3>5 DEF Drafted
    <3> QED
      BY <1>2, <3>6
  <2> QED
    BY <1>2, <2>1, <2>2, <2>3 DEF IsFrom
<1> QED
  BY <1>3, <1>4

-----------------------------------------------------------------------------
(* The units and the drafts there are.                                     *)

IsStored(j, u) ==
  \E id \in IdsAt(j), day \in {1, 2}, cur \in {"EUR", "USD"} :
    u = [id |-> id, owner |-> Kept(DerivedOwner(Consent, id)), day |-> day, currency |-> cur]

StoresInv ==
  /\ \A u \in units : \E j \in 1..at : IsStored(j, u)
  /\ IsFiniteSet(drafts)
  /\ \A d \in drafts :
       /\ d.id \in 1..at /\ d.id \in Scenarios
       /\ d.owner = Kept(OwnerOf(d.id))
       /\ d.index \in Nat /\ d.index < Cardinality(drafts)
       /\ ByWallet(d.id) => "dispatch" \in makes

LEMMA StoredUnit ==
  ASSUME NEW j, NEW u, IsUnit(j, u)
  PROVE  IsStored(j, [u EXCEPT !.owner = Kept(u.owner)])
BY DEF IsUnit, IsStored, Unit

LEMMA SameStored ==
  ASSUME suite' = suite, makes' = makes, NEW j, NEW u
  PROVE  IsStored(j, u)' = IsStored(j, u)
BY SameFrom DEF IsStored, Kept

LEMMA StoresInvStep ==
  ASSUME Known, PlaceInv, TrafficInv, StoresInv, Next
  PROVE  StoresInv'
<1>0. /\ at \in Nat /\ at' \in {at, at + 1} /\ suite' = suite /\ makes' = makes
      /\ 1..at \subseteq 1..at' /\ Scenarios' = Scenarios
  <2>1. makes' = makes
    BY Traffic DEF Calm, StoresKept, Sends, Lands, LandsAt
  <2>2. at \in Nat /\ at' \in {at, at + 1} /\ suite' = suite
    BY AtGrows
  <2> QED
    BY <2>1, <2>2 DEF Scenarios, Suite
<1>1. \A j \in 1..at : j \in 1..at'
  BY <1>0
<1>2. ASSUME units' = units PROVE \A u \in units' : \E j \in 1..at' : IsStored(j, u)'
  BY <1>0, <1>1, <1>2, SameStored DEF StoresInv
<1>3. \A i : Kept(OwnerOf(i))' = Kept(OwnerOf(i)) /\ ByWallet(i)' = ByWallet(i)
  BY <1>0, SameFrom DEF Kept
<1>4. ASSUME drafts' = drafts
      PROVE  /\ IsFiniteSet(drafts')
             /\ \A d \in drafts' :
                  /\ d.id \in 1..at' /\ d.id \in Scenarios'
                  /\ d.owner = Kept(OwnerOf(d.id))'
                  /\ d.index \in Nat /\ d.index < Cardinality(drafts')
                  /\ ByWallet(d.id)' => "dispatch" \in makes'
  BY <1>0, <1>1, <1>3, <1>4 DEF StoresInv
<1>5. CASE UNCHANGED <<units, drafts>>
  BY <1>2, <1>4, <1>5 DEF StoresInv
<1>6. CASE Lands
  <2>0. PICK i, tx : LandsAt(i) /\ tx = flying[i]
    BY <1>6 DEF Lands
  <2>1. PICK j \in 1..at :
          /\ IsFrom(j, tx) /\ (j = at => mid = "sent" /\ i = Len(flying) /\ tx.by = Signer)
          /\ (Unmoved /\ Spoiled(tx)) \/ Filed(j, tx) \/ Issued(j, tx) \/ Drafted(j, tx)
    BY <2>0, Landing
  <2>2. CASE Unmoved \/ Filed(j, tx)
    BY <1>5, <2>2 DEF Unmoved, Filed
  <2>3. CASE Issued(j, tx)
    <3>1. PICK u : IsUnit(j, u) /\ MintUnit(u) /\ drafts' = drafts
      BY <2>3 DEF Issued
    <3>2. PICK s : s = [u EXCEPT !.owner = Kept(u.owner)]
      OBVIOUS
    <3>3. IsStored(j, s) /\ units' = units \cup {s}
      BY <3>1, <3>2, StoredUnit DEF MintUnit
    <3>4. \A v \in units' : \E k \in 1..at' : IsStored(k, v)'
      BY <1>0, <1>1, <3>3, SameStored DEF StoresInv
    <3> QED
      BY <1>4, <3>1, <3>4 DEF StoresInv
  <2>4. CASE Drafted(j, tx)
    <3>1. PICK d : /\ d.id = j /\ d.owner = OwnerOf(j) /\ MintDraft(d) /\ UNCHANGED <<records, units>>
                   /\ ByWallet(j) => "dispatch" \in makes
      BY <2>4 DEF Drafted, IsDraft
    <3>2. PICK e : e = [id |-> d.id, sender |-> d.sender, owner |-> Kept(d.owner), units |-> d.units,
                        day |-> UnitAt(d.units[1]).day, currency |-> UnitAt(d.units[1]).currency,
                        index |-> Cardinality(drafts)]
      OBVIOUS
    <3>3. drafts' = drafts \cup {e} /\ e.id = j /\ e.owner = Kept(OwnerOf(j)) /\ e.index = Cardinality(drafts)
      BY <3>1, <3>2 DEF MintDraft
    <3>4. Cardinality(drafts) \in Nat
      BY FS_CardinalityType DEF StoresInv
    <3>5. e \notin drafts
      BY <3>3, <3>4 DEF StoresInv
    <3>6. IsFiniteSet(drafts') /\ Cardinality(drafts') = Cardinality(drafts) + 1
      BY <3>3, <3>5, FS_AddElement DEF StoresInv
    <3>7. j \in Scenarios /\ j \in 1..at'
      <4>1. j = at => InBody
        BY <2>1 DEF PlaceInv
      <4>2. at \in 1..(Len(Suite) + 1) /\ Scenarios = 1..Len(Suite) /\ Len(Suite) \in Nat
        BY Numbers DEF PlaceInv, ScriptTypeOK
      <4> QED
        BY <1>1, <4>1, <4>2 DEF InBody
    <3>8. \A x \in drafts : x.index \in Nat /\ x.index < Cardinality(drafts')
      <4>1. \A x \in drafts : x.index \in Nat /\ x.index < Cardinality(drafts)
        BY DEF StoresInv
      <4> QED
        BY <3>4, <3>6, <4>1
    <3>9. \A x \in drafts' :
            /\ x.id \in 1..at' /\ x.id \in Scenarios'
            /\ x.owner = Kept(OwnerOf(x.id))'
            /\ x.index \in Nat /\ x.index < Cardinality(drafts')
            /\ ByWallet(x.id)' => "dispatch" \in makes'
      BY <1>0, <1>1, <1>3, <3>1, <3>3, <3>4, <3>6, <3>7, <3>8 DEF StoresInv
    <3> QED
      BY <1>0, <1>2, <3>1, <3>6, <3>9 DEF StoresInv
  <2> QED
    BY <2>1, <2>2, <2>3, <2>4
<1> QED
  BY <1>5, <1>6, Traffic DEF Calm, StoresKept, Sends

\* The types of the units and drafts, and of the locals.
LEMMA TypesHold ==
  ASSUME Known, PlaceInv, LocalsInv, StoresInv
  PROVE  TypeOK
<1>1. \A u \in units : u.id \in Nat /\ u.day \in {1, 2} /\ u.currency \in {"EUR", "USD"}
  BY IdsAreNumbers DEF StoresInv, IsStored
<1>2. Len(body.witnesses) <= Len(body.minted)
  <2>1. CASE FullAt /\ step >= 13
    <3>1. Len(body.minted) = 2 /\ Owns \in {1, 2}
      <4>1. step >= 10
        BY <2>1, FullNows DEF PlaceInv, FullNow
      <4> QED
        BY <2>1, <4>1, TwoInFull DEF Owns
    <3> QED
      BY <3>1 DEF LocalsInv
  <2>2. CASE ~(FullAt /\ step >= 13)
    <3>1. Owns = 0 /\ Mints \in Nat
      BY <2>2 DEF Owns, Mints, MintsBefore
    <3> QED
      BY <3>1 DEF LocalsInv
  <2> QED
    BY <2>1, <2>2
<1> QED
  BY <1>1, <1>2 DEF TypeOK, PlaceInv, StoresInv

-----------------------------------------------------------------------------
(* The contract's checks.                                                  *)

Nonempty(d) == d.units # <<>>
Ascends(d) == \A i \in 1..(Len(d.units) - 1) : d.units[i] < d.units[i + 1]
AllFound(d) == \A id \in Ids(d) : \E u \in units : u.id = id
OneDay(d) == Cardinality({UnitAt(id).day : id \in Ids(d)}) <= 1
OneCurrency(d) == Cardinality({UnitAt(id).currency : id \in Ids(d)}) <= 1
Roomy(d) == d.proof.words >= Len(Expected(d))
Counted(d) == d.proof.count = Len(Expected(d))
Matches(d) == d.proof.inputs = Expected(d)

Guard(check, holds, error) == [check |-> check, holds |-> holds, error |-> error]
GuardIs(g, check, holds, error) == g.check = check /\ (g.holds <=> holds) /\ g.error = error

LEMMA GuardList ==
  ASSUME NEW d, NEW g, g = Guards(d)
  PROVE  /\ DOMAIN g = 1..9
         /\ GuardIs(g[1], "empty", Nonempty(d), "EmptyArray")
         /\ GuardIs(g[2], "ascending", Ascends(d), "SuIdsNotAscending")
         /\ GuardIs(g[3], "found", AllFound(d), "NotFound")
         /\ GuardIs(g[4], "day", OneDay(d), "NotSameWorldwideDay")
         /\ GuardIs(g[5], "currency", OneCurrency(d), "NotSameCurrency")
         /\ GuardIs(g[6], "length", Roomy(d), "MalformedAggregationProof")
         /\ GuardIs(g[7], "count", Counted(d), "MalformedAggregationProof")
         /\ GuardIs(g[8], "inputs", Matches(d), "InvalidAggregationProof")
         /\ GuardIs(g[9], "snark", d.proof.snark, "InvalidAggregationProof")
<1>1. \A c, h, e : GuardIs(Guard(c, h, e), c, h, e)
  BY DEF Guard, GuardIs
<1>2. g = << Guard("empty", Nonempty(d), "EmptyArray"),
             Guard("ascending", Ascends(d), "SuIdsNotAscending"),
             Guard("found", AllFound(d), "NotFound"),
             Guard("day", OneDay(d), "NotSameWorldwideDay"),
             Guard("currency", OneCurrency(d), "NotSameCurrency"),
             Guard("length", Roomy(d), "MalformedAggregationProof"),
             Guard("count", Counted(d), "MalformedAggregationProof"),
             Guard("inputs", Matches(d), "InvalidAggregationProof"),
             Guard("snark", d.proof.snark, "InvalidAggregationProof") >>
  BY DEF Guards, Guard, Nonempty, Ascends, AllFound, OneDay, OneCurrency, Roomy, Counted, Matches
<1> QED
  BY <1>1, <1>2

LabelIs(g, check, error) == g.check = check /\ g.error = error

LEMMA GuardLabels ==
  ASSUME NEW d, NEW g, g = Guards(d)
  PROVE  /\ LabelIs(g[1], "empty", "EmptyArray")
         /\ LabelIs(g[2], "ascending", "SuIdsNotAscending")
         /\ LabelIs(g[3], "found", "NotFound")
         /\ LabelIs(g[4], "day", "NotSameWorldwideDay")
         /\ LabelIs(g[5], "currency", "NotSameCurrency")
         /\ LabelIs(g[6], "length", "MalformedAggregationProof")
         /\ LabelIs(g[7], "count", "MalformedAggregationProof")
         /\ LabelIs(g[8], "inputs", "InvalidAggregationProof")
         /\ LabelIs(g[9], "snark", "InvalidAggregationProof")
<1>1. /\ GuardIs(g[1], "empty", Nonempty(d), "EmptyArray")
      /\ GuardIs(g[2], "ascending", Ascends(d), "SuIdsNotAscending")
      /\ GuardIs(g[3], "found", AllFound(d), "NotFound")
      /\ GuardIs(g[4], "day", OneDay(d), "NotSameWorldwideDay")
      /\ GuardIs(g[5], "currency", OneCurrency(d), "NotSameCurrency")
      /\ GuardIs(g[6], "length", Roomy(d), "MalformedAggregationProof")
      /\ GuardIs(g[7], "count", Counted(d), "MalformedAggregationProof")
      /\ GuardIs(g[8], "inputs", Matches(d), "InvalidAggregationProof")
      /\ GuardIs(g[9], "snark", d.proof.snark, "InvalidAggregationProof")
  BY GuardList
<1> QED
  BY <1>1 DEF GuardIs, LabelIs

Fails(g, n) == g[n].check \in makes /\ ~g[n].holds

LEMMA FirstFails ==
  ASSUME NEW d, NEW g, g = Guards(d), NEW n \in 1..9, Fails(g, n),
         \A k \in 1..9 : k < n => ~Fails(g, k)
  PROVE  Refusal(d) = g[n].error
<1> DEFINE failing == {k \in DOMAIN g : g[k].check \in makes /\ ~g[k].holds}
<1>1. failing = {k \in 1..9 : Fails(g, k)}
  BY GuardList DEF Fails
<1>2. n \in failing
  BY <1>1
<1>3. \A m : m \in failing /\ (\A k \in failing : m <= k) => m = n
  BY <1>1, <1>2
<1>4. \A k \in failing : n <= k
  BY <1>1
<1>5. n = CHOOSE m \in failing : \A k \in failing : m <= k
  <2> HIDE DEF failing
  <2> QED
    BY <1>2, <1>3, <1>4
<1>6. failing # {}
  BY <1>2
<1> QED
  BY <1>5, <1>6 DEF Refusal

LEMMA NoneFails ==
  ASSUME NEW d, NEW g, g = Guards(d), \A k \in 1..9 : ~Fails(g, k)
  PROVE  Refusal(d) = "none"
<1>1. {k \in DOMAIN g : g[k].check \in makes /\ ~g[k].holds} = {}
  BY GuardList DEF Fails
<1> QED
  BY <1>1 DEF Refusal

LEMMA SomeFails ==
  ASSUME NEW d, NEW g, g = Guards(d), Refusal(d) # "none"
  PROVE  \E n \in 1..9 :
           Fails(g, n) /\ Refusal(d) = g[n].error /\ \A k \in 1..9 : k < n => ~Fails(g, k)
<1> DEFINE T == {k \in 1..9 : Fails(g, k)}
<1>1. T # {}
  BY NoneFails
<1>2. PICK n \in T : \A k \in T : n <= k
  BY <1>1, LeastNumber
<1>3. n \in 1..9 /\ Fails(g, n) /\ \A k \in 1..9 : k < n => ~Fails(g, k)
  BY <1>2
<1> QED
  BY <1>3, FirstFails

\* Which checks an error tells of.
LEMMA ErrorsTell ==
  ASSUME NEW d
  PROVE  /\ Refusal(d) = "NotFound" => "found" \in makes
         /\ Refusal(d) = "NotSameWorldwideDay" => "day" \in makes
         /\ Refusal(d) = "NotSameCurrency" => "currency" \in makes
         /\ Refusal(d) = "MalformedAggregationProof" => "length" \in makes \/ "count" \in makes
         /\ Refusal(d) = "InvalidAggregationProof" => "inputs" \in makes \/ "snark" \in makes
<1>1. PICK g : g = Guards(d)
  OBVIOUS
<1>2. CASE Refusal(d) = "none"
  BY <1>2
<1>3. CASE Refusal(d) # "none"
  <2>1. PICK n \in 1..9 : Fails(g, n) /\ Refusal(d) = g[n].error
    BY <1>1, <1>3, SomeFails
  <2>2. n \in {1, 2, 3, 4, 5, 6, 7, 8, 9}
    BY <2>1
  <2>3. g[n].check \in makes
    BY <2>1 DEF Fails
  <2>4. PICK r : r = Refusal(d)
    OBVIOUS
  <2>5. /\ g[1].error = "EmptyArray" /\ g[2].error = "SuIdsNotAscending"
        /\ g[3].check = "found" /\ g[3].error = "NotFound"
        /\ g[4].check = "day" /\ g[4].error = "NotSameWorldwideDay"
        /\ g[5].check = "currency" /\ g[5].error = "NotSameCurrency"
        /\ g[6].check = "length" /\ g[6].error = "MalformedAggregationProof"
        /\ g[7].check = "count" /\ g[7].error = "MalformedAggregationProof"
        /\ g[8].check = "inputs" /\ g[8].error = "InvalidAggregationProof"
        /\ g[9].check = "snark" /\ g[9].error = "InvalidAggregationProof"
    BY <1>1, GuardLabels, SMT DEF LabelIs
  <2>6. r = g[n].error
    BY <2>1, <2>4
  <2>7. /\ r = "NotFound" => "found" \in makes
        /\ r = "NotSameWorldwideDay" => "day" \in makes
        /\ r = "NotSameCurrency" => "currency" \in makes
        /\ r = "MalformedAggregationProof" => "length" \in makes \/ "count" \in makes
        /\ r = "InvalidAggregationProof" => "inputs" \in makes \/ "snark" \in makes
    BY <2>2, <2>3, <2>5, <2>6
  <2> QED
    BY <2>4, <2>7
<1> QED
  BY <1>2, <1>3

-----------------------------------------------------------------------------
(* What green runs show.                                                   *)

\* How a scenario passes.
LEMMA Passes ==
  ASSUME Known, PlaceInv, Next, InBody, at' = at + 1, verdict'[at] = "pass"
  PROVE  /\ step = Len(Suite[at])
         /\ Now.op = "refused" => Refusal(Tried(Attester)) \in Now.wants
         /\ Now.op = "readBack" => MyDraft.owner = Header.owner
         /\ Now.op = "proveFull" => ProvedInFull
<1>1. at \in Scenarios /\ verdict \in [Scenarios -> {"todo", "pass", "fail"}] /\ at \in Nat
  BY Numbers DEF InBody, PlaceInv, ScriptTypeOK
<1>2. ~Inside /\ ~Onward
  BY <1>1 DEF Inside, Onward
<1>3. ~Failed
  BY <1>1 DEF Failed, Ends
<1>4. Passed
  BY <1>2, <1>3, Steps
<1>5. step = Len(Suite[at])
  BY <1>4 DEF Passed
<1>6. ~Fail
  BY <1>1 DEF Fail, End
<1>7. CASE Now.op = "refused"
  <2>1. CASE TurnedDown
    BY <1>5, <1>6, <1>7, <2>1 DEF TurnedDown
  <2>2. CASE TakenUp
    BY <1>5, <1>6, <1>7, <2>2 DEF TakenUp
  <2>3. CASE RpcFault
    BY <1>5, <1>6, <1>7, <2>3 DEF RpcFault, Doing
  <2>4. ~(SendRecord \/ SendUnit \/ Receipt \/ Exist \/ MakeActor \/ OwnUnit \/ SendDraft
          \/ OwnerRead \/ ProvedInFull)
    BY <1>7 DEF SendRecord, SendUnit, Receipt, Exist, MakeActor, OwnUnit, SendDraft,
       OwnerRead, ProvedInFull, Doing, PlaceInv
  <2>5. ~Land
    BY <1>1 DEF Land, scriptVars
  <2> QED
    BY <1>5, <1>7, <2>1, <2>2, <2>3, <2>4, <2>5 DEF Next
<1>8. CASE Now.op \in {"readBack", "proveFull"}
  <2>1. ~RpcFault
    BY <1>6, <1>8 DEF RpcFault, Doing
  <2>2. ~(SendRecord \/ SendUnit \/ Receipt \/ Exist \/ TurnedDown \/ TakenUp
          \/ MakeActor \/ OwnUnit \/ SendDraft)
    BY <1>8 DEF SendRecord, SendUnit, Receipt, Exist, TurnedDown, TakenUp, MakeActor, OwnUnit,
       SendDraft, Doing, PlaceInv
  <2>3. ~Land
    BY <1>1 DEF Land, scriptVars
  <2>4. OwnerRead \/ ProvedInFull
    BY <2>1, <2>2, <2>3 DEF Next
  <2>5. OwnerRead => Now.op = "readBack" /\ MyDraft.owner = Header.owner
    BY <1>6 DEF OwnerRead, Doing
  <2>6. ProvedInFull => Now.op = "proveFull"
    BY DEF ProvedInFull, Doing
  <2> QED
    BY <1>5, <1>8, <2>4, <2>5, <2>6
<1> QED
  BY <1>5, <1>7, <1>8

\* A full draft has been minted when its body reads it.
MintedInv == FullAt /\ step = 15 => \E d \in drafts : d.id = at

LEMMA DraftsStay ==
  ASSUME Known, PlaceInv, TrafficInv, Next
  PROVE  drafts \subseteq drafts'
<1>1. CASE Lands
  BY <1>1, Landing DEF Lands, Unmoved, Filed, Issued, Drafted, MintDraft
<1> QED
  BY <1>1, Traffic DEF Calm, Sends, StoresKept

LEMMA MintedInvStep ==
  ASSUME Known, PlaceInv, TrafficInv, MintedInv, Next
  PROVE  MintedInv'
<1>1. CASE Inside
  BY <1>1, DraftsStay DEF Inside, MintedInv, FullAt, Fulls, Suite
<1>2. CASE InBody /\ (Passed \/ Failed)
  <2>1. step' = 1
    BY <1>2 DEF Passed, Failed, Ends
  <2> QED
    BY <2>1 DEF MintedInv
<1>3. CASE InBody /\ Onward
  <2> SUFFICES ASSUME FullAt', step' = 15 PROVE \E d \in drafts' : d.id = at'
    BY DEF MintedInv
  <2>1. at' = at /\ step' = step + 1 /\ FullAt
    BY <1>3 DEF Onward, FullAt, Fulls, Suite
  <2>2. step = 14 /\ Now.op = "submit"
    BY <2>1, FullNows DEF FullNow, PlaceInv
  <2>3. ~(SendRecord \/ SendUnit \/ Exist \/ TurnedDown \/ TakenUp
          \/ MakeActor \/ OwnUnit \/ OwnerRead \/ ProvedInFull)
    BY <2>2 DEF SendRecord, SendUnit, Exist, TurnedDown, TakenUp, MakeActor, OwnUnit,
       OwnerRead, ProvedInFull, Doing
  <2>4. at \in Nat /\ step \in Nat
    BY <2>2, Numbers DEF PlaceInv
  <2>5. ~(SendDraft \/ RpcFault \/ Land)
    BY <2>1, <2>2, <2>4 DEF SendDraft, RpcFault, Land, scriptVars, Doing, Reach, Fail, End
  <2>6. Receipt /\ ~Fail
    BY <2>1, <2>3, <2>4, <2>5 DEF Next, Fail, End
  <2>7. \E d \in drafts : d.id = at
    BY <2>2, <2>6 DEF Receipt, DraftId
  <2> QED
    BY <2>1, <2>7, DraftsStay
<1> QED
  BY <1>1, <1>2, <1>3, Steps

Shown(i) ==
  /\ Fulls /\ i \in {1, 5} => "dispatch" \in makes
  /\ Fulls /\ i = 1 => "keeps" \in makes
  /\ Fulls /\ i = 4 => "found" \in makes
  /\ Fulls /\ i = 5 => "leaf" \in makes
  /\ ~Fulls /\ i = 1 => makes \cap {"length", "count"} # {}
  /\ ~Fulls /\ i = 2 => makes \cap {"inputs", "snark"} # {}
  /\ ~Fulls /\ i = 3 => "day" \in makes
  /\ ~Fulls /\ i = 4 => "currency" \in makes

ShownInv == \A i \in Scenarios : verdict[i] = "pass" => Shown(i)

\* What the last step of a full draft's scenario shows.
LEMMA FullShown ==
  ASSUME Known, NobodyElse, PlaceInv, StoresInv, MintedInv, Next,
         FullAt, at' = at + 1, verdict'[at] = "pass"
  PROVE  Shown(at)
<1>1. InBody
  <2>1. ScriptTypeOK
    BY DEF PlaceInv
  <2> QED
    BY <2>1, SuiteShape DEF FullAt, Fulls, ScriptTypeOK, InBody, Scenarios
<1>2. step = 15 /\ Now.op = LastOp
  <2>1. step = Len(Suite[at]) /\ Len(Suite[at]) = 15
    BY <1>1, Passes, Lengths DEF PlaceInv, ScriptTypeOK
  <2> QED
    BY <2>1, FullNows DEF PlaceInv, FullNow
<1>3. \E d \in drafts : d.id = at
  BY <1>2 DEF MintedInv
<1>4. MyDraft \in drafts /\ MyDraft.id = at
  BY <1>3 DEF MyDraft, DraftId
<1>5. "dispatch" \in makes
  BY <1>3 DEF StoresInv, ByWallet, FullAt
<1>6. MyDraft.owner = Kept(Header.owner)
  <2>1. MyDraft.owner = Kept(OwnerOf(MyDraft.id))
    BY <1>4 DEF StoresInv
  <2>2. OwnerOf(at) = Header.owner
    BY DEF OwnerOf, FullAt
  <2> QED
    BY <1>4, <2>1, <2>2
<1>7. CASE at = 1
  <2>1. MyDraft.owner = Header.owner
    BY <1>1, <1>2, <1>7, Passes DEF LastOp
  <2>2. "keeps" \in makes
    BY <1>6, <2>1 DEF Kept, NobodyElse
  <2> QED
    BY <1>5, <1>7, <2>2 DEF Shown, FullAt
<1>8. CASE at = 5
  <2>1. ProvedInFull
    BY <1>1, <1>2, <1>8, Passes DEF LastOp
  <2>2. ~Fail
    <3>1. at \in Scenarios /\ verdict \in [Scenarios -> {"todo", "pass", "fail"}]
      BY <1>1 DEF InBody, PlaceInv, ScriptTypeOK
    <3> QED
      BY <3>1 DEF Fail, End
  <2>3. PICK own : own = OwnershipOf(Header, DraftId, MyDraft)
    OBVIOUS
  <2>4. own.hash = LeafOf(MyDraft)
    BY <2>1, <2>2, <2>3 DEF ProvedInFull
  <2>5. own.hash = DraftHash(DraftId, Header.owner, MyDraft)
    BY <2>3 DEF OwnershipOf
  <2>6. "leaf" \in makes
    BY <2>4, <2>5 DEF LeafOf, NobodyElse
  <2> QED
    BY <1>5, <1>8, <2>6 DEF Shown, FullAt
<1> QED
  BY <1>7, <1>8 DEF FullAt

\* What a scenario shows that waits for an error.
LEMMA RefusedShown ==
  ASSUME Known, PlaceInv, Next, InBody, ~FullAt, at' = at + 1, verdict'[at] = "pass"
  PROVE  Shown(at)
<1>0. step = Len(Suite[at]) /\ (Now.op = "refused" => Refusal(Tried(Attester)) \in Now.wants)
  BY Passes
<1>1. PICK d : d = Tried(Attester)
  OBVIOUS
<1>2. PICK r : r = Refusal(d)
  OBVIOUS
<1>3. Now.op = "refused" => r \in Now.wants
  BY <1>0, <1>1, <1>2
<1>4. /\ r = "NotFound" => "found" \in makes
      /\ r = "NotSameWorldwideDay" => "day" \in makes
      /\ r = "NotSameCurrency" => "currency" \in makes
      /\ r = "MalformedAggregationProof" => "length" \in makes \/ "count" \in makes
      /\ r = "InvalidAggregationProof" => "inputs" \in makes \/ "snark" \in makes
  BY <1>2, ErrorsTell
<1>5. CASE AloneAt /\ AloneNow
  BY <1>3, <1>4, <1>5 DEF AloneAt, AloneNow, Shown
<1>6. CASE OneAt /\ OneNow
  <2>1. step = 5
    BY <1>0, <1>6, Lengths DEF PlaceInv, ScriptTypeOK
  <2> QED
    BY <1>3, <1>4, <1>6, <2>1 DEF OneAt, OneNow, Shown
<1>7. CASE TwoAt /\ TwoNow
  <2>1. step = 9
    BY <1>0, <1>7, Lengths DEF PlaceInv, ScriptTypeOK
  <2> QED
    BY <1>3, <1>4, <1>7, <2>1 DEF TwoAt, TwoNow, Shown
<1> QED
  BY <1>5, <1>6, <1>7, Nows DEF PlaceInv

LEMMA ShownInvStep ==
  ASSUME Known, NobodyElse, PlaceInv, TrafficInv, StoresInv, MintedInv, ShownInv, Next
  PROVE  ShownInv'
<1>1. makes' = makes
  BY Traffic DEF Calm, StoresKept, Sends, Lands, LandsAt
<1>2. suite' = suite
  BY AtGrows
<1>3. Scenarios' = Scenarios /\ \A i : Shown(i)' = Shown(i)
  BY <1>1, <1>2 DEF Scenarios, Suite, Shown, Fulls
<1>4. CASE verdict' = verdict
  BY <1>3, <1>4 DEF ShownInv
<1>5. CASE verdict' # verdict
  <2>1. InBody /\ at' = at + 1 /\ \E v : verdict' = [verdict EXCEPT ![at] = v]
    BY <1>5, Steps DEF Inside, Onward, Passed, Failed, Ends
  <2>2. \A i \in Scenarios : i # at => verdict'[i] = verdict[i]
    BY <2>1 DEF PlaceInv, ScriptTypeOK
  <2>3. verdict'[at] = "pass" => Shown(at)
    BY <2>1, FullShown, RefusedShown
  <2> QED
    BY <1>3, <2>2, <2>3 DEF ShownInv
<1> QED
  BY <1>4, <1>5

\* Green runs.
LEMMA GreenHolds ==
  ASSUME Known, PlaceInv, ShownInv
  PROVE  GreenMeansChecked
<1> SUFFICES ASSUME Green PROVE GreenMeansChecked
  BY DEF GreenMeansChecked
<1>1. \A i \in Scenarios : Shown(i)
  BY DEF Green, ShownInv
<1>2. ASSUME Suite = FullSuite PROVE {"found", "dispatch", "keeps", "leaf"} \subseteq makes
  <2>1. Fulls /\ Scenarios = 1..5
    BY <1>2, SuiteShape DEF Fulls, PlaceInv, ScriptTypeOK, Scenarios
  <2>2. Shown(1) /\ Shown(4) /\ Shown(5)
    BY <1>1, <2>1
  <2> QED
    BY <2>1, <2>2 DEF Shown
<1>3. ASSUME Suite = RefusalSuite
      PROVE  /\ {"day", "currency"} \subseteq makes
             /\ makes \cap {"length", "count"} # {}
             /\ makes \cap {"inputs", "snark"} # {}
  <2>1. ~Fulls
    <3>1. Len(FullSuite) = 5 /\ Len(RefusalSuite) = 4
      BY DEF FullSuite, RefusalSuite
    <3> QED
      BY <1>3, <3>1 DEF Fulls
  <2>2. Scenarios = 1..4
    BY <2>1, SuiteShape DEF PlaceInv, ScriptTypeOK, Scenarios
  <2>3. Shown(1) /\ Shown(2) /\ Shown(3) /\ Shown(4)
    BY <1>1, <2>2
  <2> QED
    BY <2>1, <2>3 DEF Shown
<1> QED
  BY <1>2, <1>3 DEF GreenMeansChecked


-----------------------------------------------------------------------------
(* On a node that makes every check.                                       *)

Mine == flying[Len(flying)]
LastMinted == body.minted[Len(body.minted)]
Pending == mid = "sent" /\ Now.op = "mint" /\ Underway

\* What the body waits for is under way with what it needs, or is done.
SentInv ==
  mid = "sent" =>
    /\ Now.op # "gated"
    /\ Now.op = "file" => IF Underway THEN Mine = Filing(Now.record) ELSE Now.record \in records
    /\ Now.op = "mint" /\ Underway => Mine = Minting(LastMinted, Now.recs) /\ Now.recs \subseteq records
    /\ Now.op = "submit" => IF Underway THEN Mine = Drafting(FullDraftOf(Submitter))
                                        ELSE \E d \in drafts : d.id = DraftId

\* The units under the body's ids are those it has minted.
UnitsInv ==
  /\ \A i, k \in 1..Len(body.minted) : body.minted[i].id = body.minted[k].id => i = k
  /\ \A i \in 1..Len(body.minted) : body.minted[i] \in units \/ (i = Len(body.minted) /\ Pending)
  /\ \A u \in units : u.id \in IdsAt(at) => \E i \in 1..Len(body.minted) : u = body.minted[i]

\* The units of a full draft are in order, and each witness is of its unit.
WitnessInv ==
  /\ FullAt /\ step >= 12 => body.minted[1].id < body.minted[2].id
  /\ \A i \in 1..Len(body.witnesses) :
       body.witnesses[i] = Witness(Consent, body.minted[i], Binding(body.sender, DraftId, "L2"))

GoodInv ==
  makes = Checks => SentInv /\ UnitsInv /\ WitnessInv /\ \A i \in Scenarios : verdict[i] = "fail" => i \in faulted

LEMMA OthersIds ==
  ASSUME NEW j, NEW k, NEW id, id \in IdsAt(j), id \in IdsAt(k)
  PROVE  j = k
BY DEF IdsAt

LEMMA OthersRecords ==
  ASSUME Known, PlaceInv, InBody, Now.op \in {"file", "mint"}, NEW j \in 1..at, j # at
  PROVE  RecordsOf(j) \cap RecordsOf(at) = {}
<1>1. FullAt \/ OneAt \/ TwoAt
  <2>1. ~AloneAt
    BY AloneNows DEF AloneAt, AloneNow, PlaceInv
  <2> QED
    BY <2>1, Where DEF PlaceInv, ScriptTypeOK
<1>2. NameOf(j) # NameOf(at)
  <2>1. CASE FullAt
    BY <2>1 DEF FullAt, NameOf
  <2>2. CASE OneAt
    BY <2>2 DEF OneAt, NameOf
  <2>3. CASE TwoAt
    BY <2>3 DEF TwoAt, NameOf
  <2> QED
    BY <1>1, <2>1, <2>2, <2>3
<1> QED
  BY <1>2 DEF RecordsOf

\* What the body waits for is of its key, and the last of it to be sent.
LEMMA MineSigned ==
  ASSUME PlaceInv, SentInv, mid = "sent", Underway
  PROVE  Mine.by = Signer
<1>1. Now.op \in {"file", "mint", "submit"}
  BY DEF PlaceInv, SentInv
<1>2. CASE Now.op = "file"
  BY <1>2 DEF SentInv, Filing, Signer
<1>3. CASE Now.op = "mint"
  BY <1>3 DEF SentInv, Minting, Signer
<1>4. CASE Now.op = "submit"
  <2>1. PICK d : d = FullDraftOf(Submitter)
    OBVIOUS
  <2>2. Mine = Drafting(d) /\ d.sender = Submitter
    BY <1>4, <2>1 DEF SentInv, FullDraftOf
  <2> QED
    BY <1>4, <2>2 DEF Drafting, Signer
<1> QED
  BY <1>1, <1>2, <1>3, <1>4

LEMMA MineLands ==
  ASSUME PlaceInv, SentInv, mid = "sent", NEW i, LandsAt(i), Underway
  PROVE  /\ ~Underway' => i = Len(flying) /\ flying[i] = Mine
         /\ Underway' => i # Len(flying) /\ Mine' = Mine
<1>1. PICK n : n = Len(flying)
  OBVIOUS
<1>2. /\ i \in 1..n /\ n \in Nat /\ n >= 1 /\ Len(flying') = n - 1 /\ flying' = RemoveAt(flying, i)
      /\ \A k \in 1..(n - 1) : flying'[k] = flying[Shifted(i, k)]
  BY <1>1, Shortened DEF LandsAt, PlaceInv
<1>3. Signer' = Signer
  BY SameSigner DEF LandsAt, Inside
<1>4. flying[n].by = Signer
  BY <1>1, MineSigned DEF Mine
<1>5. CASE i = n
  <2>1. ASSUME NEW k \in 1..(n - 1) PROVE flying'[k].by # Signer
    <3>1. k \in 1..(i - 1) /\ Shifted(i, k) = k
      BY <1>2, <1>5 DEF Shifted
    <3> QED
      BY <1>2, <1>4, <1>5, <3>1 DEF LandsAt
  <2>2. ~Underway'
    BY <1>2, <1>3, <2>1 DEF Underway
  <2> QED
    BY <1>1, <1>5, <2>2 DEF Mine
<1>6. CASE i # n
  <2>1. n - 1 \in 1..(n - 1) /\ Shifted(i, n - 1) = n
    BY <1>2, <1>6 DEF Shifted
  <2>2. flying'[n - 1] = flying[n]
    BY <1>2, <2>1
  <2>3. Underway'
    BY <1>2, <1>3, <1>4, <2>1, <2>2 DEF Underway
  <2> QED
    BY <1>1, <1>2, <1>6, <2>2, <2>3 DEF Mine
<1> QED
  BY <1>5, <1>6

\* A unit of the body is what the contract shows under its id.
LEMMA UnitShown ==
  ASSUME LocalsInv, UnitsInv, ~Pending, NEW i \in 1..Len(body.minted)
  PROVE  /\ body.minted[i] \in units
         /\ UnitAt(body.minted[i].id) = body.minted[i]
         /\ \E id \in IdsAt(at) : body.minted[i] = Unit(id, DayOf(i), CurOf(i))
<1>1. body.minted[i] \in units
  BY DEF UnitsInv
<1>2. PICK id \in IdsAt(at) : body.minted[i] = Unit(id, DayOf(i), CurOf(i))
  BY DEF LocalsInv
<1>3. body.minted[i].id = id
  BY <1>2 DEF Unit
<1>4. PICK v : v = UnitAt(id)
  OBVIOUS
<1>5. v \in units /\ v.id = id
  BY <1>1, <1>3, <1>4 DEF UnitAt
<1>6. PICK k \in 1..Len(body.minted) : v = body.minted[k]
  BY <1>2, <1>5 DEF UnitsInv
<1>7. k = i
  BY <1>3, <1>5, <1>6 DEF UnitsInv
<1> QED
  BY <1>1, <1>2, <1>3, <1>4, <1>6, <1>7

LEMMA SortedOne ==
  ASSUME NEW q, IsSeq(q), Len(q) = 1, q[1].id \in Nat, NEW s, s = InSubmittedOrder(q)
  PROVE  Len(s) = 1 /\ s[1] = q[1]
<1> DEFINE T == {q[i] : i \in DOMAIN q}
           Good(r) == /\ \A i \in DOMAIN q : \E j \in DOMAIN q : r[j] = q[i]
                      /\ \A i, j \in DOMAIN q : i < j => r[i].id <= r[j].id
<1>1. DOMAIN q = {1} /\ 1..1 = {1} /\ T = {q[1]}
  BY DEF IsSeq
<1>2. \E r \in [DOMAIN q -> T] : Good(r)
  <2>1. PICK r : r = [i \in DOMAIN q |-> q[1]]
    OBVIOUS
  <2>2. r \in [DOMAIN q -> T] /\ r[1] = q[1]
    BY <1>1, <2>1
  <2>3. Good(r)
    BY <1>1, <2>2
  <2> QED
    BY <2>2, <2>3
<1>3. s \in [DOMAIN q -> T]
  <2>1. s = CHOOSE r \in [DOMAIN q -> T] : Good(r)
    BY DEF InSubmittedOrder
  <2> HIDE DEF T, Good
  <2> QED
    BY <1>2, <2>1
<1>4. s \in [1..1 -> T]
  BY <1>1, <1>3
<1>5. s[1] = q[1]
  BY <1>1, <1>4
<1>6. Len(s) = 1
  <2>1. PICK t : t = << s[1] >>
    OBVIOUS
  <2>2. t \in [1..1 -> T] /\ t[1] = s[1] /\ Len(t) = 1
    BY <1>1, <1>4, <2>1
  <2>3. s = t
    BY <1>1, <1>4, <2>2
  <2> QED
    BY <2>2, <2>3
<1> QED
  BY <1>5, <1>6

\* The ids of a list of one or two units.
LEMMA IdsListed ==
  ASSUME NEW q, NEW n \in {1, 2}, Len(q) = n, NEW ids, ids = IdsOf(q)
  PROVE  /\ ids \in [1..n -> {q[i].id : i \in 1..n}] /\ Len(ids) = n /\ ids # <<>>
         /\ \A i \in 1..n : ids[i] = q[i].id
<1>1. ids = [i \in 1..n |-> q[i].id]
  BY DEF IdsOf
<1>2. Len(ids) = n
  BY <1>1
<1> QED
  BY <1>1, <1>2

\* A draft over units there are, in ascending order of their ids.
IsOver(d, q, n) ==
  /\ Len(d.units) = n /\ d.units # <<>>
  /\ \A i \in 1..n : d.units[i] = q[i].id /\ q[i] \in units /\ UnitAt(q[i].id) = q[i]

LEMMA OverListed ==
  ASSUME NEW d, NEW q, NEW n \in {1, 2}, IsOver(d, q, n)
  PROVE  /\ Nonempty(d) /\ AllFound(d) /\ Ids(d) = {q[i].id : i \in 1..n}
         /\ {UnitAt(id).day : id \in Ids(d)} = {q[i].day : i \in 1..n}
         /\ {UnitAt(id).currency : id \in Ids(d)} = {q[i].currency : i \in 1..n}
         /\ Len(Expected(d)) = 2 * n + 1
<1>1. Ids(d) = {q[i].id : i \in 1..n}
  BY DEF IsOver, Ids
<1>2. \A i \in 1..n : UnitAt(q[i].id) = q[i]
  BY DEF IsOver
<1>3. {UnitAt(id).day : id \in Ids(d)} = {q[i].day : i \in 1..n}
  BY <1>1, <1>2
<1>4. {UnitAt(id).currency : id \in Ids(d)} = {q[i].currency : i \in 1..n}
  BY <1>1, <1>2
<1>5. Nonempty(d) /\ AllFound(d)
  BY <1>1 DEF IsOver, Nonempty, AllFound
<1>6. Len(Expected(d)) = 2 * n + 1
  <2>1. PICK slots : slots = [i \in 1..Len(d.units) |->
              [owner |-> UnitAt(d.units[i]).owner, hash |-> UnitHash(UnitAt(d.units[i]))]]
    OBVIOUS
  <2>2. Len(slots) = n
    BY <2>1 DEF IsOver
  <2>3. Expected(d) = InputsOf(slots, Binding(d.sender, d.id, "L2"))
    BY <2>1 DEF Expected
  <2> QED
    BY <2>2, <2>3 DEF InputsOf
<1> QED
  BY <1>1, <1>3, <1>4, <1>5, <1>6

\* When every check is made, one fails that does not hold.
LEMMA AllMade ==
  ASSUME makes = Checks, NEW d, NEW g, g = Guards(d)
  PROVE  /\ Fails(g, 1) <=> ~Nonempty(d)
         /\ Fails(g, 2) <=> ~Ascends(d)
         /\ Fails(g, 3) <=> ~AllFound(d)
         /\ Fails(g, 4) <=> ~OneDay(d)
         /\ Fails(g, 5) <=> ~OneCurrency(d)
         /\ Fails(g, 6) <=> ~Roomy(d)
         /\ Fails(g, 7) <=> ~Counted(d)
         /\ Fails(g, 8) <=> ~Matches(d)
         /\ Fails(g, 9) <=> ~d.proof.snark
<1>1. /\ GuardIs(g[1], "empty", Nonempty(d), "EmptyArray")
      /\ GuardIs(g[2], "ascending", Ascends(d), "SuIdsNotAscending")
      /\ GuardIs(g[3], "found", AllFound(d), "NotFound")
      /\ GuardIs(g[4], "day", OneDay(d), "NotSameWorldwideDay")
      /\ GuardIs(g[5], "currency", OneCurrency(d), "NotSameCurrency")
      /\ GuardIs(g[6], "length", Roomy(d), "MalformedAggregationProof")
      /\ GuardIs(g[7], "count", Counted(d), "MalformedAggregationProof")
      /\ GuardIs(g[8], "inputs", Matches(d), "InvalidAggregationProof")
      /\ GuardIs(g[9], "snark", d.proof.snark, "InvalidAggregationProof")
  BY GuardList
<1>2. /\ "empty" \in makes /\ "ascending" \in makes /\ "found" \in makes /\ "day" \in makes
      /\ "currency" \in makes /\ "length" \in makes /\ "count" \in makes /\ "inputs" \in makes
      /\ "snark" \in makes
  BY DEF Checks
<1> QED
  BY <1>1, <1>2 DEF GuardIs, Fails

LEMMA RefusedAs ==
  ASSUME makes = Checks, NEW d
  PROVE  /\ ~Nonempty(d) => Refusal(d) = "EmptyArray"
         /\ Nonempty(d) /\ Ascends(d) /\ ~AllFound(d) => Refusal(d) = "NotFound"
         /\ Nonempty(d) /\ Ascends(d) /\ AllFound(d) =>
              /\ ~OneDay(d) => Refusal(d) = "NotSameWorldwideDay"
              /\ OneDay(d) =>
                   /\ ~OneCurrency(d) => Refusal(d) = "NotSameCurrency"
                   /\ OneCurrency(d) =>
                        /\ ~Roomy(d) => Refusal(d) = "MalformedAggregationProof"
                        /\ Roomy(d) /\ Counted(d) /\ ~d.proof.snark =>
                             Refusal(d) = "InvalidAggregationProof"
                        /\ Roomy(d) /\ Counted(d) /\ Matches(d) /\ d.proof.snark =>
                             Refusal(d) = "none"
<1>1. PICK g : g = Guards(d)
  OBVIOUS
<1>2. /\ g[1].error = "EmptyArray" /\ g[3].error = "NotFound" /\ g[4].error = "NotSameWorldwideDay"
      /\ g[5].error = "NotSameCurrency" /\ g[6].error = "MalformedAggregationProof"
      /\ g[8].error = "InvalidAggregationProof" /\ g[9].error = "InvalidAggregationProof"
  BY <1>1, GuardLabels, SMT DEF LabelIs
<1>3. \A n \in 1..9 : Fails(g, n) /\ (\A k \in 1..9 : k < n => ~Fails(g, k)) => Refusal(d) = g[n].error
  BY <1>1, FirstFails
<1>4. /\ Fails(g, 1) <=> ~Nonempty(d)
      /\ Fails(g, 2) <=> ~Ascends(d)
      /\ Fails(g, 3) <=> ~AllFound(d)
      /\ Fails(g, 4) <=> ~OneDay(d)
      /\ Fails(g, 5) <=> ~OneCurrency(d)
      /\ Fails(g, 6) <=> ~Roomy(d)
      /\ Fails(g, 7) <=> ~Counted(d)
      /\ Fails(g, 8) <=> ~Matches(d)
      /\ Fails(g, 9) <=> ~d.proof.snark
  BY <1>1, AllMade
<1> DEFINE F(n) == Fails(g, n)
<1>5. /\ F(1) => Refusal(d) = "EmptyArray"
      /\ ~F(1) /\ ~F(2) /\ F(3) => Refusal(d) = "NotFound"
      /\ ~F(1) /\ ~F(2) /\ ~F(3) /\ F(4) => Refusal(d) = "NotSameWorldwideDay"
      /\ ~F(1) /\ ~F(2) /\ ~F(3) /\ ~F(4) /\ F(5) => Refusal(d) = "NotSameCurrency"
      /\ ~F(1) /\ ~F(2) /\ ~F(3) /\ ~F(4) /\ ~F(5) /\ F(6) => Refusal(d) = "MalformedAggregationProof"
      /\ ~F(1) /\ ~F(2) /\ ~F(3) /\ ~F(4) /\ ~F(5) /\ ~F(6) /\ ~F(7) /\ F(8) => Refusal(d) = "InvalidAggregationProof"
      /\ ~F(1) /\ ~F(2) /\ ~F(3) /\ ~F(4) /\ ~F(5) /\ ~F(6) /\ ~F(7) /\ ~F(8) /\ F(9) => Refusal(d) = "InvalidAggregationProof"
  <2>1. \A n \in 1..9 : F(n) /\ (\A k \in 1..9 : k < n => ~F(k)) => Refusal(d) = g[n].error
    BY <1>3
  <2>2. PICK r : r = Refusal(d)
    OBVIOUS
  <2> HIDE DEF F
  <2>3. \A n \in 1..9 : F(n) /\ (\A k \in 1..9 : k < n => ~F(k)) => r = g[n].error
    BY <2>1, <2>2
  <2>4. /\ F(1) => r = g[1].error
        /\ ~F(1) /\ ~F(2) /\ F(3) => r = g[3].error
        /\ ~F(1) /\ ~F(2) /\ ~F(3) /\ F(4) => r = g[4].error
        /\ ~F(1) /\ ~F(2) /\ ~F(3) /\ ~F(4) /\ F(5) => r = g[5].error
        /\ ~F(1) /\ ~F(2) /\ ~F(3) /\ ~F(4) /\ ~F(5) /\ F(6) => r = g[6].error
    BY <2>3
  <2>5. /\ ~F(1) /\ ~F(2) /\ ~F(3) /\ ~F(4) /\ ~F(5) /\ ~F(6) /\ ~F(7) /\ F(8) => r = g[8].error
        /\ ~F(1) /\ ~F(2) /\ ~F(3) /\ ~F(4) /\ ~F(5) /\ ~F(6) /\ ~F(7) /\ ~F(8) /\ F(9) => r = g[9].error
    BY <2>3
  <2> QED
    BY <1>2, <2>2, <2>4, <2>5
<1>6. (\A n \in 1..9 : ~F(n)) => Refusal(d) = "none"
  BY <1>1, NoneFails
<1>7. ~F(1) /\ ~F(2) /\ ~F(3) /\ ~F(4) /\ ~F(5) /\ ~F(6) /\ ~F(7) /\ ~F(8) /\ ~F(9) => \A n \in 1..9 : ~F(n)
  <2> HIDE DEF F
  <2>1. \A n \in 1..9 : n \in {1, 2, 3, 4, 5, 6, 7, 8, 9}
    OBVIOUS
  <2> QED
    BY <2>1
<1>8. PICK r : r = Refusal(d)
  OBVIOUS
<1> QED
  BY <1>4, <1>5, <1>6, <1>7

LEMMA OneOrTwo ==
  ASSUME NEW a, NEW b
  PROVE  Cardinality({a}) <= 1 /\ (a # b => ~(Cardinality({a, b}) <= 1))
<1>1. IsFiniteSet({a}) /\ Cardinality({a}) = 1
  BY FS_Singleton
<1>2. a # b => Cardinality({a, b}) = 2
  <2>1. {a, b} = {a} \cup {b} /\ (a # b => b \notin {a})
    OBVIOUS
  <2>2. b \notin {a} => Cardinality({a} \cup {b}) = Cardinality({a}) + 1
    BY <1>1, FS_AddElement
  <2> QED
    BY <1>1, <2>1, <2>2
<1> QED
  BY <1>1, <1>2

\* The draft over the one unit of S018 and S019.
LEMMA TriedOne ==
  ASSUME Known, PlaceInv, LocalsInv, UnitsInv, OneAt, step = 5, NEW d, d = Tried(Attester)
  PROVE  \E q : IsOver(d, q, 1)
<1>0. Now.op = "refused" /\ Now.units = Minted
  BY OneNows DEF PlaceInv, OneNow
<1>1. ~FullAt /\ ~TwoAt
  BY DEF OneAt, FullAt, TwoAt
<1>2. Len(body.minted) = 1 /\ IsSeq(body.minted) /\ ~Pending
  BY <1>0, <1>1 DEF LocalsInv, Mints, MintsBefore, Pending
<1>3. PICK m : m = body.minted
  OBVIOUS
<1>4. m[1] \in units /\ UnitAt(m[1].id) = m[1] /\ \E id \in IdsAt(at) : m[1] = Unit(id, DayOf(1), CurOf(1))
  BY <1>2, <1>3, UnitShown
<1>5. m[1].id \in Nat
  BY <1>4, IdsAreNumbers DEF Unit
<1>6. PICK q : q = InSubmittedOrder(m)
  OBVIOUS
<1>7. Len(q) = 1 /\ q[1] = m[1]
  BY <1>2, <1>3, <1>5, <1>6, SortedOne
<1>8. d.units = IdsOf(q)
  BY <1>0, <1>3, <1>6 DEF Tried
<1>9. Len(d.units) = 1 /\ d.units # <<>> /\ \A i \in 1..1 : d.units[i] = q[i].id
  BY <1>7, <1>8, IdsListed
<1>10. \A i \in 1..1 : q[i] \in units /\ UnitAt(q[i].id) = q[i]
  BY <1>4, <1>7
<1> QED
  BY <1>9, <1>10 DEF IsOver

\* Two units of the body that has no mint under way, in the order of their ids.
AreSorted(q, m) ==
  /\ \A i \in 1..2 : q[i] \in units /\ UnitAt(q[i].id) = q[i]
  /\ q[1].id \in Nat /\ q[2].id \in Nat /\ q[1].id < q[2].id
  /\ (q[1] = m[1] /\ q[2] = m[2]) \/ (q[1] = m[2] /\ q[2] = m[1])

LEMMA SortedTwo ==
  ASSUME Known, PlaceInv, LocalsInv, UnitsInv, Len(body.minted) = 2, ~Pending,
         NEW m, m = body.minted, NEW q, q = InSubmittedOrder(m)
  PROVE  IsSeq(q) /\ Len(q) = 2 /\ AreSorted(q, m)
<1>1. /\ m[1] \in units /\ UnitAt(m[1].id) = m[1] /\ \E id \in IdsAt(at) : m[1] = Unit(id, DayOf(1), CurOf(1))
      /\ m[2] \in units /\ UnitAt(m[2].id) = m[2] /\ \E id \in IdsAt(at) : m[2] = Unit(id, DayOf(2), CurOf(2))
  BY UnitShown
<1>2. m[1].id \in Nat /\ m[2].id \in Nat
  BY <1>1, IdsAreNumbers DEF Unit
<1>3. m[1].id # m[2].id
  <2>1. 1 \in 1..Len(m) /\ 2 \in 1..Len(m)
    OBVIOUS
  <2> QED
    BY <2>1 DEF UnitsInv
<1>4. IsSeq(q) /\ Len(q) = 2 /\ q[1].id <= q[2].id /\ ((q[1] = m[1] /\ q[2] = m[2]) \/ (q[1] = m[2] /\ q[2] = m[1]))
  BY <1>2, SortedLength DEF LocalsInv
<1>5. q[1].id \in Nat /\ q[2].id \in Nat /\ q[1].id # q[2].id
  BY <1>2, <1>3, <1>4
<1>6. \A i \in 1..2 : q[i] \in units /\ UnitAt(q[i].id) = q[i]
  <2>1. \A i \in 1..2 : i \in {1, 2}
    OBVIOUS
  <2> QED
    BY <1>1, <1>4, <2>1
<1> QED
  BY <1>4, <1>5, <1>6 DEF AreSorted

LEMMA TriedTwo ==
  ASSUME Known, PlaceInv, LocalsInv, UnitsInv, TwoAt, step = 9, NEW d, d = Tried(Attester)
  PROVE  /\ Ascends(d)
         /\ \E q : IsOver(d, q, 2)
              /\ {q[1].day, q[2].day} = {1, DayOf(2)} /\ {q[1].currency, q[2].currency} = {"EUR", CurOf(2)}
<1>0. Now.op = "refused" /\ Now.units = Minted
  BY TwoNows DEF PlaceInv, TwoNow
<1>1. ~FullAt /\ ~OneAt
  BY DEF OneAt, FullAt, TwoAt
<1>2. Len(body.minted) = 2 /\ ~Pending
  BY <1>0, <1>1 DEF LocalsInv, Mints, MintsBefore, Pending
<1>3. PICK m : m = body.minted
  OBVIOUS
<1>4. PICK q : q = InSubmittedOrder(m)
  OBVIOUS
<1>5. Len(q) = 2 /\ AreSorted(q, m)
  BY <1>2, <1>3, <1>4, SortedTwo
<1>6. d.units = IdsOf(q)
  BY <1>0, <1>3, <1>4 DEF Tried
<1>7. PICK ids : ids = IdsOf(q)
  OBVIOUS
<1>8. Len(ids) = 2 /\ ids # <<>> /\ \A i \in 1..2 : ids[i] = q[i].id
  BY <1>5, <1>7, IdsListed
<1>9. IsOver(d, q, 2)
  BY <1>5, <1>6, <1>7, <1>8 DEF IsOver, AreSorted
<1>10. Ascends(d)
  <2>1. \A i \in 1..(Len(ids) - 1) : i = 1
    BY <1>8
  <2>2. ids[1] < ids[2]
    BY <1>5, <1>8 DEF AreSorted
  <2> QED
    BY <1>6, <1>7, <2>1, <2>2 DEF Ascends
<1>11. /\ \E id \in IdsAt(at) : m[1] = Unit(id, DayOf(1), CurOf(1))
       /\ \E id \in IdsAt(at) : m[2] = Unit(id, DayOf(2), CurOf(2))
  BY <1>2, <1>3, UnitShown
<1>12. m[1].day = 1 /\ m[1].currency = "EUR" /\ m[2].day = DayOf(2) /\ m[2].currency = CurOf(2)
  BY <1>11 DEF Unit, DayOf, CurOf
<1>13. {q[1].day, q[2].day} = {1, DayOf(2)} /\ {q[1].currency, q[2].currency} = {"EUR", CurOf(2)}
  BY <1>5, <1>12 DEF AreSorted
<1> QED
  BY <1>9, <1>10, <1>13

\* Every draft that must be refused is, and for a reason its scenario takes.
LEMMA WantsMet ==
  ASSUME Known, PlaceInv, LocalsInv, StoresInv, UnitsInv, makes = Checks,
         InBody, Now.op \in {"refused", "asked", "gated"}, NEW d, d = Tried(Attester)
  PROVE  Refusal(d) # "none" /\ (Now.op = "gated" \/ Refusal(d) \in Now.wants)
<1>0. Now.units # Minted => d.units = Now.units /\ d.proof = Now.proof
  BY DEF Tried
<1>00. d.proof = Now.proof
  BY DEF Tried
<1>1. CASE AloneAt /\ AloneNow
  <2>1. CASE at \in {2, 4}
    <3>1. Now.units = <<9>> /\ <<9>> # Minted
      BY <1>1, <2>1 DEF AloneNow, Minted
    <3>2. d.units = <<9>>
      BY <1>0, <3>1
    <3>3. Nonempty(d) /\ Ascends(d)
      <4>1. <<9>> # <<>> /\ Len(<<9>>) = 1 /\ 1..(1 - 1) = {}
        OBVIOUS
      <4> QED
        BY <3>2, <4>1 DEF Nonempty, Ascends
    <3>4. ~AllFound(d)
      <4>1. 9 \in Ids(d)
        BY <3>2 DEF Ids
      <4>2. ~\E u \in units : u.id = 9
        BY IdsAreNumbers DEF StoresInv, IsStored
      <4> QED
        BY <4>1, <4>2 DEF AllFound
    <3>5. Refusal(d) = "NotFound"
      BY <3>3, <3>4, RefusedAs
    <3> QED
      BY <1>1, <2>1, <3>5 DEF AloneNow
  <2>2. CASE at = 3
    <3>1. Now.units = <<>> /\ <<>> # Minted
      BY <1>1, <2>2 DEF AloneNow, Minted
    <3>2. ~Nonempty(d)
      BY <1>0, <3>1 DEF Nonempty
    <3>3. Refusal(d) = "EmptyArray"
      BY <3>2, RefusedAs
    <3> QED
      BY <1>1, <2>2, <3>3 DEF AloneNow
  <2> QED
    BY <1>1, <2>1, <2>2 DEF AloneAt
<1>2. CASE OneAt /\ OneNow
  <2>1. step = 5
    BY <1>2, ByKind DEF OneAt, TwoAt, AloneAt, PlaceInv
  <2>2. PICK q : IsOver(d, q, 1)
    BY <1>2, <2>1, TriedOne
  <2>3. /\ Nonempty(d) /\ AllFound(d) /\ Len(Expected(d)) = 3
        /\ {UnitAt(id).day : id \in Ids(d)} = {q[1].day}
        /\ {UnitAt(id).currency : id \in Ids(d)} = {q[1].currency}
    <3>1. /\ Nonempty(d) /\ AllFound(d) /\ Len(Expected(d)) = 2 * 1 + 1
          /\ {UnitAt(id).day : id \in Ids(d)} = {q[i].day : i \in 1..1}
          /\ {UnitAt(id).currency : id \in Ids(d)} = {q[i].currency : i \in 1..1}
      BY <2>2, OverListed
    <3>2. {q[i].day : i \in 1..1} = {q[1].day} /\ {q[i].currency : i \in 1..1} = {q[1].currency}
      OBVIOUS
    <3> QED
      BY <3>1, <3>2
  <2>4. OneDay(d) /\ OneCurrency(d)
    BY <2>3, OneOrTwo DEF OneDay, OneCurrency
  <2>5. Ascends(d)
    <3>1. Len(d.units) = 1 /\ 1..(1 - 1) = {}
      BY <2>2 DEF IsOver
    <3> QED
      BY <3>1 DEF Ascends
  <2>6. CASE at = 1
    <3>1. d.proof.words = 0
      BY <1>00, <1>2, <2>1, <2>6 DEF OneNow, NoProof
    <3>2. ~Roomy(d)
      BY <2>3, <3>1 DEF Roomy
    <3>3. Refusal(d) = "MalformedAggregationProof"
      BY <2>3, <2>4, <2>5, <3>2, RefusedAs
    <3> QED
      BY <1>2, <2>1, <2>6, <3>3 DEF OneNow
  <2>7. CASE at = 2
    <3>1. d.proof.words = 3 /\ d.proof.count = 3 /\ ~d.proof.snark
      BY <1>00, <1>2, <2>1, <2>7 DEF OneNow, ZeroProof
    <3>2. Roomy(d) /\ Counted(d)
      BY <2>3, <3>1 DEF Roomy, Counted
    <3>3. Refusal(d) = "InvalidAggregationProof"
      BY <2>3, <2>4, <2>5, <3>1, <3>2, RefusedAs
    <3> QED
      BY <1>2, <2>1, <2>7, <3>3 DEF OneNow
  <2> QED
    BY <1>2, <2>6, <2>7 DEF OneAt
<1>3. CASE TwoAt /\ TwoNow
  <2>1. step = 9
    BY <1>3, ByKind DEF OneAt, TwoAt, AloneAt, PlaceInv
  <2>2. Ascends(d)
    BY <1>3, <2>1, TriedTwo
  <2>3. PICK q : /\ IsOver(d, q, 2)
                 /\ {q[1].day, q[2].day} = {1, DayOf(2)}
                 /\ {q[1].currency, q[2].currency} = {"EUR", CurOf(2)}
    BY <1>3, <2>1, TriedTwo
  <2>4. /\ Nonempty(d) /\ AllFound(d)
        /\ {UnitAt(id).day : id \in Ids(d)} = {1, DayOf(2)}
        /\ {UnitAt(id).currency : id \in Ids(d)} = {"EUR", CurOf(2)}
    <3>1. /\ Nonempty(d) /\ AllFound(d)
          /\ {UnitAt(id).day : id \in Ids(d)} = {q[i].day : i \in 1..2}
          /\ {UnitAt(id).currency : id \in Ids(d)} = {q[i].currency : i \in 1..2}
      BY <2>3, OverListed
    <3>2. {q[i].day : i \in 1..2} = {q[1].day, q[2].day} /\ {q[i].currency : i \in 1..2} = {q[1].currency, q[2].currency}
      OBVIOUS
    <3> QED
      BY <2>3, <3>1, <3>2
  <2>5. CASE at = 3
    <3>1. DayOf(2) = 2
      BY <1>3, <2>5 DEF DayOf
    <3>2. ~OneDay(d)
      <4>1. PICK a, b : a = 1 /\ b = DayOf(2)
        OBVIOUS
      <4>2. ~(Cardinality({a, b}) <= 1)
        <5>1. a # b
          BY <3>1, <4>1
        <5> QED
          BY <5>1, OneOrTwo, Zenon
      <4>3. {UnitAt(id).day : id \in Ids(d)} = {a, b}
        BY <2>4, <4>1
      <4> QED
        BY <4>2, <4>3 DEF OneDay
    <3>3. Refusal(d) = "NotSameWorldwideDay"
      BY <2>2, <2>4, <3>2, RefusedAs
    <3> QED
      BY <1>3, <2>1, <2>5, <3>3 DEF TwoNow
  <2>6. CASE at = 4
    <3>1. DayOf(2) = 1 /\ CurOf(2) = "USD"
      BY <1>3, <2>6 DEF DayOf, CurOf
    <3>2. {1, DayOf(2)} = {1}
      BY <3>1
    <3>3. OneDay(d) /\ ~OneCurrency(d)
      BY <2>4, <3>1, <3>2, OneOrTwo DEF OneDay, OneCurrency
    <3>4. Refusal(d) = "NotSameCurrency"
      BY <2>2, <2>4, <3>3, RefusedAs
    <3> QED
      BY <1>3, <2>1, <2>6, <3>4 DEF TwoNow
  <2> QED
    BY <1>3, <2>5, <2>6 DEF TwoAt
<1>4. ~FullAt
  BY ByKind DEF OneAt, TwoAt, AloneAt, FullAt, PlaceInv
<1> QED
  BY <1>1, <1>2, <1>3, <1>4, Nows DEF PlaceInv

\* The inputs of a proof are the owners and hashes of its slots.
LEMMA SameInputs ==
  ASSUME NEW s, NEW t, NEW b, Len(s) = 2, Len(t) = 2,
         s[1].owner = t[1].owner, s[2].owner = t[2].owner, s[1].hash = t[1].hash, s[2].hash = t[2].hash
  PROVE  InputsOf(s, b) = InputsOf(t, b) /\ Len(InputsOf(s, b)) = 5
<1> DEFINE InputOf(q, n) == IF n = 5 THEN b ELSE IF n % 2 = 1 THEN q[(n + 1) \div 2].owner ELSE q[n \div 2].hash
<1>1. InputsOf(s, b) = [n \in 1..5 |-> InputOf(s, n)] /\ InputsOf(t, b) = [n \in 1..5 |-> InputOf(t, n)]
  <2>1. ASSUME NEW q, Len(q) = 2 PROVE InputsOf(q, b) = [n \in 1..5 |-> InputOf(q, n)]
    BY <2>1 DEF InputsOf
  <2> QED
    BY <2>1
<1>2. \A n \in 1..5 : InputOf(s, n) = InputOf(t, n)
  <2>1. InputOf(s, 1) = InputOf(t, 1)
    OBVIOUS
  <2>2. InputOf(s, 2) = InputOf(t, 2)
    OBVIOUS
  <2>3. InputOf(s, 3) = InputOf(t, 3)
    OBVIOUS
  <2>4. InputOf(s, 4) = InputOf(t, 4)
    OBVIOUS
  <2>5. InputOf(s, 5) = InputOf(t, 5)
    OBVIOUS
  <2>6. \A n \in 1..5 : n \in {1, 2, 3, 4, 5}
    OBVIOUS
  <2> HIDE DEF InputOf
  <2> QED
    BY <2>1, <2>2, <2>3, <2>4, <2>5, <2>6
<1> HIDE DEF InputOf
<1>3. Len([n \in 1..5 |-> InputOf(s, n)]) = 5
  OBVIOUS
<1> QED
  BY <1>1, <1>2, <1>3

\* The wallet's proof of a full draft is one the contract takes.
LEMMA FullDraftTaken ==
  ASSUME Known, PlaceInv, LocalsInv, UnitsInv, WitnessInv, makes = Checks, FullAt, step = 14,
         NEW d, d = FullDraftOf(Submitter)
  PROVE  Aggregates(body.sender, DraftId, body.witnesses) /\ Refusal(d) = "none"
<1>0. Now.op = "submit"
  BY FullNows DEF PlaceInv, FullNow
<1>1. PICK m, w, b : m = body.minted /\ w = body.witnesses /\ b = Binding(body.sender, DraftId, "L2")
  OBVIOUS
<1>2. Len(m) = 2 /\ Len(w) = 2 /\ ~Pending
  <2>1. step >= 10 /\ step >= 13 /\ step # 13
    OBVIOUS
  <2>2. Len(body.minted) = 2
    BY <2>1, TwoInFull
  <2>3. Owns = 2
    BY <2>1 DEF Owns
  <2> QED
    BY <1>0, <1>1, <2>2, <2>3 DEF LocalsInv, Pending
<1>3. m[1].id < m[2].id
  BY <1>1 DEF WitnessInv
<1>4. w[1] = Witness(Consent, m[1], b) /\ w[2] = Witness(Consent, m[2], b)
  <2>1. 1 \in 1..Len(w) /\ 2 \in 1..Len(w)
    BY <1>2
  <2> QED
    BY <1>1, <2>1 DEF WitnessInv
<1>5. DayOf(1) = 1 /\ DayOf(2) = 1 /\ CurOf(1) = "EUR" /\ CurOf(2) = "EUR"
  BY DEF DayOf, CurOf, FullAt, TwoAt
<1>6. /\ m[1] \in units /\ UnitAt(m[1].id) = m[1] /\ \E id \in IdsAt(at) : m[1] = Unit(id, DayOf(1), CurOf(1))
      /\ m[2] \in units /\ UnitAt(m[2].id) = m[2] /\ \E id \in IdsAt(at) : m[2] = Unit(id, DayOf(2), CurOf(2))
  BY <1>1, <1>2, UnitShown
<1>7. /\ m[1].owner.consent = Consent /\ m[1].day = 1 /\ m[1].currency = "EUR"
      /\ m[2].owner.consent = Consent /\ m[2].day = 1 /\ m[2].currency = "EUR"
  BY <1>5, <1>6 DEF Unit, DerivedOwner
<1>8. /\ w[1].owner = m[1].owner /\ w[1].hash = UnitHash(m[1]) /\ w[1].binding = b /\ w[1].sound
      /\ w[2].owner = m[2].owner /\ w[2].hash = UnitHash(m[2]) /\ w[2].binding = b /\ w[2].sound
  <2>1. ASSUME NEW r, r.owner.consent = Consent, NEW v, v = Witness(Consent, r, b)
        PROVE  v.owner = r.owner /\ v.hash = UnitHash(r) /\ v.binding = b /\ v.sound
    <3>1. v.owner = r.owner /\ v.hash = UnitHash(r) /\ v.binding = b
      BY <2>1 DEF Witness
    <3>2. v.sound = (r.owner.consent = Consent)
      BY <2>1 DEF Witness
    <3> QED
      BY <2>1, <3>1, <3>2
  <2> QED
    BY <1>4, <1>7, <2>1
<1>9. Aggregates(body.sender, DraftId, body.witnesses)
  <2>1. Len(w) \in 1..MaxSlots
    BY <1>2 DEF MaxSlots
  <2>2. \A i \in 1..Len(w) : i \in {1, 2}
    BY <1>2
  <2>3. \A i \in 1..Len(w) : w[i].sound /\ w[i].binding = b
    BY <1>8, <2>2
  <2> QED
    BY <1>1, <2>1, <2>3 DEF Aggregates
<1>10. /\ d.id = DraftId /\ d.sender = body.sender /\ d.units = IdsOf(m)
       /\ d.proof = Proof(body.sender, DraftId, w)
  BY <1>1 DEF FullDraftOf, Submitter
<1>11. Len(d.units) = 2 /\ d.units # <<>> /\ \A i \in 1..2 : d.units[i] = m[i].id
  BY <1>2, <1>10, IdsListed
<1>12. IsOver(d, m, 2)
  <2>1. \A i \in 1..2 : i \in {1, 2}
    OBVIOUS
  <2>2. \A i \in 1..2 : m[i] \in units /\ UnitAt(m[i].id) = m[i]
    BY <1>6, <2>1
  <2> QED
    BY <1>11, <2>2 DEF IsOver
<1>13. Ascends(d)
  <2>1. \A i \in 1..(Len(d.units) - 1) : i = 1
    BY <1>11
  <2>2. d.units[1] < d.units[2]
    BY <1>3, <1>11
  <2> QED
    BY <2>1, <2>2 DEF Ascends
<1>14. /\ Nonempty(d) /\ AllFound(d) /\ Len(Expected(d)) = 5
       /\ {UnitAt(id).day : id \in Ids(d)} = {1}
       /\ {UnitAt(id).currency : id \in Ids(d)} = {"EUR"}
  <2>0. PICK n \in {1, 2} : n = 2
    OBVIOUS
  <2>1. /\ Nonempty(d) /\ AllFound(d) /\ Len(Expected(d)) = 2 * n + 1
        /\ {UnitAt(id).day : id \in Ids(d)} = {m[i].day : i \in 1..n}
        /\ {UnitAt(id).currency : id \in Ids(d)} = {m[i].currency : i \in 1..n}
    BY <1>12, <2>0, OverListed
  <2>2. {m[i].day : i \in 1..n} = {1} /\ {m[i].currency : i \in 1..n} = {"EUR"}
    BY <1>7, <2>0
  <2>3. 2 * n + 1 = 5
    BY <2>0
  <2> QED
    BY <2>1, <2>2, <2>3
<1>15. OneDay(d) /\ OneCurrency(d)
  BY <1>14, OneOrTwo DEF OneDay, OneCurrency
<1>16. PICK inputs : inputs = InputsOf(w, b)
  OBVIOUS
<1>17. d.proof = [words |-> Len(inputs), count |-> Len(inputs), inputs |-> inputs, snark |-> TRUE]
  BY <1>1, <1>10, <1>16 DEF Proof
<1>18. Expected(d) = inputs /\ Len(inputs) = 5
  <2>1. PICK slots : slots = [i \in 1..Len(d.units) |->
              [owner |-> UnitAt(d.units[i]).owner, hash |-> UnitHash(UnitAt(d.units[i]))]]
    OBVIOUS
  <2>2. Expected(d) = InputsOf(slots, b)
    BY <1>1, <1>10, <2>1 DEF Expected
  <2>3. UnitAt(d.units[1]) = m[1] /\ UnitAt(d.units[2]) = m[2]
    BY <1>6, <1>11
  <2>4. /\ Len(slots) = 2
        /\ slots[1] = [owner |-> m[1].owner, hash |-> UnitHash(m[1])]
        /\ slots[2] = [owner |-> m[2].owner, hash |-> UnitHash(m[2])]
    <3>1. Len(slots) = 2
      BY <1>11, <2>1
    <3>2. \A i \in 1..2 : slots[i] = [owner |-> UnitAt(d.units[i]).owner, hash |-> UnitHash(UnitAt(d.units[i]))]
      BY <1>11, <2>1
    <3>3. /\ slots[1] = [owner |-> UnitAt(d.units[1]).owner, hash |-> UnitHash(UnitAt(d.units[1]))]
          /\ slots[2] = [owner |-> UnitAt(d.units[2]).owner, hash |-> UnitHash(UnitAt(d.units[2]))]
      BY <3>2
    <3> QED
      BY <2>3, <3>1, <3>3
  <2>5. /\ w[1].owner = slots[1].owner /\ w[2].owner = slots[2].owner
        /\ w[1].hash = slots[1].hash /\ w[2].hash = slots[2].hash
    BY <1>8, <2>4
  <2>6. InputsOf(w, b) = InputsOf(slots, b) /\ Len(InputsOf(w, b)) = 5
    BY <1>2, <2>4, <2>5, SameInputs
  <2> QED
    BY <1>16, <2>2, <2>6
<1>19. Roomy(d) /\ Counted(d) /\ Matches(d) /\ d.proof.snark
  BY <1>17, <1>18 DEF Roomy, Counted, Matches
<1>20. Refusal(d) = "none"
  BY <1>13, <1>14, <1>15, <1>19, RefusedAs
<1> QED
  BY <1>9, <1>20

\* The full proof verifies for its own inputs, and with neither changed.
LEMMA ProofHolds ==
  ASSUME makes = Checks, NEW e, NEW own, own = OwnershipOf(Header, DraftId, e),
         NEW public, public = FullProof(own, RootOf(LeafOf(e), e.index)),
         e.id = DraftId, e.owner = Header.owner
  PROVE  /\ own.hash = LeafOf(e) /\ own.owner = Header.owner
         /\ FullVerifies(public, public)
         /\ ~FullVerifies(public, [public EXCEPT ![1] = own.hash])
         /\ ~FullVerifies(public, [public EXCEPT ![4] = own.hash])
<1>1. "leaf" \in makes
  BY DEF Checks
<1>2. PICK h : h = DraftHash(DraftId, Header.owner, e)
  OBVIOUS
<1>3. own.hash = h /\ own.owner = Header.owner
  BY <1>2 DEF OwnershipOf
<1>4. LeafOf(e) = h
  BY <1>1, <1>2 DEF LeafOf
<1>5. DOMAIN h = {"id", "owner", "day", "currency", "units"}
  BY <1>2 DEF DraftHash
<1>6. h # Header.owner
  BY <1>5 DEF Header, DerivedOwner
<1>7. h # RootOf(LeafOf(e), e.index)
  BY <1>5 DEF RootOf
<1>8. PICK a, b, c, r : public = <<a, b, c, r>> /\ a = Header.owner /\ r = RootOf(LeafOf(e), e.index)
  BY <1>3 DEF FullProof
<1>9. /\ public[1] = a /\ [public EXCEPT ![1] = h][1] = h
      /\ public[4] = r /\ [public EXCEPT ![4] = h][4] = h
  BY <1>8
<1>10. public # [public EXCEPT ![1] = h] /\ public # [public EXCEPT ![4] = h]
  BY <1>6, <1>7, <1>8, <1>9
<1> QED
  BY <1>3, <1>4, <1>10 DEF FullVerifies

\* No step of a body goes wrong but by a fault.
LEMMA OnlyFaults ==
  ASSUME Known, PlaceInv, LocalsInv, StoresInv, MintedInv, makes = Checks,
         SentInv, UnitsInv, WitnessInv, Next, InBody, Fail
  PROVE  at \in faulted'
<1>0. at \in Nat /\ at' # at /\ verdict'[at] = "fail" /\ at \in Scenarios
  <2>1. at \in Scenarios /\ verdict \in [Scenarios -> {"todo", "pass", "fail"}] /\ at \in Nat
    BY Numbers DEF InBody, PlaceInv, ScriptTypeOK
  <2> QED
    BY <2>1 DEF Fail, End
<1>00. ScriptTypeOK
  BY DEF PlaceInv
<1>1. ~Advance
  <2>1. CASE step < Len(Suite[at])
    BY <1>0, <2>1 DEF Advance
  <2>2. CASE ~(step < Len(Suite[at]))
    <3>1. Advance => verdict'[at] = "pass"
      BY <2>2, <1>00, <1>0 DEF Advance, Pass, End, ScriptTypeOK
    <3> QED
      BY <1>0, <3>1
  <2> QED
    BY <2>1, <2>2
<1>2. \A m : ~Reach(m)
  BY <1>0 DEF Reach
<1>3. ~(SendRecord \/ SendUnit \/ Exist \/ MakeActor \/ Land)
  BY <1>0, <1>1, <1>2 DEF SendRecord, SendUnit, Exist, MakeActor, Land, scriptVars
<1>4. ~Receipt
  <2> SUFFICES ASSUME Receipt PROVE FALSE
    OBVIOUS
  <2>1. mid = "sent" /\ ~Underway
    BY DEF Receipt, Underway
  <2>2. Now.op \in {"file", "mint", "submit"}
    BY <2>1 DEF PlaceInv, SentInv
  <2>3. CASE Now.op = "file"
    BY <1>1, <2>1, <2>3 DEF Receipt, SentInv
  <2>4. CASE Now.op = "submit"
    BY <1>1, <2>1, <2>4 DEF Receipt, SentInv
  <2>5. CASE Now.op = "mint"
    <3>1. Len(body.minted) \in {1, 2}
      BY <1>00, <2>1, <2>5, NextUnit DEF LocalsInv, Mints
    <3>2. PICK i \in 1..Len(body.minted) : i = Len(body.minted)
      BY <3>1
    <3>3. body.minted[i] \in units
      BY <2>1, <3>2 DEF UnitsInv, Pending
    <3>4. \E u \in units : u.id = body.minted[Len(body.minted)].id
      BY <3>2, <3>3
    <3> QED
      BY <1>1, <2>1, <2>5, <3>4 DEF Receipt
  <2> QED
    BY <2>2, <2>3, <2>4, <2>5
<1>5. ~TurnedDown /\ ~TakenUp
  <2> SUFFICES ASSUME TurnedDown \/ TakenUp PROVE FALSE
    OBVIOUS
  <2>1. Now.op \in {"refused", "asked", "gated"} /\ mid = "ready"
    BY DEF TurnedDown, TakenUp, Doing
  <2>2. Refusal(Tried(Attester)) # "none" /\ (Now.op = "gated" \/ Refusal(Tried(Attester)) \in Now.wants)
    <3>1. PICK d : d = Tried(Attester)
      OBVIOUS
    <3> QED
      BY <2>1, <3>1, WantsMet
  <2> QED
    BY <1>1, <2>2 DEF TurnedDown, TakenUp
<1>6. ~OwnUnit
  <2> SUFFICES ASSUME OwnUnit PROVE FALSE
    OBVIOUS
  <2>1. Now.op = "own" /\ mid = "ready"
    BY DEF OwnUnit, Doing
  <2>2. FullAt /\ step \in {12, 13} /\ Now.nth = step - 11
    BY <1>00, <2>1, ByKind
  <2>3. Len(body.minted) = 2 /\ ~Pending
    <3>1. step >= 10
      BY <2>2
    <3> QED
      BY <2>1, <2>2, <3>1, TwoInFull DEF Pending
  <2>4. PICK i \in 1..Len(body.minted) : i = Now.nth
    BY <2>2, <2>3
  <2>5. UnitAt(body.minted[i].id) = body.minted[i]
    BY <2>3, UnitShown
  <2> QED
    BY <1>1, <2>4, <2>5 DEF OwnUnit
<1>7. ~SendDraft
  <2> SUFFICES ASSUME SendDraft PROVE FALSE
    OBVIOUS
  <2>1. FullAt /\ step = 14
    BY <1>00, ByKind DEF SendDraft, Doing
  <2>2. Aggregates(body.sender, DraftId, body.witnesses)
    BY <2>1, FullDraftTaken
  <2> QED
    BY <1>2, <2>2 DEF SendDraft
<1>8. ~OwnerRead /\ ~ProvedInFull
  <2> SUFFICES ASSUME OwnerRead \/ ProvedInFull PROVE FALSE
    OBVIOUS
  <2>1. Now.op \in {"readBack", "proveFull"}
    BY DEF OwnerRead, ProvedInFull, Doing
  <2>2. FullAt /\ step = 15
    BY <1>00, <2>1, ByKind
  <2>3. MyDraft \in drafts /\ MyDraft.id = DraftId
    BY <2>2 DEF MintedInv, MyDraft, DraftId
  <2>4. MyDraft.owner = Header.owner
    <3>1. "keeps" \in makes
      BY DEF Checks
    <3>2. MyDraft.owner = Kept(OwnerOf(at))
      BY <2>3 DEF StoresInv, DraftId
    <3> QED
      BY <2>2, <3>1, <3>2 DEF OwnerOf, Kept, FullAt
  <2>5. ~OwnerRead
    BY <1>1, <2>4 DEF OwnerRead
  <2>6. ~ProvedInFull
    <3>1. PICK e : e = MyDraft
      OBVIOUS
    <3>2. PICK own : own = OwnershipOf(Header, DraftId, e)
      OBVIOUS
    <3>3. PICK public : public = FullProof(own, RootOf(LeafOf(e), e.index))
      OBVIOUS
    <3>4. /\ own.hash = LeafOf(e) /\ own.owner = Header.owner
          /\ FullVerifies(public, public)
          /\ ~FullVerifies(public, [public EXCEPT ![1] = own.hash])
          /\ ~FullVerifies(public, [public EXCEPT ![4] = own.hash])
      BY <2>3, <2>4, <3>1, <3>2, <3>3, ProofHolds
    <3> QED
      BY <1>1, <3>1, <3>2, <3>3, <3>4 DEF ProvedInFull
  <2> QED
    BY <2>5, <2>6
<1>9. RpcFault
  BY <1>3, <1>4, <1>5, <1>6, <1>7, <1>8 DEF Next
<1> QED
  BY <1>9 DEF RpcFault, Faulty

\* A body waits for its receipt as long as something is under way.
LEMMA StillSent ==
  ASSUME PlaceInv, Next, mid = "sent", mid' = "sent"
  PROVE  Lands
<1>1. ~Receipt
  BY DEF Receipt, PlaceInv, Advance, Pass, Fail, End
<1>2. ~RpcFault
  BY DEF RpcFault, Doing, Fail, End
<1>3. ~(SendRecord \/ SendUnit \/ Exist \/ TurnedDown \/ TakenUp
        \/ MakeActor \/ OwnUnit \/ SendDraft \/ OwnerRead \/ ProvedInFull)
  BY DEF SendRecord, SendUnit, Exist, TurnedDown, TakenUp, MakeActor, OwnUnit,
     SendDraft, OwnerRead, ProvedInFull, Doing
<1>4. Land
  BY <1>1, <1>2, <1>3 DEF Next
<1> QED
  BY <1>4 DEF Land, Lands, LandsAt, scriptVars

\* It begins to when it has sent a record, a unit or the full draft.
Dispatches(tx) ==
  /\ Inside /\ InBody /\ StoresKept /\ body' = body /\ flying' = Append(flying, tx)
  /\ \/ Now.op = "file" /\ tx = Filing(Now.record)
     \/ Now.op = "submit" /\ tx = Drafting(FullDraftOf(Submitter))

LEMMA JustSent ==
  ASSUME Known, PlaceInv, Next, makes = Checks, mid = "ready", mid' = "sent"
  PROVE  OneMinted \/ \E tx : Dispatches(tx)
<1>1. ~(Receipt \/ Exist \/ TurnedDown \/ MakeActor \/ OwnUnit \/ OwnerRead \/ ProvedInFull \/ RpcFault)
  BY DEF Receipt, Exist, TurnedDown, MakeActor, OwnUnit, OwnerRead, ProvedInFull, RpcFault,
     Advance, Pass, Fail, End
<1>2. ~Land
  BY DEF Land, scriptVars
<1>3. ~TakenUp
  BY DEF TakenUp, Advance, Pass, Fail, End, Doing, Checks
<1>4. CASE SendRecord
  BY <1>4 DEF SendRecord, Doing, Reach, Bind, Inside, StoresKept, draftVars, Dispatches
<1>5. CASE SendUnit
  <2>1. ~LocalsKept /\ ~Afresh /\ ~ActorMade /\ ~OneWitnessed
    BY <1>5 DEF SendUnit, Doing, LocalsKept, Afresh, Ends, ActorMade, OneWitnessed, Onward
  <2> QED
    BY <2>1, LocalsMove
<1>6. CASE SendDraft
  <2>1. Reach("sent") /\ flying' = Append(flying, Drafting(FullDraftOf(Submitter)))
    BY <1>6 DEF SendDraft, Fail, End
  <2> QED
    BY <1>6, <2>1 DEF SendDraft, Doing, Reach, Bind, Inside, StoresKept, draftVars, Dispatches
<1> QED
  BY <1>1, <1>2, <1>3, <1>4, <1>5, <1>6 DEF Next

\* A block never executes one transaction as another.
LEMMA Told ==
  ASSUME NEW r, NEW u, NEW rs, NEW d
  PROVE  /\ Filing(r).to = "file" /\ Filing(r).record = r
         /\ Minting(u, rs).to = "mint" /\ Minting(u, rs).unit = u /\ Minting(u, rs).recs = rs
         /\ Drafting(d).to = "draft" /\ Drafting(d).draft = d
         /\ Filing(r).by = Attester /\ Minting(u, rs).by = Attester /\ Drafting(d).by = d.sender
BY DEF Filing, Minting, Drafting

LEMMA SentInvStep ==
  ASSUME Known, PlaceInv, LocalsInv, TrafficInv, UnitsInv, WitnessInv, SentInv,
         makes = Checks, Next
  PROVE  SentInv'
<1> SUFFICES ASSUME mid' = "sent" PROVE SentInv'
  BY DEF SentInv
<1>0. Inside /\ InBody
  BY MidStep
<1>1. (Now.op)' = Now.op /\ (Now.record)' = Now.record /\ (Now.recs)' = Now.recs /\ DraftId' = DraftId
  BY <1>0 DEF Inside, Now, Suite, DraftId
<1>2. CASE mid = "ready"
  <2>1. CASE OneMinted
    <3>1. PICK id : /\ flying' = Append(flying, Minting(Minting1(id), Now.recs))
                    /\ body' = [body EXCEPT !.minted = Append(@, Minting1(id))]
      BY <2>1 DEF OneMinted
    <3>2. PICK tx, u : tx = Minting(Minting1(id), Now.recs) /\ u = Minting1(id)
      OBVIOUS
    <3>3. Mine' = tx
      BY <3>1, <3>2, Appended DEF Mine, PlaceInv
    <3>4. LastMinted' = u
      <4>1. PICK m, s, w : body = [minted |-> m, sender |-> s, witnesses |-> w]
        BY DEF LocalsInv, IsLocals
      <4>2. body' = [minted |-> Append(m, u), sender |-> s, witnesses |-> w]
        BY <3>1, <3>2, <4>1
      <4>3. body'.minted = Append(m, u) /\ body.minted = m
        BY <4>1, <4>2
      <4> QED
        BY <4>3, Appended DEF LastMinted, LocalsInv
    <3>5. Now.op = "mint" /\ Now.recs \subseteq records /\ records' = records
      BY <2>1 DEF OneMinted, StoresKept
    <3> QED
      BY <1>1, <3>2, <3>3, <3>4, <3>5 DEF SentInv
  <2>2. CASE \E tx : Dispatches(tx)
    <3>1. PICK tx : Dispatches(tx)
      BY <2>2
    <3>2. Mine' = tx /\ Len(flying') \in 1..Len(flying') /\ tx = flying'[Len(flying')]
      BY <3>1, Appended DEF Mine, PlaceInv, Dispatches
    <3>3. FullDraftOf(Submitter)' = FullDraftOf(Submitter) /\ Signer' = Signer
      BY <1>0, <1>1, <3>1, SameSigner DEF Dispatches, FullDraftOf, Submitter
    <3>4. tx.by = Signer
      <4>1. PICK d, r : d = FullDraftOf(Submitter) /\ r = Now.record
        OBVIOUS
      <4>2. (Now.op = "file" /\ tx = Filing(r)) \/ (Now.op = "submit" /\ tx = Drafting(d) /\ d.sender = Submitter)
        BY <3>1, <4>1 DEF Dispatches, FullDraftOf
      <4> QED
        BY <4>2, Told DEF Signer
    <3>5. Underway'
      BY <3>2, <3>3, <3>4 DEF Underway
    <3> QED
      BY <1>1, <3>1, <3>2, <3>3, <3>5 DEF SentInv, Dispatches
  <2> QED
    BY <1>2, <2>1, <2>2, JustSent
<1>3. CASE mid = "sent"
  <2>1. Lands
    BY <1>3, StillSent
  <2>0. PICK i, tx : LandsAt(i) /\ tx = flying[i]
    BY <2>1 DEF Lands
  <2>2. body' = body /\ Signer' = Signer
    BY <1>0, <2>0, SameSigner DEF LandsAt
  <2>9. Underway' => Underway
    <3>1. /\ Len(flying) \in Nat /\ Len(flying') = Len(flying) - 1
          /\ \A k \in 1..(Len(flying) - 1) : /\ flying'[k] = flying[Shifted(i, k)]
                                             /\ Shifted(i, k) \in 1..Len(flying)
      BY <2>0, Shortened DEF LandsAt, PlaceInv
    <3> QED
      BY <2>2, <3>1 DEF Underway
  <2>3. FullDraftOf(Submitter)' = FullDraftOf(Submitter) /\ LastMinted' = LastMinted
    BY <1>1, <2>2 DEF FullDraftOf, Submitter, LastMinted
  <2>4. PICK j \in 1..at :
          /\ IsFrom(j, tx) /\ (j = at => mid = "sent" /\ i = Len(flying) /\ tx.by = Signer)
          /\ (Unmoved /\ Spoiled(tx)) \/ Filed(j, tx) \/ Issued(j, tx) \/ Drafted(j, tx)
    BY <2>0, Landing
  <2>10. \A r \in records : r \notin RecordsOf(j) => r \in records'
    BY <2>4 DEF Unmoved, Filed, Issued, Drafted
  <2>11. drafts \subseteq drafts'
    BY DraftsStay
  <2>5. Now.op \in {"file", "mint", "submit"}
    BY <1>3 DEF SentInv, PlaceInv
  <2>6. CASE Now.op = "file"
    <3>1. CASE ~Underway
      <4>1. Now.record \in records
        BY <1>3, <2>6, <3>1 DEF SentInv
      <4>2. j # at
        BY <2>0, <2>4, <3>1 DEF Underway, LandsAt
      <4>3. RecordsOf(j) \cap RecordsOf(at) = {} /\ Now.record \in RecordsOf(at)
        BY <1>0, <2>6, <4>2, OthersRecords, ByKind DEF PlaceInv
      <4> QED
        BY <1>1, <2>6, <2>9, <2>10, <3>1, <4>1, <4>3 DEF SentInv
    <3>2. CASE Underway'
      <4>1. Mine' = Filing(Now.record)
        BY <1>3, <2>0, <2>6, <2>9, <3>2, MineLands DEF SentInv
      <4> QED
        BY <1>1, <2>6, <3>2, <4>1 DEF SentInv
    <3>3. CASE Underway /\ ~Underway'
      <4>1. PICK r : r = Now.record
        OBVIOUS
      <4>2. tx = Filing(r) /\ tx.to = "file" /\ tx.record = r
        BY <1>3, <2>0, <2>6, <3>3, <4>1, MineLands, Told DEF SentInv
      <4>3. r \in records'
        <5>1. CASE Unmoved /\ Spoiled(tx)
          <6>1. RefusalOf(tx) = IF r \in records THEN "AlreadyExists" ELSE "none"
            BY <4>2 DEF RefusalOf
          <6> QED
            BY <4>2, <5>1, <6>1 DEF Spoiled, Dispatched, Unmoved
        <5>2. CASE Filed(j, tx)
          BY <4>2, <5>2, Told DEF Filed
        <5>3. ~Issued(j, tx)
          BY <4>2, Told DEF Issued
        <5>4. ~Drafted(j, tx)
          BY <4>2, Told DEF Drafted
        <5> QED
          BY <2>4, <5>1, <5>2, <5>3, <5>4
      <4> QED
        BY <1>1, <2>6, <3>3, <4>1, <4>3 DEF SentInv
    <3> QED
      BY <3>1, <3>2, <3>3
  <2>7. CASE Now.op = "mint"
    <3>1. CASE Underway'
      <4>1. Mine = Minting(LastMinted, Now.recs) /\ Now.recs \subseteq records
        BY <1>3, <2>7, <2>9, <3>1 DEF SentInv
      <4>2. Mine' = Mine /\ j # at
        BY <1>3, <2>0, <2>4, <2>9, <3>1, MineLands
      <4>3. RecordsOf(j) \cap RecordsOf(at) = {} /\ Now.recs \subseteq RecordsOf(at)
        BY <1>0, <2>7, <4>2, OthersRecords, ByKind DEF PlaceInv
      <4>4. Now.recs \subseteq records'
        BY <2>10, <4>1, <4>3
      <4> QED
        BY <1>1, <2>3, <2>7, <4>1, <4>2, <4>4 DEF SentInv
    <3>2. CASE ~Underway'
      BY <1>1, <2>7, <3>2 DEF SentInv
    <3> QED
      BY <3>1, <3>2
  <2>8. CASE Now.op = "submit"
    <3>1. CASE ~Underway
      BY <1>1, <1>3, <2>8, <2>9, <2>11, <3>1 DEF SentInv
    <3>2. CASE Underway'
      <4>1. Mine' = Drafting(FullDraftOf(Submitter))
        BY <1>3, <2>0, <2>8, <2>9, <3>2, MineLands DEF SentInv
      <4> QED
        BY <1>1, <2>3, <2>8, <3>2, <4>1 DEF SentInv
    <3>3. CASE Underway /\ ~Underway'
      <4>1. PICK d : d = FullDraftOf(Submitter)
        OBVIOUS
      <4>2. tx = Drafting(d) /\ tx.to = "draft" /\ tx.draft = d
        BY <1>3, <2>0, <2>8, <3>3, <4>1, MineLands, Told DEF SentInv
      <4>3. Refusal(d) = "none"
        <5>1. FullAt /\ step = 14
          BY <1>0, <2>8, ByKind DEF PlaceInv
        <5> QED
          BY <4>1, <5>1, FullDraftTaken
      <4>4. ~Spoiled(tx)
        <5>1. RefusalOf(tx) = Refusal(d)
          BY <4>2 DEF RefusalOf
        <5> QED
          BY <4>3, <5>1 DEF Spoiled, Dispatched, Checks
      <4>5. ~Filed(j, tx) /\ ~Issued(j, tx)
        BY <4>2, Told DEF Filed, Issued
      <4>6. MintDraft(d)
        BY <2>4, <4>2, <4>4, <4>5, Told DEF Drafted
      <4>7. \E e \in drafts' : e.id = DraftId
        <5>1. PICK e : e = [id |-> d.id, sender |-> d.sender, owner |-> Kept(d.owner), units |-> d.units,
                            day |-> UnitAt(d.units[1]).day, currency |-> UnitAt(d.units[1]).currency,
                            index |-> Cardinality(drafts)]
          OBVIOUS
        <5>2. drafts' = drafts \cup {e} /\ e.id = d.id
          BY <4>6, <5>1 DEF MintDraft
        <5>3. d.id = DraftId
          BY <4>1 DEF FullDraftOf
        <5> QED
          BY <5>2, <5>3
      <4> QED
        BY <1>1, <2>8, <3>3, <4>7 DEF SentInv
    <3> QED
      BY <3>1, <3>2, <3>3
  <2> QED
    BY <2>5, <2>6, <2>7, <2>8
<1> QED
  BY <1>2, <1>3 DEF PlaceInv

\* A body whose unit is under way goes nowhere but to its end.
LEMMA PendingStays ==
  ASSUME Known, PlaceInv, Next, Pending, ~Lands
  PROVE  Afresh
<1>1. at \in Nat /\ at' = at + 1
  BY Waits, AtGrows DEF Pending
<1>2. ~Inside /\ ~Onward
  BY <1>1 DEF Inside, Onward
<1>3. ~OneMinted /\ ~ActorMade /\ ~OneWitnessed /\ ~LocalsKept
  BY <1>2 DEF OneMinted, ActorMade, OneWitnessed, LocalsKept
<1> QED
  BY <1>3, LocalsMove

\* A unit of the body that runs is issued when what the body waits for lands.
LEMMA IssuedMine ==
  ASSUME Known, PlaceInv, LocalsInv, SentInv, NEW i, LandsAt(i), mid = "sent", i = Len(flying),
         flying[i].by = Signer, NEW u, NEW rs, flying[i] = Minting(u, rs)
  PROVE  Pending /\ Len(body.minted) \in {1, 2} /\ u = body.minted[Len(body.minted)] /\ rs = Now.recs
<1>1. flying[i] = Mine /\ Underway
  BY DEF Mine, Underway, LandsAt
<1>2. flying[i].to = "mint" /\ flying[i].unit = u /\ flying[i].recs = rs
  BY Told
<1>3. Now.op = "mint"
  BY <1>1, <1>2, Told DEF SentInv, PlaceInv
<1>4. flying[i] = Minting(LastMinted, Now.recs)
  BY <1>1, <1>3 DEF SentInv
<1>5. u = LastMinted /\ rs = Now.recs
  BY <1>2, <1>4, Told
<1>6. InBody
  BY DEF PlaceInv
<1>7. Len(body.minted) \in {1, 2}
  BY <1>3, <1>6, NextUnit DEF LocalsInv, Mints, PlaceInv
<1> QED
  BY <1>1, <1>3, <1>5, <1>7 DEF Pending, LastMinted

LEMMA UnitsInvStep ==
  ASSUME Known, PlaceInv, LocalsInv, TrafficInv, StoresInv, SentInv, UnitsInv,
         makes = Checks, Next
  PROVE  UnitsInv'
<1>0. /\ at \in Nat /\ suite' = suite
      /\ \A j : IdsAt(j)' = IdsAt(j)
  BY AtGrows, SameFrom
<1>1. PICK m : m = body.minted
  OBVIOUS
<1>2. IsSeq(m) /\ Len(m) \in Nat
  BY <1>1 DEF LocalsInv, IsSeq
<1>3. CASE Lands
  <2>00. PICK i, tx : LandsAt(i) /\ tx = flying[i]
    BY <1>3 DEF Lands
  <2>0. body' = body /\ at' = at /\ mid' = mid /\ (Now.op)' = Now.op /\ makes' = makes
    BY <1>0, <2>00 DEF LandsAt, Now, Suite
  <2>1. PICK j \in 1..at :
          /\ IsFrom(j, tx) /\ (j = at => mid = "sent" /\ i = Len(flying) /\ tx.by = Signer)
          /\ (Unmoved /\ Spoiled(tx)) \/ Filed(j, tx) \/ Issued(j, tx) \/ Drafted(j, tx)
    BY <2>00, Landing
  <2>2. ASSUME Issued(j, tx)
        PROVE  \E u, rs : IsUnit(j, u) /\ tx = Minting(u, rs) /\ units' = units \cup {u}
    <3>1. PICK u, rs : IsUnit(j, u) /\ tx = Minting(u, rs) /\ MintUnit(u)
      BY <2>2 DEF Issued
    <3>2. PICK v : v = u.owner
      OBVIOUS
    <3>3. Kept(v) = v
      BY DEF Kept, Checks
    <3>4. [u EXCEPT !.owner = v] = u
      BY <3>1, <3>2 DEF IsUnit, Unit
    <3>5. units' = units \cup {u}
      BY <3>1, <3>2, <3>3, <3>4 DEF MintUnit
    <3> QED
      BY <3>1, <3>5
  <2>3. units \subseteq units'
    BY <2>1, <2>2 DEF Unmoved, Filed, Drafted
  <2>4. ASSUME Pending, ~Pending' PROVE m[Len(m)] \in units'
    <3>1. ~Underway' /\ mid = "sent" /\ Now.op = "mint" /\ Underway
      BY <2>0, <2>4 DEF Pending
    <3>2. tx = Minting(LastMinted, Now.recs) /\ Now.recs \subseteq records
      BY <2>00, <3>1, MineLands DEF SentInv
    <3>3. PICK u, rs : u = LastMinted /\ rs = Now.recs
      OBVIOUS
    <3>4. tx.to = "mint" /\ tx.unit = u /\ tx.recs = rs
      BY <3>2, <3>3, Told
    <3>5. ~Spoiled(tx)
      BY <3>2, <3>3, <3>4 DEF Spoiled, RefusalOf, Dispatched
    <3>6. ~Filed(j, tx) /\ ~Drafted(j, tx)
      BY <3>4, Told DEF Filed, Drafted
    <3>7. PICK v, vs : tx = Minting(v, vs) /\ units' = units \cup {v}
      BY <2>1, <2>2, <3>5, <3>6
    <3>8. v = u
      BY <3>4, <3>7, Told
    <3> QED
      BY <1>1, <3>3, <3>7, <3>8 DEF LastMinted
  <2>5. ASSUME NEW u \in units', u.id \in IdsAt(at) PROVE \E k \in 1..Len(m) : u = m[k]
    <3>1. CASE u \in units
      BY <1>1, <2>5, <3>1 DEF UnitsInv
    <3>2. CASE u \notin units
      <4>1. Issued(j, tx)
        BY <2>1, <3>2 DEF Unmoved, Filed, Drafted
      <4>2. PICK v, rs : IsUnit(j, v) /\ tx = Minting(v, rs) /\ units' = units \cup {v}
        BY <2>2, <4>1
      <4>3. u = v
        BY <3>2, <4>2
      <4>4. v.id \in IdsAt(j)
        BY <4>2 DEF IsUnit, Unit
      <4>5. j = at
        BY <2>5, <4>3, <4>4, OthersIds
      <4>6. Len(m) \in {1, 2} /\ v = m[Len(m)]
        BY <1>1, <2>00, <2>1, <4>2, <4>5, IssuedMine
      <4> QED
        BY <4>3, <4>6
    <3> QED
      BY <3>1, <3>2
  <2>6. \A k \in 1..Len(m) : m[k] \in units' \/ (k = Len(m) /\ Pending')
    BY <1>1, <2>3, <2>4 DEF UnitsInv
  <2>7. \A n, k \in 1..Len(m) : m[n].id = m[k].id => n = k
    BY <1>1 DEF UnitsInv
  <2>8. body'.minted = m /\ IdsAt(at)' = IdsAt(at)
    BY <1>0, <1>1, <2>0 DEF IdsAt, Fulls, Suite
  <2> QED
    BY <2>5, <2>6, <2>7, <2>8 DEF UnitsInv
<1>4. ASSUME ~Lands PROVE units' = units /\ makes' = makes
  BY <1>4, Traffic DEF Calm, Sends, StoresKept
<1>5. CASE ~Lands /\ Afresh
  <2>1. body'.minted = <<>> /\ at' = at + 1
    BY <1>5, AtGrows DEF Afresh, NoLocals
  <2>2. Len(<<>>) = 0 /\ 1..0 = {}
    OBVIOUS
  <2>3. ASSUME NEW u \in units, u.id \in IdsAt(at + 1) PROVE FALSE
    <3>1. PICK j \in 1..at : IsStored(j, u)
      BY DEF StoresInv
    <3>2. u.id \in IdsAt(j)
      BY <3>1 DEF IsStored
    <3>3. PICK k : k = at + 1
      OBVIOUS
    <3>4. j = k
      BY <2>3, <3>2, <3>3, OthersIds
    <3> QED
      BY <1>0, <3>3, <3>4
  <2>4. IdsAt(at)' = IdsAt(at + 1)
    BY <1>0, <2>1 DEF IdsAt, Fulls, Suite
  <2> QED
    BY <1>4, <1>5, <2>1, <2>2, <2>3, <2>4 DEF UnitsInv
<1>6. CASE ~Lands /\ ~Afresh
  <2>1. ~Pending
    BY <1>6, PendingStays
  <2>2. /\ \A i \in 1..Len(m) : m[i] \in units
        /\ \A i, k \in 1..Len(m) : m[i].id = m[k].id => i = k
        /\ \A u \in units : u.id \in IdsAt(at) => \E i \in 1..Len(m) : u = m[i]
    BY <1>1, <2>1 DEF UnitsInv
  <2>3. at' = at
    BY <1>6, LocalsMove DEF OneMinted, ActorMade, OneWitnessed, LocalsKept, Inside, Onward
  <2>4. IdsAt(at)' = IdsAt(at) /\ units' = units
    BY <1>0, <1>4, <1>6, <2>3 DEF IdsAt, Fulls, Suite
  <2>5. PICK s, w : body = [minted |-> m, sender |-> s, witnesses |-> w]
    BY <1>1 DEF LocalsInv, IsLocals
  <2>6. CASE OneMinted
    <3>1. PICK id : /\ id \notin {u.id : u \in units}
                    /\ flying' = Append(flying, Minting(Minting1(id), Now.recs))
                    /\ body' = [body EXCEPT !.minted = Append(@, Minting1(id))]
      BY <2>6 DEF OneMinted
    <3>2. PICK u : u = Minting1(id)
      OBVIOUS
    <3>3. u.id = id
      BY <3>2 DEF Minting1
    <3>4. body' = [minted |-> Append(m, u), sender |-> s, witnesses |-> w]
      BY <2>5, <3>1, <3>2
    <3>5. PICK q : q = body'.minted
      OBVIOUS
    <3>6. q = Append(m, u)
      BY <3>4, <3>5
    <3>7. PICK n : n = Len(m)
      OBVIOUS
    <3>8. n \in Nat /\ Len(q) = n + 1 /\ q[n + 1] = u /\ \A i \in 1..n : q[i] = m[i]
      BY <1>2, <3>6, <3>7, Appended
    <3>9. Pending'
      <4>1. PICK tx, rs : tx = Minting(u, rs) /\ flying' = Append(flying, tx)
        BY <3>1, <3>2
      <4>2. tx.by = Attester /\ Len(flying') \in 1..Len(flying') /\ tx = flying'[Len(flying')]
        BY <4>1, Appended, Told DEF PlaceInv
      <4>3. (Now.op)' = Now.op /\ Now.op = "mint" /\ mid' = "sent"
        BY <2>6 DEF OneMinted, Inside, Now, Suite
      <4>4. Signer' = Attester
        BY <4>3 DEF Signer, Attester
      <4> QED
        BY <4>2, <4>3, <4>4 DEF Pending, Underway
    <3>10. \A i \in 1..n : m[i].id # u.id
      BY <2>2, <3>1, <3>3, <3>7
    <3>11. \A i, k \in 1..(n + 1) : q[i].id = q[k].id => i = k
      <4>1. \A i \in 1..(n + 1) : i \in 1..n \/ i = n + 1
        BY <3>8
      <4> QED
        BY <2>2, <3>7, <3>8, <3>10, <4>1
    <3>12. \A i \in 1..(n + 1) : q[i] \in units \/ i = n + 1
      BY <2>2, <3>7, <3>8
    <3>13. \A x \in units : x.id \in IdsAt(at) => \E i \in 1..(n + 1) : x = q[i]
      <4> SUFFICES ASSUME NEW x \in units, x.id \in IdsAt(at) PROVE \E i \in 1..(n + 1) : x = q[i]
        OBVIOUS
      <4>1. PICK i \in 1..n : x = m[i]
        BY <2>2, <3>7
      <4> QED
        BY <3>8, <4>1
    <3> QED
      BY <2>4, <3>5, <3>8, <3>9, <3>11, <3>12, <3>13 DEF UnitsInv
  <2>7. CASE ActorMade
    <3>1. InBody /\ FullAt /\ step = 11
      BY <2>7, ByKind DEF ActorMade, PlaceInv
    <3>2. Len(m) = 2
      BY <1>1, <3>1, TwoInFull
    <3>3. PICK q : q = InSubmittedOrder(m)
      OBVIOUS
    <3>4. Len(q) = 2 /\ AreSorted(q, m)
      BY <1>1, <2>1, <3>2, <3>3, SortedTwo
    <3>5. body' = [minted |-> q, sender |-> at, witnesses |-> w]
      BY <2>5, <2>7, <3>3 DEF ActorMade
    <3>6. body'.minted = q
      BY <3>5
    <3>7. 1..2 = {1, 2}
      OBVIOUS
    <3>8. \A i \in 1..2 : q[i] \in units
      BY <3>4 DEF AreSorted
    <3>9. \A i, k \in 1..2 : q[i].id = q[k].id => i = k
      <4>1. q[1].id # q[2].id
        BY <3>4 DEF AreSorted
      <4> QED
        BY <3>7, <4>1
    <3>10. \A x \in units : x.id \in IdsAt(at) => \E i \in 1..2 : x = q[i]
      BY <2>2, <3>2, <3>4, <3>7 DEF AreSorted
    <3> QED
      BY <2>4, <3>4, <3>6, <3>8, <3>9, <3>10 DEF UnitsInv
  <2>8. CASE OneWitnessed \/ LocalsKept
    <3>1. body'.minted = m
      <4>1. CASE OneWitnessed
        <5>1. \E e : body' = [body EXCEPT !.witnesses = Append(@, e)]
          BY <4>1 DEF OneWitnessed
        <5> QED
          BY <2>5, <5>1
      <4> QED
        BY <1>1, <2>8, <4>1 DEF LocalsKept
    <3> QED
      BY <2>2, <2>4, <3>1 DEF UnitsInv
  <2> QED
    BY <1>6, <2>6, <2>7, <2>8, LocalsMove
<1> QED
  BY <1>3, <1>5, <1>6

\* The order of the units is settled before the first witness, and neither they nor the
\* binding change after it.
LEMMA WitnessInvStep ==
  ASSUME Known, PlaceInv, LocalsInv, UnitsInv, WitnessInv, Next
  PROVE  WitnessInv'
<1>0. PICK m, s, w : body = [minted |-> m, sender |-> s, witnesses |-> w]
  BY DEF LocalsInv, IsLocals
<1>1. body.minted = m /\ body.sender = s /\ body.witnesses = w
  BY <1>0
<1>2. IsSeq(w) /\ Len(w) = Owns /\ ScriptTypeOK
  BY <1>1 DEF LocalsInv, PlaceInv
<1>3. /\ FullAt /\ step >= 12 => m[1].id < m[2].id
      /\ \A i \in 1..Len(w) : w[i] = Witness(Consent, m[i], Binding(s, at, "L2"))
  BY <1>1 DEF WitnessInv, DraftId
<1>4. CASE Afresh
  <2>1. body'.witnesses = <<>> /\ step' = 1
    BY <1>4 DEF Afresh, NoLocals, Ends
  <2>2. Len(<<>>) = 0 /\ 1..0 = {}
    OBVIOUS
  <2>3. ~(step >= 12)'
    BY <2>1
  <2> QED
    BY <2>1, <2>2, <2>3 DEF WitnessInv
<1>5. CASE OneMinted
  <2>1. PICK u : body' = [body EXCEPT !.minted = Append(@, u)]
    BY <1>5 DEF OneMinted
  <2>2. body' = [minted |-> Append(m, u), sender |-> s, witnesses |-> w]
    BY <1>0, <2>1
  <2>3. body'.witnesses = w
    BY <2>2
  <2>4. ~(FullAt /\ step >= 12) /\ ~(FullAt /\ step >= 13)
    BY <1>2, <1>5, ByKind DEF OneMinted, FullAt, OneAt, TwoAt
  <2>5. Len(w) = 0
    BY <1>2, <2>4 DEF Owns
  <2>6. ~(FullAt /\ step >= 12)'
    BY <1>5, <2>4 DEF OneMinted, Inside, FullAt, Fulls, Suite
  <2> QED
    BY <2>3, <2>5, <2>6 DEF WitnessInv
<1>6. CASE ActorMade
  <2>1. FullAt /\ step = 11
    BY <1>2, <1>6, ByKind DEF ActorMade
  <2>2. Len(m) = 2 /\ ~Pending
    <3>1. step >= 10
      BY <2>1
    <3> QED
      BY <1>1, <1>6, <2>1, <3>1, TwoInFull DEF Pending, ActorMade
  <2>3. PICK q : q = InSubmittedOrder(m)
    OBVIOUS
  <2>4. q[1].id < q[2].id
    BY <1>1, <2>2, <2>3, SortedTwo DEF AreSorted
  <2>5. body' = [minted |-> q, sender |-> at, witnesses |-> w]
    BY <1>0, <1>6, <2>3 DEF ActorMade
  <2>6. body'.minted = q /\ body'.witnesses = w
    BY <2>5
  <2>7. Len(w) = 0
    BY <1>2, <2>1 DEF Owns
  <2> QED
    BY <2>4, <2>6, <2>7 DEF WitnessInv
<1>7. CASE OneWitnessed
  <2>1. FullAt /\ step \in {12, 13} /\ Now.nth = step - 11
    BY <1>2, <1>7, ByKind DEF OneWitnessed
  <2>2. PICK n : n = Now.nth
    OBVIOUS
  <2>3. Owns = n - 1 /\ n \in {1, 2}
    BY <2>1, <2>2 DEF Owns
  <2>4. PICK e : e = Witness(Consent, m[n], Binding(s, at, "L2"))
    OBVIOUS
  <2>5. body' = [minted |-> m, sender |-> s, witnesses |-> Append(w, e)]
    BY <1>0, <1>1, <1>7, <2>2, <2>4 DEF OneWitnessed, DraftId
  <2>6. body'.minted = m /\ body'.sender = s /\ body'.witnesses = Append(w, e)
    BY <2>5
  <2>7. PICK q : q = Append(w, e)
    OBVIOUS
  <2>8. Len(q) = n /\ q[n] = e /\ \A i \in 1..(n - 1) : q[i] = w[i]
    <3>1. PICK k : k = Len(w)
      OBVIOUS
    <3>2. Len(q) = k + 1 /\ q[k + 1] = e /\ \A i \in 1..k : q[i] = w[i]
      BY <1>2, <2>7, <3>1, Appended
    <3>3. k + 1 = n /\ k = n - 1
      BY <1>2, <2>3, <3>1
    <3> QED
      BY <3>2, <3>3
  <2>9. \A i \in 1..n : q[i] = Witness(Consent, m[i], Binding(s, at, "L2"))
    <3>1. \A i \in 1..n : i \in 1..(n - 1) \/ i = n
      BY <2>3
    <3>2. \A i \in 1..(n - 1) : w[i] = Witness(Consent, m[i], Binding(s, at, "L2"))
      BY <1>2, <1>3, <2>3
    <3> QED
      BY <2>4, <2>8, <3>1, <3>2
  <2>10. m[1].id < m[2].id
    BY <1>3, <2>1
  <2>11. at' = at
    BY <1>7 DEF OneWitnessed, Onward
  <2> QED
    BY <2>6, <2>7, <2>8, <2>9, <2>10, <2>11 DEF WitnessInv, DraftId
<1>8. CASE LocalsKept
  <2>1. body' = body /\ at' = at
    BY <1>8 DEF LocalsKept, Inside, Onward
  <2>2. (FullAt /\ step >= 12)' => FullAt /\ step >= 12
    BY <1>8, Settled
  <2> QED
    BY <1>1, <1>3, <2>1, <2>2 DEF WitnessInv, DraftId
<1> QED
  BY <1>4, <1>5, <1>6, <1>7, <1>8, LocalsMove

\* Only the verdict of the body that runs changes, and a body fails for a fault.
LEMMA DeservedStep ==
  ASSUME Known, PlaceInv, LocalsInv, StoresInv, MintedInv, GoodInv, makes = Checks, Next,
         NEW i \in Scenarios, verdict'[i] = "fail"
  PROVE  i \in faulted'
<1>0. at \in Nat /\ verdict \in [Scenarios -> {"todo", "pass", "fail"}]
  BY Numbers DEF PlaceInv, ScriptTypeOK
<1>1. faulted \subseteq faulted'
  BY Steps DEF Inside, Onward, Passed, Failed, Ends, Hit
<1>2. CASE verdict[i] = "fail"
  BY <1>1, <1>2 DEF GoodInv
<1>3. CASE verdict[i] # "fail"
  <2>1. InBody /\ Failed /\ i = at
    BY <1>0, <1>3, Steps DEF Inside, Onward, Passed, Failed, Ends
  <2>2. Fail
    BY <2>1 DEF Failed, Ends, Fail, End
  <2> QED
    BY <2>1, <2>2, OnlyFaults DEF GoodInv
<1> QED
  BY <1>2, <1>3

LEMMA GoodInvStep ==
  ASSUME Known, PlaceInv, LocalsInv, TrafficInv, StoresInv, MintedInv, GoodInv, Next
  PROVE  GoodInv'
<1>1. makes' = makes /\ Scenarios' = Scenarios
  BY Traffic, AtGrows DEF Calm, Sends, Lands, LandsAt, StoresKept, Scenarios, Suite
<1> SUFFICES ASSUME makes = Checks
             PROVE  SentInv' /\ UnitsInv' /\ WitnessInv' /\ \A i \in Scenarios : verdict'[i] = "fail" => i \in faulted'
  BY <1>1 DEF GoodInv
<1>2. SentInv /\ UnitsInv /\ WitnessInv
  BY DEF GoodInv
<1>3. SentInv' /\ UnitsInv' /\ WitnessInv'
  BY <1>2, SentInvStep, UnitsInvStep, WitnessInvStep
<1> QED
  BY <1>3, DeservedStep

-----------------------------------------------------------------------------
(* The theorems.                                                           *)

DraftInv == PlaceInv /\ LocalsInv /\ SenderInv /\ TrafficInv /\ StoresInv /\ MintedInv /\ GoodInv

LEMMA Beginning ==
  ASSUME Known, Init
  PROVE  DraftInv /\ ShownInv
<1>0. /\ suite \in DOMAIN Suites /\ at = 1 /\ step = 1 /\ mid = "ready"
      /\ verdict = [i \in Scenarios |-> "todo"] /\ faulted = {}
      /\ units = {} /\ drafts = {} /\ records = {} /\ flying = <<>> /\ body = NoLocals
      /\ makes \subseteq Checks
  BY DEF Init, ScriptInit
<1>1. Len(Suite) \in {4, 5} /\ Scenarios = 1..Len(Suite) /\ 1 \in Scenarios /\ InBody
  <2>1. PICK n \in {4, 5} : n = Len(Suite)
    BY <1>0, SuiteShape
  <2>2. Scenarios = 1..n /\ 1 \in 1..n
    BY <2>1 DEF Scenarios
  <2> QED
    BY <1>0, <2>1, <2>2 DEF InBody
<1>2. Len(Suite[1]) \in Nat /\ Len(Suite[1]) >= 1
  <2>1. IsSequence(Suite) /\ \A i \in DOMAIN Suite : IsSequence(Suite[i]) /\ Len(Suite[i]) > 0
    BY <1>0, SuiteAssumption DEF Suite
  <2>2. IsSequence(Suite[1]) /\ Len(Suite[1]) > 0
    BY <1>1, <2>1 DEF IsSequence, Scenarios
  <2> QED
    BY <2>2 DEF IsSequence
<1>3. ScriptTypeOK
  BY <1>0, <1>1, <1>2 DEF ScriptTypeOK
<1>4. IsSeq(<<>>) /\ Len(<<>>) = 0 /\ 1..0 = {}
  <2>1. <<>> \in Seq({})
    OBVIOUS
  <2> QED
    BY <2>1 DEF IsSeq
<1>5. PlaceInv
  BY <1>0, <1>3, <1>4 DEF PlaceInv
<1>6. body.minted = <<>> /\ body.witnesses = <<>> /\ IsLocals(body)
  BY <1>0 DEF NoLocals, IsLocals
<1>7. LocalsInv
  <2>1. Mints = 0 /\ Owns = 0
    BY <1>0 DEF Mints, MintsBefore, Owns
  <2> QED
    BY <1>4, <1>6, <2>1 DEF LocalsInv
<1>8. TrafficInv
  BY <1>0, <1>4 DEF TrafficInv
<1>9. StoresInv
  BY <1>0, FS_EmptySet DEF StoresInv
<1>10. MintedInv
  BY <1>0 DEF MintedInv
<1>11. ShownInv
  BY <1>0 DEF ShownInv
<1>12. GoodInv
  BY <1>0, <1>4, <1>6 DEF GoodInv, SentInv, UnitsInv, WitnessInv
<1>13. SenderInv
  BY <1>0 DEF SenderInv
<1> QED
  BY <1>5, <1>7, <1>8, <1>9, <1>10, <1>11, <1>12, <1>13 DEF DraftInv

\* A step of nobody.
LEMMA Stuttering ==
  ASSUME UNCHANGED vars
  PROVE  DraftInv' = DraftInv /\ ShownInv' = ShownInv
<1>0. UNCHANGED <<makes, units, drafts, suite, at, step, mid, verdict, faulted, records, flying, body>>
  BY DEF vars, draftVars, scriptVars
<1>1. /\ Suite' = Suite /\ Now' = Now /\ Fulls' = Fulls /\ Scenarios' = Scenarios
      /\ InBody' = InBody /\ FullAt' = FullAt /\ OneAt' = OneAt /\ TwoAt' = TwoAt
  BY <1>0 DEF Suite, Now, Fulls, Scenarios, InBody, FullAt, OneAt, TwoAt
<1>2. \A j : /\ IdsAt(j)' = IdsAt(j) /\ RecordsOf(j)' = RecordsOf(j) /\ OwnerOf(j)' = OwnerOf(j)
            /\ ByWallet(j)' = ByWallet(j)
  BY <1>0, SameFrom
<1>3. PlaceInv' = PlaceInv
  BY <1>0, <1>1 DEF PlaceInv, ScriptTypeOK
<1>4. LocalsInv' = LocalsInv
  <2>1. Mints' = Mints /\ Owns' = Owns
    BY <1>0, <1>1 DEF Mints, MintsBefore, Owns
  <2>2. \A i : DayOf(i)' = DayOf(i) /\ CurOf(i)' = CurOf(i)
    BY <1>0, <1>1 DEF DayOf, CurOf
  <2>3. IdsAt(at)' = IdsAt(at)
    BY <1>0, <1>1 DEF IdsAt
  <2> QED
    BY <1>0, <2>1, <2>2, <2>3 DEF LocalsInv
<1>5. TrafficInv' = TrafficInv
  <2>1. \A j, tx : IsFrom(j, tx)' = IsFrom(j, tx)
    BY <1>0, SameFrom
  <2>2. Signer' = Signer
    BY <1>0, <1>1 DEF Signer, Submitter
  <2> QED
    BY <1>0, <2>1, <2>2 DEF TrafficInv
<1>6. StoresInv' = StoresInv
  <2>1. \A j, u : IsStored(j, u)' = IsStored(j, u)
    BY <1>0, SameStored
  <2> QED
    BY <1>0, <1>1, <1>2, <2>1 DEF StoresInv, Kept, OwnerOf
<1>7. MintedInv' = MintedInv
  BY <1>0, <1>1 DEF MintedInv
<1>8. GoodInv' = GoodInv
  <2>1. SentInv' = SentInv
    BY <1>0, <1>1 DEF SentInv, Mine, LastMinted, FullDraftOf, Submitter, DraftId, Underway, Signer
  <2>2. UnitsInv' = UnitsInv
    BY <1>0, <1>1 DEF UnitsInv, Pending, Underway, Signer, Submitter, IdsAt
  <2>3. WitnessInv' = WitnessInv
    BY <1>0, <1>1 DEF WitnessInv, DraftId
  <2> QED
    BY <1>0, <1>1, <2>1, <2>2, <2>3 DEF GoodInv
<1>9. ShownInv' = ShownInv
  BY <1>0, <1>1 DEF ShownInv, Shown
<1>10. SenderInv' = SenderInv
  BY <1>0, <1>1 DEF SenderInv
<1> QED
  BY <1>3, <1>4, <1>5, <1>6, <1>7, <1>8, <1>9, <1>10 DEF DraftInv

LEMMA DraftInvariant ==
  ASSUME Known
  PROVE  Spec => []DraftInv
<1>1. Init => DraftInv
  BY Beginning
<1>2. DraftInv /\ [Next]_vars => DraftInv'
  <2>1. DraftInv /\ Next => DraftInv'
    BY PlaceInvStep, LocalsInvStep, SenderInvStep, TrafficInvStep, StoresInvStep, MintedInvStep, GoodInvStep DEF DraftInv
  <2> QED
    BY <2>1, Stuttering
<1> QED
  BY <1>1, <1>2, PTL DEF Spec

\* Whatever becomes of the transactions a broken-off scenario has left in the pool, a unit
\* has a day and a currency of its script, a draft the id of a scenario and a place among
\* the leaves there are, and no body has more witnesses than units.
THEOREM DraftTypeAlways ==
  ASSUME Known
  PROVE  Spec => []TypeOK
<1>1. DraftInv => TypeOK
  BY TypesHold DEF DraftInv
<1> QED
  BY <1>1, DraftInvariant, PTL

\* A suite that ends green has shown that the contract makes the checks its scenarios wait
\* for, whichever checks it may lack and in whatever order the units' ids fall.
THEOREM GreenDraftsMeanChecked ==
  ASSUME Known, NobodyElse
  PROVE  Spec => []GreenMeansChecked
<1> DEFINE Inv == DraftInv /\ ShownInv
<1>1. Init => Inv
  BY Beginning
<1>2. Inv /\ [Next]_vars => Inv'
  <2>1. Inv /\ Next => Inv'
    BY PlaceInvStep, LocalsInvStep, SenderInvStep, TrafficInvStep, StoresInvStep, MintedInvStep, GoodInvStep, ShownInvStep
       DEF DraftInv
  <2> QED
    BY <2>1, Stuttering
<1>3. Inv => GreenMeansChecked
  BY GreenHolds DEF DraftInv
<1> QED
  BY <1>1, <1>2, <1>3, PTL DEF Spec

\* Where the contract makes every check no scenario fails but for a fault of its own: not
\* for the order its units' ids fall in, and not for what others have left to land.
THEOREM FailuresDeservedAlways ==
  ASSUME Known
  PROVE  Spec => []FailuresDeserved
<1>1. DraftInv => FailuresDeserved
  BY DEF DraftInv, GoodInv, FailuresDeserved
<1> QED
  BY <1>1, DraftInvariant, PTL

=============================================================================
