--------------------------- MODULE AgentsScenarios ---------------------------
(***************************************************************************)
(* The scenario bodies of the suite that work on the agents pool           *)
(* (testsuite/src/scenarios), as scripts of AgentsFlow: every call that    *)
(* reaches the node, in the order of the source.  Ids and keys a body      *)
(* draws at random are its own.                                            *)
(***************************************************************************)
EXTENDS AgentsFlow, TLC

\* Senders: the primary attester, the ones S009, S020, S033, S035 and S036
\* register, and a key that nobody does (S027, S029, S030 and S037).
Senders == {"zero", "att009", "att020", "att033", "att035", "att036", "stranger"}

\* u32::MAX, the mask S027 and S028 ask for; every bit is as good as any.
AllBits == 255

File(a, r) == [kind |-> "file", by |-> a, recs |-> {r}, sound |-> TRUE]
Mint(a, rs) == [kind |-> "mint", by |-> a, recs |-> rs, sound |-> TRUE]
Unsound(b) == [b EXCEPT !.sound = FALSE]

ScenarioBody ==
  "s007first"  :> File("zero", "sr007")
  @@ "s007again"  :> File("zero", "sr007")
  @@ "s008zero"   :> Unsound(File("zero", "sr008"))
  @@ "s009file"   :> File("zero", "sr009")
  @@ "s009mint"   :> Mint("att009", {"sr009"})
  @@ "s010file"   :> File("zero", "sr010")
  @@ "s010su1"    :> Mint("zero", {"sr010"})
  @@ "s010su2"    :> Mint("zero", {"sr010"})
  @@ "s011mint"   :> Mint("zero", {"sr011"})
  @@ "s020file"   :> File("zero", "ar020")
  @@ "s020mint"   :> Mint("att020", {"ar020"})
  @@ "s026file"   :> File("zero", "sr026")
  @@ "s026mint"   :> Unsound(Mint("zero", {"sr026"}))
  @@ "s030file"   :> File("stranger", "sr030")
  @@ "s033before" :> File("att033", "sr033a")
  @@ "s033after"  :> File("att033", "sr033b")

ScenarioTxs == DOMAIN ScenarioBody
ScenarioRecords == UNION {ScenarioBody[t].recs : t \in ScenarioTxs}

\* An SR id registered twice.
S007 == << Send("s007first"), WaitTx("s007first"),
           Refused("s007again", "AlreadyExists") >>

\* The SR id zero.
S008 == << Refused("s008zero", "InvalidTokenId") >>

\* A unit over another attester's SR.
S009 == << Send("s009file"), WaitTx("s009file"), WaitExists({"sr009"}),
           NewAttester("att009"),
           Refused("s009mint", "BadOwner") >>

\* A second unit over a consumed SR.
S010 == << Send("s010file"), WaitTx("s010file"), WaitExists({"sr010"}),
           Send("s010su1"), WaitTx("s010su1"),
           Refused("s010su2", "Duplicate") >>

\* A unit over an SR nobody registered.
S011 == << Refused("s011mint", "BadOwner") >>

\* A unit over another attester's AR.
S020 == << Send("s020file"), WaitTx("s020file"), WaitExists({"ar020"}),
           NewAttester("att020"),
           Refused("s020mint", "BadOwner") >>

\* A unit whose atto part is a whole base unit.
S026 == << Send("s026file"), WaitTx("s026file"), WaitExists({"sr026"}),
           Refused("s026mint", "InvalidAmount") >>

\* A sender the registry has never heard of.
S030 == << Refused("s030file", "AttesterNotActive") >>

\* A sender that was registered, used and revoked.
S033 == << NewAttester("att033"),
           Send("s033before"), WaitTx("s033before"),
           Call(RevokeCall("att033")), Poll("att033", "active", FALSE, BOOLEAN),
           Refused("s033after", "AttesterNotActive") >>

\* The registry's gates: the caller, the address, the mask, and an unknown attester.
S027 == << CallRefused(RegisterCall("zero", "stranger", AllBits), "NotAdmin") >>
S028 == << CallRefused(RegisterCall(Admin, ZeroAddress, AllBits), "ZeroAddress") >>
S029 == << CallRefused(RegisterCall(Admin, "stranger", 0), "InvalidMask") >>
S037 == << CallRefused(RevokeCall("stranger"), "NotRegistered") >>

\* updateMask round trip: units and spending records only.
S035 == << NewAttester("att035"),
           Check("att035", "mask", AttesterMask, {TRUE}),
           Call(MaskCall("att035", 3)),
           Poll("att035", "mask", 3, {TRUE}) >>

\* Mutant of S036: it ends once the candidacy has been seen.
S036Uncleaned == << NewAttester("att036"),
                    Check("att036", "rotation", FALSE, BOOLEAN),
                    Call(IdentityCall("att036", "dummy")),
                    Poll("att036", "key", "dummy", BOOLEAN),
                    Call(RotationCall("att036", TRUE)),
                    Poll("att036", "rotation", TRUE, {TRUE}) >>

\* setRotationCandidate round trip, and the clean-up at its end.
S036 == << NewAttester("att036"),
           Check("att036", "rotation", FALSE, BOOLEAN),
           Call(IdentityCall("att036", "dummy")),
           Poll("att036", "key", "dummy", BOOLEAN),
           Call(RotationCall("att036", TRUE)),
           Poll("att036", "rotation", TRUE, {TRUE}),
           Call(RotationCall("att036", FALSE)),
           Poll("att036", "rotation", FALSE, BOOLEAN) >>

\* In the order of scenarios::all.
RecordSuite == << S007, S008, S009, S010, S011, S020, S026, S030, S033 >>
RegistrySuite == << S027, S028, S029, S033, S035, S036, S037 >>

-----------------------------------------------------------------------------
(* The registry after the suite (S036: a candidate with a dummy key makes  *)
(* every later reshare of the committee fail).                             *)

Candidates == {a \in Attesters : details[a].rotation}

\* Only a suite in which a scenario failed may leave a rotation candidate behind.
NoStrayCandidate ==
  Ended /\ Candidates # {} => \E i \in Scenarios : verdict[i] = "fail"

=============================================================================
