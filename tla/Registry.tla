------------------------------- MODULE Registry -------------------------------
(***************************************************************************)
(* AttestersRegistry as the admin client drives it                         *)
(* (testsuite/src/clients/admin.rs): calls are judged at the head when     *)
(* their gas is estimated and again when a block executes them, in the     *)
(* order of the admin's nonces.                                            *)
(*                                                                         *)
(* The contract is not part of the repository: its guards are the ones     *)
(* S027, S028, S029, S036 and S037 rely on.                                *)
(***************************************************************************)
EXTENDS Membership

CONSTANTS
  Admin,        \* the registry administrator
  ZeroAddress,  \* address(0)
  Keys,         \* consensus keys
  NoKey         \* the zero consensus key

ASSUME RegistryAssumption == NoKey \in Keys /\ ZeroAddress \notin Attesters

VARIABLES
  details,   \* attester -> mask, rotation candidacy and consensus key
  adminPool  \* registry calls waiting for a block, in nonce order

registryVars == <<details, adminPool>>

Details == [mask : Nat, rotation : BOOLEAN, key : Keys]
Blank == [mask |-> 0, rotation |-> FALSE, key |-> NoKey]

Addresses == Attesters \cup {ZeroAddress}

RegisterCall(by, a, m) ==
  [fn |-> "register", by |-> by, who |-> a, value |-> [Blank EXCEPT !.mask = m]]
RevokeCall(a) == [fn |-> "revoke", by |-> Admin, who |-> a, value |-> Blank]
MaskCall(a, m) == [fn |-> "updateMask", by |-> Admin, who |-> a, value |-> m]
RotationCall(a, b) == [fn |-> "setRotationCandidate", by |-> Admin, who |-> a, value |-> b]
IdentityCall(a, k) == [fn |-> "setConsensusIdentity", by |-> Admin, who |-> a, value |-> k]

\* ATTESTER_PERMISSION_MASK: submit of units and of both kinds of record, heartbeat.
AttesterMask == 15

\* What can be asked for, and what is given with it.
Values == [register |-> Details, revoke |-> Details, updateMask |-> Nat,
           setRotationCandidate |-> BOOLEAN, setConsensusIdentity |-> Keys]

IsCall(c) == c.who \in Addresses /\ c.fn \in DOMAIN Values /\ c.value \in Values[c.fn]

RegistryTypeOK ==
  /\ details \in [Attesters -> Details]
  /\ \A i \in 1..Len(adminPool) : IsCall(adminPool[i])

RegistryInit ==
  /\ details = [a \in Attesters |-> IF a \in active THEN [Blank EXCEPT !.mask = AttesterMask]
                                                    ELSE Blank]
  /\ adminPool = <<>>

\* The guards, in the order of the contract.
CallRefusal(c) ==
  IF c.by # Admin THEN "NotAdmin"
  ELSE IF c.who = ZeroAddress THEN "ZeroAddress"
  ELSE IF c.fn = "register" /\ c.value.mask = 0 THEN "InvalidMask"
  ELSE IF c.fn = "register" /\ c.who \in active THEN "AlreadyRegistered"
  ELSE IF c.fn # "register" /\ c.who \notin active THEN "NotRegistered"
  ELSE IF c.fn = "setRotationCandidate" /\ c.value /\ details[c.who].key = NoKey THEN "NoConsensusKey"
  ELSE "none"

\* What the record of its attester becomes.
Written(c) ==
  CASE c.fn = "register" -> c.value
    [] c.fn = "updateMask" -> [details[c.who] EXCEPT !.mask = c.value]
    [] c.fn = "setRotationCandidate" -> [details[c.who] EXCEPT !.rotation = c.value]
    [] c.fn = "setConsensusIdentity" -> [details[c.who] EXCEPT !.key = c.value]
    [] OTHER -> details[c.who]

\* The broadcast half of `.send()`.
Post(c) == adminPool' = Append(adminPool, c)

\* A block executes the call with the lowest nonce.
AdminInclude ==
  /\ adminPool # <<>>
  /\ adminPool' = Tail(adminPool)
  /\ LET c == Head(adminPool) IN
       IF CallRefusal(c) # "none"
         THEN UNCHANGED <<details, memberVars>>
         ELSE /\ details' = [details EXCEPT ![c.who] = Written(c)]
              /\ CASE c.fn = "register" -> HeadBecomes(active \cup {c.who})
                   [] c.fn = "revoke" -> HeadBecomes(active \ {c.who})
                   [] OTHER -> UNCHANGED memberVars

\* getRecord and isActive.
View(a) == [active |-> a \in active, mask |-> details[a].mask,
            rotation |-> details[a].rotation, key |-> details[a].key]

=============================================================================
