----------------------------- MODULE ErrorDecode -----------------------------
(***************************************************************************)
(* How the suite tells one refusal from another                            *)
(* (testsuite/src/clients/contract_errors.rs, and the end of actor.rs).    *)
(* A node's refusal reaches a scenario as text, in which the decoder looks *)
(* for the bytes of a revert and, failing that, for the words of a pool.   *)
(*                                                                         *)
(* A text is the sequence of the things the decoder looks for in it: a     *)
(* word, a run of hex digits after 0x, the same inside data: "0x...", and  *)
(* a list in brackets.  The selector of a known error is its name.         *)
(***************************************************************************)
EXTENDS Integers, Sequences

CONSTANTS
  Words,      \* the words a text is made of
  Selectors,  \* four-byte selectors, those of the known errors among them
  Shapes,     \* ABI shapes of an error's arguments, and of bytes that are none
  Values,     \* the arguments
  U32Max,     \* u32::MAX
  None        \* Option::None

StaticErrors ==
  {"AttesterNotActive", "AlreadyExists", "InvalidTokenId", "EmptyArray",
   "MalformedAggregationProof", "InvalidAggregationProof", "NotSameWorldwideDay",
   "NotSameCurrency", "InvalidAmount", "NoSpendingRecords", "TooManySpendingRecords",
   "NotAdmin", "ZeroAddress", "InvalidMask"}

\* The errors with arguments, and the shape each is decoded with.
ShapeOf ==
  [NotFound |-> "uint256", AggregationTierUnavailable |-> "uint256",
   InvalidSpendingRecords |-> "uint256[] x 4",
   AlreadyRegistered |-> "address", NotRegistered |-> "address"]

KnownErrors == StaticErrors \cup DOMAIN ShapeOf

\* Revert data: how many bytes, the first four, and what the rest decodes as.
Payload == [size : Nat, selector : Selectors, shape : Shapes, value : Values]

Hex == [bytes : Payload, even : BOOLEAN]  \* a run of hex digits; hex::decode wants an even one

Token ==
  [is : {"word"}, word : Words] \cup
  [is : {"hex"}, hex : Hex] \cup
  [is : {"data"}, hex : Hex, closed : BOOLEAN] \cup  \* closed: a quote follows
  [is : {"list"}, items : Seq([written : {"hex", "decimal"}, value : 0..255])]

Text == Seq(Token)

ASSUME DecodeAssumption ==
  /\ KnownErrors \subseteq Selectors
  /\ U32Max \in Nat
  /\ None \notin Payload \cup (Values \X Seq(0..255))

Typed(e, arg) == [is |-> e, arg |-> arg]
Other == Typed("Other", None)

\* The first of some places in a text.
First(places) == CHOOSE i \in places : \A j \in places : i <= j

Says(msg, w) == \E i \in DOMAIN msg : msg[i].is = "word" /\ msg[i].word = w

-----------------------------------------------------------------------------
(* From bytes.                                                             *)

\* Mutant of decode_from_bytes: two selectors are mixed up.
decode_mixed_up(b) ==
  IF b.selector = "NotRegistered" THEN Typed("AttesterNotActive", None)
                                  ELSE Typed(b.selector, None)

decode_from_bytes(b) ==
  IF b.size < 4 THEN Other
  ELSE IF b.selector \in StaticErrors THEN Typed(b.selector, None)
  ELSE IF b.selector \in DOMAIN ShapeOf /\ b.shape = ShapeOf[b.selector]
    THEN Typed(b.selector,
               IF b.selector = "AggregationTierUnavailable" /\ b.value > U32Max
                 THEN U32Max ELSE b.value)
  ELSE Other

-----------------------------------------------------------------------------
(* From text.                                                              *)

Explicit(msg) == {i \in DOMAIN msg : msg[i].is = "data"}
Quotes(msg) == Explicit(msg) # {} /\ msg[First(Explicit(msg))].closed

\* At least eight digits, and an even number of them.
Bare(msg) ==
  {i \in DOMAIN msg : msg[i].is \in {"hex", "data"} /\ msg[i].hex.even /\ msg[i].hex.bytes.size >= 4}

\* Mutant of extract_revert_bytes: the explicit form is not preferred.
extract_any(msg) ==
  IF Bare(msg) = {} THEN None ELSE msg[First(Bare(msg))].hex.bytes

extract_revert_bytes(msg) ==
  IF Quotes(msg)
    THEN LET h == msg[First(Explicit(msg))].hex IN IF h.even THEN h.bytes ELSE None
  ELSE IF Bare(msg) # {} THEN msg[First(Bare(msg))].hex.bytes
  ELSE None

\* Where the text goes on after word w, from i on.
After(msg, i, w) == {j \in i..Len(msg) : \E k \in i..(j - 1) : msg[k].is = "word" /\ msg[k].word = w}

parse_addr_after(msg, i) ==
  LET runs == {j \in After(msg, i, "to:") : msg[j].is \in {"hex", "data"}} IN
  IF runs = {} THEN None
  ELSE LET h == msg[First(runs)].hex IN IF h.even /\ h.bytes.size = 20 THEN h.bytes.value ELSE None

\* A numeral is read as hex where that fits a byte, as 10 to 99 do.
read_item(t) ==
  IF t.written = "decimal" /\ t.value \in 10..99
    THEN 16 * (t.value \div 10) + (t.value % 10)
    ELSE t.value

parse_selector_after(msg, i) ==
  LET lists == {j \in After(msg, i, "selector:") : msg[j].is = "list"} IN
  IF lists = {} THEN None
  ELSE LET items == msg[First(lists)].items IN
       IF Len(items) # 4 THEN None ELSE [k \in 1..4 |-> read_item(items[k])]

parse_method_not_permitted(msg) ==
  LET named == {i \in DOMAIN msg : msg[i].is = "word" /\ msg[i].word = "MethodNotPermitted"}
      to == parse_addr_after(msg, First(named))
      selector == parse_selector_after(msg, First(named))
  IN IF named = {} \/ to = None \/ selector = None
       THEN None ELSE Typed("MethodNotPermitted", <<to, selector>>)

PoolWords == {"PSO pool rejection", "MethodNotPermitted", "BadVdfInputBinding", "magic-prefixed"}

decode_text(msg) ==
  LET bytes == extract_revert_bytes(msg)
      parsed == parse_method_not_permitted(msg)
  IN IF bytes # None THEN decode_from_bytes(bytes)
     ELSE IF \E w \in PoolWords : Says(msg, w)
       THEN IF parsed # None THEN parsed ELSE Typed("PoolRejection", msg)
     ELSE Other

is_method_not_permitted(e) ==
  \/ e.is = "MethodNotPermitted"
  \/ e.is = "PoolRejection" /\ Says(e.arg, "MethodNotPermitted")

-----------------------------------------------------------------------------
(* The two entries.  RpcError::Contract carries a text, the other variants *)
(* are not looked into; the actor pool answers with a JSON-RPC error.      *)

into_pso_error(err) == IF err.is = "Contract" THEN decode_text(err.text) ELSE Other

InvalidParams == -32602

json_rpc_error_to_typed(err) ==
  IF err.data # None /\ err.data.even THEN Typed("Revert", decode_from_bytes(err.data.bytes))
  ELSE IF err.code = InvalidParams THEN Typed("PoolRejection", err.message)
  ELSE Typed("Revert", decode_text(err.message))

-----------------------------------------------------------------------------
(* External: how a node and alloy write what went wrong.                   *)

RevertOf(e, value) ==
  [size |-> 4 + (IF e \in DOMAIN ShapeOf THEN 32 ELSE 0), selector |-> e,
   shape |-> IF e \in DOMAIN ShapeOf THEN ShapeOf[e] ELSE "none", value |-> value]

Word(w) == [is |-> "word", word |-> w]
Bytes(is, bytes) == [is |-> is, hex |-> [bytes |-> bytes, even |-> TRUE]]
Data(bytes) == [is |-> "data", hex |-> [bytes |-> bytes, even |-> TRUE], closed |-> TRUE]

=============================================================================
