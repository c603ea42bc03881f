---------------------------- MODULE FinalizeCert ----------------------------
(***************************************************************************)
(* What a certificate of the committee and an inclusion path show          *)
(* (testsuite/src/bls_verify.rs and the checks of                          *)
(* scenarios/s046_cert_inclusion.rs).                                      *)
(*                                                                         *)
(* Hashes are injective: a tree's root is the tree, the digest of a block  *)
(* is its preimage.  A signature is its key with what it was made over.    *)
(***************************************************************************)
EXTENDS Naturals, Sequences

CONSTANTS
  Radix,    \* 2^7: the values of a varint's byte without its continuation bit
  Places,   \* the leaves' places in a tree
  Leaves,   \* what can stand there
  Nothing   \* no value; bytes that decode as none

ASSUME CertAssumption ==
  Radix \in Nat \ {0, 1}

Trees == [Places -> Leaves]

-----------------------------------------------------------------------------
(* What the committee signs.                                               *)

\* Mutant of finalize_namespace: it is that of every chain.
finalize_namespace_any(chain_id) == <<"_PSO_CHAIN", "_FINALIZE">>

finalize_namespace(chain_id) == <<"_PSO_CHAIN", chain_id, "_FINALIZE">>

\* Mutant of uint_varint: no continuation bit.
uint_varint_bare(v) ==
  LET bytes[n \in Nat] ==
        IF n \div Radix = 0 THEN <<n % Radix>> ELSE <<n % Radix>> \o bytes[n \div Radix]
  IN bytes[v]

\* Base Radix, least digit first, every byte but the last with the continuation bit.
uint_varint(v) ==
  LET bytes[n \in Nat] ==
        IF n \div Radix = 0 THEN <<n % Radix>> ELSE <<(n % Radix) + Radix>> \o bytes[n \div Radix]
  IN bytes[v]

proposal_bytes(round, digest) ==
  uint_varint(round.epoch) \o uint_varint(round.view) \o uint_varint(round.parent) \o <<digest>>

Sign(key, chain_id, round, digest) ==
  [key |-> key, namespace |-> finalize_namespace(chain_id),
   message |-> proposal_bytes(round, digest)]

\* The group key of the DaInbox: 256 bytes, converted to the point they are.
g2_eip2537_to_compressed(eip) == IF eip.size = 256 THEN eip.point ELSE Nothing

verify_finalize_cert(eip, chain_id, round, tip, sig) ==
  /\ g2_eip2537_to_compressed(eip) # Nothing
  /\ sig # Nothing
  /\ sig = [key |-> g2_eip2537_to_compressed(eip), namespace |-> finalize_namespace(chain_id),
            message |-> proposal_bytes(round, tip)]

-----------------------------------------------------------------------------
(* S046's checks.                                                          *)

\* The first LeafInserted of the contract among the logs of a receipt.
leaf_inserted(logs) ==
  LET own == {i \in DOMAIN logs : logs[i].from = "TributeDraft" /\ logs[i].event = "LeafInserted"}
      log == logs[CHOOSE i \in own : \A j \in own : i <= j]
  IN IF own = {} \/ log.topics < 3 \/ log.size < 32 THEN Nothing
     ELSE [place |-> log.place, leaf |-> log.leaf]

\* External: the root over a leaf and its siblings; it has no meaning for a place beyond.
root_from_inclusion_path(leaf, place, siblings) ==
  IF place \in Places THEN [siblings EXCEPT ![place] = leaf] ELSE Nothing

PathHolds(inserted, path) ==
  /\ DOMAIN path.siblings = Places
  /\ root_from_inclusion_path(inserted.leaf, inserted.place, path.siblings) = path.root

\* Only contextEncoded has no fixed length, and it is first: the digest binds each part.
Digest(pre) == pre

\* Mutant of CertBinds: r is not compared with the path's root.
CertBindsDigest(path, cert) == Digest(cert.pre) = cert.tip

CertBinds(path, cert) ==
  /\ cert.pre.r = path.root
  /\ Digest(cert.pre) = cert.tip

=============================================================================
