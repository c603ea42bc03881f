------------------------------- MODULE MCBridge -------------------------------
(***************************************************************************)
(* Small instances of the bridge.  Calls c1 and c2 want the same record (a *)
(* retry, or S010's double spend).  A scenario body sends x1, a direct     *)
(* mint of that record by the bridge's own attester.                       *)
(***************************************************************************)
EXTENDS Bridge

CONSTANTS c1, c2, x1, r1, zero, h1

MCBody == [t \in Txs |-> [kind |-> "mint", by |-> zero, recs |-> {r1}, sound |-> TRUE]]

\* One call through the Bridge, and one through a clone.
CloneVia == [c \in Calls |-> IF c = c1 THEN Handle ELSE h1]

=============================================================================
