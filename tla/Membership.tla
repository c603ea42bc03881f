------------------------------ MODULE Membership ------------------------------
(***************************************************************************)
(* Who may use the agents pool.  `isActive` is a read of the registry at   *)
(* the head (AdminClient::is_active); pool admission keys on a snapshot    *)
(* pushed from the finalized attesters index (AdminClient::                *)
(* is_visible_to_pool, testsuite/src/clients/admin.rs), which takes on the *)
(* same states later and in the same order.                                *)
(***************************************************************************)
EXTENDS Naturals, Sequences

CONSTANTS
  Attesters,  \* addresses that sign agents-pool transactions
  Lag         \* bound: registry states the snapshot may be behind

ASSUME LagAssumption == Lag \in Nat

VARIABLES
  active,   \* attesters for which isActive holds at the head
  backlog,  \* registry states the snapshot has not taken on yet, oldest first
  members   \* the snapshot the pool consults

memberVars == <<active, backlog, members>>

MemberTypeOK ==
  /\ active \subseteq Attesters
  /\ backlog \in Seq(SUBSET Attesters)
  /\ members \subseteq Attesters

\* A node that has been up long enough for its snapshot to have caught up.
MemberInit ==
  /\ active \in SUBSET Attesters
  /\ backlog = <<>>
  /\ members = active

\* A block changes who is active.
HeadBecomes(s) ==
  /\ Len(backlog) < Lag
  /\ active' = s
  /\ backlog' = Append(backlog, s)
  /\ UNCHANGED members

\* The registry administrator registers or revokes an attester.
SetActive(a) == HeadBecomes(IF a \in active THEN active \ {a} ELSE active \cup {a})

\* The next registry state is finalized and pushed to the pool.
Finalize ==
  /\ backlog # <<>>
  /\ members' = Head(backlog)
  /\ backlog' = Tail(backlog)
  /\ UNCHANGED active

MemberSpec ==
  MemberInit /\ [][Finalize \/ \E a \in Attesters : SetActive(a)]_memberVars

=============================================================================
