---------------------------- MODULE MCDelegation ----------------------------
(* Delegation with one parent, two delegations and two calls. *)
EXTENDS Delegation
CONSTANTS p1, d1, d2, c1, c2
OneParent == {p1}
MCDelegs == {d1, d2}
MCCalls == {c1, c2}
=============================================================================
