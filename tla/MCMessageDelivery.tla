-------------------------- MODULE MCMessageDelivery --------------------------
(***************************************************************************)
(* MessageDelivery on small instances.                                     *)
(***************************************************************************)
EXTENDS MessageDelivery, TLC

Symmetry == Permutations(Msgs)
=============================================================================
