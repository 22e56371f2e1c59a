--------------------------- MODULE MCAttentionPolicy ---------------------------
(***************************************************************************)
(* AttentionPolicy on small instances: an ask and a finished turn of a     *)
(* dwarf, and an ask of another dwarf in another mine.                     *)
(***************************************************************************)
EXTENDS AttentionPolicy, TLC

CONSTANTS d1, d2, m1, m2, a1, a2, t1

KeyDwarf == a1 :> d1 @@ t1 :> d1 @@ a2 :> d2
DwarfMine == d1 :> m1 @@ d2 :> m2

Symmetry == Permutations(Clients)
=============================================================================
