----------------------------- MODULE MCResetSaga -----------------------------
(* ResetSaga with one UI main, and with two. *)
EXTENDS ResetSaga
CONSTANTS u1, u2
OneUi == {u1}
TwoUis == {u1, u2}
=============================================================================
