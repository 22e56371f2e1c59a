---------------------------- MODULE MCWindowBoard ----------------------------
(***************************************************************************)
(* WindowBoard on small instances: a row whose frames are coalesced and    *)
(* one whose frames are not.                                               *)
(***************************************************************************)
EXTENDS WindowBoard, TLC
=============================================================================
