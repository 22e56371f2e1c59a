------------------------------ MODULE MCAskRoutes ------------------------------
(***************************************************************************)
(* AskRoutes on the instances of MCAskBroker.                              *)
(***************************************************************************)
EXTENDS AskRoutes, MCAskBroker
=============================================================================
