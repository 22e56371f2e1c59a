--------------------------- MODULE MCHostRecovery ---------------------------
(* HostRecovery with one launched dwarf. *)
EXTENDS HostRecovery
CONSTANTS d1
OneDwarf == {d1}
=============================================================================
