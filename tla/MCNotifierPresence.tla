--------------------------- MODULE MCNotifierPresence ---------------------------
(***************************************************************************)
(* NotifierPresence on a small instance: a window and a tray of a normal   *)
(* launch, and the processes the supervisor starts.                        *)
(***************************************************************************)
EXTENDS NotifierPresence, TLC

CONSTANTS win, tray

AppRole == win :> "ui" @@ tray :> "notifier"
=============================================================================
