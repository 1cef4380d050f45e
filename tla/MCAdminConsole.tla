--------------------------- MODULE MCAdminConsole ---------------------------
(* Two rooms that come and go. *)
EXTENDS AdminConsole

CONSTANTS den, hall
=============================================================================
