--------------------------- MODULE MCRoomCatalog ---------------------------
(* Two libraries and one text to search for, two questions at a time. *)
EXTENDS RoomCatalog

CONSTANTS pop, jazz, word
=============================================================================
