---------------------------- MODULE MCRoomClient ----------------------------
(* One page with at most three connections that exist or are on their way. *)
EXTENDS RoomClient
=============================================================================
