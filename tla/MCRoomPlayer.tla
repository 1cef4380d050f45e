---------------------------- MODULE MCRoomPlayer ----------------------------
(* RoomPlayer on two tracks; no counter needs a bound. *)
EXTENDS RoomPlayer
=============================================================================
