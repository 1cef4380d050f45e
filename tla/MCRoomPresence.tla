--------------------------- MODULE MCRoomPresence ---------------------------
(* Three sockets of two users for TLC; carol has two tabs open. *)
EXTENDS RoomPresence, TLC

CONSTANTS carol, dave, s1, s2, s3

MCUserOf == [c \in Sockets |-> IF c = s3 THEN dave ELSE carol]

=============================================================================
