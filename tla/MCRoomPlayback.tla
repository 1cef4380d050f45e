--------------------------- MODULE MCRoomPlayback ---------------------------
(* A small room for TLC: three tracks of two contributors, one of unknown  *)
(* length, one manager.                                                    *)
EXTENDS RoomPlayback

CONSTANTS alice, bob, e1, e2, e3, m1

MCContributor == [e \in Entries |-> IF e = e3 THEN bob ELSE alice]
MCDuration == [e \in Entries |-> IF e = e2 THEN 0 ELSE IF e = e1 THEN 1 ELSE 2]
MCSeekPositions == {-1, 1, 9}

=============================================================================
