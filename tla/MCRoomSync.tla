----------------------------- MODULE MCRoomSync -----------------------------
(* A manager who listens, and the clock of a small room for TLC.           *)
EXTENDS RoomSync, TLC

CONSTANTS a, clock, e1, e2

OneOrTwoWaiting == {<<e1>>, <<e1, e2>>}
OneWaiting == {<<e1>>}
=============================================================================
