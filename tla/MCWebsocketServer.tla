------------------------- MODULE MCWebsocketServer -------------------------
(***************************************************************************)
(* Constants for checking WebsocketServer with TLC: the lobby exists from  *)
(* the start, the room is created by the first session that joins it.      *)
(***************************************************************************)
EXTENDS WebsocketServer

CONSTANTS s1, s2, s3

MCPaths == {"lobby", "room"}
MCPrecreated == {"lobby"}

Two   == {s1, s2}
Three == {s1, s2, s3}
=============================================================================
