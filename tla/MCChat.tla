------------------------------- MODULE MCChat -------------------------------
(***************************************************************************)
(* Constants for checking Chat with TLC: a room that is there from the     *)
(* start, with one message in it, and one that is not.                     *)
(***************************************************************************)
EXTENDS Chat

CONSTANTS p1, p2

MCSockets    == {<<p1, 1>>, <<p1, 2>>, <<p2, 1>>}
MCRooms      == {"/new", "/dev"}
MCPrecreated == {"/", "/new"}
MCSeeds      == <<1, 2>>
MCLocations  == {l \in [{p1, p2} -> {"/", "/new", "/dev"}] :
                     <<l[p1], l[p2]>> \in {<<"/new", "/new">>, <<"/dev", "/">>}}
=============================================================================
