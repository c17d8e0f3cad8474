------------------------- MODULE MCStationRegistry -------------------------
(* Two request threads and one thread of the manager on two stations, the  *)
(* second of which has a host that begins with "connect".                  *)
EXTENDS StationRegistry

MCHostWord == [s \in LikeARoute |-> "connect"]
=============================================================================
