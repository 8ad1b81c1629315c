---------------------------- MODULE MCRequestMap ----------------------------
(* RequestMap with two SKPutRequest objects and three requests, so that one  *)
(* of them makes a second request after its first ends.                      *)
EXTENDS RequestMap, TLC

CONSTANTS p1, p2, r1, r2, r3

MCPutters == {p1, p2}
MCIds == {r1, r2, r3}
=============================================================================
