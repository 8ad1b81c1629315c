----------------------------- MODULE MCWsClient -----------------------------
(* WsClient, and the inductive invariant of its proofs, with two addresses,  *)
(* so that a new client can be built while an old one is still there if the  *)
(* code lets it, and with generations that wrap after two. The other runs    *)
(* have one address, which every client uses again. Only the liveness run    *)
(* has a network that comes and goes: for safety an attempt that meets no    *)
(* network leaves what one leaves whose worker cannot be created, and the    *)
(* run of the token, which takes a build with TLS and one without, assumes a *)
(* network that stays up in the end. The safety run lets a server present a  *)
(* CA, the runs of liveness a leaf, the run of the anchor both.              *)
EXTENDS WsClient_proofs, TLC

CONSTANTS h1, h2

MCHandles == {h1, h2}
OneHandle == {h1}

HandleSymmetry == Permutations(MCHandles)

\* A device in whose file no page has left both a request and a token; such a
\* page comes later.
FreshInit == Init /\ ~web.disturbed

SafetySpec == FreshInit /\ [][Next]_vars

TokenSpec == FreshInit /\ [][Next]_vars /\ Fairness
=============================================================================
