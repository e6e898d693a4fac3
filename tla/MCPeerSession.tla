--------------------------- MODULE MCPeerSession ---------------------------
(* PeerSession for TLC.                                                    *)
EXTENDS PeerSession, TLC

Symmetry == Permutations(Requests)
=============================================================================
