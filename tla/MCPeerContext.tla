---------------------------- MODULE MCPeerContext ----------------------------
(* PeerContext with interchangeable streams, requests and remote ids.      *)
EXTENDS PeerContext, TLC

Symmetry ==
  Permutations(Streams) \cup Permutations(Requests) \cup Permutations(RemoteIds)

=============================================================================
