-------------------------- MODULE MCRemoteRequests --------------------------
(* RemoteRequests with the requests of two small situations: one peer that *)
(* numbers its requests, and two peers that chose the same id.             *)
EXTENDS RemoteRequests, TLC

CONSTANTS r1, r2

OnePeer == r1 :> "A" @@ r2 :> "A"
TwoPeers == r1 :> "A" @@ r2 :> "B"
OwnIds == r1 :> 1 @@ r2 :> 2
SameId == r1 :> 1 @@ r2 :> 1

(* "error" leads exactly where "refused" does.                             *)
AllOutcomes == {"found", "none", "refused"}
SearchOutcomes == {"found", "none"}

Symmetry == Permutations(Instances)

=============================================================================
