----------------------------- MODULE MCRequester -----------------------------
(***************************************************************************)
(* The asking side layer by layer: the front end, the context of one peer, *)
(* and the write queue of one of its streams on three buffers, one of them *)
(* empty.  A behaviour is one of one layer, `part'; the variables of the   *)
(* others keep their initial values.                                       *)
(***************************************************************************)
EXTENDS PeerContext, MessageQueue, Graphsync, TLC

CONSTANTS small, large, empty

VARIABLE part

Buffers == {small, large, empty}
BufferSize == [m \in Buffers |->
                 CASE m = small -> 1 [] m = large -> 2 [] m = empty -> 0]

Symmetry ==
  Permutations(Streams) \cup Permutations(Requests)
    \cup Permutations(RemoteIds) \cup Permutations(Calls) \cup Permutations(Cids)

RequesterInit ==
  /\ part \in {"front", "context", "queue"}
  /\ FrontInit
  /\ Init
  /\ QueueInit

FrontStep == part = "front" /\ FrontNext /\ UNCHANGED <<part, vars, queueVars>>

ContextStep ==
  part = "context" /\ Next /\ UNCHANGED <<part, frontVars, queueVars>>

QueueStep == part = "queue" /\ QueueNext /\ UNCHANGED <<part, frontVars, vars>>

RequesterNext == FrontStep \/ ContextStep \/ QueueStep

requesterVars == <<part, frontVars, vars, queueVars>>

RequesterSpec == RequesterInit /\ [][RequesterNext]_requesterVars

(* The fairness of each layer as its module states it.  Nothing that must  *)
(* happen is enabled in the initial states, so layers that do not run are  *)
(* not constrained.                                                        *)
FairRequesterSpec ==
  RequesterSpec /\ FrontFairness /\ Fairness /\ QueueFairness

=============================================================================
