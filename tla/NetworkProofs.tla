--------------------------- MODULE NetworkProofs ---------------------------
(***************************************************************************)
(* Proofs about Network for any number of instances, of calls under way at *)
(* a time and of contexts the peer may get.                                *)
(***************************************************************************)
EXTENDS Network, TLAPS

(* None stands for a null pointer, which is no context.                    *)
NoneIsNoContext == None \notin Contexts

-----------------------------------------------------------------------------
(* The inductive invariant.                                                *)

Ops == {"idle", "request", "respond", "accept", "stop"}
PCs == {"idle", "takeAll", "closeAll", "fetch", "query", "create", "found"}

(* Values each variable of Network and of its calls may take.              *)
TypeOK ==
  /\ feedbacks \subseteq Instances
  /\ started \in BOOLEAN
  /\ registered \in Contexts \cup {None}
  /\ state \in [Contexts -> {"unused", "open", "closed"}]
  /\ closing \subseteq Contexts
  /\ timer \subseteq Contexts
  /\ op \in [Calls -> Ops]
  /\ pc \in [Calls -> PCs]
  /\ found \in [Calls -> Contexts \cup {None}]
  /\ seen \in [Calls -> Contexts \cup {None}]
  /\ evicted \subseteq Contexts

(* Where a call stands fits what it is, and what it holds fits both.       *)
CallInv ==
  \A k \in Calls :
    /\ op[k] = "idle" <=> pc[k] = "idle"
    /\ op[k] = "stop" <=> pc[k] \in {"takeAll", "closeAll"}
    /\ pc[k] \in {"idle", "takeAll"} => found[k] = None
    /\ pc[k] = "closeAll" => found[k] # None
    /\ seen[k] # None => op[k] = "request" /\ pc[k] # "create"

(* Nobody has got hold of a context that was not created; one inside       *)
(* close() is closed.                                                      *)
CreatedInv ==
  /\ \A c \in Contexts : c = registered => state[c] # "unused"
  /\ \A c \in Contexts, k \in Calls :
       c = found[k] \/ c = seen[k] => state[c] # "unused"
  /\ \A c \in closing : state[c] = "closed"

(* started_ says whether there is an instance, and after the last one left *)
(* a context is still in peers_ only until closeAllPeers takes it.         *)
StopInv ==
  /\ started <=> feedbacks # {}
  /\ ~started /\ registered # None => \E k \in Calls : pc[k] = "takeAll"

(* An open context that a call holds, or has seen, is the one in peers_,   *)
(* or was taken out.                                                       *)
OpenInv ==
  \A c \in Contexts, k \in Calls :
    (c = found[k] \/ c = seen[k]) /\ state[c] = "open" =>
      c = registered \/ c \in evicted

(* Why the second findContext of makeRequest may miss the context the      *)
(* first one found.                                                        *)
LostInv ==
  \A c \in Contexts, k \in Calls :
    c = seen[k] /\ state[c] = "open" /\ c \notin evicted =>
      /\ pc[k] = "query" => found[k] = c
      /\ pc[k] = "found" /\ found[k] = None =>
           \E s \in Calls : pc[s] = "takeAll"

NetworkInv ==
  /\ TypeOK
  /\ CallInv
  /\ CreatedInv
  /\ StopInv
  /\ OpenInv
  /\ LostInv

-----------------------------------------------------------------------------
(* The steps.                                                              *)

(* Every step keeps the types.                                             *)
LEMMA StepType ==
  ASSUME TypeOK, [Next]_vars
  PROVE  TypeOK'
<1>1. ASSUME NEW i \in Instances, start(i)
      PROVE  TypeOK'
  BY <1>1 DEF start, ctxVars, callVars, TypeOK
<1>2. ASSUME NEW k \in Calls, NEW i \in Instances, stop(k, i)
      PROVE  TypeOK'
  BY <1>2 DEF stop, goto, ctxVars, TypeOK, Ops, PCs
<1>3. ASSUME NEW k \in Calls, NEW o \in {"request", "respond", "accept"},
             call(k, o)
      PROVE  TypeOK'
  BY <1>3 DEF call, goto, ctxVars, TypeOK, Ops, PCs
<1>4. ASSUME NEW k \in Calls, closeAllPeers(k)
      PROVE  TypeOK'
  BY <1>4 DEF closeAllPeers, evict, return, goto, holding, TypeOK, Ops, PCs
<1>5. ASSUME NEW k \in Calls, closeTaken(k)
      PROVE  TypeOK'
  BY <1>5 DEF closeTaken, evict, return, goto, holding, TypeOK, Ops, PCs
<1>6. ASSUME NEW k \in Calls, fetch(k)
      PROVE  TypeOK'
  BY <1>6 DEF fetch, goto, holding, ctxVars, TypeOK, PCs
<1>7. ASSUME NEW k \in Calls, query(k)
      PROVE  TypeOK'
  BY <1>7 DEF query, goto, holding, TypeOK, PCs
<1>8. ASSUME NEW k \in Calls, create(k)
      PROVE  TypeOK'
  BY <1>8 DEF create, goto, holding, TypeOK, PCs
<1>9. ASSUME NEW k \in Calls, canSendRequest(k)
      PROVE  TypeOK'
  BY <1>9 DEF canSendRequest, return, goto, holding, TypeOK, Ops, PCs
<1>10. ASSUME NEW k \in Calls, use(k)
       PROVE  TypeOK'
  BY <1>10 DEF use, return, goto, holding, ctxVars, TypeOK, Ops, PCs
<1>11. ASSUME NEW c \in Contexts, close(c)
       PROVE  TypeOK'
  BY <1>11 DEF close, callVars, TypeOK
<1>12. ASSUME NEW c \in Contexts, closeEnd(c)
       PROVE  TypeOK'
  BY <1>12 DEF closeEnd, callVars, TypeOK
<1>13. ASSUME NEW c \in Contexts, peerClosed(c)
       PROVE  TypeOK'
  BY <1>13 DEF peerClosed, evict, callVars, TypeOK
<1>14. CASE UNCHANGED vars
  BY <1>14 DEF vars, ctxVars, callVars, TypeOK
<1> QED
  BY <1>1, <1>2, <1>3, <1>4, <1>5, <1>6, <1>7, <1>8, <1>9, <1>10, <1>11,
     <1>12, <1>13, <1>14 DEF Next

(* Every step of a call leads where its kind goes, and drops what it held  *)
(* when it returns.                                                        *)
LEMMA StepCall ==
  ASSUME TypeOK, CallInv, [Next]_vars
  PROVE  CallInv'
<1>1. ASSUME NEW i \in Instances, start(i)
      PROVE  CallInv'
  BY <1>1 DEF start, callVars, CallInv
<1>2. ASSUME NEW k \in Calls, NEW i \in Instances, stop(k, i)
      PROVE  CallInv'
  BY <1>2 DEF stop, goto, TypeOK, CallInv
<1>3. ASSUME NEW k \in Calls, NEW o \in {"request", "respond", "accept"},
             call(k, o)
      PROVE  CallInv'
  BY <1>3 DEF call, goto, TypeOK, CallInv
<1>4. ASSUME NEW k \in Calls, closeAllPeers(k)
      PROVE  CallInv'
  BY <1>4 DEF closeAllPeers, return, goto, holding, TypeOK, CallInv
<1>5. ASSUME NEW k \in Calls, closeTaken(k)
      PROVE  CallInv'
  BY <1>5 DEF closeTaken, return, goto, holding, TypeOK, CallInv
<1>6. ASSUME NEW k \in Calls, fetch(k)
      PROVE  CallInv'
  BY <1>6 DEF fetch, goto, holding, CallInv
<1>7. ASSUME NEW k \in Calls, query(k)
      PROVE  CallInv'
  BY <1>7 DEF query, creates, goto, holding, TypeOK, CallInv
<1>8. ASSUME NEW k \in Calls, create(k)
      PROVE  CallInv'
  BY <1>8 DEF create, goto, holding, TypeOK, CallInv
<1>9. ASSUME NEW k \in Calls, canSendRequest(k)
      PROVE  CallInv'
  BY <1>9 DEF canSendRequest, return, goto, holding, TypeOK, CallInv
<1>10. ASSUME NEW k \in Calls, use(k)
       PROVE  CallInv'
  BY <1>10 DEF use, return, goto, holding, TypeOK, CallInv
<1>11. ASSUME NEW c \in Contexts, close(c)
       PROVE  CallInv'
  BY <1>11 DEF close, callVars, CallInv
<1>12. ASSUME NEW c \in Contexts, closeEnd(c)
       PROVE  CallInv'
  BY <1>12 DEF closeEnd, callVars, CallInv
<1>13. ASSUME NEW c \in Contexts, peerClosed(c)
       PROVE  CallInv'
  BY <1>13 DEF peerClosed, callVars, CallInv
<1>14. CASE UNCHANGED vars
  BY <1>14 DEF vars, callVars, CallInv
<1> QED
  BY <1>1, <1>2, <1>3, <1>4, <1>5, <1>6, <1>7, <1>8, <1>9, <1>10, <1>11,
     <1>12, <1>13, <1>14 DEF Next

(* Every step hands out contexts that were created.                        *)
LEMMA StepCreated ==
  ASSUME NoneIsNoContext, TypeOK, CreatedInv, [Next]_vars
  PROVE  CreatedInv'
<1> USE DEF NoneIsNoContext
<1>1. ASSUME NEW i \in Instances, start(i)
      PROVE  CreatedInv'
  BY <1>1 DEF start, ctxVars, callVars, CreatedInv
<1>2. ASSUME NEW k \in Calls, NEW i \in Instances, stop(k, i)
      PROVE  CreatedInv'
  BY <1>2 DEF stop, ctxVars, CreatedInv
<1>3. ASSUME NEW k \in Calls, NEW o \in {"request", "respond", "accept"},
             call(k, o)
      PROVE  CreatedInv'
  BY <1>3 DEF call, ctxVars, CreatedInv
<1>4. ASSUME NEW k \in Calls, closeAllPeers(k)
      PROVE  CreatedInv'
  BY <1>4 DEF closeAllPeers, evict, return, holding, TypeOK, CreatedInv
<1>5. ASSUME NEW k \in Calls, closeTaken(k)
      PROVE  CreatedInv'
  BY <1>5 DEF closeTaken, evict, return, holding, TypeOK, CreatedInv
<1>6. ASSUME NEW k \in Calls, fetch(k)
      PROVE  CreatedInv'
  BY <1>6 DEF fetch, holding, ctxVars, CreatedInv
<1>7. ASSUME NEW k \in Calls, query(k)
      PROVE  CreatedInv'
  BY <1>7 DEF query, holding, TypeOK, CreatedInv
<1>8. ASSUME NEW k \in Calls, create(k)
      PROVE  CreatedInv'
  BY <1>8 DEF create, holding, TypeOK, CreatedInv
<1>9. ASSUME NEW k \in Calls, canSendRequest(k)
      PROVE  CreatedInv'
  BY <1>9 DEF canSendRequest, return, holding, TypeOK, CreatedInv
<1>10. ASSUME NEW k \in Calls, use(k)
       PROVE  CreatedInv'
  BY <1>10 DEF use, return, holding, ctxVars, CreatedInv
<1>11. ASSUME NEW c \in Contexts, close(c)
       PROVE  CreatedInv'
  BY <1>11 DEF close, callVars, TypeOK, CreatedInv
<1>12. ASSUME NEW c \in Contexts, closeEnd(c)
       PROVE  CreatedInv'
  BY <1>12 DEF closeEnd, callVars, CreatedInv
<1>13. ASSUME NEW c \in Contexts, peerClosed(c)
       PROVE  CreatedInv'
  BY <1>13 DEF peerClosed, evict, callVars, CreatedInv
<1>14. CASE UNCHANGED vars
  BY <1>14 DEF vars, ctxVars, callVars, CreatedInv
<1> QED
  BY <1>1, <1>2, <1>3, <1>4, <1>5, <1>6, <1>7, <1>8, <1>9, <1>10, <1>11,
     <1>12, <1>13, <1>14 DEF Next

(* Every step keeps peers_ empty without instances, or somebody at         *)
(* closeAllPeers.                                                          *)
LEMMA StepStop ==
  ASSUME TypeOK, StopInv, [Next]_vars
  PROVE  StopInv'
<1>1. ASSUME NEW i \in Instances, start(i)
      PROVE  StopInv'
  BY <1>1 DEF start, StopInv
<1>2. ASSUME NEW k \in Calls, NEW i \in Instances, stop(k, i)
      PROVE  StopInv'
  BY <1>2 DEF stop, goto, TypeOK, StopInv
<1>3. ASSUME NEW k \in Calls, NEW o \in {"request", "respond", "accept"},
             call(k, o)
      PROVE  StopInv'
  BY <1>3 DEF call, StopInv
<1>4. ASSUME NEW k \in Calls, closeAllPeers(k)
      PROVE  StopInv'
  BY <1>4 DEF closeAllPeers, evict, StopInv
<1>5. ASSUME NEW k \in Calls, closeTaken(k)
      PROVE  StopInv'
  BY <1>5 DEF closeTaken, evict, return, goto, StopInv
<1>6. ASSUME NEW k \in Calls, fetch(k)
      PROVE  StopInv'
  BY <1>6 DEF fetch, goto, ctxVars, StopInv
<1>7. ASSUME NEW k \in Calls, query(k)
      PROVE  StopInv'
  BY <1>7 DEF query, goto, StopInv
<1>8. ASSUME NEW k \in Calls, create(k)
      PROVE  StopInv'
  BY <1>8 DEF create, goto, StopInv
<1>9. ASSUME NEW k \in Calls, canSendRequest(k)
      PROVE  StopInv'
  BY <1>9 DEF canSendRequest, return, goto, TypeOK, StopInv
<1>10. ASSUME NEW k \in Calls, use(k)
       PROVE  StopInv'
  BY <1>10 DEF use, return, goto, ctxVars, StopInv
<1>11. ASSUME NEW c \in Contexts, close(c)
       PROVE  StopInv'
  BY <1>11 DEF close, callVars, StopInv
<1>12. ASSUME NEW c \in Contexts, closeEnd(c)
       PROVE  StopInv'
  BY <1>12 DEF closeEnd, callVars, StopInv
<1>13. ASSUME NEW c \in Contexts, peerClosed(c)
       PROVE  StopInv'
  BY <1>13 DEF peerClosed, evict, callVars, StopInv
<1>14. CASE UNCHANGED vars
  BY <1>14 DEF vars, ctxVars, callVars, StopInv
<1> QED
  BY <1>1, <1>2, <1>3, <1>4, <1>5, <1>6, <1>7, <1>8, <1>9, <1>10, <1>11,
     <1>12, <1>13, <1>14 DEF Next

(* Every step that takes an open context out of peers_ evicts it; create   *)
(* makes one only where there is none.                                     *)
LEMMA StepOpen ==
  ASSUME NoneIsNoContext, TypeOK, OpenInv, [Next]_vars
  PROVE  OpenInv'
<1> USE DEF NoneIsNoContext
<1>1. ASSUME NEW i \in Instances, start(i)
      PROVE  OpenInv'
  BY <1>1 DEF start, ctxVars, callVars, OpenInv
<1>2. ASSUME NEW k \in Calls, NEW i \in Instances, stop(k, i)
      PROVE  OpenInv'
  BY <1>2 DEF stop, ctxVars, OpenInv
<1>3. ASSUME NEW k \in Calls, NEW o \in {"request", "respond", "accept"},
             call(k, o)
      PROVE  OpenInv'
  BY <1>3 DEF call, ctxVars, OpenInv
<1>4. ASSUME NEW k \in Calls, closeAllPeers(k)
      PROVE  OpenInv'
  BY <1>4 DEF closeAllPeers, evict, return, holding, TypeOK, OpenInv
<1>5. ASSUME NEW k \in Calls, closeTaken(k)
      PROVE  OpenInv'
  BY <1>5 DEF closeTaken, evict, return, holding, TypeOK, OpenInv
<1>6. ASSUME NEW k \in Calls, fetch(k)
      PROVE  OpenInv'
  BY <1>6 DEF fetch, holding, ctxVars, OpenInv
<1>7. ASSUME NEW k \in Calls, query(k)
      PROVE  OpenInv'
  BY <1>7 DEF query, holding, TypeOK, OpenInv
<1>8. ASSUME NEW k \in Calls, create(k)
      PROVE  OpenInv'
  BY <1>8 DEF create, holding, TypeOK, OpenInv
<1>9. ASSUME NEW k \in Calls, canSendRequest(k)
      PROVE  OpenInv'
  BY <1>9 DEF canSendRequest, return, holding, TypeOK, OpenInv
<1>10. ASSUME NEW k \in Calls, use(k)
       PROVE  OpenInv'
  BY <1>10 DEF use, return, holding, ctxVars, OpenInv
<1>11. ASSUME NEW c \in Contexts, close(c)
       PROVE  OpenInv'
  BY <1>11 DEF close, callVars, OpenInv
<1>12. ASSUME NEW c \in Contexts, closeEnd(c)
       PROVE  OpenInv'
  BY <1>12 DEF closeEnd, callVars, OpenInv
<1>13. ASSUME NEW c \in Contexts, peerClosed(c)
       PROVE  OpenInv'
  BY <1>13 DEF peerClosed, evict, callVars, OpenInv
<1>14. CASE UNCHANGED vars
  BY <1>14 DEF vars, ctxVars, callVars, OpenInv
<1> QED
  BY <1>1, <1>2, <1>3, <1>4, <1>5, <1>6, <1>7, <1>8, <1>9, <1>10, <1>11,
     <1>12, <1>13, <1>14 DEF Next

(* Every step that makes makeRequest miss the context it has seen closes   *)
(* it, evicts it or is followed by closeAllPeers.                          *)
LEMMA StepLost ==
  ASSUME NoneIsNoContext, TypeOK, CallInv, CreatedInv, StopInv, OpenInv,
         LostInv, [Next]_vars
  PROVE  LostInv'
<1> USE DEF NoneIsNoContext
<1>1. ASSUME NEW i \in Instances, start(i)
      PROVE  LostInv'
  BY <1>1 DEF start, ctxVars, callVars, LostInv
<1>2. ASSUME NEW k \in Calls, NEW i \in Instances, stop(k, i)
      PROVE  LostInv'
  BY <1>2 DEF stop, goto, ctxVars, TypeOK, LostInv
<1>3. ASSUME NEW k \in Calls, NEW o \in {"request", "respond", "accept"},
             call(k, o)
      PROVE  LostInv'
  BY <1>3 DEF call, goto, ctxVars, CallInv, LostInv
<1>4. ASSUME NEW k \in Calls, closeAllPeers(k)
      PROVE  LostInv'
  BY <1>4 DEF closeAllPeers, evict, return, TypeOK, OpenInv, LostInv
<1>5. ASSUME NEW k \in Calls, closeTaken(k)
      PROVE  LostInv'
  BY <1>5 DEF closeTaken, evict, return, goto, holding, TypeOK, LostInv
<1>6. ASSUME NEW k \in Calls, fetch(k)
      PROVE  LostInv'
  BY <1>6 DEF fetch, goto, holding, ctxVars, TypeOK, StopInv, OpenInv, LostInv
<1>7. ASSUME NEW k \in Calls, query(k)
      PROVE  LostInv'
  BY <1>7 DEF query, goto, holding, TypeOK, LostInv
<1>8. ASSUME NEW k \in Calls, create(k)
      PROVE  LostInv'
  BY <1>8 DEF create, goto, holding, TypeOK, CallInv, CreatedInv, LostInv
<1>9. ASSUME NEW k \in Calls, canSendRequest(k)
      PROVE  LostInv'
  BY <1>9 DEF canSendRequest, return, goto, holding, TypeOK, LostInv
<1>10. ASSUME NEW k \in Calls, use(k)
       PROVE  LostInv'
  BY <1>10 DEF use, return, goto, holding, ctxVars, TypeOK, LostInv
<1>11. ASSUME NEW c \in Contexts, close(c)
       PROVE  LostInv'
  BY <1>11 DEF close, callVars, LostInv
<1>12. ASSUME NEW c \in Contexts, closeEnd(c)
       PROVE  LostInv'
  BY <1>12 DEF closeEnd, callVars, LostInv
<1>13. ASSUME NEW c \in Contexts, peerClosed(c)
       PROVE  LostInv'
  BY <1>13 DEF peerClosed, evict, callVars, LostInv
<1>14. CASE UNCHANGED vars
  BY <1>14 DEF vars, ctxVars, callVars, LostInv
<1> QED
  BY <1>1, <1>2, <1>3, <1>4, <1>5, <1>6, <1>7, <1>8, <1>9, <1>10, <1>11,
     <1>12, <1>13, <1>14 DEF Next

-----------------------------------------------------------------------------
(* The theorems.                                                           *)

(* The initial state satisfies the invariant.                              *)
LEMMA InitNetwork ==
  ASSUME NoneIsNoContext
  PROVE  Init => NetworkInv
BY DEF NoneIsNoContext, Init, NetworkInv, TypeOK, Ops, PCs, CallInv,
   CreatedInv, StopInv, OpenInv, LostInv

(* Theorem: the inductive invariant of a Network and the calls under way   *)
(* in it.                                                                  *)
THEOREM NetworkCorrect ==
  ASSUME NoneIsNoContext
  PROVE  Spec => []NetworkInv
<1>1. Init => NetworkInv
  BY InitNetwork
<1>2. NetworkInv /\ [Next]_vars => NetworkInv'
  BY StepType, StepCall, StepCreated, StepStop, StepOpen, StepLost
     DEF NetworkInv
<1> QED
  BY <1>1, <1>2, PTL DEF Spec

(* Theorem: findContext never gives a peer two contexts: one that is open  *)
(* and in use is in peers_, unless peerClosed or closeAllPeers took it     *)
(* out.                                                                    *)
THEOREM OneContext ==
  ASSUME NoneIsNoContext
  PROVE  Spec => []OpenIsRegistered
<1>1. NetworkInv => OpenIsRegistered
  BY DEF NetworkInv, CreatedInv, OpenInv, OpenIsRegistered, referenced
<1> QED
  BY <1>1, NetworkCorrect, PTL

(* Theorem: once stop has returned for the last instance, peers_ has no    *)
(* context, whatever calls were under way.                                 *)
THEOREM StopLeavesNone ==
  ASSUME NoneIsNoContext
  PROVE  Spec => []StoppedIsEmpty
<1>1. NetworkInv => StoppedIsEmpty
  BY DEF NetworkInv, CallInv, StopInv, StoppedIsEmpty
<1> QED
  BY <1>1, NetworkCorrect, PTL

(* Why the assertion of makeRequest may fail: the context canSendRequest   *)
(* found was closed or taken out of peers_ between the two calls, or the   *)
(* last instance is stopping.                                              *)
ContextLostOnlyIfClosed ==
  \A k \in Calls :
    /\ op[k] = "request"
    /\ pc[k] = "found"
    /\ seen[k] # None
    /\ found[k] = None
    => \/ state[seen[k]] = "closed"
       \/ seen[k] \in evicted
       \/ \E s \in Calls : op[s] = "stop"

(* Theorem: the context makeRequest asserts can be missing only because it *)
(* was closed or taken out of peers_ after canSendRequest found it, or     *)
(* because the last instance is stopping.                                  *)
THEOREM ContextLostOnlyThen ==
  ASSUME NoneIsNoContext
  PROVE  Spec => []ContextLostOnlyIfClosed
<1>1. NetworkInv => ContextLostOnlyIfClosed
  <2> SUFFICES ASSUME NetworkInv, NEW k \in Calls, pc[k] = "found",
                      seen[k] # None, found[k] = None,
                      state[seen[k]] # "closed", seen[k] \notin evicted
               PROVE  \E s \in Calls : op[s] = "stop"
    BY DEF ContextLostOnlyIfClosed
  <2>1. seen[k] \in Contexts /\ state[seen[k]] = "open"
    BY DEF NetworkInv, TypeOK, CreatedInv
  <2>2. PICK s \in Calls : pc[s] = "takeAll"
    BY <2>1 DEF NetworkInv, LostInv
  <2> QED
    BY <2>2 DEF NetworkInv, CallInv
<1> QED
  BY <1>1, NetworkCorrect, PTL

=============================================================================
