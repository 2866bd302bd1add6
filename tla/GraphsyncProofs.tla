--------------------------- MODULE GraphsyncProofs ---------------------------
(***************************************************************************)
(* Proofs about Graphsync for any set of calls and CIDs and any number of  *)
(* request ids.                                                            *)
(***************************************************************************)
EXTENDS Graphsync, TLAPS

-----------------------------------------------------------------------------
(* The inductive invariant.                                                *)

(* A subscription and the map entry it releases belong together: an entry  *)
(* names the call that holds its id, and a positive id, never reused, is   *)
(* held by one call.  Negative ids restart, so a stale negative ticket may *)
(* name the entry of another call.                                         *)
TicketInv ==
  /\ \A i \in Ids : active[i] # Null => ticket[active[i]] = i
  /\ \A i \in Ids : rejected[i] # Null => ticket[rejected[i]] = -i
  /\ \A c \in Calls : ticket[c] > 0 => /\ ticket[c] <= counter
                                       /\ active[ticket[c]] \in {c, Null}
  /\ \A c \in dropped : ticket[c] = 0

(* A callback that a map or a cancelAll loop still holds has not been told,*)
(* and is held only once; so no callback is told twice.                    *)
UntoldInv ==
  /\ ToldAtMostOnce
  /\ phase = "none" => cancelling = {}
  /\ \A c \in cancelling : told[c] = 0
  /\ \A i \in Ids : active[i] # Null =>
       told[active[i]] = 0 /\ active[i] \notin cancelling
  /\ \A i \in Ids : rejected[i] # Null =>
       told[rejected[i]] = 0 /\ rejected[i] \notin cancelling

(* Every accepted call is told, dropped, about to be told or active.       *)
KeptInv ==
  \A c \in accepted :
    \/ told[c] = 1
    \/ c \in dropped \cup cancelling
    \/ \E i \in Ids : active[i] = c

(* A stopped object has neither active nor tracked requests.               *)
StoppedInv ==
  ~started => /\ \A i \in Ids : active[i] = Null
              /\ \A x \in Cids : tracked[x] = Untracked

(* Only a CID whose block was handed out is, or is about to be, COMPLETED. *)
BlockInv ==
  /\ in_block.mark => in_block.cid \in delivered
  /\ CompletedHasBlock

(* Ids above the counter have no CID and were never responded to, and a    *)
(* tracked entry with a positive id is that of the CID the id was made for:*)
(* a failure of that id finds it.                                          *)
FailedInv ==
  /\ \A i \in Ids : root_cid[i] # Null => i <= counter
  /\ \A i \in sent \cup failed : i <= counter
  /\ \A x \in Cids : tracked[x].id > 0 => root_cid[tracked[x].id] = x
  /\ FailedIsFailed

FrontInv ==
  /\ FrontTypeOK
  /\ TicketInv
  /\ UntoldInv
  /\ KeptInv
  /\ StoppedInv
  /\ RejectedHasTask
  /\ BlockInv
  /\ FailedInv

-----------------------------------------------------------------------------
(* Type correctness.                                                       *)

(* The tracked entry of a CID may be replaced, or its state changed.       *)
LEMMA TrackedType ==
  ASSUME FrontTypeOK, NEW x \in Cids, NEW i \in -MaxId .. MaxId, NEW s \in States
  PROVE  /\ [tracked EXCEPT ![x] = [state |-> s, id |-> i]]
              \in [Cids -> {Untracked} \cup [state : States, id : -MaxId .. MaxId]]
         /\ tracked[x] # Untracked =>
              [tracked EXCEPT ![x].state = s]
                \in [Cids -> {Untracked} \cup [state : States, id : -MaxId .. MaxId]]
BY DEF FrontTypeOK

(* A rejected request takes the next negative id.                          *)
LEMMA NewRejectedType ==
  ASSUME FrontTypeOK, NEW c \in Calls, newRejectedRequest(c)
  PROVE  /\ rejected_id' \in 1 .. MaxId
         /\ rejected' \in [Ids -> Calls \cup {Null}]
         /\ notifications' \in Nat
         /\ ticket' \in [Calls -> -MaxId .. MaxId]
         /\ -rejected_id' \in -MaxId .. MaxId
<1>1. rejected_id' \in 1 .. MaxId /\ -rejected_id' \in -MaxId .. MaxId
  BY MaxIdAssumption DEF FrontTypeOK, newRejectedRequest
<1>2. ticket' = [ticket EXCEPT ![c] = -rejected_id']
  BY DEF newRejectedRequest
<1>3. ticket' \in [Calls -> -MaxId .. MaxId]
  BY <1>1, <1>2 DEF FrontTypeOK
<1>4. rejected' \in [Ids -> Calls \cup {Null}]
  BY DEF FrontTypeOK, newRejectedRequest
<1>5. notifications' \in Nat
  BY DEF FrontTypeOK, newRejectedRequest
<1> QED
  BY <1>1, <1>3, <1>4, <1>5

(* An accepted request takes the next positive id.                         *)
LEMMA NewRequestType ==
  ASSUME FrontTypeOK, NEW c \in Calls, NEW x \in Cids, newRequest(c, x)
  PROVE  /\ counter' \in 1 .. MaxId
         /\ counter' \in -MaxId .. MaxId
         /\ active' \in [Ids -> Calls \cup {Null}]
         /\ root_cid' \in [Ids -> Cids \cup {Null}]
         /\ accepted' \subseteq Calls
         /\ ticket' \in [Calls -> -MaxId .. MaxId]
<1>1. counter' \in 1 .. MaxId /\ counter' \in -MaxId .. MaxId
  BY MaxIdAssumption DEF FrontTypeOK, newRequest
<1>2. ticket' = [ticket EXCEPT ![c] = counter']
  BY DEF newRequest
<1>3. ticket' \in [Calls -> -MaxId .. MaxId]
  BY <1>1, <1>2 DEF FrontTypeOK
<1>4. /\ active' \in [Ids -> Calls \cup {Null}]
      /\ root_cid' \in [Ids -> Cids \cup {Null}]
      /\ accepted' \subseteq Calls
  BY DEF FrontTypeOK, newRequest
<1> QED
  BY <1>1, <1>3, <1>4

(* Every step keeps the types.                                             *)
LEMMA StepType == FrontTypeOK /\ [FrontNext]_frontVars => FrontTypeOK'
<1> SUFFICES ASSUME FrontTypeOK, [FrontNext]_frontVars
             PROVE  FrontTypeOK'
  OBVIOUS
<1> USE DEF reqVars, rejVars, loopVars, netVars, userVars, histVars
<1>1. CASE start
  BY <1>1 DEF start, FrontTypeOK
<1>2. ASSUME NEW c \in Calls, NEW x \in Cids, makeRequest(c, x)
      PROVE  FrontTypeOK'
  <2> UNCHANGED <<started, loopVars, in_block, cleanup_timer, dropped, told,
                  histVars>>
    BY <1>2 DEF makeRequest
  <2>1. CASE makeRequestRejected(c, x)
    <3>1. newRejectedRequest(c) /\ UNCHANGED reqVars
      BY <2>1 DEF makeRequestRejected, newRejectedRequest
    <3> QED
      BY <2>1, <3>1, NewRejectedType DEF makeRequestRejected, FrontTypeOK
  <2>2. CASE makeRequestFails(c, x)
    <3>1. newRejectedRequest(c) /\ UNCHANGED reqVars
      BY <2>2 DEF makeRequestFails, newRejectedRequest
    <3>2. tracked' \in [Cids -> {Untracked} \cup [state : States, id : -MaxId .. MaxId]]
      BY <2>2, <3>1, NewRejectedType, TrackedType DEF makeRequestFails, States
    <3> QED
      BY <2>2, <3>1, <3>2, NewRejectedType DEF makeRequestFails, FrontTypeOK
  <2>3. CASE makeRequestSent(c, x)
    <3>1. newRequest(c, x) /\ UNCHANGED rejVars
      BY <2>3 DEF makeRequestSent, newRequest
    <3>2. tracked' \in [Cids -> {Untracked} \cup [state : States, id : -MaxId .. MaxId]]
      BY <2>3, <3>1, NewRequestType, TrackedType DEF makeRequestSent, States
    <3>3. sent' \subseteq Ids
      BY <2>3, <3>1, NewRequestType DEF makeRequestSent, FrontTypeOK, Ids
    <3> QED
      BY <2>3, <3>1, <3>2, <3>3, NewRequestType DEF makeRequestSent, FrontTypeOK
  <2> QED
    BY <1>2, <2>1, <2>2, <2>3 DEF makeRequest
<1>3. ASSUME NEW c \in Calls, unsubscribe(c)
      PROVE  FrontTypeOK'
  <2>1. ticket' \in [Calls -> -MaxId .. MaxId]
    BY <1>3, MaxIdAssumption DEF unsubscribe, FrontTypeOK
  <2>2. /\ active' \in [Ids -> Calls \cup {Null}]
        /\ rejected' \in [Ids -> Calls \cup {Null}]
    BY <1>3 DEF unsubscribe, FrontTypeOK
  <2> QED
    BY <1>3, <2>1, <2>2 DEF unsubscribe, FrontTypeOK
<1>4. ASSUME NEW c \in Calls, cancelOne(c)
      PROVE  FrontTypeOK'
  BY <1>4 DEF cancelOne, FrontTypeOK
<1>5. ASSUME NEW id \in Ids, NEW status, onNetworkResponse(id, status)
      PROVE  FrontTypeOK'
  <2>1. tracked' \in [Cids -> {Untracked} \cup [state : States, id : -MaxId .. MaxId]]
    <3> DEFINE x == root_cid[id]
    <3>1. tracked' # tracked =>
            /\ x # Null
            /\ tracked[x] # Untracked
            /\ tracked' = [tracked EXCEPT ![x].state = "FAILED"]
      BY <1>5 DEF onNetworkResponse, afterResponse
    <3>2. x # Null => x \in Cids
      BY <1>5 DEF FrontTypeOK
    <3>3. 0 \in -MaxId .. MaxId /\ "FAILED" \in States
      BY MaxIdAssumption DEF States
    <3>4. x \in Cids /\ tracked[x] # Untracked =>
            [tracked EXCEPT ![x].state = "FAILED"]
              \in [Cids -> {Untracked} \cup [state : States, id : -MaxId .. MaxId]]
      BY <3>3, TrackedType
    <3> QED
      BY <3>1, <3>2, <3>4 DEF FrontTypeOK
  <2>2. /\ active' \in [Ids -> Calls \cup {Null}]
        /\ told' \in [Calls -> Nat]
    BY <1>5 DEF onNetworkResponse, FrontTypeOK
  <2> QED
    BY <1>5, <2>1, <2>2 DEF onNetworkResponse, FrontTypeOK
<1>6. ASSUME NEW x \in Cids, onBlock(x)
      PROVE  FrontTypeOK'
  BY <1>6 DEF onBlock, FrontTypeOK
<1>7. CASE onBlockProcessed
  <2>1. tracked' \in [Cids -> {Untracked} \cup [state : States, id : -MaxId .. MaxId]]
    <3>1. in_block.cid \in Cids
      BY <1>7 DEF onBlockProcessed, FrontTypeOK
    <3>2. tracked[in_block.cid].state = "IN_PROGRESS"
            => tracked[in_block.cid] # Untracked
      BY DEF Untracked
    <3>3. 0 \in -MaxId .. MaxId /\ "COMPLETED" \in States
      BY MaxIdAssumption DEF States
    <3>4. tracked[in_block.cid] # Untracked =>
              [tracked EXCEPT ![in_block.cid].state = "COMPLETED"]
                \in [Cids -> {Untracked} \cup [state : States, id : -MaxId .. MaxId]]
      BY <3>1, <3>3, TrackedType
    <3> QED
      BY <1>7, <3>2, <3>4 DEF onBlockProcessed, FrontTypeOK
  <2> QED
    BY <1>7, <2>1 DEF onBlockProcessed, FrontTypeOK
<1>8. CASE notifyRejected
  <2>1. notifications' \in Nat /\ rejected_id' \in 0 .. MaxId
    BY <1>8, MaxIdAssumption DEF notifyRejected, FrontTypeOK
  <2>2. Held(rejected) \subseteq Calls
    BY DEF Held, FrontTypeOK
  <2> QED
    BY <1>8, <2>1, <2>2 DEF notifyRejected, cancelRejected, FrontTypeOK
<1>9. CASE doStop
  <2>1. Held(rejected) \subseteq Calls /\ Held(active) \subseteq Calls
    BY DEF Held, FrontTypeOK
  <2> QED
    BY <1>9, <2>1 DEF doStop, cancelRejected, FrontTypeOK
<1>10. CASE cancelAllDone
  <2>1. rejected_id' \in 0 .. MaxId
    BY <1>10, MaxIdAssumption DEF cancelAllDone, FrontTypeOK
  <2>2. Held(rejected) \subseteq Calls
    BY DEF Held, FrontTypeOK
  <2> QED
    BY <1>10, <2>1, <2>2 DEF cancelAllDone, cancelRejected, FrontTypeOK
<1>11. CASE onCleanupTimer
  BY <1>11 DEF onCleanupTimer, FrontTypeOK
<1>12. CASE UNCHANGED frontVars
  BY <1>12 DEF frontVars, FrontTypeOK
<1> QED
  BY <1>1, <1>2, <1>3, <1>4, <1>5, <1>6, <1>7, <1>8, <1>9, <1>10, <1>11,
     <1>12 DEF FrontNext

(* The initial state is well typed.                                        *)
LEMMA InitType == FrontInit => FrontTypeOK
<1> SUFFICES ASSUME FrontInit PROVE FrontTypeOK
  OBVIOUS
<1>1. ticket \in [Calls -> -MaxId .. MaxId]
  BY MaxIdAssumption DEF FrontInit
<1>2. tracked \in [Cids -> {Untracked} \cup [state : States, id : -MaxId .. MaxId]]
  BY DEF FrontInit
<1>3. in_block \in [cid : Cids \cup {Null}, mark : BOOLEAN]
  BY DEF FrontInit
<1>4. /\ active \in [Ids -> Calls \cup {Null}]
      /\ root_cid \in [Ids -> Cids \cup {Null}]
      /\ rejected \in [Ids -> Calls \cup {Null}]
      /\ told \in [Calls -> Nat]
  BY DEF FrontInit
<1>5. /\ counter \in 0 .. MaxId
      /\ rejected_id \in 0 .. MaxId
      /\ notifications \in Nat
  BY MaxIdAssumption DEF FrontInit
<1> QED
  BY <1>1, <1>2, <1>3, <1>4, <1>5 DEF FrontInit, FrontTypeOK

(* Theorem: every variable of the front end keeps its type; ids of either  *)
(* kind stay within the ids handed out and name entries of their own maps. *)
THEOREM TypeCorrect == FrontSpec => []FrontTypeOK
<1>1. FrontInit => FrontTypeOK
  BY InitType
<1>2. FrontTypeOK /\ [FrontNext]_frontVars => FrontTypeOK'
  BY StepType
<1> QED
  BY <1>1, <1>2, PTL DEF FrontSpec

-----------------------------------------------------------------------------
(* Subscriptions and the entries they release.                             *)

(* A request that is not served yet holds no id, hence no entry.           *)
LEMMA FreshIsNowhere ==
  ASSUME FrontTypeOK, TicketInv, NEW c \in Calls, fresh(c)
  PROVE  /\ \A i \in Ids : active[i] # c /\ rejected[i] # c
         /\ ticket[c] = 0 /\ told[c] = 0
         /\ c \notin cancelling \cup dropped \cup accepted
<1>1. ticket[c] = 0 /\ told[c] = 0
  BY DEF fresh
<1>2. c \notin cancelling \cup dropped \cup accepted
  BY DEF fresh
<1>3. c # Null
  BY CallsAssumption
<1>4. ASSUME NEW i \in Ids
      PROVE  active[i] # c /\ rejected[i] # c
  BY <1>1, <1>3, MaxIdAssumption DEF TicketInv, Ids
<1> QED
  BY <1>1, <1>2, <1>4

(* A ticket is 0 or, but for its sign, the key of an entry.                *)
LEMMA TicketRange ==
  FrontTypeOK =>
    \A c \in Calls : /\ ticket[c] \in Int
                     /\ ticket[c] > 0 => ticket[c] \in Ids
                     /\ ticket[c] < 0 => -ticket[c] \in Ids
BY MaxIdAssumption DEF FrontTypeOK, Ids

(* Every step keeps subscriptions and entries together.                    *)
LEMMA StepTickets == FrontTypeOK /\ TicketInv /\ [FrontNext]_frontVars => TicketInv'
<1> SUFFICES ASSUME FrontTypeOK, TicketInv, [FrontNext]_frontVars
             PROVE  TicketInv'
  OBVIOUS
<1> USE DEF reqVars, rejVars, loopVars, netVars, userVars, histVars
<1>0. FrontTypeOK'
  BY StepType
<1>1. ASSUME UNCHANGED <<active, rejected, ticket, counter, dropped>>
      PROVE  TicketInv'
  BY <1>1 DEF TicketInv
<1>2. ASSUME NEW c \in Calls, NEW x \in Cids, makeRequest(c, x)
      PROVE  TicketInv'
  <2>1. /\ fresh(c)
        /\ dropped' = dropped
        /\ \/ newRejectedRequest(c)
           \/ newRequest(c, x)
    BY <1>2 DEF makeRequest, makeRequestRejected, makeRequestFails,
       makeRequestSent
  <2>2. CASE newRejectedRequest(c)
    <3>1. /\ active' = active /\ counter' = counter
          /\ rejected' = [rejected EXCEPT ![rejected_id'] = c]
          /\ ticket' = [ticket EXCEPT ![c] = -rejected_id']
          /\ rejected_id' \in Ids
      BY <2>2, NewRejectedType DEF newRejectedRequest, Ids
    <3>2. \A i \in Ids : active'[i] # Null => ticket'[active'[i]] = i
      BY <2>1, <3>1, FreshIsNowhere DEF TicketInv, FrontTypeOK
    <3>3. \A i \in Ids : rejected'[i] # Null => ticket'[rejected'[i]] = -i
      BY <2>1, <3>1, FreshIsNowhere DEF TicketInv, FrontTypeOK
    <3>4. ticket'[c] = -rejected_id' /\ ~(-rejected_id' > 0)
      <4>1. ticket'[c] = -rejected_id'
        BY <3>1 DEF FrontTypeOK
      <4>2. \A n \in Ids : ~(-n > 0)
        BY MaxIdAssumption DEF Ids
      <4> QED
        BY <3>1, <4>1, <4>2
    <3>5. \A d \in Calls : ticket'[d] > 0 =>
            /\ ticket'[d] <= counter'
            /\ active'[ticket'[d]] \in {d, Null}
      BY <3>1, <3>4 DEF TicketInv, FrontTypeOK
    <3>6. \A d \in dropped' : ticket'[d] = 0
      BY <2>1, <3>1, FreshIsNowhere DEF TicketInv, FrontTypeOK
    <3> QED
      BY <3>2, <3>3, <3>5, <3>6 DEF TicketInv
  <2>3. CASE newRequest(c, x)
    <3>1. /\ rejected' = rejected /\ counter' = counter + 1
          /\ active' = [active EXCEPT ![counter'] = c]
          /\ ticket' = [ticket EXCEPT ![c] = counter']
          /\ counter' \in Ids
      BY <2>3, NewRequestType DEF newRequest, Ids
    <3>2. \A i \in Ids : active'[i] # Null => ticket'[active'[i]] = i
      BY <2>1, <3>1, FreshIsNowhere DEF TicketInv, FrontTypeOK
    <3>3. \A i \in Ids : rejected'[i] # Null => ticket'[rejected'[i]] = -i
      BY <2>1, <3>1, FreshIsNowhere DEF TicketInv, FrontTypeOK
    <3>4. ASSUME NEW d \in Calls, ticket'[d] > 0
          PROVE  ticket'[d] <= counter' /\ active'[ticket'[d]] \in {d, Null}
      <4>1. CASE d = c
        BY <3>1, <4>1, MaxIdAssumption DEF FrontTypeOK, Ids
      <4>2. CASE d # c
        <5>1. ticket'[d] = ticket[d] /\ ticket[d] \in Ids
          BY <3>1, <3>4, <4>2, TicketRange DEF FrontTypeOK
        <5>2. ticket[d] <= counter /\ active[ticket[d]] \in {d, Null}
          BY <3>4, <5>1 DEF TicketInv
        <5>3. ticket[d] <= counter' /\ ticket[d] # counter'
          BY <3>1, <5>1, <5>2, MaxIdAssumption DEF FrontTypeOK, Ids
        <5> QED
          BY <3>1, <5>1, <5>2, <5>3 DEF FrontTypeOK
      <4> QED
        BY <4>1, <4>2
    <3>5. \A d \in dropped' : ticket'[d] = 0
      BY <2>1, <3>1, FreshIsNowhere DEF TicketInv, FrontTypeOK
    <3> QED
      BY <3>2, <3>3, <3>4, <3>5 DEF TicketInv
  <2> QED
    BY <2>1, <2>2, <2>3
<1>3. ASSUME NEW c \in Calls, unsubscribe(c)
      PROVE  TicketInv'
  <2>1. /\ ticket[c] # 0
        /\ ticket' = [ticket EXCEPT ![c] = 0]
        /\ dropped' = dropped \cup {c}
        /\ counter' = counter
    BY <1>3 DEF unsubscribe
  <2>2. CASE ticket[c] < 0
    <3>1. /\ rejected' = [rejected EXCEPT ![-ticket[c]] = Null]
          /\ active' = active
      BY <1>3, <2>2 DEF unsubscribe
    <3>2. \A i \in Ids : active[i] # c
      BY <2>2, CallsAssumption, MaxIdAssumption DEF TicketInv, Ids
    <3>3. \A i \in Ids : rejected[i] = c => i = -ticket[c]
      BY CallsAssumption, TicketRange, MaxIdAssumption DEF TicketInv, Ids
    <3> QED
      BY <2>1, <3>1, <3>2, <3>3 DEF TicketInv, FrontTypeOK
  <2>3. CASE ~(ticket[c] < 0)
    <3>1. /\ active' = [active EXCEPT ![ticket[c]] = Null]
          /\ rejected' = rejected
      BY <1>3, <2>3 DEF unsubscribe
    <3>2. \A i \in Ids : rejected[i] # c
      BY <2>3, CallsAssumption, MaxIdAssumption DEF TicketInv, Ids
    <3>3. \A i \in Ids : active[i] = c => i = ticket[c]
      BY CallsAssumption DEF TicketInv
    <3>4. \A d \in Calls : ticket'[d] > 0 => ticket'[d] = ticket[d]
                                             /\ ticket[d] \in Ids
      BY <2>1, TicketRange DEF FrontTypeOK
    <3> QED
      BY <2>1, <3>1, <3>2, <3>3, <3>4 DEF TicketInv, FrontTypeOK
  <2> QED
    BY <2>2, <2>3
<1>4. ASSUME NEW c \in Calls, cancelOne(c)
      PROVE  TicketInv'
  BY <1>1, <1>4 DEF cancelOne
<1>5. ASSUME NEW id \in Ids, NEW status, onNetworkResponse(id, status)
      PROVE  TicketInv'
  <2>1. /\ UNCHANGED <<rejected, ticket, counter, dropped>>
        /\ active' = active \/ active' = [active EXCEPT ![id] = Null]
    BY <1>5 DEF onNetworkResponse
  <2> QED
    BY <2>1, TicketRange DEF TicketInv, FrontTypeOK
<1>6. CASE notifyRejected
  BY <1>6 DEF notifyRejected, cancelRejected, TicketInv
<1>7. CASE doStop
  <2>1. /\ UNCHANGED <<ticket, counter, dropped>>
        /\ active' = [i \in Ids |-> Null]
        /\ rejected' = rejected \/ rejected' = [i \in Ids |-> Null]
    BY <1>7 DEF doStop, cancelRejected
  <2> QED
    BY <2>1, MaxIdAssumption DEF TicketInv, FrontTypeOK, Ids
<1>8. CASE cancelAllDone
  <2>1. /\ UNCHANGED <<active, ticket, counter, dropped>>
        /\ rejected' = rejected \/ rejected' = [i \in Ids |-> Null]
    BY <1>8 DEF cancelAllDone, cancelRejected
  <2> QED
    BY <2>1 DEF TicketInv, FrontTypeOK
<1>9. ASSUME NEW x \in Cids, onBlock(x)
      PROVE  TicketInv'
  BY <1>1, <1>9 DEF onBlock
<1>10. CASE start \/ onBlockProcessed \/ onCleanupTimer \/ UNCHANGED frontVars
  BY <1>1, <1>10 DEF start, onBlockProcessed, onCleanupTimer, frontVars
<1> QED
  BY <1>2, <1>3, <1>4, <1>5, <1>6, <1>7, <1>8, <1>9, <1>10 DEF FrontNext

-----------------------------------------------------------------------------
(* Callbacks that were not told yet.                                       *)

(* cancelAll(rejected_requests_) moves callbacks that were not told.       *)
LEMMA RejectedLoopUntold ==
  ASSUME FrontTypeOK, TicketInv, UntoldInv, cancelling = {},
         UNCHANGED <<active, told>>,
         NEW loop \in {"notify", "stopRejected"}, cancelRejected(loop)
  PROVE  UntoldInv'
<1>1. \A i \in Ids : active[i] # Null => active[i] \notin Held(rejected)
  BY MaxIdAssumption DEF TicketInv, Held, Ids
<1>2. \A c \in Held(rejected) : told[c] = 0
  BY DEF UntoldInv, Held
<1>3. phase' = "none" => cancelling' = {}
  BY DEF cancelRejected
<1> QED
  BY <1>1, <1>2, <1>3 DEF cancelRejected, UntoldInv, ToldAtMostOnce

(* Every step tells a callback only as it lets go of it.                   *)
LEMMA StepUntold ==
  FrontTypeOK /\ TicketInv /\ UntoldInv /\ [FrontNext]_frontVars => UntoldInv'
<1> SUFFICES ASSUME FrontTypeOK, TicketInv, UntoldInv, [FrontNext]_frontVars
             PROVE  UntoldInv'
  OBVIOUS
<1> USE DEF reqVars, rejVars, loopVars, netVars, userVars, histVars, ToldAtMostOnce
<1>1. ASSUME UNCHANGED <<phase, cancelling, active, rejected, told>>
      PROVE  UntoldInv'
  BY <1>1 DEF UntoldInv
<1>2. ASSUME NEW c \in Calls, NEW x \in Cids, makeRequest(c, x)
      PROVE  UntoldInv'
  <2>1. /\ fresh(c)
        /\ UNCHANGED <<phase, cancelling, told>>
        /\ \/ newRejectedRequest(c)
           \/ newRequest(c, x)
    BY <1>2 DEF makeRequest, makeRequestRejected, makeRequestFails,
       makeRequestSent
  <2>2. CASE newRejectedRequest(c)
    <3>1. /\ active' = active
          /\ rejected' = [rejected EXCEPT ![rejected_id'] = c]
          /\ rejected_id' \in Ids
      BY <2>2, NewRejectedType DEF newRejectedRequest, Ids
    <3> QED
      BY <2>1, <3>1, FreshIsNowhere DEF UntoldInv, FrontTypeOK
  <2>3. CASE newRequest(c, x)
    <3>1. /\ rejected' = rejected
          /\ active' = [active EXCEPT ![counter'] = c]
          /\ counter' \in Ids
      BY <2>3, NewRequestType DEF newRequest, Ids
    <3> QED
      BY <2>1, <3>1, FreshIsNowhere DEF UntoldInv, FrontTypeOK
  <2> QED
    BY <2>1, <2>2, <2>3
<1>3. ASSUME NEW c \in Calls, unsubscribe(c)
      PROVE  UntoldInv'
  <2>1. /\ UNCHANGED <<phase, cancelling, told>>
        /\ \A i \in Ids : active'[i] \in {active[i], Null}
        /\ \A i \in Ids : rejected'[i] \in {rejected[i], Null}
    BY <1>3 DEF unsubscribe, FrontTypeOK
  <2> QED
    BY <2>1 DEF UntoldInv
<1>4. ASSUME NEW c \in Calls, cancelOne(c)
      PROVE  UntoldInv'
  <2>1. /\ UNCHANGED <<phase, active, rejected>>
        /\ c \in cancelling
        /\ cancelling' = cancelling \ {c}
        /\ told' = [told EXCEPT ![c] = @ + 1]
    BY <1>4 DEF cancelOne
  <2> QED
    BY <2>1 DEF UntoldInv, FrontTypeOK
<1>5. ASSUME NEW id \in Ids, NEW status, onNetworkResponse(id, status)
      PROVE  UntoldInv'
  <2>1. /\ UNCHANGED <<phase, cancelling, rejected>>
        /\ \/ UNCHANGED <<active, told>>
           \/ /\ active[id] # Null
              /\ active' = [active EXCEPT ![id] = Null]
              /\ told' = [told EXCEPT ![active[id]] = @ + 1]
    BY <1>5 DEF onNetworkResponse
  <2>2. CASE /\ active[id] # Null
             /\ active' = [active EXCEPT ![id] = Null]
             /\ told' = [told EXCEPT ![active[id]] = @ + 1]
    <3> DEFINE c == active[id]
    <3>1. \A i \in Ids : rejected[i] # c
      BY <2>2, MaxIdAssumption DEF TicketInv, Ids
    <3>2. \A i \in Ids \ {id} : active[i] # c
      BY <2>2 DEF TicketInv
    <3>3. \A d \in Calls \ {c} : told'[d] = told[d]
      BY <2>2 DEF FrontTypeOK
    <3> QED
      BY <2>1, <2>2, <3>1, <3>2, <3>3 DEF UntoldInv, FrontTypeOK
  <2> QED
    BY <1>1, <2>1, <2>2
<1>6. CASE notifyRejected
  <2>1. /\ cancelling = {}
        /\ UNCHANGED <<active, told>>
        /\ cancelRejected("notify")
    BY <1>6 DEF notifyRejected, idle, UntoldInv
  <2> QED
    BY <2>1, RejectedLoopUntold
<1>7. CASE doStop
  <2>1. /\ cancelling = {}
        /\ told' = told
        /\ active' = [i \in Ids |-> Null]
    BY <1>7 DEF doStop, idle, UntoldInv
  <2>2. CASE Held(active) # {}
    <3>1. /\ cancelling' = Held(active)
          /\ phase' = "stopActive"
          /\ rejected' = rejected
      BY <1>7, <2>2 DEF doStop
    <3>2. \A i \in Ids : rejected[i] # Null => rejected[i] \notin Held(active)
      BY MaxIdAssumption DEF TicketInv, Held, Ids
    <3> QED
      BY <2>1, <3>1, <3>2 DEF UntoldInv, Held
  <2>3. CASE Held(active) = {}
    <3>1. cancelRejected("stopRejected")
      BY <1>7, <2>3 DEF doStop
    <3>2. \A i \in Ids : active[i] = Null
      BY <2>3 DEF Held
    <3>3. active' = active
      BY <2>1, <3>2 DEF FrontTypeOK
    <3> QED
      BY <2>1, <3>1, <3>3, RejectedLoopUntold
  <2> QED
    BY <2>2, <2>3
<1>8. CASE cancelAllDone
  <2>1. /\ cancelling = {}
        /\ UNCHANGED <<active, told>>
        /\ \/ cancelRejected("stopRejected")
           \/ UNCHANGED <<cancelling, rejected>>
    BY <1>8 DEF cancelAllDone
  <2>2. CASE cancelRejected("stopRejected")
    BY <2>1, <2>2, RejectedLoopUntold
  <2>3. CASE UNCHANGED <<cancelling, rejected>>
    BY <2>1, <2>3 DEF UntoldInv
  <2> QED
    BY <2>1, <2>2, <2>3
<1>9. ASSUME NEW x \in Cids, onBlock(x)
      PROVE  UntoldInv'
  BY <1>1, <1>9 DEF onBlock
<1>10. CASE start \/ onBlockProcessed \/ onCleanupTimer \/ UNCHANGED frontVars
  BY <1>1, <1>10 DEF start, onBlockProcessed, onCleanupTimer, frontVars
<1> QED
  BY <1>2, <1>3, <1>4, <1>5, <1>6, <1>7, <1>8, <1>9, <1>10 DEF FrontNext

-----------------------------------------------------------------------------
(* Accepted requests, stop() and the tracked state.                        *)

(* Every step keeps what it accepted until it is told or dropped.          *)
LEMMA StepKept ==
  FrontTypeOK /\ TicketInv /\ UntoldInv /\ KeptInv /\ [FrontNext]_frontVars => KeptInv'
<1> SUFFICES ASSUME FrontTypeOK, TicketInv, UntoldInv, KeptInv, [FrontNext]_frontVars
             PROVE  KeptInv'
  OBVIOUS
<1> USE DEF reqVars, rejVars, loopVars, netVars, userVars, histVars
<1>1. ASSUME UNCHANGED <<accepted, cancelling, active, dropped, told>>
      PROVE  KeptInv'
  BY <1>1 DEF KeptInv
<1>2. ASSUME NEW c \in Calls, NEW x \in Cids, makeRequest(c, x)
      PROVE  KeptInv'
  <2>1. /\ UNCHANGED <<cancelling, told, dropped>>
        /\ \/ newRejectedRequest(c)
           \/ newRequest(c, x)
    BY <1>2 DEF makeRequest, makeRequestRejected, makeRequestFails,
       makeRequestSent
  <2>2. CASE newRejectedRequest(c)
    BY <1>1, <2>1, <2>2 DEF newRejectedRequest
  <2>3. CASE newRequest(c, x)
    <3>1. /\ accepted' = accepted \cup {c}
          /\ active' = [active EXCEPT ![counter'] = c]
          /\ counter' \in Ids
          /\ counter' = counter + 1
      BY <2>3, NewRequestType DEF newRequest, Ids
    <3>2. active[counter'] = Null
      <4>1. active[counter'] # Null => ticket[active[counter']] = counter'
        BY <3>1 DEF TicketInv
      <4>2. active[counter'] # Null =>
              /\ active[counter'] \in Calls
              /\ ticket[active[counter']] > 0
        BY <3>1, <4>1, MaxIdAssumption DEF FrontTypeOK, Ids
      <4> QED
        BY <3>1, <4>1, <4>2, MaxIdAssumption DEF TicketInv, FrontTypeOK
    <3> QED
      BY <2>1, <3>1, <3>2, CallsAssumption DEF KeptInv, FrontTypeOK
  <2> QED
    BY <2>1, <2>2, <2>3
<1>3. ASSUME NEW c \in Calls, unsubscribe(c)
      PROVE  KeptInv'
  <2>1. /\ UNCHANGED <<accepted, cancelling, told>>
        /\ dropped' = dropped \cup {c}
        /\ ticket[c] # 0
        /\ \/ active' = active
           \/ ticket[c] > 0 /\ active' = [active EXCEPT ![ticket[c]] = Null]
    BY <1>3, TicketRange DEF unsubscribe
  <2>2. CASE ticket[c] > 0 /\ active' = [active EXCEPT ![ticket[c]] = Null]
    BY <2>1, <2>2, TicketRange, CallsAssumption DEF KeptInv, TicketInv, FrontTypeOK
  <2> QED
    BY <2>1, <2>2 DEF KeptInv
<1>4. ASSUME NEW c \in Calls, cancelOne(c)
      PROVE  KeptInv'
  <2>1. /\ UNCHANGED <<accepted, active, dropped>>
        /\ c \in cancelling
        /\ cancelling' = cancelling \ {c}
        /\ told' = [told EXCEPT ![c] = @ + 1]
    BY <1>4 DEF cancelOne
  <2>2. told'[c] = 1
    BY <2>1 DEF UntoldInv, FrontTypeOK
  <2> QED
    BY <2>1, <2>2 DEF KeptInv, FrontTypeOK
<1>5. ASSUME NEW id \in Ids, NEW status, onNetworkResponse(id, status)
      PROVE  KeptInv'
  <2>1. /\ UNCHANGED <<accepted, cancelling, dropped>>
        /\ \/ UNCHANGED <<active, told>>
           \/ /\ active[id] # Null
              /\ active' = [active EXCEPT ![id] = Null]
              /\ told' = [told EXCEPT ![active[id]] = @ + 1]
    BY <1>5 DEF onNetworkResponse
  <2>2. CASE /\ active[id] # Null
             /\ active' = [active EXCEPT ![id] = Null]
             /\ told' = [told EXCEPT ![active[id]] = @ + 1]
    <3>1. told'[active[id]] = 1
      BY <2>2 DEF UntoldInv, FrontTypeOK
    <3>2. \A d \in Calls \ {active[id]} : told'[d] = told[d]
      BY <2>2 DEF FrontTypeOK
    <3> QED
      BY <2>1, <2>2, <3>1, <3>2 DEF KeptInv, FrontTypeOK
  <2> QED
    BY <1>1, <2>1, <2>2
<1>6. CASE notifyRejected
  <2>1. cancelling = {} /\ UNCHANGED <<accepted, active, dropped, told>>
    BY <1>6 DEF notifyRejected, idle, UntoldInv
  <2> QED
    BY <2>1 DEF KeptInv
<1>7. CASE doStop
  <2>1. cancelling = {} /\ UNCHANGED <<accepted, dropped, told>>
    BY <1>7 DEF doStop, idle, UntoldInv
  <2>2. \A i \in Ids : active[i] # Null => active[i] \in cancelling'
    BY <1>7 DEF doStop, Held
  <2> QED
    BY <2>1, <2>2, CallsAssumption DEF KeptInv, FrontTypeOK
<1>8. CASE cancelAllDone
  <2>1. cancelling = {} /\ UNCHANGED <<accepted, active, dropped, told>>
    BY <1>8 DEF cancelAllDone
  <2> QED
    BY <2>1 DEF KeptInv
<1>9. ASSUME NEW x \in Cids, onBlock(x)
      PROVE  KeptInv'
  BY <1>1, <1>9 DEF onBlock
<1>10. CASE start \/ onBlockProcessed \/ onCleanupTimer \/ UNCHANGED frontVars
  BY <1>1, <1>10 DEF start, onBlockProcessed, onCleanupTimer, frontVars
<1> QED
  BY <1>2, <1>3, <1>4, <1>5, <1>6, <1>7, <1>8, <1>9, <1>10 DEF FrontNext

(* Every step leaves a stopped object without active or tracked requests.  *)
LEMMA StepStopped == FrontTypeOK /\ StoppedInv /\ [FrontNext]_frontVars => StoppedInv'
<1> SUFFICES ASSUME FrontTypeOK, StoppedInv, [FrontNext]_frontVars, ~started'
             PROVE  /\ \A i \in Ids : active'[i] = Null
                    /\ \A x \in Cids : tracked'[x] = Untracked
  BY DEF StoppedInv
<1> USE DEF reqVars, rejVars, loopVars, netVars, userVars, histVars, StoppedInv
<1>1. ASSUME UNCHANGED <<started, active, tracked>>
      PROVE  /\ \A i \in Ids : active'[i] = Null
             /\ \A x \in Cids : tracked'[x] = Untracked
  BY <1>1
<1>2. ASSUME NEW c \in Calls, NEW x \in Cids, makeRequest(c, x)
      PROVE  UNCHANGED <<started, active, tracked>>
  BY <1>2 DEF makeRequest, makeRequestRejected, newRejectedRequest
<1>3. ASSUME NEW c \in Calls, unsubscribe(c)
      PROVE  /\ \A i \in Ids : active'[i] = Null
             /\ \A x \in Cids : tracked'[x] = Untracked
  BY <1>3 DEF unsubscribe, FrontTypeOK
<1>4. ASSUME NEW c \in Calls, cancelOne(c)
      PROVE  UNCHANGED <<started, active, tracked>>
  BY <1>4 DEF cancelOne
<1>5. ASSUME NEW id \in Ids, NEW status, onNetworkResponse(id, status)
      PROVE  UNCHANGED <<started, active, tracked>>
  BY <1>5 DEF onNetworkResponse
<1>6. ASSUME NEW x \in Cids, onBlock(x)
      PROVE  UNCHANGED <<started, active, tracked>>
  BY <1>6 DEF onBlock
<1>7. CASE onBlockProcessed
  <2>1. in_block.cid \in Cids /\ UNCHANGED <<started, active>>
    BY <1>7 DEF onBlockProcessed, FrontTypeOK
  <2>2. tracked[in_block.cid].state # "IN_PROGRESS"
    BY <2>1 DEF Untracked
  <2>3. tracked' = tracked
    BY <1>7, <2>2 DEF onBlockProcessed
  <2> QED
    BY <1>1, <2>1, <2>3
<1>8. CASE doStop
  BY <1>8 DEF doStop
<1>9. CASE notifyRejected \/ cancelAllDone
  BY <1>1, <1>9 DEF notifyRejected, cancelAllDone
<1>10. CASE start \/ onCleanupTimer \/ UNCHANGED frontVars
  BY <1>1, <1>10 DEF start, onCleanupTimer, frontVars
<1> QED
  BY <1>1, <1>2, <1>3, <1>4, <1>5, <1>6, <1>7, <1>8, <1>9, <1>10 DEF FrontNext

(* Every step that leaves rejected requests behind leaves a task, or the   *)
(* loop of stop(), that will call them.                                    *)
LEMMA StepRejected ==
  FrontTypeOK /\ RejectedHasTask /\ [FrontNext]_frontVars => RejectedHasTask'
<1> SUFFICES ASSUME FrontTypeOK, RejectedHasTask, [FrontNext]_frontVars
             PROVE  RejectedHasTask'
  OBVIOUS
<1> USE DEF reqVars, rejVars, loopVars, netVars, userVars, histVars
<1>1. ASSUME UNCHANGED <<rejected, notifications, phase>>
      PROVE  RejectedHasTask'
  BY <1>1 DEF RejectedHasTask, Held
<1>2. ASSUME NEW c \in Calls, NEW x \in Cids, makeRequest(c, x)
      PROVE  RejectedHasTask'
  <2>1. CASE newRejectedRequest(c)
    BY <2>1 DEF newRejectedRequest, RejectedHasTask, FrontTypeOK
  <2>2. CASE newRequest(c, x)
    BY <1>1, <1>2, <2>2 DEF makeRequest, newRequest
  <2> QED
    BY <1>2, <2>1, <2>2 DEF makeRequest, makeRequestRejected,
       makeRequestFails, makeRequestSent
<1>3. ASSUME NEW c \in Calls, unsubscribe(c)
      PROVE  RejectedHasTask'
  <2>1. /\ UNCHANGED <<notifications, phase>>
        /\ \A i \in Ids : rejected'[i] \in {rejected[i], Null}
    BY <1>3 DEF unsubscribe, FrontTypeOK
  <2> QED
    BY <2>1 DEF RejectedHasTask, Held
<1>4. ASSUME NEW c \in Calls, cancelOne(c)
      PROVE  RejectedHasTask'
  BY <1>1, <1>4 DEF cancelOne
<1>5. ASSUME NEW id \in Ids, NEW status, onNetworkResponse(id, status)
      PROVE  RejectedHasTask'
  BY <1>1, <1>5 DEF onNetworkResponse
<1>6. ASSUME NEW x \in Cids, onBlock(x)
      PROVE  RejectedHasTask'
  BY <1>1, <1>6 DEF onBlock
<1>7. ASSUME NEW loop, cancelRejected(loop)
      PROVE  RejectedHasTask'
  BY <1>7 DEF cancelRejected, RejectedHasTask, Held
<1>8. CASE notifyRejected
  BY <1>7, <1>8 DEF notifyRejected
<1>9. CASE doStop
  BY <1>7, <1>9 DEF doStop, RejectedHasTask
<1>10. CASE cancelAllDone
  <2>1. \/ cancelRejected("stopRejected")
        \/ phase # "stopActive" /\ UNCHANGED <<rejected, notifications>>
    BY <1>10 DEF cancelAllDone
  <2> QED
    BY <1>7, <2>1 DEF RejectedHasTask, Held
<1>11. CASE start \/ onBlockProcessed \/ onCleanupTimer \/ UNCHANGED frontVars
  BY <1>1, <1>11 DEF start, onBlockProcessed, onCleanupTimer, frontVars
<1> QED
  BY <1>2, <1>3, <1>4, <1>5, <1>6, <1>8, <1>9, <1>10, <1>11 DEF FrontNext

(* Every step marks only CIDs COMPLETED whose block was handed out.        *)
LEMMA StepBlock == FrontTypeOK /\ BlockInv /\ [FrontNext]_frontVars => BlockInv'
<1> SUFFICES ASSUME FrontTypeOK, BlockInv, [FrontNext]_frontVars
             PROVE  BlockInv'
  OBVIOUS
<1> USE DEF reqVars, rejVars, loopVars, netVars, userVars, histVars
<1>1. ASSUME UNCHANGED <<tracked, in_block, delivered>>
      PROVE  BlockInv'
  BY <1>1 DEF BlockInv, CompletedHasBlock
<1>2. ASSUME NEW x \in Cids, NEW s, s # "COMPLETED",
             UNCHANGED <<in_block, delivered>>,
             \A y \in Cids \ {x} : tracked'[y] = tracked[y],
             tracked'[x].state = s
      PROVE  BlockInv'
  BY <1>2 DEF BlockInv, CompletedHasBlock
<1>3. ASSUME NEW c \in Calls, NEW x \in Cids, makeRequest(c, x)
      PROVE  BlockInv'
  <2>1. UNCHANGED <<in_block, delivered>>
    BY <1>3 DEF makeRequest
  <2>2. CASE makeRequestRejected(c, x)
    BY <1>1, <2>1, <2>2 DEF makeRequestRejected
  <2>3. ASSUME NEW i, tracked' = [tracked EXCEPT ![x] =
                                    [state |-> "IN_PROGRESS", id |-> i]]
        PROVE  BlockInv'
    <3>1. tracked'[x].state = "IN_PROGRESS"
      BY <2>3 DEF FrontTypeOK
    <3>2. \A y \in Cids \ {x} : tracked'[y] = tracked[y]
      BY <2>3 DEF FrontTypeOK
    <3> QED
      BY <1>2, <2>1, <3>1, <3>2
  <2> QED
    BY <1>3, <2>2, <2>3 DEF makeRequest, makeRequestFails, makeRequestSent
<1>4. ASSUME NEW c \in Calls, unsubscribe(c) \/ cancelOne(c)
      PROVE  BlockInv'
  BY <1>1, <1>4 DEF unsubscribe, cancelOne
<1>5. ASSUME NEW id \in Ids, NEW status, onNetworkResponse(id, status)
      PROVE  BlockInv'
  <2> DEFINE x == root_cid[id]
  <2>1. /\ UNCHANGED <<in_block, delivered>>
        /\ \/ tracked' = tracked
           \/ /\ x # Null
              /\ tracked[x] # Untracked
              /\ tracked' = [tracked EXCEPT ![x].state = "FAILED"]
    BY <1>5 DEF onNetworkResponse, afterResponse
  <2>2. CASE /\ x # Null
             /\ tracked[x] # Untracked
             /\ tracked' = [tracked EXCEPT ![x].state = "FAILED"]
    <3>1. x \in Cids
      BY <2>2 DEF FrontTypeOK
    <3>2. tracked'[x].state = "FAILED"
      BY <2>2, <3>1 DEF FrontTypeOK
    <3>3. \A y \in Cids \ {x} : tracked'[y] = tracked[y]
      BY <2>2, <3>1 DEF FrontTypeOK
    <3> QED
      BY <1>2, <2>1, <3>1, <3>2, <3>3
  <2> QED
    BY <1>1, <2>1, <2>2
<1>6. ASSUME NEW x \in Cids, onBlock(x)
      PROVE  BlockInv'
  BY <1>6 DEF onBlock, BlockInv, CompletedHasBlock
<1>7. CASE onBlockProcessed
  <2> DEFINE x == in_block.cid
  <2>1. /\ x \in Cids
        /\ delivered' = delivered
        /\ ~in_block'.mark
    BY <1>7 DEF onBlockProcessed, FrontTypeOK
  <2>2. CASE tracked' = tracked
    BY <2>1, <2>2 DEF BlockInv, CompletedHasBlock
  <2>3. CASE tracked' # tracked
    <3>1. /\ in_block.mark
          /\ tracked' = [tracked EXCEPT ![x].state = "COMPLETED"]
      BY <1>7, <2>3 DEF onBlockProcessed
    <3>2. x \in delivered
      BY <3>1 DEF BlockInv
    <3>3. \A y \in Cids \ {x} : tracked'[y] = tracked[y]
      BY <2>1, <3>1 DEF FrontTypeOK
    <3> QED
      BY <2>1, <3>2, <3>3 DEF BlockInv, CompletedHasBlock
  <2> QED
    BY <2>2, <2>3
<1>8. CASE doStop
  <2>1. /\ UNCHANGED <<in_block, delivered>>
        /\ \A x \in Cids : tracked'[x].state = "none"
    BY <1>8 DEF doStop, Untracked
  <2> QED
    BY <2>1 DEF BlockInv, CompletedHasBlock
<1>9. CASE notifyRejected \/ cancelAllDone
  BY <1>1, <1>9 DEF notifyRejected, cancelAllDone
<1>10. CASE start \/ onCleanupTimer \/ UNCHANGED frontVars
  BY <1>1, <1>10 DEF start, onCleanupTimer, frontVars
<1> QED
  BY <1>3, <1>4, <1>5, <1>6, <1>7, <1>8, <1>9, <1>10 DEF FrontNext

(* Every step leaves a failed request FAILED.                              *)
LEMMA StepFailed == FrontTypeOK /\ FailedInv /\ [FrontNext]_frontVars => FailedInv'
<1> SUFFICES ASSUME FrontTypeOK, FailedInv, [FrontNext]_frontVars
             PROVE  FailedInv'
  OBVIOUS
<1> USE DEF reqVars, rejVars, loopVars, netVars, userVars, histVars
<1>0. \A i \in Ids : i > 0
  BY MaxIdAssumption DEF Ids
<1>1. ASSUME UNCHANGED <<counter, root_cid, failed>>, sent' \subseteq sent,
             \A x \in Cids : \/ tracked'[x] = tracked[x]
                             \/ ~(tracked'[x].id > 0)
      PROVE  FailedInv'
  <2>1. \A i \in failed : i > 0
    BY <1>0 DEF FrontTypeOK
  <2> QED
    BY <1>1, <2>1 DEF FailedInv, FailedIsFailed
<1>2. ASSUME NEW c \in Calls, NEW x \in Cids, makeRequest(c, x)
      PROVE  FailedInv'
  <2>0. failed' = failed
    BY <1>2 DEF makeRequest
  <2>1. CASE makeRequestRejected(c, x)
    BY <1>1, <2>0, <2>1 DEF makeRequestRejected, newRejectedRequest
  <2>2. CASE makeRequestFails(c, x)
    <3>1. /\ newRejectedRequest(c)
          /\ UNCHANGED <<counter, root_cid, sent>>
          /\ tracked' = [tracked EXCEPT ![x] =
                           [state |-> "IN_PROGRESS", id |-> -rejected_id']]
      BY <2>2 DEF makeRequestFails, newRejectedRequest
    <3>2. tracked'[x].id = -rejected_id' /\ rejected_id' \in 1 .. MaxId
      BY <3>1, NewRejectedType DEF FrontTypeOK
    <3>3. \A n \in 1 .. MaxId : ~(-n > 0)
      BY MaxIdAssumption
    <3>4. \A y \in Cids \ {x} : tracked'[y] = tracked[y]
      BY <3>1 DEF FrontTypeOK
    <3> QED
      BY <1>1, <2>0, <3>1, <3>2, <3>3, <3>4
  <2>3. CASE makeRequestSent(c, x)
    <3>1. /\ newRequest(c, x)
          /\ counter' = counter + 1
          /\ root_cid' = [root_cid EXCEPT ![counter'] = x]
          /\ tracked' = [tracked EXCEPT ![x] =
                           [state |-> "IN_PROGRESS", id |-> counter']]
          /\ sent' = sent \cup {counter'}
      BY <2>3 DEF makeRequestSent, newRequest
    <3>2. tracked'[x].id = counter' /\ counter' \in Ids
      BY <3>1, NewRequestType DEF FrontTypeOK, Ids
    <3>3. /\ \A i \in Ids : root_cid[i] # Null => i < counter'
          /\ \A i \in sent \cup failed : i < counter'
      BY <3>1, MaxIdAssumption DEF FailedInv, FrontTypeOK, Ids
    <3>4. /\ \A i \in Ids : root_cid'[i] # Null => i <= counter'
          /\ \A i \in sent' \cup failed' : i <= counter'
      <4>1. sent' \cup failed' = sent \cup failed \cup {counter'}
        BY <2>0, <3>1
      <4>2. \A i \in Ids : i < counter' => i <= counter'
        BY <3>2, MaxIdAssumption DEF Ids
      <4>3. sent \cup failed \subseteq Ids /\ counter' <= counter'
        BY <3>2, MaxIdAssumption DEF FrontTypeOK, Ids
      <4>4. \A i \in Ids : root_cid'[i] # Null => i <= counter'
        BY <3>1, <3>2, <3>3, MaxIdAssumption DEF FrontTypeOK, Ids
      <4> QED
        BY <3>3, <4>1, <4>2, <4>3, <4>4
    <3>5. ASSUME NEW y \in Cids
          PROVE  /\ tracked'[y].id > 0 => root_cid'[tracked'[y].id] = y
                 /\ tracked'[y].id \in failed' => tracked'[y].state = "FAILED"
      <4>1. CASE y = x
        <5>1. counter' \notin failed
          BY <3>2, <3>3, MaxIdAssumption DEF Ids
        <5> QED
          BY <2>0, <3>1, <3>2, <4>1, <5>1 DEF FrontTypeOK
      <4>2. CASE y # x
        <5>1. tracked'[y] = tracked[y]
          BY <3>1, <4>2 DEF FrontTypeOK
        <5>2. ASSUME tracked[y].id > 0
              PROVE  root_cid'[tracked[y].id] = y
          <6>1. tracked[y].id \in Ids
            BY <5>2, MaxIdAssumption DEF FrontTypeOK, Untracked, Ids
          <6>2. root_cid[tracked[y].id] = y
            BY <5>2 DEF FailedInv
          <6>3. tracked[y].id # counter'
            BY <3>2, <3>3, <6>1, <6>2, CidsAssumption, MaxIdAssumption DEF Ids
          <6> QED
            BY <3>1, <3>2, <6>1, <6>2, <6>3 DEF FrontTypeOK
        <5> QED
          BY <2>0, <5>1, <5>2 DEF FailedInv, FailedIsFailed
      <4> QED
        BY <4>1, <4>2
    <3> QED
      BY <3>4, <3>5 DEF FailedInv, FailedIsFailed
  <2> QED
    BY <1>2, <2>1, <2>2, <2>3 DEF makeRequest
<1>4. ASSUME NEW c \in Calls, unsubscribe(c) \/ cancelOne(c)
      PROVE  FailedInv'
  BY <1>1, <1>4 DEF unsubscribe, cancelOne
<1>5. ASSUME NEW id \in Ids, NEW status, onNetworkResponse(id, status)
      PROVE  FailedInv'
  <2> DEFINE x == root_cid[id]
  <2>1. /\ UNCHANGED <<counter, root_cid>>
        /\ sent' \subseteq sent
        /\ id \in sent
    BY <1>5 DEF onNetworkResponse
  <2>2. \/ UNCHANGED <<tracked, failed>>
        \/ /\ failed' = failed \cup {id}
           /\ tracked' = IF x # Null /\ tracked[x] # Untracked
                            THEN [tracked EXCEPT ![x].state = "FAILED"]
                            ELSE tracked
    BY <1>5 DEF onNetworkResponse, afterResponse
  <2>3. CASE UNCHANGED <<tracked, failed>>
    BY <1>1, <2>1, <2>3
  <2>4. CASE /\ failed' = failed \cup {id}
             /\ tracked' = IF x # Null /\ tracked[x] # Untracked
                              THEN [tracked EXCEPT ![x].state = "FAILED"]
                              ELSE tracked
    <3>1. \A i \in sent' \cup failed' : i <= counter'
      BY <2>1, <2>4 DEF FailedInv
    <3>2. x # Null => x \in Cids
      BY DEF FrontTypeOK
    <3>3. ASSUME NEW y \in Cids
          PROVE  /\ tracked'[y].id = tracked[y].id
                 /\ tracked'[y].state \in {tracked[y].state, "FAILED"}
                 /\ y = x /\ tracked[y] # Untracked
                      => tracked'[y].state = "FAILED"
      BY <2>4, <3>2, CidsAssumption DEF FrontTypeOK
    <3>4. ASSUME NEW y \in Cids, tracked[y].id = id
          PROVE  y = x /\ tracked[y] # Untracked
      BY <1>0, <3>4 DEF FailedInv, Untracked
    <3> QED
      BY <2>1, <2>4, <3>1, <3>3, <3>4 DEF FailedInv, FailedIsFailed
  <2> QED
    BY <2>2, <2>3, <2>4
<1>6. ASSUME NEW x \in Cids, onBlock(x)
      PROVE  FailedInv'
  BY <1>1, <1>6 DEF onBlock
<1>7. CASE onBlockProcessed
  <2> DEFINE x == in_block.cid
  <2>1. x \in Cids /\ UNCHANGED <<counter, root_cid, sent, failed>>
    BY <1>7 DEF onBlockProcessed, FrontTypeOK
  <2>2. CASE tracked' = tracked
    BY <1>1, <2>1, <2>2
  <2>3. CASE tracked' # tracked
    <3>1. /\ tracked[x].state = "IN_PROGRESS"
          /\ tracked' = [tracked EXCEPT ![x].state = "COMPLETED"]
      BY <1>7, <2>3 DEF onBlockProcessed
    <3>2. tracked[x].id \notin failed
      BY <2>1, <3>1 DEF FailedInv, FailedIsFailed
    <3>3. tracked[x] # Untracked
      BY <3>1 DEF Untracked
    <3>4. /\ \A y \in Cids : tracked'[y].id = tracked[y].id
          /\ \A y \in Cids \ {x} : tracked'[y] = tracked[y]
      BY <2>1, <3>1, <3>3 DEF FrontTypeOK
    <3> QED
      BY <2>1, <3>2, <3>4 DEF FailedInv, FailedIsFailed
  <2> QED
    BY <2>2, <2>3
<1>8. CASE doStop
  <2>1. /\ UNCHANGED <<counter, root_cid, failed>>
        /\ sent' \subseteq sent
        /\ \A x \in Cids : tracked'[x].id = 0
    BY <1>8 DEF doStop, Untracked
  <2> QED
    BY <1>1, <2>1
<1>9. CASE notifyRejected \/ cancelAllDone
  BY <1>1, <1>9 DEF notifyRejected, cancelAllDone
<1>10. CASE start \/ onCleanupTimer \/ UNCHANGED frontVars
  BY <1>1, <1>10 DEF start, onCleanupTimer, frontVars
<1> QED
  BY <1>2, <1>4, <1>5, <1>6, <1>7, <1>8, <1>9, <1>10 DEF FrontNext

-----------------------------------------------------------------------------
(* The theorems.                                                           *)

(* The initial state satisfies every part of the invariant.                *)
LEMMA InitFront == FrontInit => FrontInv
<1> SUFFICES ASSUME FrontInit PROVE FrontInv
  OBVIOUS
<1>1. FrontTypeOK
  BY InitType
<1>2. TicketInv /\ UntoldInv /\ KeptInv /\ StoppedInv
  BY DEF FrontInit, TicketInv, UntoldInv, ToldAtMostOnce, KeptInv, StoppedInv
<1>3. RejectedHasTask
  BY DEF FrontInit, RejectedHasTask, Held
<1>4. BlockInv /\ FailedInv
  BY DEF FrontInit, BlockInv, CompletedHasBlock, FailedInv, FailedIsFailed,
     Untracked
<1> QED
  BY <1>1, <1>2, <1>3, <1>4 DEF FrontInv

(* Theorem: the inductive invariant of the front end.  Reentrant calls,    *)
(* stop(), late responses and restarted rejected ids keep it.              *)
THEOREM FrontCorrect == FrontSpec => []FrontInv
<1>1. FrontInit => FrontInv
  BY InitFront
<1>2. FrontInv /\ [FrontNext]_frontVars => FrontInv'
  BY StepType, StepTickets, StepUntold, StepKept, StepStopped, StepRejected,
     StepBlock, StepFailed DEF FrontInv
<1> QED
  BY <1>1, <1>2, PTL DEF FrontSpec

(* Theorem: no progress callback is told twice how its request ended,      *)
(* whether the network, stop() or a notification tells it.                 *)
THEOREM NeverToldTwice == FrontSpec => []ToldAtMostOnce
BY FrontCorrect, PTL DEF FrontInv, UntoldInv

(* Theorem: an accepted request stays with the object until its callback   *)
(* is told or its own subscription is dropped.                             *)
THEOREM AcceptedStays == FrontSpec => []AcceptedIsKept
<1>1. FrontInv => AcceptedIsKept
  BY CallsAssumption DEF FrontInv, KeptInv, AcceptedIsKept, Held, FrontTypeOK
<1> QED
  BY <1>1, FrontCorrect, PTL

(* Theorem: when stop() has returned every accepted request was told or    *)
(* dropped and nothing is tracked, whatever its callbacks did meanwhile.   *)
THEOREM StopIsComplete == FrontSpec => []StopTellsAll
<1>1. FrontInv => StopTellsAll
  BY CallsAssumption
     DEF FrontInv, KeptInv, StoppedInv, UntoldInv, StopTellsAll, FrontTypeOK
<1> QED
  BY <1>1, FrontCorrect, PTL

(* Theorem: no map keeps the callback of a dropped subscription, though    *)
(* the ids of rejected requests are used again.                            *)
THEOREM DroppedLetsGo == FrontSpec => []DroppedIsReleased
<1>1. FrontInv => DroppedIsReleased
  BY MaxIdAssumption DEF FrontInv, TicketInv, DroppedIsReleased, Held, Ids
<1> QED
  BY <1>1, FrontCorrect, PTL

(* Theorem: a CID is COMPLETED only if block_cb_ was called for it.        *)
THEOREM CompletionNeedsBlock == FrontSpec => []CompletedHasBlock
BY FrontCorrect, PTL DEF FrontInv, BlockInv

(* Theorem: whoever is rejected has a task, or stop() itself, to tell it.  *)
THEOREM RejectionIsScheduled == FrontSpec => []RejectedHasTask
BY FrontCorrect, PTL DEF FrontInv

(* Theorem: a request that failed is never shown as completed or in        *)
(* progress, although its failure may come from another thread while       *)
(* block_cb_ runs.                                                         *)
THEOREM FailureIsKept == FrontSpec => []FailedIsFailed
BY FrontCorrect, PTL DEF FrontInv, FailedInv

=============================================================================
