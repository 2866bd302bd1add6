------------------------------ MODULE Graphsync ------------------------------
(***************************************************************************)
(* The requester's side of one GraphsyncImpl object and its LocalRequests  *)
(* (impl/graphsync_impl.cpp, impl/local_requests.cpp): callbacks, request  *)
(* ids, subscriptions, and the state tracked per root CID.                 *)
(*                                                                         *)
(* Messages, timers and tasks come on the scheduler's thread.  What makes  *)
(* it hard is reentrancy: user code runs inside block_cb_ and inside every *)
(* progress callback, and may make requests and drop subscriptions from    *)
(* there.  A handler that ends with one callback is one action, for what   *)
(* the callback does comes next anyway; onBlock and the loops of cancelAll *)
(* do more after a callback returns and are split there.                   *)
(*                                                                         *)
(* One thing comes on other threads as well: a pool task that serves a     *)
(* remote request may find the peer's write queue full or broken and close *)
(* the context (PeerContext, addBlockToResponse and sendResponse), which   *)
(* fails the local requests from there.  tracked_requests_ has its mutex;  *)
(* the maps of LocalRequests have none, and each single access to them is  *)
(* taken as atomic here.                                                   *)
(*                                                                         *)
(* The network below is the set of ids it may still respond to; by         *)
(* PeerContext!ReportedAtMostOnce it ends each of them at most once.       *)
(***************************************************************************)
EXTENDS StatusCodes, FiniteSets

CONSTANTS
  Calls,    \* calls of Graphsync::makeRequest, each with its own callback
  Cids,     \* root CIDs
  MaxId,    \* bound of the model: ids of either kind in one behaviour
  Null

ASSUME CallsAssumption == Null \notin Calls /\ IsFiniteSet(Calls)
ASSUME CidsAssumption == Null \notin Cids
ASSUME MaxIdAssumption == MaxId \in Nat

VARIABLES
  started,        \* GraphsyncImpl::started_
  tracked,        \* tracked_requests_: CID -> state and request id
  counter,        \* RequestIdGenerator::counter_
  active,         \* active_requests_: id -> the call whose callback it holds
  root_cid,       \* request_to_cid_
  rejected,       \* rejected_requests_: -id -> call
  rejected_id,    \* -current_rejected_request_id_
  notifications,  \* scheduled asyncNotifyRejectedRequests tasks
  cancelling,     \* calls in the map that a cancelAll loop has swapped out
  phase,          \* who runs that loop: "notify", "stopActive",
                  \* "stopRejected", or "none"
  in_block,       \* onBlock inside block_cb_: its CID and
                  \* should_mark_completed
  cleanup_timer,  \* the timer set by the constructor is pending
  stuck,          \* the thread waits for requested_cids_mutex_, its own
  sent,           \* ids the network may respond to
  ticket,         \* subscription each call holds: an id, or 0
  accepted,       \* history: calls that got a positive id
  dropped,        \* history: calls whose subscription was dropped
  told,           \* history: terminal statuses given to each callback
  failed,         \* history: ids that ended with a failure when started
  delivered       \* history: root CIDs for which block_cb_ was called

reqVars == <<counter, active, root_cid, accepted>>
rejVars == <<rejected, rejected_id, notifications>>
loopVars == <<cancelling, phase>>
netVars == <<sent, stuck>>
userVars == <<ticket, dropped, told>>
histVars == <<failed, delivered>>
frontVars == <<started, tracked, reqVars, rejVars, loopVars, in_block,
               cleanup_timer, netVars, userVars, histVars>>

Ids == 1 .. MaxId
States == {"IN_PROGRESS", "COMPLETED", "FAILED"}
Untracked == [state |-> "none", id |-> 0]

FrontInit ==
  /\ started = FALSE
  /\ tracked = [x \in Cids |-> Untracked]
  /\ counter = 0
  /\ active = [i \in Ids |-> Null]
  /\ root_cid = [i \in Ids |-> Null]
  /\ rejected = [i \in Ids |-> Null]
  /\ rejected_id = 0
  /\ notifications = 0
  /\ cancelling = {}
  /\ phase = "none"
  /\ in_block = [cid |-> Null, mark |-> FALSE]
  /\ cleanup_timer = TRUE
  /\ stuck = FALSE
  /\ sent = {}
  /\ ticket = [c \in Calls |-> 0]
  /\ accepted = {}
  /\ dropped = {}
  /\ told = [c \in Calls |-> 0]
  /\ failed = {}
  /\ delivered = {}

(* No handler is in the middle of a callback.                              *)
idle == phase = "none" /\ in_block.cid = Null /\ ~stuck

(* Mutant: the callback of an empty entry is called too.                   *)
HeldOrEmpty(requests) == {requests[i] : i \in Ids}

Held(requests) == {requests[i] : i \in Ids} \ {Null}

(* A call that has not been made.                                          *)
fresh(c) ==
  /\ c \notin accepted \cup dropped \cup cancelling \cup Held(rejected)
  /\ ticket[c] = 0
  /\ told[c] = 0

-----------------------------------------------------------------------------

start ==
  /\ idle
  /\ ~started
  /\ started' = TRUE
  /\ UNCHANGED <<tracked, reqVars, rejVars, loopVars, in_block, cleanup_timer,
                 netVars, userVars, histVars>>

(* Mutant: a notification is scheduled for the first rejected id only.     *)
newRejectedUnscheduled(c) ==
  /\ rejected_id < MaxId
  /\ rejected_id' = rejected_id + 1
  /\ rejected' = [rejected EXCEPT ![rejected_id'] = c]
  /\ notifications' = IF rejected_id = 0 THEN notifications + 1
                                         ELSE notifications
  /\ ticket' = [ticket EXCEPT ![c] = -rejected_id']
  /\ UNCHANGED reqVars

(* LocalRequests::newRejectedRequest.  Every call schedules a notification:*)
(* rejected_notify_scheduled_ is never set.                                *)
newRejectedRequest(c) ==
  /\ rejected_id < MaxId
  /\ rejected_id' = rejected_id + 1
  /\ rejected' = [rejected EXCEPT ![rejected_id'] = c]
  /\ notifications' = notifications + 1
  /\ ticket' = [ticket EXCEPT ![c] = -rejected_id']
  /\ UNCHANGED reqVars

(* Mutant: the id counter does not advance.                                *)
newRequestSameId(c, x) ==
  /\ active' = [active EXCEPT ![1] = c]
  /\ root_cid' = [root_cid EXCEPT ![1] = x]
  /\ counter' = 1
  /\ accepted' = accepted \cup {c}
  /\ ticket' = [ticket EXCEPT ![c] = 1]
  /\ UNCHANGED rejVars

(* LocalRequests::newRequest of a request that can be serialized.          *)
newRequest(c, x) ==
  /\ counter < MaxId
  /\ counter' = counter + 1
  /\ active' = [active EXCEPT ![counter'] = c]
  /\ root_cid' = [root_cid EXCEPT ![counter'] = x]
  /\ accepted' = accepted \cup {c}
  /\ ticket' = [ticket EXCEPT ![c] = counter']
  /\ UNCHANGED rejVars

(* GraphsyncImpl::makeRequest.  It is rejected when stopped, when the peer *)
(* cannot be asked now, and when a request for x is in progress.           *)
makeRequestRejected(c, x) ==
  /\ newRejectedRequest(c)
  /\ UNCHANGED <<tracked, netVars>>

(* newRequest cannot serialize the request; it is tracked all the same.    *)
makeRequestFails(c, x) ==
  /\ newRejectedRequest(c)
  /\ tracked' = [tracked EXCEPT ![x] =
                   [state |-> "IN_PROGRESS", id |-> -rejected_id']]
  /\ UNCHANGED netVars

(* The request goes to the network while requested_cids_mutex_ is held. If *)
(* the network reports an error before it returns (PeerContext,            *)
(* EnqueueRefused and EnqueueCloses), onResponse locks that mutex again.   *)
makeRequestSent(c, x) ==
  /\ newRequest(c, x)
  /\ tracked' = [tracked EXCEPT ![x] =
                   [state |-> "IN_PROGRESS", id |-> counter']]
  /\ sent' = sent \cup {counter'}
  /\ stuck' \in BOOLEAN

makeRequest(c, x) ==
  /\ ~stuck
  /\ fresh(c)
  /\ \/ makeRequestRejected(c, x)
     \/ /\ started
        /\ tracked[x].state # "IN_PROGRESS"
        /\ makeRequestFails(c, x) \/ makeRequestSent(c, x)
  /\ UNCHANGED <<started, loopVars, in_block, cleanup_timer, dropped, told,
                 histVars>>

(* Mutant: unsubscribe leaves the callback of an active request in place.  *)
unsubscribeKeepsActive(c) ==
  /\ ~stuck
  /\ ticket[c] > 0
  /\ ticket' = [ticket EXCEPT ![c] = 0]
  /\ dropped' = dropped \cup {c}
  /\ UNCHANGED <<started, tracked, reqVars, rejVars, loopVars, in_block,
                 cleanup_timer, netVars, told, histVars>>

(* The user drops a subscription, LocalRequests::unsubscribe.  The network *)
(* is told through cancelLocalRequest, but Network::cancelRequest finds no *)
(* peer in active_requests_per_peer_, which nothing fills, and returns.    *)
unsubscribe(c) ==
  /\ ~stuck
  /\ ticket[c] # 0
  /\ ticket' = [ticket EXCEPT ![c] = 0]
  /\ dropped' = dropped \cup {c}
  /\ IF ticket[c] < 0
       THEN /\ rejected' = [rejected EXCEPT ![-ticket[c]] = Null]
            /\ UNCHANGED active
       ELSE /\ active' = [active EXCEPT ![ticket[c]] = Null]
            /\ UNCHANGED rejected
  /\ UNCHANGED <<started, tracked, counter, root_cid, accepted, rejected_id,
                 notifications, loopVars, in_block, cleanup_timer, netVars,
                 told, histVars>>

-----------------------------------------------------------------------------
(* Responses and blocks from the network.                                  *)

(* Mutant: RS_FULL_CONTENT completes a request.                            *)
afterFullContent(id, status) ==
  IF root_cid[id] # Null /\ status = RS_FULL_CONTENT
    THEN [tracked EXCEPT ![root_cid[id]].state = "COMPLETED"]
    ELSE tracked

isFailure(status) == isTerminal(status) /\ status # RS_FULL_CONTENT

(* The tracked state of the CID of request id after a response.            *)
afterResponse(id, status) ==
  LET x == root_cid[id] IN
    IF x # Null /\ tracked[x] # Untracked
         /\ isFailure(status)
      THEN [tracked EXCEPT ![x].state = "FAILED"]
      ELSE tracked

(* GraphsyncImpl::onResponse and LocalRequests::onResponse.  A context     *)
(* that closes may report its error while the scheduler's thread is inside *)
(* any callback.                                                           *)
onNetworkResponse(id, status) ==
  /\ idle \/ (status < 0 /\ ~stuck)
  /\ id \in sent
  /\ sent' = IF isTerminal(status) THEN sent \ {id} ELSE sent
  /\ IF started
       THEN /\ tracked' = afterResponse(id, status)
            /\ failed' = IF isFailure(status) THEN failed \cup {id} ELSE failed
            /\ IF active[id] # Null /\ isTerminal(status)
                 THEN /\ active' = [active EXCEPT ![id] = Null]
                      /\ told' = [told EXCEPT ![active[id]] = @ + 1]
                 ELSE UNCHANGED <<active, told>>
       ELSE UNCHANGED <<tracked, failed, active, told>>
  /\ UNCHANGED <<started, counter, root_cid, accepted, rejVars, loopVars,
                 in_block, cleanup_timer, stuck, ticket, dropped, delivered>>

(* onBlock up to the call of block_cb_: blocks of an unknown root are      *)
(* dropped.                                                                *)
onBlock(x) ==
  /\ idle
  /\ started
  /\ tracked[x] # Untracked
  /\ in_block' = [cid |-> x, mark |-> tracked[x].state = "IN_PROGRESS"]
  /\ delivered' = delivered \cup {x}
  /\ UNCHANGED <<started, tracked, reqVars, rejVars, loopVars, cleanup_timer,
                 netVars, userVars, failed>>

(* Mutant: the state is not looked at again after block_cb_.               *)
onBlockProcessedStale ==
  /\ in_block.cid # Null
  /\ ~stuck
  /\ LET x == in_block.cid IN
       tracked' = IF in_block.mark /\ tracked[x] # Untracked
                    THEN [tracked EXCEPT ![x].state = "COMPLETED"]
                    ELSE tracked
  /\ in_block' = [cid |-> Null, mark |-> FALSE]
  /\ UNCHANGED <<started, reqVars, rejVars, loopVars, cleanup_timer, netVars,
                 userVars, histVars>>

(* onBlock after block_cb_ has returned.                                   *)
onBlockProcessed ==
  /\ in_block.cid # Null
  /\ ~stuck
  /\ LET x == in_block.cid IN
       tracked' = IF in_block.mark /\ tracked[x].state = "IN_PROGRESS"
                    THEN [tracked EXCEPT ![x].state = "COMPLETED"]
                    ELSE tracked
  /\ in_block' = [cid |-> Null, mark |-> FALSE]
  /\ UNCHANGED <<started, reqVars, rejVars, loopVars, cleanup_timer, netVars,
                 userVars, histVars>>

-----------------------------------------------------------------------------
(* cancelAll: the map is swapped out and its callbacks are called one by   *)
(* one, each of which may run user code.                                   *)

(* Mutant: the map is copied and not swapped out.                          *)
cancelRejectedCopy(loop) ==
  /\ cancelling' = Held(rejected)
  /\ phase' = IF Held(rejected) = {} THEN "none" ELSE loop
  /\ UNCHANGED rejected

(* cancelAll(rejected_requests_), a loop of its own unless it is empty.    *)
cancelRejected(loop) ==
  /\ cancelling' = Held(rejected)
  /\ rejected' = [i \in Ids |-> Null]
  /\ phase' = IF Held(rejected) = {} THEN "none" ELSE loop

(* The task of asyncNotifyRejectedRequests.  Without requests to notify,   *)
(* the ids restart at once.                                                *)
notifyRejected ==
  /\ idle
  /\ notifications > 0
  /\ notifications' = notifications - 1
  /\ cancelRejected("notify")
  /\ rejected_id' = IF Held(rejected) = {} THEN 0 ELSE rejected_id
  /\ UNCHANGED <<started, tracked, reqVars, in_block, cleanup_timer, netVars,
                 userVars, histVars>>

(* Mutant: stop() forgets its requests without telling them.               *)
doStopSilently ==
  /\ idle
  /\ started
  /\ started' = FALSE
  /\ sent' \in {sent, {}}
  /\ tracked' = [x \in Cids |-> Untracked]
  /\ active' = [i \in Ids |-> Null]
  /\ UNCHANGED <<counter, root_cid, accepted, rejVars, loopVars, in_block,
                 cleanup_timer, stuck, userVars, histVars>>

(* GraphsyncImpl::doStop up to the first callback.  Network::stop closes   *)
(* the peers unless another instance uses the network; what they report is *)
(* ignored, started_ being false.                                          *)
doStop ==
  /\ idle
  /\ started
  /\ started' = FALSE
  /\ sent' \in {sent, {}}
  /\ tracked' = [x \in Cids |-> Untracked]
  /\ active' = [i \in Ids |-> Null]
  /\ \/ /\ Held(active) # {}
        /\ cancelling' = Held(active)
        /\ phase' = "stopActive"
        /\ UNCHANGED rejected
     \/ /\ Held(active) = {}
        /\ cancelRejected("stopRejected")
  /\ UNCHANGED <<counter, root_cid, accepted, rejected_id, notifications,
                 in_block, cleanup_timer, stuck, userVars, histVars>>

(* One callback of the loop gets RS_REJECTED_LOCALLY.                      *)
cancelOne(c) ==
  /\ ~stuck
  /\ c \in cancelling
  /\ cancelling' = cancelling \ {c}
  /\ told' = [told EXCEPT ![c] = @ + 1]
  /\ UNCHANGED <<started, tracked, reqVars, rejVars, phase, in_block,
                 cleanup_timer, netVars, ticket, dropped, histVars>>

(* The loop ends: stop() goes on with the rejected requests, a             *)
(* notification restarts the ids when no callback added a request.         *)
cancelAllDone ==
  /\ ~stuck
  /\ cancelling = {}
  /\ \/ /\ phase = "stopActive"
        /\ cancelRejected("stopRejected")
        /\ UNCHANGED rejected_id
     \/ /\ phase = "stopRejected"
        /\ phase' = "none"
        /\ UNCHANGED <<cancelling, rejected, rejected_id>>
     \/ /\ phase = "notify"
        /\ phase' = "none"
        /\ rejected_id' = IF Held(rejected) = {} THEN 0 ELSE rejected_id
        /\ UNCHANGED <<cancelling, rejected>>
  /\ UNCHANGED <<started, tracked, reqVars, notifications, in_block,
                 cleanup_timer, netVars, userVars, histVars>>

(* The timer that should run cleanupOldRequests.  The constructor captures *)
(* weak_from_this() before any shared_ptr owns the object, so the callback *)
(* finds nothing to lock: it neither cleans up nor schedules itself again. *)
onCleanupTimer ==
  /\ idle
  /\ cleanup_timer
  /\ cleanup_timer' = FALSE
  /\ UNCHANGED <<started, tracked, reqVars, rejVars, loopVars, in_block,
                 netVars, userVars, histVars>>

-----------------------------------------------------------------------------

FrontNext ==
  \/ start
  \/ \E c \in Calls : \E x \in Cids : makeRequest(c, x)
  \/ \E c \in Calls : unsubscribe(c) \/ cancelOne(c)
  \/ \E id \in Ids :
       \E status \in {RS_PARTIAL_RESPONSE, RS_FULL_CONTENT,
                      RS_PARTIAL_CONTENT, RS_REQUEST_FAILED,
                      RS_CONNECTION_ERROR} :
         onNetworkResponse(id, status)
  \/ \E x \in Cids : onBlock(x)
  \/ onBlockProcessed
  \/ notifyRejected
  \/ doStop
  \/ cancelAllDone
  \/ onCleanupTimer

FrontSpec == FrontInit /\ [][FrontNext]_frontVars

(* The scheduler runs its tasks in the order they were queued, whatever    *)
(* else the thread does in between, and callbacks return.                  *)
FrontFairness ==
  /\ SF_frontVars(notifyRejected)
  /\ WF_frontVars(onBlockProcessed)
  /\ WF_frontVars(cancelAllDone)
  /\ \A c \in Calls : WF_frontVars(cancelOne(c))

(* It runs due timers as well.                                             *)
FairFrontSpec ==
  FrontSpec /\ FrontFairness /\ SF_frontVars(onCleanupTimer)

-----------------------------------------------------------------------------
(* Properties.                                                             *)

(* Every variable keeps its type.                                          *)
FrontTypeOK ==
  /\ started \in BOOLEAN
  /\ tracked \in [Cids -> {Untracked} \cup [state : States,
                                          id : -MaxId .. MaxId]]
  /\ counter \in 0 .. MaxId
  /\ active \in [Ids -> Calls \cup {Null}]
  /\ root_cid \in [Ids -> Cids \cup {Null}]
  /\ rejected \in [Ids -> Calls \cup {Null}]
  /\ rejected_id \in 0 .. MaxId
  /\ notifications \in Nat
  /\ cancelling \subseteq Calls
  /\ phase \in {"none", "notify", "stopActive", "stopRejected"}
  /\ in_block \in [cid : Cids \cup {Null}, mark : BOOLEAN]
  /\ cleanup_timer \in BOOLEAN
  /\ stuck \in BOOLEAN
  /\ sent \subseteq Ids
  /\ ticket \in [Calls -> -MaxId .. MaxId]
  /\ accepted \subseteq Calls
  /\ dropped \subseteq Calls
  /\ told \in [Calls -> Nat]
  /\ failed \subseteq Ids
  /\ delivered \subseteq Cids

(* A progress callback gets at most one terminal status, although the      *)
(* network, stop() and the notification of rejected requests all deliver   *)
(* one and subscriptions come and go in between.                           *)
ToldAtMostOnce == \A c \in Calls : told[c] <= 1

(* A request that was accepted is held until its callback is told or its   *)
(* own subscription is dropped: no other subscription, stop() or restart   *)
(* makes it disappear.                                                     *)
AcceptedIsKept ==
  \A c \in accepted :
    told[c] = 1 \/ c \in dropped \cup cancelling \cup Held(active)

(* "Active requests will be cancelled and return RS_REJECTED_LOCALLY to    *)
(* their callbacks" (graphsync.hpp:98): when stop() has returned, every    *)
(* accepted request has been told or dropped, and none is tracked.         *)
StopTellsAll ==
  ~started /\ phase = "none"
    => /\ \A c \in accepted : told[c] = 1 \/ c \in dropped
       /\ \A x \in Cids : tracked[x] = Untracked

(* "Request is cancelled as soon as this subscription is cancelled"        *)
(* (graphsync.hpp:115): LocalRequests keeps no callback whose subscription *)
(* is gone, reused ids notwithstanding.                                    *)
DroppedIsReleased == dropped \cap (Held(active) \cup Held(rejected)) = {}

(* "Only mark as completed if we actually received blocks"                 *)
(* (graphsync_impl.cpp:161): COMPLETED is never reached by a status alone. *)
CompletedHasBlock ==
  \A x \in Cids : tracked[x].state = "COMPLETED" => x \in delivered

(* A rejected request waits for a task that will call it.                  *)
RejectedHasTask ==
  Held(rejected) # {} => notifications > 0 \/ phase = "stopActive"

(* A request that failed stays FAILED until another request for its CID    *)
(* takes the entry: neither a block whose callback was running when the    *)
(* failure came nor a late response of an older request revives it.        *)
FailedIsFailed ==
  \A x \in Cids :
    tracked[x].id \in failed => tracked[x].state = "FAILED"

(* Rejected requests do not stay in rejected_requests_, unless the thread  *)
(* blocks.                                                                 *)
RejectedDrains == Held(rejected) # {} ~> Held(rejected) = {} \/ stuck

(* "it will receive RS_REJECTED_LOCALLY status asynchronously"             *)
(* (local_requests.hpp:151): a rejected request leaves rejected_requests_  *)
(* to be told, or because its own subscription was dropped.                *)
RejectedIsTold ==
  [][Held(rejected) \ Held(rejected)'
       \subseteq cancelling' \cup dropped']_frontVars

(* "Maximum time a request can be stalled without activity before being    *)
(* considered failed" (graphsync_impl.hpp:111).                            *)
StalledRequestFails ==
  \A x \in Cids :
    tracked[x].state = "IN_PROGRESS"
      ~> tracked[x].state # "IN_PROGRESS" \/ stuck

=============================================================================
