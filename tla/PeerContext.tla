----------------------------- MODULE PeerContext -----------------------------
(***************************************************************************)
(* One graphsync peer: the PeerContext object                              *)
(* (impl/network/peer_context.cpp) from its creation by                    *)
(* Network::findContext until Network forgets it, with the parts of        *)
(* Network that drive it.                                                  *)
(*                                                                         *)
(* Every handler of PeerContext runs under its recursive state_mutex_, so  *)
(* a handler is one action.  Network::makeRequest takes that mutex twice,  *)
(* in needToConnect() and in enqueueRequest(), and anything may happen in  *)
(* between; so may anything between libp2p's asynchronous calls (newStream,*)
(* adjustWindowSize, write, timers) and their callbacks.                   *)
(*                                                                         *)
(* Messages are counted, one unit each; module MessageQueue looks inside   *)
(* the write queue.  Time is relative: ttl[s] and timer.left count down.   *)
(***************************************************************************)
EXTENDS StatusCodes, FiniteSets

CONSTANTS
  Streams,      \* libp2p streams that may be opened to or from the peer
  Requests,     \* ids of requests this node makes to the peer
  RemoteIds,    \* ids the peer uses for its own requests
  MaxPending,   \* kMaxPendingBytes, in messages
  StreamDelay,  \* kStreamCloseDelayMsec, in ticks
  PeerDelay,    \* kPeerCloseDelayMsec, in ticks
  None,         \* a null pointer, no stream
  Connecting,   \* an endpoint that has no queue yet
  Retrying      \* TRUE: progress callbacks issue a new request on failure

ASSUME StreamsAssumption ==
  /\ IsFiniteSet(Streams)
  /\ None \notin Streams
  /\ Connecting \notin Streams \cup {None}
ASSUME DelayAssumption ==
  /\ MaxPending \in Nat \ {0}
  /\ StreamDelay \in Nat \ {0}
  /\ PeerDelay \in Nat \ {0}
ASSUME RetryingAssumption == Retrying \in BOOLEAN

VARIABLES
  closed,        \* closed_
  streams,       \* keys of streams_
  endpoint,      \* requests_endpoint_: None, Connecting, or its stream
  buffered,      \* messages in the endpoint while it has no queue
  local_ids,     \* local_request_ids_
  remote,        \* remote_requests_streams_
  remote_ids,    \* StreamCtx::remote_request_ids
  queue,         \* messages in StreamCtx::queue, the one being written included
  ttl,           \* StreamCtx::expire_time - now, not below 0
  timer,         \* timer_: what it will call, and in how many ticks
  in_peers,      \* Network::peers_ holds this context
  calls,         \* how far each Network::makeRequest call has come
  reported,      \* history: terminal statuses given to the feedback
  serving,       \* remote requests whose task is queued or running
  dialing,       \* a host->newStream() result is outstanding
  configuring,   \* streams whose adjustWindowSize() result is outstanding
  used,          \* streams that have been opened
  write_closed,  \* streams with isClosedForWrite()
  remote_up      \* the peer is running and reachable

ctxVars == <<closed, streams, endpoint, buffered, local_ids, remote,
             remote_ids, queue, ttl, timer, in_peers, reported>>
envVars == <<dialing, configuring, used, write_closed, remote_up>>
vars == <<ctxVars, envVars, calls, serving>>

-----------------------------------------------------------------------------

NoTimer          == [kind |-> "none", left |-> 0]
CleanupIn(n)     == [kind |-> "cleanup", left |-> n]
PeerClosedTimer  == [kind |-> "peerClosed", left |-> 0]

Init ==
  /\ closed = FALSE
  /\ streams = {}
  /\ endpoint = None
  /\ buffered = 0
  /\ local_ids = {}
  /\ remote = [id \in RemoteIds |-> None]
  /\ remote_ids = [s \in Streams |-> {}]
  /\ queue = [s \in Streams |-> 0]
  /\ ttl = [s \in Streams |-> 0]
  /\ timer = NoTimer
  /\ in_peers = TRUE
  /\ calls = [r \in Requests |-> "idle"]
  /\ reported = [r \in Requests |-> 0]
  /\ serving = {}
  /\ dialing = FALSE
  /\ configuring = {}
  /\ used = {}
  /\ write_closed = {}
  /\ remote_up = TRUE

(* Mutant: getState() looks for streams the wrong way round.               *)
isConnectingInverted == ~closed /\ streams # {} /\ endpoint = Connecting

(* getState() = is_connecting *)
isConnecting == ~closed /\ streams = {} /\ endpoint = Connecting

(* Callbacks hold weak pointers: they find the context while peers_ or a   *)
(* running makeRequest call owns it.                                       *)
held == \E r \in Requests : calls[r] = "connected"
alive == in_peers \/ held

(* Mutant: the feedback is not called.                                     *)
ReportDropped(ids) == UNCHANGED reported

(* onResponse of the feedback, with a terminal status.                     *)
Report(ids) ==
  reported' = [r \in Requests |->
                 IF r \in ids THEN reported[r] + 1 ELSE reported[r]]

(* Forget the per-stream state of the streams S, StreamCtx destruction.    *)
DropStreamCtx(S) ==
  /\ remote_ids' = [s \in Streams |-> IF s \in S THEN {} ELSE remote_ids[s]]
  /\ queue' = [s \in Streams |-> IF s \in S THEN 0 ELSE queue[s]]
  /\ ttl' = [s \in Streams |-> IF s \in S THEN 0 ELSE ttl[s]]

(* close(status) of an open context.  Every stream goes; if there is an    *)
(* endpoint, its local requests are reported and it is reset.  kept is     *)
(* what enqueueRequest inserts into local_request_ids_ after a close() that*)
(* happened below it.                                                      *)
CloseContext(status, kept) ==
  /\ closed' = TRUE
  /\ streams' = {}
  /\ DropStreamCtx(Streams)
  /\ remote' = [id \in RemoteIds |-> None]
  /\ endpoint' = None
  /\ buffered' = 0
  /\ IF endpoint # None
       THEN Report(local_ids) /\ local_ids' = kept
       ELSE Report({}) /\ local_ids' = local_ids \cup kept
  /\ IF status = RS_REJECTED_LOCALLY
       THEN in_peers' = FALSE /\ timer' = IF held THEN timer ELSE NoTimer
       ELSE timer' = PeerClosedTimer /\ UNCHANGED in_peers

(* A reference to a closed context goes.  The last one takes the context   *)
(* with it (~PeerContext): streams that joined it after close(), its       *)
(* endpoint and its timer.  still: another reference is left.              *)
Release(still, t) ==
  IF still
    THEN /\ timer' = t
         /\ UNCHANGED <<streams, remote_ids, queue, ttl, endpoint, buffered>>
    ELSE /\ timer' = NoTimer
         /\ streams' = {}
         /\ DropStreamCtx(Streams)
         /\ endpoint' = None
         /\ buffered' = 0

(* Progress callbacks run inside closeLocalRequests(), before the endpoint *)
(* is reset.  A callback that makes a new request is served by the old     *)
(* endpoint: the id enters local_request_ids_.  R are those requests.      *)
Retries(R, failed) ==
  /\ R \subseteq {r \in Requests : calls[r] = "idle"}
  /\ R # {} => Retrying /\ failed # {}
  /\ calls' = [r \in Requests |-> IF r \in R THEN "done" ELSE calls[r]]

(* Mutant: closeStream leaves requests_endpoint_ alone.                    *)
endpointNeverOn(S) == FALSE

(* The requests endpoint writes to one of the streams S.                   *)
endpointOn(S) == endpoint \in S

(* Mutant: closeStream leaves remote_requests_streams_ alone.              *)
noIds(S) == {}

(* The remote requests made on the streams S.                              *)
idsOf(S) == UNION {remote_ids[s] : s \in S}

(* closeStream(s, status) for each s in S, with an error status.  The last *)
(* stream of an open context takes the context with it.  t is the timer    *)
(* the caller leaves behind when the context survives.                     *)
CloseStreams(S, status, t) ==
  LET last == ~closed /\ streams \ S = {} /\ isError(status)
      failed == IF endpointOn(S) \/ (last /\ endpoint # None)
                  THEN local_ids ELSE {}
  IN /\ streams' = streams \ S
     /\ DropStreamCtx(S)
     /\ remote' = [id \in RemoteIds |->
                     IF last \/ id \in idsOf(S) THEN None ELSE remote[id]]
     /\ closed' = (closed \/ last)
     /\ Report(failed)
     /\ endpoint' = IF endpointOn(S) \/ last THEN None ELSE endpoint
     /\ buffered' = IF endpointOn(S) \/ last THEN 0 ELSE buffered
     /\ \E R \in SUBSET Requests :
          /\ Retries(R, IF endpointOn(S) THEN failed ELSE {})
          /\ local_ids' = (local_ids \ failed) \cup R
     /\ timer' = IF last THEN PeerClosedTimer ELSE t
     /\ UNCHANGED in_peers

(* Mutant: resetPeerTimeout cancels the timer it should re-schedule.       *)
ResetTimerCancels == IF closed THEN timer ELSE NoTimer

(* Activity: resetPeerTimeout() when the context is open and a timer is    *)
(* scheduled, and shiftExpireTime() of the streams S.                      *)
ResetTimer ==
  IF ~closed /\ timer.kind # "none" THEN [timer EXCEPT !.left = PeerDelay]
                                    ELSE timer
Shift(S) ==
  ttl' = [s \in Streams |-> IF s \in S THEN StreamDelay ELSE ttl[s]]

-----------------------------------------------------------------------------
(* Network::makeRequest, first half: canSendRequest() found the context    *)
(* open at some earlier moment; needToConnect() and tryConnect().          *)
needToConnect(r) ==
  /\ calls[r] = "idle"
  /\ in_peers
  /\ calls' = [calls EXCEPT ![r] = "connected"]
  /\ \/ /\ endpoint # None
        /\ UNCHANGED <<endpoint, buffered, dialing>>
     \/ /\ endpoint = None
        /\ streams = {}
        /\ endpoint' = Connecting
        /\ buffered' = 0
        /\ dialing' = TRUE
     \/ /\ endpoint = None
        /\ \E s \in streams : endpoint' = s
        /\ buffered' = 0
        /\ UNCHANGED dialing
  /\ UNCHANGED <<closed, streams, local_ids, remote, remote_ids, queue, ttl,
                 timer, in_peers, reported, serving, configuring, used,
                 write_closed, remote_up>>

(* OutboundEndpoint::enqueue refuses what does not fit.                    *)
requestOverflows ==
  IF endpoint = Connecting THEN buffered + 1 > MaxPending
                           ELSE queue[endpoint] > MaxPending

(* MessageQueue::beginWrite on an idle queue of a broken stream reports    *)
(* the error synchronously.                                                *)
writeFailsNow(s) == queue[s] = 0 /\ s \in write_closed

(* enqueueRequest() of a closed context reports the request at once.       *)
EnqueueRefused(r) ==
  /\ closed
  /\ Report({r})
  /\ Release(in_peers \/ \E q \in Requests \ {r} : calls[q] = "connected",
             timer)
  /\ UNCHANGED <<closed, local_ids, remote, in_peers>>

(* It brings an open context down when there is no endpoint, when the      *)
(* endpoint is full, and when the write fails at once; in the last case    *)
(* the endpoint still reports success and the id is inserted.              *)
EnqueueCloses(r) ==
  /\ ~closed
  /\ \/ /\ endpoint = None
        /\ CloseContext(RS_INTERNAL_ERROR, {})
     \/ /\ endpoint # None
        /\ requestOverflows
        /\ CloseContext(RS_SLOW_STREAM, {})
     \/ /\ endpoint \in Streams
        /\ ~requestOverflows
        /\ writeFailsNow(endpoint)
        /\ CloseContext(RS_CONNECTION_ERROR, {r})

EnqueueBuffered(r) ==
  /\ ~closed
  /\ endpoint = Connecting
  /\ ~requestOverflows
  /\ buffered' = buffered + 1
  /\ local_ids' = local_ids \cup {r}
  /\ UNCHANGED <<closed, streams, endpoint, remote, remote_ids, queue, ttl,
                 timer, in_peers, reported>>

EnqueueQueued(r) ==
  /\ ~closed
  /\ endpoint \in Streams
  /\ ~requestOverflows
  /\ ~writeFailsNow(endpoint)
  /\ queue' = [queue EXCEPT ![endpoint] = @ + 1]
  /\ local_ids' = local_ids \cup {r}
  /\ UNCHANGED <<closed, streams, endpoint, buffered, remote, remote_ids, ttl,
                 timer, in_peers, reported>>

(* Network::makeRequest, second half.                                      *)
enqueueRequest(r) ==
  /\ calls[r] = "connected"
  /\ calls' = [calls EXCEPT ![r] = "done"]
  /\ \/ EnqueueRefused(r)
     \/ EnqueueCloses(r)
     \/ EnqueueBuffered(r)
     \/ EnqueueQueued(r)
  /\ UNCHANGED <<envVars, serving>>

-----------------------------------------------------------------------------
(* Streams come up.                                                        *)

(* onStreamConnected with a stream: a closed context lets it go, an open   *)
(* one adjusts its window first (onNewStream).                             *)
onStreamConnected(s) ==
  /\ dialing
  /\ alive
  /\ remote_up
  /\ s \notin used
  /\ dialing' = FALSE
  /\ IF closed THEN UNCHANGED <<configuring, used>>
               ELSE /\ configuring' = configuring \cup {s}
                    /\ used' = used \cup {s}
  /\ UNCHANGED <<ctxVars, calls, serving, write_closed, remote_up>>

(* onStreamConnected with an error, the 10 s dial timeout included.        *)
onConnectError ==
  /\ dialing
  /\ alive
  /\ dialing' = FALSE
  /\ IF isConnecting THEN CloseContext(RS_CANNOT_CONNECT, {})
                     ELSE UNCHANGED ctxVars
  /\ UNCHANGED <<calls, serving, configuring, used, write_closed, remote_up>>

(* Network::onStreamAccepted; a closed context resets the stream.          *)
onStreamAccepted(s) ==
  /\ in_peers
  /\ ~closed
  /\ remote_up
  /\ s \notin used
  /\ configuring' = configuring \cup {s}
  /\ used' = used \cup {s}
  /\ UNCHANGED <<ctxVars, calls, serving, dialing, write_closed, remote_up>>

(* The window is adjusted.  closed_ is not looked at: the stream joins     *)
(* streams_ in any case, and the first one takes over timer_.              *)
finishStreamConfig(s) ==
  /\ s \in configuring
  /\ alive
  /\ configuring' = configuring \ {s}
  /\ IF isConnecting
       THEN /\ endpoint' = s
            /\ queue' = [queue EXCEPT ![s] = buffered]
            /\ buffered' = 0
       ELSE UNCHANGED <<endpoint, queue, buffered>>
  /\ timer' = IF streams = {} THEN CleanupIn(PeerDelay) ELSE ResetTimer
  /\ Shift({s})
  /\ streams' = streams \cup {s}
  /\ UNCHANGED <<closed, local_ids, remote, remote_ids, in_peers, reported,
                 calls, serving, dialing, used, write_closed, remote_up>>

(* adjustWindowSize failed.                                                *)
onAdjustError(s) ==
  /\ s \in configuring
  /\ alive
  /\ configuring' = configuring \ {s}
  /\ IF isConnecting THEN CloseContext(RS_CANNOT_CONNECT, {})
                     ELSE UNCHANGED ctxVars
  /\ UNCHANGED <<calls, serving, dialing, used, write_closed, remote_up>>

-----------------------------------------------------------------------------
(* Messages come in: onReaderEvent.  A message that carries several        *)
(* entries is the sequence of its entries.                                 *)

reading(s) == s \in streams /\ ~closed /\ remote_up

(* The queue of stream t changes its length and nothing else happens but   *)
(* activity: timer_ becomes tm, the expire times of S are shifted.         *)
SetQueue(t, n, S, tm) ==
  /\ queue' = [queue EXCEPT ![t] = n]
  /\ timer' = tm
  /\ Shift(S)
  /\ UNCHANGED <<closed, streams, endpoint, buffered, local_ids, remote,
                 remote_ids, in_peers, reported>>

(* MessageQueue::enqueue of one response on stream t, with the check of    *)
(* InboundEndpoint::sendResponse, which does not count the new message.    *)
SendResponse(t, S, tm) ==
  \/ /\ queue[t] > MaxPending + 1
     /\ CloseContext(RS_SLOW_STREAM, {})
  \/ /\ writeFailsNow(t)
     /\ CloseContext(RS_CONNECTION_ERROR, {})
  \/ /\ queue[t] <= MaxPending + 1
     /\ ~writeFailsNow(t)
     /\ SetQueue(t, queue[t] + 1, S, tm)

(* A new request of the peer.  An id that is in use is rejected, through   *)
(* the stream it was first made on.                                        *)
onRequest(s, id) ==
  /\ reading(s)
  /\ \/ /\ remote[id] # None
        /\ SendResponse(remote[id], {s}, ResetTimer)
        /\ UNCHANGED serving
     \/ /\ remote[id] = None
        /\ remote' = [remote EXCEPT ![id] = s]
        /\ remote_ids' = [remote_ids EXCEPT ![s] = @ \cup {id}]
        /\ serving' = serving \cup {id}
        /\ timer' = ResetTimer
        /\ Shift({s})
        /\ UNCHANGED <<closed, streams, endpoint, buffered, local_ids, queue,
                       in_peers, reported>>
  /\ UNCHANGED <<calls, envVars>>

(* The peer cancels request id, on whatever stream it likes.               *)
onCancel(s, id) ==
  /\ reading(s)
  /\ remote_ids' = [remote_ids EXCEPT ![s] = @ \ {id}]
  /\ remote' = [remote EXCEPT ![id] = None]
  /\ timer' = ResetTimer
  /\ Shift({s})
  /\ UNCHANGED <<closed, streams, endpoint, buffered, local_ids, queue,
                 in_peers, reported, calls, serving, envVars>>

(* complete_request_list: the requests of this stream are replaced.        *)
onCompleteRequestList(s) ==
  /\ reading(s)
  /\ remote' = [id \in RemoteIds |->
                  IF id \in remote_ids[s] THEN None ELSE remote[id]]
  /\ remote_ids' = [remote_ids EXCEPT ![s] = {}]
  /\ timer' = ResetTimer
  /\ Shift({s})
  /\ UNCHANGED <<closed, streams, endpoint, buffered, local_ids, queue,
                 in_peers, reported, calls, serving, envVars>>

(* Mutant: a request stays tracked after its terminal response.            *)
trackedAfterEnd(r) == local_ids

trackedAfter(r) == local_ids \ {r}

(* A response.  Unexpected ids are ignored; a terminal status ends the     *)
(* request.                                                                *)
onResponse(s, r, status) ==
  /\ reading(s)
  /\ IF r \in local_ids /\ isTerminal(status)
       THEN local_ids' = trackedAfter(r) /\ Report({r})
       ELSE UNCHANGED <<local_ids, reported>>
  /\ timer' = ResetTimer
  /\ Shift({s})
  /\ UNCHANGED <<closed, streams, endpoint, buffered, remote, remote_ids,
                 queue, in_peers, calls, serving, envVars>>

onReadError(s) ==
  /\ s \in streams
  /\ ~closed
  /\ remote_up
  /\ CloseStreams({s}, RS_CONNECTION_ERROR, timer)
  /\ UNCHANGED <<serving, envVars>>

-----------------------------------------------------------------------------
(* Write completions: MessageQueue::onMessageWritten, onWriterEvent.       *)

(* Mutant: a completion is applied to a queue that writes nothing.         *)
onWrittenUnguarded(s) ==
  /\ s \in streams
  /\ ~closed
  /\ remote_up
  /\ SetQueue(s, queue[s] - 1, {s}, ResetTimer)
  /\ UNCHANGED <<calls, serving, envVars>>

onWritten(s) ==
  /\ s \in streams
  /\ ~closed
  /\ remote_up
  /\ queue[s] > 0
  /\ \/ /\ queue[s] > 1
        /\ s \in write_closed
        /\ CloseContext(RS_CONNECTION_ERROR, {})
     \/ /\ queue[s] = 1 \/ s \notin write_closed
        /\ SetQueue(s, queue[s] - 1, {s}, ResetTimer)
  /\ UNCHANGED <<calls, serving, envVars>>

onWriteError(s) ==
  /\ s \in streams
  /\ ~closed
  /\ queue[s] > 0
  /\ CloseContext(RS_CONNECTION_ERROR, {})
  /\ UNCHANGED <<calls, serving, envVars>>

-----------------------------------------------------------------------------
(* Tasks that serve remote requests call back from the thread pool.        *)

keepAlive(id) ==
  /\ id \in serving
  /\ in_peers
  /\ timer' = ResetTimer
  /\ UNCHANGED <<closed, streams, endpoint, buffered, local_ids, remote,
                 remote_ids, queue, ttl, in_peers, reported, calls, serving,
                 envVars>>

(* addBlockToResponse: refused when the response being built and the       *)
(* pending messages exceed the limit (close), when the request is gone     *)
(* (the task gives up), otherwise stored or sent ahead as a partial        *)
(* response.                                                               *)
addBlockToResponse(id) ==
  /\ id \in serving
  /\ in_peers
  /\ \/ /\ remote[id] = None
        /\ serving' = serving \ {id}
        /\ UNCHANGED ctxVars
     \/ /\ remote[id] # None
        /\ queue[remote[id]] > MaxPending
        /\ CloseContext(RS_SLOW_STREAM, {})
        /\ serving' = serving \ {id}
     \/ /\ remote[id] # None
        /\ queue[remote[id]] <= MaxPending
        /\ SendResponse(remote[id], {}, timer)
        /\ UNCHANGED serving
  /\ UNCHANGED <<calls, envVars>>

sendResponse(id) ==
  /\ id \in serving
  /\ serving' = serving \ {id}
  /\ \/ /\ in_peers
        /\ remote[id] # None
        /\ SendResponse(remote[id], {}, timer)
     \/ UNCHANGED ctxVars   \* no context, no sink, or the task failed
  /\ UNCHANGED <<calls, envVars>>

-----------------------------------------------------------------------------
(* Time.                                                                   *)

Dec(n) == IF n > 0 THEN n - 1 ELSE 0

Tick ==
  /\ timer.left > 0 \/ \E s \in Streams : ttl[s] > 0
  /\ ttl' = [s \in Streams |-> Dec(ttl[s])]
  /\ timer' = [timer EXCEPT !.left = Dec(@)]
  /\ UNCHANGED <<closed, streams, endpoint, buffered, local_ids, remote,
                 remote_ids, queue, in_peers, reported, calls, serving,
                 envVars>>

(* Mutant: expire times are compared the wrong way round.                  *)
expiredNever == {s \in streams : queue[s] = 0 /\ ttl[s] > StreamDelay}

(* onStreamCleanupTimer.  Streams that are being written are left alone;   *)
(* a queue never holds messages without writing (MessageQueue,             *)
(* NoStrandedBuffer), so the window-exhaustion branch has no case of its   *)
(* own.                                                                    *)
expired == {s \in streams : queue[s] = 0 /\ ttl[s] = 0}

(* The latest expire time of the other idle streams, as a singleton.       *)
nextCheck ==
  LET waiting == {s \in streams \ expired : queue[s] = 0}
  IN IF waiting = {}
       THEN {PeerDelay}
       ELSE {ttl[s] : s \in {u \in waiting :
                               \A v \in waiting : ttl[v] <= ttl[u]}}

onStreamCleanupTimer ==
  /\ timer.kind = "cleanup"
  /\ timer.left = 0
  /\ alive
  /\ \E n \in nextCheck :
       CloseStreams(expired, RS_TIMEOUT,
                    IF closed THEN NoTimer ELSE CleanupIn(n))
  /\ UNCHANGED <<serving, envVars>>

(* The timer set by close(): Network::peerClosed.                          *)
onPeerClosedTimer ==
  /\ timer.kind = "peerClosed"
  /\ timer.left = 0
  /\ alive
  /\ in_peers' = FALSE
  /\ Release(held, NoTimer)
  /\ UNCHANGED <<closed, local_ids, remote, reported, calls, serving, envVars>>

-----------------------------------------------------------------------------
(* Network: a lookup drops a closed context; stop() closes every peer.     *)

findContext ==
  /\ in_peers
  /\ closed
  /\ in_peers' = FALSE
  /\ Release(held, timer)
  /\ UNCHANGED <<closed, local_ids, remote, reported, calls, serving, envVars>>

closeAllPeers ==
  /\ in_peers
  /\ IF closed THEN /\ in_peers' = FALSE
                    /\ Release(held, timer)
                    /\ UNCHANGED <<closed, local_ids, remote, reported>>
               ELSE CloseContext(RS_REJECTED_LOCALLY, {})
  /\ UNCHANGED <<calls, serving, envVars>>

(* Environment: a stream is closed for write by the remote side or the     *)
(* connection; the peer disappears without a word.                         *)
StreamBreaks(s) ==
  /\ s \in streams \ write_closed
  /\ remote_up
  /\ write_closed' = write_closed \cup {s}
  /\ UNCHANGED <<ctxVars, calls, serving, dialing, configuring, used,
                 remote_up>>

RemoteCrash ==
  /\ remote_up
  /\ remote_up' = FALSE
  /\ UNCHANGED <<ctxVars, calls, serving, dialing, configuring, used,
                 write_closed>>

-----------------------------------------------------------------------------

StreamEvent(s) ==
  \/ onStreamConnected(s)
  \/ onStreamAccepted(s)
  \/ finishStreamConfig(s)
  \/ onAdjustError(s)
  \/ onCompleteRequestList(s)
  \/ onReadError(s)
  \/ onWritten(s)
  \/ onWriteError(s)
  \/ StreamBreaks(s)
  \/ \E id \in RemoteIds : onRequest(s, id) \/ onCancel(s, id)
  \/ \E r \in Requests :
       \E status \in {RS_PARTIAL_RESPONSE, RS_FULL_CONTENT} :
         onResponse(s, r, status)

Next ==
  \/ \E r \in Requests : needToConnect(r) \/ enqueueRequest(r)
  \/ \E s \in Streams : StreamEvent(s)
  \/ \E id \in RemoteIds :
       keepAlive(id) \/ addBlockToResponse(id) \/ sendResponse(id)
  \/ onConnectError
  \/ Tick
  \/ onStreamCleanupTimer
  \/ onPeerClosedTimer
  \/ findContext
  \/ closeAllPeers
  \/ RemoteCrash

Spec == Init /\ [][Next]_vars

(* The scheduler runs due timers, libp2p answers every dial and window     *)
(* adjustment, a thread inside makeRequest goes on, and pool tasks finish. *)
Fairness ==
  /\ WF_vars(Tick)
  /\ WF_vars(onStreamCleanupTimer)
  /\ WF_vars(onPeerClosedTimer)
  /\ WF_vars(onConnectError \/ \E s \in Streams : onStreamConnected(s))
  /\ \A s \in Streams : WF_vars(finishStreamConfig(s) \/ onAdjustError(s))
  /\ \A r \in Requests : WF_vars(enqueueRequest(r))
  /\ \A id \in RemoteIds : WF_vars(sendResponse(id))

FairSpec == Spec /\ Fairness

-----------------------------------------------------------------------------
(* Properties.                                                             *)

Timers == [kind : {"none", "cleanup", "peerClosed"}, left : Nat]

CtxTypeOK ==
  /\ closed \in BOOLEAN
  /\ streams \subseteq Streams
  /\ endpoint \in Streams \cup {None, Connecting}
  /\ buffered \in Nat
  /\ local_ids \subseteq Requests
  /\ remote \in [RemoteIds -> Streams \cup {None}]
  /\ remote_ids \in [Streams -> SUBSET RemoteIds]
  /\ queue \in [Streams -> Nat]
  /\ ttl \in [Streams -> Nat]
  /\ timer \in Timers
  /\ in_peers \in BOOLEAN
  /\ reported \in [Requests -> Nat]

EnvTypeOK ==
  /\ dialing \in BOOLEAN
  /\ configuring \subseteq Streams
  /\ used \subseteq Streams
  /\ write_closed \subseteq Streams
  /\ remote_up \in BOOLEAN

(* Every variable keeps its type.                                          *)
TypeOK ==
  /\ CtxTypeOK
  /\ EnvTypeOK
  /\ calls \in [Requests -> {"idle", "connected", "done"}]
  /\ serving \subseteq RemoteIds

(* The requests endpoint, when it has a queue, writes to a stream the      *)
(* context still holds: closeStream resets it together with its stream.    *)
EndpointOnLiveStream == endpoint \in Streams => endpoint \in streams

(* Requests buffered for a connection always have something under way that *)
(* will deliver or fail them: a dial or a window adjustment is outstanding.*)
ConnectingHasCause ==
  ~closed /\ endpoint = Connecting
    => streams = {} /\ (dialing \/ configuring # {})

(* findResponseSink never finds a remote request whose stream is gone      *)
(* ("cannot find stream"): whatever mix of cancels, id reuse and closing   *)
(* streams, the request map and the per-stream id sets agree that way      *)
(* round.                                                                  *)
ResponseSinkLive ==
  \A id \in RemoteIds :
    remote[id] # None => /\ remote[id] \in streams
                         /\ id \in remote_ids[remote[id]]

(* The progress callback of a request gets at most one terminal status,    *)
(* although a response, a stream error, a timeout and close() all report.  *)
ReportedAtMostOnce == \A r \in Requests : reported[r] <= 1

(* While the context is open every request that makeRequest handed over    *)
(* is still tracked or has been reported.                                  *)
OpenContextTracksAll ==
  ~closed => \A r \in Requests :
               calls[r] = "done" => r \in local_ids \/ reported[r] = 1

unreported == {r \in Requests : calls[r] = "done" /\ reported[r] = 0}

(* Closing reports all tracked requests: the only one that can be missed   *)
(* is the one whose own enqueueRequest brought the context down.           *)
CloseLosesAtMostOne == closed => \A r1, r2 \in unreported : r1 = r2

(* An open context that holds a stream has its cleanup timer scheduled:    *)
(* resetPeerTimeout and onStreamCleanupTimer only re-schedule.             *)
CleanupScheduled == ~closed /\ streams # {} => timer.kind = "cleanup"

(* What the invariants above rest on.                                      *)

(* A closed context has no remote request to answer.                       *)
ClosedServesNobody == closed => \A id \in RemoteIds : remote[id] = None

(* Only close() sets the timer that calls peerClosed.                      *)
PeerClosedIsClosed == timer.kind = "peerClosed" => closed

StructInv ==
  /\ EndpointOnLiveStream
  /\ ConnectingHasCause
  /\ ResponseSinkLive
  /\ ClosedServesNobody
  /\ CleanupScheduled
  /\ PeerClosedIsClosed

(* Tracked requests have been handed over and not been reported; requests  *)
(* that have not been handed over have not been reported.                  *)
TrackedUnreported ==
  \A r \in Requests :
    /\ r \in local_ids => calls[r] = "done" /\ reported[r] = 0
    /\ calls[r] # "done" => reported[r] = 0

(* Without retries from callbacks, an open context without an endpoint     *)
(* tracks no request: close() may skip closeLocalRequests().               *)
NoEndpointNoIds == ~Retrying /\ ~closed /\ endpoint = None => local_ids = {}

AccountingInv ==
  /\ TrackedUnreported
  /\ ReportedAtMostOnce
  /\ OpenContextTracksAll
  /\ NoEndpointNoIds
  /\ ~Retrying => CloseLosesAtMostOne

(* After the peer has disappeared the context ends up closed or without    *)
(* streams, unless a write that libp2p never completes keeps it busy.      *)
DeadPeerDetected ==
  ~remote_up ~> [](closed \/ streams = {} \/ \E s \in streams : queue[s] > 0)

(* "Enqueues new request to the peer. Errors are reported asynchronously"  *)
(* (peer_context.hpp:81): when the context is closed every request that    *)
(* was handed to it has been told.                                         *)
ErrorsReported == closed => unreported = {}

(* "Stream which is inactive during some cleanup period is closed"         *)
(* (peer_context.hpp:140): no stream of an open context that Network knows *)
(* stays idle for ever.                                                    *)
IdleStreamClosed ==
  \A s \in Streams :
    []<>(\/ closed \/ ~in_peers
         \/ s \notin streams \/ ttl[s] > 0 \/ queue[s] > 0)

(* "otherwise feedback (peerClosed) is sent asynchronously"                *)
(* (peer_context.hpp:115): a closed context does not stay in peers_.       *)
ClosedPeerForgotten == closed ~> ~in_peers

=============================================================================
