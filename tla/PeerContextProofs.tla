-------------------------- MODULE PeerContextProofs --------------------------
(***************************************************************************)
(* Proofs about PeerContext for any number of streams and requests, any    *)
(* buffer limit and any delays.                                            *)
(***************************************************************************)
EXTENDS PeerContext, TLAPS

-----------------------------------------------------------------------------
(* Type correctness.                                                       *)

(* Destroying stream contexts keeps the per-stream functions well typed.   *)
LEMMA DropFacts ==
  ASSUME CtxTypeOK, NEW S, DropStreamCtx(S)
  PROVE  /\ remote_ids' \in [Streams -> SUBSET RemoteIds]
         /\ queue' \in [Streams -> Nat]
         /\ ttl' \in [Streams -> Nat]
BY DEF CtxTypeOK, DropStreamCtx

(* close() leaves a well-typed context behind.                             *)
LEMMA CloseContextType ==
  ASSUME CtxTypeOK, NEW status, NEW kept \in SUBSET Requests,
         CloseContext(status, kept)
  PROVE  CtxTypeOK'
<1>1. /\ remote_ids' \in [Streams -> SUBSET RemoteIds]
      /\ queue' \in [Streams -> Nat]
      /\ ttl' \in [Streams -> Nat]
  BY DropFacts DEF CloseContext
<1>2. reported' \in [Requests -> Nat]
  BY DEF CloseContext, Report, CtxTypeOK
<1>3. timer' \in Timers
  BY DEF CloseContext, CtxTypeOK, Timers, PeerClosedTimer, NoTimer
<1> QED
  BY <1>1, <1>2, <1>3 DEF CloseContext, CtxTypeOK

(* So does the loss of a reference, the last one included.                 *)
LEMMA ReleaseType ==
  ASSUME CtxTypeOK, NEW still, NEW t \in Timers, Release(still, t),
         closed' \in BOOLEAN, in_peers' \in BOOLEAN,
         local_ids' \subseteq Requests, UNCHANGED remote,
         reported' \in [Requests -> Nat]
  PROVE  CtxTypeOK'
<1>1. /\ remote_ids' \in [Streams -> SUBSET RemoteIds]
      /\ queue' \in [Streams -> Nat]
      /\ ttl' \in [Streams -> Nat]
  BY DropFacts DEF Release, CtxTypeOK
<1>2. timer' \in Timers
  BY DEF Release, Timers, NoTimer
<1> QED
  BY <1>1, <1>2 DEF Release, CtxTypeOK

(* So does closeStream(), callbacks that retry included.                   *)
LEMMA CloseStreamsType ==
  ASSUME CtxTypeOK, calls \in [Requests -> {"idle", "connected", "done"}],
         NEW S \in SUBSET streams, NEW status, NEW t \in Timers,
         CloseStreams(S, status, t)
  PROVE  /\ CtxTypeOK'
         /\ calls' \in [Requests -> {"idle", "connected", "done"}]
<1>1. /\ remote_ids' \in [Streams -> SUBSET RemoteIds]
      /\ queue' \in [Streams -> Nat]
      /\ ttl' \in [Streams -> Nat]
  BY DropFacts DEF CloseStreams
<1>2. reported' \in [Requests -> Nat]
  BY DEF CloseStreams, Report, CtxTypeOK
<1>3. timer' \in Timers
  BY DEF CloseStreams, Timers, PeerClosedTimer
<1>4. /\ local_ids' \subseteq Requests
      /\ calls' \in [Requests -> {"idle", "connected", "done"}]
  BY DEF CloseStreams, Retries, CtxTypeOK
<1>5. remote' \in [RemoteIds -> Streams \cup {None}]
  BY DEF CloseStreams, CtxTypeOK
<1>6. closed' \in BOOLEAN /\ in_peers' \in BOOLEAN
  BY DEF CloseStreams, CtxTypeOK, isError
<1> QED
  BY <1>1, <1>2, <1>3, <1>4, <1>5, <1>6 DEF CloseStreams, CtxTypeOK

(* Activity keeps the timer and the expire times well typed.               *)
LEMMA ActivityType ==
  ASSUME CtxTypeOK
  PROVE  /\ ResetTimer \in Timers
         /\ \A S : Shift(S) => ttl' \in [Streams -> Nat]
BY DelayAssumption DEF CtxTypeOK, ResetTimer, Timers, Shift

(* So does changing the length of a write queue.                           *)
LEMMA SetQueueType ==
  ASSUME CtxTypeOK, NEW t \in Streams, NEW n \in Nat, NEW S, NEW tm \in Timers,
         SetQueue(t, n, S, tm)
  PROVE  CtxTypeOK'
BY ActivityType DEF SetQueue, CtxTypeOK

(* Queueing one response keeps the context well typed.                     *)
LEMMA SendResponseType ==
  ASSUME CtxTypeOK, NEW t \in Streams, NEW S, NEW tm \in Timers,
         SendResponse(t, S, tm)
  PROVE  CtxTypeOK'
<1>1. queue[t] + 1 \in Nat
  BY DEF CtxTypeOK
<1> QED
  BY <1>1, CloseContextType, SetQueueType DEF SendResponse

(* The next check of the cleanup timer is a whole number of ticks away.    *)
LEMMA NextCheckType ==
  ASSUME CtxTypeOK, NEW n \in nextCheck
  PROVE  CleanupIn(n) \in Timers /\ NoTimer \in Timers
BY DelayAssumption DEF CtxTypeOK, nextCheck, CleanupIn, NoTimer, Timers

(* The initial state is well typed.                                        *)
LEMMA InitType == Init => TypeOK
<1> SUFFICES ASSUME Init PROVE TypeOK
  OBVIOUS
<1>1. timer \in Timers
  BY DEF Init, NoTimer, Timers
<1>2. CtxTypeOK
  BY <1>1 DEF Init, CtxTypeOK
<1>3. EnvTypeOK
  BY DEF Init, EnvTypeOK
<1>4. calls \in [Requests -> {"idle", "connected", "done"}]
  BY DEF Init
<1> QED
  BY <1>2, <1>3, <1>4 DEF Init, TypeOK

(* Every step keeps the types.                                             *)
LEMMA StepType == TypeOK /\ [Next]_vars => TypeOK'
<1> SUFFICES ASSUME TypeOK, [Next]_vars
             PROVE  TypeOK'
  OBVIOUS
<1> USE DEF TypeOK, EnvTypeOK, envVars, ctxVars
<1>1. ASSUME NEW r \in Requests, needToConnect(r)
      PROVE  TypeOK'
  <2>1. calls' \in [Requests -> {"idle", "connected", "done"}]
    BY <1>1 DEF needToConnect
  <2>2. endpoint' \in Streams \cup {None, Connecting} /\ buffered' \in Nat
    BY <1>1 DEF needToConnect, CtxTypeOK
  <2>3. dialing' \in BOOLEAN
    BY <1>1 DEF needToConnect
  <2> QED
    BY <1>1, <2>1, <2>2, <2>3 DEF needToConnect, CtxTypeOK
<1>2. ASSUME NEW r \in Requests, enqueueRequest(r)
      PROVE  TypeOK'
  <2>1. calls' \in [Requests -> {"idle", "connected", "done"}]
    BY <1>2 DEF enqueueRequest
  <2>2. CASE EnqueueRefused(r)
    <3>1. CtxTypeOK'
      BY <2>2, ReleaseType DEF EnqueueRefused, CtxTypeOK, Report
    <3> QED
      BY <1>2, <2>1, <3>1 DEF enqueueRequest
  <2>3. CASE EnqueueCloses(r)
    <3>1. CtxTypeOK'
      BY <2>3, CloseContextType DEF EnqueueCloses
    <3> QED
      BY <1>2, <2>1, <3>1 DEF enqueueRequest
  <2>4. CASE EnqueueBuffered(r)
    BY <1>2, <2>1, <2>4 DEF enqueueRequest, EnqueueBuffered, CtxTypeOK
  <2>5. CASE EnqueueQueued(r)
    BY <1>2, <2>1, <2>5 DEF enqueueRequest, EnqueueQueued, CtxTypeOK
  <2> QED
    BY <1>2, <2>2, <2>3, <2>4, <2>5 DEF enqueueRequest
<1>3. ASSUME NEW s \in Streams, StreamEvent(s)
      PROVE  TypeOK'
  <2>1. CASE onStreamConnected(s)
    BY <2>1 DEF onStreamConnected, CtxTypeOK
  <2>2. CASE onStreamAccepted(s)
    BY <2>2 DEF onStreamAccepted, CtxTypeOK
  <2>3. CASE finishStreamConfig(s)
    <3>1. timer' \in Timers
      BY <2>3, ActivityType, DelayAssumption
      DEF finishStreamConfig, CleanupIn, Timers
    <3>2. ttl' \in [Streams -> Nat]
      BY <2>3, ActivityType DEF finishStreamConfig
    <3> QED
      BY <2>3, <3>1, <3>2 DEF finishStreamConfig, CtxTypeOK
  <2>4. CASE onAdjustError(s)
    <3>1. CtxTypeOK'
      BY <2>4, CloseContextType DEF onAdjustError, CtxTypeOK
    <3> QED
      BY <2>4, <3>1 DEF onAdjustError
  <2>5. CASE onCompleteRequestList(s)
    BY <2>5, ActivityType DEF onCompleteRequestList, CtxTypeOK
  <2>6. CASE onReadError(s)
    <3>1. CtxTypeOK' /\ calls' \in [Requests -> {"idle", "connected", "done"}]
      BY <2>6, CloseStreamsType DEF onReadError, CtxTypeOK
    <3> QED
      BY <2>6, <3>1 DEF onReadError
  <2>7. CASE onWritten(s)
    <3>1. queue[s] > 0 => queue[s] - 1 \in Nat
      BY DEF CtxTypeOK
    <3>2. CtxTypeOK'
      BY <2>7, <3>1, CloseContextType, SetQueueType, ActivityType
      DEF onWritten
    <3> QED
      BY <2>7, <3>2 DEF onWritten
  <2>8. CASE onWriteError(s)
    <3>1. CtxTypeOK'
      BY <2>8, CloseContextType DEF onWriteError
    <3> QED
      BY <2>8, <3>1 DEF onWriteError
  <2>9. CASE StreamBreaks(s)
    BY <2>9 DEF StreamBreaks, CtxTypeOK
  <2>10. ASSUME NEW id \in RemoteIds, onRequest(s, id)
         PROVE  TypeOK'
    <3>1. CASE remote[id] # None
      <4>1. remote[id] \in Streams /\ ResetTimer \in Timers
        BY <3>1, ActivityType DEF CtxTypeOK
      <4>2. CtxTypeOK'
        BY <2>10, <3>1, <4>1, SendResponseType DEF onRequest
      <4> QED
        BY <2>10, <3>1, <4>2 DEF onRequest
    <3>2. CASE remote[id] = None
      BY <2>10, <3>2, ActivityType DEF onRequest, CtxTypeOK
    <3> QED
      BY <3>1, <3>2
  <2>11. ASSUME NEW id \in RemoteIds, onCancel(s, id)
         PROVE  TypeOK'
    BY <2>11, ActivityType DEF onCancel, CtxTypeOK
  <2>12. ASSUME NEW r \in Requests, NEW status, onResponse(s, r, status)
         PROVE  TypeOK'
    BY <2>12, ActivityType DEF onResponse, trackedAfter, CtxTypeOK, Report
  <2> QED
    BY <1>3, <2>1, <2>2, <2>3, <2>4, <2>5, <2>6, <2>7, <2>8, <2>9, <2>10,
       <2>11, <2>12 DEF StreamEvent
<1>4. ASSUME NEW id \in RemoteIds, keepAlive(id)
      PROVE  TypeOK'
  BY <1>4, ActivityType DEF keepAlive, CtxTypeOK
<1>5. ASSUME NEW id \in RemoteIds, addBlockToResponse(id)
      PROVE  TypeOK'
  <2>1. CtxTypeOK'
    BY <1>5, CloseContextType, SendResponseType
    DEF addBlockToResponse, CtxTypeOK
  <2> QED
    BY <1>5, <2>1 DEF addBlockToResponse
<1>6. ASSUME NEW id \in RemoteIds, sendResponse(id)
      PROVE  TypeOK'
  <2>1. CtxTypeOK'
    BY <1>6, SendResponseType DEF sendResponse, CtxTypeOK
  <2> QED
    BY <1>6, <2>1 DEF sendResponse
<1>7. CASE onConnectError
  <2>1. CtxTypeOK'
    BY <1>7, CloseContextType DEF onConnectError, CtxTypeOK
  <2> QED
    BY <1>7, <2>1 DEF onConnectError
<1>8. CASE Tick
  BY <1>8 DEF Tick, Dec, CtxTypeOK, Timers
<1>9. CASE onStreamCleanupTimer
  <2>1. PICK n \in nextCheck :
          CloseStreams(expired, RS_TIMEOUT,
                       IF closed THEN NoTimer ELSE CleanupIn(n))
    BY <1>9 DEF onStreamCleanupTimer
  <2>2. (IF closed THEN NoTimer ELSE CleanupIn(n)) \in Timers
    BY NextCheckType
  <2>3. expired \in SUBSET streams
    BY DEF expired
  <2>4. CtxTypeOK' /\ calls' \in [Requests -> {"idle", "connected", "done"}]
    BY <2>1, <2>2, <2>3, CloseStreamsType
  <2> QED
    BY <1>9, <2>4 DEF onStreamCleanupTimer
<1>10. CASE onPeerClosedTimer
  <2>1. NoTimer \in Timers
    BY DEF NoTimer, Timers
  <2>2. CtxTypeOK'
    BY <1>10, <2>1, ReleaseType DEF onPeerClosedTimer, CtxTypeOK
  <2> QED
    BY <1>10, <2>2 DEF onPeerClosedTimer
<1>11. CASE findContext
  <2>1. CtxTypeOK'
    BY <1>11, ReleaseType DEF findContext, CtxTypeOK
  <2> QED
    BY <1>11, <2>1 DEF findContext
<1>12. CASE closeAllPeers
  <2>1. CASE closed
    BY <1>12, <2>1, ReleaseType DEF closeAllPeers, CtxTypeOK
  <2>2. CASE ~closed
    <3>1. CtxTypeOK'
      BY <1>12, <2>2, CloseContextType DEF closeAllPeers
    <3> QED
      BY <1>12, <3>1 DEF closeAllPeers
  <2> QED
    BY <2>1, <2>2
<1>13. CASE RemoteCrash
  BY <1>13 DEF RemoteCrash, CtxTypeOK
<1>14. CASE UNCHANGED vars
  BY <1>14 DEF vars, CtxTypeOK
<1> QED
  BY <1>1, <1>2, <1>3, <1>4, <1>5, <1>6, <1>7, <1>8, <1>9, <1>10, <1>11,
     <1>12, <1>13, <1>14 DEF Next

(* The context's state keeps its types, for every number of streams,       *)
(* requests and remote ids.                                                *)
THEOREM TypeCorrect == Spec => []TypeOK
BY InitType, StepType, PTL DEF Spec

-----------------------------------------------------------------------------
(* Streams, endpoint, response sinks and timer.                            *)

(* close() establishes the structural invariant whatever it found.         *)
LEMMA CloseContextStruct ==
  ASSUME TypeOK, NEW status, NEW kept, CloseContext(status, kept)
  PROVE  StructInv'
BY StreamsAssumption
DEF CloseContext, StructInv, EndpointOnLiveStream, ConnectingHasCause,
    ResponseSinkLive, ClosedServesNobody, CleanupScheduled,
      PeerClosedIsClosed

(* closeStream() preserves it: the endpoint goes with its stream, and so   *)
(* do the remote requests whose stream is closed.                          *)
LEMMA CloseStreamsStruct ==
  ASSUME TypeOK, StructInv, NEW S \in SUBSET streams, NEW status, NEW t,
         isError(status), CloseStreams(S, status, t),
         ~closed /\ S # streams => t.kind = "cleanup",
         t.kind = "peerClosed" => closed
  PROVE  StructInv'
<1> USE DEF StructInv, TypeOK, CtxTypeOK
<1>1. EndpointOnLiveStream'
  BY StreamsAssumption DEF CloseStreams, endpointOn, EndpointOnLiveStream
<1>2. ResponseSinkLive'
  <2> SUFFICES ASSUME NEW id \in RemoteIds, remote'[id] # None
               PROVE  remote'[id] \in streams' /\ id \in remote_ids'[remote'[id]]
    BY DEF ResponseSinkLive
  <2>1. /\ remote'[id] = remote[id]
        /\ \A s \in S : id \notin remote_ids[s]
    BY DEF CloseStreams, idsOf
  <2>2. remote[id] \in streams /\ id \in remote_ids[remote[id]]
    BY <2>1 DEF ResponseSinkLive
  <2>3. remote[id] \notin S
    BY <2>1, <2>2
  <2> QED
    BY <2>1, <2>2, <2>3 DEF CloseStreams, DropStreamCtx
<1>3. ClosedServesNobody'
  BY DEF CloseStreams, ClosedServesNobody
<1>4. CleanupScheduled'
  BY DEF CloseStreams, CleanupScheduled
<1>5. ConnectingHasCause'
  BY StreamsAssumption DEF CloseStreams, endpointOn, ConnectingHasCause
<1>6. PeerClosedIsClosed'
  BY DEF CloseStreams, PeerClosedIsClosed
<1> QED
  BY <1>1, <1>2, <1>3, <1>4, <1>5, <1>6

(* So does the loss of a reference to a closed context.                    *)
LEMMA ReleaseStruct ==
  ASSUME TypeOK, StructInv, closed, NEW still, NEW t, Release(still, t),
         UNCHANGED <<closed, remote>>
  PROVE  StructInv'
BY StreamsAssumption
DEF Release, StructInv, EndpointOnLiveStream, ConnectingHasCause,
    ResponseSinkLive, ClosedServesNobody, CleanupScheduled,
    PeerClosedIsClosed

(* Sending one response keeps the structural invariant.                    *)
LEMMA SendResponseStruct ==
  ASSUME TypeOK, StructInv, NEW t \in Streams, NEW S, NEW tm,
         SendResponse(t, S, tm), tm.kind = timer.kind, UNCHANGED envVars
  PROVE  StructInv'
<1>1. CASE \E n : SetQueue(t, n, S, tm)
  BY <1>1
  DEF SetQueue, StructInv, EndpointOnLiveStream, ConnectingHasCause,
      ResponseSinkLive, ClosedServesNobody, CleanupScheduled,
      PeerClosedIsClosed, envVars
<1> QED
  BY <1>1, CloseContextStruct DEF SendResponse

(* Activity does not change what timer_ will call.                         *)
LEMMA ResetTimerKind == TypeOK => ResetTimer.kind = timer.kind
BY DEF TypeOK, CtxTypeOK, Timers, ResetTimer

(* A step that touches none of the variables of the structural invariant   *)
(* but the timer, and leaves its kind alone, preserves it.                 *)
LEMMA SameStruct ==
  ASSUME StructInv, timer'.kind = timer.kind,
         UNCHANGED <<closed, streams, endpoint, remote, remote_ids, dialing,
                     configuring>>
  PROVE  StructInv'
BY DEF StructInv, EndpointOnLiveStream, ConnectingHasCause, ResponseSinkLive,
       ClosedServesNobody, CleanupScheduled, PeerClosedIsClosed

(* Every step preserves the structural invariant.                          *)
LEMMA StepStruct == TypeOK /\ StructInv /\ [Next]_vars => StructInv'
<1> SUFFICES ASSUME TypeOK, StructInv, [Next]_vars
             PROVE  StructInv'
  OBVIOUS
<1> USE DEF envVars, ctxVars
<1>1. ASSUME NEW r \in Requests, needToConnect(r)
      PROVE  StructInv'
  BY <1>1, StreamsAssumption
  DEF needToConnect, StructInv, EndpointOnLiveStream, ConnectingHasCause,
      ResponseSinkLive, ClosedServesNobody, CleanupScheduled,
      PeerClosedIsClosed, TypeOK, CtxTypeOK
<1>2. ASSUME NEW r \in Requests, enqueueRequest(r)
      PROVE  StructInv'
  <2>1. CASE EnqueueCloses(r)
    BY <2>1, CloseContextStruct DEF EnqueueCloses
  <2>2. CASE EnqueueRefused(r)
    BY <2>2, ReleaseStruct DEF EnqueueRefused
  <2>3. CASE EnqueueBuffered(r) \/ EnqueueQueued(r)
    BY <1>2, <2>3, SameStruct
    DEF enqueueRequest, EnqueueBuffered, EnqueueQueued
  <2> QED
    BY <1>2, <2>1, <2>2, <2>3 DEF enqueueRequest
<1>3. ASSUME NEW s \in Streams, StreamEvent(s)
      PROVE  StructInv'
  <2>1. CASE onStreamConnected(s)
    BY <2>1
    DEF onStreamConnected, StructInv, EndpointOnLiveStream, ConnectingHasCause,
        ResponseSinkLive, ClosedServesNobody, CleanupScheduled,
      PeerClosedIsClosed
  <2>2. CASE onStreamAccepted(s)
    BY <2>2
    DEF onStreamAccepted, StructInv, EndpointOnLiveStream, ConnectingHasCause,
        ResponseSinkLive, ClosedServesNobody, CleanupScheduled,
      PeerClosedIsClosed
  <2>3. CASE finishStreamConfig(s)
    <3>1. timer'.kind = IF streams = {} THEN "cleanup" ELSE timer.kind
      BY <2>3, ResetTimerKind DEF finishStreamConfig, CleanupIn
    <3>2. CleanupScheduled' /\ PeerClosedIsClosed'
      BY <2>3, <3>1
      DEF finishStreamConfig, StructInv, CleanupScheduled, PeerClosedIsClosed
    <3>3. EndpointOnLiveStream' /\ ConnectingHasCause'
      BY <2>3, StreamsAssumption
      DEF finishStreamConfig, isConnecting, StructInv, EndpointOnLiveStream,
          ConnectingHasCause
    <3>4. ResponseSinkLive' /\ ClosedServesNobody'
      BY <2>3
      DEF finishStreamConfig, StructInv, ResponseSinkLive, ClosedServesNobody
    <3> QED
      BY <3>2, <3>3, <3>4 DEF StructInv
  <2>4. CASE onAdjustError(s)
    <3>1. CASE isConnecting
      BY <2>4, <3>1, CloseContextStruct DEF onAdjustError
    <3>2. CASE ~isConnecting
      BY <2>4, <3>2
      DEF onAdjustError, isConnecting, StructInv, EndpointOnLiveStream,
          ConnectingHasCause, ResponseSinkLive, ClosedServesNobody,
          CleanupScheduled, PeerClosedIsClosed
    <3> QED
      BY <3>1, <3>2
  <2>5. CASE onCompleteRequestList(s)
    <3>1. timer'.kind = timer.kind
      BY <2>5, ResetTimerKind DEF onCompleteRequestList
    <3>2. ResponseSinkLive'
      BY <2>5
      DEF onCompleteRequestList, StructInv, ResponseSinkLive, TypeOK, CtxTypeOK
    <3>3. ClosedServesNobody'
      BY <2>5 DEF onCompleteRequestList, reading, ClosedServesNobody
    <3> QED
      BY <2>5, <3>1, <3>2, <3>3
      DEF onCompleteRequestList, StructInv, EndpointOnLiveStream,
          ConnectingHasCause, CleanupScheduled, PeerClosedIsClosed
  <2>6. CASE onReadError(s)
    <3>1. {s} \in SUBSET streams /\ isError(RS_CONNECTION_ERROR)
      BY <2>6 DEF onReadError, isError, RS_CONNECTION_ERROR
    <3>2. /\ ~closed /\ streams # {} => timer.kind = "cleanup"
          /\ timer.kind = "peerClosed" => closed
      BY DEF StructInv, CleanupScheduled, PeerClosedIsClosed
    <3> QED
      BY <2>6, <3>1, <3>2, CloseStreamsStruct DEF onReadError
  <2>7. CASE onWritten(s)
    <3>1. CASE CloseContext(RS_CONNECTION_ERROR, {})
      BY <3>1, CloseContextStruct
    <3>2. CASE SetQueue(s, queue[s] - 1, {s}, ResetTimer)
      BY <2>7, <3>2, ResetTimerKind, SameStruct DEF SetQueue, onWritten
    <3> QED
      BY <2>7, <3>1, <3>2 DEF onWritten
  <2>8. CASE onWriteError(s)
    BY <2>8, CloseContextStruct DEF onWriteError
  <2>9. CASE StreamBreaks(s)
    BY <2>9, SameStruct DEF StreamBreaks
  <2>10. ASSUME NEW id \in RemoteIds, onRequest(s, id)
         PROVE  StructInv'
    <3>1. CASE remote[id] # None
      <4>1. remote[id] \in Streams
        BY <3>1 DEF TypeOK, CtxTypeOK
      <4> QED
        BY <2>10, <3>1, <4>1, ResetTimerKind, SendResponseStruct DEF onRequest
    <3>2. CASE remote[id] = None
      <4>1. timer'.kind = timer.kind
        BY <2>10, <3>2, ResetTimerKind DEF onRequest
      <4>2. ResponseSinkLive'
        BY <2>10, <3>2
        DEF onRequest, reading, StructInv, ResponseSinkLive, TypeOK, CtxTypeOK
      <4>3. ClosedServesNobody'
        BY <2>10, <3>2 DEF onRequest, reading, ClosedServesNobody
      <4> QED
        BY <2>10, <3>2, <4>1, <4>2, <4>3
        DEF onRequest, StructInv, EndpointOnLiveStream, ConnectingHasCause,
            CleanupScheduled, PeerClosedIsClosed
    <3> QED
      BY <3>1, <3>2
  <2>11. ASSUME NEW id \in RemoteIds, onCancel(s, id)
         PROVE  StructInv'
    <3>1. timer'.kind = timer.kind
      BY <2>11, ResetTimerKind DEF onCancel
    <3>2. ResponseSinkLive'
      BY <2>11 DEF onCancel, StructInv, ResponseSinkLive, TypeOK, CtxTypeOK
    <3>3. ClosedServesNobody'
      BY <2>11 DEF onCancel, reading, ClosedServesNobody
    <3> QED
      BY <2>11, <3>1, <3>2, <3>3
      DEF onCancel, StructInv, EndpointOnLiveStream, ConnectingHasCause,
          CleanupScheduled, PeerClosedIsClosed
  <2>12. ASSUME NEW r \in Requests, NEW status, onResponse(s, r, status)
         PROVE  StructInv'
    BY <2>12, ResetTimerKind, SameStruct DEF onResponse
  <2> QED
    BY <1>3, <2>1, <2>2, <2>3, <2>4, <2>5, <2>6, <2>7, <2>8, <2>9, <2>10,
       <2>11, <2>12 DEF StreamEvent
<1>4. ASSUME NEW id \in RemoteIds, keepAlive(id)
      PROVE  StructInv'
  BY <1>4, ResetTimerKind, SameStruct DEF keepAlive
<1>5. ASSUME NEW id \in RemoteIds, addBlockToResponse(id)
      PROVE  StructInv'
  <2>1. CASE CloseContext(RS_SLOW_STREAM, {})
    BY <2>1, CloseContextStruct
  <2>2. CASE remote[id] # None /\ SendResponse(remote[id], {}, timer)
    <3>1. remote[id] \in Streams
      BY <2>2 DEF TypeOK, CtxTypeOK
    <3> QED
      BY <1>5, <2>2, <3>1, SendResponseStruct DEF addBlockToResponse
  <2>3. CASE UNCHANGED ctxVars
    BY <1>5, <2>3, SameStruct DEF addBlockToResponse
  <2> QED
    BY <1>5, <2>1, <2>2, <2>3 DEF addBlockToResponse
<1>6. ASSUME NEW id \in RemoteIds, sendResponse(id)
      PROVE  StructInv'
  <2>1. CASE remote[id] # None /\ SendResponse(remote[id], {}, timer)
    <3>1. remote[id] \in Streams
      BY <2>1 DEF TypeOK, CtxTypeOK
    <3> QED
      BY <1>6, <2>1, <3>1, SendResponseStruct DEF sendResponse
  <2>2. CASE UNCHANGED ctxVars
    BY <1>6, <2>2, SameStruct DEF sendResponse
  <2> QED
    BY <1>6, <2>1, <2>2 DEF sendResponse
<1>7. CASE onConnectError
  <2>1. CASE isConnecting
    BY <1>7, <2>1, CloseContextStruct DEF onConnectError
  <2>2. CASE ~isConnecting
    BY <1>7, <2>2
    DEF onConnectError, isConnecting, StructInv, EndpointOnLiveStream,
        ConnectingHasCause, ResponseSinkLive, ClosedServesNobody,
        CleanupScheduled, PeerClosedIsClosed
  <2> QED
    BY <2>1, <2>2
<1>8. CASE Tick
  BY <1>8, SameStruct DEF Tick, TypeOK, CtxTypeOK, Timers
<1>9. CASE onStreamCleanupTimer
  <2>1. PICK n \in nextCheck :
          CloseStreams(expired, RS_TIMEOUT,
                       IF closed THEN NoTimer ELSE CleanupIn(n))
    BY <1>9 DEF onStreamCleanupTimer
  <2>2. expired \in SUBSET streams /\ isError(RS_TIMEOUT)
    BY DEF expired, isError, RS_TIMEOUT
  <2>3. (IF closed THEN NoTimer ELSE CleanupIn(n)).kind
          = IF closed THEN "none" ELSE "cleanup"
    BY DEF CleanupIn, NoTimer
  <2> QED
    BY <2>1, <2>2, <2>3, CloseStreamsStruct
<1>10. CASE onPeerClosedTimer
  <2>1. closed
    BY <1>10 DEF onPeerClosedTimer, StructInv, PeerClosedIsClosed
  <2> QED
    BY <1>10, <2>1, ReleaseStruct DEF onPeerClosedTimer
<1>11. CASE findContext
  BY <1>11, ReleaseStruct DEF findContext
<1>12. CASE closeAllPeers
  <2>1. CASE closed
    BY <1>12, <2>1, ReleaseStruct DEF closeAllPeers
  <2>2. CASE ~closed
    BY <1>12, <2>2, CloseContextStruct DEF closeAllPeers
  <2> QED
    BY <2>1, <2>2
<1>13. CASE RemoteCrash
  BY <1>13, SameStruct DEF RemoteCrash
<1>14. CASE UNCHANGED vars
  BY <1>14, SameStruct DEF vars
<1> QED
  BY <1>1, <1>2, <1>3, <1>4, <1>5, <1>6, <1>7, <1>8, <1>9, <1>10, <1>11,
     <1>12, <1>13, <1>14 DEF Next

(* The structural invariant holds in every reachable state.                *)
THEOREM Structure == Spec => []StructInv
<1>1. Init => StructInv
  BY StreamsAssumption
  DEF Init, StructInv, EndpointOnLiveStream, ConnectingHasCause,
      ResponseSinkLive, ClosedServesNobody, CleanupScheduled,
      PeerClosedIsClosed, NoTimer
<1> QED
  BY <1>1, StepStruct, TypeCorrect, PTL DEF Spec

(* InboundEndpoint never answers into a stream that is gone.               *)
THEOREM SinksStayLive == Spec => []ResponseSinkLive
BY Structure, PTL DEF StructInv

(* OutboundEndpoint never writes to a stream that is gone.                 *)
THEOREM EndpointStaysLive == Spec => []EndpointOnLiveStream
BY Structure, PTL DEF StructInv

(* Requests are only buffered while a connection is on its way.            *)
THEOREM BufferedForAConnection == Spec => []ConnectingHasCause
BY Structure, PTL DEF StructInv

(* An open context with streams never loses its cleanup timer.             *)
THEOREM CleanupStaysScheduled == Spec => []CleanupScheduled
BY Structure, PTL DEF StructInv

-----------------------------------------------------------------------------
(* Every local request is accounted for: none is reported twice, an open   *)
(* context loses none, and closing loses at most the one request whose own *)
(* enqueueRequest brought the context down.                                *)

(* The bookkeeping of local requests is left alone.                        *)
SameAccounts ==
  /\ UNCHANGED <<closed, local_ids, reported, calls>>
  /\ ~closed /\ endpoint' = None => endpoint = None

(* close() of an open context, outside of enqueueRequest.                  *)
ClosesContext ==
  ~closed /\ UNCHANGED calls /\ \E status : CloseContext(status, {})

ClosesStreams ==
  \E S \in SUBSET streams : \E status, t :
    isError(status) /\ CloseStreams(S, status, t)

Responds ==
  \E s \in Streams : \E r \in Requests : \E status : onResponse(s, r, status)

(* One response either only lengthens a queue or closes the context.       *)
LEMMA SendResponseAccounts ==
  ASSUME ~closed, NEW t, NEW S, NEW tm, SendResponse(t, S, tm),
         UNCHANGED calls
  PROVE  SameAccounts \/ ClosesContext
<1>1. CASE \E n : SetQueue(t, n, S, tm)
  BY <1>1 DEF SetQueue, SameAccounts
<1>2. CASE \E status : CloseContext(status, {})
  BY <1>2 DEF ClosesContext
<1> QED
  BY <1>1, <1>2 DEF SendResponse

(* What a step can do to the accounts, whichever handler it is.            *)
LEMMA StepCases ==
  ASSUME TypeOK, StructInv, [Next]_vars
  PROVE  \/ SameAccounts
         \/ \E r \in Requests : needToConnect(r)
         \/ \E r \in Requests : enqueueRequest(r)
         \/ ClosesContext
         \/ ClosesStreams
         \/ Responds
<1> DEFINE Cases == \/ SameAccounts
                    \/ \E r \in Requests : needToConnect(r)
                    \/ \E r \in Requests : enqueueRequest(r)
                    \/ ClosesContext
                    \/ ClosesStreams
                    \/ Responds
<1> USE DEF envVars, ctxVars
<1>1. ASSUME NEW id \in RemoteIds, remote[id] # None
      PROVE  ~closed
  BY <1>1 DEF StructInv, ClosedServesNobody
<1>2. ASSUME NEW s \in Streams, StreamEvent(s)
      PROVE  Cases
  <2>1. CASE onStreamConnected(s)
    BY <2>1 DEF onStreamConnected, SameAccounts
  <2>2. CASE onStreamAccepted(s)
    BY <2>2 DEF onStreamAccepted, SameAccounts
  <2>3. CASE finishStreamConfig(s)
    BY <2>3, StreamsAssumption DEF finishStreamConfig, SameAccounts
  <2>4. CASE onAdjustError(s)
    BY <2>4 DEF onAdjustError, isConnecting, SameAccounts, ClosesContext
  <2>5. CASE onCompleteRequestList(s)
    BY <2>5 DEF onCompleteRequestList, SameAccounts
  <2>6. CASE onReadError(s)
    <3>1. {s} \in SUBSET streams /\ isError(RS_CONNECTION_ERROR)
      BY <2>6 DEF onReadError, isError, RS_CONNECTION_ERROR
    <3> QED
      BY <2>6, <3>1 DEF onReadError, ClosesStreams
  <2>7. CASE onWritten(s)
    BY <2>7 DEF onWritten, SetQueue, SameAccounts, ClosesContext
  <2>8. CASE onWriteError(s)
    BY <2>8 DEF onWriteError, ClosesContext
  <2>9. CASE StreamBreaks(s)
    BY <2>9 DEF StreamBreaks, SameAccounts
  <2>10. ASSUME NEW id \in RemoteIds, onRequest(s, id)
         PROVE  Cases
    <3>1. CASE remote[id] # None
      BY <2>10, <3>1, SendResponseAccounts DEF onRequest, reading
    <3>2. CASE remote[id] = None
      BY <2>10, <3>2 DEF onRequest, SameAccounts
    <3> QED
      BY <3>1, <3>2
  <2>11. ASSUME NEW id \in RemoteIds, onCancel(s, id)
         PROVE  Cases
    BY <2>11 DEF onCancel, SameAccounts
  <2>12. ASSUME NEW r \in Requests, NEW status, onResponse(s, r, status)
         PROVE  Cases
    BY <2>12 DEF Responds
  <2> QED
    BY <1>2, <2>1, <2>2, <2>3, <2>4, <2>5, <2>6, <2>7, <2>8, <2>9, <2>10,
       <2>11, <2>12 DEF StreamEvent
<1>3. ASSUME NEW id \in RemoteIds, keepAlive(id)
      PROVE  Cases
  BY <1>3 DEF keepAlive, SameAccounts
<1>4. ASSUME NEW id \in RemoteIds, addBlockToResponse(id)
      PROVE  Cases
  <2>1. CASE remote[id] = None
    BY <1>4, <2>1 DEF addBlockToResponse, SameAccounts
  <2>2. CASE remote[id] # None
    BY <1>1, <1>4, <2>2, SendResponseAccounts
    DEF addBlockToResponse, ClosesContext
  <2> QED
    BY <2>1, <2>2
<1>5. ASSUME NEW id \in RemoteIds, sendResponse(id)
      PROVE  Cases
  <2>1. CASE remote[id] = None
    BY <1>5, <2>1 DEF sendResponse, SameAccounts
  <2>2. CASE remote[id] # None
    BY <1>1, <1>5, <2>2, SendResponseAccounts DEF sendResponse, SameAccounts
  <2> QED
    BY <2>1, <2>2
<1>6. CASE onConnectError
  BY <1>6 DEF onConnectError, isConnecting, SameAccounts, ClosesContext
<1>7. CASE Tick
  BY <1>7 DEF Tick, SameAccounts
<1>8. CASE onStreamCleanupTimer
  <2>1. expired \in SUBSET streams /\ isError(RS_TIMEOUT)
    BY DEF expired, isError, RS_TIMEOUT
  <2> QED
    BY <1>8, <2>1 DEF onStreamCleanupTimer, ClosesStreams
<1>9. CASE onPeerClosedTimer \/ findContext
  <2>1. closed
    BY <1>9 DEF onPeerClosedTimer, findContext, StructInv, PeerClosedIsClosed
  <2> QED
    BY <1>9, <2>1 DEF onPeerClosedTimer, findContext, SameAccounts
<1>10. CASE closeAllPeers
  BY <1>10 DEF closeAllPeers, SameAccounts, ClosesContext
<1>11. CASE RemoteCrash \/ UNCHANGED vars
  BY <1>11 DEF RemoteCrash, vars, SameAccounts
<1> QED
  BY <1>2, <1>3, <1>4, <1>5, <1>6, <1>7, <1>8, <1>9, <1>10, <1>11 DEF Next

-----------------------------------------------------------------------------

(* close() reports the tracked requests once and forgets them.             *)
LEMMA ClosesContextAccounts ==
  ASSUME TypeOK, AccountingInv, ClosesContext
  PROVE  AccountingInv'
<1> USE DEF AccountingInv, TypeOK, CtxTypeOK
<1>1. PICK status : CloseContext(status, {})
  BY DEF ClosesContext
<1>2. /\ closed'
      /\ \A r \in Requests : calls'[r] = calls[r]
  BY <1>1 DEF CloseContext, ClosesContext
<1>3. /\ endpoint # None => local_ids' = {}
      /\ endpoint = None => local_ids' = local_ids
      /\ \A r \in Requests :
           reported'[r] = IF endpoint # None /\ r \in local_ids
                            THEN reported[r] + 1 ELSE reported[r]
  BY <1>1 DEF CloseContext, Report
<1>4. TrackedUnreported'
  BY <1>2, <1>3 DEF TrackedUnreported
<1>5. ReportedAtMostOnce'
  BY <1>3 DEF ReportedAtMostOnce, TrackedUnreported
<1>6. OpenContextTracksAll' /\ NoEndpointNoIds'
  BY <1>2 DEF OpenContextTracksAll, NoEndpointNoIds
<1>7. ASSUME ~Retrying PROVE CloseLosesAtMostOne'
  <2>1. unreported' = {}
    BY <1>2, <1>3, <1>7
    DEF unreported, ClosesContext, OpenContextTracksAll, NoEndpointNoIds,
        TrackedUnreported
  <2> QED
    BY <2>1 DEF CloseLosesAtMostOne
<1> QED
  BY <1>4, <1>5, <1>6, <1>7

(* closeStream() reports the tracked requests when the endpoint goes; the  *)
(* requests that callbacks make meanwhile are tracked.                     *)
LEMMA ClosesStreamsAccounts ==
  ASSUME TypeOK, StructInv, AccountingInv, ClosesStreams
  PROVE  AccountingInv'
<1> USE DEF AccountingInv, TypeOK, CtxTypeOK
<1>1. PICK S \in SUBSET streams :
        \E status, t : isError(status) /\ CloseStreams(S, status, t)
  BY DEF ClosesStreams
<1> DEFINE last == ~closed /\ streams \ S = {}
           gone == endpoint \in S \/ (last /\ endpoint # None)
           failed == IF gone THEN local_ids ELSE {}
<1>2. /\ closed' = (closed \/ last)
      /\ endpoint' = IF endpoint \in S \/ last THEN None ELSE endpoint
      /\ \A r \in Requests :
           reported'[r] = IF r \in failed THEN reported[r] + 1
                                          ELSE reported[r]
  BY <1>1 DEF CloseStreams, endpointOn, Report
<1>3. PICK R \in SUBSET Requests :
        /\ Retries(R, IF endpoint \in S THEN failed ELSE {})
        /\ local_ids' = (local_ids \ failed) \cup R
  BY <1>1 DEF CloseStreams, endpointOn
<1>4. /\ \A r \in R : calls[r] = "idle"
      /\ \A r \in Requests : calls'[r] = IF r \in R THEN "done" ELSE calls[r]
      /\ ~Retrying => R = {}
  BY <1>3 DEF Retries
<1>5. TrackedUnreported'
  BY <1>2, <1>3, <1>4 DEF TrackedUnreported
<1>6. ReportedAtMostOnce'
  BY <1>2 DEF ReportedAtMostOnce, TrackedUnreported
<1>7. OpenContextTracksAll'
  BY <1>2, <1>3, <1>4 DEF OpenContextTracksAll, TrackedUnreported
<1>8. NoEndpointNoIds'
  BY <1>2, <1>3, <1>4 DEF NoEndpointNoIds
<1>9. ASSUME ~Retrying PROVE CloseLosesAtMostOne'
  <2>1. CASE closed
    <3>1. unreported' \subseteq unreported
      BY <1>2, <1>4, <1>9 DEF unreported
    <3> QED
      BY <1>9, <2>1, <3>1 DEF CloseLosesAtMostOne
  <2>2. CASE ~closed
    <3>1. closed' => unreported' = {}
      BY <1>2, <1>4, <1>9, <2>2
      DEF unreported, OpenContextTracksAll, NoEndpointNoIds, TrackedUnreported
    <3> QED
      BY <3>1 DEF CloseLosesAtMostOne
  <2> QED
    BY <2>1, <2>2
<1> QED
  BY <1>5, <1>6, <1>7, <1>8, <1>9

(* enqueueRequest() tracks the request, or reports it, or is the one       *)
(* request that is lost.                                                   *)
LEMMA EnqueueAccounts ==
  ASSUME TypeOK, AccountingInv, NEW r \in Requests, enqueueRequest(r)
  PROVE  AccountingInv'
<1> USE DEF AccountingInv, TypeOK, CtxTypeOK
<1>1. /\ calls[r] = "connected"
      /\ \A q \in Requests : calls'[q] = IF q = r THEN "done" ELSE calls[q]
  BY DEF enqueueRequest
<1>2. reported[r] = 0 /\ r \notin local_ids
  BY <1>1 DEF TrackedUnreported
<1>3. CASE EnqueueRefused(r)
  <2>1. /\ closed /\ closed' /\ local_ids' = local_ids
        /\ \A q \in Requests :
             reported'[q] = IF q = r THEN reported[q] + 1 ELSE reported[q]
    BY <1>3 DEF EnqueueRefused, Report
  <2>2. TrackedUnreported' /\ ReportedAtMostOnce'
    BY <1>1, <1>2, <2>1 DEF TrackedUnreported, ReportedAtMostOnce
  <2>3. unreported' \subseteq unreported
    BY <1>1, <1>2, <2>1 DEF unreported
  <2> QED
    BY <2>1, <2>2, <2>3
    DEF OpenContextTracksAll, NoEndpointNoIds, CloseLosesAtMostOne
<1>4. CASE EnqueueBuffered(r) \/ EnqueueQueued(r)
  <2>1. /\ ~closed /\ ~closed' /\ local_ids' = local_ids \cup {r}
        /\ reported' = reported /\ endpoint' = endpoint /\ endpoint # None
    BY <1>4, StreamsAssumption DEF EnqueueBuffered, EnqueueQueued
  <2>2. TrackedUnreported' /\ ReportedAtMostOnce'
    BY <1>1, <1>2, <2>1 DEF TrackedUnreported, ReportedAtMostOnce
  <2>3. OpenContextTracksAll'
    BY <1>1, <2>1 DEF OpenContextTracksAll
  <2> QED
    BY <2>1, <2>2, <2>3 DEF NoEndpointNoIds, CloseLosesAtMostOne
<1>5. CASE EnqueueCloses(r)
  <2>1. PICK kept \in SUBSET {r} : \E status : CloseContext(status, kept)
    BY <1>5 DEF EnqueueCloses
  <2>2. /\ ~closed /\ closed'
        /\ local_ids' = IF endpoint # None THEN kept
                                           ELSE local_ids \cup kept
        /\ \A q \in Requests :
             reported'[q] = IF endpoint # None /\ q \in local_ids
                              THEN reported[q] + 1 ELSE reported[q]
    BY <1>5, <2>1 DEF EnqueueCloses, CloseContext, Report
  <2>3. TrackedUnreported' /\ ReportedAtMostOnce'
    BY <1>1, <1>2, <2>2 DEF TrackedUnreported, ReportedAtMostOnce
  <2>4. ASSUME ~Retrying PROVE unreported' \subseteq {r}
    BY <1>1, <2>2, <2>4
    DEF unreported, OpenContextTracksAll, NoEndpointNoIds, TrackedUnreported
  <2>5. ~Retrying => CloseLosesAtMostOne'
    BY <2>4 DEF CloseLosesAtMostOne
  <2> QED
    BY <2>2, <2>3, <2>5 DEF OpenContextTracksAll, NoEndpointNoIds
<1> QED
  BY <1>3, <1>4, <1>5 DEF enqueueRequest

(* Every step keeps the accounts.                                          *)
LEMMA StepAccounts ==
  TypeOK /\ StructInv /\ AccountingInv /\ [Next]_vars => AccountingInv'
<1> SUFFICES ASSUME TypeOK, StructInv, AccountingInv, [Next]_vars
             PROVE  AccountingInv'
  OBVIOUS
<1> USE DEF AccountingInv, TypeOK, CtxTypeOK
<1>1. CASE SameAccounts
  BY <1>1
  DEF SameAccounts, TrackedUnreported, ReportedAtMostOnce, OpenContextTracksAll,
      NoEndpointNoIds, CloseLosesAtMostOne, unreported
<1>2. ASSUME NEW r \in Requests, needToConnect(r)
      PROVE  AccountingInv'
  <2>1. /\ UNCHANGED <<closed, local_ids, reported>>
        /\ calls[r] = "idle"
        /\ \A q \in Requests :
             calls'[q] = IF q = r THEN "connected" ELSE calls[q]
        /\ endpoint' # None
    BY <1>2, StreamsAssumption DEF needToConnect
  <2>2. unreported' = unreported
    BY <2>1 DEF unreported
  <2> QED
    BY <2>1, <2>2
    DEF TrackedUnreported, ReportedAtMostOnce, OpenContextTracksAll,
        NoEndpointNoIds, CloseLosesAtMostOne
<1>3. ASSUME NEW s \in Streams, NEW r \in Requests, NEW status,
             onResponse(s, r, status)
      PROVE  AccountingInv'
  <2>1. ~closed' /\ endpoint' = endpoint /\ calls' = calls /\ ~closed
    BY <1>3 DEF onResponse, reading
  <2>2. CASE r \in local_ids /\ isTerminal(status)
    <3>1. /\ local_ids' = local_ids \ {r}
          /\ \A q \in Requests :
               reported'[q] = IF q = r THEN reported[q] + 1 ELSE reported[q]
      BY <1>3, <2>2 DEF onResponse, trackedAfter, Report
    <3>2. TrackedUnreported' /\ ReportedAtMostOnce'
      BY <2>1, <2>2, <3>1 DEF TrackedUnreported, ReportedAtMostOnce
    <3>3. OpenContextTracksAll'
      BY <2>1, <2>2, <3>1 DEF OpenContextTracksAll, TrackedUnreported
    <3> QED
      BY <2>1, <3>1, <3>2, <3>3 DEF NoEndpointNoIds, CloseLosesAtMostOne
  <2>3. CASE ~(r \in local_ids /\ isTerminal(status))
    BY <1>1, <1>3, <2>1, <2>3 DEF onResponse, SameAccounts
  <2> QED
    BY <2>2, <2>3
<1> QED
  BY <1>1, <1>2, <1>3, StepCases, EnqueueAccounts, ClosesContextAccounts,
     ClosesStreamsAccounts DEF Responds

(* Every local request is accounted for.                                   *)
THEOREM Accounting == Spec => []AccountingInv
<1>1. Init => AccountingInv
  BY DEF Init, AccountingInv, TrackedUnreported, ReportedAtMostOnce,
         OpenContextTracksAll, NoEndpointNoIds, CloseLosesAtMostOne
<1> QED
  BY <1>1, StepAccounts, TypeCorrect, Structure, PTL DEF Spec

(* No progress callback gets two terminal statuses.                        *)
THEOREM NoDoubleReport == Spec => []ReportedAtMostOnce
BY Accounting, PTL DEF AccountingInv

(* An open context loses no request, callbacks that retry included.        *)
THEOREM NothingLostWhileOpen == Spec => []OpenContextTracksAll
BY Accounting, PTL DEF AccountingInv

(* Closing misses at most the request being enqueued, provided callbacks   *)
(* do not issue requests while the context closes its streams.             *)
THEOREM CloseMissesAtMostOne ==
  ASSUME ~Retrying PROVE Spec => []CloseLosesAtMostOne
<1>1. AccountingInv => CloseLosesAtMostOne
  BY DEF AccountingInv
<1> QED
  BY <1>1, Accounting, PTL

=============================================================================
