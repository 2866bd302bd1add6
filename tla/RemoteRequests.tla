--------------------------- MODULE RemoteRequests ---------------------------
(***************************************************************************)
(* The serving side of graphsync.  Several GraphsyncImpl objects           *)
(* (instances) share one Network and one RequestIdGenerator.  A request of *)
(* a peer is handed by PeerContext::onRequest, on the scheduler's thread   *)
(* and under the context's state_mutex_, to each instance of the copy of   *)
(* Network::feedbacks_ that the context took when it was created; each     *)
(* posts a task that searches its own MerkleDagService on a pool thread    *)
(* (GraphsyncImpl::onRemoteRequest).  An instance that has the content     *)
(* answers at once; one that has not answers only when the status holders  *)
(* registered under the request id all say RS_NOT_FOUND.  An instance that *)
(* was started after the peer's context was created is not asked.          *)
(*                                                                         *)
(* What a service finds is the environment's choice: `select' returns a    *)
(* positive count ("found"), zero ("none"), an error, or "refused" when a  *)
(* block could not be added to the response.  Of a response only its       *)
(* status and the request it reaches matter.                               *)
(***************************************************************************)
EXTENDS StatusCodes, FiniteSets

CONSTANTS
  Instances,   \* GraphsyncImpl objects
  Requests,    \* requests of remote peers
  PeerOf,      \* the peer that makes each request
  IdOf,        \* the request id that peer chose
  Outcomes,    \* what a selection may come to
  None

Ids == {IdOf[r] : r \in Requests}
Peers == {PeerOf[r] : r \in Requests}
Tasks == Requests \X Instances

ASSUME InstancesAssumption ==
  /\ IsFiniteSet(Instances) /\ Instances # {}
  /\ IsFiniteSet(Requests)
ASSUME OutcomesAssumption ==
  Outcomes \subseteq {"found", "none", "error", "refused"}
ASSUME NoneAssumption == None \notin Requests

VARIABLES
  instance,   \* started_ of each object, or "gone" when it is destroyed
  feedbacks,  \* graphsync_feedbacks_ of each peer's context, {} without one
  sink,       \* remote_requests_streams_ of each peer's context: id -> request
  current,    \* the request onRequest hands out, under state_mutex_, or None
  todo,       \* instances onRequest has yet to call
  pc,         \* where the task of an instance for a request is
  status,     \* StatusHolder::status of that task
  holders,    \* request_holders_: id -> tasks whose holder is registered
  outcome,    \* history: what each selection came to
  answers,    \* history: statuses that reached each request
  left,       \* history: requests whose peer cancelled or disconnected
  stopped     \* history: instances that were stopped at some time

taskVars == <<pc, status, outcome>>
callerVars == <<instance, feedbacks, sink, current, todo>>
historyVars == <<answers, left, stopped>>
vars == <<callerVars, taskVars, holders, historyVars>>

Init ==
  /\ instance = [i \in Instances |-> "created"]
  /\ feedbacks = [p \in Peers |-> {}]
  /\ sink = [p \in Peers |-> [n \in Ids |-> None]]
  /\ current = None
  /\ todo = {}
  /\ pc = [t \in Tasks |-> "new"]
  /\ status = [t \in Tasks |-> RS_AWAITING_STATUS]
  /\ holders = [n \in Ids |-> {}]
  /\ outcome = [t \in Tasks |-> "pending"]
  /\ answers = [r \in Requests |-> {}]
  /\ left = {}
  /\ stopped = {}

IdOfTask(t) == IdOf[t[1]]

(* Network::started_: some instance is registered as a feedback.           *)
networkStarted == \E i \in Instances : instance[i] = "started"

-----------------------------------------------------------------------------
(* RequestIdGenerator                                                      *)

registerStatus(t) ==
  holders' = [holders EXCEPT ![IdOfTask(t)] = @ \cup {t}]

removeStatus(t) ==
  holders' = [holders EXCEPT ![IdOfTask(t)] = @ \ {t}]

(* Mutant: the tracking of a finished request is kept.                     *)
keepRequest(n) ==
  holders' = [holders EXCEPT ![n] = @]

removeRequest(n) ==
  holders' = [holders EXCEPT ![n] = {}]

allStatusesNotFound(n) ==
  /\ holders[n] # {}
  /\ \A t \in holders[n] : status[t] = RS_NOT_FOUND

-----------------------------------------------------------------------------
(* The scheduler's thread                                                  *)

(* Network::findContext creates the peer's context, for a stream or a      *)
(* request, with a copy of the feedbacks registered now.                   *)
connect(p) ==
  /\ networkStarted
  /\ feedbacks[p] = {}
  /\ feedbacks' = [feedbacks EXCEPT ![p] =
                     {i \in Instances : instance[i] = "started"}]
  /\ UNCHANGED <<instance, sink, current, todo, taskVars, holders, historyVars>>

(* The contexts of the peers P close: no id leads to a stream any more.    *)
closeContexts(P) ==
  /\ feedbacks' = [p \in Peers |-> IF p \in P THEN {} ELSE feedbacks[p]]
  /\ sink' = [p \in Peers |-> IF p \in P THEN [n \in Ids |-> None]
                                        ELSE sink[p]]
  /\ left' = (left \cup {sink[p][n] : p \in P, n \in Ids}) \ {None}

(* PeerContext::close, on any thread, but not inside onRequest's loop: it  *)
(* takes state_mutex_.                                                     *)
disconnect(p) ==
  /\ feedbacks[p] # {}
  /\ current \notin {r \in Requests : PeerOf[r] = p}
  /\ closeContexts({p})
  /\ UNCHANGED <<instance, current, todo, taskVars, holders, answers, stopped>>

(* PeerContext::onRequest up to its loop.  A live id is answered           *)
(* RS_REJECTED there and goes no further.                                  *)
onRequest(r) ==
  /\ current = None
  /\ \A i \in Instances : pc[<<r, i>>] = "new"
  /\ r \notin left
  /\ feedbacks[PeerOf[r]] # {}
  /\ sink[PeerOf[r]][IdOf[r]] = None
  /\ sink' = [sink EXCEPT ![PeerOf[r]][IdOf[r]] = r]
  /\ current' = r
  /\ todo' = feedbacks[PeerOf[r]]
  /\ pc' = [t \in Tasks |->
              IF t[1] = r /\ t[2] \notin todo' THEN "unasked" ELSE pc[t]]
  /\ UNCHANGED <<instance, feedbacks, status, outcome, holders, historyVars>>

(* One turn of that loop: GraphsyncImpl::onRemoteRequest, which returns if *)
(* the instance is not started and otherwise posts a task.  The loop ends  *)
(* with its last turn.                                                     *)
onRemoteRequest(i) ==
  LET t == <<current, i>> IN
  /\ i \in todo
  /\ todo' = todo \ {i}
  /\ current' = IF todo' = {} THEN None ELSE current
  /\ IF instance[i] = "started"
       THEN registerStatus(t) /\ pc' = [pc EXCEPT ![t] = "posted"]
       ELSE pc' = [pc EXCEPT ![t] = "skipped"] /\ UNCHANGED holders
  /\ UNCHANGED <<instance, feedbacks, sink, status, outcome, historyVars>>

(* The peer cancels the request, or its stream closes: the id no longer    *)
(* leads to a stream.  Both take state_mutex_ on the scheduler's thread.   *)
leave(r) ==
  /\ current = None
  /\ sink[PeerOf[r]][IdOf[r]] = r
  /\ sink' = [sink EXCEPT ![PeerOf[r]][IdOf[r]] = None]
  /\ left' = left \cup {r}
  /\ UNCHANGED <<instance, feedbacks, current, todo, taskVars, holders, answers,
                 stopped>>

(* GraphsyncImpl::stop and ::start.  The last stop closes every context;   *)
(* contexts that are open keep their copy of the feedbacks.                *)
stop(i) ==
  /\ instance[i] = "started"
  /\ instance' = [instance EXCEPT ![i] = "stopped"]
  /\ IF \E j \in Instances \ {i} : instance[j] = "started"
       THEN UNCHANGED <<feedbacks, sink, left>>
       ELSE closeContexts(Peers)
  /\ stopped' = stopped \cup {i}
  /\ UNCHANGED <<current, todo, taskVars, holders, answers>>

start(i) ==
  /\ instance[i] \in {"created", "stopped"}
  /\ instance' = [instance EXCEPT ![i] = "started"]
  /\ UNCHANGED <<feedbacks, sink, current, todo, taskVars, holders, historyVars>>

(* The last shared pointer goes: no task has locked the object.  One that  *)
(* was never started may as well stay: nobody asks it.                     *)
destroy(i) ==
  /\ current = None
  /\ instance[i] = "stopped"
  /\ \A r \in Requests :
       pc[<<r, i>>] \in {"new", "unasked", "skipped", "posted", "done"}
  /\ instance' = [instance EXCEPT ![i] = "gone"]
  /\ UNCHANGED <<feedbacks, sink, current, todo, taskVars, holders, historyVars>>

-----------------------------------------------------------------------------
(* A posted task, on a thread of the pool                                  *)

(* Mutant: keepPeerAlive does not take the context's lock.                 *)
neverWaits(r) == FALSE

(* keepPeerAlive, the task's first call into the network, takes            *)
(* state_mutex_ of the peer's context, which onRequest holds in its loop.  *)
waitsForOnRequest(r) ==
  /\ networkStarted
  /\ current # None
  /\ PeerOf[current] = PeerOf[r]

begin(t) ==
  /\ pc[t] = "posted"
  /\ \/ /\ instance[t[2]] = "gone"
        /\ pc' = [pc EXCEPT ![t] = "done"]
        /\ UNCHANGED holders
     \/ /\ instance[t[2]] = "stopped"
        /\ pc' = [pc EXCEPT ![t] = "done"]
        /\ removeStatus(t)
     \/ /\ instance[t[2]] = "started"
        /\ ~waitsForOnRequest(t[1])
        /\ pc' = [pc EXCEPT ![t] = "selecting"]
        /\ UNCHANGED holders
  /\ UNCHANGED <<callerVars, status, outcome, historyVars>>

(* Mutant: a refused block is reported as a partial answer.                *)
statusOfPartial(o) ==
  CASE o = "found"   -> RS_FULL_CONTENT
    [] o = "none"    -> RS_NOT_FOUND
    [] o = "refused" -> RS_PARTIAL_RESPONSE
    [] OTHER         -> RS_REQUEST_FAILED

(* Mutant: a search that finds nothing does not update its holder.         *)
statusOfUnset(o) ==
  CASE o = "found" -> RS_FULL_CONTENT
    [] o = "none"  -> RS_AWAITING_STATUS
    [] OTHER       -> RS_REQUEST_FAILED

(* What the task writes into its holder for each outcome.                  *)
statusOf(o) ==
  CASE o = "found" -> RS_FULL_CONTENT
    [] o = "none"  -> RS_NOT_FOUND
    [] OTHER       -> RS_REQUEST_FAILED

(* service_->select, or getNode when the selector is empty.                *)
select(t, o) ==
  /\ pc[t] = "selecting"
  /\ outcome' = [outcome EXCEPT ![t] = o]
  /\ status' = [status EXCEPT ![t] = statusOf(o)]
  /\ pc' = [pc EXCEPT ![t] = CASE o = "found" -> "answer"
                               [] o = "none"  -> "check"
                               [] OTHER       -> "failed"]
  /\ UNCHANGED <<callerVars, holders, historyVars>>

(* Nothing is sent when a selection fails.                                 *)
fail(t) ==
  /\ pc[t] = "failed"
  /\ removeStatus(t)
  /\ pc' = [pc EXCEPT ![t] = "done"]
  /\ UNCHANGED <<callerVars, status, outcome, historyVars>>

(* "Check if all other instances also reported NOT_FOUND": if not, the     *)
(* answer is left to them.                                                 *)
check(t) ==
  /\ pc[t] = "check"
  /\ pc' = [pc EXCEPT ![t] =
              IF allStatusesNotFound(IdOfTask(t)) THEN "answer" ELSE "done"]
  /\ UNCHANGED <<callerVars, status, outcome, holders, historyVars>>

(* Verify that the instance is still started ...                           *)
decide(t) ==
  /\ pc[t] = "answer"
  /\ pc' = [pc EXCEPT ![t] =
              IF instance[t[2]] = "started" THEN "sending" ELSE "cleaning"]
  /\ UNCHANGED <<callerVars, status, outcome, holders, historyVars>>

(* ... Network::sendResponse, which finds the stream by peer and id ...    *)
sendResponse(t) ==
  LET to == sink[PeerOf[t[1]]][IdOfTask(t)] IN
  /\ pc[t] = "sending"
  /\ ~waitsForOnRequest(t[1])
  /\ answers' = IF to = None THEN answers
                             ELSE [answers EXCEPT ![to] = @ \cup {status[t]}]
  /\ pc' = [pc EXCEPT ![t] = "cleaning"]
  /\ UNCHANGED <<callerVars, status, outcome, holders, left, stopped>>

(* ... and remove all tracking of the request.                             *)
finish(t) ==
  /\ pc[t] = "cleaning"
  /\ removeRequest(IdOfTask(t))
  /\ pc' = [pc EXCEPT ![t] = "done"]
  /\ UNCHANGED <<callerVars, status, outcome, historyVars>>

run(t) ==
  \/ begin(t)
  \/ \E o \in Outcomes : select(t, o)
  \/ fail(t)
  \/ check(t)
  \/ decide(t)
  \/ sendResponse(t)
  \/ finish(t)

Next ==
  \/ \E p \in Peers : connect(p) \/ disconnect(p)
  \/ \E r \in Requests : onRequest(r) \/ leave(r)
  \/ \E i \in Instances : onRemoteRequest(i)
                          \/ stop(i) \/ start(i) \/ destroy(i)
  \/ \E t \in Tasks : run(t)

Spec == Init /\ [][Next]_vars

-----------------------------------------------------------------------------

PCs == {"new", "unasked", "skipped", "posted", "selecting", "failed", "check",
        "answer", "sending", "cleaning", "done"}

(* Values each variable of onRemoteRequest and of the generator may take.  *)
TypeOK ==
  /\ instance \in [Instances -> {"created", "started", "stopped", "gone"}]
  /\ feedbacks \in [Peers -> SUBSET Instances]
  /\ sink \in [Peers -> [Ids -> Requests \cup {None}]]
  /\ current \in Requests \cup {None}
  /\ todo \subseteq Instances
  /\ pc \in [Tasks -> PCs]
  /\ status \in [Tasks -> {RS_AWAITING_STATUS, RS_FULL_CONTENT, RS_NOT_FOUND,
                           RS_REQUEST_FAILED}]
  /\ holders \in [Ids -> SUBSET Tasks]
  /\ outcome \in [Tasks -> Outcomes \cup {"pending"}]
  /\ answers \in [Requests -> SUBSET {RS_FULL_CONTENT, RS_NOT_FOUND}]
  /\ left \subseteq Requests
  /\ stopped \subseteq Instances

(* Every task of r is over.                                                *)
served(r) ==
  /\ r # current
  /\ \A i \in Instances : pc[<<r, i>>] \in {"done", "skipped", "unasked"}

(* The instances onRequest called for r.                                   *)
asked(r) == {i \in Instances : pc[<<r, i>>] # "unasked"}

(* None of them failed or refused a block, and no instance was stopped.    *)
undisturbed(r) ==
  /\ stopped = {}
  /\ \A i \in asked(r) : outcome[<<r, i>>] \in {"found", "none"}

(* A peer that was told RS_NOT_FOUND was told the truth: no instance that  *)
(* was asked has found the content or will.  The registration of the       *)
(* instances (onRequest's loop) races with the tasks of the first ones;    *)
(* only the context's lock, taken by keepPeerAlive, keeps them apart.      *)
NotFoundIsTrue ==
  \A r \in Requests :
    RS_NOT_FOUND \in answers[r] =>
      \A i \in Instances : /\ outcome[<<r, i>>] # "found"
                           /\ pc[<<r, i>>] \notin {"posted", "selecting"}

(* No answer is lost between the instances: when every task of a request   *)
(* is over and none failed, the peer, if it still listens, was answered,   *)
(* although each task that found nothing may leave the answer to another.  *)
AnsweredUnlessDisturbed ==
  \A r \in Requests :
    served(r) /\ undisturbed(r) /\ r \notin left => answers[r] # {}

(* Nor does a holder outlive its request: unless an instance failed or was *)
(* stopped, request_holders_ has no entry left when the last task is over. *)
HoldersReleased ==
  \A r \in Requests :
    served(r) /\ undisturbed(r) =>
      holders[IdOf[r]] \cap ({r} \X Instances) = {}

(* onRemoteRequest sends RS_NOT_FOUND when "All instances reported         *)
(* NOT_FOUND": a peer that still waits when every instance that was asked  *)
(* has said so was answered.  Status holders are kept by request id alone, *)
(* and two peers may choose the same id.                                   *)
NotFoundReported ==
  \A r \in Requests :
    /\ served(r)
    /\ stopped = {}
    /\ \A i \in asked(r) : outcome[<<r, i>>] = "none"
    /\ r \notin left
    => RS_NOT_FOUND \in answers[r]

=============================================================================
