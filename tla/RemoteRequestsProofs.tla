------------------------ MODULE RemoteRequestsProofs ------------------------
(***************************************************************************)
(* Proofs about RemoteRequests for any number of instances, peers and      *)
(* requests.                                                               *)
(***************************************************************************)
EXTENDS RemoteRequests, TLAPS

(* No two requests have the same id.  RequestIdGenerator keeps the status  *)
(* holders by id alone and nothing in the code enforces this for requests  *)
(* of different peers.  It cannot be dropped: with two peers that choose   *)
(* the same id and two instances TLC refutes NotFoundIsTrue,               *)
(* AnsweredUnlessDisturbed and HoldersReleased, and with one instance      *)
(* NotFoundReported.                                                       *)
DistinctIds == \A r, s \in Requests : IdOf[r] = IdOf[s] => r = s

-----------------------------------------------------------------------------
(* The inductive invariant.                                                *)

(* The holder of a task says what its selection came to, and the task is   *)
(* where that outcome leads.                                               *)
TaskInv ==
  \A t \in Tasks :
    /\ pc[t] \in {"new", "unasked", "skipped", "posted", "selecting"} =>
         outcome[t] = "pending"
    /\ pc[t] = "failed" => outcome[t] \in {"error", "refused"}
    /\ pc[t] = "check" => outcome[t] = "none"
    /\ pc[t] \in {"answer", "sending", "cleaning"} =>
         outcome[t] \in {"found", "none"}
    /\ outcome[t] = "found" <=> status[t] = RS_FULL_CONTENT
    /\ outcome[t] = "none" <=> status[t] = RS_NOT_FOUND

(* onRequest's loop: instances it has yet to call have no task, and the    *)
(* tasks it has posted wait for its lock or end without a selection.       *)
NotStarted == {"new", "unasked", "skipped", "posted", "done"}

LoopInv ==
  /\ todo = {} <=> current = None
  /\ \A r \in Requests, i \in Instances :
       r = current => /\ i \in todo <=> pc[<<r, i>>] = "new"
                      /\ pc[<<r, i>>] \in NotStarted
                      /\ outcome[<<r, i>>] = "pending"
  /\ \A r \in Requests, i, j \in Instances :
       r # current /\ pc[<<r, i>>] = "new" => pc[<<r, j>>] = "new"

Live == {"posted", "selecting", "failed", "check", "answer", "sending",
         "cleaning"}

(* Holders go one by one when a task fails or its instance has stopped,    *)
(* and otherwise all at once, after an answer.                             *)
HolderInv ==
  /\ \A r \in Requests : holders[IdOf[r]] \subseteq {r} \X Instances
  /\ \A r \in Requests, i \in Instances :
       /\ <<r, i>> \in holders[IdOf[r]] =>
            pc[<<r, i>>] \notin {"new", "unasked", "skipped"}
       /\ /\ pc[<<r, i>>] \in Live
          /\ holders[IdOf[r]] # {} \/ r = current
          => <<r, i>> \in holders[IdOf[r]]
       /\ outcome[<<r, i>>] = "none" /\ holders[IdOf[r]] # {}
          => <<r, i>> \in holders[IdOf[r]]
       /\ outcome[<<r, i>>] = "found" /\ pc[<<r, i>>] = "done"
          => holders[IdOf[r]] = {}

(* Every instance has had its turn with r, and none has found anything.    *)
Settled(r) ==
  /\ r # current
  /\ \A i \in Instances : /\ outcome[<<r, i>>] # "found"
                          /\ pc[<<r, i>>] \notin {"new", "posted", "selecting"}

(* A task answers RS_NOT_FOUND only for a request that is settled.         *)
NotFoundInv ==
  \A r \in Requests :
    /\ RS_NOT_FOUND \in answers[r] => Settled(r)
    /\ \A i \in Instances :
         /\ pc[<<r, i>>] \in {"answer", "sending", "cleaning"}
         /\ outcome[<<r, i>>] = "none"
         => Settled(r)

(* The id of a request that is being served leads to it until it is left.  *)
SinkInv ==
  /\ \A r \in Requests : sink[PeerOf[r]][IdOf[r]] \in {r, None}
  /\ \A r \in Requests, i \in Instances :
       r \notin left /\ (r = current \/ pc[<<r, i>>] # "new")
         => sink[PeerOf[r]][IdOf[r]] = r

(* An instance that is not started was stopped at some time, or it was     *)
(* never started and nobody asks it.                                       *)
StartInv ==
  \A i \in Instances :
    /\ instance[i] \in {"stopped", "gone"} => i \in stopped
    /\ instance[i] = "created" =>
         /\ i \notin todo
         /\ \A p \in Peers : i \notin feedbacks[p]
         /\ \A r \in Requests : pc[<<r, i>>] \in {"new", "unasked"}

(* While nobody stops an instance, holders disappear only through failures *)
(* or an answer, and the last task to end cleans up.                       *)
AnswerInv ==
  stopped = {} =>
    \A r \in Requests :
      /\ \A i \in Instances :
           r \notin left /\ pc[<<r, i>>] = "cleaning" => answers[r] # {}
      /\ \A i \in Instances :
           /\ r \notin left
           /\ r # current
           /\ pc[<<r, i>>] # "new"
           /\ holders[IdOf[r]] = {}
           => \/ answers[r] # {}
              \/ \E j \in Instances :
                   outcome[<<r, j>>] \in {"error", "refused"}
      /\ (\A i \in asked(r) : /\ pc[<<r, i>>] = "done"
                              /\ outcome[<<r, i>>] \in {"found", "none"})
           => holders[IdOf[r]] = {}

ServingInv ==
  /\ TypeOK
  /\ TaskInv
  /\ LoopInv
  /\ HolderInv
  /\ NotFoundInv
  /\ SinkInv
  /\ StartInv
  /\ AnswerInv

-----------------------------------------------------------------------------
(* Type correctness, with where each task is and what its holder says.     *)

(* A task is a request and an instance.                                    *)
LEMMA TaskParts ==
  /\ \A t \in Tasks : /\ t[1] \in Requests /\ t[2] \in Instances
                      /\ t = <<t[1], t[2]>>
                      /\ IdOfTask(t) = IdOf[t[1]] /\ IdOfTask(t) \in Ids
  /\ \A r \in Requests : IdOf[r] \in Ids /\ PeerOf[r] \in Peers
  /\ \A r \in Requests, i \in Instances : <<r, i>> \in Tasks
BY DEF Tasks, IdOfTask, Ids, Peers

(* What a holder may say is within its type, and tells outcomes apart.     *)
LEMMA StatusOfOutcome ==
  \A o \in Outcomes :
    /\ statusOf(o) \in {RS_FULL_CONTENT, RS_NOT_FOUND, RS_REQUEST_FAILED}
    /\ o = "found" <=> statusOf(o) = RS_FULL_CONTENT
    /\ o = "none" <=> statusOf(o) = RS_NOT_FOUND
BY OutcomesAssumption DEF statusOf, RS_FULL_CONTENT, RS_NOT_FOUND,
   RS_REQUEST_FAILED

(* An action that moves one task changes nothing else in pc.               *)
LEMMA Moved ==
  ASSUME TypeOK, NEW t \in Tasks, NEW v, pc' = [pc EXCEPT ![t] = v]
  PROVE  pc'[t] = v /\ \A u \in Tasks \ {t} : pc'[u] = pc[u]
BY DEF TypeOK

(* onRequest's loop calls an instance that it has not called yet.          *)
LEMMA LoopTurn ==
  ASSUME TypeOK, LoopInv, NEW i \in Instances, onRemoteRequest(i)
  PROVE  /\ current \in Requests
         /\ <<current, i>> \in Tasks
         /\ pc[<<current, i>>] = "new"
<1>1. i \in todo
  BY DEF onRemoteRequest
<1>2. current \in Requests
  BY <1>1 DEF LoopInv, TypeOK
<1> QED
  BY <1>1, <1>2, TaskParts DEF LoopInv

(* Changing the stream of one request leaves those of other ids alone.     *)
LEMMA SinkChange ==
  ASSUME TypeOK, NEW r \in Requests, NEW v \in Requests \cup {None}
  PROVE  LET new == [sink EXCEPT ![PeerOf[r]][IdOf[r]] = v] IN
         /\ new \in [Peers -> [Ids -> Requests \cup {None}]]
         /\ new[PeerOf[r]][IdOf[r]] = v
         /\ \A s \in Requests :
              IdOf[s] # IdOf[r] =>
                new[PeerOf[s]][IdOf[s]] = sink[PeerOf[s]][IdOf[s]]
<1> DEFINE p == PeerOf[r]
           new == [sink EXCEPT ![p][IdOf[r]] = v]
<1>1. p \in Peers /\ IdOf[r] \in Ids
  BY TaskParts
<1>2. sink[p] \in [Ids -> Requests \cup {None}]
  BY <1>1 DEF TypeOK
<1>3. new = [sink EXCEPT ![p] = [sink[p] EXCEPT ![IdOf[r]] = v]]
  OBVIOUS
<1>4. [sink[p] EXCEPT ![IdOf[r]] = v] \in [Ids -> Requests \cup {None}]
  BY <1>1, <1>2
<1>5. new \in [Peers -> [Ids -> Requests \cup {None}]]
  BY <1>3, <1>4 DEF TypeOK
<1>6. new[p][IdOf[r]] = v
  BY <1>1, <1>2, <1>3 DEF TypeOK
<1>7. ASSUME NEW s \in Requests, IdOf[s] # IdOf[r]
      PROVE  new[PeerOf[s]][IdOf[s]] = sink[PeerOf[s]][IdOf[s]]
  <2>1. PeerOf[s] \in Peers /\ IdOf[s] \in Ids
    BY TaskParts
  <2> QED
    BY <1>1, <1>2, <1>3, <1>7, <2>1 DEF TypeOK
<1> QED
  BY <1>5, <1>6, <1>7

(* Closing contexts takes their streams away and leaves the rest.          *)
LEMMA ContextsClosed ==
  ASSUME TypeOK, NEW P \in SUBSET Peers, closeContexts(P)
  PROVE  /\ feedbacks' \in [Peers -> SUBSET Instances]
         /\ \A p \in Peers : feedbacks'[p] \subseteq feedbacks[p]
         /\ sink' \in [Peers -> [Ids -> Requests \cup {None}]]
         /\ left \subseteq left' /\ left' \subseteq Requests
         /\ \A p \in Peers, n \in Ids :
              \/ sink'[p][n] = sink[p][n]
              \/ sink'[p][n] = None /\ sink[p][n] \in left' \cup {None}
<1>1. \A p \in Peers : sink[p] \in [Ids -> Requests \cup {None}]
  BY DEF TypeOK
<1>2. feedbacks' \in [Peers -> SUBSET Instances]
      /\ \A p \in Peers : feedbacks'[p] \subseteq feedbacks[p]
  BY DEF closeContexts, TypeOK
<1>3. sink' \in [Peers -> [Ids -> Requests \cup {None}]]
  BY <1>1 DEF closeContexts
<1>4. left \subseteq left' /\ left' \subseteq Requests
  BY <1>1, NoneAssumption DEF closeContexts, TypeOK
<1>5. ASSUME NEW p \in Peers, NEW n \in Ids
      PROVE  \/ sink'[p][n] = sink[p][n]
             \/ sink'[p][n] = None /\ sink[p][n] \in left' \cup {None}
  BY <1>1, <1>5 DEF closeContexts
<1> QED
  BY <1>2, <1>3, <1>4, <1>5

(* onRequest takes the instances of the context's copy, and only them.     *)
LEMMA RequestTaken ==
  ASSUME TypeOK, NEW r \in Requests, onRequest(r)
  PROVE  /\ current = None /\ current' = r
         /\ todo' = feedbacks[PeerOf[r]] /\ todo' # {} /\ todo' \subseteq Instances
         /\ \A i \in Instances :
              /\ pc[<<r, i>>] = "new"
              /\ pc'[<<r, i>>] = IF i \in todo' THEN "new" ELSE "unasked"
         /\ \A s \in Requests \ {r}, i \in Instances :
              pc'[<<s, i>>] = pc[<<s, i>>]
         /\ UNCHANGED <<status, outcome, holders, answers, left, stopped>>
BY TaskParts DEF onRequest, TypeOK, historyVars

(* It moves no task but to set it aside.                                   *)
LEMMA SetAside ==
  ASSUME TypeOK, NEW r \in Requests, onRequest(r)
  PROVE  \A s \in Requests, i \in Instances :
           \/ pc'[<<s, i>>] = pc[<<s, i>>]
           \/ pc[<<s, i>>] = "new" /\ pc'[<<s, i>>] = "unasked"
<1> TAKE s \in Requests, i \in Instances
<1>1. CASE s = r
  <2>1. /\ pc[<<r, i>>] = "new"
        /\ pc'[<<r, i>>] = IF i \in todo' THEN "new" ELSE "unasked"
    BY RequestTaken
  <2> QED
    BY <1>1, <2>1
<1>2. CASE s # r
  BY <1>2, RequestTaken
<1> QED
  BY <1>1, <1>2

(* Every step keeps the types.                                             *)
LEMMA StepType ==
  TypeOK /\ TaskInv /\ LoopInv /\ [Next]_vars => TypeOK'
<1> SUFFICES ASSUME TypeOK, TaskInv, LoopInv, [Next]_vars
             PROVE  TypeOK'
  OBVIOUS
<1> USE DEF taskVars, callerVars, historyVars
<1>1. ASSUME NEW r \in Requests, onRequest(r) \/ leave(r)
      PROVE  TypeOK'
  <2>1. sink' \in [Peers -> [Ids -> Requests \cup {None}]]
    BY <1>1, SinkChange DEF onRequest, leave
  <2>2. pc' \in [Tasks -> PCs] /\ todo' \subseteq Instances
    BY <1>1, TaskParts DEF onRequest, leave, TypeOK, PCs
  <2> QED
    BY <1>1, <2>1, <2>2 DEF onRequest, leave, TypeOK
<1>2. ASSUME NEW i \in Instances, onRemoteRequest(i)
      PROVE  TypeOK'
  <2> DEFINE t == <<current, i>>
  <2>1. t \in Tasks
    BY <1>2, LoopTurn
  <2>2. holders' = holders \/ registerStatus(t)
    BY <1>2 DEF onRemoteRequest
  <2>3. holders' \in [Ids -> SUBSET Tasks]
    <3>1. IdOfTask(t) \in Ids /\ holders \in [Ids -> SUBSET Tasks]
      BY <2>1, TaskParts DEF TypeOK
    <3> QED
      BY <2>1, <2>2, <3>1 DEF registerStatus
  <2>4. pc' = [pc EXCEPT ![t] = "posted"] \/ pc' = [pc EXCEPT ![t] = "skipped"]
    BY <1>2 DEF onRemoteRequest
  <2>5. pc' \in [Tasks -> PCs]
    BY <2>4 DEF TypeOK, PCs
  <2> QED
    BY <1>2, <2>3, <2>5 DEF onRemoteRequest, TypeOK
<1>3. ASSUME NEW i \in Instances, stop(i)
      PROVE  TypeOK'
  <2>1. sink' \in [Peers -> [Ids -> Requests \cup {None}]]
    BY <1>3, ContextsClosed DEF stop, TypeOK
  <2>2. left' \subseteq Requests /\ feedbacks' \in [Peers -> SUBSET Instances]
    BY <1>3, ContextsClosed DEF stop, TypeOK
  <2> QED
    BY <1>3, <2>1, <2>2 DEF stop, TypeOK
<1>4. ASSUME NEW i \in Instances, start(i) \/ destroy(i)
      PROVE  TypeOK'
  BY <1>4 DEF start, destroy, TypeOK
<1>5. ASSUME NEW t \in Tasks, run(t)
      PROVE  TypeOK'
  <2>1. CASE begin(t)
    <3>1. pc' \in [Tasks -> PCs]
      BY <2>1 DEF begin, TypeOK, PCs
    <3>2. holders' = holders \/ removeStatus(t)
      BY <2>1 DEF begin
    <3>3. holders' \in [Ids -> SUBSET Tasks]
      BY <3>2, TaskParts DEF removeStatus, TypeOK
    <3> QED
      BY <2>1, <3>1, <3>3 DEF begin, TypeOK
  <2>2. ASSUME NEW o \in Outcomes, select(t, o)
        PROVE  TypeOK'
    BY <2>2, StatusOfOutcome DEF select, TypeOK, PCs
  <2>3. CASE fail(t)
    BY <2>3 DEF fail, removeStatus, TypeOK, PCs
  <2>4. CASE check(t)
    BY <2>4 DEF check, TypeOK, PCs
  <2>5. CASE decide(t)
    BY <2>5 DEF decide, TypeOK, PCs
  <2>6. CASE sendResponse(t)
    <3>1. status[t] \in {RS_FULL_CONTENT, RS_NOT_FOUND}
      BY <2>6 DEF sendResponse, TaskInv
    <3>2. answers' \in [Requests -> SUBSET {RS_FULL_CONTENT, RS_NOT_FOUND}]
      BY <2>6, <3>1, TaskParts DEF sendResponse, TypeOK
    <3> QED
      BY <2>6, <3>2 DEF sendResponse, TypeOK, PCs
  <2>7. CASE finish(t)
    BY <2>7 DEF finish, removeRequest, TypeOK, PCs
  <2> QED
    BY <1>5, <2>1, <2>2, <2>3, <2>4, <2>5, <2>6, <2>7 DEF run
<1>6. ASSUME NEW p \in Peers, connect(p) \/ disconnect(p)
      PROVE  TypeOK'
  <2>1. CASE connect(p)
    BY <2>1 DEF connect, TypeOK
  <2>2. CASE disconnect(p)
    BY <2>2, ContextsClosed DEF disconnect, TypeOK
  <2> QED
    BY <1>6, <2>1, <2>2
<1>7. CASE UNCHANGED vars
  BY <1>7 DEF vars, TypeOK
<1> QED
  BY <1>1, <1>2, <1>3, <1>4, <1>5, <1>6, <1>7 DEF Next

(* Every step keeps statuses in step with outcomes.                        *)
LEMMA StepTask ==
  TypeOK /\ TaskInv /\ LoopInv /\ [Next]_vars => TaskInv'
<1> SUFFICES ASSUME TypeOK, TaskInv, LoopInv, [Next]_vars
             PROVE  TaskInv'
  OBVIOUS
<1> USE DEF taskVars, callerVars, historyVars
<1>1. ASSUME UNCHANGED taskVars
      PROVE  TaskInv'
  BY <1>1 DEF TaskInv
<1>2. ASSUME NEW r \in Requests, onRequest(r) \/ leave(r)
      PROVE  TaskInv'
  <2>1. CASE onRequest(r)
    <3>1. \A t \in Tasks : \/ pc'[t] = pc[t]
                           \/ pc[t] = "new" /\ pc'[t] = "unasked"
      <4> TAKE t \in Tasks
      <4>1. PICK s \in Requests, i \in Instances : t = <<s, i>>
        BY TaskParts
      <4> QED
        BY <1>2, <2>1, <4>1, SetAside
    <3> QED
      BY <2>1, <3>1 DEF onRequest, TaskInv
  <2>2. CASE leave(r)
    BY <1>1, <2>2 DEF leave
  <2> QED
    BY <1>2, <2>1, <2>2
<1>3. ASSUME NEW i \in Instances, onRemoteRequest(i)
      PROVE  TaskInv'
  <2> DEFINE t == <<current, i>>
  <2>1. t \in Tasks /\ pc[t] = "new"
    BY <1>3, LoopTurn
  <2>2. /\ UNCHANGED <<status, outcome>>
        /\ \/ pc' = [pc EXCEPT ![t] = "posted"]
           \/ pc' = [pc EXCEPT ![t] = "skipped"]
    BY <1>3 DEF onRemoteRequest
  <2> QED
    BY <2>1, <2>2 DEF TaskInv, TypeOK
<1>4. ASSUME NEW i \in Instances, stop(i) \/ start(i) \/ destroy(i)
      PROVE  TaskInv'
  BY <1>1, <1>4 DEF stop, start, destroy
<1>5. ASSUME NEW t \in Tasks, run(t)
      PROVE  TaskInv'
  <2>1. ASSUME NEW o \in Outcomes, select(t, o)
        PROVE  TaskInv'
    <3>1. pc'[t] = CASE o = "found" -> "answer"
                     [] o = "none"  -> "check"
                     [] OTHER       -> "failed"
      BY <2>1 DEF select, TypeOK
    <3>2. outcome'[t] = o /\ status'[t] = statusOf(o)
      BY <2>1 DEF select, TypeOK
    <3>3. \A u \in Tasks \ {t} : /\ pc'[u] = pc[u]
                                 /\ outcome'[u] = outcome[u]
                                 /\ status'[u] = status[u]
      BY <2>1 DEF select, TypeOK
    <3>4. o \in {"found", "none", "error", "refused"}
      BY OutcomesAssumption
    <3> QED
      BY <3>1, <3>2, <3>3, <3>4, StatusOfOutcome DEF TaskInv
  <2>2. CASE begin(t)
    BY <2>2 DEF begin, TypeOK, TaskInv
  <2>3. CASE fail(t)
    BY <2>3 DEF fail, TypeOK, TaskInv
  <2>4. CASE check(t)
    BY <2>4 DEF check, TypeOK, TaskInv
  <2>5. CASE decide(t)
    BY <2>5 DEF decide, TypeOK, TaskInv
  <2>6. CASE sendResponse(t)
    BY <2>6 DEF sendResponse, TypeOK, TaskInv
  <2>7. CASE finish(t)
    BY <2>7 DEF finish, TypeOK, TaskInv
  <2> QED
    BY <1>5, <2>1, <2>2, <2>3, <2>4, <2>5, <2>6, <2>7 DEF run
<1>6. ASSUME NEW p \in Peers, connect(p) \/ disconnect(p)
      PROVE  TaskInv'
  BY <1>1, <1>6 DEF connect, disconnect
<1>7. CASE UNCHANGED vars
  BY <1>1, <1>7 DEF vars
<1> QED
  BY <1>2, <1>3, <1>4, <1>5, <1>6, <1>7 DEF Next

(* A step of a task moves that task only, and never back.                  *)
LEMMA RunShape ==
  ASSUME TypeOK, NEW t \in Tasks, run(t)
  PROVE  /\ UNCHANGED <<callerVars, left, stopped>>
         /\ pc[t] \in Live
         /\ pc'[t] \in (Live \ {"posted"}) \cup {"done"}
         /\ pc'[t] = "selecting" => pc[t] = "posted"
         /\ \A u \in Tasks \ {t} : pc'[u] = pc[u] /\ outcome'[u] = outcome[u]
         /\ pc[t] # "selecting" => outcome' = outcome
<1> USE DEF taskVars, callerVars, historyVars, Live, TypeOK
<1>1. CASE begin(t)
  BY <1>1 DEF begin
<1>2. ASSUME NEW o \in Outcomes, select(t, o)
      PROVE  /\ UNCHANGED <<callerVars, left, stopped>>
             /\ pc[t] = "selecting"
             /\ pc'[t] \in {"answer", "check", "failed"}
             /\ \A u \in Tasks \ {t} : pc'[u] = pc[u] /\ outcome'[u] = outcome[u]
  BY <1>2 DEF select
<1>3. CASE fail(t)
  BY <1>3 DEF fail
<1>4. CASE check(t)
  BY <1>4 DEF check
<1>5. CASE decide(t)
  BY <1>5 DEF decide
<1>6. CASE sendResponse(t)
  BY <1>6 DEF sendResponse
<1>7. CASE finish(t)
  BY <1>7 DEF finish
<1> QED
  BY <1>1, <1>2, <1>3, <1>4, <1>5, <1>6, <1>7 DEF run

(* A task of the request that onRequest hands out can only give up: it     *)
(* cannot pass keepPeerAlive before the loop has ended.                    *)
LEMMA WaitsForLoop ==
  ASSUME TypeOK, LoopInv, NEW t \in Tasks, run(t), t[1] = current
  PROVE  /\ begin(t)
         /\ pc'[t] = "done"
         /\ outcome' = outcome
         /\ instance[t[2]] # "started"
<1>1. t[1] \in Requests /\ t[2] \in Instances /\ t = <<t[1], t[2]>>
  BY TaskParts
<1>2. pc[t] = "posted"
  BY <1>1, RunShape DEF LoopInv, Live, NotStarted
<1>3. begin(t)
  BY <1>2 DEF run, select, fail, check, decide, sendResponse, finish
<1>4. ~(instance[t[2]] = "started" /\ ~waitsForOnRequest(t[1]))
  BY <1>1, NoneAssumption DEF waitsForOnRequest, networkStarted
<1> QED
  BY <1>3, <1>4 DEF begin, TypeOK

(* Every step keeps the loop of onRequest and the tasks it posts apart.    *)
LEMMA StepLoop ==
  TypeOK /\ TaskInv /\ LoopInv /\ [Next]_vars => LoopInv'
<1> SUFFICES ASSUME TypeOK, TaskInv, LoopInv, [Next]_vars
             PROVE  LoopInv'
  OBVIOUS
<1> USE DEF taskVars, callerVars, historyVars
<1>1. ASSUME UNCHANGED <<current, todo, pc, outcome>>
      PROVE  LoopInv'
  BY <1>1 DEF LoopInv
<1>2. ASSUME NEW r \in Requests, onRequest(r)
      PROVE  LoopInv'
  <2>1. \A i \in Instances : outcome'[<<r, i>>] = "pending"
    BY <1>2, RequestTaken, TaskParts DEF TaskInv
  <2> QED
    BY <1>2, <2>1, RequestTaken, NoneAssumption DEF LoopInv, NotStarted
<1>3. ASSUME NEW r \in Requests, leave(r)
      PROVE  LoopInv'
  BY <1>1, <1>3 DEF leave
<1>4. ASSUME NEW i \in Instances, onRemoteRequest(i)
      PROVE  LoopInv'
  <2> DEFINE t == <<current, i>>
  <2>1. /\ i \in todo
        /\ todo' = todo \ {i}
        /\ current' = IF todo' = {} THEN None ELSE current
        /\ outcome' = outcome
    BY <1>4 DEF onRemoteRequest
  <2>2. current \in Requests /\ t \in Tasks /\ pc[t] = "new"
    BY <1>4, LoopTurn
  <2>3. pc'[t] \in {"posted", "skipped"}
    BY <1>4, <2>2 DEF onRemoteRequest, TypeOK
  <2>4. \A u \in Tasks \ {t} : pc'[u] = pc[u]
    BY <1>4, <2>2 DEF onRemoteRequest, TypeOK
  <2>5. \A r \in Requests, j \in Instances :
          /\ r = current /\ j = i => pc'[<<r, j>>] \in {"posted", "skipped"}
          /\ r # current \/ j # i => pc'[<<r, j>>] = pc[<<r, j>>]
    BY <2>3, <2>4, TaskParts
  <2>6. todo' = {} <=> current' = None
    BY <2>1, <2>2, NoneAssumption
  <2>7. \A r \in Requests, j \in Instances :
          r = current' => /\ j \in todo' <=> pc'[<<r, j>>] = "new"
                          /\ pc'[<<r, j>>] \in NotStarted
                          /\ outcome'[<<r, j>>] = "pending"
    BY <2>1, <2>5, NoneAssumption DEF LoopInv, NotStarted
  <2>8. \A r \in Requests, j, k \in Instances :
          r # current' /\ pc'[<<r, j>>] = "new" => pc'[<<r, k>>] = "new"
    BY <2>1, <2>5 DEF LoopInv
  <2> QED
    BY <2>6, <2>7, <2>8 DEF LoopInv
<1>5. ASSUME NEW i \in Instances, stop(i) \/ start(i) \/ destroy(i)
      PROVE  LoopInv'
  BY <1>1, <1>5 DEF stop, start, destroy
<1>6. ASSUME NEW t \in Tasks, run(t)
      PROVE  LoopInv'
  <2>1. PICK r \in Requests, i \in Instances : t = <<r, i>>
    BY TaskParts
  <2>2. /\ UNCHANGED <<current, todo>>
        /\ pc[<<r, i>>] \in Live /\ pc'[<<r, i>>] \in Live \cup {"done"}
        /\ \A s \in Requests, j \in Instances :
             s # r \/ j # i => /\ pc'[<<s, j>>] = pc[<<s, j>>]
                              /\ outcome'[<<s, j>>] = outcome[<<s, j>>]
    BY <1>6, <2>1, RunShape, TaskParts
  <2>3. r = current => pc'[<<r, i>>] = "done" /\ outcome' = outcome
    BY <1>6, <2>1, WaitsForLoop
  <2>4. \A s \in Requests, j \in Instances :
          s = current => /\ j \in todo <=> pc'[<<s, j>>] = "new"
                         /\ pc'[<<s, j>>] \in NotStarted
                         /\ outcome'[<<s, j>>] = "pending"
    BY <2>2, <2>3 DEF LoopInv, Live, NotStarted
  <2>5. \A s \in Requests, j, k \in Instances :
          s # current /\ pc'[<<s, j>>] = "new" => pc'[<<s, k>>] = "new"
    BY <2>2 DEF LoopInv, Live
  <2> QED
    BY <2>2, <2>4, <2>5 DEF LoopInv
<1>7. CASE UNCHANGED vars
  BY <1>1, <1>7 DEF vars
<1>8. ASSUME NEW p \in Peers, connect(p) \/ disconnect(p)
      PROVE  LoopInv'
  BY <1>1, <1>8 DEF connect, disconnect
<1> QED
  BY <1>2, <1>3, <1>4, <1>5, <1>6, <1>7, <1>8 DEF Next

(* The initial state.                                                      *)
LEMMA InitTasks == Init => TypeOK /\ TaskInv /\ LoopInv
<1> SUFFICES ASSUME Init PROVE TypeOK /\ TaskInv /\ LoopInv
  OBVIOUS
<1>1. TypeOK
  BY DEF Init, TypeOK, PCs
<1>2. TaskInv
  BY DEF Init, TaskInv, RS_AWAITING_STATUS, RS_FULL_CONTENT, RS_NOT_FOUND
<1>3. LoopInv
  BY NoneAssumption DEF Init, LoopInv, Tasks
<1> QED
  BY <1>1, <1>2, <1>3

(* Theorem: the serving side keeps its types: only RS_FULL_CONTENT and     *)
(* RS_NOT_FOUND ever reach a peer from here.                               *)
THEOREM TypeCorrect == Spec => []TypeOK
<1> DEFINE Inv == TypeOK /\ TaskInv /\ LoopInv
<1>1. Init => Inv
  BY InitTasks
<1>2. Inv /\ [Next]_vars => Inv'
  BY StepType, StepTask, StepLoop
<1>3. Inv => TypeOK
  OBVIOUS
<1> HIDE DEF Inv
<1> QED
  BY <1>1, <1>2, <1>3, PTL DEF Spec

-----------------------------------------------------------------------------
(* Status holders.                                                         *)

(* With distinct ids, a change to the holders of one request leaves those  *)
(* of the others alone.                                                    *)
LEMMA HolderChange ==
  ASSUME DistinctIds, TypeOK, NEW r \in Requests, NEW S
  PROVE  LET new == [holders EXCEPT ![IdOf[r]] = S] IN
         /\ new[IdOf[r]] = S
         /\ \A s \in Requests \ {r} : new[IdOf[s]] = holders[IdOf[s]]
BY TaskParts DEF TypeOK, DistinctIds

(* What a step of a task does to the holders of its request: nothing, or   *)
(* it withdraws its own, or, after an answer, all of them.                 *)
LEMMA RunHolders ==
  ASSUME DistinctIds, TypeOK, TaskInv, NEW r \in Requests,
         NEW i \in Instances, run(<<r, i>>)
  PROVE  /\ \A s \in Requests \ {r} : holders'[IdOf[s]] = holders[IdOf[s]]
         /\ \/ /\ holders' = holders
               /\ pc'[<<r, i>>] = "done" =>
                    /\ outcome' = outcome
                    /\ \/ outcome[<<r, i>>] = "pending" /\ instance[i] # "started"
                       \/ /\ outcome[<<r, i>>] = "none"
                          /\ pc[<<r, i>>] = "check"
                          /\ ~allStatusesNotFound(IdOf[r])
            \/ /\ holders'[IdOf[r]] = holders[IdOf[r]] \ {<<r, i>>}
               /\ pc'[<<r, i>>] = "done"
               /\ outcome' = outcome
               /\ \/ outcome[<<r, i>>] = "pending" /\ instance[i] # "started"
                  \/ outcome[<<r, i>>] \in {"error", "refused"}
            \/ /\ holders'[IdOf[r]] = {}
               /\ pc[<<r, i>>] = "cleaning"
               /\ pc'[<<r, i>>] = "done"
               /\ outcome' = outcome
<1> DEFINE t == <<r, i>>
<1>1. t \in Tasks /\ t[1] = r /\ t[2] = i /\ IdOfTask(t) = IdOf[r]
  BY DEF Tasks, IdOfTask
<1> USE DEF taskVars, callerVars, historyVars
<1>2. CASE begin(t)
  <2>1. /\ pc[t] = "posted" /\ outcome' = outcome
        /\ outcome[t] = "pending"
    BY <1>1, <1>2 DEF begin, TaskInv
  <2>2. CASE holders' = holders
    BY <1>1, <1>2, <2>1, <2>2 DEF begin, TypeOK
  <2>3. CASE holders' # holders
    <3>1. removeStatus(t) /\ pc' = [pc EXCEPT ![t] = "done"]
          /\ instance[i] # "started"
      BY <1>1, <1>2, <2>3 DEF begin
    <3>2. holders' = [holders EXCEPT ![IdOf[r]] = holders[IdOf[r]] \ {t}]
      BY <1>1, <3>1 DEF removeStatus
    <3>3. pc'[t] = "done"
      BY <1>1, <3>1 DEF TypeOK
    <3> QED
      BY <2>1, <3>1, <3>2, <3>3, HolderChange
  <2> QED
    BY <2>2, <2>3
<1>3. ASSUME NEW o \in Outcomes, select(t, o)
      PROVE  holders' = holders /\ pc'[t] # "done"
  BY <1>1, <1>3 DEF select, TypeOK
<1>4. CASE fail(t)
  <2>1. holders' = [holders EXCEPT ![IdOf[r]] = holders[IdOf[r]] \ {t}]
    BY <1>1, <1>4 DEF fail, removeStatus
  <2>2. /\ pc'[t] = "done" /\ outcome' = outcome
        /\ outcome[t] \in {"error", "refused"}
    BY <1>1, <1>4 DEF fail, TypeOK, TaskInv
  <2> QED
    BY <2>1, <2>2, HolderChange
<1>5. CASE check(t)
  BY <1>1, <1>5 DEF check, TypeOK, TaskInv
<1>6. CASE decide(t)
  BY <1>1, <1>6 DEF decide, TypeOK
<1>7. CASE sendResponse(t)
  BY <1>1, <1>7 DEF sendResponse, TypeOK
<1>8. CASE finish(t)
  <2>1. holders' = [holders EXCEPT ![IdOf[r]] = {}]
    BY <1>1, <1>8 DEF finish, removeRequest
  <2>2. pc[t] = "cleaning" /\ pc'[t] = "done" /\ outcome' = outcome
    BY <1>1, <1>8 DEF finish, TypeOK
  <2> QED
    BY <2>1, <2>2, HolderChange
<1> QED
  BY <1>2, <1>3, <1>4, <1>5, <1>6, <1>7, <1>8 DEF run

(* Every step keeps a live task registered, unless an answer was given.    *)
LEMMA StepHolders ==
  ASSUME DistinctIds
  PROVE  TypeOK /\ TaskInv /\ LoopInv /\ HolderInv /\ [Next]_vars => HolderInv'
<1> SUFFICES ASSUME TypeOK, TaskInv, LoopInv, HolderInv, [Next]_vars
             PROVE  HolderInv'
  OBVIOUS
<1> USE DEF taskVars, callerVars, historyVars
<1>1. ASSUME UNCHANGED <<current, pc, outcome, holders>>
      PROVE  HolderInv'
  BY <1>1 DEF HolderInv
<1>2. ASSUME NEW r \in Requests, onRequest(r)
      PROVE  HolderInv'
  <2>1. \A s \in Requests, i \in Instances :
          \/ pc'[<<s, i>>] = pc[<<s, i>>]
          \/ pc[<<s, i>>] = "new" /\ pc'[<<s, i>>] = "unasked"
    BY <1>2, SetAside
  <2>2. \A i \in Instances : pc'[<<r, i>>] \in {"new", "unasked"}
    BY <1>2, RequestTaken
  <2> QED
    BY <1>2, <2>1, <2>2, RequestTaken DEF HolderInv, Live
<1>3. ASSUME NEW r \in Requests, leave(r)
      PROVE  HolderInv'
  BY <1>1, <1>3 DEF leave
<1>4. ASSUME NEW i \in Instances, onRemoteRequest(i)
      PROVE  HolderInv'
  <2> DEFINE t == <<current, i>>
  <2>1. /\ i \in todo
        /\ current' = IF todo' = {} THEN None ELSE current
        /\ outcome' = outcome
    BY <1>4 DEF onRemoteRequest
  <2>2. current \in Requests /\ t \in Tasks /\ pc[t] = "new"
    BY <1>4, LoopTurn
  <2>3. IdOfTask(t) = IdOf[current]
    BY <2>2 DEF IdOfTask
  <2>4. \A r \in Requests, j \in Instances :
          r # current \/ j # i => pc'[<<r, j>>] = pc[<<r, j>>]
    BY <1>4, <2>2, TaskParts DEF onRemoteRequest, TypeOK
  <2>5. \A j \in Instances : outcome[<<current, j>>] = "pending"
    BY <2>2 DEF LoopInv
  <2>6. t \notin holders[IdOf[current]]
    BY <2>2 DEF HolderInv
  <2>7. CASE instance[i] = "started"
    <3>1. /\ holders' = [holders EXCEPT ![IdOf[current]] = holders[IdOf[current]] \cup {t}]
          /\ pc'[t] = "posted"
      BY <1>4, <2>2, <2>3, <2>7 DEF onRemoteRequest, registerStatus, TypeOK
    <3>2. holders'[IdOf[current]] = holders[IdOf[current]] \cup {t}
      BY <2>2, <3>1, HolderChange
    <3>3. \A s \in Requests \ {current} : holders'[IdOf[s]] = holders[IdOf[s]]
      BY <2>2, <3>1, HolderChange
    <3>4. \A r \in Requests : holders'[IdOf[r]] \subseteq {r} \X Instances
      BY <2>2, <3>2, <3>3 DEF HolderInv
    <3>5. ASSUME NEW r \in Requests, NEW j \in Instances
          PROVE  /\ <<r, j>> \in holders'[IdOf[r]] =>
                      pc'[<<r, j>>] \notin {"new", "unasked", "skipped"}
                 /\ /\ pc'[<<r, j>>] \in Live
                    /\ holders'[IdOf[r]] # {} \/ r = current'
                    => <<r, j>> \in holders'[IdOf[r]]
                 /\ outcome'[<<r, j>>] = "none" /\ holders'[IdOf[r]] # {}
                    => <<r, j>> \in holders'[IdOf[r]]
                 /\ outcome'[<<r, j>>] = "found" /\ pc'[<<r, j>>] = "done"
                    => holders'[IdOf[r]] = {}
      <4>1. CASE r = current
        BY <2>1, <2>4, <2>5, <3>1, <3>2, <4>1 DEF HolderInv
      <4>2. CASE r # current
        BY <2>1, <2>4, <3>3, <4>2, NoneAssumption DEF HolderInv
      <4> QED
        BY <4>1, <4>2
    <3> QED
      BY <3>4, <3>5 DEF HolderInv
  <2>8. CASE instance[i] # "started"
    <3>1. holders' = holders /\ pc'[t] = "skipped"
      BY <1>4, <2>2, <2>8 DEF onRemoteRequest, TypeOK
    <3> QED
      BY <2>1, <2>4, <2>5, <2>6, <3>1, NoneAssumption DEF HolderInv, Live
  <2> QED
    BY <2>7, <2>8
<1>5. ASSUME NEW i \in Instances, stop(i) \/ start(i) \/ destroy(i)
      PROVE  HolderInv'
  BY <1>1, <1>5 DEF stop, start, destroy
<1>6. ASSUME NEW u \in Tasks, run(u)
      PROVE  HolderInv'
  <2>1. PICK r \in Requests, i \in Instances : u = <<r, i>>
    BY TaskParts
  <2> DEFINE t == <<r, i>>
  <2>2. run(t) /\ t \in Tasks
    BY <1>6, <2>1
  <2>3. /\ current' = current
        /\ pc[t] \in Live /\ pc'[t] \in Live \cup {"done"}
        /\ \A s \in Requests, j \in Instances :
             s # r \/ j # i => /\ pc'[<<s, j>>] = pc[<<s, j>>]
                              /\ outcome'[<<s, j>>] = outcome[<<s, j>>]
    BY <2>2, RunShape, TaskParts
  <2>4. \A s \in Requests \ {r} : holders'[IdOf[s]] = holders[IdOf[s]]
    BY <2>2, RunHolders
  <2>5. pc[t] = "cleaning" => r # current
    BY DEF LoopInv, NotStarted
  <2>6. /\ holders'[IdOf[r]] \subseteq holders[IdOf[r]]
        /\ \A j \in Instances \ {i} :
             holders'[IdOf[r]] # {} /\ <<r, j>> \in holders[IdOf[r]]
               => <<r, j>> \in holders'[IdOf[r]]
        /\ \/ holders'[IdOf[r]] = holders[IdOf[r]]
           \/ pc[t] = "cleaning" \/ outcome[t] # "none"
    BY <2>2, RunHolders
  <2>7. \A s \in Requests : holders'[IdOf[s]] \subseteq {s} \X Instances
    BY <2>4, <2>6 DEF HolderInv
  <2>8. ASSUME NEW s \in Requests, NEW j \in Instances
        PROVE  /\ <<s, j>> \in holders'[IdOf[s]] =>
                    pc'[<<s, j>>] \notin {"new", "unasked", "skipped"}
               /\ /\ pc'[<<s, j>>] \in Live
                  /\ holders'[IdOf[s]] # {} \/ s = current'
                  => <<s, j>> \in holders'[IdOf[s]]
               /\ outcome'[<<s, j>>] = "none" /\ holders'[IdOf[s]] # {}
                  => <<s, j>> \in holders'[IdOf[s]]
               /\ outcome'[<<s, j>>] = "found" /\ pc'[<<s, j>>] = "done"
                  => holders'[IdOf[s]] = {}
    <3>1. CASE s # r
      BY <2>3, <2>4, <3>1 DEF HolderInv
    <3>2. CASE s = r /\ j # i
      BY <2>2, <2>3, <2>5, <2>6, <3>2, RunHolders DEF HolderInv
    <3>3. CASE s = r /\ j = i
      BY <2>2, <2>3, <2>5, <3>3, RunHolders DEF HolderInv, Live
    <3> QED
      BY <3>1, <3>2, <3>3
  <2> QED
    BY <2>7, <2>8 DEF HolderInv
<1>7. CASE UNCHANGED vars
  BY <1>1, <1>7 DEF vars
<1>8. ASSUME NEW p \in Peers, connect(p) \/ disconnect(p)
      PROVE  HolderInv'
  BY <1>1, <1>8 DEF connect, disconnect
<1> QED
  BY <1>2, <1>3, <1>4, <1>5, <1>6, <1>7, <1>8 DEF Next

-----------------------------------------------------------------------------
(* RS_NOT_FOUND.                                                           *)

(* Every step keeps a settled request settled.                             *)
LEMMA SettledStays ==
  ASSUME TypeOK, LoopInv, [Next]_vars, NEW r \in Requests, Settled(r)
  PROVE  Settled(r)'
<1> USE DEF taskVars, callerVars, historyVars
<1>1. ASSUME UNCHANGED <<current, pc, outcome>>
      PROVE  Settled(r)'
  BY <1>1 DEF Settled
<1>2. ASSUME NEW s \in Requests, onRequest(s)
      PROVE  Settled(r)'
  <2>1. s # r
    BY <1>2, InstancesAssumption DEF onRequest, Settled
  <2> QED
    BY <1>2, <2>1, RequestTaken DEF Settled
<1>3. ASSUME NEW i \in Instances, onRemoteRequest(i)
      PROVE  Settled(r)'
  <2>1. /\ <<current, i>> \in Tasks
        /\ current' \in {None, current}
        /\ outcome' = outcome
    BY <1>3, LoopTurn DEF onRemoteRequest
  <2>2. \A j \in Instances : pc'[<<r, j>>] = pc[<<r, j>>]
    BY <1>3, <2>1, TaskParts DEF onRemoteRequest, TypeOK, Settled
  <2> QED
    BY <2>1, <2>2, NoneAssumption DEF Settled
<1>4. ASSUME NEW t \in Tasks, run(t)
      PROVE  Settled(r)'
  <2>1. current' = current
    BY <1>4, RunShape
  <2>2. ASSUME NEW i \in Instances
        PROVE  /\ outcome'[<<r, i>>] # "found"
               /\ pc'[<<r, i>>] \notin {"new", "posted", "selecting"}
    <3>1. CASE t = <<r, i>>
      BY <1>4, <3>1, RunShape DEF Settled, Live
    <3>2. CASE t # <<r, i>>
      BY <1>4, <3>2, RunShape, TaskParts DEF Settled
    <3> QED
      BY <3>1, <3>2
  <2> QED
    BY <2>1, <2>2 DEF Settled
<1>5. ASSUME NEW s \in Requests, leave(s)
      PROVE  Settled(r)'
  BY <1>1, <1>5 DEF leave
<1>6. ASSUME NEW i \in Instances, stop(i) \/ start(i) \/ destroy(i)
      PROVE  Settled(r)'
  BY <1>1, <1>6 DEF stop, start, destroy
<1>7. CASE UNCHANGED vars
  BY <1>1, <1>7 DEF vars
<1>8. ASSUME NEW p \in Peers, connect(p) \/ disconnect(p)
      PROVE  Settled(r)'
  BY <1>1, <1>8 DEF connect, disconnect
<1> QED
  BY <1>2, <1>3, <1>4, <1>5, <1>6, <1>7, <1>8 DEF Next

(* If all registered holders say RS_NOT_FOUND when a task looks at them,   *)
(* then no instance is missing among them.                                 *)
LEMMA CheckSettles ==
  ASSUME TypeOK, TaskInv, LoopInv, HolderInv,
         NEW r \in Requests, NEW i \in Instances,
         pc[<<r, i>>] = "check", allStatusesNotFound(IdOf[r])
  PROVE  Settled(r)
<1>1. r # current
  BY DEF LoopInv, NotStarted
<1>2. \A j \in Instances : pc[<<r, j>>] # "new"
  BY <1>1 DEF LoopInv
<1>3. holders[IdOf[r]] # {}
  BY DEF allStatusesNotFound
<1>4. ASSUME NEW j \in Instances, pc[<<r, j>>] \in Live
      PROVE  outcome[<<r, j>>] = "none"
  <2>1. <<r, j>> \in holders[IdOf[r]]
    BY <1>3, <1>4 DEF HolderInv
  <2> QED
    BY <2>1, TaskParts DEF allStatusesNotFound, TaskInv
<1>5. ASSUME NEW j \in Instances
      PROVE  /\ outcome[<<r, j>>] # "found"
             /\ pc[<<r, j>>] \notin {"new", "posted", "selecting"}
  <2>1. pc[<<r, j>>] \in PCs
    BY TaskParts DEF TypeOK
  <2>2. CASE pc[<<r, j>>] \in Live
    BY <1>2, <1>4, <2>2, TaskParts DEF TaskInv
  <2>3. CASE pc[<<r, j>>] = "done"
    BY <1>3, <2>3 DEF HolderInv
  <2>4. CASE pc[<<r, j>>] \in {"skipped", "unasked"}
    BY <2>4, TaskParts DEF TaskInv
  <2> QED
    BY <1>2, <2>1, <2>2, <2>3, <2>4 DEF PCs, Live
<1> QED
  BY <1>1, <1>5 DEF Settled

(* Every step gives RS_NOT_FOUND to settled requests only.                 *)
LEMMA StepNotFound ==
  TypeOK /\ TaskInv /\ LoopInv /\ HolderInv /\ NotFoundInv /\ SinkInv
    /\ [Next]_vars => NotFoundInv'
<1> SUFFICES ASSUME TypeOK, TaskInv, LoopInv, HolderInv, NotFoundInv, SinkInv,
                    [Next]_vars
             PROVE  NotFoundInv'
  OBVIOUS
<1> USE DEF taskVars, callerVars, historyVars
<1>1. ASSUME answers' = answers,
             \A r \in Requests, i \in Instances :
               /\ pc'[<<r, i>>] \in {"answer", "sending", "cleaning"}
               /\ outcome'[<<r, i>>] = "none"
               => /\ pc[<<r, i>>] \in {"answer", "sending", "cleaning"}
                  /\ outcome[<<r, i>>] = "none"
      PROVE  NotFoundInv'
  BY <1>1, SettledStays DEF NotFoundInv
<1>2. ASSUME NEW r \in Requests, onRequest(r) \/ leave(r)
      PROVE  NotFoundInv'
  <2>1. CASE onRequest(r)
    <3>1. \A s \in Requests, i \in Instances : pc'[<<s, i>>] \in {pc[<<s, i>>], "unasked"}
      BY <2>1, SetAside
    <3> QED
      BY <1>1, <2>1, <3>1, RequestTaken
  <2>2. CASE leave(r)
    BY <1>1, <2>2 DEF leave
  <2> QED
    BY <1>2, <2>1, <2>2
<1>3. ASSUME NEW i \in Instances, onRemoteRequest(i)
      PROVE  NotFoundInv'
  <2>1. answers' = answers /\ outcome' = outcome
    BY <1>3 DEF onRemoteRequest
  <2>2. \A t \in Tasks : pc'[t] \in {pc[t], "posted", "skipped"}
    BY <1>3, LoopTurn DEF onRemoteRequest, TypeOK
  <2> QED
    BY <1>1, <2>1, <2>2, TaskParts
<1>4. ASSUME NEW i \in Instances, stop(i) \/ start(i) \/ destroy(i)
      PROVE  NotFoundInv'
  BY <1>1, <1>4 DEF stop, start, destroy
<1>5. ASSUME NEW t \in Tasks, run(t)
      PROVE  NotFoundInv'
  <2>1. PICK r \in Requests, i \in Instances : t = <<r, i>>
    BY TaskParts
  <2>2. t[1] = r /\ t[2] = i /\ IdOfTask(t) = IdOf[r]
    BY <2>1 DEF IdOfTask
  <2>3. \A s \in Requests, j \in Instances :
          s # r \/ j # i => /\ pc'[<<s, j>>] = pc[<<s, j>>]
                           /\ outcome'[<<s, j>>] = outcome[<<s, j>>]
    BY <1>5, <2>1, RunShape, TaskParts
  <2>4. CASE check(t)
    <3>1. answers' = answers /\ outcome' = outcome /\ pc[t] = "check"
      BY <2>4 DEF check
    <3>2. pc'[t] = "answer" => Settled(r)
      BY <2>1, <2>2, <2>4, CheckSettles DEF check, TypeOK
    <3>3. pc'[t] \in {"answer", "done"}
      BY <2>4 DEF check, TypeOK
    <3> QED
      BY <2>1, <2>3, <3>1, <3>2, <3>3, SettledStays DEF NotFoundInv
  <2>5. CASE sendResponse(t)
    <3>1. /\ pc[t] = "sending" /\ pc'[t] = "cleaning"
          /\ outcome' = outcome
      BY <2>5 DEF sendResponse, TypeOK
    <3>2. /\ \A s \in Requests \ {r} : answers'[s] = answers[s]
          /\ answers'[r] \subseteq answers[r] \cup {status[t]}
      BY <2>2, <2>5 DEF sendResponse, SinkInv, TypeOK
    <3>3. status[t] = RS_NOT_FOUND => Settled(r)
      BY <2>1, <3>1 DEF NotFoundInv, TaskInv
    <3> QED
      BY <2>1, <2>3, <3>1, <3>2, <3>3, SettledStays DEF NotFoundInv
  <2>6. ASSUME NEW o \in Outcomes, select(t, o)
        PROVE  NotFoundInv'
    <3>1. /\ answers' = answers
          /\ outcome'[t] = o
          /\ pc'[t] \in {"answer", "sending", "cleaning"} => o = "found"
      BY <2>6 DEF select, TypeOK
    <3> QED
      BY <1>1, <2>1, <2>3, <3>1
  <2>7. CASE begin(t) \/ fail(t) \/ decide(t) \/ finish(t)
    <3>1. /\ answers' = answers /\ outcome' = outcome
          /\ pc'[t] \in {"answer", "sending", "cleaning"} =>
               pc[t] \in {"answer", "sending", "cleaning"}
      BY <2>7 DEF begin, fail, decide, finish, TypeOK
    <3> QED
      BY <1>1, <2>1, <2>3, <3>1
  <2> QED
    BY <1>5, <2>4, <2>5, <2>6, <2>7 DEF run
<1>6. ASSUME NEW p \in Peers, connect(p) \/ disconnect(p)
      PROVE  NotFoundInv'
  BY <1>1, <1>6 DEF connect, disconnect
<1>7. CASE UNCHANGED vars
  BY <1>1, <1>7 DEF vars
<1> QED
  BY <1>2, <1>3, <1>4, <1>5, <1>6, <1>7 DEF Next

(* Every step keeps the ids of requests that were not left leading to them.*)
LEMMA StepSink ==
  ASSUME DistinctIds
  PROVE  TypeOK /\ LoopInv /\ SinkInv /\ [Next]_vars => SinkInv'
<1> SUFFICES ASSUME TypeOK, LoopInv, SinkInv, [Next]_vars
             PROVE  SinkInv'
  OBVIOUS
<1> USE DEF taskVars, callerVars, historyVars
<1>1. ASSUME UNCHANGED <<sink, left>>,
             \A r \in Requests, i \in Instances :
               r = current' \/ pc'[<<r, i>>] # "new" =>
                 r = current \/ pc[<<r, i>>] # "new"
      PROVE  SinkInv'
  BY <1>1 DEF SinkInv
<1>0. ASSUME NEW P \in SUBSET Peers, closeContexts(P), UNCHANGED <<current, pc>>
      PROVE  SinkInv'
  <2>1. ASSUME NEW r \in Requests
        PROVE  /\ sink'[PeerOf[r]][IdOf[r]] \in {r, None}
               /\ \A i \in Instances :
                    r \notin left' /\ (r = current' \/ pc'[<<r, i>>] # "new")
                      => sink'[PeerOf[r]][IdOf[r]] = r
    <3>1. PeerOf[r] \in Peers /\ IdOf[r] \in Ids
      BY TaskParts
    <3>2. \/ sink'[PeerOf[r]][IdOf[r]] = sink[PeerOf[r]][IdOf[r]]
          \/ /\ sink'[PeerOf[r]][IdOf[r]] = None
             /\ sink[PeerOf[r]][IdOf[r]] \in left' \cup {None}
      BY <1>0, <3>1, ContextsClosed
    <3>3. r \notin left' => r \notin left
      BY <1>0, ContextsClosed
    <3> QED
      BY <1>0, <3>2, <3>3, NoneAssumption DEF SinkInv
  <2> QED
    BY <2>1 DEF SinkInv
<1>2. ASSUME NEW r \in Requests, onRequest(r)
      PROVE  SinkInv'
  <2>1. /\ sink' = [sink EXCEPT ![PeerOf[r]][IdOf[r]] = r]
        /\ current' = r /\ current = None
        /\ UNCHANGED left
        /\ \A s \in Requests \ {r}, i \in Instances : pc'[<<s, i>>] = pc[<<s, i>>]
    BY <1>2, RequestTaken DEF onRequest
  <2>2. sink'[PeerOf[r]][IdOf[r]] = r
    BY <2>1, SinkChange
  <2>3. \A s \in Requests \ {r} :
          sink'[PeerOf[s]][IdOf[s]] = sink[PeerOf[s]][IdOf[s]]
    BY <2>1, SinkChange DEF DistinctIds
  <2> QED
    BY <2>1, <2>2, <2>3 DEF SinkInv
<1>3. ASSUME NEW r \in Requests, leave(r)
      PROVE  SinkInv'
  <2>1. /\ sink' = [sink EXCEPT ![PeerOf[r]][IdOf[r]] = None]
        /\ left' = left \cup {r}
        /\ UNCHANGED <<pc, current>>
    BY <1>3 DEF leave
  <2>2. sink'[PeerOf[r]][IdOf[r]] = None
    BY <2>1, SinkChange
  <2>3. \A s \in Requests \ {r} :
          sink'[PeerOf[s]][IdOf[s]] = sink[PeerOf[s]][IdOf[s]]
    BY <2>1, SinkChange DEF DistinctIds
  <2> QED
    BY <2>1, <2>2, <2>3 DEF SinkInv
<1>4. ASSUME NEW i \in Instances, onRemoteRequest(i)
      PROVE  SinkInv'
  <2>1. /\ UNCHANGED <<sink, left>>
        /\ current' \in {None, current}
    BY <1>4 DEF onRemoteRequest
  <2>2. \A r \in Requests, j \in Instances :
          r # current => pc'[<<r, j>>] = pc[<<r, j>>]
    BY <1>4, LoopTurn, TaskParts DEF onRemoteRequest, TypeOK
  <2> QED
    BY <1>1, <2>1, <2>2, NoneAssumption
<1>5. ASSUME NEW i \in Instances, stop(i)
      PROVE  SinkInv'
  <2>1. CASE UNCHANGED <<sink, left>>
    BY <1>1, <1>5, <2>1 DEF stop
  <2>2. CASE ~UNCHANGED <<sink, left>>
    BY <1>0, <1>5, <2>2 DEF stop
  <2> QED
    BY <2>1, <2>2
<1>6. ASSUME NEW i \in Instances, start(i) \/ destroy(i)
      PROVE  SinkInv'
  BY <1>1, <1>6 DEF start, destroy
<1>7. ASSUME NEW t \in Tasks, run(t)
      PROVE  SinkInv'
  <2>1. UNCHANGED <<sink, left, current>>
    BY <1>7, RunShape
  <2>2. \A u \in Tasks : pc'[u] # "new" => pc[u] # "new"
    BY <1>7, RunShape DEF Live
  <2> QED
    BY <1>1, <2>1, <2>2, TaskParts
<1>8. CASE UNCHANGED vars
  BY <1>1, <1>8 DEF vars
<1>9. ASSUME NEW p \in Peers, connect(p) \/ disconnect(p)
      PROVE  SinkInv'
  <2>1. CASE connect(p)
    BY <1>1, <2>1 DEF connect
  <2>2. CASE disconnect(p)
    BY <1>0, <2>2 DEF disconnect
  <2> QED
    BY <1>9, <2>1, <2>2
<1> QED
  BY <1>2, <1>3, <1>4, <1>5, <1>6, <1>7, <1>8, <1>9 DEF Next

-----------------------------------------------------------------------------
(* Answers and clean-up when no instance is stopped.                       *)

(* The part of AnswerInv about one request.                                *)
AnswerInvOf(r) ==
  /\ \A i \in Instances :
       r \notin left /\ pc[<<r, i>>] = "cleaning" => answers[r] # {}
  /\ \A i \in Instances :
       /\ r \notin left
       /\ r # current
       /\ pc[<<r, i>>] # "new"
       /\ holders[IdOf[r]] = {}
       => \/ answers[r] # {}
          \/ \E j \in Instances : outcome[<<r, j>>] \in {"error", "refused"}
  /\ (\A i \in asked(r) : /\ pc[<<r, i>>] = "done"
                          /\ outcome[<<r, i>>] \in {"found", "none"})
       => holders[IdOf[r]] = {}

(* Every step keeps track of the instances that were never started.        *)
LEMMA StepStart ==
  TypeOK /\ LoopInv /\ StartInv /\ [Next]_vars => StartInv'
<1> SUFFICES ASSUME TypeOK, LoopInv, StartInv, [Next]_vars
             PROVE  StartInv'
  OBVIOUS
<1> USE DEF taskVars, callerVars, historyVars
<1>1. ASSUME UNCHANGED <<instance, stopped, pc>>, todo' \subseteq todo,
             \A p \in Peers : feedbacks'[p] \subseteq feedbacks[p]
      PROVE  StartInv'
  BY <1>1 DEF StartInv
<1>2. ASSUME NEW p \in Peers, connect(p)
      PROVE  StartInv'
  <2>1. /\ UNCHANGED <<instance, stopped, pc, todo>>
        /\ \A q \in Peers : \A i \in feedbacks'[q] :
             i \in feedbacks[q] \/ instance[i] = "started"
    BY <1>2 DEF connect, TypeOK
  <2> QED
    BY <2>1 DEF StartInv
<1>3. ASSUME NEW p \in Peers, disconnect(p)
      PROVE  StartInv'
  BY <1>1, <1>3, ContextsClosed DEF disconnect
<1>4. ASSUME NEW r \in Requests, onRequest(r)
      PROVE  StartInv'
  <2>1. \A s \in Requests, i \in Instances : pc'[<<s, i>>] \in {pc[<<s, i>>], "unasked"}
    BY <1>4, SetAside
  <2>2. UNCHANGED <<instance, feedbacks, stopped>> /\ todo' = feedbacks[PeerOf[r]]
    BY <1>4 DEF onRequest
  <2> QED
    BY <2>1, <2>2, TaskParts DEF StartInv
<1>5. ASSUME NEW r \in Requests, leave(r)
      PROVE  StartInv'
  BY <1>1, <1>5 DEF leave
<1>6. ASSUME NEW i \in Instances, onRemoteRequest(i)
      PROVE  StartInv'
  <2>1. /\ i \in todo /\ todo' = todo \ {i}
        /\ UNCHANGED <<instance, feedbacks, stopped>>
    BY <1>6 DEF onRemoteRequest
  <2>2. <<current, i>> \in Tasks
    BY <1>6, LoopTurn
  <2>3. \E v : pc' = [pc EXCEPT ![<<current, i>>] = v]
    BY <1>6 DEF onRemoteRequest
  <2>4. \A u \in Tasks \ {<<current, i>>} : pc'[u] = pc[u]
    BY <2>2, <2>3, Moved
  <2>5. \A r \in Requests, j \in Instances \ {i} : pc'[<<r, j>>] = pc[<<r, j>>]
    BY <2>4, TaskParts
  <2> QED
    BY <2>1, <2>5 DEF StartInv
<1>7. ASSUME NEW i \in Instances, stop(i)
      PROVE  StartInv'
  <2>1. \A p \in Peers : feedbacks'[p] \subseteq feedbacks[p]
    BY <1>7, ContextsClosed DEF stop
  <2>2. /\ instance' = [instance EXCEPT ![i] = "stopped"]
        /\ stopped' = stopped \cup {i}
        /\ UNCHANGED <<pc, todo>>
    BY <1>7 DEF stop
  <2> QED
    BY <2>1, <2>2 DEF StartInv, TypeOK
<1>8. ASSUME NEW i \in Instances, start(i) \/ destroy(i)
      PROVE  StartInv'
  BY <1>8 DEF start, destroy, StartInv, TypeOK
<1>9. ASSUME NEW t \in Tasks, run(t)
      PROVE  StartInv'
  <2>1. UNCHANGED <<instance, feedbacks, todo, stopped>>
    BY <1>9, RunShape
  <2>2. \A u \in Tasks : pc'[u] = pc[u] \/ pc[u] \in Live
    BY <1>9, RunShape
  <2> QED
    BY <2>1, <2>2, TaskParts DEF StartInv, Live
<1>10. CASE UNCHANGED vars
  BY <1>1, <1>10 DEF vars
<1> QED
  BY <1>2, <1>3, <1>4, <1>5, <1>6, <1>7, <1>8, <1>9, <1>10 DEF Next

(* If the last task of a request that nothing disturbed gave way to the    *)
(* others, then another one has answered and cleaned up.                   *)
LEMMA LastCheck ==
  ASSUME TypeOK, TaskInv, HolderInv, NEW r \in Requests,
         ~allStatusesNotFound(IdOf[r]),
         \A j \in asked(r) :
           /\ outcome[<<r, j>>] \in {"found", "none"}
           /\ outcome[<<r, j>>] = "found" => pc[<<r, j>>] = "done"
  PROVE  holders[IdOf[r]] = {}
<1> SUFFICES ASSUME holders[IdOf[r]] # {}
             PROVE  FALSE
  OBVIOUS
<1>1. \A j \in asked(r) : outcome[<<r, j>>] = "none"
  BY DEF HolderInv, asked
<1>2. \A j \in asked(r) : status[<<r, j>>] = RS_NOT_FOUND
  BY <1>1, TaskParts DEF TaskInv, asked
<1>3. \A t \in holders[IdOf[r]] : status[t] = RS_NOT_FOUND
  BY <1>2 DEF HolderInv, asked
<1> QED
  BY <1>3 DEF allStatusesNotFound

(* A step of a task keeps AnswerInvOf for the request of the task.         *)
LEMMA RunAnswers ==
  ASSUME DistinctIds, TypeOK, TaskInv, LoopInv, HolderInv, SinkInv,
         NEW r \in Requests, NEW i \in Instances, run(<<r, i>>),
         instance[i] = "started",
         AnswerInvOf(r)
  PROVE  AnswerInvOf(r)'
<1> USE DEF taskVars, callerVars, historyVars
<1> DEFINE t == <<r, i>>
<1>1. t \in Tasks /\ t[1] = r /\ t[2] = i /\ IdOfTask(t) = IdOf[r]
  BY TaskParts
<1>2. /\ UNCHANGED <<left, current>>
      /\ pc[t] \in Live
      /\ pc[t] # "selecting" => outcome' = outcome
      /\ \A j \in Instances \ {i} : /\ pc'[<<r, j>>] = pc[<<r, j>>]
                                    /\ outcome'[<<r, j>>] = outcome[<<r, j>>]
  BY <1>1, RunShape, TaskParts
<1>3. pc[t] # "new" /\ asked(r)' = asked(r) /\ i \in asked(r)
  BY <1>1, <1>2, RunShape DEF Live, asked
<1>4. CASE sendResponse(t)
  <2>1. /\ pc[t] = "sending" /\ pc'[t] = "cleaning"
        /\ holders' = holders /\ outcome' = outcome
    BY <1>1, <1>4 DEF sendResponse, TypeOK
  <2>2. r \notin left => answers'[r] # {}
    <3> SUFFICES ASSUME r \notin left
                 PROVE  answers'[r] # {}
      OBVIOUS
    <3>1. sink[PeerOf[r]][IdOf[r]] = r
      BY <1>3 DEF SinkInv
    <3>2. answers' = [answers EXCEPT ![r] = answers[r] \cup {status[t]}]
      BY <1>1, <1>4, <3>1, NoneAssumption DEF sendResponse
    <3> QED
      BY <3>2 DEF TypeOK
  <2> QED
    BY <1>2, <1>3, <2>1, <2>2 DEF AnswerInvOf
<1>5. CASE finish(t)
  <2>1. /\ pc[t] = "cleaning" /\ pc'[t] = "done"
        /\ answers' = answers /\ outcome' = outcome
    BY <1>1, <1>5 DEF finish, TypeOK
  <2>2. holders'[IdOf[r]] = {}
    BY <1>1, <1>5, HolderChange DEF finish, removeRequest
  <2> QED
    BY <1>2, <1>3, <2>1, <2>2 DEF AnswerInvOf
<1>6. CASE fail(t)
  <2>1. /\ pc'[t] = "done" /\ answers' = answers /\ outcome' = outcome
        /\ outcome[t] \in {"error", "refused"}
    BY <1>1, <1>6 DEF fail, TypeOK, TaskInv
  <2> QED
    BY <1>2, <1>3, <2>1 DEF AnswerInvOf
<1>7. CASE check(t)
  <2>1. /\ pc[t] = "check" /\ pc'[t] \in {"answer", "done"}
        /\ pc'[t] = "done" => ~allStatusesNotFound(IdOf[r])
        /\ UNCHANGED <<answers, outcome, holders>>
    BY <1>1, <1>7 DEF check, TypeOK
  <2>2. outcome[t] = "none"
    BY <1>1, <2>1 DEF TaskInv
  <2>3. ASSUME \A j \in asked(r) : /\ pc'[<<r, j>>] = "done"
                                   /\ outcome'[<<r, j>>] \in {"found", "none"}
        PROVE  holders'[IdOf[r]] = {}
    <3>1. \A j \in asked(r) : /\ outcome[<<r, j>>] \in {"found", "none"}
                              /\ outcome[<<r, j>>] = "found" => pc[<<r, j>>] = "done"
      BY <1>2, <2>1, <2>2, <2>3 DEF asked
    <3> QED
      BY <1>3, <2>1, <2>3, <3>1, LastCheck
  <2> QED
    BY <1>2, <1>3, <2>1, <2>3 DEF AnswerInvOf
<1>8. ASSUME NEW o \in Outcomes, select(t, o)
      PROVE  AnswerInvOf(r)'
  <2>1. /\ UNCHANGED <<answers, holders>>
        /\ pc[t] = "selecting" /\ pc'[t] \in {"answer", "check", "failed"}
    BY <1>1, <1>8 DEF select, TypeOK
  <2>2. outcome[t] = "pending"
    BY <1>1, <2>1 DEF TaskInv
  <2> QED
    BY <1>2, <1>3, <2>1, <2>2 DEF AnswerInvOf
<1>9. CASE begin(t) \/ decide(t)
  <2>1. /\ UNCHANGED <<answers, outcome, holders>>
        /\ pc'[t] \in {"selecting", "sending"}
    BY <1>1, <1>9 DEF begin, decide, TypeOK
  <2> QED
    BY <1>2, <1>3, <2>1 DEF AnswerInvOf
<1> QED
  BY <1>4, <1>5, <1>6, <1>7, <1>8, <1>9 DEF run

(* Every step keeps the account of answers.                                *)
LEMMA StepAnswers ==
  ASSUME DistinctIds
  PROVE  TypeOK /\ TaskInv /\ LoopInv /\ HolderInv /\ SinkInv /\ StartInv
           /\ AnswerInv /\ [Next]_vars => AnswerInv'
<1> SUFFICES ASSUME TypeOK, TaskInv, LoopInv, HolderInv, SinkInv, StartInv,
                    AnswerInv, [Next]_vars
             PROVE  AnswerInv'
  OBVIOUS
<1> USE DEF taskVars, callerVars, historyVars
<1>0. /\ AnswerInv <=> (stopped = {} => \A r \in Requests : AnswerInvOf(r))
      /\ AnswerInv' <=> (stopped' = {} => \A r \in Requests : AnswerInvOf(r)')
  BY DEF AnswerInv, AnswerInvOf
<1>1. ASSUME UNCHANGED stopped,
             stopped = {} =>
               \A r \in Requests : AnswerInvOf(r) => AnswerInvOf(r)'
      PROVE  AnswerInv'
  BY <1>0, <1>1
<1>2. ASSUME NEW r \in Requests, onRequest(r)
      PROVE  AnswerInv'
  <2>1. ASSUME NEW s \in Requests, AnswerInvOf(s)
        PROVE  AnswerInvOf(s)'
    <3>1. CASE s = r
      <4>1. PICK i \in Instances : i \in todo'
        BY <1>2, RequestTaken
      <4>2. i \in asked(s)' /\ pc'[<<s, i>>] # "done"
        BY <1>2, <3>1, <4>1, RequestTaken DEF asked
      <4>3. current' = s /\ \A j \in Instances : pc'[<<s, j>>] # "cleaning"
        BY <1>2, <3>1, RequestTaken
      <4> QED
        BY <4>2, <4>3 DEF AnswerInvOf
    <3>2. CASE s # r
      <4>1. \A j \in Instances : pc'[<<s, j>>] = pc[<<s, j>>]
        BY <1>2, <3>2, RequestTaken
      <4>2. UNCHANGED <<outcome, holders, answers, left>> /\ s # current
        BY <1>2, RequestTaken, NoneAssumption
      <4>3. asked(s)' = asked(s)
        BY <4>1 DEF asked
      <4> QED
        BY <2>1, <4>1, <4>2, <4>3 DEF AnswerInvOf, asked
    <3> QED
      BY <3>1, <3>2
  <2> QED
    BY <1>1, <1>2, <2>1, RequestTaken
<1>3. ASSUME NEW r \in Requests, leave(r)
      PROVE  AnswerInv'
  BY <1>1, <1>3 DEF leave, AnswerInvOf, asked
<1>9. ASSUME NEW p \in Peers, connect(p) \/ disconnect(p)
      PROVE  AnswerInv'
  <2>1. /\ UNCHANGED <<stopped, current, pc, outcome, holders, answers>>
        /\ left \subseteq left'
    BY <1>9, ContextsClosed DEF connect, disconnect
  <2> QED
    BY <1>1, <2>1 DEF AnswerInvOf, asked
<1>4. ASSUME NEW i \in Instances, onRemoteRequest(i)
      PROVE  AnswerInv'
  <2> DEFINE t == <<current, i>>
  <2>1. /\ UNCHANGED <<instance, stopped, left, answers, outcome>>
        /\ current' \in {None, current}
    BY <1>4 DEF onRemoteRequest
  <2>2. current \in Requests /\ t \in Tasks
    BY <1>4, LoopTurn
  <2>3. ASSUME stopped = {}, NEW r \in Requests, AnswerInvOf(r)
        PROVE  AnswerInvOf(r)'
    <3>1. instance[i] = "started"
      BY <1>4, <2>3 DEF onRemoteRequest, StartInv, TypeOK
    <3>2. /\ pc' = [pc EXCEPT ![t] = "posted"]
          /\ holders' = [holders EXCEPT ![IdOf[current]] = holders[IdOf[current]] \cup {t}]
      BY <1>4, <2>2, <3>1 DEF onRemoteRequest, registerStatus, IdOfTask
    <3>3. CASE r = current
      <4>1. holders'[IdOf[r]] # {}
        BY <2>2, <3>2, <3>3, TaskParts DEF TypeOK
      <4>2. pc' \in [Tasks -> PCs] /\ pc'[<<r, i>>] = "posted"
        BY <2>2, <3>2, <3>3 DEF TypeOK, PCs
      <4>3. \A j \in Instances : pc'[<<r, j>>] # "cleaning"
        BY <2>2, <3>2, <3>3, TaskParts DEF LoopInv, NotStarted, TypeOK
      <4>4. i \in asked(r)'
        BY <4>2 DEF asked
      <4> QED
        BY <4>1, <4>2, <4>3, <4>4 DEF AnswerInvOf
    <3>4. CASE r # current
      <4>1. holders'[IdOf[r]] = holders[IdOf[r]]
        BY <2>2, <3>2, <3>4, HolderChange
      <4>2. \A j \in Instances : pc'[<<r, j>>] = pc[<<r, j>>]
        BY <2>2, <3>2, <3>4, TaskParts DEF TypeOK
      <4>3. asked(r)' = asked(r)
        BY <4>2 DEF asked
      <4> QED
        BY <2>1, <2>3, <3>4, <4>1, <4>2, <4>3 DEF AnswerInvOf, asked
    <3> QED
      BY <3>3, <3>4
  <2> QED
    BY <1>1, <2>1, <2>3
<1>5. ASSUME NEW i \in Instances, stop(i)
      PROVE  AnswerInv'
  <2>1. /\ instance' = [instance EXCEPT ![i] = "stopped"]
        /\ stopped' = stopped \cup {i}
    BY <1>5 DEF stop
  <2> QED
    BY <1>0, <2>1 DEF TypeOK
<1>6. ASSUME NEW i \in Instances, start(i) \/ destroy(i)
      PROVE  AnswerInv'
  BY <1>1, <1>6 DEF start, destroy, AnswerInvOf, asked
<1>7. ASSUME NEW u \in Tasks, run(u)
      PROVE  AnswerInv'
  <2>1. PICK q \in Requests, i \in Instances : u = <<q, i>>
    BY TaskParts
  <2>2. UNCHANGED <<instance, stopped, left, current>>
    BY <1>7, RunShape
  <2>3. ASSUME stopped = {}, NEW r \in Requests, AnswerInvOf(r)
        PROVE  AnswerInvOf(r)'
    <3>1. instance[i] = "started"
      BY <1>7, <2>1, <2>3, RunShape DEF StartInv, TypeOK, Live
    <3>2. CASE r = q
      BY <1>7, <2>1, <2>3, <3>1, <3>2, RunAnswers
    <3>3. CASE r # q
      <4>1. holders'[IdOf[r]] = holders[IdOf[r]]
        BY <1>7, <2>1, <3>3, RunHolders
      <4>2. \A j \in Instances : /\ pc'[<<r, j>>] = pc[<<r, j>>]
                                 /\ outcome'[<<r, j>>] = outcome[<<r, j>>]
        BY <1>7, <2>1, <3>3, RunShape, TaskParts
      <4>3. answers[r] \subseteq answers'[r]
        BY <1>7 DEF run, begin, select, fail, check, decide, sendResponse,
           finish, TypeOK
      <4>4. asked(r)' = asked(r)
        BY <4>2 DEF asked
      <4> QED
        BY <2>2, <2>3, <4>1, <4>2, <4>3, <4>4 DEF AnswerInvOf, asked
    <3> QED
      BY <3>2, <3>3
  <2> QED
    BY <1>1, <2>2, <2>3
<1>8. CASE UNCHANGED vars
  BY <1>1, <1>8 DEF vars, AnswerInvOf, asked
<1> QED
  BY <1>2, <1>3, <1>4, <1>5, <1>6, <1>7, <1>8, <1>9 DEF Next

-----------------------------------------------------------------------------
(* The theorems.                                                           *)

(* The initial state satisfies every part of the invariant.                *)
LEMMA InitServing == Init => ServingInv
<1> SUFFICES ASSUME Init PROVE ServingInv
  OBVIOUS
<1>1. TypeOK /\ TaskInv /\ LoopInv
  BY InitTasks
<1>2. \A r \in Requests, i \in Instances :
        pc[<<r, i>>] = "new" /\ outcome[<<r, i>>] = "pending"
  BY TaskParts DEF Init
<1>3. \A r \in Requests : /\ holders[IdOf[r]] = {}
                          /\ sink[PeerOf[r]][IdOf[r]] = None
                          /\ answers[r] = {}
  BY TaskParts DEF Init
<1>4. HolderInv /\ NotFoundInv
  BY <1>2, <1>3 DEF HolderInv, NotFoundInv, Live
<1>5. SinkInv /\ AnswerInv
  BY <1>2, <1>3, NoneAssumption DEF Init, SinkInv, AnswerInv
<1>6. StartInv
  BY <1>2 DEF Init, StartInv
<1> QED
  BY <1>1, <1>4, <1>5, <1>6 DEF ServingInv

(* Theorem: the inductive invariant of the serving side, for requests with *)
(* distinct ids.                                                           *)
THEOREM ServingCorrect ==
  ASSUME DistinctIds
  PROVE  Spec => []ServingInv
<1>1. Init => ServingInv
  BY InitServing
<1>2. ServingInv /\ [Next]_vars => ServingInv'
  BY StepType, StepTask, StepLoop, StepHolders, StepNotFound, StepSink,
     StepStart, StepAnswers DEF ServingInv
<1> QED
  BY <1>1, <1>2, PTL DEF Spec

(* Theorem: with distinct ids, a peer that is told RS_NOT_FOUND is told    *)
(* the truth, however registration, searches, failures and stops           *)
(* interleave.                                                             *)
THEOREM NotFoundIsTold ==
  ASSUME DistinctIds
  PROVE  Spec => []NotFoundIsTrue
<1>1. ServingInv => NotFoundIsTrue
  BY DEF ServingInv, NotFoundInv, Settled, NotFoundIsTrue
<1> QED
  BY <1>1, ServingCorrect, PTL

(* The holders of an undisturbed request are gone when it is served.       *)
LEMMA UndisturbedIsClean ==
  ASSUME TypeOK, TaskInv, AnswerInv, NEW r \in Requests, served(r),
         undisturbed(r)
  PROVE  stopped = {} /\ holders[IdOf[r]] = {}
<1>1. stopped = {}
  BY DEF undisturbed, TypeOK
<1>2. \A i \in asked(r) : pc[<<r, i>>] = "done"
  BY TaskParts DEF served, undisturbed, asked, TaskInv
<1> QED
  BY <1>1, <1>2 DEF AnswerInv, undisturbed

(* Theorem: with distinct ids, a request that nothing disturbed and whose  *)
(* peer stays is answered when its last task is over.                      *)
THEOREM UndisturbedIsAnswered ==
  ASSUME DistinctIds
  PROVE  Spec => []AnsweredUnlessDisturbed
<1>1. ServingInv => AnsweredUnlessDisturbed
  <2> SUFFICES ASSUME ServingInv, NEW r \in Requests, served(r),
                      undisturbed(r), r \notin left
               PROVE  answers[r] # {}
    BY DEF AnsweredUnlessDisturbed
  <2>1. stopped = {} /\ holders[IdOf[r]] = {}
    BY UndisturbedIsClean DEF ServingInv
  <2>2. PICK i \in Instances : TRUE
    BY InstancesAssumption
  <2>3. pc[<<r, i>>] # "new" /\ r # current
    BY DEF served
  <2>4. \A j \in Instances : outcome[<<r, j>>] \notin {"error", "refused"}
    BY TaskParts DEF undisturbed, asked, ServingInv, TaskInv
  <2> QED
    BY <2>1, <2>3, <2>4 DEF ServingInv, AnswerInv
<1> QED
  BY <1>1, ServingCorrect, PTL

(* Theorem: with distinct ids, no status holder outlives an undisturbed    *)
(* request.                                                                *)
THEOREM HoldersGo ==
  ASSUME DistinctIds
  PROVE  Spec => []HoldersReleased
<1>1. ServingInv => HoldersReleased
  BY UndisturbedIsClean DEF ServingInv, HoldersReleased
<1> QED
  BY <1>1, ServingCorrect, PTL

=============================================================================
