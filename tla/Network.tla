------------------------------ MODULE Network ------------------------------
(***************************************************************************)
(* network.cpp: the instances registered with a Network and the context it *)
(* keeps for one peer (contexts of different peers do not meet, peers_ is  *)
(* a map from the peer's id).  Calls come from the scheduler's thread,     *)
(* from pool threads that send responses and from the threads of users;    *)
(* Network::state_mutex_ is released between the phases of findContext and *)
(* between the calls of one handler, which is what this module is about.   *)
(*                                                                         *)
(* What happens inside a context is PeerContext's subject; here a context  *)
(* is open or closed, and lives while peers_ or a running call refers to   *)
(* it.  Its last reference gone, an open one closes itself (~PeerContext). *)
(***************************************************************************)
CONSTANTS
  Instances,  \* GraphsyncImpl objects that use the network
  Contexts,   \* PeerContext objects of the peer that may be created (bound)
  Calls,      \* calls in progress at a time, each on a thread of its own
  None

VARIABLES
  feedbacks,   \* feedbacks_
  started,     \* started_
  registered,  \* the peer's context in peers_, or None
  state,       \* of each context: "unused", "open" or "closed"
  closing,     \* contexts inside close(): closed_ set, end not reached
  timer,       \* contexts whose timer_ will call peerClosed
  op,          \* what a call is: "request", "respond", "accept", "stop", "idle"
  pc,          \* where it stands
  found,       \* the context it holds, or None
  seen,        \* the context canSendRequest found for it
  evicted      \* history: contexts taken out of peers_ while open

ctxVars == <<registered, state, closing, timer, evicted>>
callVars == <<op, pc, found, seen>>
vars == <<feedbacks, started, ctxVars, callVars>>

Init ==
  /\ feedbacks = {}
  /\ started = FALSE
  /\ registered = None
  /\ state = [c \in Contexts |-> "unused"]
  /\ closing = {}
  /\ timer = {}
  /\ op = [k \in Calls |-> "idle"]
  /\ pc = [k \in Calls |-> "idle"]
  /\ found = [k \in Calls |-> None]
  /\ seen = [k \in Calls |-> None]
  /\ evicted = {}

(* A shared pointer to c exists.                                           *)
referenced(c) ==
  \/ c = registered
  \/ c \in closing
  \/ \E k \in Calls : found[k] = c

goto(k, l) == pc' = [pc EXCEPT ![k] = l]
holding(k, c) == found' = [found EXCEPT ![k] = c]

return(k) ==
  /\ op' = [op EXCEPT ![k] = "idle"]
  /\ goto(k, "idle")
  /\ holding(k, None)
  /\ seen' = [seen EXCEPT ![k] = None]

(* The peer's entry is taken out of peers_, if there is one.               *)
evict ==
  /\ registered' = None
  /\ evicted' = IF registered # None /\ state[registered] = "open"
                  THEN evicted \cup {registered} ELSE evicted

-----------------------------------------------------------------------------

start(i) ==
  /\ i \notin feedbacks
  /\ feedbacks' = feedbacks \cup {i}
  /\ started' = (started \/ feedbacks = {})
  /\ UNCHANGED <<ctxVars, callVars>>

(* stop, under the lock: the last instance clears started_ ...             *)
stop(k, i) ==
  /\ op[k] = "idle"
  /\ i \in feedbacks
  /\ feedbacks' = feedbacks \ {i}
  /\ started' = (started /\ feedbacks' # {})
  /\ IF feedbacks' = {}
       THEN op' = [op EXCEPT ![k] = "stop"] /\ goto(k, "takeAll")
       ELSE UNCHANGED <<op, pc>>
  /\ UNCHANGED <<ctxVars, found, seen>>

(* ... and closeAllPeers first takes all contexts, in a lock of its own,   *)
(* then closes them with RS_REJECTED_LOCALLY.                              *)
closeAllPeers(k) ==
  /\ pc[k] = "takeAll"
  /\ evict
  /\ IF registered = None THEN return(k)
     ELSE /\ holding(k, registered)
          /\ goto(k, "closeAll")
          /\ UNCHANGED <<op, seen>>
  /\ UNCHANGED <<feedbacks, started, state, closing, timer>>

(* Such a close calls peerClosed before it returns.                        *)
closeTaken(k) ==
  /\ pc[k] = "closeAll"
  /\ IF state[found[k]] = "open"
       THEN state' = [state EXCEPT ![found[k]] = "closed"] /\ evict
       ELSE UNCHANGED <<state, registered, evicted>>
  /\ return(k)
  /\ UNCHANGED <<feedbacks, started, closing, timer>>

(* A call comes in: makeRequest (through canSendRequest), one of           *)
(* addBlockToResponse, sendResponse and keepPeerAlive, or                  *)
(* onStreamAccepted.  Each first reads started_ under the lock.            *)
call(k, o) ==
  /\ op[k] = "idle"
  /\ started
  /\ op' = [op EXCEPT ![k] = o]
  /\ goto(k, "fetch")
  /\ UNCHANGED <<feedbacks, started, ctxVars, found, seen>>

(* create_if_not_found: the first findContext of makeRequest is            *)
(* canSendRequest's.                                                       *)
creates(k) ==
  \/ op[k] = "accept"
  \/ op[k] = "request" /\ seen[k] = None

(* findContext, first phase: fetch the current context.                    *)
fetch(k) ==
  /\ pc[k] = "fetch"
  /\ holding(k, IF started THEN registered ELSE None)
  /\ goto(k, IF started THEN "query" ELSE "found")
  /\ UNCHANGED <<feedbacks, started, ctxVars, op, seen>>

(* Second phase: a closed context is taken out, if it is still the one.    *)
query(k) ==
  LET c == found[k] IN
  /\ pc[k] = "query"
  /\ IF c # None /\ state[c] = "closed"
       THEN /\ registered' = IF registered = c THEN None ELSE registered
            /\ holding(k, None)
       ELSE UNCHANGED <<registered, found>>
  /\ goto(k, IF found'[k] = None /\ creates(k) THEN "create" ELSE "found")
  /\ UNCHANGED <<feedbacks, started, state, closing, timer, evicted, op, seen>>

(* Mutant: the third phase does not recheck started_.                      *)
createAlways(k) ==
  /\ pc[k] = "create"
  /\ \/ /\ registered # None
        /\ holding(k, registered)
        /\ UNCHANGED <<registered, state>>
     \/ \E c \in Contexts :
          /\ registered = None
          /\ state[c] = "unused"
          /\ state' = [state EXCEPT ![c] = "open"]
          /\ registered' = c
          /\ holding(k, c)
  /\ goto(k, "found")
  /\ UNCHANGED <<feedbacks, started, closing, timer, evicted, op, seen>>

(* Mutant: nor whether another call has created the context meanwhile;     *)
(* peers_.insert then leaves the other in place.                           *)
createAnother(k) ==
  /\ pc[k] = "create"
  /\ \/ ~started /\ UNCHANGED <<found, registered, state>>
     \/ \E c \in Contexts :
          /\ started
          /\ state[c] = "unused"
          /\ state' = [state EXCEPT ![c] = "open"]
          /\ registered' = IF registered = None THEN c ELSE registered
          /\ holding(k, c)
  /\ goto(k, "found")
  /\ UNCHANGED <<feedbacks, started, closing, timer, evicted, op, seen>>

(* Third phase: create lazily, "with a recheck to avoid duplicates".       *)
create(k) ==
  /\ pc[k] = "create"
  /\ \/ ~started /\ UNCHANGED <<found, registered, state>>
     \/ /\ started
        /\ registered # None
        /\ holding(k, registered)
        /\ UNCHANGED <<registered, state>>
     \/ \E c \in Contexts :
          /\ started
          /\ registered = None
          /\ state[c] = "unused"
          /\ state' = [state EXCEPT ![c] = "open"]
          /\ registered' = c
          /\ holding(k, c)
  /\ goto(k, "found")
  /\ UNCHANGED <<feedbacks, started, closing, timer, evicted, op, seen>>

(* canSendRequest goes on with what findContext returned: nothing, a       *)
(* context that closed meanwhile, or one that can be used, which           *)
(* makeRequest then looks up again.                                        *)
canSendRequest(k) ==
  LET c == found[k] IN
  /\ pc[k] = "found"
  /\ op[k] = "request"
  /\ seen[k] = None
  /\ \/ c = None /\ return(k) /\ UNCHANGED registered
     \/ /\ c # None
        /\ state[c] = "closed"
        /\ registered' = IF registered = c THEN None ELSE registered
        /\ return(k)
     \/ /\ c # None
        /\ state[c] = "open"
        /\ seen' = [seen EXCEPT ![k] = c]
        /\ holding(k, None)
        /\ goto(k, "fetch")
        /\ UNCHANGED <<registered, op>>
  /\ UNCHANGED <<feedbacks, started, state, closing, timer, evicted>>

(* The call uses its context and returns; a call that responds returns at  *)
(* once without one.                                                       *)
use(k) ==
  /\ pc[k] = "found"
  /\ op[k] = "request" => seen[k] # None
  /\ return(k)
  /\ UNCHANGED <<feedbacks, started, ctxVars>>

(* makeRequest asserts that it has a context, and onStreamAccepted uses it *)
(* untested: without one the process is over.                              *)
crashed ==
  \E k \in Calls :
    /\ pc[k] = "found"
    /\ found[k] = None
    /\ op[k] = "accept" \/ seen[k] # None

-----------------------------------------------------------------------------
(* PeerContext::close, for any reason but RS_REJECTED_LOCALLY.  Callbacks  *)
(* run between its first assignment and its end, and may make requests.    *)
close(c) ==
  /\ referenced(c)
  /\ state[c] = "open"
  /\ state' = [state EXCEPT ![c] = "closed"]
  /\ closing' = closing \cup {c}
  /\ UNCHANGED <<feedbacks, started, registered, timer, evicted, callVars>>

closeEnd(c) ==
  /\ c \in closing
  /\ closing' = closing \ {c}
  /\ timer' = timer \cup {c}
  /\ UNCHANGED <<feedbacks, started, registered, state, evicted, callVars>>

(* The timer calls peerClosed, which erases whatever context the peer has  *)
(* by then; a context nobody refers to has no timer any more.              *)
peerClosed(c) ==
  /\ c \in timer
  /\ timer' = timer \ {c}
  /\ IF referenced(c) THEN evict ELSE UNCHANGED <<registered, evicted>>
  /\ UNCHANGED <<feedbacks, started, state, closing, callVars>>

Next ==
  /\ ~crashed
  /\ \/ \E i \in Instances : start(i)
     \/ \E k \in Calls :
          \/ \E i \in Instances : stop(k, i)
          \/ \E o \in {"request", "respond", "accept"} : call(k, o)
          \/ closeAllPeers(k) \/ closeTaken(k)
          \/ fetch(k) \/ query(k) \/ create(k)
          \/ canSendRequest(k) \/ use(k)
     \/ \E c \in Contexts : close(c) \/ closeEnd(c) \/ peerClosed(c)

Spec == Init /\ [][Next]_vars

-----------------------------------------------------------------------------

(* findContext never makes two contexts for a peer: a context that is open *)
(* and in somebody's hands is the one in peers_, unless peerClosed or      *)
(* closeAllPeers took it out.  Two calls may both miss the context and     *)
(* both reach the third phase.                                             *)
OpenIsRegistered ==
  \A c \in Contexts :
    state[c] = "open" /\ referenced(c) => c = registered \/ c \in evicted

(* Once stop has returned the network has no context of the peer, whatever *)
(* calls were under way when the last instance left.                       *)
StoppedIsEmpty ==
  ~started /\ (\A k \in Calls : op[k] # "stop") => registered = None

(* "assert( ctx )" in makeRequest: findContext returns the context that    *)
(* canSendRequest has just found.  The lock is released between the two,   *)
(* and the context may be closed, taken out of peers_ by an old timer, or  *)
(* the last instance may stop.                                             *)
ContextFound ==
  \A k \in Calls :
    /\ op[k] = "request"
    /\ pc[k] = "found"
    /\ seen[k] # None
    => found[k] # None

=============================================================================
