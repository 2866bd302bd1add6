--------------------------- MODULE ProviderChain ---------------------------
(***************************************************************************)
(* dht/kademlia_dht.cpp: IpfsDHT provides CIDs to the Kademlia network and *)
(* repeats it from a timer.  All CIDs share timer_: setting it again       *)
(* cancels the wait that is pending, unless that wait has expired already  *)
(* and its handler is queued.  The Kademlia object is the environment:     *)
(* provide succeeds or fails.                                              *)
(***************************************************************************)
EXTENDS FiniteSets

CONSTANTS
  Cids,        \* CIDs the user provides
  Bootstrap,   \* bootstrapAddresses_, as pairs of a peer and an address
  NoCid        \* no CID: nothing waits

VARIABLES
  routing,     \* peers the routing table was given, with their addresses
  waiting,     \* CID of the wait on timer_, or NoCid
  queued,      \* CIDs whose wait has expired and whose handler has to run
  provided     \* history: CIDs the user had provided, without force

dhtVars == <<routing, waiting, queued, provided>>

DhtInit ==
  /\ routing = {}
  /\ waiting = NoCid
  /\ queued = {}
  /\ provided = {}

(* GetBootstrapNodes: one entry for each peer, with all of its addresses.  *)
GetBootstrapNodes ==
  {[id |-> b[1], addresses |-> {a[2] : a \in {x \in Bootstrap : x[1] = b[1]}}] :
     b \in Bootstrap}

Start ==
  /\ routing' = routing \cup GetBootstrapNodes
  /\ UNCHANGED <<waiting, queued, provided>>

(* expires_after cancels what waits on the timer.                          *)
ScheduleProvideCID(c) == waiting' = c

(* ProvideCID: nothing is scheduled if provide failed or was forced.       *)
ProvideCID(c, force, ok) ==
  /\ IF ok /\ ~force THEN ScheduleProvideCID(c) ELSE UNCHANGED waiting
  /\ UNCHANGED routing

(* The user provides a CID.                                                *)
provide(c, force, ok) ==
  /\ ProvideCID(c, force, ok)
  /\ provided' = IF ok /\ ~force THEN provided \cup {c} ELSE provided
  /\ UNCHANGED queued

(* An hour has passed ...                                                  *)
expire ==
  /\ waiting # NoCid
  /\ queued' = queued \cup {waiting}
  /\ waiting' = NoCid
  /\ UNCHANGED <<routing, provided>>

(* ... and the handler provides again.                                     *)
reprovide(c, ok) ==
  /\ c \in queued
  /\ queued' = queued \ {c}
  /\ ProvideCID(c, FALSE, ok)
  /\ UNCHANGED provided

DhtNext ==
  \/ Start
  \/ \E c \in Cids, ok \in BOOLEAN :
       \/ \E force \in BOOLEAN : provide(c, force, ok)
       \/ reprovide(c, ok)
  \/ expire

DhtSpec == DhtInit /\ [][DhtNext]_dhtVars

-----------------------------------------------------------------------------

(* "Re-provide every 8 hours to maintain DHT presence": each CID that was  *)
(* provided waits for its turn on the timer or has its handler queued.     *)
(* The period apart, which is one hour here, the CIDs share one timer, and *)
(* a provide that fails in the handler schedules nothing.                  *)
ProvidedIsReprovided ==
  \A c \in provided : c = waiting \/ c \in queued

=============================================================================
