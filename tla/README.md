# ipfs-lite-cpp: TLA+ models and proofs

This directory models ipfs-lite-cpp in TLA+: its graphsync implementation
(`src/ipfs_lite/ipfs/graphsync`), the IPLD and Merkle DAG layer below it, the
DHT timer and the codecs. Small instances are checked with TLC. The safety
properties of the graphsync layers, from the front end down to the message
queue and the marshalling, and those of the IPLD node, are proved with TLAPS
for every value of the constants. Paths below are relative
to `src/ipfs_lite/ipfs/graphsync/` unless they begin with `src/`.

Contents: [the system](#the-system), [modules](#modules-and-the-code),
[runs](#runs), [findings](#findings), [proofs](#proofs),
[what stays with TLC](#what-is-only-model-checked),
[abstractions and assumptions](#abstractions-and-assumptions),
[not modelled](#not-modelled), [plan](#plan), [running](#running).

## The system

A user asks `GraphsyncImpl` for the graph below a root CID held by some peer.
The request travels down through `LocalRequests`, `Network`, `PeerContext`, an
endpoint and a `MessageQueue` to a libp2p stream. Responses and blocks come up
through the message reader, parser and `PeerContext` to the user's callbacks.
The same layers serve requests of remote peers from a `MerkleDagService`.

| Component | State it keeps | Operations | Talks to |
|---|---|---|---|
| Graphsync front end (`impl/graphsync_impl.*`) | `started_`, `tracked_requests_` per CID, status holders, a cleanup timer | `start`, `stop`, `makeRequest`, `onResponse`, `onBlock`, `onRemoteRequest`, `cleanupOldRequests` | user callbacks, LocalRequests, Network, MerkleDagService on a thread pool |
| Local requests (`impl/local_requests.*`) | active and rejected callbacks by id, id counters, id to CID | `newRequest`, `newRejectedRequest`, `onResponse`, `unsubscribe`, `cancelAll` | front end, scheduler |
| Request id generator (`impl/local_requests.hpp`) | counter, statuses per request id | `next`, `registerStatus`, `removeStatus`, `allStatusesNotFound` | front end |
| Network (`impl/network/network.*`) | `peers_`, `feedbacks_`, `started_`, `active_requests_per_peer_` | `makeRequest`, `cancelRequest`, `sendResponse`, `peerClosed`, `closeAllPeers` | PeerContext, libp2p host |
| Peer context (`impl/network/peer_context.*`) | streams, the requests endpoint, local request ids, remote request to stream map, one timer, `closed_` | connect, accept, enqueue, message and writer events, cleanup timer, `close` | endpoints, queue, reader, Network feedback |
| Endpoints (`impl/network/{out,in}bound_endpoint.*`) | messages buffered before a stream exists; a response being built | `enqueue`, `onConnected`, `addBlockToResponse`, `sendResponse` | queue |
| Message queue (`impl/network/message_queue.*`) | pending buffers, byte counters, the write in progress | `enqueue`, `clear`, `close`, write completions | libp2p stream |
| Message reader (`impl/network/length_delimited_message_reader.*`) | read state | `read`, `close` | libp2p stream |
| Marshalling (`impl/network/marshalling`) | the message being built | build, parse | protobuf |
| IPLD node, Merkle DAG service, block service, data stores (`src/ipfs_lite/ipld`, `src/ipfs_lite/ipfs`, `src/ipfs_lite/rocksdb`) | links and cached bytes; CID to bytes | add and remove links, traversal, `select` | each other |
| Kademlia DHT (`src/ipfs_lite/dht`) | one provide timer | find, provide | libp2p kademlia |
| Codecs (`src/codec`, `src/common/libp2p`) | none | RLE+, CBOR, CBOR buffering | |

Behaviour that is hard here:

* *Callbacks that change the object they come from.* A progress callback may
  make a request or drop a subscription while `cancelAll`, `onBlock`,
  `closeLocalRequests` or `makeRequest` is in the middle of its work.
* *Asynchronous libp2p calls.* Dials, window adjustments, reads, writes and
  timers call back after anything else may have happened, also after `close()`.
* *Several streams, one endpoint, one timer.* The endpoint is bound to one of
  several streams, and one timer handle serves both the cleanup of idle streams
  and the `peerClosed` report.
* *Limits and counters.* `pending_bytes` is kept beside the deque it counts;
  the endpoints test it at slightly different points.
* *Threads.* The tasks that serve remote requests run on a pool and call
  `Network` while the scheduler's thread registers further instances, closes
  contexts or stops; `Network::state_mutex_` is released between the phases of
  one call. Such a task may find a write queue full or broken, close the context
  and so fail local requests of the front end from its own thread.
* *Ids that are not unique.* Status holders are kept by request id, which every
  peer chooses for itself.
* *Chunks and lengths.* Messages and CBOR objects arrive in pieces of any size;
  block formats and counts change at particular lengths.
* *A failing step of several.* Enqueuing a request may close the context
  beneath the call.

`PROJECT.json` lists every hazard with its line and the properties that would
catch it.

## Modules and the code

| Module | Models |
|---|---|
| `Fifo` | abstract: an ordered channel that may drop its tail or break |
| `MessageQueue` | `impl/network/message_queue.cpp`; refines `Fifo` |
| `StatusCodes` | `graphsync.hpp` (`ResponseStatusCode`) and `impl/common.cpp`: codes and their classification |
| `PeerContext` | `impl/network/peer_context.cpp`, with the parts of `network.cpp` and of the endpoints that act on one context |
| `Graphsync` | `impl/graphsync_impl.cpp` (requester's side) and `impl/local_requests.cpp` |
| `RemoteRequests` | `onRemoteRequest` of `impl/graphsync_impl.cpp` with its pool tasks, and the status holders of `impl/local_requests.hpp`, for several instances on one network |
| `Network` | `impl/network/network.cpp`: instances, `findContext`, and the successive contexts of one peer |
| `MessageReader` | `impl/network/message_reader.cpp`, `length_delimited_message_reader.cpp` |
| `InboundEndpoint` | `impl/network/inbound_endpoint.cpp`, `impl/network/marshalling/`, the prefix part of `src/primitives/cid/cid.cpp` |
| `IpldNode` | `src/ipfs_lite/ipld/impl/` |
| `MerkleDag` | `src/ipfs_lite/ipfs/merkledag/`, `src/ipfs_lite/ipfs/impl/` (data stores), `src/ipfs_lite/rocksdb/` (puts, removes, batches) |
| `ProviderChain` | `src/ipfs_lite/dht/kademlia_dht.cpp` |
| `CborStream` | `src/common/libp2p/cbor_buffering.cpp`, `cbor_stream.cpp` |
| `CborCodec` | `src/codec/cbor/` and `impl/extension.cpp` |
| `RlePlus` | `src/codec/rle/` |
| `MessageQueueProofs`, `PeerContextProofs`, `GraphsyncProofs`, `RemoteRequestsProofs`, `NetworkProofs`, `InboundEndpointProofs` | theorems about the module each is named after; see [Proofs](#proofs) |
| `PartsProofs` | theorems about `MessageReader` and `IpldNode` |
| `SequenceFolds` | lemmas about sums and concatenations of sequences that other proofs cite |
| `MCRequester` | the three layers that ask, `Graphsync`, `PeerContext` and `MessageQueue`, one per behaviour |
| `MCPeerContext`, `MCGraphsync`, `MCRemoteRequests`, `MCProviderChain` | instances for TLC |
| `MCParts` | the remaining modules, one per behaviour |

**MessageQueue.** One variable per field of the queue and of its `State`, plus
what the stream holds (`stream_writes`: buffers passed to `stream->write()`
whose callback has not come). `enqueue`, `clear` and `close` are the methods;
`onMessageWritten`, `onWriteFailed` and `onLateCompletion` are the three
outcomes of the write callback. `owned` says whether the owner still holds the
object; the callbacks lock a weak pointer.

**PeerContext.** `state_mutex_` is recursive and every handler holds it, so a
handler is one action, including the feedback it gives. `Network::makeRequest`
takes the mutex twice, and is therefore two actions: `needToConnect` (context
lookup, `tryConnect`) and `enqueueRequest`. Timers are relative: `ttl[s]` is
`expire_time - now` of a stream, and `timer` says what the handle will call and
in how many ticks. The context lives while `Network::peers_` or a running
`makeRequest` refers to it (`alive`); the last reference takes its streams,
endpoint and timer with it (`Release`). With `Retrying = TRUE` a progress callback that gets a
failure makes a new request immediately, which is what `closeLocalRequests`
allows before it resets the endpoint.

**Graphsync.** Messages, timers and tasks come on the scheduler's thread, where
concurrency is reentrancy. A handler whose last act is a callback is one
action. `onBlock` and the two `cancelAll` loops do more after a callback
returns, so they are split there (`onBlock` / `onBlockProcessed`, `cancelOne` / `cancelAllDone`),
and user actions (`makeRequest`, `unsubscribe`) may happen in between. The
network below is the set `sent` of ids it may still answer. That it ends each
of them at most once is what `PeerContext!ReportedAtMostOnce` establishes.
A failure of the network (a negative status) may also be reported by a pool
thread that closes the context, hence at any of these points, also inside
`block_cb_` and the loops of `cancelAll`; `onNetworkResponse` is enabled there.
`tracked_requests_` is guarded by its mutex. The maps of `LocalRequests` are
not guarded; the model takes each access to them as atomic, so what a data race
on the maps themselves would do is not covered.
`stuck` is the state in which `makeRequest` holds `requested_cids_mutex_`, the
network reports an error before returning, and `onResponse` locks the same
non-recursive mutex on the same thread.

**RemoteRequests.** Two kinds of thread. On the scheduler's thread
`PeerContext::onRequest` hands a request to the instances in turn
(`onRequest`, `onRemoteRequest`), holding the context's mutex all the while. It
asks those in `graphsync_feedbacks_`, a copy of `Network::feedbacks_` made when
the context was created (`connect`, variable `feedbacks`): an instance that is
started later is not asked by this context (`unasked`), one that was stopped
still is and skips the request. `disconnect` closes a context. On
the pool each task goes through `begin`, `select`, `check`, `decide`,
`sendResponse` and `finish`, one action for each stretch between two points
where another thread can see a difference. `waitsForOnRequest` is the mutex:
the task's first call, `keepPeerAlive`, takes it. A selection's outcome is free:
found, nothing, an error, or a block that the endpoint refused. The run leaves
the error out, as a task that fails does the same after either; the proofs have
all four.

**Network.** A call is at one of the points where `state_mutex_` is released:
before `fetch`, `query` and `create`, the phases of `findContext`, and when it
has its context (`found`). `makeRequest` goes through `findContext` twice, first
in `canSendRequest`. A context is only open or closed here. `referenced` says
whether a shared pointer to it exists; its timer dies with the last.
`evicted` records contexts that `peerClosed` or `closeAllPeers` took out of
`peers_` while they were open: `peerClosed` erases by peer id, so the timer of
an old context may take out its successor. A `makeRequest` or an
`onStreamAccepted` whose lookup returns null fails its assertion or dereferences
the pointer: the process is over (`crashed`) and nothing more happens.

**InboundEndpoint.** Several requests share a stream's `response_builder_` and
queue. Messages are records of their protobuf fields; their size
(`getSerializedSize`) is the data plus fixed framing. The peer reads the
messages that leave one after another with the same `kMaxMessageSize` and parses
them; it closes the stream at the first it cannot read (`readable`, `taken`).

**MessageReader.** `pending` is the libp2p read that has not completed. The
callback of a message is open from `onMessageRead` to `feedbackReturns`, so
that `closeReader` may happen in it.

**IpldNode, MerkleDag, ProviderChain.** One action per method that changes
state; the reads are operators that the invariants apply in every state.
`MerkleDag` runs the RocksDB store and the in-memory store side by side.

**CborStream, CborCodec, RlePlus.** `CborStream` works on bytes and chunks,
`CborCodec` on items (a head with its payload), `RlePlus` on bits. The codecs
have no state of their own; `MCParts` grows their input step by step and the
invariant compares with a reference definition.

Operators commented *Mutant* are plausible wrong versions of the operator that
follows them. They are used by no specification; substituting one for the
original makes TLC report the property named in `PROJECT.json`.

## Runs

| Run | Instance | Distinct states | Checks |
|---|---|---|---|
| `requester` | front end: 3 calls, 1 CID, ids up to 3. Context: 2 streams, 2 requests, 1 remote id, limit 1, delays 1. Queue: a small, a large and an empty buffer, 5 accepted. Symmetry | about 297,000 | front end: `FrontTypeOK`, `ToldAtMostOnce`, `AcceptedIsKept`, `StopTellsAll`, `DroppedIsReleased`, `CompletedHasBlock`, `RejectedHasTask`, `FailedIsFailed`; context: `TypeOK`, `EndpointOnLiveStream`, `ConnectingHasCause`, `ResponseSinkLive`, `ReportedAtMostOnce`, `OpenContextTracksAll`, `CloseLosesAtMostOne`, `CleanupScheduled`; queue: `QueueTypeOK`, `OneWriteAtATime`, `WritingBytesTellTruth`, `NoStrandedBuffer`, `PendingBytesExact`, `ImplementsFifo` |
| `progress` | the same with 2 calls and 1 request, no symmetry, with fairness | about 155,000 | `RejectedDrains`, `DeadPeerDetected`, `QueueDrains` |
| `serving` | 2 instances, 2 requests of one peer; found, nothing or a refused block; symmetry | about 2,240,000 | `TypeOK`, `NotFoundIsTrue`, `AnsweredUnlessDisturbed`, `HoldersReleased` |
| `parts` | one component per behaviour, see below | about 363,000 | `OpenIsRegistered`, `StoppedIsEmpty`, `FramesInOrder`, `BlocksReachPeerUnlessOverlong`, `BlockIsCurrent`, `GraphsAgree`, `ItemsIntact`, `CodecAgrees`, `RoundTrip` |
| `errors_reported`, `idle_stream`, `closed_peer_forgotten`, `stalled_request`, `rejected_told`, `not_found_reported`, `context_found`, `reprovide` | as above, small | | one documented promise each, which the code breaks: see [Findings](#findings) |

The components of `parts`, and the layers of `requester` and `progress`, share
no variable, so a behaviour of `MCParts` or `MCRequester` moves the variables of
one of them (`part`) and leaves the others at their initial values. The ones
that have theorems are extended, so the properties TLC checks are the
definitions the theorems name, and TLC evaluates their ASSUMEs; for this their
initial predicates, next-state relations and specifications have names of their
own (`FrontSpec`, `QueueSpec`, `ReaderSpec`, `NodeSpec`, `EndpointSpec`). The
other components of `parts` are instances, and each of their properties is
stated for the behaviours of its part. The instances:

| Part | Instance | Property | What it says |
|---|---|---|---|
| `network` | 2 instances, 3 contexts, 2 calls at a time; symmetry | `OpenIsRegistered` | a peer has one context: an open one in use is the one in `peers_`, unless it was taken out |
| | | `StoppedIsEmpty` | after `stop()` no context is left, whatever calls were under way |
| `reader` | up to 3 frames: empty, at the limit, too long, unparsable | `FramesInOrder` | the context hears of frames in order, once, of one failure last, and of nothing after close |
| `inbound` | 2 requests, 2 blocks, one too large; 4 calls; a requests endpoint with a full buffer or none | `BlocksReachPeerUnlessOverlong` | accepted blocks leave in order and once; the peer takes every message up to the first above `kMaxMessageSize` and gets its CIDs; only uncounted framing or a single block makes one so long; how far the queue's limit is exceeded |
| `node` | 2 names, own and foreign links, 4 changes | `BlockIsCurrent` | cached block and CID are current, the size is exact, bytes read back give the same block |
| `dag` | 4 nodes with shared children, batches of 1 | `GraphsAgree` | the two stores agree; graphs are complete to the depth asked, or refused |
| `cbor` | up to 2 objects of 11 kinds, chunks of up to 5 bytes, the stream may fail | `ItemsIntact` | each read gets exactly the next object, wherever chunks are cut |
| `codec`, `extension` | values nested twice; up to 3 metadata entries | `CodecAgrees` | decoding, counting and path resolution agree with the values; extensions survive |
| `rle` | up to 4 runs of 8 lengths around 1, 16 and 128 | `RoundTrip` | decoding undoes encoding |

Why the bounds suffice. Five buffers allow a write in progress, several
pending ones, a `clear()` between them and a refill. Two streams are what it
takes for the endpoint to be on the wrong one, for a request to be cancelled on
another stream than its own, and for one stream's activity to hide another's
idleness; with two requests one can be tracked while the other is being
enqueued. A limit of one message puts overflow, at-the-limit and below-the-limit
within two messages. Three calls allow an older, a current and a rejected
request of the same CID at once, and a reused rejected id. Two instances are
the least with which an answer can be left to another; two calls and three
contexts let two lookups race while an old context's timer is pending. Objects
of up to five bytes and chunks of up to five allow a cut at every place and an
object that ends inside a chunk.

Fairness. In `MessageQueue`, weak fairness of the write completion: libp2p
calls every write callback back, with a result or an error. In `PeerContext`,
weak fairness of time, of due timers, of the answer to a dial or window
adjustment (success or failure), of a thread that is inside `makeRequest`, and
of the pool task of a remote request; none for anything the peer does, nor for
write completions towards a peer that has vanished. In `Graphsync`, weak
fairness of the return of callbacks, and strong fairness of the notification
task (`FrontFairness`) and, for the stall timeout, of the cleanup timer
(`FairFrontSpec`): they are disabled while the thread is inside another handler,
and the scheduler's queue runs its tasks in order, so none is passed over for
ever. The run `progress` assumes the conjunction of the three: nothing that must
happen is enabled in the initial states, so layers that rest are not
constrained. The other modules state no fairness; their properties are
invariants.

`CHECK_DEADLOCK FALSE` in all runs: with a bounded number of buffers, streams
or calls the system may come to rest, and in `Graphsync` the thread may really
be stuck.

## Findings

Each is a run in which TLC finds a behaviour of the code that breaks what a
comment of the repository says.

* `errors_reported`: `peer_context.hpp:81` says errors of a request are
  reported. `closeLocalRequests` calls the callbacks of the requests it ends
  before it resets `requests_endpoint_`. A request made from such a callback is
  accepted by the old endpoint and is never told.
* `idle_stream`: `peer_context.hpp:140` says an inactive stream is closed.
  `resetPeerTimeout` re-schedules the one timer on the activity of any stream,
  so a busy stream keeps idle ones open. The property speaks of open contexts
  that `Network` knows.
* `closed_peer_forgotten`: `peer_context.hpp:115` says `peerClosed` is sent.
  `finishStreamConfig` does not look at `closed_`; after `close()` it adds the
  stream and replaces the `peerClosed` timer by the cleanup timer. The closed
  context stays in `peers_` until a lookup drops it.
* `stalled_request`: `graphsync_impl.hpp:111` promises a stall timeout. The
  constructor captures `weak_from_this()`, which is empty there, so
  `cleanupOldRequests` never runs. A stalled request blocks its CID for ever.
* `rejected_told`: `local_requests.hpp:151` promises `RS_REJECTED_LOCALLY`.
  Ids of rejected requests restart after a notification while old
  `Subscription` objects keep theirs; dropping an old one erases a new
  callback with the same id.
* `not_found_reported`: `graphsync_impl.cpp:392` and `:401` say that
  `RS_NOT_FOUND` is sent when all instances have reported it. The holders are
  kept by request id alone; when two peers use the same id, a task sees or
  removes holders of the other peer's request, and a request for which every
  instance found nothing is never answered. With ids that differ (`serving`)
  this does not happen.
* `context_found`: `network.cpp:114` says `assert( ctx )` of the context that
  `canSendRequest` has just found. `state_mutex_` is released in between, and
  when the last instance stops, the context closes, or the timer of an older
  context of the peer erases it, the second lookup returns null.
  `ContextLostOnlyThen` proves that there is no other way.
* `reprovide`: `kademlia_dht.cpp:102` says "Re-provide every 8 hours to maintain
  DHT presence". The CIDs share one timer, so providing a second one cancels the
  wait of the first, and a provide that fails ends its chain. The period, which
  the model leaves out, is one hour.

Smaller observations, which the modules model as they are:
`InboundEndpoint::sendResponse` loses blocks already accepted when the queue is
full; `addBlockToResponse` compares the data without its framing with
`kMaxMessageSize` and lets a single larger block pass, while the peer's reader
refuses such a message and closes the stream; a failure of an older request
marks the entry of a newer one for the CID as FAILED; a task that looks at the
holders before a failing one has removed its own leaves the peer without an
answer; `MerkleDagServiceImpl::select` never returns
zero, so with it an absent root is a failed selection, which sends nothing, and
`RS_NOT_FOUND` comes only from services that return zero; CBOR objects
with null or booleans (major type 7) cannot be read through `CborStream`; an
IPLD link is stored as its bare multihash, so a version 1 CID is read back as
version 0, or not at all if it is not sha2-256; removing a block leaves its
seal.

## Proofs

The theorems hold for any constants that satisfy the ASSUMEs of the modules:
any buffers and sizes; any finite set of streams, any requests, remote ids,
limits and delays; any calls and CIDs; any instances, peers and calls under
way; any blocks, links and finite set of link names. What the ASSUMEs of the
last two ask for:

| ASSUME | In | Why the code justifies it |
|---|---|---|
| `CidsAssumption` | `InboundEndpoint` | a CID of version 0 is that of a dag-pb block with a sha2-256 hash (by the definition of version 0, which the decoder of CIDs in `src/primitives/cid/cid.cpp` relies on; the constructors do not check it) |
| `SizesAssumption` | `InboundEndpoint` | a digest stands for the data, so blocks with one digest have one size |
| `LimitsAssumption` | `InboundEndpoint` | the limits are sizes; `kMaxMessageSize` is at least that of a response |
| `StatusesAssumption` | `InboundEndpoint` | tasks respond with enumerators of `ResponseStatusCode` |
| `LinksAssumption` | `IpldNode` | finitely many names; a link is not the absence of one |
| `SizesFit` | `IpldNode` | the sizes of a node's children add up to less than 2^64; without it the counter is exact only modulo 2^64 |

A theorem that needs more names it as a hypothesis (`ASSUME ... PROVE`), and
these are the hypotheses there are:

| Hypothesis | In | Why the code justifies it, or what fails without it |
|---|---|---|
| `DistinctIds`: no two requests have the same id | `RemoteRequestsProofs`, all but `TypeCorrect` | nothing in the code ensures it for different peers. It is the line between the run `serving` and the finding `not_found_reported`: without it TLC refutes each of the three properties with two instances |
| `~Retrying` | `CloseMissesAtMostOne` of `PeerContextProofs` | callbacks that retry while streams close break it: the finding `errors_reported` |
| `NoneIsNoContext` | `NetworkProofs` | a null pointer is no context |
| `FramesHaveLength` | `PartsProofs`, the reader | a length is an unsigned varint, the limit a `size_t` |

Every inductive invariant below also holds in TLC, on the instance of the
corresponding run.

**MessageQueueProofs.** The types (`TypeCorrect`) are inductive by themselves.
`QueueInv` is the inductive invariant for the rest. `OneWriteAtATime` alone is
not inductive: `enqueue` writes when `writing_bytes = 0`, so `writing_bytes`
must tell the truth about `stream_writes`. That needs no buffer to be empty
(`NoEmptyBuffer`), or a write of zero bytes would look like none. From it follow
`SingleWriter`, `NothingStranded` and `QueueKnowsItsWrite`. `QueueIsFifo` proves
the refinement step by step: while the queue is usable the channel of `Fifo` is
`stream_writes \o pending_buffers`, afterwards it is empty and broken.
`CountersAreExact` (`PendingBytesExact`) and `NoUnderflow` (`QueueTypeOK`, with
`pending_bytes` a natural number) are about sums over sequences of any length.
`TotalSize` is a recursive function, so what it computes has to be earned; that
is what `SequenceFolds` is for, and `TotalSizeLaws` is its instance. The
counters are then exact in every state, dropped queues included
(`SizesExact`); `total_bytes` needs `WritingBytesTellTruth`, since a completion
adds `writing_bytes` and not the size of the buffer that was written.

**SequenceFolds.** The library's induction theorems take an operator as a
parameter, which the provers cannot instantiate. Here induction is stated for
sets (`SetInduction` for the natural numbers, from the library's `WFMin`;
`TailInduction` for sequences), and the operation of a fold is a function, so
every lemma can be cited for a particular sum or concatenation.
`FoldsUpToExist` builds the fold for sequences of up to n elements,
`FoldsAgree` shows that two such functions agree, `FoldExists` puts them
together. `FoldFacts` then gives the laws of a fold over a monoid: values in
its set, the equation at the front and, by associativity, at the end.
`SumFacts`, `NumbersFacts` and `ConcatMonoid` are the cases the modules need;
`NumbersReplace` says how a sum changes when one number does.

**PeerContextProofs.** `TypeCorrect` goes action by action. `StructInv` joins
the endpoint, connecting, sink and timer properties with `ClosedServesNobody`.
The joint form is needed because closing streams must clear `remote`, the
endpoint and the timer together: `closeStream` of a stream that the endpoint
is not on keeps the endpoint, which is sound only as `EndpointOnLiveStream`
held, and `ConnectingHasCause` needs that an endpoint without a queue occurs
only without streams. `PeerClosedIsClosed` is there for the last reference:
what `Release` takes is that of a closed context. The corollaries are `SinksStayLive`,
`EndpointStaysLive`, `BufferedForAConnection` and `CleanupStaysScheduled`.

The second half is about the accounts of local requests. `AccountingInv`: what is tracked was handed over and
has not been reported (`TrackedUnreported`), so that reporting it once more is
its first time; and `NoEndpointNoIds`, since `close()` calls
`closeLocalRequests` only if there is an endpoint. `StepCases` first sorts the
steps by what they do to the accounts (nothing, hand over, end one, close), and
the invariant is proved per class. Results: `NoDoubleReport` and
`NothingLostWhileOpen`, with and without retrying callbacks;
`CloseMissesAtMostOne` without.

**GraphsyncProofs.** `FrontInv` is the invariant of the requester's side, with
callbacks that come back into the object at any of its callback points.
`TicketInv` ties subscriptions to map entries: a positive id, never reused, is
held by one call, while a stale negative ticket may name another call's entry
(which is what the finding `rejected_told` uses), yet no map keeps a dropped
call. `UntoldInv` says that a callback which `active`, `rejected` or the list
of a running `cancelAll` holds is held once and has not been told. `KeptInv`,
`StoppedInv`, `BlockInv` and `FailedInv` are the other sides of
`AcceptedIsKept`, `StopTellsAll`, `CompletedHasBlock` and `FailedIsFailed`;
the last needs that ids above the counter have neither a CID nor failed yet, so
that the entry of a new request starts clean. Results: `NeverToldTwice`,
`AcceptedStays`, `StopIsComplete`, `DroppedLetsGo`, `CompletionNeedsBlock`,
`RejectionIsScheduled`, `FailureIsKept`.

**RemoteRequestsProofs.** `ServingInv` is about many threads. `LoopInv` is what
the context's mutex gives: while `onRequest` still hands a request out, none of
its tasks has begun to search. `HolderInv` says that a live task of a request
finds its own holder registered as long as any holder is; a holder goes alone
if the task fails or its instance is stopped, and otherwise all go at once,
after an answer. So `allStatusesNotFound` looks at every instance that may
still find something, and `NotFoundInv` follows with `Settled`, which no step
undoes: `NotFoundIsTold`. `StartInv` is about the instances: one that is not
started was stopped at some time, or was never started and is in no context's
copy and has no task. `SinkInv` says an answer reaches the request it is
for. `AnswerInv` is the account behind `UndisturbedIsAnswered` and `HoldersGo`:
while nobody is stopped, holders vanish only by a failure or an answer, and the
last task to end either sees all others say `RS_NOT_FOUND` or finds the request
answered (`LastCheck`).

**NetworkProofs.** `NetworkInv` is about calls between the phases of
`findContext`. `OpenInv` is the core: an open context that a call holds, or has
seen in `canSendRequest`, is in `peers_` or was evicted; it is preserved since
`create` makes a context only under the lock and only if there is none.
`StopInv` says that a context which survives the last instance has a
`closeAllPeers` coming for it, which holds because `create` rechecks `started_`.
`LostInv` follows a call of `makeRequest` from its first lookup to its second.
The finding `context_found` shows that the second may fail; `ContextLostOnlyThen`
is the complete list of how.
Results: `OneContext`, `StopLeavesNone`, `ContextLostOnlyThen`.

**InboundEndpointProofs.** `EndpointInv` has five parts. `OrderInv` is the
order of blocks: what is on the wire, then what is in the builder, is what was
accepted; `sendResponse` on a full queue takes off exactly the builder's part.
`BuilderInv` bounds the builder: it is above `kMaxMessageSize` by at most the
framing of its last block, or holds that block alone, because
`addBlockToResponse` sends a partial response first. `WireInv` says of every
message that the peer's parser would return the CIDs and requests it was made of
and that it passes the limit at most by its framing or is a single block
(`Sendable`): `EntryParses` is the case analysis on versions of a CID, of which
version 0 has only the multihash in the prefix. `PendingInv` is what the bound
on the queue needs. The bound is not inductive: `onConnected` adds up to
`kMaxPendingBytes` without a test, and the queue may be past the limit by then.
The strengthening is that *while the requests endpoint still buffers* the queue
and the builder together exceed `kMaxPendingBytes` by at most a block's framing
and two responses; requests, the only other writers, wait for the buffer to be
handed over. Result: `OnlyOverlongIsRefused`.

**PartsProofs.** `MessageReader`: `ReaderInv` is `PositionInv` (what is unread
is the end of what was sent, and the context was told of each frame before it,
then at most of a failure), `ReadingInv` (`reading_` is set exactly while a read
is awaited whose result counts; the length that was read is that of the next
frame) and `EventInv`; `FramesToldInOrder` follows. `IpldNode`:
`NodeInv` says that a cached block is the present one and, as long as children
were only added with `addChild` under new names, that `child_nodes_size_` is the
total of the links the node has; `TotalReplace` is what a child added or removed
does to that total, and `SizesFit` keeps the arithmetic modulo 2^64 exact.
`BlockReadBack` shows for any node that encoding what was decoded gives the same
bytes, though a link of version 1 has become one of version 0. Result:
`NodeBlockIsCurrent`.

## What is only model-checked

* Liveness (`QueueDrains`, `DeadPeerDetected`, `RejectedDrains`): fairness is
  outside the prover's reach.
* `RoundTrip` (`RlePlus`), `ItemsIntact` (`CborStream`), `CodecAgrees`
  (`CborCodec`) and `GraphsAgree` (`MerkleDag`): they are about RECURSIVE
  operators over bits, bytes, nested values and graphs, with which the prover
  cannot work. Every other invariant of the runs is a theorem.
* The eight promises of [Findings](#findings), which fail.

## Abstractions and assumptions

* A buffer, message, CID or block is a model value. In `PeerContext` a message
  counts one unit towards `kMaxPendingBytes`.
* `kStreamCloseDelayMsec` and `kPeerCloseDelayMsec` are constants of the model
  with any positive values; in the code both are 60 s, in the runs both are 1.
* libp2p, external: assigning a timer handle cancels the timer it held;
  re-scheduling works inside the timer's own callback; a stream is open for
  write when it has just been configured (asserted in `message_queue.cpp:14`).
* A message with several entries is a sequence of steps, one per entry.
* `stop()` is not called from inside a callback: called from `block_cb_` it
  would destroy the function that is executing.
* Ids stay below the bound of the model, hence far below the 32-bit limit at
  which `nextRequestId` would wrap.
* `PeerContext::cancelRequest` is unreachable: `Network::cancelRequest`
  returns when `active_requests_per_peer_` has no entry, and nothing fills it.
  `Graphsync!unsubscribe` therefore leaves the network alone.
* `asyncFeedback` is declared in `network.hpp` and not defined, so the network
  reports errors synchronously; this is why `stuck` can happen.
* In `PeerContext` a retry (`Retrying`) is accepted by the endpoint that is
  about to be reset. A retry made while the whole context closes meets
  `closed_` and goes to a new context, which `PeerContext` does not follow;
  `Network` does.
* The maps of `LocalRequests` have no mutex; two threads that access one at the
  same time race. In the model each access is atomic.
* A node's CID is its hash, so in `MerkleDag` a CID determines its links, and
  the graph is acyclic. Calls to a database that fail change nothing.
* `OBJECT_MAX_SIZE` of RLE+ and the 64-bit limit of a long block are beyond the
  inputs; indefinite-length CBOR is refused by the code and not generated.
* Protobuf's and tinycbor's byte layout, varints and hashes are external.

## Not modelled

* `Network::cancelRequest` and `PeerContext::cancelRequest`: unreachable, see
  above. `cleanupOldRequests`: unreachable, its timer is modelled.
* `FindProviders`, `FindPeer` and `Bootstrap` of the DHT, opening a database
  and the RocksDB cursor: they forward to a library.
* Buffers, hexadecimal and base encodings, hashes, loggers, JSON views of CIDs
  and keys: value types and wrappers without state or protocol.
* `CborStream`'s writes and the peer's half of the protocol.
* Two components end to end: `PeerContext` with `Network`, or `Graphsync` with
  `PeerContext`. Each module assumes of its neighbour what the neighbour's
  invariants say (`Graphsync`'s network ends an id at most once; a context in
  `Network` is open, then closed), and the product is too large for TLC.

## Plan

What is left would be new work rather than the rest of this one: `MerkleDag`'s
graph as a function of the height of a node, in the way of `SequenceFolds`, to
prove `GraphsAgree` for every graph; and a composition of `Network` with
`PeerContext`, which is too large for TLC but not for a proof.

## Running

```
tlc -workers 2 -config MCRequester.cfg MCRequester
tlapm PeerContextProofs.tla
```
