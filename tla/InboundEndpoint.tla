-------------------------- MODULE InboundEndpoint --------------------------
(***************************************************************************)
(* inbound_endpoint.cpp and the marshalling under it: the tasks of several *)
(* requests of one peer put blocks and responses into the one              *)
(* response_builder_ of its stream; messages leave through the stream's    *)
(* queue, which the requests endpoint of the same stream uses too; the     *)
(* peer reads and parses one message after the other (message_reader.cpp,  *)
(* message_parser.cpp) and drops the stream at the first that fails.       *)
(*                                                                         *)
(* A CID is a record [version, codec, hash_type, digest]; a block's digest *)
(* stands for its data, whose hash it is.                                  *)
(***************************************************************************)
EXTENDS Integers, Sequences

CONSTANTS
  Requests,         \* ids of the peer's requests
  Blocks,           \* CIDs of the blocks they select
  SizeOf,           \* size of each block's data
  Statuses,         \* statuses the tasks respond with
  Extensions,       \* extensions of a response or a request: sequences of
                    \* [name, data]
  kMaxMessageSize,
  kMaxPendingBytes,
  MaxOps            \* bound of the model: calls

VARIABLES
  builder,          \* response_builder_: its protobuf message
  queue,            \* sizes of the messages the queue holds: pending_bytes
  buffered,         \* bytes the requests endpoint has yet to hand over
  wire,             \* history: messages enqueued here
  accepted,         \* history: data entries addBlockToResponse took, in
                    \* order, less those of messages that met a full queue
  ops

endpointVars == <<builder, queue, buffered, wire, accepted, ops>>

(* A CID of version 0 is that of a dag-pb block with a sha2-256 hash.       *)
SHA256 == 18
DAG_PB == 112
ASSUME CidsAssumption ==
  \A cid \in Blocks :
    /\ cid = [version |-> cid.version, codec |-> cid.codec,
              hash_type |-> cid.hash_type, digest |-> cid.digest]
    /\ cid.version \in {0, 1}
    /\ cid.version = 0 => cid.codec = DAG_PB /\ cid.hash_type = SHA256

(* A digest stands for the data, so it determines the size.                *)
ASSUME SizesAssumption ==
  /\ SizeOf \in [Blocks -> Nat]
  /\ \A a, b \in Blocks : a.digest = b.digest => SizeOf[a] = SizeOf[b]

(* A message may hold at least a response.                                 *)
ASSUME LimitsAssumption ==
  /\ kMaxMessageSize \in Nat /\ kMaxMessageSize >= 2
  /\ kMaxPendingBytes \in Nat

NoMessage == [requests |-> <<>>, responses |-> <<>>, data |-> <<>>]

EndpointInit ==
  /\ builder = NoMessage
  /\ queue = <<>>
  /\ buffered \in {0, kMaxPendingBytes}
  /\ wire = <<>>
  /\ accepted = <<>>
  /\ ops = 0

-----------------------------------------------------------------------------
(* The builders                                                            *)

(* CID::toBytes without the digest, which is what CID::read(prefix) leaves *)
(* of it: a version 0 CID is a bare multihash.                             *)
prefixOf(cid) ==
  IF cid.version = 0
    THEN <<cid.hash_type, 32>>
    ELSE <<cid.version, cid.codec, cid.hash_type, 32>>

(* extensions go into a protobuf map: the first of a name is kept.         *)
extensionMap(extensions) ==
  {extensions[i] : i \in {j \in DOMAIN extensions :
     \A k \in 1 .. j - 1 : extensions[k].name # extensions[j].name}}

(* ResponseBuilder                                                         *)
addResponse(msg, r, status, extensions) ==
  [msg EXCEPT !.responses =
     Append(@, [id |-> r, status |-> status,
                extensions |-> extensionMap(extensions)])]

(* `for' is a history: the request a block was added for.                  *)
entry(r, cid) == [prefix |-> prefixOf(cid), data |-> cid.digest, for |-> r]

addDataBlock(msg, r, cid) ==
  [msg EXCEPT !.data = Append(@, entry(r, cid))]

(* RequestBuilder, of which each request has its own                       *)
addRequest(msg, r, root, extensions) ==
  [msg EXCEPT !.requests =
     Append(@, [id |-> r, cancel |-> FALSE, root |-> <<root>>,
                extensions |-> extensionMap(extensions)])]
addCancelRequest(msg, r) ==
  [msg EXCEPT !.requests =
     Append(@, [id |-> r, cancel |-> TRUE, root |-> <<>>, extensions |-> {}])]

(* What messages consist of                                                *)
Maps == {extensionMap(e) : e \in Extensions \cup {<<>>}}
RS_PARTIAL_CONTENT == 21
Entries == {entry(r, cid) : r \in Requests, cid \in Blocks}
Messages ==
  [requests  : Seq([id : Requests, cancel : BOOLEAN,
                    root : {<<>>} \cup {<<cid>> : cid \in Blocks},
                    extensions : Maps]),
   responses : Seq([id : Requests, status : Statuses \cup {RS_PARTIAL_CONTENT},
                    extensions : Maps]),
   data      : Seq(Entries)]

(* getSerializedSize.  A block has a byte of framing besides its data, a   *)
(* request or a response two bytes.                                        *)
Framing == 1
ResponseSize == 2
sizeOfData(d) == SizeOf[CHOOSE cid \in Blocks : cid.digest = d]
entrySize == [e \in Entries |-> Framing + sizeOfData(e.data)]
dataSize[s \in Seq(Entries)] ==
  IF s = <<>> THEN 0 ELSE entrySize[Head(s)] + dataSize[Tail(s)]

getSerializedSize(msg) ==
  ResponseSize * (Len(msg.responses) + Len(msg.requests)) + dataSize[msg.data]

-----------------------------------------------------------------------------
(* message_parser.cpp                                                      *)

KnownStatuses == {10, 11, 12, 13, 14, 20, 21, 30, 31, 32, 33, 34}

(* A task responds with one of the enumerators of ResponseStatusCode.      *)
ASSUME StatusesAssumption == Statuses \subseteq KnownStatuses

(* CID::read of a prefix, and the bytes it leaves                          *)
readPrefix(p) ==
  IF Len(p) >= 2 /\ p[1] = SHA256 /\ p[2] = 32
    THEN [ok |-> TRUE, left |-> Len(p) - 2, version |-> 0, codec |-> DAG_PB,
          hash_type |-> p[1]]
    ELSE [ok |-> p[1] \in {0, 1} /\ Len(p) >= 4, left |-> Len(p) - 4,
          version |-> p[1], codec |-> p[2], hash_type |-> p[3]]

(* parseBlocks: the CID is made from the prefix and the hash of the data.  *)
parseBlocks(msg) ==
  [i \in DOMAIN msg.data |->
     LET cid == readPrefix(msg.data[i].prefix) IN
     [version |-> cid.version, codec |-> cid.codec,
      hash_type |-> cid.hash_type, digest |-> msg.data[i].data]]

(* parseRequests does not read the root of a request that cancels.         *)
parseRequests(msg) ==
  [i \in DOMAIN msg.requests |->
     [id |-> msg.requests[i].id, cancel |-> msg.requests[i].cancel,
      root |-> IF msg.requests[i].cancel THEN <<>> ELSE msg.requests[i].root]]

(* parseMessage fails as a whole if one entry cannot be parsed.            *)
parsable(msg) ==
  /\ \A i \in DOMAIN msg.responses : msg.responses[i].status \in KnownStatuses
  /\ \A i \in DOMAIN msg.data :
       readPrefix(msg.data[i].prefix).ok /\ readPrefix(msg.data[i].prefix).left = 0

(* MessageReader reads with the limit that the builders test before they   *)
(* add the framing and the response: length_delimited_message_reader.cpp   *)
(* fails with MESSAGE_SIZE_OUT_OF_BOUNDS beyond it.                        *)
readable(msg) ==
  /\ getSerializedSize(msg) <= kMaxMessageSize
  /\ parsable(msg)

(* The messages the peer takes: it closes the stream at the first that it  *)
(* cannot read (onReaderEvent).                                            *)
taken == {i \in DOMAIN wire : \A k \in 1 .. i : readable(wire[k])}

parseMessage(msg) ==
  [requests |-> parseRequests(msg), responses |-> msg.responses,
   data |-> parseBlocks(msg)]

-----------------------------------------------------------------------------
(* InboundEndpoint                                                         *)

queueSize[q \in Seq(Nat)] ==
  IF q = <<>> THEN 0 ELSE Head(q) + queueSize[Tail(q)]
pending_bytes == queueSize[queue]

counted == ops < MaxOps /\ ops' = ops + 1

enqueue(msg) ==
  /\ queue' = Append(queue, getSerializedSize(msg))
  /\ wire' = Append(wire, msg)

(* Mutant: the partial response does not clear the builder.                *)
afterPartialKept(r, b) == addDataBlock(builder, r, b)

(* The builder once a partial response has left                            *)
afterPartial(r, b) == addDataBlock(NoMessage, r, b)

(* addBlockToResponse, unless it fails with WRITE_QUEUE_OVERFLOW before    *)
(* any change.  A block that would make the message too long is added      *)
(* after the rest has left with sendPartialResponse, whose own test of the *)
(* queue cannot fail after this one.                                       *)
addBlockToResponse(r, b) ==
  LET size == getSerializedSize(builder) + SizeOf[b] IN
  /\ counted
  /\ pending_bytes + size <= kMaxPendingBytes
  /\ IF size > kMaxMessageSize
       THEN /\ enqueue(addResponse(builder, r, RS_PARTIAL_CONTENT, <<>>))
            /\ builder' = afterPartial(r, b)
       ELSE /\ builder' = addDataBlock(builder, r, b)
            /\ UNCHANGED <<queue, wire>>
  /\ accepted' = Append(accepted, entry(r, b))
  /\ UNCHANGED buffered

(* sendResponse: the builder is cleared before the queue is looked at; if  *)
(* that is full, what the builder held is lost, whoever added it.          *)
sendResponse(r, status, extensions) ==
  /\ counted
  /\ builder' = NoMessage
  /\ IF pending_bytes > kMaxPendingBytes
       THEN /\ accepted' = SubSeq(accepted, 1, Len(accepted) - Len(builder.data))
            /\ UNCHANGED <<queue, wire>>
       ELSE /\ enqueue(addResponse(builder, r, status, extensions))
            /\ UNCHANGED accepted
  /\ UNCHANGED buffered

(* A request, or its cancellation, that the requests endpoint is given     *)
(* while it has the queue; enqueue fails if the limit would be passed.     *)
enqueueRequest(msg) ==
  /\ counted
  /\ buffered = 0
  /\ pending_bytes + getSerializedSize(msg) <= kMaxPendingBytes
  /\ enqueue(msg)
  /\ UNCHANGED <<builder, buffered, accepted>>

(* The requests endpoint hands over what it buffered (onConnected), which  *)
(* does not look at the limit.                                             *)
onConnected ==
  /\ buffered > 0
  /\ queue' = Append(queue, buffered)
  /\ buffered' = 0
  /\ UNCHANGED <<builder, wire, accepted, ops>>

(* The stream takes the first message of the queue.                        *)
written ==
  /\ queue # <<>>
  /\ queue' = Tail(queue)
  /\ UNCHANGED <<builder, buffered, wire, accepted, ops>>

EndpointNext ==
  \/ \E r \in Requests, b \in Blocks : addBlockToResponse(r, b)
  \/ \E r \in Requests, status \in Statuses, e \in Extensions :
       sendResponse(r, status, e)
  \/ \E r \in Requests, b \in Blocks, e \in Extensions :
       \/ enqueueRequest(addRequest(NoMessage, r, b, e))
       \/ enqueueRequest(addCancelRequest(NoMessage, r))
  \/ onConnected
  \/ written

EndpointSpec == EndpointInit /\ [][EndpointNext]_endpointVars

-----------------------------------------------------------------------------

(* All the data of some messages                                           *)
blocksOf[w \in Seq(Messages)] ==
  IF w = <<>> THEN <<>> ELSE Head(w).data \o blocksOf[Tail(w)]

(* A message that is longer than the peer reads: by the framing of a block *)
(* and a response, or because its only block is too large.                 *)
overlong(msg) ==
  /\ getSerializedSize(msg) > kMaxMessageSize
  /\ \/ getSerializedSize(msg) <= kMaxMessageSize + Framing + ResponseSize
     \/ Len(msg.data) = 1

(* What addBlockToResponse accepts leaves in order and once, or is still   *)
(* in the builder, unless a send met a full queue.  Of the messages the    *)
(* peer takes it gets the very CIDs, and it takes all of them up to the    *)
(* first that is longer than kMaxMessageSize: such messages do leave, but  *)
(* only the framing and the response that addBlockToResponse does not      *)
(* count, or a single block, make them so.  The queue exceeds              *)
(* kMaxPendingBytes by at most one such message and what onConnected hands *)
(* over.                                                                   *)
BlocksReachPeerUnlessOverlong ==
  /\ blocksOf[wire] \o builder.data = accepted
  /\ \A i \in DOMAIN wire : i \in taken \/ \E k \in 1 .. i : overlong(wire[k])
  /\ \A i \in taken :
       /\ \A j \in DOMAIN wire[i].data :
            LET cid == parseMessage(wire[i]).data[j]
            IN /\ cid \in Blocks
               /\ entry(wire[i].data[j].for, cid) = wire[i].data[j]
       /\ \A j \in DOMAIN wire[i].requests :
            LET q == parseMessage(wire[i]).requests[j]
            IN q.cancel = (q.root = <<>>)
  /\ pending_bytes
       <= 2 * kMaxPendingBytes + kMaxMessageSize + Framing + ResponseSize

=============================================================================
