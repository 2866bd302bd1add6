----------------------- MODULE InboundEndpointProofs -----------------------
(***************************************************************************)
(* Proofs about InboundEndpoint for any requests, blocks, sizes and limits *)
(* and any number of calls.                                                *)
(***************************************************************************)
EXTENDS InboundEndpoint, SequenceFolds

-----------------------------------------------------------------------------
(* The inductive invariant.                                                *)

(* Values each variable of the endpoint may take.  The builder holds only  *)
(* blocks between two calls.                                               *)
TypeOK ==
  /\ builder \in Messages
  /\ builder.requests = <<>> /\ builder.responses = <<>>
  /\ queue \in Seq(Nat)
  /\ buffered \in Nat /\ buffered <= kMaxPendingBytes
  /\ wire \in Seq(Messages)
  /\ accepted \in Seq(Entries)

(* What was accepted and not lost is on the wire or in the builder.        *)
OrderInv == blocksOf[wire] \o builder.data = accepted

(* The builder exceeds the limit of a message by the framing of its last   *)
(* block, or that block is alone; then the queue had room for it.          *)
BuilderInv ==
  \/ dataSize[builder.data] <= kMaxMessageSize + Framing
  \/ /\ Len(builder.data) = 1
     /\ dataSize[builder.data] <= kMaxPendingBytes + Framing

(* A message may be sent: the peer parses it to the blocks and requests it *)
(* was made of, and its size is within the limit or it is a single block.  *)
Sendable(m) ==
  /\ parsable(m)
  /\ \A j \in DOMAIN m.data :
       LET cid == parseMessage(m).data[j]
       IN cid \in Blocks /\ entry(m.data[j].for, cid) = m.data[j]
  /\ \A j \in DOMAIN m.requests :
       LET q == parseMessage(m).requests[j]
       IN q.cancel = (q.root = <<>>)
  /\ \/ getSerializedSize(m) <= kMaxMessageSize + Framing + ResponseSize
     \/ Len(m.data) = 1

WireInv == \A i \in 1 .. Len(wire) : Sendable(wire[i])

(* While the requests endpoint still buffers, the queue and the builder    *)
(* together stay near the limit, so that what is handed over at last comes *)
(* on top of that and not of a queue that has already grown past it.       *)
PendingInv ==
  /\ pending_bytes
       <= 2 * kMaxPendingBytes + kMaxMessageSize + Framing + ResponseSize
  /\ buffered > 0 =>
       pending_bytes + dataSize[builder.data]
         <= kMaxPendingBytes + Framing + 2 * ResponseSize
  /\ buffered > 0 /\ builder.data # <<>> =>
       pending_bytes + dataSize[builder.data]
         <= kMaxPendingBytes + Framing + ResponseSize

EndpointInv ==
  /\ TypeOK
  /\ OrderInv
  /\ BuilderInv
  /\ WireInv
  /\ PendingInv

-----------------------------------------------------------------------------
(* The sums and the concatenation are what their equations say.            *)

(* The size of an entry is that of its block and the framing.              *)
LEMMA EntrySize ==
  ASSUME NEW r \in Requests, NEW cid \in Blocks
  PROVE  /\ entry(r, cid) \in Entries
         /\ entrySize[entry(r, cid)] = Framing + SizeOf[cid]
         /\ SizeOf[cid] \in Nat
<1>1. entry(r, cid) \in Entries /\ entry(r, cid).data = cid.digest
  BY DEF Entries, entry
<1>2. entrySize[entry(r, cid)] = Framing + sizeOfData(cid.digest)
  BY <1>1 DEF entrySize
<1>3. sizeOfData(cid.digest) = SizeOf[cid]
  BY SizesAssumption DEF sizeOfData
<1> QED
  BY <1>1, <1>2, <1>3, SizesAssumption

(* Every entry has a size.                                                 *)
LEMMA EntrySizes == entrySize \in [Entries -> Nat]
<1>1. ASSUME NEW e \in Entries
      PROVE  Framing + sizeOfData(e.data) \in Nat
  <2>1. PICK r \in Requests, cid \in Blocks : e = entry(r, cid)
    BY DEF Entries
  <2>2. e.data = cid.digest
    BY <2>1 DEF entry
  <2> QED
    BY <2>2, SizesAssumption DEF sizeOfData, Framing
<1> QED
  BY <1>1 DEF entrySize

(* dataSize is the sum of the sizes of the entries.                        *)
LEMMA DataSizeLaws == SumLaws(dataSize, Entries, entrySize)
<1>1. \E f : SumDef(f, Entries, entrySize)
  BY EntrySizes, SumExists
<1>2. dataSize = CHOOSE f : SumDef(f, Entries, entrySize)
  BY DEF dataSize, SumDef
<1>3. SumDef(dataSize, Entries, entrySize)
  BY <1>1, <1>2
<1> QED
  BY <1>3, EntrySizes, SumFacts

(* queueSize is the sum of a sequence of numbers.                          *)
LEMMA QueueSizeLaws ==
  /\ queueSize \in [Seq(Nat) -> Nat]
  /\ queueSize[<<>>] = 0
  /\ \A q \in Seq(Nat) : q # <<>> => queueSize[q] = Head(q) + queueSize[Tail(q)]
  /\ \A q \in Seq(Nat), n \in Nat : queueSize[Append(q, n)] = queueSize[q] + n
<1>1. queueSize = CHOOSE f : NumbersDef(f)
  BY DEF queueSize, NumbersDef
<1>2. NumbersLaws(queueSize)
  BY <1>1, NumbersFacts
<1> QED
  BY <1>2 DEF NumbersLaws

(* blocksOf puts the data of messages one after the other.                 *)
LEMMA BlocksOfLaws ==
  /\ blocksOf \in [Seq(Messages) -> Seq(Entries)]
  /\ blocksOf[<<>>] = <<>>
  /\ \A w \in Seq(Messages), m \in Messages :
       blocksOf[Append(w, m)] = blocksOf[w] \o m.data
<1> DEFINE data == [m \in Messages |-> m.data]
           S == Seq(Entries)
           op == concat(Entries)
           Flat(f) == f = [w \in Seq(Messages) |->
                             IF w = <<>> THEN <<>> ELSE Head(w).data \o f[Tail(w)]]
<1>1. data \in [Messages -> S] /\ \A m \in Messages : data[m] = m.data
  BY DEF Messages
<1>2. \A w \in Seq(Messages) :
        w # <<>> => Head(w) \in Messages /\ Tail(w) \in Seq(Messages)
  BY HeadTailProperties
<1>3. \A a, b \in S : op[<<a, b>>] = a \o b
  BY DEF concat
<1>4. <<>> \in Seq(Messages)
  OBVIOUS
<1>5. Monoid(S, op, <<>>)
  BY ConcatMonoid
<1> HIDE DEF data, S, op
<1>6. \E f : Flat(f)
  <2>1. PICK f : f \in [Seq(Messages) -> S] /\ IsFold(f, Messages, S, data, op, <<>>)
    BY <1>1, <1>5, FoldExists
  <2>2. ASSUME NEW w \in Seq(Messages)
        PROVE  f[w] = IF w = <<>> THEN <<>> ELSE Head(w).data \o f[Tail(w)]
    <3>1. CASE w = <<>>
      BY <2>1, <3>1 DEF IsFold
    <3>2. CASE w # <<>>
      <4>1. f[Tail(w)] \in S /\ data[Head(w)] \in S
        BY <1>1, <1>2, <2>1, <3>2
      <4>2. f[w] = op[<<data[Head(w)], f[Tail(w)]>>]
        BY <2>1, <3>2, <4>1 DEF IsFold
      <4> QED
        BY <1>1, <1>2, <1>3, <3>2, <4>1, <4>2
    <3> QED
      BY <3>1, <3>2
  <2>3. Flat(f)
    BY <2>1, <2>2
  <2> QED
    BY <2>3
<1>7. blocksOf = CHOOSE f : Flat(f)
  BY DEF blocksOf
<1>8. Flat(blocksOf)
  BY <1>6, <1>7
<1>9. IsFold(blocksOf, Messages, S, data, op, <<>>)
  <2>1. blocksOf = [w \in Seq(Messages) |-> blocksOf[w]]
    BY <1>8
  <2>2. blocksOf[<<>>] = <<>>
    BY <1>4, <1>8
  <2>3. ASSUME NEW w \in Seq(Messages), w # <<>>, blocksOf[Tail(w)] \in S
        PROVE  blocksOf[w] = op[<<data[Head(w)], blocksOf[Tail(w)]>>]
    <3>1. blocksOf[w] = Head(w).data \o blocksOf[Tail(w)]
      BY <1>8, <2>3
    <3>2. data[Head(w)] \in S /\ data[Head(w)] = Head(w).data
      BY <1>1, <1>2, <2>3
    <3> QED
      BY <1>3, <2>3, <3>1, <3>2
  <2> HIDE DEF Flat
  <2> QED
    BY <2>1, <2>2, <2>3 DEF IsFold
<1>10. FoldLaws(blocksOf, Messages, S, data, op, <<>>)
  BY <1>1, <1>5, <1>9, FoldFacts
<1>11. blocksOf \in [Seq(Messages) -> S] /\ blocksOf[<<>>] = <<>>
  BY <1>10 DEF FoldLaws
<1>12. ASSUME NEW w \in Seq(Messages), NEW m \in Messages
       PROVE  blocksOf[Append(w, m)] = blocksOf[w] \o m.data
  <2>1. blocksOf[Append(w, m)] = op[<<blocksOf[w], data[m]>>]
    BY <1>10 DEF FoldLaws
  <2>2. blocksOf[w] \in S /\ data[m] \in S /\ data[m] = m.data
    BY <1>1, <1>11
  <2> QED
    BY <1>3, <2>1, <2>2
<1> QED
  BY <1>11, <1>12 DEF S

-----------------------------------------------------------------------------
(* Messages                                                                *)

(* The peer reads the prefix of a block back to its CID, and whole.        *)
LEMMA EntryParses ==
  ASSUME NEW r \in Requests, NEW cid \in Blocks
  PROVE  LET p == readPrefix(entry(r, cid).prefix) IN
         /\ p.ok /\ p.left = 0
         /\ cid = [version |-> p.version, codec |-> p.codec,
                   hash_type |-> p.hash_type, digest |-> entry(r, cid).data]
<1>1. entry(r, cid).prefix = prefixOf(cid) /\ entry(r, cid).data = cid.digest
  BY DEF entry
<1>2. CASE cid.version = 0
  <2>1. cid.codec = DAG_PB /\ cid.hash_type = SHA256
    BY <1>2, CidsAssumption
  <2>2. prefixOf(cid) = <<SHA256, 32>>
    BY <1>2, <2>1 DEF prefixOf
  <2>3. readPrefix(<<SHA256, 32>>) =
          [ok |-> TRUE, left |-> 0, version |-> 0, codec |-> DAG_PB,
           hash_type |-> SHA256]
    BY DEF readPrefix
  <2> QED
    BY <1>1, <1>2, <2>1, <2>2, <2>3, CidsAssumption
<1>3. CASE cid.version = 1
  <2> DEFINE q == <<1, cid.codec, cid.hash_type, 32>>
  <2>1. prefixOf(cid) = q
    BY <1>3 DEF prefixOf
  <2>2. Len(q) = 4 /\ q[1] = 1 /\ q[2] = cid.codec /\ q[3] = cid.hash_type
    OBVIOUS
  <2> HIDE DEF q
  <2>3. readPrefix(q) =
          [ok |-> q[1] \in {0, 1} /\ Len(q) >= 4, left |-> Len(q) - 4,
           version |-> q[1], codec |-> q[2], hash_type |-> q[3]]
    BY <2>2 DEF readPrefix, SHA256
  <2>4. readPrefix(q).ok /\ readPrefix(q).left = 0
    <3>1. q[1] \in {0, 1} /\ Len(q) >= 4 /\ Len(q) - 4 = 0
      BY <2>2
    <3>2. (q[1] \in {0, 1} /\ Len(q) >= 4) = TRUE
      BY <3>1
    <3>3. readPrefix(q) =
            [ok |-> TRUE, left |-> Len(q) - 4, version |-> q[1],
             codec |-> q[2], hash_type |-> q[3]]
      BY <2>3, <3>2, Zenon
    <3> QED
      BY <3>1, <3>3
  <2>5. /\ readPrefix(q).version = 1
        /\ readPrefix(q).codec = cid.codec
        /\ readPrefix(q).hash_type = cid.hash_type
    BY <2>2, <2>3
  <2> QED
    BY <1>1, <1>3, <2>1, <2>4, <2>5, CidsAssumption
<1> QED
  BY <1>2, <1>3, CidsAssumption

(* So it does for all blocks of a message.                                 *)
LEMMA DataParses ==
  ASSUME NEW m \in Messages, NEW j \in DOMAIN m.data
  PROVE  LET p == readPrefix(m.data[j].prefix)
             cid == parseMessage(m).data[j] IN
         /\ p.ok /\ p.left = 0
         /\ cid \in Blocks /\ entry(m.data[j].for, cid) = m.data[j]
<1>1. m.data \in Seq(Entries)
  BY DEF Messages
<1>2. m.data[j] \in Entries
  BY <1>1
<1>3. PICK r \in Requests, cid \in Blocks : m.data[j] = entry(r, cid)
  BY <1>2 DEF Entries
<1>4. m.data[j].for = r
  BY <1>3 DEF entry
<1> DEFINE p == readPrefix(m.data[j].prefix)
<1>5. /\ p.ok /\ p.left = 0
      /\ cid = [version |-> p.version, codec |-> p.codec,
                hash_type |-> p.hash_type, digest |-> m.data[j].data]
  BY <1>3, EntryParses
<1>6. parseMessage(m).data[j] = cid
  BY <1>5 DEF parseMessage, parseBlocks
<1> QED
  BY <1>3, <1>4, <1>5, <1>6

(* A message that carries what a builder holds and one response            *)
LEMMA ResponseMessage ==
  ASSUME NEW m \in Messages, m.requests = <<>>, m.responses = <<>>,
         NEW r \in Requests, NEW status \in Statuses \cup {RS_PARTIAL_CONTENT},
         NEW e \in Extensions \cup {<<>>}
  PROVE  LET n == addResponse(m, r, status, e) IN
         /\ n \in Messages
         /\ n.data = m.data
         /\ n.requests = <<>>
         /\ \A i \in DOMAIN n.responses : n.responses[i].status \in KnownStatuses
         /\ getSerializedSize(n) = dataSize[m.data] + ResponseSize
<1> DEFINE n == addResponse(m, r, status, e)
           x == [id |-> r, status |-> status, extensions |-> extensionMap(e)]
           X == [id : Requests, status : Statuses \cup {RS_PARTIAL_CONTENT},
                 extensions : Maps]
<1>1. x \in X
  BY DEF Maps
<1>2. m.responses \in Seq(X) /\ m.data \in Seq(Entries)
  BY DEF Messages
<1>3. n.responses = <<x>>
  <2>1. n.responses = Append(m.responses, x)
    BY DEF addResponse, Messages
  <2> QED
    BY <2>1
<1>4. <<x>> \in Seq(X) /\ Len(<<x>>) = 1 /\ DOMAIN <<x>> = {1} /\ <<x>>[1] = x
  BY <1>1
<1>5. n.data = m.data /\ n.requests = <<>>
  BY DEF addResponse, Messages
<1>6. n \in Messages
  <2>1. n = [m EXCEPT !.responses = <<x>>]
    BY DEF addResponse
  <2> HIDE DEF n, x
  <2> QED
    BY <1>4, <2>1 DEF Messages
<1>7. x.status \in KnownStatuses
  BY StatusesAssumption DEF KnownStatuses, RS_PARTIAL_CONTENT
<1>8. getSerializedSize(n) = dataSize[m.data] + ResponseSize
  <2>1. dataSize[m.data] \in Nat
    BY <1>2, DataSizeLaws DEF SumLaws
  <2>2. Len(n.responses) = 1 /\ Len(n.requests) = 0
    BY <1>3, <1>4, <1>5
  <2> HIDE DEF n
  <2> QED
    BY <1>5, <2>1, <2>2 DEF getSerializedSize, ResponseSize
<1> HIDE DEF x
<1> QED
  BY <1>3, <1>4, <1>5, <1>6, <1>7, <1>8

(* A message that carries one request, or its cancellation                 *)
LEMMA RequestMessage ==
  ASSUME NEW x \in [id : Requests, cancel : BOOLEAN,
                    root : {<<>>} \cup {<<cid>> : cid \in Blocks},
                    extensions : Maps],
         x.cancel = (x.root = <<>>)
  PROVE  LET n == [NoMessage EXCEPT !.requests = Append(@, x)] IN
         /\ n \in Messages
         /\ n.data = <<>>
         /\ getSerializedSize(n) = ResponseSize
         /\ Sendable(n)
<1> DEFINE n == [NoMessage EXCEPT !.requests = Append(@, x)]
<1>1. n = [requests |-> <<x>>, responses |-> <<>>, data |-> <<>>]
  BY DEF NoMessage
<1>2. n.requests = <<x>> /\ n.responses = <<>> /\ n.data = <<>>
  BY <1>1
<1> HIDE DEF n
<1>3. n \in Messages
  <2> DEFINE X == [id : Requests, cancel : BOOLEAN,
                   root : {<<>>} \cup {<<cid>> : cid \in Blocks},
                   extensions : Maps]
  <2>1. x \in X
    OBVIOUS
  <2> HIDE DEF X
  <2>2. <<x>> \in Seq(X)
    BY <2>1
  <2>3. Messages = [requests : Seq(X),
                    responses : Seq([id : Requests,
                                     status : Statuses \cup {RS_PARTIAL_CONTENT},
                                     extensions : Maps]),
                    data : Seq(Entries)]
    BY DEF Messages, X
  <2> QED
    BY <1>1, <2>2, <2>3
<1>4. getSerializedSize(n) = ResponseSize
  <2>1. dataSize[<<>>] = 0
    BY DataSizeLaws DEF SumLaws
  <2> QED
    BY <1>2, <2>1 DEF getSerializedSize, ResponseSize
<1>5. parsable(n)
  BY <1>2 DEF parsable
<1>6. ASSUME NEW j \in DOMAIN n.requests
      PROVE  LET q == parseMessage(n).requests[j] IN q.cancel = (q.root = <<>>)
  <2>1. j = 1 /\ n.requests[j] = x
    BY <1>2, <1>6
  <2>2. parseMessage(n).requests[j] =
          [id |-> x.id, cancel |-> x.cancel,
           root |-> IF x.cancel THEN <<>> ELSE x.root]
    BY <2>1 DEF parseMessage, parseRequests
  <2> QED
    BY <2>2
<1>7. getSerializedSize(n) <= kMaxMessageSize + Framing + ResponseSize
  BY <1>4, LimitsAssumption DEF Framing, ResponseSize
<1>8. Sendable(n)
  BY <1>2, <1>5, <1>6, <1>7 DEF Sendable
<1> QED
  BY <1>2, <1>3, <1>4, <1>8 DEF n

(* One more block in a message                                             *)
LEMMA DataBlock ==
  ASSUME NEW m \in Messages, NEW r \in Requests, NEW b \in Blocks
  PROVE  LET n == addDataBlock(m, r, b) IN
         /\ n \in Messages
         /\ n.data = Append(m.data, entry(r, b))
         /\ n.requests = m.requests /\ n.responses = m.responses
         /\ dataSize[n.data] = dataSize[m.data] + Framing + SizeOf[b]
<1> DEFINE n == addDataBlock(m, r, b)
           e == entry(r, b)
<1>1. /\ e \in Entries /\ SizeOf[b] \in Nat
      /\ entrySize[e] = Framing + SizeOf[b]
  BY EntrySize
<1>2. n = [m EXCEPT !.data = Append(m.data, e)]
  BY DEF addDataBlock
<1> HIDE DEF n, e
<1>3. m.data \in Seq(Entries) /\ Append(m.data, e) \in Seq(Entries)
  BY <1>1 DEF Messages
<1>4. n \in Messages
  BY <1>2, <1>3 DEF Messages
<1>5. /\ n.data = Append(m.data, e)
      /\ n.requests = m.requests /\ n.responses = m.responses
  BY <1>2 DEF Messages
<1>6. dataSize[n.data] = dataSize[m.data] + entrySize[e]
  BY <1>1, <1>3, <1>5, DataSizeLaws DEF SumLaws
<1>7. dataSize[m.data] \in Nat
  BY <1>3, DataSizeLaws DEF SumLaws
<1>8. dataSize[n.data] = dataSize[m.data] + Framing + SizeOf[b]
  BY <1>1, <1>6, <1>7 DEF Framing
<1> QED
  BY <1>4, <1>5, <1>8 DEF n, e

(* An empty builder                                                        *)
LEMMA EmptyMessage ==
  /\ NoMessage \in Messages
  /\ NoMessage.requests = <<>> /\ NoMessage.responses = <<>>
  /\ NoMessage.data = <<>>
  /\ dataSize[<<>>] = 0
BY DataSizeLaws DEF NoMessage, Messages, SumLaws

(* What a builder that keeps the invariant holds may be sent.              *)
LEMMA BuilderSendable ==
  ASSUME TypeOK, BuilderInv, NEW r \in Requests,
         NEW status \in Statuses \cup {RS_PARTIAL_CONTENT},
         NEW e \in Extensions \cup {<<>>}
  PROVE  Sendable(addResponse(builder, r, status, e))
<1> DEFINE n == addResponse(builder, r, status, e)
<1>1. /\ n \in Messages
      /\ n.data = builder.data
      /\ n.requests = <<>>
      /\ \A i \in DOMAIN n.responses : n.responses[i].status \in KnownStatuses
      /\ getSerializedSize(n) = dataSize[builder.data] + ResponseSize
  BY ResponseMessage DEF TypeOK
<1> HIDE DEF n
<1>2. \A j \in DOMAIN n.data :
        LET p == readPrefix(n.data[j].prefix)
            cid == parseMessage(n).data[j] IN
        /\ p.ok /\ p.left = 0
        /\ cid \in Blocks /\ entry(n.data[j].for, cid) = n.data[j]
  BY <1>1, DataParses
<1>3. parsable(n)
  BY <1>1, <1>2 DEF parsable
<1>4. DOMAIN n.requests = {}
  BY <1>1
<1>5. dataSize[builder.data] \in Nat
  BY DataSizeLaws DEF SumLaws, TypeOK, Messages
<1>6. \/ getSerializedSize(n) <= kMaxMessageSize + Framing + ResponseSize
      \/ Len(n.data) = 1
  BY <1>1, <1>5, LimitsAssumption DEF BuilderInv, Framing, ResponseSize
<1>7. Sendable(n)
  BY <1>2, <1>3, <1>4, <1>6 DEF Sendable
<1> QED
  BY <1>7 DEF n

(* A step that leaves the wire alone                                       *)
LEMMA WireUnchanged == ASSUME WireInv, UNCHANGED wire PROVE WireInv'
<1>1. \A i \in 1 .. Len(wire') : Sendable(wire'[i])
  BY DEF WireInv
<1> QED
  BY <1>1 DEF WireInv, Sendable, parsable, parseMessage, parseBlocks,
              parseRequests, getSerializedSize

(* A concatenation less its second part is its first.                      *)
LEMMA DropSecondPart ==
  ASSUME NEW E, NEW s \in Seq(E), NEW t \in Seq(E)
  PROVE  SubSeq(s \o t, 1, Len(s \o t) - Len(t)) = s
<1> DEFINE u == s \o t
           v == SubSeq(u, 1, Len(s))
<1>1. /\ u \in Seq(E) /\ Len(u) = Len(s) + Len(t)
      /\ \A i \in 1 .. Len(s) + Len(t) :
           u[i] = IF i <= Len(s) THEN s[i] ELSE t[i - Len(s)]
  BY ConcatProperties
<1>2. Len(s) \in Nat /\ Len(t) \in Nat
  BY LenProperties
<1>3. Len(u) - Len(t) = Len(s)
  BY <1>1, <1>2
<1> HIDE DEF u
<1>4. /\ v \in Seq(E) /\ Len(v) = Len(s)
      /\ \A i \in 1 .. Len(s) : v[i] = u[i]
  BY <1>1, <1>2
<1>5. \A i \in 1 .. Len(s) : v[i] = s[i]
  BY <1>1, <1>2, <1>4
<1> HIDE DEF v
<1>6. v = s
  BY <1>4, <1>5, SeqEqual
<1> QED
  BY <1>3, <1>6 DEF u, v

(* A message that is enqueued is the last on the wire and adds its size.   *)
LEMMA EnqueueEffect ==
  ASSUME TypeOK, WireInv, NEW m \in Messages, Sendable(m),
         getSerializedSize(m) \in Nat, enqueue(m)
  PROVE  /\ queue' \in Seq(Nat)
         /\ wire' \in Seq(Messages)
         /\ WireInv'
         /\ blocksOf[wire'] = blocksOf[wire] \o m.data
         /\ pending_bytes' = pending_bytes + getSerializedSize(m)
<1>1. /\ queue' = Append(queue, getSerializedSize(m))
      /\ wire' = Append(wire, m)
  BY DEF enqueue
<1>2. queue \in Seq(Nat) /\ wire \in Seq(Messages)
  BY DEF TypeOK
<1>3. queue' \in Seq(Nat) /\ wire' \in Seq(Messages)
  BY <1>1, <1>2
<1>4. WireInv'
  <2>1. /\ Len(wire') = Len(wire) + 1
        /\ \A i \in 1 .. Len(wire) : wire'[i] = wire[i]
        /\ wire'[Len(wire) + 1] = m
    BY <1>1, <1>2, AppendProperties
  <2>2. ASSUME NEW i \in 1 .. Len(wire')
        PROVE  Sendable(wire'[i])
    <3>1. Len(wire) \in Nat
      BY <1>2
    <3>2. i \in 1 .. Len(wire) \/ i = Len(wire) + 1
      BY <2>1, <2>2, <3>1
    <3> QED
      BY <2>1, <3>2 DEF WireInv
  <2> QED
    BY <2>2 DEF WireInv, Sendable, parsable, parseMessage, parseBlocks,
                parseRequests, getSerializedSize
<1>5. blocksOf[wire'] = blocksOf[wire] \o m.data
  BY <1>1, <1>2, BlocksOfLaws
<1>6. pending_bytes' = pending_bytes + getSerializedSize(m)
  BY <1>1, <1>2, QueueSizeLaws DEF pending_bytes
<1> QED
  BY <1>3, <1>4, <1>5, <1>6

-----------------------------------------------------------------------------
(* The steps                                                               *)

(* addBlockToResponse                                                      *)
LEMMA AddBlockKeepsInv ==
  ASSUME EndpointInv, NEW r \in Requests, NEW b \in Blocks,
         addBlockToResponse(r, b)
  PROVE  EndpointInv'
<1> DEFINE z == dataSize[builder.data]
           p == pending_bytes
           e == entry(r, b)
           k == SizeOf[b]
<1>1. e \in Entries /\ k \in Nat
  BY EntrySize
<1>2. /\ builder \in Messages /\ builder.data \in Seq(Entries)
      /\ wire \in Seq(Messages) /\ accepted \in Seq(Entries)
      /\ blocksOf[wire] \in Seq(Entries)
  BY BlocksOfLaws DEF EndpointInv, TypeOK, Messages
<1>3. z \in Nat /\ p \in Nat
  BY DataSizeLaws, QueueSizeLaws DEF SumLaws, EndpointInv, TypeOK, Messages,
                                     pending_bytes
<1>4. getSerializedSize(builder) = z
  BY <1>3 DEF getSerializedSize, EndpointInv, TypeOK, ResponseSize
<1>5. /\ p + z + k <= kMaxPendingBytes
      /\ accepted' = Append(accepted, e)
      /\ UNCHANGED buffered
  BY <1>1, <1>3, <1>4 DEF addBlockToResponse
<1>6. accepted' \in Seq(Entries)
  BY <1>1, <1>2, <1>5
<1>7. buffered' \in Nat /\ buffered' <= kMaxPendingBytes
  BY <1>5 DEF EndpointInv, TypeOK
<1>8. accepted = blocksOf[wire] \o builder.data
  BY DEF EndpointInv, OrderInv
<1>9. accepted' = accepted \o <<e>>
  BY <1>1, <1>2, <1>5, AppendIsConcat
<1>10. CASE z + k <= kMaxMessageSize
  <2> DEFINE n == addDataBlock(builder, r, b)
  <2>1. builder' = n /\ UNCHANGED <<queue, wire>>
    BY <1>1, <1>3, <1>4, <1>10, LimitsAssumption DEF addBlockToResponse
  <2>2. /\ n \in Messages
        /\ n.data = Append(builder.data, e)
        /\ n.requests = builder.requests /\ n.responses = builder.responses
        /\ dataSize[n.data] = z + Framing + k
    BY <1>2, DataBlock
  <2> HIDE DEF n, z, p, e, k
  <2>3. TypeOK'
    BY <1>6, <1>7, <2>1, <2>2 DEF EndpointInv, TypeOK
  <2>4. OrderInv'
    <3> DEFINE s == blocksOf[wire]
               t == builder.data
               u == <<e>>
    <3>1. s \in Seq(Entries) /\ t \in Seq(Entries) /\ u \in Seq(Entries)
      BY <1>1, <1>2
    <3>2. accepted' = (s \o t) \o u
      BY <1>8, <1>9
    <3>3. n.data = t \o u
      BY <1>1, <1>2, <2>2, AppendIsConcat
    <3>4. blocksOf[wire'] = s /\ builder'.data = n.data
      BY <2>1
    <3> HIDE DEF s, t, u
    <3>5. (s \o t) \o u = s \o (t \o u)
      BY <3>1, ConcatAssociative
    <3> QED
      BY <3>2, <3>3, <3>4, <3>5 DEF OrderInv
  <2>5. BuilderInv'
    <3>1. dataSize[n.data] <= kMaxMessageSize + Framing
      BY <1>1, <1>3, <1>10, <2>2, LimitsAssumption DEF Framing
    <3> QED
      BY <2>1, <3>1 DEF BuilderInv
  <2>6. WireInv'
    BY <2>1, WireUnchanged DEF EndpointInv
  <2>7. PendingInv'
    <3>1. pending_bytes' = p
      BY <2>1 DEF pending_bytes, p
    <3>2. /\ p <= 2 * kMaxPendingBytes + kMaxMessageSize + Framing + ResponseSize
          /\ p + dataSize[n.data] <= kMaxPendingBytes + Framing + ResponseSize
          /\ p + dataSize[n.data] <= kMaxPendingBytes + Framing + 2 * ResponseSize
      <4>1. dataSize[n.data] = z + Framing + k
        BY <2>2
      <4> QED
        BY <1>1, <1>3, <1>5, <4>1, LimitsAssumption DEF Framing, ResponseSize
    <3> QED
      BY <2>1, <3>1, <3>2 DEF PendingInv
  <2> QED
    BY <2>3, <2>4, <2>5, <2>6, <2>7 DEF EndpointInv
<1>11. CASE z + k > kMaxMessageSize
  <2> DEFINE m == addResponse(builder, r, RS_PARTIAL_CONTENT, <<>>)
             n == addDataBlock(NoMessage, r, b)
  <2>1. enqueue(m) /\ builder' = n
    BY <1>1, <1>3, <1>4, <1>11, LimitsAssumption
    DEF addBlockToResponse, afterPartial
  <2>2. /\ m \in Messages /\ m.data = builder.data
        /\ getSerializedSize(m) = z + ResponseSize
    <3>1. /\ RS_PARTIAL_CONTENT \in Statuses \cup {RS_PARTIAL_CONTENT}
          /\ <<>> \in Extensions \cup {<<>>}
          /\ builder.requests = <<>> /\ builder.responses = <<>>
      BY DEF EndpointInv, TypeOK
    <3> QED
      BY <1>2, <3>1, ResponseMessage
  <2>3. Sendable(m)
    BY BuilderSendable DEF EndpointInv
  <2>4. /\ n \in Messages
        /\ n.data = Append(<<>>, e)
        /\ n.requests = <<>> /\ n.responses = <<>>
        /\ dataSize[n.data] = 0 + Framing + k
    BY EmptyMessage, DataBlock
  <2> HIDE DEF m, n, z, p, e, k
  <2>5. n.data = <<e>> /\ Len(n.data) = 1 /\ dataSize[n.data] = Framing + k
    BY <1>1, <2>4 DEF Framing
  <2>6. /\ queue' \in Seq(Nat) /\ wire' \in Seq(Messages)
        /\ WireInv'
        /\ blocksOf[wire'] = blocksOf[wire] \o m.data
        /\ pending_bytes' = p + getSerializedSize(m)
    <3>1. TypeOK /\ WireInv
      BY DEF EndpointInv
    <3>2. getSerializedSize(m) \in Nat
      BY <1>3, <2>2 DEF ResponseSize
    <3> QED
      BY <2>1, <2>2, <2>3, <3>1, <3>2, EnqueueEffect DEF p
  <2>7. TypeOK'
    BY <1>6, <1>7, <2>1, <2>4, <2>6 DEF TypeOK
  <2>8. OrderInv'
    BY <1>8, <1>9, <2>1, <2>2, <2>5, <2>6 DEF OrderInv
  <2>9. BuilderInv'
    <3>1. dataSize[n.data] <= kMaxPendingBytes + Framing
      BY <1>1, <1>3, <1>5, <2>5, LimitsAssumption DEF Framing
    <3> QED
      BY <2>1, <2>5, <3>1 DEF BuilderInv
  <2>10. PendingInv'
    <3>1. pending_bytes' = p + z + ResponseSize
      BY <1>3, <2>2, <2>6 DEF ResponseSize
    <3> DEFINE q == p + z + ResponseSize
    <3>2. /\ q <= 2 * kMaxPendingBytes + kMaxMessageSize + Framing + ResponseSize
          /\ q + dataSize[n.data] <= kMaxPendingBytes + Framing + ResponseSize
          /\ q + dataSize[n.data] <= kMaxPendingBytes + Framing + 2 * ResponseSize
      BY <1>1, <1>3, <1>5, <2>5, LimitsAssumption DEF Framing, ResponseSize
    <3> QED
      BY <2>1, <3>1, <3>2 DEF PendingInv
  <2> QED
    BY <2>6, <2>7, <2>8, <2>9, <2>10 DEF EndpointInv
<1> QED
  BY <1>1, <1>3, <1>10, <1>11, LimitsAssumption

(* sendResponse                                                            *)
LEMMA SendResponseKeepsInv ==
  ASSUME EndpointInv, NEW r \in Requests, NEW status \in Statuses,
         NEW e \in Extensions, sendResponse(r, status, e)
  PROVE  EndpointInv'
<1> DEFINE z == dataSize[builder.data]
           p == pending_bytes
<1>1. /\ builder \in Messages /\ builder.data \in Seq(Entries)
      /\ wire \in Seq(Messages) /\ accepted \in Seq(Entries)
      /\ blocksOf[wire] \in Seq(Entries)
      /\ builder.requests = <<>> /\ builder.responses = <<>>
  BY BlocksOfLaws DEF EndpointInv, TypeOK, Messages
<1>2. z \in Nat /\ p \in Nat
  BY DataSizeLaws, QueueSizeLaws DEF SumLaws, EndpointInv, TypeOK, Messages,
                                     pending_bytes
<1>3. builder' = NoMessage /\ UNCHANGED buffered
  BY DEF sendResponse
<1>4. /\ builder' \in Messages
      /\ builder'.requests = <<>> /\ builder'.responses = <<>>
      /\ builder'.data = <<>> /\ dataSize[builder'.data] = 0
  BY <1>3, EmptyMessage
<1>5. accepted = blocksOf[wire] \o builder.data
  BY DEF EndpointInv, OrderInv
<1>6. buffered' \in Nat /\ buffered' <= kMaxPendingBytes
  BY <1>3 DEF EndpointInv, TypeOK
<1>7. BuilderInv'
  BY <1>4, LimitsAssumption DEF BuilderInv, Framing
<1>8. CASE p > kMaxPendingBytes
  <2>1. /\ accepted' = SubSeq(accepted, 1, Len(accepted) - Len(builder.data))
        /\ UNCHANGED <<queue, wire>>
    BY <1>8 DEF sendResponse
  <2>2. accepted' = blocksOf[wire]
    <3> DEFINE s == blocksOf[wire]
               t == builder.data
    <3>1. s \in Seq(Entries) /\ t \in Seq(Entries)
      BY <1>1
    <3>2. accepted' = SubSeq(s \o t, 1, Len(s \o t) - Len(t))
      BY <1>5, <2>1
    <3> HIDE DEF s, t
    <3>3. SubSeq(s \o t, 1, Len(s \o t) - Len(t)) = s
      BY <3>1, DropSecondPart
    <3> QED
      BY <3>2, <3>3 DEF s
  <2>3. TypeOK'
    BY <1>1, <1>4, <1>6, <2>1, <2>2 DEF EndpointInv, TypeOK
  <2>4. OrderInv'
    <3>1. blocksOf[wire] \o <<>> = blocksOf[wire]
      BY <1>1, ConcatEmptySeq
    <3> QED
      BY <1>4, <2>1, <2>2, <3>1 DEF OrderInv
  <2>5. WireInv'
    BY <2>1, WireUnchanged DEF EndpointInv
  <2>6. PendingInv'
    <3>1. pending_bytes' = p
      BY <2>1 DEF pending_bytes
    <3>2. /\ p <= 2 * kMaxPendingBytes + kMaxMessageSize + Framing + ResponseSize
          /\ buffered > 0 =>
               p + z <= kMaxPendingBytes + Framing + 2 * ResponseSize
      BY DEF EndpointInv, PendingInv
    <3> HIDE DEF p, z
    <3>3. buffered > 0 =>
            p + 0 <= kMaxPendingBytes + Framing + 2 * ResponseSize
      BY <1>2, <3>2, LimitsAssumption DEF Framing, ResponseSize
    <3> QED
      BY <1>3, <1>4, <3>1, <3>2, <3>3 DEF PendingInv
  <2> QED
    BY <1>7, <2>3, <2>4, <2>5, <2>6 DEF EndpointInv
<1>9. CASE p <= kMaxPendingBytes
  <2> DEFINE m == addResponse(builder, r, status, e)
  <2>1. enqueue(m) /\ UNCHANGED accepted
    BY <1>2, <1>9, LimitsAssumption DEF sendResponse
  <2>2. /\ m \in Messages /\ m.data = builder.data
        /\ getSerializedSize(m) = z + ResponseSize
    <3>1. /\ status \in Statuses \cup {RS_PARTIAL_CONTENT}
          /\ e \in Extensions \cup {<<>>}
      OBVIOUS
    <3> QED
      BY <1>1, <3>1, ResponseMessage
  <2>3. Sendable(m)
    BY BuilderSendable DEF EndpointInv
  <2> HIDE DEF m, z, p
  <2>4. /\ queue' \in Seq(Nat) /\ wire' \in Seq(Messages)
        /\ WireInv'
        /\ blocksOf[wire'] = blocksOf[wire] \o m.data
        /\ pending_bytes' = p + getSerializedSize(m)
    <3>1. TypeOK /\ WireInv
      BY DEF EndpointInv
    <3>2. getSerializedSize(m) \in Nat
      BY <1>2, <2>2 DEF ResponseSize
    <3> QED
      BY <2>1, <2>2, <2>3, <3>1, <3>2, EnqueueEffect DEF p
  <2>5. TypeOK'
    BY <1>1, <1>4, <1>6, <2>1, <2>4 DEF TypeOK
  <2>6. OrderInv'
    <3>1. accepted \o <<>> = accepted
      BY <1>1, ConcatEmptySeq
    <3> QED
      BY <1>4, <1>5, <2>1, <2>2, <2>4, <3>1 DEF OrderInv
  <2>7. PendingInv'
    <3>1. pending_bytes' = p + z + ResponseSize
      BY <1>2, <2>2, <2>4 DEF ResponseSize
    <3>2. p + z + ResponseSize
            <= 2 * kMaxPendingBytes + kMaxMessageSize + Framing + ResponseSize
      <4>1. z <= kMaxMessageSize + Framing \/ z <= kMaxPendingBytes + Framing
        BY DEF EndpointInv, BuilderInv, z
      <4> QED
        BY <1>2, <1>9, <4>1, LimitsAssumption DEF Framing, ResponseSize
    <3>3. ASSUME buffered > 0
          PROVE  p + z + ResponseSize + 0
                   <= kMaxPendingBytes + Framing + 2 * ResponseSize
      <4>1. CASE builder.data = <<>>
        <5>1. z = 0
          BY <4>1, EmptyMessage DEF z
        <5> QED
          BY <1>2, <1>9, <5>1, LimitsAssumption DEF Framing, ResponseSize
      <4>2. CASE builder.data # <<>>
        <5>1. p + z <= kMaxPendingBytes + Framing + ResponseSize
          BY <3>3, <4>2 DEF EndpointInv, PendingInv, p, z
        <5> QED
          BY <1>2, <5>1, LimitsAssumption DEF Framing, ResponseSize
      <4> QED
        BY <4>1, <4>2
    <3> QED
      BY <1>3, <1>4, <3>1, <3>2, <3>3 DEF PendingInv
  <2> QED
    BY <1>7, <2>4, <2>5, <2>6, <2>7 DEF EndpointInv
<1> QED
  BY <1>2, <1>8, <1>9, LimitsAssumption

(* enqueueRequest                                                          *)
LEMMA EnqueueRequestKeepsInv ==
  ASSUME EndpointInv, NEW m \in Messages, m.data = <<>>, Sendable(m),
         getSerializedSize(m) = ResponseSize, enqueueRequest(m)
  PROVE  EndpointInv'
<1>1. /\ buffered = 0
      /\ pending_bytes + ResponseSize <= kMaxPendingBytes
      /\ enqueue(m)
      /\ UNCHANGED <<builder, buffered, accepted>>
  BY DEF enqueueRequest
<1>2. /\ queue' \in Seq(Nat) /\ wire' \in Seq(Messages)
      /\ WireInv'
      /\ blocksOf[wire'] = blocksOf[wire] \o m.data
      /\ pending_bytes' = pending_bytes + ResponseSize
  <2>1. TypeOK /\ WireInv
    BY DEF EndpointInv
  <2>2. getSerializedSize(m) \in Nat
    BY DEF ResponseSize
  <2> QED
    BY <1>1, <2>1, <2>2, EnqueueEffect
<1>3. blocksOf[wire'] = blocksOf[wire]
  <2>1. blocksOf[wire] \in Seq(Entries)
    BY BlocksOfLaws DEF EndpointInv, TypeOK
  <2> QED
    BY <1>2, <2>1, ConcatEmptySeq
<1>4. TypeOK'
  BY <1>1, <1>2 DEF EndpointInv, TypeOK
<1>5. OrderInv'
  BY <1>1, <1>3 DEF EndpointInv, OrderInv
<1>6. BuilderInv'
  BY <1>1 DEF EndpointInv, BuilderInv
<1>7. PendingInv'
  <2>1. pending_bytes'
          <= 2 * kMaxPendingBytes + kMaxMessageSize + Framing + ResponseSize
    BY <1>1, <1>2, LimitsAssumption DEF Framing, ResponseSize
  <2>2. ~(buffered' > 0)
    BY <1>1
  <2> QED
    BY <2>1, <2>2 DEF PendingInv
<1> QED
  BY <1>2, <1>4, <1>5, <1>6, <1>7 DEF EndpointInv

(* onConnected: before it, the queue was near the limit.                   *)
LEMMA OnConnectedKeepsInv ==
  ASSUME EndpointInv, onConnected
  PROVE  EndpointInv'
<1>1. /\ buffered > 0 /\ buffered' = 0
      /\ queue' = Append(queue, buffered)
      /\ UNCHANGED <<builder, wire, accepted>>
  BY DEF onConnected
<1>2. /\ queue \in Seq(Nat)
      /\ buffered \in Nat /\ buffered <= kMaxPendingBytes
      /\ builder.data \in Seq(Entries)
  BY DEF EndpointInv, TypeOK, Messages
<1>3. TypeOK'
  BY <1>1, <1>2, LimitsAssumption DEF EndpointInv, TypeOK
<1>4. OrderInv' /\ BuilderInv'
  BY <1>1 DEF EndpointInv, OrderInv, BuilderInv
<1>5. WireInv'
  BY <1>1, WireUnchanged DEF EndpointInv
<1>6. PendingInv'
  <2>1. /\ pending_bytes' = pending_bytes + buffered
        /\ pending_bytes \in Nat /\ dataSize[builder.data] \in Nat
    BY <1>1, <1>2, QueueSizeLaws, DataSizeLaws DEF SumLaws, pending_bytes
  <2>2. pending_bytes + dataSize[builder.data]
          <= kMaxPendingBytes + Framing + 2 * ResponseSize
    BY <1>1 DEF EndpointInv, PendingInv
  <2>3. pending_bytes'
          <= 2 * kMaxPendingBytes + kMaxMessageSize + Framing + ResponseSize
    <3> DEFINE p == pending_bytes
               z == dataSize[builder.data]
    <3>1. /\ p \in Nat /\ z \in Nat
          /\ p + z <= kMaxPendingBytes + Framing + 2 * ResponseSize
          /\ pending_bytes' = p + buffered
      BY <2>1, <2>2
    <3> HIDE DEF p, z
    <3>2. p + buffered
            <= 2 * kMaxPendingBytes + kMaxMessageSize + Framing + ResponseSize
      BY <1>2, <3>1, LimitsAssumption DEF Framing, ResponseSize
    <3> QED
      BY <3>1, <3>2
  <2>4. ~(buffered' > 0)
    BY <1>1
  <2> QED
    BY <2>3, <2>4 DEF PendingInv
<1> QED
  BY <1>3, <1>4, <1>5, <1>6 DEF EndpointInv

(* written: the queue only gets shorter.                                   *)
LEMMA WrittenKeepsInv ==
  ASSUME EndpointInv, written
  PROVE  EndpointInv'
<1>1. /\ queue # <<>> /\ queue' = Tail(queue)
      /\ UNCHANGED <<builder, buffered, wire, accepted>>
  BY DEF written
<1>2. queue \in Seq(Nat) /\ builder.data \in Seq(Entries) /\ buffered \in Nat
  BY DEF EndpointInv, TypeOK, Messages
<1>3. Head(queue) \in Nat /\ Tail(queue) \in Seq(Nat)
  BY <1>1, <1>2, HeadTailProperties
<1>4. TypeOK'
  BY <1>1, <1>3 DEF EndpointInv, TypeOK
<1>5. OrderInv' /\ BuilderInv'
  BY <1>1 DEF EndpointInv, OrderInv, BuilderInv
<1>6. WireInv'
  BY <1>1, WireUnchanged DEF EndpointInv
<1>7. PendingInv'
  <2> DEFINE z == dataSize[builder.data]
             p == queueSize[queue]
             t == queueSize[Tail(queue)]
  <2>1. p \in Nat /\ t \in Nat /\ z \in Nat /\ t <= p
    <3>1. p = Head(queue) + t
      BY <1>1, <1>2, QueueSizeLaws
    <3>2. p \in Nat /\ t \in Nat /\ z \in Nat
      BY <1>2, <1>3, QueueSizeLaws, DataSizeLaws DEF SumLaws
    <3> HIDE DEF p, t, z
    <3> QED
      BY <1>3, <3>1, <3>2
  <2>2. /\ p <= 2 * kMaxPendingBytes + kMaxMessageSize + Framing + ResponseSize
        /\ buffered > 0 =>
             p + z <= kMaxPendingBytes + Framing + 2 * ResponseSize
        /\ buffered > 0 /\ builder.data # <<>> =>
             p + z <= kMaxPendingBytes + Framing + ResponseSize
    BY DEF EndpointInv, PendingInv, pending_bytes
  <2>3. /\ pending_bytes' = t
        /\ dataSize[builder.data]' = z
        /\ UNCHANGED <<buffered, builder>>
    BY <1>1 DEF pending_bytes
  <2> HIDE DEF p, t, z
  <2>4. /\ t <= 2 * kMaxPendingBytes + kMaxMessageSize + Framing + ResponseSize
        /\ buffered > 0 =>
             t + z <= kMaxPendingBytes + Framing + 2 * ResponseSize
        /\ buffered > 0 /\ builder.data # <<>> =>
             t + z <= kMaxPendingBytes + Framing + ResponseSize
    BY <2>1, <2>2, LimitsAssumption DEF Framing, ResponseSize
  <2> QED
    BY <2>3, <2>4 DEF PendingInv
<1> QED
  BY <1>4, <1>5, <1>6, <1>7 DEF EndpointInv

(* Every step of the endpoint                                              *)
LEMMA EndpointStep ==
  ASSUME EndpointInv, [EndpointNext]_endpointVars
  PROVE  EndpointInv'
<1>1. ASSUME NEW r \in Requests, NEW b \in Blocks, addBlockToResponse(r, b)
      PROVE  EndpointInv'
  BY <1>1, AddBlockKeepsInv
<1>2. ASSUME NEW r \in Requests, NEW status \in Statuses, NEW e \in Extensions,
             sendResponse(r, status, e)
      PROVE  EndpointInv'
  BY <1>2, SendResponseKeepsInv
<1>3. ASSUME NEW r \in Requests, NEW b \in Blocks, NEW e \in Extensions,
             enqueueRequest(addRequest(NoMessage, r, b, e))
      PROVE  EndpointInv'
  <2> DEFINE x == [id |-> r, cancel |-> FALSE, root |-> <<b>>,
                   extensions |-> extensionMap(e)]
             m == addRequest(NoMessage, r, b, e)
  <2>1. /\ x \in [id : Requests, cancel : BOOLEAN,
                  root : {<<>>} \cup {<<cid>> : cid \in Blocks},
                  extensions : Maps]
        /\ x.cancel = (x.root = <<>>)
    BY DEF Maps
  <2>2. m = [NoMessage EXCEPT !.requests = Append(@, x)]
    BY DEF addRequest
  <2> HIDE DEF x
  <2>3. /\ m \in Messages /\ m.data = <<>>
        /\ getSerializedSize(m) = ResponseSize /\ Sendable(m)
    BY <2>1, <2>2, RequestMessage
  <2> HIDE DEF m
  <2> QED
    BY <1>3, <2>3, EnqueueRequestKeepsInv DEF m
<1>4. ASSUME NEW r \in Requests, enqueueRequest(addCancelRequest(NoMessage, r))
      PROVE  EndpointInv'
  <2> DEFINE x == [id |-> r, cancel |-> TRUE, root |-> <<>>, extensions |-> {}]
             m == addCancelRequest(NoMessage, r)
  <2>1. {} \in Maps
    <3>1. extensionMap(<<>>) = {}
      BY DEF extensionMap
    <3> QED
      BY <3>1 DEF Maps
  <2>2. /\ x \in [id : Requests, cancel : BOOLEAN,
                  root : {<<>>} \cup {<<cid>> : cid \in Blocks},
                  extensions : Maps]
        /\ x.cancel = (x.root = <<>>)
    BY <2>1
  <2>3. m = [NoMessage EXCEPT !.requests = Append(@, x)]
    BY DEF addCancelRequest
  <2> HIDE DEF x
  <2>4. /\ m \in Messages /\ m.data = <<>>
        /\ getSerializedSize(m) = ResponseSize /\ Sendable(m)
    BY <2>2, <2>3, RequestMessage
  <2> HIDE DEF m
  <2> QED
    BY <1>4, <2>4, EnqueueRequestKeepsInv DEF m
<1>5. CASE UNCHANGED endpointVars
  <2>1. /\ UNCHANGED <<builder, queue, buffered, wire, accepted>>
        /\ UNCHANGED wire
    BY <1>5 DEF endpointVars
  <2>2. WireInv'
    BY <2>1, WireUnchanged DEF EndpointInv
  <2>3. TypeOK' /\ OrderInv' /\ BuilderInv' /\ PendingInv'
    BY <2>1 DEF EndpointInv, TypeOK, OrderInv, BuilderInv, PendingInv,
                pending_bytes
  <2> QED
    BY <2>2, <2>3 DEF EndpointInv
<1> QED
  BY <1>1, <1>2, <1>3, <1>4, <1>5, OnConnectedKeepsInv, WrittenKeepsInv
  DEF EndpointNext

-----------------------------------------------------------------------------
(* The results                                                             *)

(* The invariant holds in every state, whatever the order in which tasks   *)
(* add blocks and respond, requests are enqueued, the buffer of the        *)
(* requests endpoint is handed over and the stream writes.                 *)
THEOREM EndpointCorrect == EndpointSpec => []EndpointInv
<1>1. EndpointInit => EndpointInv
  <2> SUFFICES ASSUME EndpointInit PROVE EndpointInv
    OBVIOUS
  <2>1. /\ builder = NoMessage /\ queue = <<>> /\ wire = <<>> /\ accepted = <<>>
        /\ buffered \in {0, kMaxPendingBytes}
    BY DEF EndpointInit
  <2>2. /\ builder \in Messages
        /\ builder.requests = <<>> /\ builder.responses = <<>>
        /\ builder.data = <<>> /\ dataSize[builder.data] = 0
    BY <2>1, EmptyMessage
  <2>3. TypeOK
    BY <2>1, <2>2, LimitsAssumption DEF TypeOK
  <2>4. OrderInv
    <3>1. blocksOf[wire] = <<>>
      BY <2>1, BlocksOfLaws
    <3> QED
      BY <2>1, <2>2, <3>1 DEF OrderInv
  <2>5. BuilderInv
    BY <2>2, LimitsAssumption DEF BuilderInv, Framing
  <2>6. WireInv
    BY <2>1 DEF WireInv
  <2>7. PendingInv
    <3>1. pending_bytes = 0
      BY <2>1, QueueSizeLaws DEF pending_bytes
    <3> QED
      BY <2>2, <3>1, LimitsAssumption DEF PendingInv, Framing, ResponseSize
  <2> QED
    BY <2>3, <2>4, <2>5, <2>6, <2>7 DEF EndpointInv
<1>2. EndpointInv /\ [EndpointNext]_endpointVars => EndpointInv'
  BY EndpointStep
<1> QED
  BY <1>1, <1>2, PTL DEF EndpointSpec

(* The size of a message is a number.                                      *)
LEMMA SizeType == \A m \in Messages : getSerializedSize(m) \in Nat
<1> TAKE m \in Messages
<1>1. /\ m.data \in Seq(Entries)
      /\ Len(m.responses) \in Nat /\ Len(m.requests) \in Nat
  BY DEF Messages
<1>2. dataSize[m.data] \in Nat
  BY <1>1, DataSizeLaws DEF SumLaws
<1>3. \A a, b, d \in Nat : 2 * (a + b) + d \in Nat
  OBVIOUS
<1>4. getSerializedSize(m) =
        2 * (Len(m.responses) + Len(m.requests)) + dataSize[m.data]
  BY DEF getSerializedSize, ResponseSize
<1> QED
  BY <1>1, <1>2, <1>3, <1>4

(* Every block addBlockToResponse accepted is, in order and once, in the   *)
(* messages or still in the builder, unless a sendResponse met a full      *)
(* queue.  The peer takes every message before the first that is longer    *)
(* than its reader allows, with the very CIDs; a message that is too long  *)
(* is so by the framing of a block and a response, or is a single block.   *)
(* The queue keeps within its limit and one such message.                  *)
THEOREM OnlyOverlongIsRefused ==
  EndpointSpec => []BlocksReachPeerUnlessOverlong
<1>1. EndpointInv => BlocksReachPeerUnlessOverlong
  <2> SUFFICES ASSUME EndpointInv PROVE BlocksReachPeerUnlessOverlong
    OBVIOUS
  <2>1. DOMAIN wire = 1 .. Len(wire) /\ wire \in Seq(Messages)
    BY DEF EndpointInv, TypeOK
  <2>2. \A i \in DOMAIN wire : Sendable(wire[i])
    BY <2>1 DEF EndpointInv, WireInv
  <2>3. ASSUME NEW i \in DOMAIN wire, ~readable(wire[i])
        PROVE  overlong(wire[i])
    <3>1. getSerializedSize(wire[i]) \in Nat
      BY <2>1, <2>3, SizeType
    <3>2. /\ parsable(wire[i])
          /\ \/ getSerializedSize(wire[i]) <= kMaxMessageSize + Framing + ResponseSize
             \/ Len(wire[i].data) = 1
      BY <2>2, <2>3 DEF Sendable
    <3>3. ~(getSerializedSize(wire[i]) <= kMaxMessageSize)
      BY <2>3, <3>2 DEF readable
    <3>4. getSerializedSize(wire[i]) > kMaxMessageSize
      BY <3>1, <3>3, LimitsAssumption
    <3> QED
      BY <3>2, <3>4 DEF overlong
  <2>4. ASSUME NEW i \in DOMAIN wire, i \notin taken
        PROVE  \E k \in 1 .. i : overlong(wire[k])
    <3>1. PICK k \in 1 .. i : ~readable(wire[k])
      BY <2>4 DEF taken
    <3>2. k \in DOMAIN wire
      BY <2>1, <2>4
    <3> QED
      BY <2>3, <3>1, <3>2
  <2>5. \A i \in taken : Sendable(wire[i])
    BY <2>2 DEF taken
  <2>6. /\ blocksOf[wire] \o builder.data = accepted
        /\ pending_bytes
             <= 2 * kMaxPendingBytes + kMaxMessageSize + Framing + ResponseSize
    BY DEF EndpointInv, OrderInv, PendingInv
  <2> QED
    BY <2>4, <2>5, <2>6 DEF BlocksReachPeerUnlessOverlong, Sendable
<1> QED
  BY <1>1, EndpointCorrect, PTL

=============================================================================
