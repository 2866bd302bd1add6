---------------------------- MODULE MessageQueue ----------------------------
(***************************************************************************)
(* The outgoing message queue of one graphsync stream                      *)
(* (impl/network/message_queue.cpp).  The queue hands one buffer at a time *)
(* to stream->write() and keeps the others in pending_buffers_ until the   *)
(* completion callback arrives.                                            *)
(*                                                                         *)
(* A buffer is a member of Messages; all that matters of its contents is   *)
(* its size.  The owner (PeerContext, through an endpoint) drops its       *)
(* reference as soon as the feedback reports an error, and may drop it at  *)
(* any other moment; the callbacks hold weak pointers only.                *)
(***************************************************************************)
EXTENDS Integers, Sequences

CONSTANTS
  Messages,     \* buffers the owner may enqueue
  Size,         \* Size[m]: bytes of buffer m; 0 is an empty buffer
  MaxAccepted   \* bound of the model: buffers accepted in one behaviour

ASSUME SizeAssumption == Size \in [Messages -> Nat]
ASSUME MaxAcceptedAssumption == MaxAccepted \in Nat

VARIABLES
  queue_active,     \* State::active
  pending_buffers,  \* pending_buffers_
  pending_bytes,    \* State::pending_bytes
  writing_bytes,    \* State::writing_bytes, 0 when no write is in progress
  total_bytes,      \* State::total_bytes_written
  stream_writes,    \* buffers given to stream->write() and not called back yet
  open_for_write,   \* ~stream->isClosedForWrite()
  owned,            \* the owner still holds the queue
  enqueued,         \* history: number of buffers accepted
  written           \* history: buffers whose write completed, in order

stateVars == <<queue_active, pending_buffers, pending_bytes, writing_bytes,
               total_bytes>>
queueVars ==
  <<stateVars, stream_writes, open_for_write, owned, enqueued, written>>

-----------------------------------------------------------------------------

QueueInit ==
  /\ queue_active = TRUE
  /\ pending_buffers = <<>>
  /\ pending_bytes = 0
  /\ writing_bytes = 0
  /\ total_bytes = 0
  /\ stream_writes = <<>>
  /\ open_for_write = TRUE
  /\ owned = TRUE
  /\ enqueued = 0
  /\ written = <<>>

(* Mutant: the size of the buffer being written is not recorded.           *)
beginWriteUnrecorded(m, outstanding) ==
  /\ writing_bytes' = 0
  /\ stream_writes' = Append(outstanding, m)
  /\ UNCHANGED owned

(* beginWrite() with the writes that are outstanding at that moment: on a  *)
(* stream that is closed for write the feedback reports an error at once   *)
(* and the owner lets the queue go; otherwise the buffer goes to the       *)
(* stream.                                                                 *)
beginWrite(m, outstanding) ==
  \/ /\ open_for_write
     /\ writing_bytes' = Size[m]
     /\ stream_writes' = Append(outstanding, m)
     /\ UNCHANGED owned
  \/ /\ ~open_for_write
     /\ writing_bytes' = 0
     /\ stream_writes' = outstanding
     /\ owned' = FALSE

(* enqueue() ignores empty buffers, and everything once inactive.          *)
enqueue(m) ==
  /\ owned
  /\ enqueued < MaxAccepted
  /\ Size[m] > 0
  /\ queue_active
  /\ enqueued' = enqueued + 1
  /\ \/ /\ writing_bytes > 0
        /\ pending_bytes' = pending_bytes + Size[m]
        /\ pending_buffers' = Append(pending_buffers, m)
        /\ UNCHANGED <<writing_bytes, stream_writes, owned>>
     \/ /\ writing_bytes = 0
        /\ beginWrite(m, stream_writes)
        /\ UNCHANGED <<pending_bytes, pending_buffers>>
  /\ UNCHANGED <<queue_active, total_bytes, open_for_write, written>>

(* Mutant: clear() resets the counter and keeps the buffers.               *)
clearCounterOnly ==
  /\ owned
  /\ pending_bytes' = 0
  /\ UNCHANGED <<queue_active, pending_buffers, writing_bytes, total_bytes,
                 stream_writes, open_for_write, owned, enqueued, written>>

(* clear(), reached through OutboundEndpoint::clearPendingMessages().      *)
clear ==
  /\ owned
  /\ pending_buffers' = <<>>
  /\ pending_bytes' = 0
  /\ UNCHANGED <<queue_active, writing_bytes, total_bytes, stream_writes,
                 open_for_write, owned, enqueued, written>>

close ==
  /\ owned
  /\ pending_buffers' = <<>>
  /\ pending_bytes' = 0
  /\ queue_active' = FALSE
  /\ writing_bytes' = 0
  /\ UNCHANGED <<total_bytes, stream_writes, open_for_write, owned, enqueued,
                 written>>

(* Mutant: a completion does not start the next write.                     *)
dequeueForgotten(outstanding) ==
  /\ writing_bytes' = 0
  /\ stream_writes' = outstanding
  /\ UNCHANGED <<pending_buffers, pending_bytes, owned>>

(* Mutant: the newest pending buffer is written next.                      *)
dequeueNewest(outstanding) ==
  LET n == Len(pending_buffers)
  IN \/ /\ n > 0
        /\ pending_buffers' = SubSeq(pending_buffers, 1, n - 1)
        /\ pending_bytes' = pending_bytes - Size[pending_buffers[n]]
        /\ beginWrite(pending_buffers[n], outstanding)
     \/ /\ n = 0
        /\ dequeueForgotten(outstanding)

(* dequeue() after the completion of a write left "outstanding" writes.    *)
dequeue(outstanding) ==
  \/ /\ pending_buffers # <<>>
     /\ pending_buffers' = Tail(pending_buffers)
     /\ pending_bytes' = pending_bytes - Size[Head(pending_buffers)]
     /\ beginWrite(Head(pending_buffers), outstanding)
  \/ /\ pending_buffers = <<>>
     /\ writing_bytes' = 0
     /\ stream_writes' = outstanding
     /\ UNCHANGED <<pending_buffers, pending_bytes, owned>>

(* onMessageWritten() with all the bytes written: the next buffer is taken *)
(* before the feedback reports success.                                    *)
onMessageWritten ==
  /\ stream_writes # <<>>
  /\ owned
  /\ queue_active
  /\ total_bytes' = total_bytes + writing_bytes
  /\ written' = Append(written, Head(stream_writes))
  /\ dequeue(Tail(stream_writes))
  /\ UNCHANGED <<queue_active, open_for_write, enqueued>>

(* onMessageWritten() with an error or a short count: writing_bytes is     *)
(* reset, the error goes to the feedback and the owner lets the queue go.  *)
onWriteFailed ==
  /\ stream_writes # <<>>
  /\ owned
  /\ queue_active
  /\ writing_bytes' = 0
  /\ stream_writes' = Tail(stream_writes)
  /\ owned' = FALSE
  /\ UNCHANGED <<queue_active, pending_buffers, pending_bytes, total_bytes,
                 open_for_write, enqueued, written>>

(* A completion that finds the queue gone (the weak pointer does not lock) *)
(* or inactive: "dont need the result anymore".                            *)
onLateCompletion ==
  /\ stream_writes # <<>>
  /\ ~owned \/ ~queue_active
  /\ stream_writes' = Tail(stream_writes)
  /\ UNCHANGED <<stateVars, open_for_write, owned, enqueued, written>>

(* Environment: the remote side closes or resets the stream.               *)
StreamCloses ==
  /\ open_for_write
  /\ open_for_write' = FALSE
  /\ UNCHANGED <<stateVars, stream_writes, owned, enqueued, written>>

(* Environment: PeerContext erases the stream and its queue.               *)
OwnerDrops ==
  /\ owned
  /\ owned' = FALSE
  /\ UNCHANGED <<stateVars, stream_writes, open_for_write, enqueued, written>>

Completion == onMessageWritten \/ onWriteFailed \/ onLateCompletion

QueueNext ==
  \/ \E m \in Messages : enqueue(m)
  \/ clear
  \/ close
  \/ Completion
  \/ StreamCloses
  \/ OwnerDrops

QueueSpec == QueueInit /\ [][QueueNext]_queueVars

(* libp2p calls every write callback back, with a result or an error.      *)
QueueFairness == WF_queueVars(Completion)

-----------------------------------------------------------------------------
(* Properties.                                                             *)

Types ==
  /\ queue_active \in BOOLEAN
  /\ pending_buffers \in Seq(Messages)
  /\ pending_bytes \in Int
  /\ writing_bytes \in Nat
  /\ total_bytes \in Nat
  /\ stream_writes \in Seq(Messages)
  /\ open_for_write \in BOOLEAN
  /\ owned \in BOOLEAN
  /\ enqueued \in Nat
  /\ written \in Seq(Messages)

(* Every variable keeps its type: pending_bytes, a size_t, never           *)
(* underflows, whatever the order of clear() and completions.              *)
QueueTypeOK == Types /\ pending_bytes \in Nat

usable == owned /\ queue_active

(* Empty buffers never get past enqueue().                                 *)
NoEmptyBuffer == \A i \in 1 .. Len(pending_buffers) :
                   Size[pending_buffers[i]] > 0

(* "streams allow to write messages one by one only"                       *)
(* (message_queue.hpp:69): whatever the order of enqueue, clear, close,    *)
(* completions and failures, stream->write() is never called while an      *)
(* earlier write is outstanding.                                           *)
OneWriteAtATime == Len(stream_writes) <= 1

(* writing_bytes is the queue's only knowledge of a write in progress; it  *)
(* is positive exactly while the stream holds a buffer of a usable queue.  *)
WritingBytesTellTruth ==
  usable => /\ (writing_bytes > 0) <=> (stream_writes # <<>>)
            /\ stream_writes # <<>> => writing_bytes = Size[stream_writes[1]]

(* Buffers never wait in a usable queue on which no write is in progress:  *)
(* nothing else would ever restart it, and the "window exhaustion" branch  *)
(* of PeerContext::onStreamCleanupTimer would be entered.                  *)
NoStrandedBuffer ==
  usable /\ pending_buffers # <<>> => writing_bytes > 0

(* The inductive invariant behind the three properties above.              *)
QueueInv ==
  /\ OneWriteAtATime
  /\ WritingBytesTellTruth
  /\ NoStrandedBuffer
  /\ NoEmptyBuffer

TotalSize[s \in Seq(Messages)] ==
  IF s = <<>> THEN 0 ELSE Size[Head(s)] + TotalSize[Tail(s)]

(* pending_bytes, which the endpoints compare with kMaxPendingBytes, is    *)
(* the sum of the sizes of the pending buffers, so it never underflows;    *)
(* and total_bytes counts what was written.                                *)
PendingBytesExact ==
  owned => /\ pending_bytes = TotalSize[pending_buffers]
           /\ total_bytes = TotalSize[written]

(* A buffer that was accepted is written, discarded by the owner, or the   *)
(* queue is dropped or closed: it does not stay behind for ever.           *)
QueueDrains == [](pending_buffers # <<>> /\ usable
                    => <>(pending_buffers = <<>> \/ ~usable))

(* The queue is an ordered channel in the sense of module Fifo.            *)
pipeline == IF usable THEN stream_writes \o pending_buffers ELSE <<>>

Channel ==
  INSTANCE Fifo WITH chan <- pipeline,
                     out <- written,
                     broken <- ~usable
ImplementsFifo == Channel!Spec

=============================================================================
