------------------------- MODULE MessageQueueProofs -------------------------
(***************************************************************************)
(* Proofs about MessageQueue for any buffers, sizes and bound: one write   *)
(* at a time, no stranded buffer, and the queue implements Fifo.           *)
(***************************************************************************)
EXTENDS MessageQueue, SequenceFolds

-----------------------------------------------------------------------------
(* Type correctness.                                                       *)

(* beginWrite() hands on a typed buffer or lets the queue go.              *)
LEMMA BeginWriteType ==
  ASSUME Types, NEW m \in Messages, NEW w \in Seq(Messages),
         beginWrite(m, w)
  PROVE  /\ writing_bytes' \in Nat
         /\ stream_writes' \in Seq(Messages)
         /\ owned' \in BOOLEAN
<1>1. Size[m] \in Nat /\ Append(w, m) \in Seq(Messages)
  BY SizeAssumption, AppendProperties
<1>2. writing_bytes' \in Nat
  BY <1>1 DEF beginWrite
<1>3. stream_writes' \in Seq(Messages)
  BY <1>1 DEF beginWrite
<1>4. owned' \in BOOLEAN
  BY DEF Types, beginWrite
<1> QED
  BY <1>2, <1>3, <1>4

(* Every step keeps the types.                                             *)
LEMMA StepType == Types /\ [QueueNext]_queueVars => Types'
<1> SUFFICES ASSUME Types, [QueueNext]_queueVars
             PROVE  Types'
  OBVIOUS
<1> USE DEF Types, stateVars
<1>1. ASSUME NEW m \in Messages, enqueue(m)
      PROVE  Types'
  <2>1. Size[m] \in Nat /\ Append(pending_buffers, m) \in Seq(Messages)
    BY SizeAssumption, AppendProperties
  <2>2. /\ enqueued' \in Nat
        /\ UNCHANGED <<queue_active, total_bytes, open_for_write, written>>
    BY <1>1 DEF enqueue
  <2>3. CASE /\ pending_bytes' = pending_bytes + Size[m]
             /\ pending_buffers' = Append(pending_buffers, m)
             /\ UNCHANGED <<writing_bytes, stream_writes, owned>>
    <3>1. pending_bytes' \in Int
      BY <2>1, <2>3
    <3> QED
      BY <2>1, <2>2, <2>3, <3>1
  <2>4. CASE /\ beginWrite(m, stream_writes)
             /\ UNCHANGED <<pending_bytes, pending_buffers>>
    BY <2>2, <2>4, BeginWriteType
  <2> QED
    BY <1>1, <2>3, <2>4 DEF enqueue
<1>2. CASE clear
  BY <1>2 DEF clear
<1>3. CASE close
  <2>1. pending_buffers' \in Seq(Messages)
    BY <1>3, EmptySeq DEF close
  <2>2. queue_active' \in BOOLEAN
    BY <1>3 DEF close
  <2>3. pending_bytes' \in Int /\ writing_bytes' \in Nat
    BY <1>3 DEF close
  <2> QED
    BY <1>3, <2>1, <2>2, <2>3 DEF close
<1>4. CASE onMessageWritten
  <2>1. Tail(stream_writes) \in Seq(Messages) /\ Head(stream_writes) \in Messages
    BY <1>4, HeadTailProperties DEF onMessageWritten
  <2>2. /\ total_bytes' \in Nat /\ written' \in Seq(Messages)
        /\ UNCHANGED <<queue_active, open_for_write, enqueued>>
    BY <1>4, <2>1, AppendProperties DEF onMessageWritten
  <2>3. CASE pending_buffers # <<>>
    <3>1. Head(pending_buffers) \in Messages
          /\ Tail(pending_buffers) \in Seq(Messages)
          /\ Size[Head(pending_buffers)] \in Nat
      BY <2>3, SizeAssumption, HeadTailProperties
    <3>2. beginWrite(Head(pending_buffers), Tail(stream_writes))
          /\ pending_buffers' = Tail(pending_buffers)
          /\ pending_bytes' = pending_bytes - Size[Head(pending_buffers)]
      BY <1>4, <2>3 DEF onMessageWritten, dequeue
    <3>3. /\ writing_bytes' \in Nat
          /\ stream_writes' \in Seq(Messages)
          /\ owned' \in BOOLEAN
      BY <2>1, <3>1, <3>2, BeginWriteType
    <3>4. pending_bytes' \in Int
      BY <3>1, <3>2
    <3> QED
      BY <2>2, <3>1, <3>2, <3>3, <3>4
  <2>4. CASE pending_buffers = <<>>
    <3>1. writing_bytes' = 0 /\ stream_writes' = Tail(stream_writes)
          /\ UNCHANGED <<pending_buffers, pending_bytes, owned>>
      BY <1>4, <2>4 DEF onMessageWritten, dequeue
    <3> QED
      BY <2>1, <2>2, <3>1
  <2> QED
    BY <2>3, <2>4
<1>5. CASE onWriteFailed
  BY <1>5, HeadTailProperties DEF onWriteFailed
<1>6. CASE onLateCompletion
  BY <1>6, HeadTailProperties DEF onLateCompletion
<1>7. CASE StreamCloses
  BY <1>7 DEF StreamCloses
<1>8. CASE OwnerDrops
  BY <1>8 DEF OwnerDrops
<1>9. CASE UNCHANGED queueVars
  BY <1>9 DEF queueVars
<1> QED
  BY <1>1, <1>2, <1>3, <1>4, <1>5, <1>6, <1>7, <1>8, <1>9
  DEF QueueNext, Completion

(* The queue's state keeps its types.  That pending_bytes, an integer      *)
(* here, does not underflow is theorem NoUnderflow below.                  *)
THEOREM TypeCorrect == QueueSpec => []Types
<1>1. QueueInit => Types
  BY DEF QueueInit, Types
<1> QED
  BY <1>1, StepType, PTL DEF QueueSpec

-----------------------------------------------------------------------------
(* One write at a time, and no stranded buffer.                            *)

(* A sequence with at most one element loses it to Tail.                   *)
LEMMA TailOfOne ==
  ASSUME NEW S, NEW s \in Seq(S), s # <<>>, Len(s) <= 1
  PROVE  Len(s) = 1 /\ Tail(s) = <<>> /\ Head(s) = s[1]
<1>1. Len(s) \in Nat \ {0}
  BY EmptySeq
<1>2. Len(s) = 1
  BY <1>1
<1>3. Tail(s) \in Seq(S) /\ Len(Tail(s)) = 0
  BY <1>2, HeadTailProperties
<1>4. Tail(s) = <<>>
  BY <1>3, EmptySeq
<1>5. Head(s) = s[1]
  OBVIOUS
<1> QED
  BY <1>2, <1>4, <1>5

(* beginWrite() on a stream that holds no buffer, with a buffer that is    *)
(* not empty, leaves a consistent queue.                                   *)
LEMMA BeginWriteInv ==
  ASSUME Types, NEW m \in Messages, Size[m] > 0, beginWrite(m, <<>>),
         NoEmptyBuffer'
  PROVE  QueueInv'
<1>1. Append(<<>>, m) = <<m>> /\ <<m>> # <<>> /\ Len(<<m>>) = 1
  OBVIOUS
<1>2. CASE stream_writes' = <<m>> /\ writing_bytes' = Size[m]
  BY <1>1, <1>2
  DEF QueueInv, OneWriteAtATime, WritingBytesTellTruth, NoStrandedBuffer
<1>3. CASE stream_writes' = <<>> /\ owned' = FALSE
  BY <1>3
  DEF QueueInv, OneWriteAtATime, WritingBytesTellTruth, NoStrandedBuffer, usable
<1> QED
  BY <1>1, <1>2, <1>3 DEF beginWrite

(* Every step preserves the invariant.                                     *)
LEMMA StepInv == Types /\ QueueInv /\ [QueueNext]_queueVars => QueueInv'
<1> SUFFICES ASSUME Types, QueueInv, [QueueNext]_queueVars
             PROVE  QueueInv'
  OBVIOUS
<1> USE DEF QueueInv, stateVars
<1>1. ASSUME NEW m \in Messages, enqueue(m)
      PROVE  QueueInv'
  <2>1. CASE /\ writing_bytes > 0
             /\ pending_buffers' = Append(pending_buffers, m)
             /\ UNCHANGED <<writing_bytes, stream_writes, owned>>
    <3>1. NoEmptyBuffer'
      <4>1. /\ Len(pending_buffers') = Len(pending_buffers) + 1
            /\ \A i \in 1 .. Len(pending_buffers) :
                 pending_buffers'[i] = pending_buffers[i]
            /\ pending_buffers'[Len(pending_buffers) + 1] = m
            /\ Len(pending_buffers) \in Nat
        BY <2>1, AppendProperties, LenProperties DEF Types
      <4>2. Size[m] > 0
        BY <1>1 DEF enqueue
      <4> QED
        BY <4>1, <4>2 DEF NoEmptyBuffer
    <3>2. queue_active' = queue_active
      BY <1>1 DEF enqueue
    <3> QED
      BY <2>1, <3>1, <3>2
      DEF OneWriteAtATime, WritingBytesTellTruth, NoStrandedBuffer, usable
  <2>2. CASE /\ writing_bytes = 0
             /\ beginWrite(m, stream_writes)
             /\ UNCHANGED pending_buffers
    <3>1. usable /\ Size[m] > 0
      BY <1>1 DEF enqueue, usable
    <3>2. stream_writes = <<>>
      BY <2>2, <3>1 DEF WritingBytesTellTruth
    <3>3. NoEmptyBuffer'
      BY <2>2 DEF NoEmptyBuffer
    <3> QED
      BY <2>2, <3>1, <3>2, <3>3, BeginWriteInv
  <2> QED
    BY <1>1, <2>1, <2>2 DEF enqueue
<1>2. CASE clear
  <2>1. /\ pending_buffers' = <<>>
        /\ UNCHANGED <<writing_bytes, stream_writes, owned, queue_active>>
    BY <1>2 DEF clear
  <2>2. NoEmptyBuffer' /\ NoStrandedBuffer'
    BY <2>1 DEF NoEmptyBuffer, NoStrandedBuffer
  <2> QED
    BY <2>1, <2>2 DEF OneWriteAtATime, WritingBytesTellTruth, usable
<1>3. CASE close
  <2>1. /\ pending_buffers' = <<>> /\ UNCHANGED stream_writes /\ ~usable'
    BY <1>3 DEF close, usable
  <2> QED
    BY <2>1
    DEF OneWriteAtATime, WritingBytesTellTruth, NoStrandedBuffer, NoEmptyBuffer
<1>4. CASE onMessageWritten
  <2>1. Tail(stream_writes) = <<>>
    BY <1>4, TailOfOne DEF onMessageWritten, OneWriteAtATime, Types
  <2>2. CASE pending_buffers # <<>>
    <3>1. /\ beginWrite(Head(pending_buffers), <<>>)
          /\ pending_buffers' = Tail(pending_buffers)
      BY <1>4, <2>1, <2>2 DEF onMessageWritten, dequeue
    <3>2. /\ Head(pending_buffers) \in Messages
          /\ Len(pending_buffers) \in Nat \ {0}
          /\ Len(pending_buffers') = Len(pending_buffers) - 1
          /\ \A i \in 1 .. Len(pending_buffers') :
               pending_buffers'[i] = pending_buffers[i + 1]
      BY <2>2, <3>1, HeadTailProperties, EmptySeq DEF Types
    <3>3. Head(pending_buffers) = pending_buffers[1]
      BY <2>2 DEF Types
    <3>4. Size[Head(pending_buffers)] > 0
      BY <3>2, <3>3 DEF NoEmptyBuffer
    <3>5. NoEmptyBuffer'
      BY <3>2 DEF NoEmptyBuffer
    <3> QED
      BY <3>1, <3>2, <3>4, <3>5, BeginWriteInv
  <2>3. CASE pending_buffers = <<>>
    <3>1. /\ writing_bytes' = 0 /\ stream_writes' = <<>>
          /\ pending_buffers' = <<>>
      BY <1>4, <2>1, <2>3 DEF onMessageWritten, dequeue
    <3> QED
      BY <3>1
      DEF OneWriteAtATime, WritingBytesTellTruth, NoStrandedBuffer,
          NoEmptyBuffer
  <2> QED
    BY <2>2, <2>3
<1>5. CASE onWriteFailed \/ onLateCompletion
  <2>1. Tail(stream_writes) = <<>> /\ Len(stream_writes') = 0
    BY <1>5, TailOfOne
    DEF onWriteFailed, onLateCompletion, OneWriteAtATime, Types
  <2>2. ~usable' /\ UNCHANGED pending_buffers
    BY <1>5 DEF onWriteFailed, onLateCompletion, usable
  <2> QED
    BY <2>1, <2>2
    DEF OneWriteAtATime, WritingBytesTellTruth, NoStrandedBuffer, NoEmptyBuffer
<1>6. CASE StreamCloses \/ OwnerDrops \/ UNCHANGED queueVars
  <2>1. /\ UNCHANGED <<pending_buffers, writing_bytes, stream_writes>>
        /\ usable' => usable
    BY <1>6 DEF StreamCloses, OwnerDrops, queueVars, usable
  <2> QED
    BY <2>1
    DEF OneWriteAtATime, WritingBytesTellTruth, NoStrandedBuffer, NoEmptyBuffer
<1> QED
  BY <1>1, <1>2, <1>3, <1>4, <1>5, <1>6 DEF QueueNext, Completion

(* The queue knows when it is writing, never has two writes outstanding,   *)
(* and never strands a buffer.                                             *)
THEOREM QueueCorrect == QueueSpec => []QueueInv
<1>1. QueueInit => QueueInv
  BY DEF QueueInit, QueueInv, OneWriteAtATime, WritingBytesTellTruth,
         NoStrandedBuffer, NoEmptyBuffer
<1> QED
  BY <1>1, StepInv, TypeCorrect, PTL DEF QueueSpec

(* stream->write() is never called while a write is outstanding.           *)
THEOREM SingleWriter == QueueSpec => []OneWriteAtATime
BY QueueCorrect, PTL DEF QueueInv

(* Pending buffers always have a write in progress ahead of them.          *)
THEOREM NothingStranded == QueueSpec => []NoStrandedBuffer
BY QueueCorrect, PTL DEF QueueInv

(* writing_bytes is positive exactly while the stream holds a buffer of a  *)
(* usable queue, and is then the size of that buffer.                      *)
THEOREM QueueKnowsItsWrite == QueueSpec => []WritingBytesTellTruth
BY QueueCorrect, PTL DEF QueueInv

-----------------------------------------------------------------------------
(* TotalSize is a recursive function; that it is the sum its equation says *)
(* follows from module SequenceFolds.                                      *)

(* TotalSize takes off the first buffer, and one more adds its size.       *)
LEMMA TotalSizeLaws == SumLaws(TotalSize, Messages, Size)
<1>1. \E f : SumDef(f, Messages, Size)
  BY SizeAssumption, SumExists
<1>2. TotalSize = CHOOSE f : SumDef(f, Messages, Size)
  BY DEF TotalSize, SumDef
<1>3. SumDef(TotalSize, Messages, Size)
  BY <1>1, <1>2
<1> QED
  BY <1>3, SizeAssumption, SumFacts

-----------------------------------------------------------------------------
(* The byte counters are exact.                                            *)

(* Both counters are sums, whether or not the owner still has the queue.   *)
SizesExact ==
  /\ pending_bytes = TotalSize[pending_buffers]
  /\ total_bytes = TotalSize[written]

(* Every step changes a counter by the size of the buffer it moves.        *)
LEMMA StepSizes ==
  Types /\ QueueInv /\ SizesExact /\ [QueueNext]_queueVars => SizesExact'
<1> SUFFICES ASSUME Types, QueueInv, SizesExact, [QueueNext]_queueVars
             PROVE  SizesExact'
  OBVIOUS
<1>0. TotalSize[<<>>] = 0
  BY TotalSizeLaws DEF SumLaws
<1>1. ASSUME NEW m \in Messages, enqueue(m)
      PROVE  SizesExact'
  <2>1. UNCHANGED <<total_bytes, written>>
    BY <1>1 DEF enqueue
  <2>2. CASE /\ pending_bytes' = pending_bytes + Size[m]
             /\ pending_buffers' = Append(pending_buffers, m)
    BY <2>1, <2>2, TotalSizeLaws DEF SumLaws, SizesExact, Types
  <2>3. CASE UNCHANGED <<pending_bytes, pending_buffers>>
    BY <2>1, <2>3 DEF SizesExact
  <2> QED
    BY <1>1, <2>2, <2>3 DEF enqueue
<1>2. CASE clear \/ close
  BY <1>0, <1>2 DEF clear, close, SizesExact
<1>3. CASE onMessageWritten
  <2>1. /\ total_bytes' = total_bytes + writing_bytes
        /\ written' = Append(written, Head(stream_writes))
        /\ stream_writes # <<>> /\ usable
        /\ dequeue(Tail(stream_writes))
    BY <1>3 DEF onMessageWritten, usable
  <2>2. Head(stream_writes) \in Messages
        /\ Head(stream_writes) = stream_writes[1]
    BY <2>1, HeadTailProperties DEF Types
  <2>3. writing_bytes = Size[Head(stream_writes)]
    BY <2>1, <2>2 DEF QueueInv, WritingBytesTellTruth
  <2>4. total_bytes' = TotalSize[written']
    BY <2>1, <2>2, <2>3, TotalSizeLaws DEF SumLaws, SizesExact, Types
  <2>5. CASE pending_buffers # <<>>
    <3>1. /\ pending_buffers' = Tail(pending_buffers)
          /\ pending_bytes' = pending_bytes - Size[Head(pending_buffers)]
      BY <2>1, <2>5 DEF dequeue
    <3>2. /\ Size[Head(pending_buffers)] \in Nat
          /\ Tail(pending_buffers) \in Seq(Messages)
      BY <2>5, HeadTailProperties, SizeAssumption DEF Types
    <3>3. /\ TotalSize[pending_buffers] =
               Size[Head(pending_buffers)] + TotalSize[Tail(pending_buffers)]
          /\ TotalSize[Tail(pending_buffers)] \in Nat
      BY <2>5, <3>2, TotalSizeLaws DEF SumLaws, Types
    <3>4. pending_bytes' = TotalSize[Tail(pending_buffers)]
      BY <3>1, <3>2, <3>3 DEF SizesExact
    <3> QED
      BY <2>4, <3>1, <3>4 DEF SizesExact
  <2>6. CASE pending_buffers = <<>>
    BY <2>1, <2>4, <2>6 DEF dequeue, SizesExact
  <2> QED
    BY <2>5, <2>6
<1>4. CASE onWriteFailed \/ onLateCompletion
  BY <1>4 DEF onWriteFailed, onLateCompletion, stateVars, SizesExact
<1>5. CASE StreamCloses \/ OwnerDrops \/ UNCHANGED queueVars
  BY <1>5 DEF StreamCloses, OwnerDrops, queueVars, stateVars, SizesExact
<1> QED
  BY <1>1, <1>2, <1>3, <1>4, <1>5 DEF QueueNext, Completion

(* The counters are exact in every state of a queue.                       *)
LEMMA SizesAlwaysExact == QueueSpec => []SizesExact
<1>1. QueueInit => SizesExact
  BY TotalSizeLaws DEF SumLaws, QueueInit, SizesExact
<1> QED
  BY <1>1, StepSizes, TypeCorrect, QueueCorrect, PTL DEF QueueSpec

(* pending_bytes and total_bytes_written are the sums of the sizes of what *)
(* is pending and of what was written, for any order of enqueue, clear,    *)
(* close and completions.                                                  *)
THEOREM CountersAreExact == QueueSpec => []PendingBytesExact
<1>1. SizesExact => PendingBytesExact
  BY DEF SizesExact, PendingBytesExact
<1> QED
  BY <1>1, SizesAlwaysExact, PTL

(* pending_bytes, a size_t, never underflows.                              *)
THEOREM NoUnderflow == QueueSpec => []QueueTypeOK
<1>1. Types /\ SizesExact => QueueTypeOK
  BY TotalSizeLaws DEF SumLaws, Types, SizesExact, QueueTypeOK
<1> QED
  BY <1>1, TypeCorrect, SizesAlwaysExact, PTL

-----------------------------------------------------------------------------
(* The queue implements the ordered channel of module Fifo.                *)

(* With one buffer at the stream, the channel starts with that buffer.     *)
LEMMA PipelineOfOne ==
  ASSUME Types, usable, OneWriteAtATime, stream_writes # <<>>
  PROVE  /\ pipeline \in Seq(Messages)
         /\ pipeline # <<>>
         /\ Head(pipeline) = Head(stream_writes)
         /\ Tail(pipeline) = pending_buffers
<1>1. Len(stream_writes) = 1 /\ Head(stream_writes) = stream_writes[1]
  BY TailOfOne DEF Types, OneWriteAtATime
<1>2. Len(pending_buffers) \in Nat
  BY LenProperties DEF Types
<1>3. /\ pipeline \in Seq(Messages)
      /\ Len(pipeline) = 1 + Len(pending_buffers)
      /\ pipeline[1] = stream_writes[1]
      /\ \A i \in 1 .. Len(pending_buffers) :
           pipeline[i + 1] = pending_buffers[i]
  <2>1. pipeline = stream_writes \o pending_buffers
    BY DEF pipeline
  <2>2. /\ pipeline \in Seq(Messages)
        /\ Len(pipeline) = Len(stream_writes) + Len(pending_buffers)
        /\ \A i \in 1 .. Len(stream_writes) + Len(pending_buffers) :
             pipeline[i] = IF i <= Len(stream_writes)
                             THEN stream_writes[i]
                             ELSE pending_buffers[i - Len(stream_writes)]
    BY <2>1, ConcatProperties DEF Types
  <2>3. ASSUME NEW i \in 1 .. Len(pending_buffers)
        PROVE  pipeline[i + 1] = pending_buffers[i]
    <3>1. /\ i + 1 \in 1 .. Len(stream_writes) + Len(pending_buffers)
          /\ ~(i + 1 <= Len(stream_writes))
          /\ (i + 1) - Len(stream_writes) = i
      BY <1>1, <1>2
    <3> QED
      BY <2>2, <3>1
  <2>4. pipeline[1] = stream_writes[1]
    BY <1>1, <1>2, <2>2
  <2> QED
    BY <1>1, <2>2, <2>3, <2>4
<1>4. pipeline # <<>> /\ Head(pipeline) = pipeline[1]
  BY <1>2, <1>3, EmptySeq
<1>5. /\ Tail(pipeline) \in Seq(Messages)
      /\ Len(Tail(pipeline)) = Len(pending_buffers)
      /\ \A i \in 1 .. Len(pending_buffers) :
           Tail(pipeline)[i] = pending_buffers[i]
  BY <1>2, <1>3, <1>4, HeadTailProperties
<1>6. Tail(pipeline) = pending_buffers
  BY <1>5, SeqEqual DEF Types
<1> QED
  BY <1>1, <1>3, <1>4, <1>6

(* A sequence is its head followed by its tail.                            *)
LEMMA HeadThenTail ==
  ASSUME NEW S, NEW s \in Seq(S), s # <<>>
  PROVE  <<Head(s)>> \o Tail(s) = s
<1>1. /\ Head(s) \in S /\ Head(s) = s[1]
      /\ Tail(s) \in Seq(S)
      /\ Len(s) \in Nat \ {0}
      /\ Len(Tail(s)) = Len(s) - 1
      /\ \A i \in 1 .. Len(Tail(s)) : Tail(s)[i] = s[i + 1]
  <2>1. Head(s) = s[1]
    OBVIOUS
  <2> QED
    BY <2>1, HeadTailProperties, EmptySeq
<1>2. <<Head(s)>> \in Seq(S) /\ Len(<<Head(s)>>) = 1
      /\ <<Head(s)>>[1] = Head(s)
  BY <1>1
<1>3. /\ <<Head(s)>> \o Tail(s) \in Seq(S)
      /\ Len(<<Head(s)>> \o Tail(s)) = 1 + Len(Tail(s))
      /\ \A i \in 1 .. 1 + Len(Tail(s)) :
           (<<Head(s)>> \o Tail(s))[i] =
             IF i <= 1 THEN <<Head(s)>>[i] ELSE Tail(s)[i - 1]
  BY <1>1, <1>2, ConcatProperties
<1>4. ASSUME NEW i \in 1 .. Len(s)
      PROVE  (<<Head(s)>> \o Tail(s))[i] = s[i]
  <2>1. CASE i = 1
    BY <1>1, <1>2, <1>3, <2>1
  <2>2. CASE i # 1
    <3>1. i - 1 \in 1 .. Len(Tail(s)) /\ (i - 1) + 1 = i
      BY <1>1, <2>2
    <3>2. Tail(s)[i - 1] = s[i]
      BY <1>1, <3>1
    <3> QED
      BY <1>1, <1>3, <2>2, <3>2
  <2> QED
    BY <2>1, <2>2
<1> QED
  BY <1>1, <1>3, <1>4, SeqEqual

(* Every step of the queue is a step of the channel or leaves it alone.    *)
LEMMA StepFifo ==
  Types /\ QueueInv /\ [QueueNext]_queueVars => [Channel!Next]_(Channel!vars)
<1> SUFFICES ASSUME Types, QueueInv, [QueueNext]_queueVars
             PROVE  [Channel!Next]_(Channel!vars)
  OBVIOUS
<1> USE DEF stateVars
<1>1. ~usable => pipeline = <<>>
  BY DEF pipeline
<1>2. ~usable' => pipeline' = <<>>
  BY DEF pipeline
<1>3. ASSUME usable, ~usable', UNCHANGED written
      PROVE  Channel!Next
  BY <1>2, <1>3 DEF Channel!Next, Channel!Break
<1>4. ASSUME ~usable, ~usable', UNCHANGED written
      PROVE  UNCHANGED Channel!vars
  BY <1>1, <1>2, <1>4 DEF Channel!vars
<1>5. ASSUME NEW m \in Messages, enqueue(m)
      PROVE  [Channel!Next]_(Channel!vars)
  <2>1. usable /\ UNCHANGED <<queue_active, written>>
    BY <1>5 DEF enqueue, usable
  <2>2. CASE /\ pending_buffers' = Append(pending_buffers, m)
             /\ UNCHANGED <<writing_bytes, stream_writes, owned>>
    <3>1. usable'
      BY <2>1, <2>2 DEF usable
    <3>2. pipeline' = stream_writes \o (pending_buffers \o <<m>>)
      BY <2>2, <3>1, AppendIsConcat DEF pipeline, Types
    <3>3. pipeline \in Seq(Messages)
      BY <2>1, ConcatProperties DEF pipeline, Types
    <3>4. Append(pipeline, m) = (stream_writes \o pending_buffers) \o <<m>>
      BY <2>1, <3>3, AppendIsConcat DEF pipeline
    <3>5. <<m>> \in Seq(Messages)
      OBVIOUS
    <3>6. pipeline' = Append(pipeline, m)
      BY <3>2, <3>4, <3>5, ConcatAssociative DEF Types
    <3> QED
      BY <2>1, <3>1, <3>6 DEF Channel!Next, Channel!Send
  <2>3. CASE /\ writing_bytes = 0
             /\ beginWrite(m, stream_writes)
             /\ UNCHANGED pending_buffers
    <3>1. stream_writes = <<>> /\ pending_buffers = <<>>
      BY <2>1, <2>3, SMT
      DEF QueueInv, WritingBytesTellTruth, NoStrandedBuffer, Types
    <3>2. pipeline = <<>>
      BY <2>1, <3>1, ConcatEmptySeq DEF pipeline, Types
    <3>3. CASE stream_writes' = Append(stream_writes, m) /\ UNCHANGED owned
      <4>1. usable'
        BY <2>1, <3>3 DEF usable
      <4>2. stream_writes' = <<m>> /\ <<m>> \in Seq(Messages)
        BY <3>1, <3>3
      <4>3. pipeline' = <<m>>
        BY <2>3, <3>1, <4>1, <4>2, ConcatEmptySeq DEF pipeline
      <4>4. pipeline' = Append(pipeline, m)
        BY <3>2, <4>3
      <4> QED
        BY <2>1, <4>1, <4>4 DEF Channel!Next, Channel!Send
    <3>4. CASE owned' = FALSE
      BY <1>3, <2>1, <3>4 DEF usable
    <3> QED
      BY <2>3, <3>3, <3>4 DEF beginWrite
  <2> QED
    BY <1>5, <2>2, <2>3 DEF enqueue
<1>6. CASE clear
  <2>1. /\ pending_buffers' = <<>>
        /\ UNCHANGED <<writing_bytes, stream_writes, written, queue_active, owned>>
    BY <1>6 DEF clear
  <2>2. usable' = usable
    BY <2>1 DEF usable
  <2>3. CASE usable /\ stream_writes # <<>>
    <3>1. pipeline' = stream_writes
      BY <2>1, <2>2, <2>3, ConcatEmptySeq DEF pipeline, Types
    <3>2. stream_writes = <<Head(stream_writes)>>
      BY <2>3, TailOfOne DEF Types, QueueInv, OneWriteAtATime
    <3>3. pipeline # <<>> /\ Head(pipeline) = Head(stream_writes)
      BY <2>3, PipelineOfOne DEF QueueInv
    <3> QED
      BY <2>1, <2>2, <2>3, <3>1, <3>2, <3>3 DEF Channel!Next, Channel!Flush
  <2>4. CASE usable /\ stream_writes = <<>>
    <3>1. pending_buffers = <<>>
      BY <2>4, SMT DEF QueueInv, WritingBytesTellTruth, NoStrandedBuffer, Types
    <3> QED
      BY <2>1, <2>2, <2>4, <3>1 DEF pipeline, Channel!vars
  <2>5. CASE ~usable
    BY <1>4, <2>1, <2>2, <2>5
  <2> QED
    BY <2>3, <2>4, <2>5
<1>7. CASE close
  BY <1>3, <1>4, <1>7 DEF close, usable
<1>8. CASE onMessageWritten
  <2>1. /\ stream_writes # <<>> /\ usable /\ UNCHANGED queue_active
        /\ written' = Append(written, Head(stream_writes))
    BY <1>8 DEF onMessageWritten, usable
  <2>2. /\ pipeline # <<>> /\ Head(pipeline) = Head(stream_writes)
        /\ Tail(pipeline) = pending_buffers
    BY <2>1, PipelineOfOne DEF QueueInv
  <2>3. Tail(stream_writes) = <<>>
    BY <2>1, TailOfOne DEF Types, QueueInv, OneWriteAtATime
  <2>4. CASE ~usable'
    BY <1>2, <2>1, <2>2, <2>4 DEF Channel!Next, Channel!Break
  <2>5. CASE usable'
    <3>1. pipeline' = pending_buffers
      <4>1. CASE pending_buffers # <<>>
        <5>1. /\ stream_writes' = Append(<<>>, Head(pending_buffers))
              /\ pending_buffers' = Tail(pending_buffers)
          BY <1>8, <2>3, <2>5, <4>1
          DEF onMessageWritten, dequeue, beginWrite, usable
        <5>2. stream_writes' = <<Head(pending_buffers)>>
          BY <5>1
        <5>3. pipeline' = <<Head(pending_buffers)>> \o Tail(pending_buffers)
          BY <2>5, <5>1, <5>2 DEF pipeline
        <5> QED
          BY <4>1, <5>3, HeadThenTail DEF Types
      <4>2. CASE pending_buffers = <<>>
        <5>1. stream_writes' = <<>> /\ pending_buffers' = <<>>
          BY <1>8, <2>3, <4>2 DEF onMessageWritten, dequeue
        <5> QED
          BY <2>5, <4>2, <5>1, ConcatEmptySeq, EmptySeq DEF pipeline
      <4> QED
        BY <4>1, <4>2
    <3> QED
      BY <2>1, <2>2, <2>5, <3>1 DEF Channel!Next, Channel!Deliver
  <2> QED
    BY <2>4, <2>5
<1>9. CASE onWriteFailed
  BY <1>3, <1>9 DEF onWriteFailed, usable
<1>10. CASE onLateCompletion
  BY <1>4, <1>10 DEF onLateCompletion, usable
<1>11. CASE OwnerDrops
  BY <1>3, <1>4, <1>11 DEF OwnerDrops, usable
<1>12. CASE StreamCloses \/ UNCHANGED queueVars
  BY <1>12 DEF StreamCloses, queueVars, pipeline, usable, Channel!vars
<1> QED
  BY <1>5, <1>6, <1>7, <1>8, <1>9, <1>10, <1>11, <1>12 DEF QueueNext, Completion

(* The queue is an ordered channel: messages leave in the order they were  *)
(* enqueued, none twice, none skipped unless the owner cleared the tail.   *)
THEOREM QueueIsFifo == QueueSpec => ImplementsFifo
<1>1. QueueInit => Channel!Init
  BY ConcatEmptySeq, EmptySeq DEF QueueInit, Channel!Init, pipeline, usable
<1> QED
  BY <1>1, StepFifo, TypeCorrect, QueueCorrect, PTL
  DEF QueueSpec, ImplementsFifo, Channel!Spec

=============================================================================
