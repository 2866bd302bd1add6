----------------------------- MODULE PartsProofs -----------------------------
(***************************************************************************)
(* Proofs about the small parts: MessageReader, for any frames, any number *)
(* of them and any limit of their size; IpldNode, for any content, links   *)
(* and destinations, and any names, as long as there are finitely many.    *)
(***************************************************************************)
EXTENDS MessageReader, IpldNode, SequenceFolds, FiniteSetTheorems

-----------------------------------------------------------------------------
(* MessageReader                                                           *)

(* A frame has a length, which is a varint, and parses or not; the limit   *)
(* is a size_t.                                                            *)
FramesHaveLength ==
  /\ Frames \subseteq [length : Nat, valid : BOOLEAN]
  /\ MaxSize \in Nat

-----------------------------------------------------------------------------
(* The inductive invariant.                                                *)

Events == [what : Failures \cup {"message", "PARSE_ERROR"}, frame : Int]

(* Values each variable of the reader may take.                            *)
ReaderTypeOK ==
  /\ frames \in Seq(Frames)
  /\ stream \in BOOLEAN
  /\ reading \in BOOLEAN
  /\ pending \in {"length", "body", "none"}
  /\ length \in Nat
  /\ in_feedback \in BOOLEAN
  /\ sent \in Seq(Frames)
  /\ events \in Seq(Events)
  /\ told_at_close \in Nat

(* Frames the reader is done with.                                         *)
consumed == Len(sent) - Len(frames)

(* The context was told of a failure of the stream.                        *)
failed == events # <<>> /\ events[Len(events)].what \in Failures

(* What has not been read is the end of what was sent, and the context was *)
(* told of each frame before it and then, at most, of a failure.           *)
PositionInv ==
  /\ Len(frames) <= Len(sent)
  /\ \A i \in 1 .. Len(frames) : frames[i] = sent[consumed + i]
  /\ Len(events) = IF failed THEN consumed + 1 ELSE consumed

(* reading_ is set exactly while a read is awaited whose result counts;    *)
(* between two reads there is a callback, and none after a failure.        *)
ReadingInv ==
  /\ reading => stream /\ ~in_feedback /\ pending # "none" /\ ~failed
  /\ in_feedback => pending = "none" /\ ~failed
  /\ stream /\ ~failed => in_feedback \/ reading
  /\ reading /\ pending = "body" =>
       frames # <<>> /\ frames[1].length \in 1 .. MaxSize
  /\ ~stream => Len(events) = told_at_close

(* What the context was told of one frame.                                 *)
TellsOf(n) ==
  /\ events[n].frame = n
  /\ \/ events[n].what \in Failures /\ n = Len(events)
     \/ /\ events[n].what = IF sent[n].valid THEN "message" ELSE "PARSE_ERROR"
        /\ sent[n].length \in 1 .. MaxSize

EventInv == \A n \in 1 .. Len(events) : TellsOf(n)

ReaderInv ==
  /\ ReaderTypeOK
  /\ PositionInv
  /\ ReadingInv
  /\ EventInv

-----------------------------------------------------------------------------
(* Lemmas about the two sequences that change.                             *)

(* tell adds one event, about the frame that is read, and keeps the others.*)
LEMMA TellAdds ==
  ASSUME ReaderTypeOK, PositionInv,
         NEW e \in Failures \cup {"message", "PARSE_ERROR"}, tell(e)
  PROVE  /\ events' \in Seq(Events) /\ events' # <<>>
         /\ Len(events') = Len(events) + 1
         /\ events'[Len(events')].what = e
         /\ events'[Len(events')].frame = consumed + 1
         /\ \A n \in 1 .. Len(events) : events'[n] = events[n]
<1> DEFINE new == [what |-> e, frame |-> consumed + 1]
<1>1. new \in Events
  BY DEF ReaderTypeOK, Events, consumed
<1>2. events' = Append(events, new)
  BY DEF tell, consumed
<1> HIDE DEF new
<1>3. /\ events' \in Seq(Events) /\ Len(events') = Len(events) + 1
      /\ events'[Len(events) + 1] = new
      /\ \A n \in 1 .. Len(events) : events'[n] = events[n]
  BY <1>1, <1>2 DEF ReaderTypeOK
<1>4. events' # <<>>
  BY <1>3 DEF ReaderTypeOK
<1> QED
  BY <1>3, <1>4 DEF new

(* The first frame is the next of those sent; without it the others are    *)
(* still the end of what was sent.                                         *)
LEMMA NextFrame ==
  ASSUME FramesHaveLength, ReaderTypeOK, PositionInv, frames # <<>>
  PROVE  /\ Head(frames) = frames[1] /\ frames[1] = sent[consumed + 1]
         /\ frames[1] \in Frames
         /\ frames[1].length \in Nat /\ frames[1].valid \in BOOLEAN
         /\ Tail(frames) \in Seq(Frames)
         /\ Len(Tail(frames)) = Len(frames) - 1
         /\ \A i \in 1 .. Len(Tail(frames)) :
              Tail(frames)[i] = sent[consumed + 1 + i]
<1>1. /\ Len(frames) \in Nat /\ Len(frames) > 0 /\ Len(sent) \in Nat
      /\ frames[1] \in Frames
  BY DEF ReaderTypeOK
<1>2. /\ Head(frames) = frames[1]
      /\ Tail(frames) \in Seq(Frames)
      /\ Len(Tail(frames)) = Len(frames) - 1
      /\ \A i \in 1 .. Len(frames) - 1 : Tail(frames)[i] = frames[i + 1]
  BY <1>1 DEF ReaderTypeOK
<1>3. frames[1] = sent[consumed + 1]
  BY <1>1 DEF PositionInv
<1>4. \A i \in 1 .. Len(frames) - 1 : frames[i + 1] = sent[consumed + 1 + i]
  BY <1>1 DEF PositionInv, consumed
<1>5. frames[1].length \in Nat /\ frames[1].valid \in BOOLEAN
  BY <1>1 DEF FramesHaveLength
<1> QED
  BY <1>1, <1>2, <1>3, <1>4, <1>5

(* If the context is told nothing and no frame is taken, what it was told  *)
(* stays right.                                                            *)
LEMMA NothingTold ==
  ASSUME PositionInv, EventInv, UNCHANGED <<frames, sent, events>>
  PROVE  PositionInv' /\ EventInv' /\ (failed' <=> failed)
BY DEF PositionInv, EventInv, TellsOf, failed, consumed

(* While the last event is no failure, none is.                            *)
LEMMA NoFailureYet ==
  ASSUME ReaderTypeOK, EventInv, ~failed
  PROVE  \A n \in 1 .. Len(events) : events[n].what \notin Failures
<1> SUFFICES ASSUME NEW n \in 1 .. Len(events), events[n].what \in Failures
             PROVE  FALSE
  OBVIOUS
<1>1. events # <<>>
  BY DEF ReaderTypeOK
<1>2. n # Len(events)
  BY <1>1 DEF failed
<1> QED
  BY <1>2 DEF EventInv, TellsOf, Failures

(* A failure that is told after no other failure.                          *)
LEMMA FailureTold ==
  ASSUME ReaderTypeOK, PositionInv, EventInv, ~failed, NEW e \in Failures,
         tell(e), UNCHANGED <<frames, sent>>
  PROVE  events' \in Seq(Events) /\ failed' /\ PositionInv' /\ EventInv'
<1>1. /\ events' \in Seq(Events) /\ events' # <<>>
      /\ Len(events') = Len(events) + 1
      /\ events'[Len(events')].what = e
      /\ events'[Len(events')].frame = consumed + 1
      /\ \A n \in 1 .. Len(events) : events'[n] = events[n]
  BY TellAdds
<1>2. failed'
  BY <1>1 DEF failed
<1>3. Len(events) = consumed /\ Len(events) \in Nat
  BY DEF PositionInv, ReaderTypeOK
<1>4. PositionInv'
  BY <1>1, <1>2, <1>3 DEF PositionInv, consumed
<1>5. \A n \in 1 .. Len(events) : events[n].what \notin Failures
  BY NoFailureYet
<1>6. EventInv'
  BY <1>1, <1>3, <1>5 DEF EventInv, TellsOf
<1> QED
  BY <1>1, <1>2, <1>4, <1>6

-----------------------------------------------------------------------------
(* The steps.                                                              *)

(* Every step keeps the invariant.                                         *)
LEMMA StepReader ==
  ASSUME FramesHaveLength, ReaderInv, [ReaderNext]_readerVars
  PROVE  ReaderInv'
<1> USE DEF ReaderInv
<1>1. CASE lengthRead
  <2>1. PICK n \in {0} \cup {frames[i].length : i \in DOMAIN frames \cap {1}} :
          onLengthRead(n)
    BY <1>1 DEF lengthRead
  <2>2. n \in Nat /\ (n > 0 => frames # <<>> /\ n = frames[1].length)
    BY <2>1, NextFrame DEF ReaderTypeOK
  <2>3. pending = "length" /\ UNCHANGED <<frames, stream, in_feedback, sent,
                                          told_at_close>>
    BY <2>1 DEF onLengthRead
  <2>4. CASE ~reading
    <3>1. pending' = "none" /\ UNCHANGED <<reading, length, events>>
      BY <2>1, <2>4 DEF onLengthRead
    <3> QED
      BY <2>3, <2>4, <3>1, NothingTold DEF ReaderTypeOK, ReadingInv
  <2>5. CASE reading /\ (n = 0 \/ n > MaxSize)
    <3> DEFINE e == IF n = 0 THEN "STREAM_NOT_READABLE"
                             ELSE "MESSAGE_SIZE_OUT_OF_BOUNDS"
    <3>1. n \notin 1 .. MaxSize
      BY <2>2, <2>5 DEF FramesHaveLength
    <3>2. tell(e) /\ reading' = FALSE /\ pending' = "none" /\ length' = length
      BY <2>1, <2>5, <3>1 DEF onLengthRead
    <3>3. e \in Failures
      BY DEF Failures
    <3> HIDE DEF e
    <3>4. events' \in Seq(Events) /\ failed' /\ PositionInv' /\ EventInv'
      BY <2>3, <2>5, <3>2, <3>3, FailureTold DEF ReadingInv
    <3> QED
      BY <2>3, <2>5, <3>2, <3>4 DEF ReaderTypeOK, ReadingInv
  <2>6. CASE reading /\ n \in 1 .. MaxSize
    <3>1. ~(n = 0 \/ n > MaxSize)
      BY <2>2, <2>6 DEF FramesHaveLength
    <3>2. length' = n /\ pending' = "body" /\ UNCHANGED <<reading, events>>
      BY <2>1, <2>6, <3>1 DEF onLengthRead
    <3> QED
      BY <2>2, <2>3, <2>6, <3>1, <3>2, NothingTold DEF ReaderTypeOK, ReadingInv
  <2> QED
    BY <2>2, <2>4, <2>5, <2>6 DEF FramesHaveLength, ReaderTypeOK
<1>2. CASE onMessageRead /\ reading
  <2>1. /\ pending = "body" /\ pending' = "none" /\ reading' = FALSE
        /\ tell(IF Head(frames).valid THEN "message" ELSE "PARSE_ERROR")
        /\ frames' = Tail(frames) /\ in_feedback' = TRUE
        /\ UNCHANGED <<stream, length, sent, told_at_close>>
    BY <1>2 DEF onMessageRead
  <2>2. frames # <<>> /\ frames[1].length \in 1 .. MaxSize /\ ~failed /\ stream
    BY <1>2, <2>1 DEF ReadingInv
  <2> DEFINE e == IF sent[consumed + 1].valid THEN "message" ELSE "PARSE_ERROR"
  <2>3. tell(e) /\ e \in {"message", "PARSE_ERROR"}
    BY <2>1, <2>2, NextFrame
  <2> HIDE DEF e
  <2>4. /\ events' \in Seq(Events) /\ events' # <<>>
        /\ Len(events') = Len(events) + 1
        /\ events'[Len(events')].what = e
        /\ events'[Len(events')].frame = consumed + 1
        /\ \A n \in 1 .. Len(events) : events'[n] = events[n]
    BY <2>3, TellAdds
  <2>5. ~failed'
    BY <2>3, <2>4 DEF failed, Failures
  <2>6. Len(events) = consumed /\ Len(events) \in Nat
    BY <2>2 DEF PositionInv, ReaderTypeOK
  <2>7. /\ frames' \in Seq(Frames) /\ consumed' = consumed + 1
        /\ Len(frames') = Len(frames) - 1
    BY <2>1, <2>2, NextFrame DEF consumed, ReaderTypeOK
  <2>8. PositionInv'
    BY <2>1, <2>2, <2>4, <2>5, <2>6, <2>7, NextFrame
    DEF PositionInv, ReaderTypeOK
  <2>9. \A n \in 1 .. Len(events) : events[n].what \notin Failures
    BY <2>2, NoFailureYet
  <2>10. sent[consumed + 1].length \in 1 .. MaxSize
    BY <2>2, NextFrame
  <2>11. EventInv'
    BY <2>1, <2>4, <2>6, <2>9, <2>10 DEF EventInv, TellsOf, e
  <2> QED
    BY <2>1, <2>2, <2>4, <2>5, <2>7, <2>8, <2>11 DEF ReaderTypeOK, ReadingInv
<1>3. CASE onReadError /\ reading
  <2>1. /\ pending = "body" /\ pending' = "none" /\ reading' = FALSE
        /\ tell("MESSAGE_READ_ERROR")
        /\ UNCHANGED <<frames, stream, length, in_feedback, sent, told_at_close>>
    BY <1>3 DEF onReadError
  <2>2. ~failed /\ ~in_feedback /\ stream
    BY <1>3 DEF ReadingInv
  <2>3. events' \in Seq(Events) /\ failed' /\ PositionInv' /\ EventInv'
    BY <2>1, <2>2, FailureTold DEF Failures
  <2> QED
    BY <2>1, <2>2, <2>3 DEF ReaderTypeOK, ReadingInv
<1>4. CASE (onMessageRead \/ onReadError) /\ ~reading
  <2>1. /\ pending = "body" /\ pending' = "none" /\ reading' = FALSE
        /\ UNCHANGED <<frames, stream, length, in_feedback, sent, events,
                       told_at_close>>
    BY <1>4 DEF onMessageRead, onReadError
  <2> QED
    BY <1>4, <2>1, NothingTold DEF ReaderTypeOK, ReadingInv
<1>5. CASE feedbackReturns
  <2>1. /\ in_feedback /\ ~in_feedback' /\ in_feedback' \in BOOLEAN
        /\ reading' = stream
        /\ pending' = IF stream THEN "length" ELSE pending
        /\ UNCHANGED <<frames, stream, length, sent, events, told_at_close>>
    BY <1>5 DEF feedbackReturns
  <2> QED
    BY <2>1, NothingTold DEF ReaderTypeOK, ReadingInv
<1>6. CASE closeReader
  <2>1. /\ stream' = FALSE /\ reading' = FALSE
        /\ told_at_close' = Len(events)
        /\ UNCHANGED <<frames, pending, length, in_feedback, sent, events>>
    BY <1>6 DEF closeReader
  <2>2. Len(events) \in Nat /\ Len(events') = Len(events)
    BY <2>1 DEF ReaderTypeOK
  <2>3. ReaderTypeOK'
    BY <2>1, <2>2 DEF ReaderTypeOK
  <2> QED
    BY <2>1, <2>2, <2>3, NothingTold DEF ReadingInv
<1>7. CASE UNCHANGED readerVars
  BY <1>7, NothingTold DEF readerVars, ReaderTypeOK, ReadingInv
<1> QED
  BY <1>1, <1>2, <1>3, <1>4, <1>5, <1>6, <1>7 DEF ReaderNext

(* The reader starts with a read of the first length.                      *)
LEMMA InitReader == ReaderInit => ReaderInv
<1> SUFFICES ASSUME ReaderInit PROVE ReaderInv
  OBVIOUS
<1>1. PICK n \in 1 .. MaxFrames : sent \in [1 .. n -> Frames]
  BY DEF ReaderInit
<1>2. sent \in Seq(Frames)
  BY <1>1 DEF ReaderInit
<1>3. ReaderTypeOK
  <2>1. events \in Seq(Events)
    BY DEF ReaderInit
  <2> QED
    BY <1>2, <2>1 DEF ReaderInit, ReaderTypeOK
<1>4. ~failed /\ consumed = 0
  BY <1>2 DEF ReaderInit, failed, consumed
<1> QED
  BY <1>2, <1>3, <1>4
     DEF ReaderInit, ReaderInv, PositionInv, ReadingInv, EventInv

-----------------------------------------------------------------------------
(* The theorems.                                                           *)

(* Theorem: the inductive invariant of a reader.                           *)
THEOREM ReaderCorrect ==
  ASSUME FramesHaveLength
  PROVE  ReaderSpec => []ReaderInv
<1>1. ReaderInit => ReaderInv
  BY InitReader
<1>2. ReaderInv /\ [ReaderNext]_readerVars => ReaderInv'
  BY StepReader
<1> QED
  BY <1>1, <1>2, PTL DEF ReaderSpec

(* Theorem: frames are told in order and once, a failure last, nothing     *)
(* after the reader was closed; and reading never stops by itself.         *)
THEOREM FramesToldInOrder ==
  ASSUME FramesHaveLength
  PROVE  ReaderSpec => []FramesInOrder
<1>1. ReaderInv => FramesInOrder
  BY DEF ReaderInv, ReadingInv, EventInv, TellsOf, failed, FramesInOrder
<1> QED
  BY <1>1, ReaderCorrect, PTL

-----------------------------------------------------------------------------
(* IpldNode                                                                *)

(* Values a node's links may take.                                         *)
LinkMaps == [Names -> AllLinks \cup {Absent}]

(* The counter of a plain node is what its children add up to.             *)
CounterInv ==
  plain => /\ links \in [Names -> Children \cup {Absent}]
           /\ child_nodes_size = total[childSizes(links)]

(* The inductive invariant of a node: besides the two, a block that is     *)
(* cached is the present one.                                              *)
NodeInv ==
  /\ links \in LinkMaps
  /\ ipld_block # Absent => ipld_block = serialize
  /\ CounterInv

(* total is the sum of a sequence of numbers.                              *)
LEMMA TotalLaws == NumbersLaws(total)
<1>1. total = CHOOSE f : NumbersDef(f)
  BY DEF total, NumbersDef
<1> QED
  BY <1>1, NumbersFacts

(* Order lists every name once.                                            *)
LEMMA OrderLists ==
  /\ Cardinality(Names) \in Nat
  /\ Order \in [1 .. Cardinality(Names) -> Names]
  /\ \A n \in Names : \E i \in 1 .. Cardinality(Names) :
       /\ Order[i] = n
       /\ \A k \in 1 .. Cardinality(Names) : Order[k] = n => k = i
<1>1. /\ Cardinality(Names) \in Nat
      /\ ExistsBijection(1 .. Cardinality(Names), Names)
  BY LinksAssumption, FS_CardinalityType
<1>2. Order \in Bijection(1 .. Cardinality(Names), Names)
  BY <1>1 DEF Order, ExistsBijection
<1> QED
  BY <1>1, <1>2 DEF Bijection, Injection, Surjection, IsInjective

(* A link of a node that only has children has a size.                     *)
LEMMA LinkSizes ==
  ASSUME NEW l \in AllLinks \cup {Absent}
  PROVE  linkSize(l) \in Nat
BY LinksAssumption DEF linkSize

(* The total changes by what one name is linked to.                        *)
LEMMA TotalReplace ==
  ASSUME NEW ls \in LinkMaps, NEW n \in Names,
         NEW l \in AllLinks \cup {Absent}
  PROVE  /\ total[childSizes(ls)] \in Nat
         /\ total[childSizes([ls EXCEPT ![n] = l])] + linkSize(ls[n])
              = total[childSizes(ls)] + linkSize(l)
<1> DEFINE N == Cardinality(Names)
           s == childSizes(ls)
           t == childSizes([ls EXCEPT ![n] = l])
           v == linkSize(l)
<1>1. N \in Nat /\ \A k \in 1 .. N : Order[k] \in Names
  BY OrderLists
<1>2. PICK i \in 1 .. N :
        Order[i] = n /\ \A k \in 1 .. N : Order[k] = n => k = i
  BY OrderLists
<1>3. v \in Nat
  BY LinkSizes
<1>4. /\ s \in [1 .. N -> Nat]
      /\ \A k \in 1 .. N : s[k] = linkSize(ls[Order[k]])
  <2>1. \A k \in 1 .. N : linkSize(ls[Order[k]]) \in Nat
    BY <1>1, LinkSizes DEF LinkMaps
  <2> QED
    BY <2>1 DEF childSizes
<1>5. t = [s EXCEPT ![i] = v]
  <2>1. \A k \in 1 .. N : linkSize([ls EXCEPT ![n] = l][Order[k]])
                            = IF k = i THEN v ELSE s[k]
    BY <1>1, <1>2, <1>4 DEF LinkMaps
  <2>2. t = [k \in 1 .. N |-> IF k = i THEN v ELSE s[k]]
    BY <2>1 DEF childSizes
  <2> HIDE DEF s, t, v, N
  <2> QED
    BY <1>4, <2>2
<1>6. s \in Seq(Nat) /\ Len(s) = N /\ s[i] = linkSize(ls[n])
  BY <1>1, <1>2, <1>4
<1> HIDE DEF s, t, v, N
<1>7. total[[s EXCEPT ![i] = v]] + s[i] = total[s] + v
  BY <1>3, <1>6, TotalLaws, NumbersReplace
<1>8. total[s] \in Nat
  BY <1>6, TotalLaws DEF NumbersLaws
<1> QED
  BY <1>5, <1>6, <1>7, <1>8 DEF s, t, v

(* The total of a node without links is 0.                                 *)
LEMMA TotalOfNothing == total[childSizes([n \in Names |-> Absent])] = 0
<1> DEFINE s == childSizes([n \in Names |-> Absent])
<1>1. /\ Cardinality(Names) \in Nat
      /\ \A i \in 1 .. Cardinality(Names) : Order[i] \in Names
  BY OrderLists
<1>2. s = [i \in 1 .. Cardinality(Names) |-> 0]
  BY <1>1 DEF childSizes, linkSize
<1> HIDE DEF s
<1>3. s \in Seq(Nat) /\ \A i \in 1 .. Len(s) : s[i] = 0
  BY <1>1, <1>2
<1> QED
  BY <1>3, TotalLaws, NumbersZero DEF s

(* What the links of a block are read as: the same names, the same hashes  *)
(* and sizes.                                                              *)
LEMMA LinksReadBack ==
  ASSUME NEW ls \in LinkMaps, NEW c, NEW ds
  PROVE  LET r == decodedLinks(encode(c, ls, ds)) IN
         /\ r \in LinkMaps
         /\ serializeLinks(r) = serializeLinks(ls)
<1> DEFINE b == encode(c, ls, ds)
           r == decodedLinks(b)
<1>1. b.links = {linkField(n, ls[n]) : n \in Present(ls)}
  BY DEF encode, serializeLinks
<1>2. \A n, l : linkField(n, l).name = n /\ linkField(n, l).hash = l.cid.hash
                /\ linkField(n, l).size = l.size
  BY DEF linkField
<1> HIDE DEF b
<1>3. ASSUME NEW n \in Names
      PROVE  r[n] = IF ls[n] = Absent THEN Absent
                                      ELSE asRead(ls[n].cid.hash, ls[n].size)
  <2>1. CASE ls[n] = Absent
    <3>1. ~\E f \in b.links : f.name = n
      BY <1>1, <1>2, <2>1 DEF Present
    <3> QED
      BY <2>1, <3>1 DEF decodedLinks
  <2>2. CASE ls[n] # Absent
    <3> DEFINE f == CHOOSE f \in b.links : f.name = n
    <3>1. linkField(n, ls[n]) \in b.links
      BY <1>1, <2>2 DEF Present
    <3>2. f \in b.links /\ f.name = n
      BY <1>2, <3>1
    <3>3. f = linkField(n, ls[n])
      BY <1>1, <1>2, <3>2
    <3>4. r[n] = asRead(f.hash, f.size)
      BY <1>2, <3>1 DEF decodedLinks
    <3> HIDE DEF f
    <3> QED
      BY <1>2, <2>2, <3>3, <3>4
  <2> QED
    BY <2>1, <2>2
<1>4. ASSUME NEW n \in Names, ls[n] # Absent
      PROVE  r[n] \in AllLinks /\ linkField(n, r[n]) = linkField(n, ls[n])
  <2>1. ls[n] \in AllLinks
    BY <1>4 DEF LinkMaps
  <2>2. r[n] = asRead(ls[n].cid.hash, ls[n].size)
    BY <1>3, <1>4
  <2>3. r[n].cid.hash = ls[n].cid.hash /\ r[n].size = ls[n].size
    BY <2>2 DEF asRead
  <2>4. r[n] \in AllLinks
    <3>1. CASE ls[n] \in Links
      BY <2>2, <3>1 DEF AllLinks
    <3>2. CASE ls[n] \notin Links
      <4>1. PICK l \in Links : ls[n] = asRead(l.cid.hash, l.size)
        BY <2>1, <3>2 DEF AllLinks
      <4>2. ls[n].cid.hash = l.cid.hash /\ ls[n].size = l.size
        BY <4>1 DEF asRead
      <4> QED
        BY <2>2, <4>2 DEF AllLinks
    <3> QED
      BY <3>1, <3>2
  <2>5. linkField(n, r[n]) = linkField(n, ls[n])
    BY <2>3 DEF linkField, getLinkLengthPB
  <2> QED
    BY <2>4, <2>5
<1>5. r \in LinkMaps
  <2>1. \A n \in Names : r[n] \in AllLinks \cup {Absent}
    BY <1>3, <1>4
  <2>2. r = [n \in Names |-> r[n]]
    BY DEF decodedLinks
  <2> HIDE DEF r
  <2> QED
    BY <2>1, <2>2 DEF LinkMaps
<1>6. serializeLinks(r) = serializeLinks(ls)
  <2>1. Present(r) = Present(ls)
    BY <1>3, <1>4, LinksAssumption DEF Present
  <2> HIDE DEF r
  <2>2. \A n \in Present(ls) : linkField(n, r[n]) = linkField(n, ls[n])
    BY <1>4 DEF Present
  <2> QED
    BY <2>1, <2>2 DEF serializeLinks
<1> QED
  BY <1>5, <1>6 DEF b

(* A node read from its block has that block.                              *)
LEMMA BlockReadBack ==
  ASSUME NEW ls \in LinkMaps, NEW c, NEW ds
  PROVE  LET b == encode(c, ls, ds) IN
         encode(decodedContent(b), decodedLinks(b), decodedDestinations(b)) = b
<1> DEFINE b == encode(c, ls, ds)
<1>1. serializeLinks(decodedLinks(b)) = serializeLinks(ls)
  BY LinksReadBack
<1>2. decodedContent(b) = c
  <2>1. b.content = serializeContent(c)
    BY DEF encode
  <2>2. CASE c = 0
    BY <2>1, <2>2 DEF decodedContent, serializeContent
  <2>3. CASE c # 0
    <3>1. b.content = {plainField("data", c, c)}
      BY <2>1, <2>3 DEF serializeContent
    <3>2. plainField("data", c, c).value = c
      BY DEF plainField
    <3> HIDE DEF b
    <3> QED
      BY <3>1, <3>2 DEF decodedContent
  <2> QED
    BY <2>2, <2>3
<1>3. decodedDestinations(b) = ds
  <2>1. b.destinations = {plainField("destinations", d, NameSize) : d \in ds}
    BY DEF encode, serializeDestinations
  <2>2. \A d : plainField("destinations", d, NameSize).value = d
    BY DEF plainField
  <2> HIDE DEF b
  <2> QED
    BY <2>1, <2>2 DEF decodedDestinations
<1> QED
  BY <1>1, <1>2, <1>3 DEF encode

(* A step that keeps the links and the counter of children.                *)
LEMMA SameChildren ==
  ASSUME NodeInv, UNCHANGED <<links, child_nodes_size, plain>>
  PROVE  links' \in LinkMaps /\ CounterInv'
BY DEF NodeInv, CounterInv, childSizes

(* Every step keeps the invariant.                                         *)
LEMMA StepNode ==
  ASSUME NodeInv, [NodeNext]_nodeVars
  PROVE  NodeInv'
<1>1. ASSUME NEW c, NEW ls, NEW ds, changed(c, ls, ds)
      PROVE  links' = ls /\ ipld_block' = Absent
  BY <1>1 DEF changed
<1>2. ASSUME NEW c, NEW ds, changed(c, links, ds),
             UNCHANGED <<child_nodes_size, plain>>
      PROVE  NodeInv'
  BY <1>1, <1>2, SameChildren DEF NodeInv
<1>3. ASSUME NEW n \in Names, NEW child \in Children, addChild(n, child)
      PROVE  NodeInv'
  <2>1. /\ links' = emplaced(n, child) /\ ipld_block' = Absent
        /\ child_nodes_size' = (child_nodes_size + child.size) % SizeMod
        /\ plain' = (plain /\ links[n] = Absent)
    BY <1>1, <1>3 DEF addChild
  <2>2. child \in AllLinks /\ child # Absent /\ child.size \in Nat
    BY LinksAssumption DEF AllLinks, Links
  <2>3. links' \in LinkMaps
    BY <2>1, <2>2 DEF emplaced, NodeInv, LinkMaps
  <2>4. ASSUME plain'
        PROVE  /\ links' \in [Names -> Children \cup {Absent}]
               /\ child_nodes_size' = total[childSizes(links)]'
    <3>1. /\ links \in [Names -> Children \cup {Absent}]
          /\ child_nodes_size = total[childSizes(links)]
          /\ links[n] = Absent
      BY <2>1, <2>4 DEF NodeInv, CounterInv
    <3>2. links' = [links EXCEPT ![n] = child]
      BY <2>1, <3>1 DEF emplaced
    <3>3. links' \in [Names -> Children \cup {Absent}]
      BY <3>1, <3>2
    <3> DEFINE old == total[childSizes(links)]
               new == total[childSizes([links EXCEPT ![n] = child])]
    <3>4. old \in Nat /\ new + linkSize(Absent) = old + linkSize(child)
      BY <2>2, <3>1, TotalReplace DEF NodeInv
    <3>5. new \in Nat
      BY <2>3, <3>2, TotalReplace
    <3>6. new < SizeMod
      BY <3>2, <3>3, SizesFit
    <3>7. total[childSizes(links)]' = new
      BY <3>2 DEF childSizes
    <3>8. child_nodes_size' = (old + child.size) % SizeMod
      BY <2>1, <3>1
    <3> HIDE DEF old, new
    <3>9. new = old + child.size
      BY <2>2, <3>4, <3>5 DEF linkSize
    <3>10. new % SizeMod = new
      BY <3>5, <3>6, SizesFit
    <3> QED
      BY <3>3, <3>7, <3>8, <3>9, <3>10
  <2> QED
    BY <2>1, <2>3, <2>4 DEF NodeInv, CounterInv
<1>4. ASSUME NEW n \in Names, NEW link \in Children \cup Foreign, addLink(n, link)
      PROVE  NodeInv'
  <2>1. links' = emplaced(n, link) /\ ipld_block' = Absent /\ ~plain'
    BY <1>1, <1>4 DEF addLink
  <2>2. links' \in LinkMaps
    BY <2>1 DEF emplaced, NodeInv, LinkMaps, AllLinks, Links
  <2> QED
    BY <2>1, <2>2 DEF NodeInv, CounterInv
<1>5. ASSUME NEW n \in Names, removeLink(n)
      PROVE  NodeInv'
  <2>1. /\ links[n] # Absent
        /\ links' = [links EXCEPT ![n] = Absent] /\ ipld_block' = Absent
        /\ child_nodes_size' = (child_nodes_size - links[n].size) % SizeMod
        /\ plain' = plain
    BY <1>1, <1>5 DEF removeLink
  <2>2. links' \in LinkMaps
    BY <2>1 DEF NodeInv, LinkMaps
  <2>3. ASSUME plain'
        PROVE  /\ links' \in [Names -> Children \cup {Absent}]
               /\ child_nodes_size' = total[childSizes(links)]'
    <3>1. /\ links \in [Names -> Children \cup {Absent}]
          /\ child_nodes_size = total[childSizes(links)]
      BY <2>1, <2>3 DEF NodeInv, CounterInv
    <3>2. links' \in [Names -> Children \cup {Absent}]
      BY <2>1, <3>1
    <3> DEFINE old == total[childSizes(links)]
               new == total[childSizes([links EXCEPT ![n] = Absent])]
    <3>3. old \in Nat /\ new + linkSize(links[n]) = old + linkSize(Absent)
      BY <3>1, TotalReplace DEF NodeInv
    <3>4. new \in Nat
      BY <2>1, <2>2, TotalReplace
    <3>5. new < SizeMod
      BY <2>1, <3>2, SizesFit
    <3>6. total[childSizes(links)]' = new
      BY <2>1 DEF childSizes
    <3>7. child_nodes_size' = (old - links[n].size) % SizeMod
      BY <2>1, <3>1
    <3>8. links[n].size \in Nat
      BY <2>1, LinksAssumption DEF NodeInv, LinkMaps
    <3> HIDE DEF old, new
    <3>9. new = old - links[n].size
      BY <2>1, <3>3, <3>4, <3>8 DEF linkSize
    <3>10. new % SizeMod = new
      BY <3>4, <3>5, SizesFit
    <3> QED
      BY <3>2, <3>6, <3>7, <3>9, <3>10
  <2> QED
    BY <2>1, <2>2, <2>3 DEF NodeInv, CounterInv
<1>6. CASE createFromRawBytes
  <2>1. /\ ipld_block = serialize
        /\ links' = decodedLinks(ipld_block) /\ ipld_block' = Absent /\ ~plain'
    BY <1>1, <1>6 DEF createFromRawBytes, NodeInv
  <2>2. links' \in LinkMaps
    BY <2>1, LinksReadBack DEF NodeInv, serialize
  <2> QED
    BY <2>1, <2>2 DEF NodeInv, CounterInv
<1>7. CASE getIPLDBlock
  <2>1. /\ ipld_block' = serialize
        /\ UNCHANGED <<content, links, destinations, child_nodes_size, plain>>
    BY <1>7 DEF getIPLDBlock
  <2>2. serialize' = serialize
    BY <2>1 DEF serialize, encode, serializeLinks, Present
  <2> QED
    BY <2>1, <2>2, SameChildren DEF NodeInv
<1>8. CASE UNCHANGED nodeVars
  <2>1. UNCHANGED <<content, links, destinations, child_nodes_size, ipld_block,
                    plain>>
    BY <1>8 DEF nodeVars
  <2>2. serialize' = serialize
    BY <2>1 DEF serialize, encode, serializeLinks, Present
  <2> QED
    BY <2>1, <2>2, SameChildren DEF NodeInv
<1>9. ASSUME NEW d, addDestination(d) \/ removeDestination(d)
      PROVE  NodeInv'
  BY <1>2, <1>9 DEF addDestination, removeDestination
<1>10. ASSUME NEW c, assign(c)
       PROVE  NodeInv'
  BY <1>2, <1>10 DEF assign
<1>11. CASE clearDestinations
  BY <1>2, <1>11 DEF clearDestinations
<1> QED
  BY <1>3, <1>4, <1>5, <1>6, <1>7, <1>8, <1>9, <1>10, <1>11 DEF NodeNext

(* Theorem: the inductive invariant of a node.                             *)
THEOREM NodeCorrect == NodeSpec => []NodeInv
<1>1. NodeInit => NodeInv
  BY TotalOfNothing DEF NodeInit, NodeInv, LinkMaps, CounterInv
<1>2. NodeInv /\ [NodeNext]_nodeVars => NodeInv'
  BY StepNode
<1> QED
  BY <1>1, <1>2, PTL DEF NodeSpec

(* Theorem: however changes and reads alternate, a node hands out the      *)
(* block and so the CID of its present fields; the size of its children is *)
(* exact while it has only children; read from its bytes, a node has the   *)
(* same block.                                                             *)
THEOREM NodeBlockIsCurrent == NodeSpec => []BlockIsCurrent
<1>1. NodeInv => BlockIsCurrent
  <2> SUFFICES ASSUME NodeInv PROVE BlockIsCurrent
    OBVIOUS
  <2>1. encode(decodedContent(serialize), decodedLinks(serialize),
               decodedDestinations(serialize)) = serialize
    BY BlockReadBack DEF NodeInv, serialize
  <2>2. plain => size = bytes(serialize) + total[childSizes(links)]
    BY DEF NodeInv, CounterInv, size
  <2>3. ipld_block # Absent => ipld_block = serialize
    BY DEF NodeInv
  <2> QED
    BY <2>1, <2>2, <2>3 DEF BlockIsCurrent
<1> QED
  BY <1>1, NodeCorrect, PTL

=============================================================================
