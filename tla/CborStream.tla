----------------------------- MODULE CborStream -----------------------------
(***************************************************************************)
(* common/libp2p: CborStream reads CBOR objects from a stream that hands   *)
(* out bytes in chunks of any size, and CborBuffering finds where an       *)
(* object ends.  The peer sends the objects of `items' back to back; the   *)
(* user reads one object at a time.                                        *)
(***************************************************************************)
EXTENDS Integers, SequencesExt

CONSTANTS
  Items,      \* CBOR objects, as sequences of bytes
  MaxItems,   \* bound of the model: objects on the stream
  MaxChunk    \* bound of the model: bytes one readSome returns

VARIABLES
  items,      \* the objects that were sent
  arrived,    \* bytes the stream has handed out
  buffer,     \* buffer_
  size,       \* size_: bytes of buffer_ that belong to the current object
  buffering,  \* buffering_: more_nested, more_bytes and partial_head
  reading,    \* a read is waiting for readSome
  failure,    \* the error a read ended with, or "none"
  delivered   \* history: what the read callbacks got

vars == <<items, arrived, buffer, size, buffering, reading, failure, delivered>>

Bytes(s) == FlattenSeq(s)
NoHead == [type |-> -1, value |-> 0]

Init ==
  /\ items \in UNION {[1 .. n -> Items] : n \in 1 .. MaxItems}
  /\ arrived = 0
  /\ buffer = <<>>
  /\ size = 0
  /\ buffering = [nested |-> <<>>, bytes |-> 0, head |-> NoHead]
  /\ reading = FALSE
  /\ failure = "none"
  /\ delivered = <<>>

-----------------------------------------------------------------------------
(* CborBuffering                                                           *)

Unsigned == 0
Signed == 1
ByteString == 2
Text == 3
Array == 4
Map == 5
Tag == 6

minimum(a, b) == IF a < b THEN a ELSE b

(* Head::first: how many more bytes the head has, or -1 if it is invalid.  *)
headMore(first) ==
  LET info == first % 32 IN
  IF first \div 32 > Tag \/ info > 27 THEN -1
  ELSE IF info < 24 THEN 0 ELSE 2^(info - 24)

headError(first) ==
  IF first \div 32 > Tag THEN "INVALID_HEAD_TYPE" ELSE "INVALID_HEAD_VALUE"

headFirst(first) ==
  [type |-> first \div 32,
   value |-> IF first % 32 < 24 THEN first % 32 ELSE 0]

(* Head::next, for the n bytes of s                                        *)
headNext(head, s) ==
  [head EXCEPT !.value = FoldLeft(LAMBDA v, b : 256 * v + b, @, s)]

(* Mutant: a nested item does not end the item it is in.                   *)
unwoundOnce(nested) ==
  IF nested # <<>> /\ Last(nested) = 0 THEN Front(nested) ELSE nested

RECURSIVE unwound(_)
(* Items that have become complete leave the stack.                        *)
unwound(nested) ==
  IF nested # <<>> /\ Last(nested) = 0 THEN unwound(Front(nested)) ELSE nested

(* What a complete head adds to the stack.                                 *)
opened(head) ==
  CASE head.type = Array -> <<head.value>>
    [] head.type = Map   -> <<2 * head.value>>
    [] head.type = Tag   -> <<1>>
    [] OTHER             -> <<>>

RECURSIVE heads(_, _)
(* The loop of consume over the heads in `input'; b.used counts what it    *)
(* has consumed.  A payload that the input holds is skipped at once.       *)
heads(b, input) ==
  IF b.used = Len(input) \/ b.nested = <<>> \/ b.error # "none" THEN b
  ELSE
  LET isNew == b.head = NoHead
      first == input[b.used + 1]
      head == IF isNew THEN headFirst(first) ELSE b.head
      more == IF isNew THEN headMore(first) ELSE b.bytes
      at == IF isNew THEN b.used + 1 ELSE b.used
      taken == minimum(more, Len(input) - at)
      grown == headNext(head, SubSeq(input, at + 1, at + taken))
      payload == IF head.type \in {ByteString, Text} THEN grown.value ELSE 0
      skipped == minimum(payload, Len(input) - at - taken)
      nested == Front(b.nested) \o <<Last(b.nested) - 1>>
  IN IF more = -1
     THEN [b EXCEPT !.error = headError(first)]
     ELSE IF taken < more
     THEN [b EXCEPT !.head = grown, !.bytes = more - taken, !.used = at + taken]
     ELSE heads([nested |-> unwound(nested \o opened(grown)),
                 bytes |-> payload - skipped,
                 head |-> NoHead,
                 used |-> at + taken + skipped,
                 error |-> "none"], input)

(* CborBuffering::consume: first the rest of a payload, then heads.        *)
bufferingConsume(b, input) ==
  LET rest == IF b.head = NoHead THEN minimum(b.bytes, Len(input)) ELSE 0
  IN heads([nested |-> b.nested, bytes |-> b.bytes - rest, head |-> b.head,
            used |-> rest, error |-> "none"], input)

done(b) == b.bytes = 0 /\ b.nested = <<>>

-----------------------------------------------------------------------------
(* CborStream.  consume and readMore: the bytes in buf after the first n   *)
(* are offered to buffering_; if the object is complete the callback gets  *)
(* it, else more bytes are asked for.                                      *)
consume(b, buf, n) ==
  LET after == bufferingConsume(b, SubSeq(buf, n + 1, Len(buf)))
      end == n + after.used
  IN /\ buffer' = buf
     /\ failure' = after.error
     /\ buffering' = [nested |-> after.nested, bytes |-> after.bytes,
                      head |-> after.head]
     /\ size' = IF after.error = "none" THEN end ELSE n
     /\ reading' = (after.error = "none" /\ ~done(after))
     /\ delivered' = IF after.error = "none" /\ done(after)
                       THEN Append(delivered, SubSeq(buf, 1, end))
                       ELSE delivered

(* What readRaw keeps: the bytes after the object it delivered last.       *)
leftover == SubSeq(buffer, size + 1, Len(buffer))

readRaw ==
  /\ ~reading
  /\ failure = "none"
  /\ Len(delivered) < Len(items)
  /\ consume([buffering EXCEPT !.nested = <<1>>], leftover, 0)
  /\ UNCHANGED <<items, arrived>>

(* The stream hands out the next n bytes.                                  *)
readSome(n) ==
  /\ reading
  /\ arrived + n <= Len(Bytes(items))
  /\ arrived' = arrived + n
  /\ consume(buffering,
             buffer \o SubSeq(Bytes(items), arrived + 1, arrived + n), size)
  /\ UNCHANGED items

(* Or it fails, and the callback gets its error.  readMore has grown       *)
(* buffer_ by then; the user does not read on after an error.              *)
STREAM_ERROR == "STREAM_ERROR"
readSomeFailed ==
  /\ reading
  /\ reading' = FALSE
  /\ failure' = STREAM_ERROR
  /\ UNCHANGED <<items, arrived, buffer, size, buffering, delivered>>

Next == readRaw \/ readSomeFailed \/ \E n \in 1 .. MaxChunk : readSome(n)

Spec == Init /\ [][Next]_vars

-----------------------------------------------------------------------------

(* Every read callback gets exactly the next object, wherever the chunks   *)
(* were cut, even inside a head; a read waits only while bytes of its      *)
(* object are missing, and unless the stream fails it fails only at an     *)
(* object with a head of a type CborBuffering does not know (major type    *)
(* 7).                                                                     *)
ItemsIntact(unknown) ==
  LET n == Len(delivered) IN
  /\ delivered = SubSeq(items, 1, n)
  /\ reading => arrived < Len(Bytes(SubSeq(items, 1, n + 1)))
  /\ failure \notin {"none", STREAM_ERROR} => items[n + 1] \in unknown

=============================================================================
