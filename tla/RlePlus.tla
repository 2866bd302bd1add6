------------------------------ MODULE RlePlus ------------------------------
(***************************************************************************)
(* codec/rle: the RLE+ encoding of a set of numbers, and its decoder.  A   *)
(* set is described by alternating runs (getPeriods); each run is one bit, *)
(* a 4-bit or a varint block; the bits are padded to whole bytes.  Numbers *)
(* are 64 bits wide and the bounded inputs stay far below that.            *)
(***************************************************************************)
EXTENDS Integers, SequencesExt

SMALL_BLOCK_LENGTH == 4
BYTE_BITS_COUNT == 8
LONG_BLOCK_VALUE == 16
BYTE_SLICE_VALUE == 128

RECURSIVE runsFrom(_, _, _)
(* Lengths of the runs of members and of non-members of data from i on, up *)
(* to the largest member.                                                  *)
runsFrom(data, i, max) ==
  LET j == CHOOSE j \in i + 1 .. max + 1 :
             /\ (j \in data) # (i \in data)
             /\ \A k \in i .. j - 1 : (k \in data) = (i \in data)
  IN IF i > max THEN <<>> ELSE <<j - i>> \o runsFrom(data, j, max)

(* RLEPlusEncodingStream::getPeriods: the gap before the first element, if *)
(* any, then lengths of runs and gaps in turn.                             *)
getPeriods(data) ==
  IF data = {} THEN <<>> ELSE runsFrom(data, 0, Max(data))

(* The low w bits of n, lowest first.                                      *)
bits(n, w) == [i \in 1 .. w |-> (n \div 2^(i - 1)) % 2]

RECURSIVE packed(_)
(* pushLongBlock's loop: seven bits to a byte, the high bit meaning more.  *)
packed(n) ==
  IF n < BYTE_SLICE_VALUE
    THEN bits(n, BYTE_BITS_COUNT)
    ELSE bits(BYTE_SLICE_VALUE + (n % BYTE_SLICE_VALUE), BYTE_BITS_COUNT)
           \o packed(n \div BYTE_SLICE_VALUE)

pushSmallBlock(n) == <<0, 1>> \o bits(n, SMALL_BLOCK_LENGTH)
pushLongBlock(n) == <<0, 0>> \o packed(n)

(* Mutant: a run of sixteen goes into the four bits of a small block.      *)
blockInclusive(n) ==
  CASE n = 1                 -> <<1>>
    [] n \in 2 .. LONG_BLOCK_VALUE -> pushSmallBlock(n)
    [] OTHER                 -> pushLongBlock(n)

block(n) ==
  CASE n = 1                   -> <<1>>
    [] n # 1 /\ n < LONG_BLOCK_VALUE -> pushSmallBlock(n)
    [] n >= LONG_BLOCK_VALUE   -> pushLongBlock(n)

padded(s) ==
  s \o [i \in 1 .. (-Len(s)) % BYTE_BITS_COUNT |-> 0]

(* rle::encode: version, polarity of the first run, blocks.                *)
encode(data) ==
  padded(FoldLeft(LAMBDA acc, n : acc \o block(n),
                  <<0, 0, IF 0 \in data THEN 1 ELSE 0>>,
                  getPeriods(data)))

-----------------------------------------------------------------------------
(* The decoder's state: index_, magnitude_, the current value, the output, *)
(* and the exception thrown, if any.                                       *)

number(s) == FoldLeft(LAMBDA acc, i : acc + s[i] * 2^(i - 1), 0,
                      [i \in 1 .. Len(s) |-> i])

(* getSpan, when it does not throw IndexOutOfBound.                        *)
fits(content, i, count) == i + count <= Len(content)
span(content, i, count) == number(SubSeq(content, i + 1, i + count))

(* A run of `length' ends: its members are output if its polarity is set.  *)
runOf(s, i, length) ==
  [index     |-> i,
   magnitude |-> 1 - s.magnitude,
   value     |-> s.value + length,
   output    |-> IF s.magnitude = 1
                   THEN s.output \cup (s.value .. s.value + length - 1)
                   ELSE s.output,
   error     |-> s.error]

failed(s, e) == [s EXCEPT !.error = e]

RECURSIVE longBlock(_, _, _, _, _)
(* decodeLongBlock with unpack: bytes until one without the high bit; more *)
(* than 64 bits of shift throw UnpackBytesOverflow.                        *)
longBlock(content, s, i, shift, value) ==
  LET byte == span(content, i, BYTE_BITS_COUNT) IN
  IF ~fits(content, i, BYTE_BITS_COUNT) THEN failed(s, "DataIndexFailure")
  ELSE IF byte < BYTE_SLICE_VALUE
    THEN IF shift > 64
           THEN failed(s, "UnpackOverflow")
           ELSE runOf(s, i + BYTE_BITS_COUNT, value + byte * 2^shift)
    ELSE longBlock(content, s, i + BYTE_BITS_COUNT, shift + 7,
                   value + (byte % BYTE_SLICE_VALUE) * 2^shift)

(* decodeSmallBlock                                                        *)
smallBlock(content, s, i) ==
  IF fits(content, i, SMALL_BLOCK_LENGTH)
    THEN runOf(s, i + SMALL_BLOCK_LENGTH, span(content, i, SMALL_BLOCK_LENGTH))
    ELSE failed(s, "DataIndexFailure")

RECURSIVE decodeBlocks(_, _)
(* The loop of operator>>, which goes on while a set bit is ahead.         *)
decodeBlocks(content, s) ==
  LET i == s.index IN
  IF s.error # "none" \/ \A j \in i + 1 .. Len(content) : content[j] = 0
    THEN s
    ELSE decodeBlocks(content,
           CASE content[i + 1] = 1  -> runOf(s, i + 1, 1)
             [] content[i + 1] = 0 /\ content[i + 2] = 1
                                    -> smallBlock(content, s, i + 2)
             [] OTHER               -> longBlock(content, s, i + 2, 0, 0))

(* rle::decode.  OBJECT_MAX_SIZE is out of reach of the inputs.            *)
decode(content) ==
  IF Len(content) < SMALL_BLOCK_LENGTH \/ span(content, 0, 2) # 0
    THEN [output |-> {}, error |-> "VersionMismatch"]
    ELSE decodeBlocks(content, [index |-> 3, magnitude |-> content[3],
                                value |-> 0, output |-> {}, error |-> "none"])

-----------------------------------------------------------------------------

(* Decoding an encoded set gives the set back, whatever runs it is made    *)
(* of: the block formats change at lengths 2, 16 and 128 and the decoder   *)
(* finds the end of its input only by the zeros of the padding.            *)
RoundTrip(data) ==
  LET d == decode(encode(data)) IN d.error = "none" /\ d.output = data

=============================================================================
