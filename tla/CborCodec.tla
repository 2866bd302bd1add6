----------------------------- MODULE CborCodec -----------------------------
(***************************************************************************)
(* codec/cbor: CborEncodeStream, CborDecodeStream and cbor_resolve, and    *)
(* the graphsync extensions made with them (extension.cpp).  An encoding   *)
(* is a sequence of items, each a CBOR head with its payload; how tinycbor *)
(* lays an item out in bytes is external (CborStream models heads).        *)
(*                                                                         *)
(* A value given to an encoder is a record [kind, leaf, keys, parts]: kind *)
(* "uint", "int", "bool", "null", "bytes", "text" or "cid" with content    *)
(* `leaf'; "list" and "map" with `parts', a map's under `keys'; "stream"   *)
(* for a substream that is not a list.                                     *)
(***************************************************************************)
EXTENDS Integers, SequencesExt

kCidTag == 42

Leaf(kind, leaf) ==
  [kind |-> kind, leaf |-> leaf, keys |-> <<>>, parts |-> <<>>]
List(parts) ==
  [kind |-> "list", leaf |-> <<>>, keys |-> <<>>, parts |-> parts]
Stream(parts) ==
  [kind |-> "stream", leaf |-> <<>>, keys |-> <<>>, parts |-> parts]
MapOf(keys, parts) ==
  [kind |-> "map", leaf |-> <<>>, keys |-> keys, parts |-> parts]

Token(kind, leaf) == [kind |-> kind, leaf |-> leaf]

-----------------------------------------------------------------------------
(* CborEncodeStream: is_list_, data_, count_, and whether it has raised.   *)

Empty == [list |-> FALSE, data |-> <<>>, count |-> 0, raised |-> FALSE]
list == [Empty EXCEPT !.list = TRUE]

(* data(): a list has its length, which is known only now, before it.      *)
data(s) ==
  IF s.list THEN <<Token("array", <<s.count>>)>> \o s.data ELSE s.data

add(s, items, count, raised) ==
  [s EXCEPT !.data = @ \o items, !.count = @ + count, !.raised = @ \/ raised]

(* operator<< of integers and booleans, of bytes and text, of null         *)
pushNumber(s, v) == add(s, <<Token(v.kind, v.leaf)>>, 1, FALSE)
pushBytes(s, v) == add(s, <<Token(v.kind, v.leaf)>>, 1, FALSE)
pushNull(s) == add(s, <<Token("null", <<>>)>>, 1, FALSE)

(* operator<< of a CID: the tag is written without being counted.          *)
pushCid(s, v) ==
  add(s, <<Token("tag", <<kCidTag>>), Token("bytes", <<0>> \o v.leaf)>>, 1,
      FALSE)

(* Mutant: a substream counts once whatever it holds.                      *)
pushStreamOnce(s, other) == add(s, data(other), 1, other.raised)

(* operator<< of another stream                                            *)
pushStream(s, other) ==
  add(s, data(other), IF other.list THEN 1 ELSE other.count, other.raised)

RECURSIVE bytesLess(_, _)
bytesLess(a, b) ==
  /\ a # <<>>
  /\ \/ Head(a) < Head(b)
     \/ Head(a) = Head(b) /\ bytesLess(Tail(a), Tail(b))

(* LessCborKey.  Keys are compared encoded; their heads are ordered as     *)
(* their lengths are.                                                      *)
LessCborKey(a, b) ==
  IF Len(a) # Len(b) THEN Len(a) < Len(b) ELSE bytesLess(a, b)

(* operator<< of a map of substreams: each must hold one item.             *)
pushMap(s, keys, values) ==
  LET order == SortSeq([i \in DOMAIN keys |-> i],
                       LAMBDA i, j : LessCborKey(keys[i], keys[j]))
      entry(i) == <<Token("text", keys[i])>> \o data(values[i])
  IN add(s, <<Token("map", <<Len(keys)>>)>>
              \o FlattenSeq([n \in DOMAIN order |-> entry(order[n])]),
         1,
         \E i \in DOMAIN values : values[i].count # 1 \/ values[i].raised)

RECURSIVE push(_, _)
(* operator<< for each kind of value; a vector goes through a list.        *)
push(s, v) ==
  CASE v.kind = "cid"    -> pushCid(s, v)
    [] v.kind = "list"   -> pushStream(s, FoldLeft(push, list, v.parts))
    [] v.kind = "stream" -> pushStream(s, FoldLeft(push, Empty, v.parts))
    [] v.kind = "map"    ->
         pushMap(s, v.keys,
                 [i \in DOMAIN v.parts |-> push(Empty, v.parts[i])])
    [] v.kind = "null"   -> pushNull(s)
    [] v.kind \in {"bytes", "text"} -> pushBytes(s, v)
    [] v.kind \in {"uint", "int", "bool"} -> pushNumber(s, v)

encode(v) == push(Empty, v)

-----------------------------------------------------------------------------
(* CborDecodeStream: a position in the items, `input' its bytes.           *)

RECURSIVE advance(_, _, _)
(* next(), n times: the position after n elements from `at'.  An element   *)
(* brings its parts with it, a tag the item it is on.                      *)
advance(input, at, n) ==
  IF n = 0 THEN at
  ELSE LET t == input[at] IN
       advance(input, at + 1,
               n - 1 + CASE t.kind = "array" -> t.leaf[1]
                         [] t.kind = "map"   -> 2 * t.leaf[1]
                         [] t.kind = "tag"   -> 1
                         [] OTHER            -> 0)

next(input, at) == advance(input, at, 1)

(* raw(): the items of the element.                                        *)
raw(input, at) == SubSeq(input, at, next(input, at) - 1)

isCid(input, at) == input[at] = Token("tag", <<kCidTag>>)
isList(input, at) == input[at].kind = "array"
isMap(input, at) == input[at].kind = "map"
listLength(input, at) == input[at].leaf[1]

(* Where the i-th element of the list at `at' is, counting from 0.         *)
element(input, at, i) == advance(input, at + 1, i)

(* map(): a substream for each key, of its value's items alone; the first  *)
(* of two equal keys is kept.                                              *)
keyAt(input, at, i) == element(input, at, 2 * i)
map(input, at) ==
  LET n == listLength(input, at)
      key(i) == input[keyAt(input, at, i)].leaf
      first(k) == Min({i \in 0 .. n - 1 : key(i) = k})
  IN [k \in {key(i) : i \in 0 .. n - 1} |->
        raw(input, keyAt(input, at, first(k)) + 1)]

RECURSIVE decode(_, _)
(* The typed operator>> that the kind of element calls for.                *)
decode(input, at) ==
  CASE isCid(input, at)  -> Leaf("cid", Tail(input[at + 1].leaf))
    [] isList(input, at) ->
         List([i \in 1 .. listLength(input, at) |->
                 decode(input, element(input, at, i - 1))])
    [] isMap(input, at)  ->
         LET n == listLength(input, at) IN
         MapOf([i \in 1 .. n |-> input[keyAt(input, at, i - 1)].leaf],
               [i \in 1 .. n |->
                  decode(map(input, at)[input[keyAt(input, at, i - 1)].leaf],
                         1)])
    [] OTHER             -> Leaf(input[at].kind, input[at].leaf)

-----------------------------------------------------------------------------
(* cbor_resolve: one step of a path, from the element a stream stands at.  *)
(* A part of a path is a record [key, index], index being the number it is *)
(* the decimal form of, or -1.                                             *)

parseIndex(part) ==
  IF part.index < 0 THEN "INT_KEY_EXPECTED" ELSE "none"

Resolved(input, at, error) == [input |-> input, at |-> at, error |-> error]

(* resolve.  In a list the stream stands among the list's other elements,  *)
(* in a map it has the value alone.                                        *)
resolve(s, part) ==
  LET fail(e) == [s EXCEPT !.error = e] IN
  CASE s.error # "none"       -> s
    [] isList(s.input, s.at)  ->
         IF parseIndex(part) # "none" THEN fail(parseIndex(part))
         ELSE IF part.index >= listLength(s.input, s.at)
         THEN fail("KEY_NOT_FOUND")
         ELSE Resolved(s.input, element(s.input, s.at, part.index), "none")
    [] isMap(s.input, s.at)   ->
         IF part.key \in DOMAIN map(s.input, s.at)
           THEN Resolved(map(s.input, s.at)[part.key], 1, "none")
           ELSE fail("KEY_NOT_FOUND")
    [] OTHER                  -> fail("CONTAINER_EXPECTED")

-----------------------------------------------------------------------------
(* extension.cpp.  ResponseMetadata is a sequence of [cid, present].  The  *)
(* keys are short byte sequences that sort as the real ones do.            *)

link == <<108>>
blockPresent == <<98, 108>>
kResponseMetadataProtocol == "graphsync/response-metadata"
kDontSendCidsProtocol == "graphsync/do-not-send-cids"

Extension(name, items) == [name |-> name, data |-> items]
Bool(b) == Leaf("bool", <<IF b THEN 1 ELSE 0>>)

encodeMetadataItem(item) ==
  MapOf(<<link, blockPresent>>, <<Leaf("cid", item.cid), Bool(item.present)>>)

encodeMetadataRequest ==
  Extension(kResponseMetadataProtocol, data(encode(Bool(TRUE))))

encodeResponseMetadata(metadata) ==
  Extension(kResponseMetadataProtocol,
            data(encode(List([i \in DOMAIN metadata |->
                                encodeMetadataItem(metadata[i])]))))

Parsed(pairs) == [ok |-> TRUE, result |-> pairs]
MESSAGE_PARSE_ERROR == [ok |-> FALSE, result |-> <<>>]

(* operator>> of a CID raises unless the tag is followed by bytes that     *)
(* begin with 0.                                                           *)
isCidValue(input, from) ==
  /\ isCid(input, from)
  /\ input[from + 1].kind = "bytes"
  /\ input[from + 1].leaf[1] = 0

(* An entry that decodeResponseMetadata accepts, decodeBool included       *)
isMetadataItem(item) ==
  /\ isMap(item, 1)
  /\ {link, blockPresent} \subseteq DOMAIN map(item, 1)
  /\ isCidValue(map(item, 1)[link], 1)
  /\ \E b \in BOOLEAN : map(item, 1)[blockPresent] = data(encode(Bool(b)))

decodeResponseMetadata(extension) ==
  LET input == extension.data
      entries == [i \in 1 .. listLength(input, 1) |->
                    raw(input, element(input, 1, i - 1))]
  IN CASE extension.name # kResponseMetadataProtocol -> MESSAGE_PARSE_ERROR
       [] input = <<>>                               -> Parsed(<<>>)
       [] ~isList(input, 1)                          -> MESSAGE_PARSE_ERROR
       [] \E i \in DOMAIN entries : ~isMetadataItem(entries[i])
                                                     -> MESSAGE_PARSE_ERROR
       [] OTHER ->
            Parsed([i \in DOMAIN entries |->
                      [cid |-> decode(map(entries[i], 1)[link], 1).leaf,
                       present |-> map(entries[i], 1)[blockPresent]
                                     = data(encode(Bool(TRUE)))]])

encodeDontSendCids(cids) ==
  Extension(kDontSendCidsProtocol,
            data(encode(List([i \in DOMAIN cids |-> Leaf("cid", cids[i])]))))

(* The CIDs come as a set.  operator>> of a vector asks for listLength()   *)
(* without a test, which only a debug build of TinyCBOR asserts; list()    *)
(* then raises if there is no list.                                        *)
decodeDontSendCids(extension) ==
  LET input == extension.data IN
  IF \/ extension.name # kDontSendCidsProtocol
     \/ input = <<>>
     \/ ~isList(input, 1)
     \/ \E i \in 1 .. listLength(input, 1) :
          ~isCidValue(input, element(input, 1, i - 1))
    THEN MESSAGE_PARSE_ERROR
    ELSE Parsed({p.leaf : p \in ToSet(decode(input, 1).parts)})

-----------------------------------------------------------------------------
(* The reference: what a value means, without encoding it.                 *)

RECURSIVE elements(_)
(* The elements that a value puts into the list it is pushed to.           *)
elements(v) ==
  IF v.kind = "stream" THEN FlattenSeq([i \in DOMAIN v.parts |->
                                          elements(v.parts[i])])
  ELSE LET inner == [i \in DOMAIN v.parts |-> elements(v.parts[i])] IN
       CASE v.kind = "list" -> <<List(FlattenSeq(inner))>>
         [] v.kind = "map"  ->
              LET order == SortSeq([i \in DOMAIN v.keys |-> i],
                             LAMBDA i, j : LessCborKey(v.keys[i], v.keys[j]))
              IN <<MapOf([n \in DOMAIN order |-> v.keys[order[n]]],
                         [n \in DOMAIN order |-> inner[order[n]][1]])>>
         [] OTHER           -> <<v>>

RECURSIVE raises(_)
raises(v) ==
  \/ \E i \in DOMAIN v.parts : raises(v.parts[i])
  \/ v.kind = "map" /\ \E i \in DOMAIN v.parts : Len(elements(v.parts[i])) # 1

(* What is at one step of a path into v: a value in a sequence, or none.   *)
at(v, part) ==
  CASE v.kind = "list" /\ part.index \in 0 .. Len(v.parts) - 1
         -> <<v.parts[part.index + 1]>>
    [] v.kind = "map" /\ part.key \in ToSet(v.keys)
         -> <<v.parts[CHOOSE i \in DOMAIN v.keys : v.keys[i] = part.key]>>
    [] OTHER -> <<>>

(* An encoder raises exactly when a map's value is not one element; else   *)
(* the elements that were pushed, substreams flattened and maps in key     *)
(* order, are what a decoder reads one after another, and a path of two    *)
(* parts resolves to the same element in the encoding as in the value.     *)
CodecAgrees(v, parts) ==
  LET s == encode(v)
      expected == elements(v)
  IN /\ s.raised = raises(v)
     /\ ~s.raised =>
          /\ s.count = Len(expected)
          /\ advance(s.data, 1, s.count) = Len(s.data) + 1
          /\ \A i \in DOMAIN expected :
               LET from == advance(s.data, 1, i - 1) IN
               /\ decode(s.data, from) = expected[i]
               /\ \A p, q \in parts :
                    LET r == resolve(resolve(Resolved(s.data, from, "none"), p), q)
                        first == at(expected[i], p)
                        second == IF first = <<>> THEN <<>> ELSE at(first[1], q)
                    IN /\ (r.error = "none") = (second # <<>>)
                       /\ second # <<>> =>
                            decode(raw(r.input, r.at), 1) = second[1]

(* Metadata and lists of CIDs survive their extension; the extension that  *)
(* asks for metadata, and any encoding that is not a list of entries with  *)
(* both keys, is refused.                                                  *)
ExtensionsAgree(metadata, v) ==
  LET cids == [i \in DOMAIN metadata |-> metadata[i].cid]
      decoded(e) == decodeResponseMetadata(e)
      other == Extension(kResponseMetadataProtocol, data(encode(v)))
      entry(p) == p.kind = "map" /\ {link, blockPresent} \subseteq ToSet(p.keys)
  IN /\ decoded(encodeResponseMetadata(metadata)) = Parsed(metadata)
     /\ ~decoded(encodeMetadataRequest).ok
     /\ ~decoded(encodeDontSendCids(cids)).ok
     /\ decodeDontSendCids(encodeDontSendCids(cids)) = Parsed(ToSet(cids))
     /\ decoded(other).ok =>
          \/ elements(v) = <<>>
          \/ /\ elements(v)[1].kind = "list"
             /\ \A p \in ToSet(elements(v)[1].parts) : entry(p)

=============================================================================
