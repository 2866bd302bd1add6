------------------------------ MODULE MCParts ------------------------------
(***************************************************************************)
(* The components that work on their own, each on a small instance.  A     *)
(* behaviour is one of one component, `part'; the variables of the others  *)
(* keep their initial values.  For the pure codecs `input' grows step by   *)
(* step.  The components with theorems are extended, so that their         *)
(* properties are checked as they stand there; they hold of the initial    *)
(* values.                                                                 *)
(***************************************************************************)
EXTENDS Network, MessageReader, IpldNode, InboundEndpoint,
        SequencesExt

VARIABLES
  part, input,
  items, arrived, buffer, consumed, buffering, fetching, broken, delivered,
  db, batch, storage, seals

cborVars == <<items, arrived, buffer, consumed, buffering, fetching, broken,
              delivered>>
dagVars == <<db, batch, storage, seals>>
networkVars == vars

-----------------------------------------------------------------------------
(* Frames around the limits: empty, as long as allowed, too long.          *)
SentFrames == [length : {0, 2, 3}, valid : BOOLEAN]

(* Objects with every kind of head, payloads that look like heads, nested  *)
(* and empty containers; null and booleans are not known.                  *)
UnknownItems == {<<246>>, <<130, 1, 245>>}
KnownItems ==
  {<<1>>, <<24, 200>>, <<66, 255, 255>>, <<88, 1, 130>>, <<128>>,
   <<130, 128, 1>>, <<161, 1, 66, 9, 130>>, <<216, 42, 65, 0>>,
   <<153, 0, 1, 2>>}
Cbor == INSTANCE CborStream WITH
  Items <- KnownItems \cup UnknownItems, MaxItems <- 2, MaxChunk <- 5,
  size <- consumed, reading <- fetching, failure <- broken

(* Sizes on both sides of a varint byte, and links of other nodes.         *)
Sha(version, digest) ==
  [version |-> version, hash |-> [type |-> "sha256", digest |-> digest]]
Blake(digest) ==
  [version |-> 1, hash |-> [type |-> "blake2b", digest |-> digest]]
ChildNodes == {[cid |-> Sha(0, 1), size |-> 200]}
ForeignLinks ==
  {[cid |-> Sha(1, 2), size |-> 10], [cid |-> Blake(3), size |-> 10]}

(* A root with two links, a node reached on paths of different length.     *)
Graph ==
  [c \in {"r", "s", "t", "u"} |->
     CASE c = "r" -> [a |-> "s", b |-> "t"]
       [] c = "s" -> [a |-> "u"]
       [] c = "t" -> [a |-> "s", b |-> "u"]
       [] c = "u" -> <<>>]
Dag == INSTANCE MerkleDag WITH
  Cids <- DOMAIN Graph, Links <- Graph, MaxDepth <- 3, MaxBatch <- 1

(* Two of the smaller blocks fill a message, the larger is too large.      *)
Small == [version |-> 0, codec |-> 112, hash_type |-> 18, digest |-> 1]
Large == [version |-> 1, codec |-> 113, hash_type |-> 45600, digest |-> 2]
SmallAndLarge == {Small, Large}
SmallAndLargeSize == [b \in SmallAndLarge |-> IF b = Small THEN 4 ELSE 10]
SameName == {<<[name |-> "x", data |-> 1], [name |-> "x", data |-> 2]>>}

(* Interchangeable instances, contexts and calls.                          *)
Symmetry ==
  Permutations(Instances) \cup Permutations(Contexts) \cup Permutations(Calls)

Rle == INSTANCE RlePlus
Codec == INSTANCE CborCodec

-----------------------------------------------------------------------------
(* Lengths of runs at which the blocks of RLE+ change.                     *)
RunLengths == {1, 2, 15, 16, 17, 127, 128, 129}
MaxRuns == 4

(* The set whose runs, of numbers outside and inside it in turn, these are.*)
setOf(runs) ==
  LET end(k) == FoldLeft(LAMBDA a, n : a + n, 0, SubSeq(runs, 1, k)) IN
  UNION {end(k - 1) .. end(k) - 1 : k \in {j \in DOMAIN runs : j % 2 = 0}}

(* Values to encode: leaves, then containers around them.                  *)
Leaves ==
  {Codec!Leaf("uint", <<7>>), Codec!Leaf("bool", <<1>>),
   Codec!Leaf("null", <<>>), Codec!Leaf("cid", <<1, 2>>),
   Codec!Leaf("text", <<97>>), Codec!Leaf("bytes", <<0>>)}
Empties == {Codec!List(<<>>), Codec!MapOf(<<>>, <<>>), Codec!Stream(<<>>)}
Key == <<98>>
LongKeys == <<<<97, 98>>, <<97, 97>>>>
Around(v) ==
  {Codec!List(<<v>>)} \cup
  UNION {{Codec!List(<<l, v>>), Codec!List(<<v, l>>), Codec!Stream(<<v, l>>),
          Codec!MapOf(<<LongKeys[1], Key>>, <<v, l>>),
          Codec!MapOf(LongKeys, <<l, v>>),
          Codec!MapOf(<<Codec!link, Codec!blockPresent>>, <<v, l>>)} : l \in Leaves}
MaxNesting == 2
RECURSIVE nesting(_)
nesting(v) ==
  IF v.parts = <<>> THEN 0
  ELSE 1 + Max({nesting(v.parts[i]) : i \in DOMAIN v.parts})

PathParts ==
  {[key |-> Key, index |-> -1], [key |-> LongKeys[1], index |-> -1],
   [key |-> <<48>>, index |-> 0], [key |-> <<49>>, index |-> 1],
   [key |-> <<50>>, index |-> 2]}
Metadata == [cid : {<<1>>, <<2>>}, present : BOOLEAN]
MaxMetadata == 3

-----------------------------------------------------------------------------
Components == {"reader", "cbor", "node", "dag", "inbound", "network"}
Codecs == {"rle", "codec", "extension"}

PartsInit ==
  /\ part \in Components \cup Codecs
  /\ input \in CASE part = "rle"   -> {<<n>> : n \in {0} \cup RunLengths}
                 [] part = "codec" -> Leaves \cup Empties
                 [] OTHER          -> {<<>>}
  /\ ReaderInit
  /\ part # "reader" => sent = <<[length |-> 0, valid |-> TRUE]>>
  /\ Cbor!Init
  /\ part # "cbor" => items = <<<<1>>>>
  /\ NodeInit
  /\ Dag!Init
  /\ EndpointInit
  /\ part # "inbound" => buffered = 0
  /\ Init

componentVars ==
  <<readerVars, cborVars, nodeVars, dagVars, endpointVars,
    networkVars>>

GrowRuns ==
  /\ part = "rle"
  /\ Len(input) < MaxRuns
  /\ \E n \in RunLengths : input' = Append(input, n)
  /\ UNCHANGED <<part, componentVars>>

GrowValue ==
  /\ part = "codec"
  /\ nesting(input) < MaxNesting
  /\ input' \in Around(input)
  /\ UNCHANGED <<part, componentVars>>

GrowMetadata ==
  /\ part = "extension"
  /\ Len(input) < MaxMetadata
  /\ \E m \in Metadata : input' = Append(input, m)
  /\ UNCHANGED <<part, componentVars>>

ReaderStep ==
  /\ part = "reader"
  /\ ReaderNext
  /\ UNCHANGED <<part, input, cborVars, nodeVars, dagVars, endpointVars,
                 networkVars>>

CborStep ==
  /\ part = "cbor"
  /\ Cbor!Next
  /\ UNCHANGED <<part, input, readerVars, nodeVars, dagVars, endpointVars,
                 networkVars>>

NodeStep ==
  /\ part = "node"
  /\ NodeNext
  /\ UNCHANGED <<part, input, readerVars, cborVars, dagVars, endpointVars,
                 networkVars>>

DagStep ==
  /\ part = "dag"
  /\ Dag!Next
  /\ UNCHANGED <<part, input, readerVars, cborVars, nodeVars, endpointVars,
                 networkVars>>

InboundStep ==
  /\ part = "inbound"
  /\ EndpointNext
  /\ UNCHANGED <<part, input, readerVars, cborVars, nodeVars, dagVars,
                 networkVars>>

NetworkStep ==
  /\ part = "network"
  /\ Next
  /\ UNCHANGED <<part, input, readerVars, cborVars, nodeVars, dagVars,
                 endpointVars>>

PartsNext ==
  \/ GrowRuns
  \/ GrowValue
  \/ GrowMetadata
  \/ ReaderStep
  \/ CborStep
  \/ NodeStep
  \/ DagStep
  \/ InboundStep
  \/ NetworkStep

partsVars == <<part, input, componentVars>>

PartsSpec == PartsInit /\ [][PartsNext]_partsVars

-----------------------------------------------------------------------------

(* Every read callback of CborStream gets exactly the next object.         *)
ItemsIntact == part = "cbor" => Cbor!ItemsIntact(UnknownItems)

(* The database agrees with an in-memory store, and graphs are fetched to  *)
(* the depth asked for, all or nothing (merkledag_service_impl.cpp).       *)
GraphsAgree == part = "dag" => Dag!GraphsAgree

(* RLE+ decoding undoes encoding for sets of any runs.                     *)
RoundTrip == part = "rle" => Rle!RoundTrip(setOf(input))

(* CBOR encoding, decoding and path resolution agree with the values, and  *)
(* extensions are decoded to what was encoded or refused.                  *)
CodecAgrees ==
  /\ part = "codec" => Codec!CodecAgrees(input, PathParts)
  /\ part = "codec" /\ ~Codec!encode(input).raised =>
       Codec!ExtensionsAgree(<<>>, input)
  /\ part = "extension" =>
       Codec!ExtensionsAgree(input, Codec!List(<<>>))

=============================================================================
