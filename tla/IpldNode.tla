------------------------------ MODULE IpldNode ------------------------------
(***************************************************************************)
(* ipfs_lite/ipld: one IPLDNodeImpl, changed and read by its owner.  The   *)
(* node caches its serialized block, and its CID is the hash of that; it   *)
(* keeps the size of its children in a counter of its own.  A CID is a     *)
(* record [version, hash], a hash a record [type, digest].                 *)
(***************************************************************************)
EXTENDS Integers, Sequences, FiniteSetsExt

CONSTANTS
  Contents,     \* lengths of content, which stand for the content
  Names,        \* link names
  Children,     \* nodes to link to, as records [cid, size]
  Foreign,      \* links to what other implementations made, likewise
  Destinations,
  SizeMod,      \* what child_nodes_size_ wraps at; stands for 2^64
  MaxChanges,   \* bound of the model: changes to a node
  Absent        \* no link of a name, no cached block

VARIABLES
  content,          \* content_
  links,            \* links_: what a name is linked to, or Absent
  destinations,     \* destinations_
  child_nodes_size, \* child_nodes_size_
  ipld_block,       \* ipld_block_, or Absent
  changes,          \* number of changes
  plain             \* history: children were added under new names, with
                    \* addChild, and the node was not read from bytes

fields == <<content, links, destinations>>
nodeVars ==
  <<content, links, destinations, child_nodes_size, ipld_block, changes, plain>>

NodeInit ==
  /\ content = 0
  /\ links = [n \in Names |-> Absent]
  /\ destinations = {}
  /\ child_nodes_size = 0
  /\ ipld_block = Absent
  /\ changes = 0
  /\ plain = TRUE

-----------------------------------------------------------------------------
(* IPLDNodeEncoderPB.  A serialized node is a sequence of fields, each     *)
(* with its length in bytes; content and names stand for themselves.       *)

VarintSize64(n) == IF n < 128 THEN 1 ELSE IF n < 128 * 128 THEN 2 ELSE 3
PBTag == 1
HashSize == 34
NameSize == 1

getLinkLengthPB(link) ==
  (HashSize + VarintSize64(HashSize)) + (NameSize + VarintSize64(NameSize))
    + VarintSize64(link.size) + PBTag * 3

delimited(length) == PBTag + VarintSize64(length) + length

(* Of a link's CID only the hash is written.                               *)
linkField(n, link) ==
  [tag |-> "links", hash |-> link.cid.hash, name |-> n, size |-> link.size,
   length |-> delimited(getLinkLengthPB(link))]

plainField(tag, value, length) ==
  [tag |-> tag, value |-> value, length |-> delimited(length)]

Present(ls) == {n \in Names : ls[n] # Absent}

serializeLinks(ls) ==
  {linkField(n, ls[n]) : n \in Present(ls)}

(* Empty content has no field.                                             *)
serializeContent(c) == IF c = 0 THEN {} ELSE {plainField("data", c, c)}

serializeDestinations(ds) ==
  {plainField("destinations", d, NameSize) : d \in ds}

(* encode; a set, as names and destinations are written in their order.    *)
encode(c, ls, ds) ==
  [links |-> serializeLinks(ls), content |-> serializeContent(c),
   destinations |-> serializeDestinations(ds)]

sum(S) == FoldSet(LAMBDA f, total : total + f.length, 0, S)
bytes(block) == sum(block.links) + sum(block.content) + sum(block.destinations)

(* IPLDBlock::create and serialize.  The CID, a hash of the fields, stands *)
(* for them and is not a field of its own.                                 *)
serialize == encode(content, links, destinations)

-----------------------------------------------------------------------------
(* A change resets ipld_block_.                                            *)
changed(c, ls, ds) ==
  /\ changes < MaxChanges
  /\ changes' = changes + 1
  /\ content' = c
  /\ links' = ls
  /\ destinations' = ds
  /\ ipld_block' = Absent

assign(c) ==
  /\ changed(c, links, destinations)
  /\ UNCHANGED <<child_nodes_size, plain>>

(* emplace: the link a name has stays.                                     *)
emplaced(n, link) == IF links[n] = Absent THEN [links EXCEPT ![n] = link] ELSE links

(* addChild: the size grows even if the name is taken.                     *)
addChild(n, child) ==
  /\ changed(content, emplaced(n, child), destinations)
  /\ child_nodes_size' = (child_nodes_size + child.size) % SizeMod
  /\ plain' = (plain /\ links[n] = Absent)

addLink(n, link) ==
  /\ changed(content, emplaced(n, link), destinations)
  /\ plain' = FALSE
  /\ UNCHANGED child_nodes_size

(* Mutant: the cached block survives.                                      *)
removeLinkCached(n) ==
  /\ links[n] # Absent
  /\ changes < MaxChanges
  /\ changes' = changes + 1
  /\ links' = [links EXCEPT ![n] = Absent]
  /\ child_nodes_size' = (child_nodes_size - links[n].size) % SizeMod
  /\ UNCHANGED <<content, destinations, ipld_block, plain>>

(* removeLink does nothing for a name that is not linked.                  *)
removeLink(n) ==
  /\ links[n] # Absent
  /\ changed(content, [links EXCEPT ![n] = Absent], destinations)
  /\ child_nodes_size' = (child_nodes_size - links[n].size) % SizeMod
  /\ UNCHANGED plain

addDestination(d) ==
  /\ changed(content, links, destinations \cup {d})
  /\ UNCHANGED <<child_nodes_size, plain>>

removeDestination(d) ==
  /\ changed(content, links, destinations \ {d})
  /\ UNCHANGED <<child_nodes_size, plain>>

clearDestinations ==
  /\ changed(content, links, {})
  /\ UNCHANGED <<child_nodes_size, plain>>

(* getCID, getRawBytes and size call getIPLDBlock, which fills the cache.  *)
getIPLDBlock ==
  /\ ipld_block = Absent
  /\ ipld_block' = serialize
  /\ UNCHANGED <<content, links, destinations, child_nodes_size, changes, plain>>

size == bytes(serialize) + child_nodes_size

(* createFromRawBytes.  A link's hash is read as a CID, which it is only   *)
(* if it is sha2-256: then it is one of version 0.                         *)
decodable(block) == \A f \in block.links : f.hash.type = "sha256"
asRead(hash, s) == [cid |-> [version |-> 0, hash |-> hash], size |-> s]

decodedContent(block) ==
  IF block.content = {} THEN 0 ELSE (CHOOSE f \in block.content : TRUE).value
decodedLinks(block) ==
  [n \in Names |->
     IF \E f \in block.links : f.name = n
       THEN LET f == CHOOSE f \in block.links : f.name = n
            IN asRead(f.hash, f.size)
       ELSE Absent]
decodedDestinations(block) == {f.value : f \in block.destinations}

createFromRawBytes ==
  /\ ipld_block # Absent
  /\ decodable(ipld_block)
  /\ changed(decodedContent(ipld_block), decodedLinks(ipld_block),
             decodedDestinations(ipld_block))
  /\ child_nodes_size' = 0
  /\ plain' = FALSE

NodeNext ==
  \/ \E c \in Contents : assign(c)
  \/ \E n \in Names, child \in Children : addChild(n, child)
  \/ \E n \in Names, link \in Children \cup Foreign : addLink(n, link)
  \/ \E n \in Names : removeLink(n)
  \/ \E d \in Destinations : addDestination(d) \/ removeDestination(d)
  \/ clearDestinations
  \/ getIPLDBlock
  \/ createFromRawBytes

NodeSpec == NodeInit /\ [][NodeNext]_nodeVars

-----------------------------------------------------------------------------
(* The reference for child_nodes_size_: the sizes of what the names are    *)
(* linked to, the names taken in some order, and their total.              *)
Order == CHOOSE o \in Bijection(1 .. Cardinality(Names), Names) : TRUE

linkSize(l) == IF l = Absent THEN 0 ELSE l.size

childSizes(ls) == [i \in 1 .. Cardinality(Names) |-> linkSize(ls[Order[i]])]

total[s \in Seq(Nat)] == IF s = <<>> THEN 0 ELSE Head(s) + total[Tail(s)]

(* Finitely many names are used; links are distinct from Absent, also once *)
(* they have been read from bytes.                                         *)
Links == Children \cup Foreign
AllLinks == Links \cup {asRead(l.cid.hash, l.size) : l \in Links}
ASSUME LinksAssumption ==
  /\ IsFiniteSet(Names)
  /\ \A l \in AllLinks : l # Absent /\ l.size \in Nat

(* The sizes of a node's children fit in 64 bits.                          *)
ASSUME SizesFit ==
  /\ SizeMod \in Nat \ {0}
  /\ \A ls \in [Names -> Children \cup {Absent}] :
       total[childSizes(ls)] < SizeMod

(* The block and the CID that a node hands out are those of its present    *)
(* content, links and destinations, however changes and reads alternate.   *)
(* A node built with addChild under new names counts the size of its       *)
(* children exactly, with no wrap, after any removals.  A node that can be *)
(* read back from its bytes has the same block, so the same CID, even if   *)
(* its links have become version 0.                                        *)
BlockIsCurrent ==
  /\ ipld_block # Absent => ipld_block = serialize
  /\ plain => size = bytes(serialize) + total[childSizes(links)]
  /\ decodable(serialize) =>
       encode(decodedContent(serialize), decodedLinks(serialize),
              decodedDestinations(serialize)) = serialize

=============================================================================
