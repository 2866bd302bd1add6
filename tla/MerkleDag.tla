----------------------------- MODULE MerkleDag -----------------------------
(***************************************************************************)
(* MerkleDagServiceImpl over IpfsBlockService and RocksdbDatastore.  The   *)
(* database is a map from keys to values in which blocks and seals share   *)
(* one key space; every call to it may fail.  Beside it runs what          *)
(* InMemoryDatastore holds after the same successful calls.                *)
(*                                                                         *)
(* A block is addressed by its content, so a CID stands for its node: the  *)
(* links are Links[c], by name.                                            *)
(***************************************************************************)
EXTENDS Integers, SequencesExt

CONSTANTS
  Cids,
  Links,       \* for each CID a function from names to CIDs; acyclic
  MaxDepth,    \* bound of the model: length of the longest path
  MaxBatch     \* bound of the model: operations in a batch

VARIABLES
  db,          \* keys in the database
  batch,       \* operations of a rocksdb::Batch
  storage,     \* storage_ of an InMemoryDatastore
  seals        \* seals_ of an InMemoryDatastore

vars == <<db, batch, storage, seals>>

Init ==
  /\ db = {}
  /\ batch = <<>>
  /\ storage = {}
  /\ seals = {}

-----------------------------------------------------------------------------
(* rocksdb: get and contains, put, remove                                  *)

exists(key) == key \in db
put(keys, key) == keys \cup {key}
delete(keys, key) == keys \ {key}

(* RocksdbDatastore: a block's key is the bytes of the CID, a seal's the   *)
(* string of the CID with "sealed" after it.                               *)

encode(c) == [form |-> "bytes", cid |-> c]

sealKey(c) == [form |-> "string", cid |-> c]

contains(c) == exists(encode(c))
is_sealed(c) == exists(sealKey(c))

(* Without an error get returns the block; with one, contains says FALSE   *)
(* and getNode fails.  These reads leave the state as it is.               *)
get(c) == contains(c)

set(c) == db' = put(db, encode(c))
seal(c) == db' = put(db, sealKey(c))
remove(c) == db' = delete(db, encode(c))

(* MerkleDagServiceImpl reads through IpfsBlockService, which hands every  *)
(* call on; a block always decodes.                                        *)
getNode(c) == get(c)
isResolved(c) == is_sealed(c)

(* The maps of an InMemoryDatastore after a call: set and remove change    *)
(* storage_, seal changes seals_.                                          *)
InMemoryDatastore(blocks, sealed) == storage' = blocks /\ seals' = sealed

(* MerkleDagServiceImpl::addNode, markResolved and removeNode, when the    *)
(* database accepts the call; when it fails nothing changes.               *)
addNode(c) ==
  /\ set(c)
  /\ InMemoryDatastore(storage \cup {c}, seals)
  /\ UNCHANGED batch

markResolved(c) ==
  /\ seal(c)
  /\ InMemoryDatastore(storage, seals \cup {c})
  /\ UNCHANGED batch

removeNode(c) ==
  /\ remove(c)
  /\ InMemoryDatastore(storage \ {c}, seals)
  /\ UNCHANGED batch

(* rocksdb::Batch, given block keys.  commit leaves the batch as it is,    *)
(* failed or not, and can be called again.                                 *)
batchOp(op, c) ==
  /\ Len(batch) < MaxBatch
  /\ batch' = Append(batch, [op |-> op, cid |-> c])
  /\ UNCHANGED <<db, storage, seals>>

applied(S, key) ==
  FoldLeft(LAMBDA s, o : IF o.op = "put" THEN put(s, key[o.cid])
                                         ELSE delete(s, key[o.cid]), S, batch)

commit ==
  /\ batch # <<>>
  /\ db' = applied(db, [c \in Cids |-> encode(c)])
  /\ InMemoryDatastore(applied(storage, [c \in Cids |-> c]), seals)
  /\ UNCHANGED batch

clear ==
  /\ batch # <<>>
  /\ batch' = <<>>
  /\ UNCHANGED <<db, storage, seals>>

Next ==
  \/ \E c \in Cids :
       \/ addNode(c)
       \/ markResolved(c)
       \/ removeNode(c)
       \/ \E op \in {"put", "remove"} : batchOp(op, c)
  \/ commit
  \/ clear

Spec == Init /\ [][Next]_vars

-----------------------------------------------------------------------------
(* MerkleDagServiceImpl's reads, of a database that does not fail.  A      *)
(* result is a record [error, value]; a tree of leaves is the set of its   *)
(* paths, each with the node there.                                        *)

ok(v) == [error |-> "none", value |-> v]
failure(e) == [error |-> e, value |-> {}]

under(name, leaves) == {[l EXCEPT !.path = <<name>> \o @] : l \in leaves}

RECURSIVE buildGraphEager(_, _, _)
(* Mutant: the depth is tested after the children have been asked for.     *)
buildGraphEager(c, max_depth, current_depth) ==
  LET child(name) == buildGraphEager(Links[c][name], max_depth,
                                     current_depth + 1)
      root == [path |-> <<>>, cid |-> c]
  IN IF \E name \in DOMAIN Links[c] : ~getNode(Links[c][name])
       THEN failure("UNRESOLVED_LINK")
     ELSE IF current_depth = max_depth \/ DOMAIN Links[c] = {} THEN ok({root})
     ELSE IF \E name \in DOMAIN Links[c] : child(name).error # "none"
       THEN failure("UNRESOLVED_LINK")
     ELSE ok({root} \cup UNION {under(name, child(name).value) :
                                  name \in DOMAIN Links[c]})

RECURSIVE buildGraph(_, _, _)
(* The leaf of node c and, unless the depth is reached, of what it links   *)
(* to; max_depth -1 is no limit.  The names of a node differ, so           *)
(* insertSubLeaf does not meet a duplicate.                                *)
buildGraph(c, max_depth, current_depth) ==
  LET child(name) == buildGraph(Links[c][name], max_depth, current_depth + 1)
      names == IF current_depth = max_depth THEN {} ELSE DOMAIN Links[c]
  IN IF \E name \in names :
          ~getNode(Links[c][name]) \/ child(name).error # "none"
       THEN failure("UNRESOLVED_LINK")
       ELSE ok({[path |-> <<>>, cid |-> c]}
                 \cup UNION {under(name, child(name).value) : name \in names})

fetchGraphOnDepth(c, depth) ==
  IF getNode(c) THEN buildGraph(c, depth, 0) ELSE failure("NOT_FOUND")

fetchGraph(c) == fetchGraphOnDepth(c, -1)

(* select: the nodes the handler gets if it stops at the stop-th.          *)
select(c, stop) ==
  LET linked == {Links[c][name] : name \in DOMAIN Links[c]} IN
  CASE ~getNode(c)                     -> failure("NOT_FOUND")
    [] getNode(c) /\ \E n \in linked : ~getNode(n) -> failure("UNRESOLVED_LINK")
    [] OTHER -> ok(IF stop <= Cardinality(DOMAIN Links[c])
                     THEN stop ELSE Cardinality(DOMAIN Links[c]) + 1)

-----------------------------------------------------------------------------
(* The reference: where a path of names leads from c, as a set of at most  *)
(* one CID.                                                                *)
LinkNames == UNION {DOMAIN Links[c] : c \in Cids}
Paths == UNION {[1 .. n -> LinkNames] : n \in 0 .. MaxDepth}

walk(c, path) ==
  FoldLeft(LAMBDA S, name : {Links[x][name] : x \in {y \in S :
                                                name \in DOMAIN Links[y]}},
           {c}, path)

(* The database holds what an in-memory store would: no call on a seal     *)
(* touches a block or the other way round, batches included.  Fetching a   *)
(* graph to any depth gives every path of that length and no other, and    *)
(* fails exactly if a node on one of them is missing; nodes below the      *)
(* depth need not be there.  Selecting succeeds only if a root and all it  *)
(* links to are there, and then counts at least one node.                  *)
GraphsAgree ==
  /\ \A c \in Cids : contains(c) = (c \in storage) /\ isResolved(c) = (c \in seals)
  /\ \A c \in Cids : fetchGraph(c) = fetchGraphOnDepth(c, MaxDepth)
  /\ \A c \in Cids, depth \in 0 .. MaxDepth :
       LET result == fetchGraphOnDepth(c, depth)
           reached == {p \in Paths : Len(p) <= depth /\ walk(c, p) # {}}
       IN /\ (result.error = "none") =
               \A p \in reached : walk(c, p) \subseteq storage
          /\ result.error = "none" =>
               result.value = {[path |-> p, cid |-> CHOOSE x \in walk(c, p) : TRUE] :
                                 p \in reached}
  /\ \A c \in Cids, stop \in 1 .. 3 :
       LET result == select(c, stop) IN
       /\ (result.error = "none") = (fetchGraphOnDepth(c, 1).error = "none")
       /\ result.error = "none" =>
            result.value \in 1 .. stop \cap 1 .. Cardinality(DOMAIN Links[c]) + 1

=============================================================================
