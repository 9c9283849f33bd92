--------------------------------- MODULE TrieDB ---------------------------------
(***************************************************************************)
(* Readers of a committed trie: lookups that record the nodes they pass    *)
(* (recorder.rs) and TrieDBIterator, a depth-first walk with an explicit   *)
(* stack of crumbs (triedb.rs).  A reader borrows the database, so that    *)
(* nothing changes under it: what it does is a function of the root and of *)
(* the nodes the database has, store.                                      *)
(***************************************************************************)
EXTENDS TrieDBMut

Records(seen) == [i \in 1..Len(seen) |-> [depth |-> i - 1, data |-> seen[i]]]

(* Mutant: only what is below min_depth. *)
RecorderBelow(seen, min_depth) ==
    SelectSeq(Records(seen), LAMBDA r : r.depth > min_depth)

(* Recorder: the records of a lookup, a node and its depth, from min_depth. *)
Recorder(seen, min_depth) ==
    SelectSeq(Records(seen), LAMBDA r : r.depth >= min_depth)

(* get_with: the answer and what a recorder has noted. *)
get_with(store, node, key, min_depth) ==
    LET r == look_up(store, Hash(node), key, <<>>)
    IN  [value |-> r.value, records |-> Recorder(r.seen, min_depth)]
-------------------------------------------------------------------------------
(* The iterator: a trail of crumbs and the nibbles of the present key.  A  *)
(* crumb's status is Entering, At, the child a branch is at, or Exiting.   *)

Entering == -2
At == -1
Exiting == 16

Crumb(node, status) == [node |-> node, status |-> status]

increment(c) ==
    [c EXCEPT !.status =
        CASE c.node.tag = "Empty" -> Exiting
          [] c.node.tag # "Empty" /\ c.status = Entering -> At
          [] c.node.tag = "Branch" /\ c.status \in -1..15 -> c.status + 1
          [] OTHER -> Exiting]

(* get_raw_or_lookup: the node behind a reference.  An absent child is the *)
(* RLP of nothing, which decodes to the empty node.                        *)
Missing == [tag |-> "Missing"]

(* Mutant: a node that is not there is taken for an empty one. *)
get_raw_or_empty(store, ref) ==
    CASE ref.tag = "Absent" -> Empty
      [] ref.tag = "Hash" -> IF ref.of \in store THEN ref.of ELSE Empty
      [] OTHER -> ref

get_raw_or_lookup(store, ref) ==
    CASE ref.tag = "Absent" -> Empty
      [] ref.tag = "Hash" -> IF ref.of \in store THEN ref.of ELSE Missing
      [] OTHER -> ref

descend_into_node(it, node) ==
    [trail |-> Append(it.trail, Crumb(node, Entering)),
     nibbles |-> IF node.tag \in {"Leaf", "Extension"}
                 THEN it.nibbles \o node.key ELSE it.nibbles]

(* TrieDB::new and root_data refuse a root that is not in the database. *)
root_data(store, node) == get_raw_or_lookup(store, Hash(node))

NewIterator(store, node) ==
    descend_into_node([trail |-> <<>>, nibbles |-> <<>>], root_data(store, node))

(* The children the code has and the model has not are empty. *)
ChildAt(node, i) == IF i \in Nibbles THEN node.children[i] ELSE Absent

(* Mutant: the nibble of the child is pushed for every child. *)
AtChildNibblePushed(nibbles, i) == Append(nibbles, i)

(* The nibble of the child a branch is at: the first one is pushed, the    *)
(* others take its place.                                                  *)
AtChildNibble(nibbles, i) == IF i = 0 THEN Append(nibbles, 0)
                                      ELSE [nibbles EXCEPT ![Len(nibbles)] = i]

(* The nibbles a node takes away with it when it is left. *)
LeaveNode(nibbles, node) ==
    SubSeq(nibbles, 1, Len(nibbles) - (CASE node.tag = "Empty" -> 0
                                         [] node.tag = "Branch" -> 1
                                         [] OTHER -> Len(node.key)))

(* next: steps until there is an item, an error or no crumb left.  Gives   *)
(* the item, a key with its value or an error, and the iterator after it.  *)
RECURSIVE next(_, _)
next(store, it) ==
    LET depth == Len(it.trail)
        b == increment(it.trail[depth])
        moved == [it EXCEPT !.trail[depth] = b]
        left == [trail |-> Front(it.trail), nibbles |-> LeaveNode(it.nibbles, b.node)]
        at == [moved EXCEPT !.nibbles = AtChildNibble(it.nibbles, b.status)]
        Descend(i, ref) ==
            LET node == get_raw_or_lookup(store, ref)
            IN  IF node = Missing THEN [item |-> <<IncompleteDatabase>>, it |-> i]
                ELSE next(store, descend_into_node(i, node))
    IN  IF it.trail = <<>> THEN [item |-> <<>>, it |-> it]
        ELSE CASE b.status = Exiting -> next(store, left)
               [] b.status = At /\ b.node.tag = "Extension" ->
                    Descend(moved, b.node.child)
               [] b.status = At /\ b.node.tag = "Branch" /\ b.node.value = NoValue ->
                    next(store, moved)
               [] b.status = At /\ b.node.tag \in {"Leaf", "Branch"}
                  /\ b.node.value # NoValue ->
                    [item |-> <<it.nibbles, b.node.value>>, it |-> moved]
               [] b.status \in 0..15 -> Descend(at, ChildAt(b.node, b.status))

(* All the items that are still to come. *)
RECURSIVE collect(_, _)
collect(store, it) ==
    LET r == next(store, it)
    IN  IF r.item = <<>> THEN <<>> ELSE <<r.item>> \o collect(store, r.it)

(* Mutant: the leaf of the key itself is still to come. *)
SoughtLeafEntered(node, key) == IF node.key = key THEN Entering ELSE Exiting

(* The status of a leaf a seek ends at: its own, if it is the key's, is    *)
(* behind the iterator, and so is any other.                               *)
SoughtLeaf(node, key) == IF node.key = key THEN At ELSE Exiting

(* seek, from a node on. *)
RECURSIVE SeekFrom(_, _, _, _)
SeekFrom(store, it, node, key) ==
    LET push(status) == Append(it.trail, Crumb(node, status))
    IN  CASE node.tag = "Leaf" ->
                [trail |-> push(SoughtLeaf(node, key)),
                 nibbles |-> it.nibbles \o node.key]
          [] node.tag = "Extension" /\ IsPrefix(node.key, key) ->
                SeekFrom(store, [trail |-> push(At), nibbles |-> it.nibbles \o node.key],
                         get_raw_or_lookup(store, node.child), mid(key, Len(node.key)))
          [] node.tag = "Extension" /\ ~IsPrefix(node.key, key) ->
                descend_into_node(it, node)
          [] node.tag = "Branch" /\ key = <<>> -> [it EXCEPT !.trail = push(At)]
          [] node.tag = "Branch" /\ key # <<>> ->
                SeekFrom(store, [trail |-> push(Head(key)),
                                 nibbles |-> Append(it.nibbles, Head(key))],
                         get_raw_or_lookup(store, ChildAt(node, Head(key))), Tail(key))
          [] OTHER -> it

seek(store, node, key) == SeekFrom(store, [trail |-> <<>>, nibbles |-> <<>>], node, key)
-------------------------------------------------------------------------------
(* Properties, of a trie that has just been committed. *)

(* NibbleSlice::partial_cmp: the order of keys. *)
Less(a, b) ==
    LET n == common_prefix(a, b)
    IN  IF n < Len(a) /\ n < Len(b) THEN a[n + 1] < b[n + 1] ELSE Len(a) < Len(b)

Committed == root_handle = Hash(root)
Present == {k \in Keys : contents[k] # NoValue}
Sorted(S) == [i \in 1..Cardinality(S) |->
                LET k == SetToSortSeq(S, Less)[i] IN <<k, contents[k]>>]

(* An iterator gives every key of the trie with its value, once, in order, *)
(* and then ends, wherever its nodes are inlined or hashed.                *)
IteratesAll == Committed => collect(Store, NewIterator(Store, root)) = Sorted(Present)

(* seek with the key of an element positions the iterator behind it.       *)
SeeksPresent ==
    Committed => \A k \in Present :
        collect(Store, seek(Store, root, k)) = Sorted({l \in Present : Less(k, l)})

(* "Position the iterator on the first element with key > `key`", whatever *)
(* the key (TrieIterator::seek).  The code skips a leaf and descends into  *)
(* an extension that the key does not match, whether they are above it or  *)
(* below.                                                                  *)
SeeksAnyKey ==
    Committed => \A k \in Keys :
        collect(Store, seek(Store, root, k)) = Sorted({l \in Present : Less(k, l)})

Lost(e) == {k \in Present : e \in Range(look_up(Store, Hash(root), k, <<>>).seen)}

(* A database that lacks a node costs an iterator what is below the node   *)
(* and nothing else: it reports the error once for every place the node    *)
(* has in the trie, and goes on behind it.                                 *)
IteratesAroundMissing ==
    Committed => \A e \in Store \ {root, Empty} :
        LET items == collect(Store \ {e}, NewIterator(Store \ {e}, root))
            ok == SelectSeq(items, LAMBDA i : i # <<IncompleteDatabase>>)
        IN  /\ ok = Sorted(Present \ Lost(e))
            /\ Len(items) - Len(ok) = CopiesIn(e, HashedAt(Hash(root)))

(* Iterators (TrieDBIterator::next and seek): from the start, from the key *)
(* of an element, and around a missing node.                               *)
IteratorsExact == IteratesAll /\ SeeksPresent /\ IteratesAroundMissing

(* The nodes a recorder has noted are a proof of the answer, for a key     *)
(* that is there and for one that is not: a database of these nodes alone  *)
(* answers the same, one that lacks any of them cannot, and a recorder     *)
(* with a depth notes the lower end of the same path.                      *)
RecordsProve ==
    Committed => \A k \in Keys :
        LET r == get_with(Store, root, k, 0)
            nodes == {rec.data : rec \in Range(r.records)}
        IN  /\ r.value = contents[k]
            /\ get_with(nodes, root, k, 0) = r
            /\ \A e \in nodes : get_with(nodes \ {e}, root, k, 0).value
                    = IF e = root THEN InvalidStateRoot ELSE IncompleteDatabase
            /\ \A d \in 0..3 :
                 get_with(Store, root, k, d).records
                    = SubSeq(r.records, d + 1, Len(r.records))
===============================================================================
