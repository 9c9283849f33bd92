------------------------------- MODULE NodeCodec -------------------------------
(***************************************************************************)
(* The encoding of a trie node (patricia_trie/src/node.rs), on top of rlp  *)
(* and of nibble slices.  A node is one of                                 *)
(*   [tag |-> "Empty"],                                                    *)
(*   [tag |-> "Leaf", slice, value], [tag |-> "Extension", slice, child],  *)
(*   [tag |-> "Branch", children, value],                                  *)
(* where child and children are the raw RLP of a reference, and the value  *)
(* of a branch is NoBytes if it has none.                                  *)
(***************************************************************************)
EXTENDS RlpStream

NS == INSTANCE NibbleSlice

NoBytes == <<-1>>

NodeEncoded(node) ==
    LET list(n) == begin_list(NewStream, n)
        value == IF node.tag = "Branch" /\ node.value = NoBytes THEN <<>> ELSE node.value
    IN  (CASE node.tag = "Empty" -> append_raw(NewStream, <<128>>, 1)
           [] node.tag = "Leaf" ->
                append(append(list(2), Octets(NS!encoded(node.slice, TRUE))), Octets(node.value))
           [] node.tag = "Extension" ->
                append_raw(append(list(2), Octets(NS!encoded(node.slice, FALSE))), node.child, 1)
           [] node.tag = "Branch" ->
                append(FoldLeft(LAMBDA s, raw : append_raw(s, raw, 1), list(17), node.children),
                       Octets(value))).buffer

InvalidRlp == [tag |-> "panic: Rlp is not valid."]

(* Mutant: a branch of sixteen items is enough. *)
IsBranch16(prototype_) == prototype_ = <<"List", 16>>

IsBranch(prototype_) == prototype_ = <<"List", 17>>

NodeDecoded(rlp_) ==
    LET view == View(rlp_)
        kind == trusted_prototype(view)
        item(i) == trusted_at(view, i)
        key == NS!from_encoded(trusted_data(item(0)))
    IN  CASE kind = <<"List", 2>> ->
                IF key.is_leaf
                THEN [tag |-> "Leaf", slice |-> key.slice, value |-> trusted_data(item(1))]
                ELSE [tag |-> "Extension", slice |-> key.slice, child |-> item(1)]
          [] IsBranch(kind) ->
                [tag |-> "Branch", children |-> [i \in 1..16 |-> item(i - 1)],
                 value |-> IF is_empty(item(16)) THEN NoBytes
                           ELSE trusted_data(item(16))]
          [] kind = <<"Data", 0>> -> [tag |-> "Empty"]
          [] OTHER -> InvalidRlp

(* OwnedNode: the iterator's copy. *)
Owned(node) == IF node.tag \in {"Leaf", "Extension"}
               THEN [node EXCEPT !.slice = NS!FromSlice(@)] ELSE node
-------------------------------------------------------------------------------
(* A node is read as it was written, its key at any offset, its references *)
(* inlined or hashed, in the encodings around 56 bytes where the header    *)
(* grows; and it is written in the number of bytes that the models of the  *)
(* trie take to decide whether a node is inlined.                          *)
NodesExact(node, length) ==
    LET rlp_ == NodeEncoded(node)
    IN  /\ Owned(NodeDecoded(rlp_)) = Owned(node)
        /\ Len(rlp_) = length
===============================================================================
