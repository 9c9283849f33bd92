------------------------------- MODULE TrieNodes -------------------------------
(***************************************************************************)
(* The nodes of a Merkle-Patricia trie as they are encoded and hashed      *)
(* (patricia_trie/src/node.rs), and the root of a whole dictionary as      *)
(* triehash computes it from nothing.                                      *)
(*                                                                         *)
(* A node is a record with a tag.  Its children are references: Absent,    *)
(* the hash of a node, or the node itself when its encoding is shorter     *)
(* than a hash.  Hashes do not collide, so Hash(e) has the node e in it.   *)
(***************************************************************************)
EXTENDS Integers, SequencesExt

CONSTANTS
    Nibbles,    \* the nibbles that occur in keys, of the 16 there are
    Entries,    \* keys, sequences of nibbles, with a value they may be given
    NoValue,    \* no value
    ValueLen    \* the length of a value's RLP

Keys == {e[1] : e \in Entries}
Values == {e[2] : e \in Entries}

ASSUME KeyAssumption ==
    /\ Nibbles \subseteq 0..15
    /\ \A k \in Keys : k \in Seq(Nibbles) /\ Len(k) % 2 = 0
    /\ NoValue \notin Values /\ ValueLen \in [Values -> Nat \ {0}]

Empty == [tag |-> "Empty"]
Leaf(key, value) == [tag |-> "Leaf", key |-> key, value |-> value]
Extension(key, child) == [tag |-> "Extension", key |-> key, child |-> child]
Branch(children, value) ==
    [tag |-> "Branch", children |-> children, value |-> value]

Absent == [tag |-> "Absent"]
Hash(e) == [tag |-> "Hash", of |-> e]

empty_children == [i \in Nibbles |-> Absent]

(* NibbleSlice::mid and NibbleSlice::common_prefix. *)
mid(key, n) == SubSeq(key, n + 1, Len(key))
common_prefix(a, b) ==
    LET s == IF Len(a) < Len(b) THEN Len(a) ELSE Len(b)
    IN  CHOOSE n \in 0..s : /\ \A i \in 1..n : a[i] = b[i]
                            /\ n < s => a[n + 1] # b[n + 1]
-------------------------------------------------------------------------------
(* The length of an encoded node, which decides between a node and its hash. *)

(* A string of one byte below 128, or a prefix byte and the string. *)
PartialLen(key) == IF Len(key) < 2 THEN 1 ELSE 2 + (Len(key) \div 2)
ListLen(payload) == payload + (IF payload < 56 THEN 1
                               ELSE IF payload < 256 THEN 2 ELSE 3)

RECURSIVE EncodedLen(_)
RefLen(ref) == CASE ref.tag = "Absent" -> 1
                 [] ref.tag = "Hash" -> 33
                 [] OTHER -> EncodedLen(ref)
EncodedLen(e) ==
    CASE e.tag = "Empty" -> 1
      [] e.tag = "Leaf" -> ListLen(PartialLen(e.key) + ValueLen[e.value])
      [] e.tag = "Extension" -> ListLen(PartialLen(e.key) + RefLen(e.child))
      [] e.tag = "Branch" ->
            ListLen(FoldFunction(LAMBDA a, b : a + b,
                                 16 - Cardinality(Nibbles),
                                 [i \in Nibbles |-> RefLen(e.children[i])])
                    + (IF e.value = NoValue THEN 1 ELSE ValueLen[e.value]))

(* How a node is written into its parent. *)
Reference(e) == IF EncodedLen(e) >= 32 THEN Hash(e) ELSE e
-------------------------------------------------------------------------------
(* The nodes that are stored under their hash below a reference, as a bag. *)

RECURSIVE HashedAt(_)
HashedBelow(e) ==
    CASE e.tag = "Extension" -> HashedAt(e.child)
      [] e.tag = "Branch" ->
            FoldFunction(LAMBDA a, b : a (+) b, EmptyBag,
                         [i \in Nibbles |-> HashedAt(e.children[i])])
      [] OTHER -> EmptyBag
HashedAt(ref) == CASE ref.tag = "Absent" -> EmptyBag
                 [] ref.tag = "Hash" -> SetToBag({ref.of}) (+) HashedBelow(ref.of)
                 [] OTHER -> HashedBelow(ref)
-------------------------------------------------------------------------------
(* triehash: the root node of a dictionary, for the keys S that agree on   *)
(* their first pre nibbles.  The code has them sorted, so that a key of    *)
(* length pre is the first of them.                                        *)
RECURSIVE hash256rlp(_, _, _)
hash256aux(dict, S, pre) == Reference(hash256rlp(dict, S, pre))
hash256rlp(dict, S, pre) ==
    LET key == CHOOSE k \in S : \A l \in S : Len(k) <= Len(l)
        shared == FoldSet(LAMBDA k, n : Min({common_prefix(key, k), n}),
                          Len(key), S)
    IN  CASE S = {} -> Empty
          [] Cardinality(S) = 1 -> Leaf(mid(key, pre), dict[key])
          [] Cardinality(S) > 1 /\ shared > pre ->
                Extension(SubSeq(key, pre + 1, shared),
                          hash256aux(dict, S, shared))
          [] Cardinality(S) > 1 /\ shared = pre ->
                Branch([i \in Nibbles |->
                          LET T == {k \in S : Len(k) > pre /\ k[pre + 1] = i}
                          IN IF T = {} THEN Absent
                                       ELSE hash256aux(dict, T, pre + 1)],
                       IF Len(key) = pre THEN dict[key] ELSE NoValue)

trie_root(dict) ==
    hash256rlp(dict, {k \in DOMAIN dict : dict[k] # NoValue}, 0)
===============================================================================
