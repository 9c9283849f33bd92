------------------------------ MODULE NibbleSlice ------------------------------
(***************************************************************************)
(* Keys as nibbles: NibbleSlice, a view of bytes from an offset, possibly  *)
(* with a second view behind it, and NibbleVec, which owns its bytes       *)
(* (patricia_trie/src/nibbleslice.rs and nibblevec.rs).                    *)
(***************************************************************************)
EXTENDS Integers, SequencesExt

High(byte) == byte \div 16
Low(byte) == byte % 16

new_offset(data, offset) ==
    [data |-> data, offset |-> offset, suffix |-> <<>>, offset_suffix |-> 0]

(* The second view's own suffix is lost. *)
new_composed(a, b) ==
    [data |-> a.data, offset |-> a.offset, suffix |-> b.data, offset_suffix |-> b.offset]

len(s) == (Len(s.data) + Len(s.suffix)) * 2 - s.offset - s.offset_suffix

(* Mutant: the offset of the suffix is forgotten. *)
at_from_start(s, i) ==
    LET l == Len(s.data) * 2 - s.offset
        nibble(bytes, k) == IF k % 2 = 1 THEN Low(bytes[k \div 2 + 1]) ELSE High(bytes[k \div 2 + 1])
    IN  IF i < l THEN nibble(s.data, s.offset + i) ELSE nibble(s.suffix, i - l)

(* The nibble at position i, from 0. *)
at(s, i) ==
    LET l == Len(s.data) * 2 - s.offset
        nibble(bytes, k) == IF k % 2 = 1 THEN Low(bytes[k \div 2 + 1]) ELSE High(bytes[k \div 2 + 1])
    IN  IF i < l THEN nibble(s.data, s.offset + i)
                 ELSE nibble(s.suffix, s.offset_suffix + i - l)

(* The iterator; what every operation below sees of a slice. *)
Nibbles(s) == [i \in 1..len(s) |-> at(s, i - 1)]

(* mid: the suffix is dropped. *)
mid(s, i) == new_offset(s.data, s.offset + i)

common_prefix(s, them) ==
    LET n == Min({len(s), len(them)})
    IN  CHOOSE i \in 0..n : /\ \A k \in 0..(i - 1) : at(s, k) = at(them, k)
                            /\ i < n => at(s, i) # at(them, i)

starts_with(s, them) == common_prefix(s, them) = len(them)
eq(s, them) == len(s) = len(them) /\ starts_with(s, them)

(* partial_cmp: -1, 0 or 1. *)
partial_cmp(s, them) ==
    LET i == common_prefix(s, them)
        Sign(n) == IF n < 0 THEN -1 ELSE IF n > 0 THEN 1 ELSE 0
    IN  IF i < Min({len(s), len(them)}) THEN Sign(at(s, i) - at(them, i))
                                        ELSE Sign(len(s) - len(them))

(* The first byte: whether the length is odd, with the first nibble then,  *)
(* and whether it is of a leaf.                                            *)
Flags(odd, first, is_leaf) == (IF odd THEN 16 + first ELSE 0) + (IF is_leaf THEN 32 ELSE 0)

(* encoded_leftmost: the first n nibbles in prefixed hex notation; encoded *)
(* is all of them.                                                         *)
encoded_leftmost(s, n, is_leaf) ==
    LET l == Min({len(s), n})
        odd == l % 2
    IN  <<Flags(odd = 1, IF odd = 1 THEN at(s, 0) ELSE 0, is_leaf)>>
        \o [k \in 1..(l \div 2) |-> at(s, odd + 2 * k - 2) * 16 + at(s, odd + 2 * k - 1)]
encoded(s, is_leaf) == encoded_leftmost(s, len(s), is_leaf)

from_encoded(data) ==
    [slice |-> new_offset(data, IF (data[1] \div 16) % 2 = 1 THEN 1 ELSE 2),
     is_leaf |-> (data[1] \div 32) % 2 = 1]
-------------------------------------------------------------------------------
(* NibbleVec *)

NewVec == [inner |-> <<>>, len |-> 0]
vec_at(v, i) == IF i % 2 = 0 THEN High(v.inner[i \div 2 + 1]) ELSE Low(v.inner[i \div 2 + 1])

(* An odd nibble is or-ed into the last byte. *)
push(v, nibble) ==
    [inner |-> IF v.len % 2 = 0 THEN Append(v.inner, (nibble % 16) * 16)
               ELSE [v.inner EXCEPT ![Len(v.inner)] = @ + (nibble % 16)],
     len |-> v.len + 1]

(* Mutant: the byte a nibble is popped from is put back as it was. *)
pop_dirty(v) == [v EXCEPT !.inner = IF v.len % 2 = 0 THEN @ ELSE Front(@), !.len = @ - 1]

pop(v) == [inner |-> IF v.len % 2 = 0
                     THEN Append(Front(v.inner), High(Last(v.inner)) * 16)
                     ELSE Front(v.inner),
           len |-> v.len - 1]

FromSlice(s) == FoldLeft(push, NewVec, Nibbles(s))
as_nibbleslice(v) == new_offset(v.inner, 0)     \* if the length is even
-------------------------------------------------------------------------------
(* triehash, which computes the same roots from plain sequences of nibbles *)
(* and shares no code with the slices (triehash/src/lib.rs).               *)

as_nibbles(bytes) ==
    [i \in 1..(2 * Len(bytes)) |->
        LET byte == bytes[(i + 1) \div 2] IN IF i % 2 = 1 THEN High(byte) ELSE Low(byte)]

shared_prefix_len(first, second) ==
    LET n == Min({Len(first), Len(second)})
    IN  Cardinality({i \in 1..n : \A k \in 1..i : first[k] = second[k]})

(* Mutant: the two flags are exchanged. *)
hex_prefix_encode_swapped(nibbles, leaf) ==
    LET odd == Len(nibbles) % 2
        first == (2 * odd + (IF leaf THEN 1 ELSE 0)) * 16 + (IF odd = 1 THEN nibbles[1] ELSE 0)
    IN  <<first>> \o [k \in 1..(Len(nibbles) \div 2) |->
                         nibbles[odd + 2 * k - 1] * 16 + nibbles[odd + 2 * k]]

hex_prefix_encode(nibbles, leaf) ==
    LET odd == Len(nibbles) % 2
        first == (odd + (IF leaf THEN 2 ELSE 0)) * 16 + (IF odd = 1 THEN nibbles[1] ELSE 0)
    IN  <<first>> \o [k \in 1..(Len(nibbles) \div 2) |->
                         nibbles[odd + 2 * k - 1] * 16 + nibbles[odd + 2 * k]]
-------------------------------------------------------------------------------
(* The nibbles of bytes from an offset on. *)
Expand(data, offset) ==
    LET all == FlattenSeq([i \in DOMAIN data |-> <<High(data[i]), Low(data[i])>>])
    IN  SubSeq(all, offset + 1, Len(all))

(* A view, its parts and its encoding are the same nibbles, at any offset  *)
(* and in two pieces: a composed slice is one followed by the other, what  *)
(* is encoded is decoded, the leftmost n are a prefix, and the order is    *)
(* that of the sequences.                                                  *)
SlicesExact(a, b) ==
    LET x == Expand(a.data, a.offset)
        y == Expand(b.data, b.offset)
        c == new_composed(a, b)
    IN  /\ Nibbles(c) = x \o y
        /\ \A is_leaf \in BOOLEAN :
             LET d == from_encoded(encoded(c, is_leaf))
             IN  d.is_leaf = is_leaf /\ eq(d.slice, c) /\ Nibbles(d.slice) = x \o y
        /\ \A n \in 0..Len(x) :
             /\ Nibbles(from_encoded(encoded_leftmost(a, n, FALSE)).slice) = SubSeq(x, 1, n)
             /\ Nibbles(mid(a, n)) = SubSeq(x, n + 1, Len(x))
        /\ starts_with(c, a) /\ (starts_with(a, b) <=> IsPrefix(y, x))
        /\ (partial_cmp(a, b) = 0) <=> (x = y)
        /\ partial_cmp(a, b) = -partial_cmp(b, a)

(* A root that triehash computes is the one of the trie: whatever part of  *)
(* a key is left at a node, both write it in the same bytes, and both      *)
(* branch at the same nibble.                                              *)
HashersAgree(a, b) ==
    LET Rest(s) == SubSeq(as_nibbles(s.data), s.offset + 1, 2 * Len(s.data))
    IN  /\ \A leaf \in BOOLEAN : hex_prefix_encode(Rest(a), leaf) = encoded(a, leaf)
        /\ shared_prefix_len(Rest(a), Rest(b)) = common_prefix(a, b)

(* The iterator's NibbleVec gives back what was pushed: after a pop of any *)
(* number of nibbles, the bytes are those of a vector that never had them, *)
(* and what is pushed next is read back.                                   *)
VecsExact(a, b) ==
    LET x == Nibbles(a)
        v == FromSlice(new_composed(a, b))
        Popped(n) == FoldLeft(LAMBDA w, i : pop(w), v, [i \in 1..n |-> i])
    IN  /\ FromSlice(a) = Popped(len(b))
        /\ \A n \in 0..v.len :
             LET w == FoldLeft(push, Popped(n), x)
             IN  SubSeq([i \in 1..w.len |-> vec_at(w, i - 1)], v.len - n + 1, w.len) = x
        /\ v.len % 2 = 0 => eq(as_nibbleslice(v), new_composed(a, b))
===============================================================================
