------------------------------- MODULE ByteUtils -------------------------------
(***************************************************************************)
(* bytes/src/lib.rs: the writes into a buffer that is a vector or a slice, *)
(* with which a call returns its output, and the conversions between words *)
(* and bytes.  A byte has ByteBase values, a word four of them.            *)
(***************************************************************************)
EXTENDS Integers, SequencesExt

CONSTANT ByteBase

(* A BytesRef is the kind and the bytes it refers to. *)
Flexible(data) == [kind |-> "Flexible", data |-> data]
Fixed(data) == [kind |-> "Fixed", data |-> data]

resize(data, n) == [i \in 1 .. n |-> IF i <= Len(data) THEN data[i] ELSE 0]

(* Mutant: the bytes that are behind the offset are not cut off. *)
WriteFlexibleGrowing(data, offset, input) ==
    resize(data, IF offset > Len(data) THEN offset ELSE Len(data)) \o input

WriteFlexible(data, offset, input) == resize(data, offset) \o input

WriteFixed(data, offset, input) ==
    [i \in DOMAIN data |-> IF i - offset \in DOMAIN input THEN input[i - offset] ELSE data[i]]

(* write: the bytes that are referred to afterwards, and the number it     *)
(* returns, which counts the zeros that fill a gap.                        *)
write(ref, offset, input) ==
    LET len == Len(ref.data)
    IN  IF ref.kind = "Flexible"
        THEN [ref   |-> Flexible(WriteFlexible(ref.data, offset, input)),
              wrote |-> Len(input) + (IF len > offset THEN 0 ELSE offset - len)]
        ELSE [ref   |-> Fixed(WriteFixed(ref.data, offset, input)),
              wrote |-> CASE offset >= len -> 0
                          [] offset < len /\ len - offset < Len(input) -> len - offset
                          [] OTHER -> Len(input)]
-------------------------------------------------------------------------------
(* The n bytes of a word in two's complement, the highest first. *)
Bytes(i, n) == [k \in 1 .. n |-> (i \div ByteBase ^ (n - k)) % ByteBase]

Signed(i) == IF i < (ByteBase ^ 4) \div 2 THEN i ELSE i - ByteBase ^ 4

u64_to_bytes(i) == Bytes(i, 8)              \* i64_to_bytes is the same
i32_to_bytes_le(i) == Reverse(Bytes(i, 4))
i32_to_bytes(i) == i32_to_bytes_le(i)       \* on a little-endian host

(* Mutant: the words overlap. *)
OffsetOverlapping(i) == 3 * (i - 1)

(* off, before the i-th word. *)
Offset(i) == 4 * (i - 1)

(* bytes_to_i32s, for an output of n words. *)
bytes_to_i32s(input, n, big_endian) ==
    [i \in 1 .. n |->
        LET off == Offset(i)
            Place(k) == ByteBase ^ (IF big_endian THEN 4 - k ELSE k - 1)
        IN  Signed(FoldLeft(LAMBDA sum, k : sum + input[off + k] * Place(k), 0, <<1, 2, 3, 4>>))]
-------------------------------------------------------------------------------
(* What is written is found where it was written, what is in front of it   *)
(* stays, and the output of a call does not depend on the portions in      *)
(* which it was written, nor does the number of bytes reported.            *)
PortionsJoin(ref, offset, a, b) ==
    LET once == write(ref, offset, a \o b)
        first == write(ref, offset, a)
        second == write(first.ref, offset + Len(a), b)
        Fits(i) == offset + i \in DOMAIN once.ref.data
    IN  /\ second.ref = once.ref
        /\ first.wrote + second.wrote = once.wrote
        /\ \A i \in DOMAIN (a \o b) : Fits(i) => once.ref.data[offset + i] = (a \o b)[i]
        /\ \A i \in 1 .. offset : i \in DOMAIN ref.data => once.ref.data[i] = ref.data[i]
        /\ ref.kind = "Flexible" => Len(once.ref.data) = offset + Len(a \o b)

(* Words are read back, negative ones too, from bytes of either order: a   *)
(* pair of words from the bytes of one that is twice as long, and from     *)
(* their own.                                                              *)
WordsReadBack(a, b) ==
    LET unsigned(i) == i % ByteBase ^ 4
    IN  /\ bytes_to_i32s(u64_to_bytes(unsigned(a) * ByteBase ^ 4 + unsigned(b)), 2, TRUE) = <<a, b>>
        /\ bytes_to_i32s(i32_to_bytes_le(a) \o i32_to_bytes(b), 2, FALSE) = <<a, b>>
===============================================================================
