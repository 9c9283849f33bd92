---------------------------------- MODULE Uint ----------------------------------
(***************************************************************************)
(* U128, U256 and U512 of aion-types, arrays of 2, 4 and 8 limbs with the  *)
(* least significant first, and their conversions.  A limb has LimbBytes   *)
(* bytes of base ByteBase; in the code these are 8 and 256.                *)
(***************************************************************************)
EXTENDS Integers, SequencesExt

CONSTANTS ByteBase, LimbBytes

B == ByteBase^LimbBytes
U(n) == [0..(n - 1) -> 0..(B - 1)]
Zero(n) == [i \in 0..(n - 1) |-> 0]
Width(x) == Cardinality(DOMAIN x)
Value(x) == FoldLeft(LAMBDA v, i : v + x[i] * B^i, 0, [i \in 1..Width(x) |-> i - 1])

(* add $lo, $k; adc $hi, $(k + 1); adc $0, ... up to the register `to`: a  *)
(* carry out of that one is lost.                                          *)
AddChain(r, k, lo, hi, to) ==
    LET addend(i) == IF i = k THEN lo ELSE IF i = k + 1 THEN hi ELSE 0
        Adc(s, i) == LET sum == s.r[i] + addend(i) + s.carry
                     IN  [r |-> [s.r EXCEPT ![i] = sum % B], carry |-> sum \div B]
    IN  FoldLeft(Adc, [r |-> r, carry |-> 0], [n \in 1..(to - k + 1) |-> k + n - 1]).r

(* Mutant: no carry behind the high half. *)
LastCarryShort(i, j) == i + j + 1

(* Where the chain of self[i] * other[j] ends: it reaches the top, but for *)
(* the first one after row 0, where xor clears the flag with the registers *)
(* 5 to 7.                                                                 *)
LastCarry(i, j) == IF <<i, j>> = <<1, 0>> THEN 4 ELSE 7

(* full_mul.  Row 0 moves its high halves into registers that have nothing *)
(* yet; 5 to 7 are cleared by the first product of row 1.                  *)
full_mul(self, other) ==
    LET lo(i, j) == (self[i] * other[j]) % B
        hi(i, j) == (self[i] * other[j]) \div B
        Row0(r, j) == AddChain(r, j, lo(0, j), hi(0, j), j + 1)
        Product(r, ij) == AddChain(r, ij[1] + ij[2], lo(ij[1], ij[2]), hi(ij[1], ij[2]),
                                   LastCarry(ij[1], ij[2]))
    IN  FoldLeft(Product, FoldLeft(Row0, Zero(8), <<0, 1, 2, 3>>),
                 [n \in 1..12 |-> <<1 + (n - 1) \div 4, (n - 1) % 4>>])

Overflow == <<>>        \* panic: Overflow

(* Mutant: the highest limb is not looked at. *)
ConvertedHalfChecked(x, n) ==
    IF \E i \in n..(Width(x) - 2) : x[i] # 0 THEN Overflow
    ELSE [i \in 0..(n - 1) |-> IF i < Width(x) THEN x[i] ELSE 0]

(* From one width to another, n limbs. *)
Converted(x, n) ==
    IF \E i \in n..(Width(x) - 1) : x[i] # 0 THEN Overflow
    ELSE [i \in 0..(n - 1) |-> IF i < Width(x) THEN x[i] ELSE 0]

(* as_u64: the lowest limb, if it is all there is; -1 is a panic. *)
as_u64(x) == IF \E i \in 1..(Width(x) - 1) : x[i] # 0 THEN -1 ELSE x[0]

to_big_endian(x) ==
    LET n == Width(x) * LimbBytes
    IN  [i \in 1..n |-> (x[(n - i) \div LimbBytes] \div ByteBase^((n - i) % LimbBytes))
                        % ByteBase]

(* from_big_endian into n limbs: the bytes may be fewer. *)
from_big_endian(bytes, n) ==
    LET len == Len(bytes)
        byte(i) == IF i < len THEN bytes[len - i] ELSE 0
    IN  [k \in 0..(n - 1) |->
            FoldLeft(LAMBDA v, i : v + byte(k * LimbBytes + i) * ByteBase^i, 0,
                     [i \in 1..LimbBytes |-> i - 1])]

(* Hashes are their bytes: H256 <-> U256 and H128 <-> U128 in big endian.  *)
HashOfUint(x) == to_big_endian(x)
UintOfHash(h) == from_big_endian(h, Len(h) \div LimbBytes)

(* Bytes a to b - 1 of 32, in limbs of LimbBytes. *)
Slice(h, a, b) == SubSeq(h, ((a * LimbBytes) \div 8) + 1, (b * LimbBytes) \div 8)
H160OfH256(h) == Slice(h, 12, 32)
H64OfH256(h) == Slice(h, 20, 28)
H256OfH160(h) == [i \in 1..((12 * LimbBytes) \div 8) |-> 0] \o h

to_u256(input, length) ==
    from_big_endian(IF Len(input) > length
                    THEN SubSeq(input, Len(input) - length + 1, Len(input)) ELSE input, 4)
-------------------------------------------------------------------------------
(* The 512-bit product of two 256-bit numbers, "No overflow possible", is  *)
(* exact: whatever carries run through the registers, none is lost.        *)
MulExact(a, b) == Value(full_mul(a, b)) = Value(a) * Value(b)

(* A conversion keeps the number or panics, and it panics only if the      *)
(* number does not fit: between widths, through hashes and bytes, and for  *)
(* a product that is brought back to 256 or 128 bits; to_u256 keeps the    *)
(* number modulo its length.                                               *)
ConversionsExact(a, b) ==
    LET product == full_mul(a, b)
    IN  /\ \A n \in {2, 4} :
             LET c == Converted(product, n)
             IN  IF Value(product) < B^n
                 THEN /\ Value(c) = Value(product)
                      /\ Converted(c, 8) = product
                      /\ UintOfHash(HashOfUint(c)) = c
                 ELSE c = Overflow
        /\ as_u64(product) = (IF Value(product) < B THEN Value(product) ELSE -1)
        /\ \A n \in 0..(4 * LimbBytes) :
             Value(to_u256(HashOfUint(a), n)) = Value(a) % ByteBase^n
        /\ LET h == HashOfUint(a)
           IN  Value(UintOfHash(H256OfH160(H160OfH256(h)))) = Value(a) % ByteBase^Len(H160OfH256(h))
===============================================================================
