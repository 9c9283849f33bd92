-------------------------------- MODULE Blake2b --------------------------------
(***************************************************************************)
(* The incremental BLAKE2b hasher (blake2b/src/blake2b_impl.rs): a buffer  *)
(* of two blocks, of which the first is compressed only when there is more *)
(* than both hold, and a byte counter in two words.  The compression is    *)
(* opaque: the chain h is the parameters and what has been compressed into *)
(* them, in order.                                                         *)
(***************************************************************************)
EXTENDS Integers, FiniteSetsExt, Sequences

CONSTANTS
    BLOCK_BYTES,
    WordBase,       \* a word of the counter is modulo this (2^64)
    Keys,           \* keys, of up to KEY_BYTES; the empty one is for new
    MaxInput        \* bound on the bytes hashed

VARIABLES
    hasher,     \* NoHasher, or [h, t, f, buf, buf_len]
    key,        \* ghost: the key it was made with, empty if none
    fed         \* ghost: the bytes it was updated with

vars == <<hasher, key, fed>>

NoHasher == [h |-> <<>>]
Zeros(n) == [i \in 1..n |-> 0]
Take(s, n) == SubSeq(s, 1, n)
DropFirst(s, n) == SubSeq(s, n + 1, Len(s))

encode_params(size, keylen) == [size |-> size, keylen |-> keylen, fanout |-> 1, depth |-> 1]

(* new, with_params *)
WithParams(param) ==
    [h |-> <<param>>, t |-> <<0, 0>>, f |-> FALSE,
     buf |-> Zeros(2 * BLOCK_BYTES), buf_len |-> 0]

(* Mutant: a low word that wraps to 0 carries nothing. *)
increment_counter_late(s, inc) ==
    LET low == (s.t[1] + inc) % WordBase
    IN  [s EXCEPT !.t = <<low, s.t[2] + (IF low \in 1..(inc - 1) THEN 1 ELSE 0)>>]

(* The carry shows in a low word that is less than what was added. *)
increment_counter(s, inc) ==
    LET low == (s.t[1] + inc) % WordBase
    IN  [s EXCEPT !.t = <<low, s.t[2] + (IF low < inc THEN 1 ELSE 0)>>]

(* The first block of the buffer, with the counter and the final flag. *)
compress(s) ==
    [s EXCEPT !.h = Append(@, [block |-> Take(s.buf, BLOCK_BYTES), t |-> s.t, f |-> s.f])]

(* The first block is compressed, the second one moves up. *)
CompressFirst(s) ==
    LET c == compress(increment_counter(s, BLOCK_BYTES))
    IN  [c EXCEPT !.buf = DropFirst(@, BLOCK_BYTES) \o DropFirst(@, BLOCK_BYTES),
                  !.buf_len = @ - BLOCK_BYTES]

Buffered(s, m) ==
    [s EXCEPT !.buf = Take(@, s.buf_len) \o m \o DropFirst(@, s.buf_len + Len(m)),
              !.buf_len = @ + Len(m)]

(* Only if more follows: the last block is compressed by finalize. *)
MustCompress(m, fill) == Len(m) > fill

(* One turn of the loop: the buffer, and what is left of the input. *)
Turn(s, m) ==
    LET fill == 2 * BLOCK_BYTES - s.buf_len
    IN  IF MustCompress(m, fill)
        THEN [s |-> CompressFirst(Buffered(s, Take(m, fill))), m |-> DropFirst(m, fill)]
        ELSE [s |-> Buffered(s, m), m |-> <<>>]

(* The loop ends when nothing is left.  Every turn but the first, which    *)
(* may find the buffer full, takes something.                              *)
update(s, m) ==
    LET after[i \in Nat] == IF i = 0 THEN [s |-> s, m |-> m]
                            ELSE LET p == after[i - 1]
                                 IN  IF p.m = <<>> THEN p ELSE Turn(p.s, p.m)
    IN  after[Len(m) + 1].s

(* finalize: what is left, in a block filled up with zeros. *)
finalize(s) ==
    LET r == IF s.buf_len > BLOCK_BYTES THEN CompressFirst(s) ELSE s
        n == increment_counter(r, r.buf_len)
    IN  compress([n EXCEPT !.f = TRUE,
                           !.buf = Take(@, n.buf_len) \o Zeros(Len(@) - n.buf_len)])

Init == hasher = NoHasher /\ key = <<>> /\ fed = <<>>

(* new_with_key hashes a block of its own with the key in it. *)
New(k) ==
    LET s == WithParams(encode_params(32, Len(k)))
    IN  /\ hasher = NoHasher
        /\ hasher' = IF k = <<>> THEN s
                     ELSE update(s, k \o Zeros(BLOCK_BYTES - Len(k)))
        /\ key' = k
        /\ fed' = <<>>

(* n bytes, the next of all the bytes there are to be hashed. *)
Update(n) ==
    LET m == [i \in 1..n |-> Len(fed) + i]
    IN  /\ hasher # NoHasher /\ ~hasher.f
        /\ Len(fed) + n <= MaxInput
        /\ hasher' = update(hasher, m)
        /\ fed' = fed \o m
        /\ key' = key

Finalize ==
    /\ hasher # NoHasher /\ ~hasher.f
    /\ hasher' = finalize(hasher)
    /\ UNCHANGED <<key, fed>>

(* blake2b, hash_256: one update.  blake2b_buffer: one for every read,     *)
(* until a read gives nothing or an error.                                 *)
Drop ==
    /\ hasher # NoHasher
    /\ hasher' = NoHasher /\ key' = <<>> /\ fed' = <<>>

Next == \/ \E k \in Keys : New(k)
        \/ \E n \in 1..MaxInput : Update(n)
        \/ Finalize
        \/ Drop

Spec == Init /\ [][Next]_vars
-------------------------------------------------------------------------------
(* A hash is that of the bytes it was updated with, in whatever portions:  *)
(* the chain has the key's block and the bytes in full blocks, the last    *)
(* one filled up with zeros and flagged, never an empty one behind a full  *)
(* one, each with the number of bytes up to its end, also where the low    *)
(* word of the counter overflows.                                          *)
HashesWhatWasFed ==
    hasher # NoHasher /\ hasher.f =>
        LET all == (IF key = <<>> THEN <<>> ELSE key \o Zeros(BLOCK_BYTES - Len(key))) \o fed
            blocks == Max({1, (Len(all) + BLOCK_BYTES - 1) \div BLOCK_BYTES})
            padded == all \o Zeros(blocks * BLOCK_BYTES - Len(all))
            upto(i) == Min({i * BLOCK_BYTES, Len(all)})
        IN  hasher.h = <<encode_params(32, Len(key))>> \o
              [i \in 1..blocks |->
                 [block |-> SubSeq(padded, (i - 1) * BLOCK_BYTES + 1, i * BLOCK_BYTES),
                  t |-> <<upto(i) % WordBase, upto(i) \div WordBase>>,
                  f |-> i = blocks]]

(* What this rests on: there are blocks, the counter can count one, and a  *)
(* key fits into one (KEY_BYTES is half of BLOCK_BYTES).                   *)
HashAssumption ==
    /\ BLOCK_BYTES \in Nat \ {0} /\ WordBase \in Nat /\ BLOCK_BYTES <= WordBase
    /\ MaxInput \in Nat
    /\ \A k \in Keys : k \in Seq(Nat) /\ Len(k) <= BLOCK_BYTES
===============================================================================
