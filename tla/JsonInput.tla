------------------------------- MODULE JsonInput -------------------------------
(***************************************************************************)
(* json: the lenient readers of test and chain files, for bytes, numbers,  *)
(* hashes, optional texts and the input of a trie test.  A JSON string is  *)
(* whether it begins with 0x and the characters after that: a digit is its *)
(* value, 16 is a letter that is no digit.  A hash has HashSize bytes.     *)
(* Failed is an error, Null the JSON null.                                 *)
(***************************************************************************)
EXTENDS Integers, SequencesExt

CONSTANTS Failed, Null

HashSize == 2

Text(prefixed, body) == [prefixed |-> prefixed, body |-> body]
Length(s) == Len(s.body) + (IF s.prefixed THEN 2 ELSE 0)
IsHex(body) == \A i \in DOMAIN body : body[i] < 16

(* The bytes of a text: its ASCII codes. *)
into_bytes(s) == [i \in DOMAIN s.body |-> s.body[i] + (IF s.body[i] < 10 THEN 48 ELSE 87)]

(* rustc_hex: two digits to a byte, or an error. *)
from_hex(body) ==
    IF Len(body) % 2 = 1 \/ ~IsHex(body) THEN Failed
    ELSE [i \in 1 .. Len(body) \div 2 |-> 16 * body[2 * i - 1] + body[2 * i]]

to_hex(bytes) ==
    [i \in 1 .. 2 * Len(bytes) |->
        IF i % 2 = 1 THEN bytes[(i + 1) \div 2] \div 16 ELSE bytes[i \div 2] % 16]

unwrap_or_empty(v) == IF v = Failed THEN <<>> ELSE v

(* Mutant: an odd number of digits is not filled up. *)
BytesUnpadded(s) == IF Length(s) = 0 THEN <<>> ELSE unwrap_or_empty(from_hex(s.body))

(* Bytes::from_str *)
Bytes(s) ==
    CASE Length(s) = 0 -> <<>>
      [] s.prefixed /\ Length(s) = 2 -> <<>>
      [] s.prefixed /\ Length(s) > 2 /\ Length(s) % 2 = 1 ->
            unwrap_or_empty(from_hex(<<0>> \o s.body))
      [] OTHER -> unwrap_or_empty(from_hex(s.body))
-------------------------------------------------------------------------------
Number(digits, base) == FoldLeft(LAMBDA n, d : n * base + d, 0, digits)

(* uint: U256::from_str and from_dec_str, of fewer digits than a U256 has. *)
UintFromStr(body) == IF IsHex(body) THEN Number(body, 16) ELSE Failed
from_dec_str(body) ==
    IF \A i \in DOMAIN body : body[i] < 10 THEN Number(body, 10) ELSE Failed

(* UintVisitor, of a string. *)
Uint(s) ==
    CASE Length(s) = 0 \/ (s.prefixed /\ Length(s) = 2) -> 0
      [] s.prefixed /\ Length(s) > 2 -> UintFromStr(s.body)
      [] OTHER -> from_dec_str(s.body)

into_u8(n) == n % 256

(* validate_optional_non_zero, whose value may be null, is the same to the *)
(* others.                                                                 *)
validate_non_zero(n) == IF n = 0 THEN Failed ELSE n
-------------------------------------------------------------------------------
(* fixed-hash: a hash from all of its digits. *)
HashFromStr(body) ==
    IF from_hex(body) # Failed /\ Len(from_hex(body)) = HashSize THEN from_hex(body) ELSE Failed

(* HashVisitor, and the Serialize of a hash. *)
Hash(s) == IF s.body = <<>> THEN [i \in 1 .. HashSize |-> 0] ELSE HashFromStr(s.body)
SerializedHash(h) == Text(TRUE, to_hex(h))

(* MaybeEmptyVisitor, of a hash. *)
MaybeHash(s) == IF Length(s) = 0 THEN Null ELSE Hash(s)
-------------------------------------------------------------------------------
(* trie::Input.  data is a BTreeMap of bytes into optional bytes; a pair   *)
(* of strings goes into it, a later one in the place of an earlier one.    *)
InputBytes(s) == IF s.prefixed THEN Bytes(s) ELSE into_bytes(s)

(* Mutant: the first value of a key stays. *)
InsertedFirst(data, k, v) ==
    LET key == InputBytes(k)
    IN  IF key \in DOMAIN data THEN data
        ELSE (key :> IF v = Null THEN Null ELSE InputBytes(v)) @@ data

Inserted(data, k, v) ==
    (InputBytes(k) :> IF v = Null THEN Null ELSE InputBytes(v)) @@ data

visit_map(members) == FoldLeft(LAMBDA data, kv : Inserted(data, kv[1], kv[2]), <<>>, members)

(* A null in the place of a key ends the loop. *)
EndsAt(element) == Len(element) = 2 /\ element[1] = Null

visit_seq(elements) ==
    LET end == SelectInSeq(elements, EndsAt)
        read == IF end = 0 THEN elements ELSE SubSeq(elements, 1, end - 1)
    IN  IF \E i \in DOMAIN read : Len(read[i]) # 2 THEN Failed ELSE visit_map(read)

(* serde_json: a visitor must not leave elements behind. *)
InputFromStr(elements) ==
    IF SelectInSeq(elements, EndsAt) \in {0, Len(elements)} THEN visit_seq(elements) ELSE Failed
-------------------------------------------------------------------------------
(* What a test does with its input: null removes a key. *)
Applied(dictionary, k, v) ==
    [x \in (DOMAIN dictionary \ {k}) \cup (IF v = Null THEN {} ELSE {k}) |->
        IF x = k THEN v ELSE dictionary[x]]

(* The same digits are the same number to the reader of bytes and to that  *)
(* of numbers, odd digits and leading zeros too; what is no number, or     *)
(* fails validate_non_zero, has no byte that is not zero; a hash is read   *)
(* back from what it is written as, also where the empty text stands for   *)
(* none, and a text that is read as a hash has its bytes.                  *)
ReadersAgree(s) ==
    LET bytes == Bytes(s)
        h == Hash(s)
    IN  /\ s.prefixed =>
            /\ Uint(s) \in {Failed, Number(bytes, 256)}
            /\ bytes # <<>> => into_u8(Uint(s)) = Last(bytes)
            /\ (validate_non_zero(Uint(s)) # Failed) <=> (\E i \in DOMAIN bytes : bytes[i] # 0)
        /\ h # Failed =>
            /\ Hash(SerializedHash(h)) = h
            /\ MaybeHash(SerializedHash(h)) = h
            /\ s.body # <<>> => bytes = h

(* An input, which has forgotten the order of its elements and reads       *)
(* several spellings as one key, does to a dictionary what its elements do *)
(* one after the other, but for a last one that has a null for a key.      *)
InputReplays(before, elements) ==
    LET data == InputFromStr(elements)
        read == {i \in DOMAIN elements : \A j \in 1 .. i : elements[j][1] # Null}
        Step(dictionary, kv) ==
            Applied(dictionary, InputBytes(kv[1]),
                    IF kv[2] = Null THEN Null ELSE InputBytes(kv[2]))
        after == [k \in {k \in DOMAIN before \cup DOMAIN data :
                           k \in DOMAIN data => data[k] # Null} |->
                    IF k \in DOMAIN data THEN data[k] ELSE before[k]]
    IN  data # Failed =>
            after = FoldLeft(Step, before, SubSeq(elements, 1, Cardinality(read)))
===============================================================================
