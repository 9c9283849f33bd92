---------------------------------- MODULE Rlp ----------------------------------
(***************************************************************************)
(* Recursive length prefix encoding: the headers of items and how they are *)
(* read (rlp/src/untrusted_rlp.rs), and what the types of impls.rs and of  *)
(* rlp_derive write and accept.                                            *)
(*                                                                         *)
(* Bytes are sequences of 0..255.  A typed value is a record [t, v, ...];  *)
(* its type is the same record without v.  A Result is [ok |-> value] or   *)
(* [err |-> name].                                                         *)
(***************************************************************************)
EXTENDS Integers, SequencesExt

CONSTANT UsizeBytes     \* mem::size_of::<usize>()

ASSUME UsizeAssumption == UsizeBytes \in 1..8

Bytes == Seq(0..255)

Ok(x) == [ok |-> x]
Err(e) == [err |-> e]
IsOk(r) == "ok" \in DOMAIN r
AndThen(r, F(_)) == IF IsOk(r) THEN F(r.ok) ELSE r

(* collect: the first error, or all the values. *)
Collect(rs) == IF \E i \in DOMAIN rs : ~IsOk(rs[i])
               THEN rs[CHOOSE i \in DOMAIN rs : /\ ~IsOk(rs[i])
                                                /\ \A j \in 1..(i - 1) : IsOk(rs[j])]
               ELSE Ok([i \in DOMAIN rs |-> rs[i].ok])

(* The bytes of n, most significant first, without leading zeros. *)
BigEndian(n) == IF n = 0 THEN <<>>
                ELSE LET w == CHOOSE i \in 1..3 : n < 256^i /\ n >= 256^(i - 1)
                     IN  [i \in 1..w |-> (n \div 256^(w - i)) % 256]
FromBigEndian(b) == FoldLeft(LAMBDA n, x : 256 * n + x, 0, b)

From(bytes, n) == SubSeq(bytes, n + 1, Len(bytes))
-------------------------------------------------------------------------------
(* Headers. *)

(* decode_usize *)
decode_usize(b) ==
    CASE Len(b) > UsizeBytes -> Err("RlpIsTooBig")
      [] Len(b) \in 2..UsizeBytes /\ b[1] = 0 -> Err("RlpInvalidIndirection")
      [] OTHER -> Ok(FromBigEndian(b))

Info(header_len, value_len) == [header_len |-> header_len, value_len |-> value_len]

calculate_payload_info(bytes, len_of_len) ==
    IF Len(bytes) < 2 THEN Err("RlpIsTooShort")
    ELSE IF bytes[2] = 0 THEN Err("RlpDataLenWithZeroPrefix")
    ELSE IF Len(bytes) < 1 + len_of_len THEN Err("RlpIsTooShort")
    ELSE AndThen(decode_usize(SubSeq(bytes, 2, 1 + len_of_len)),
                 LAMBDA n : Ok(Info(1 + len_of_len, n)))

(* PayloadInfo::from *)
PayloadInfo(bytes) ==
    IF bytes = <<>> THEN Err("RlpIsTooShort")
    ELSE LET l == bytes[1]
         IN  CASE l < 128 -> Ok(Info(0, 1))
               [] l \in 128..183 -> Ok(Info(1, l - 128))
               [] l \in 184..191 -> calculate_payload_info(bytes, l - 183)
               [] l \in 192..247 -> Ok(Info(1, l - 192))
               [] l \in 248..255 -> calculate_payload_info(bytes, l - 247)

(* Mutant: an item that is longer than the bytes there are ends with them. *)
payload_info_clipped(bytes) ==
    AndThen(PayloadInfo(bytes), LAMBDA i :
        Ok([i EXCEPT !.value_len = Min({@, Max({0, Len(bytes) - i.header_len})})]))

(* BasicDecoder::payload_info: an item that is there as a whole. *)
payload_info(bytes) ==
    AndThen(PayloadInfo(bytes),
            LAMBDA i : IF i.header_len + i.value_len <= Len(bytes)
                       THEN Ok(i) ELSE Err("RlpIsTooShort"))

is_null(bytes) == bytes = <<>>
is_empty(bytes) == ~is_null(bytes) /\ bytes[1] \in {192, 128}
is_list(bytes) == ~is_null(bytes) /\ bytes[1] >= 192
is_data(bytes) == ~is_null(bytes) /\ bytes[1] < 192
is_int(bytes) ==
    /\ ~is_null(bytes)
    /\ \/ bytes[1] \in 0..128
       \/ bytes[1] \in 129..183 /\ bytes[2] # 0
       \/ bytes[1] \in 184..191 /\ bytes[2 + bytes[1] - 183] # 0

(* data: what is behind the header of the first item. *)
data(bytes) ==
    AndThen(payload_info(bytes),
            LAMBDA i : Ok(SubSeq(bytes, i.header_len + 1, i.header_len + i.value_len)))

size(bytes) == LET i == payload_info(bytes)
               IN  IF is_data(bytes) /\ IsOk(i) THEN i.ok.value_len ELSE 0

(* BasicDecoder::decode_value: the bytes it calls f with. *)
decode_value(bytes) ==
    IF bytes = <<>> THEN Err("RlpIsTooShort")
    ELSE LET l == bytes[1]
             short == SubSeq(bytes, 2, l - 127)
             begin == 1 + l - 183
             len == decode_usize(SubSeq(bytes, 2, begin))
         IN  CASE l < 128 -> Ok(<<l>>)
               [] l \in 128..183 ->
                    IF Len(bytes) < 1 + l - 128 THEN Err("RlpInconsistentLengthAndData")
                    ELSE IF l = 129 /\ short[1] < 128 THEN Err("RlpInvalidIndirection")
                    ELSE Ok(short)
               [] l \in 184..191 ->
                    IF Len(bytes) < begin THEN Err("RlpInconsistentLengthAndData")
                    ELSE IF ~IsOk(len) THEN len
                    ELSE IF Len(bytes) < begin + len.ok
                         THEN Err("RlpInconsistentLengthAndData")
                    ELSE Ok(SubSeq(bytes, begin + 1, begin + len.ok))
               [] l >= 192 -> Err("RlpExpectedToBeData")
-------------------------------------------------------------------------------
(* Lists.  A view of a slice remembers where the item is that was asked    *)
(* for last, and the number of items.                                      *)

NoIndex == -1       \* usize::max_value(), which no index reaches
NoCount == -1
View(bytes) == [bytes |-> bytes, index |-> NoIndex, offset |-> 0, count |-> NoCount]

consume(bytes, n) ==
    IF Len(bytes) >= n THEN Ok(From(bytes, n)) ELSE Err("RlpIsTooShort")

consume_items(bytes, items) ==
    FoldLeft(LAMBDA r, i :
               AndThen(r, LAMBDA b :
                 AndThen(payload_info(b), LAMBDA p :
                   consume(b, p.header_len + p.value_len))),
             Ok(bytes), [i \in 1..items |-> i])

consume_list_payload(bytes) ==
    AndThen(payload_info(bytes), LAMBDA p : consume(bytes, p.header_len))

(* Mutant: the skipped items are counted from the start of the list. *)
RestAtFromStart(view, i) ==
    IF view.index # NoIndex /\ view.index <= i
    THEN AndThen(consume(view.bytes, view.offset), LAMBDA b : consume_items(b, i))
    ELSE AndThen(consume_list_payload(view.bytes), LAMBDA b : consume_items(b, i))

(* The bytes from item i on: from the cached position if it is not behind. *)
RestAt(view, i) ==
    IF view.index # NoIndex /\ view.index <= i
    THEN AndThen(consume(view.bytes, view.offset),
                 LAMBDA b : consume_items(b, i - view.index))
    ELSE AndThen(consume_list_payload(view.bytes), LAMBDA b : consume_items(b, i))

(* at: the item, and the view with its cache moved.  The cache moves also  *)
(* if there turns out to be no item.                                       *)
ItemAt(view, i, rest) ==
    [item |-> AndThen(rest, LAMBDA b :
                AndThen(payload_info(b), LAMBDA p :
                  Ok(SubSeq(b, 1, p.header_len + p.value_len)))),
     view |-> IF IsOk(rest)
              THEN [view EXCEPT !.index = i, !.offset = Len(view.bytes) - Len(rest.ok)]
              ELSE view]
at(view, i) ==
    IF ~is_list(view.bytes) THEN [item |-> Err("RlpExpectedToBeList"), view |-> view]
    ELSE ItemAt(view, i, RestAt(view, i))

(* iter: items up to the first that at refuses, whatever the reason; r is  *)
(* at's answer for item i.                                                 *)
RECURSIVE IterFrom(_, _, _)
IterFrom(items, i, r) ==
    IF IsOk(r.item)
    THEN IterFrom(Append(items, r.item.ok), i + 1, at(r.view, i + 1))
    ELSE [items |-> items, view |-> r.view]
iter(view) == IterFrom(<<>>, 0, at(view, 0))

CountKept(r) == [count |-> Ok(Len(r.items)), view |-> [r.view EXCEPT !.count = Len(r.items)]]
item_count(view) ==
    IF ~is_list(view.bytes)
    THEN [count |-> Err("RlpExpectedToBeList"), view |-> view]
    ELSE IF view.count # NoCount THEN [count |-> Ok(view.count), view |-> view]
    ELSE CountKept(iter(view))

(* prototype: the kind of an item, with its length. *)
prototype(view) ==
    IF is_data(view.bytes) THEN Ok(<<"Data", size(view.bytes)>>)
    ELSE IF is_list(view.bytes)
         THEN AndThen(item_count(view).count, LAMBDA n : Ok(<<"List", n>>))
    ELSE Ok(<<"Null">>)

(* Rlp, the view that trusts its bytes (rlpin.rs): a Result is unwrapped. *)
Panic == "panic"
UnwrapOr(r, x) == IF IsOk(r) THEN r.ok ELSE x
Unwrap(r) == UnwrapOr(r, Panic)
trusted_at(view, i) == Unwrap(at(view, i).item)
trusted_item_count(view) == UnwrapOr(item_count(view).count, 0)
trusted_prototype(view) == Unwrap(prototype(view))
trusted_data(bytes) == Unwrap(data(bytes))
trusted_iter(view) == iter(view).items
-------------------------------------------------------------------------------
(* Types. *)

Bool(v) == [t |-> "bool", v |-> v]
Uint(n, v) == [t |-> "uint", size |-> n, v |-> v]       \* n bytes
Octets(v) == [t |-> "bytes", v |-> v]                   \* Vec<u8>
HashOf(v) == [t |-> "hash", size |-> Len(v), v |-> v]
Option(of, v) == [t |-> "option", of |-> of, v |-> v]   \* v: none or one value
Vec(of, v) == [t |-> "vec", of |-> of, v |-> v]
Struct(v) == [t |-> "struct", v |-> v]                  \* v: the fields
Wrapper(x) == [t |-> "wrapper", v |-> x]                \* one field, no list

IsListType(x) == x.t \in {"option", "vec", "struct"}

RECURSIVE TypeOf(_)
TypeOf(x) == CASE x.t \in {"bool", "bytes"} -> [t |-> x.t]
               [] x.t \in {"uint", "hash"} -> [t |-> x.t, size |-> x.size]
               [] x.t \in {"option", "vec"} -> [t |-> x.t, of |-> x.of]
               [] x.t = "struct" ->
                    [t |-> x.t, of |-> [i \in DOMAIN x.v |-> TypeOf(x.v[i])]]
               [] x.t = "wrapper" -> [t |-> x.t, of |-> TypeOf(x.v)]

(* The bytes that are the value of a type that is not a list. *)
ValueBytes(x) == CASE x.t = "bool" -> IF x.v THEN <<1>> ELSE <<0>>
                   [] x.t = "uint" -> BigEndian(x.v)
                   [] x.t \in {"bytes", "hash"} -> x.v

DecodeBool(bytes) ==
    AndThen(decode_value(bytes), LAMBDA b :
        CASE Len(b) = 0 -> Ok(Bool(FALSE))
          [] Len(b) = 1 -> Ok(Bool(b[1] # 0))
          [] OTHER -> Err("RlpIsTooBig"))

(* Mutant: leading zeros are accepted. *)
DecodeUintLax(bytes, n) ==
    AndThen(decode_value(bytes), LAMBDA b : IF Len(b) <= n THEN Ok(Uint(n, FromBigEndian(b)))
                                                  ELSE Err("RlpIsTooBig"))

(* u8, u16 to u64, U128 and U256: the macros agree, but for the error they *)
(* give a value that is both too long and begins with 0.                   *)
DecodeUint(bytes, n) ==
    AndThen(decode_value(bytes), LAMBDA b :
        CASE Len(b) \in 1..n /\ b[1] = 0 -> Err("RlpInvalidIndirection")
          [] Len(b) > n -> Err("RlpIsTooBig")
          [] OTHER -> Ok(Uint(n, FromBigEndian(b))))

DecodeHash(bytes, n) ==
    AndThen(decode_value(bytes), LAMBDA b : CASE Len(b) < n -> Err("RlpIsTooShort")
                                     [] Len(b) > n -> Err("RlpIsTooBig")
                                     [] OTHER -> Ok(HashOf(b)))

(* as_val for a type.  A derived structure reads field i with val_at(i),   *)
(* or list_at(i) if it is a Vec; as_list reads what iter gives.            *)
RECURSIVE decode(_, _)
DecodeItems(of, items) ==
    AndThen(Collect([i \in DOMAIN items |-> decode(of, items[i])]), LAMBDA v : Ok(Vec(of, v)))
as_list(of, bytes) == DecodeItems(of, iter(View(bytes)).items)
val_at(of, bytes, i) ==
    AndThen(at(View(bytes), i).item, LAMBDA b : decode(of, b))
DecodeOption(of, bytes) ==
    AndThen(item_count(View(bytes)).count, LAMBDA n :
        CASE n = 0 -> Ok(Option(of, <<>>))
          [] n = 1 -> AndThen(val_at(of, bytes, 0), LAMBDA v : Ok(Option(of, <<v>>)))
          [] OTHER -> Err("RlpIncorrectListLen"))

(* Mutant: a derived structure takes every field from the first item. *)
DecodeStructFirst(of, bytes) ==
    AndThen(Collect([i \in DOMAIN of |-> val_at(of[i], bytes, 0)]),
            LAMBDA v : Ok(Struct(v)))

DecodeStruct(of, bytes) ==
    AndThen(Collect([i \in DOMAIN of |-> val_at(of[i], bytes, i - 1)]),
            LAMBDA v : Ok(Struct(v)))
decode(type, bytes) ==
    CASE type.t = "bool" -> DecodeBool(bytes)
      [] type.t = "uint" -> DecodeUint(bytes, type.size)
      [] type.t = "bytes" -> AndThen(decode_value(bytes), LAMBDA b : Ok(Octets(b)))
      [] type.t = "hash" -> DecodeHash(bytes, type.size)
      [] type.t = "option" -> DecodeOption(type.of, bytes)
      [] type.t = "vec" -> as_list(type.of, bytes)
      [] type.t = "struct" -> DecodeStruct(type.of, bytes)
      [] type.t = "wrapper" -> AndThen(decode(type.of, bytes), LAMBDA v : Ok(Wrapper(v)))
===============================================================================
