------------------------------- MODULE RlpStream -------------------------------
(***************************************************************************)
(* RlpStream (rlp/src/stream.rs): a buffer and a stack of unfinished       *)
(* lists, whose headers are written when their last item is; and a reader  *)
(* of the bytes it gives out.  The caller keeps to the contract whose      *)
(* breach is a panic: never more items than a list has been announced      *)
(* with, and out only when no list is open.                                *)
(***************************************************************************)
EXTENDS Rlp

CONSTANTS
    StreamValues,     \* typed values to append
    RawPairs,   \* pairs of values to append in their encoded form
    WrapInLists,    \* a derived wrapper is appended to a list, too
    MaxSize,    \* the size append_raw_checked is to keep to
    MaxLen,     \* bound on the length a list is announced with
    MaxCalls    \* bound on the calls between new or clear and out

VARIABLES
    stream,     \* [lists, buffer, finished_list]
    written,    \* ghost: stack of [max, items], the lists being written
    calls,
    rlp         \* NoView, or a view of the bytes that were given out

vars == <<stream, written, calls, rlp>>

Unbounded == 1000000    \* ListInfo.max is None
NoView == [bytes |-> <<>>]
-------------------------------------------------------------------------------
(* The encoder. *)

encode_value(buffer, v) ==
    buffer \o CASE Len(v) = 0 -> <<128>>
                [] Len(v) = 1 /\ v[1] < 128 -> v
                [] Len(v) \in 1..55 /\ ~(Len(v) = 1 /\ v[1] < 128) -> <<128 + Len(v)>> \o v
                [] Len(v) > 55 -> <<183 + Len(BigEndian(Len(v)))>> \o BigEndian(Len(v)) \o v

(* Mutant: a payload of 56 bytes still gets a header of one byte. *)
insert_list_payload_56(buffer, len, pos) ==
    IF len <= 56 THEN [buffer EXCEPT ![pos] = 192 + len]
    ELSE SubSeq(buffer, 1, pos - 1) \o <<247 + Len(BigEndian(len))>>
         \o BigEndian(len) \o From(buffer, pos)

(* The byte before pos is reserved for the header; more are inserted. *)
insert_list_payload(buffer, len, pos) ==
    IF len <= 55 THEN [buffer EXCEPT ![pos] = 192 + len]
    ELSE SubSeq(buffer, 1, pos - 1) \o <<247 + Len(BigEndian(len))>>
         \o BigEndian(len) \o From(buffer, pos)

(* The innermost list goes, and its header is written. *)
Closed(s) ==
    LET x == Last(s.lists)
    IN  [s EXCEPT !.lists = Front(s.lists),
                  !.buffer = insert_list_payload(s.buffer, Len(s.buffer) - x.position,
                                                 x.position)]

RECURSIVE note_appended(_, _)
note_appended(s, n) ==
    LET depth == Len(s.lists)
        counted == [s EXCEPT !.lists[depth].current = @ + n]
        x == counted.lists[depth]
    IN  IF s.lists = <<>> THEN s
        ELSE IF x.current = x.max
             THEN [note_appended(Closed(counted), 1) EXCEPT !.finished_list = TRUE]
             ELSE [counted EXCEPT !.finished_list = FALSE]

(* Whether n more items are as many as the list may have; else, a panic. *)
Fits(s, n) == s.lists # <<>> => Last(s.lists).current + n <= Last(s.lists).max

Opened(s, max) ==
    [lists |-> Append(s.lists, [position |-> Len(s.buffer) + 1, current |-> 0, max |-> max]),
     buffer |-> Append(s.buffer, 0), finished_list |-> FALSE]

begin_list(s, len) ==
    IF len = 0
    THEN [note_appended([s EXCEPT !.buffer = Append(@, 192)], 1) EXCEPT !.finished_list = TRUE]
    ELSE Opened(s, len)

append_raw(s, bytes, item_count_) ==
    note_appended([s EXCEPT !.buffer = @ \o bytes], item_count_)

(* Mutant: an item that is a list is counted once more by its list. *)
CountedTwice(s) == note_appended(s, 1)

(* append counts the value, unless it was a list, which has counted itself. *)
Counted(s) == IF s.finished_list THEN s ELSE note_appended(s, 1)

(* rlp_append: bytes for a plain value; for a list, begin_list and its     *)
(* values, as Option does and as rlp_derive generates it for structures.   *)
(* For a wrapper, rlp_derive generates append, not append_internal.        *)
RECURSIVE rlp_append(_, _)
append(s, x) == Counted(rlp_append([s EXCEPT !.finished_list = FALSE], x))
append_list(s, v) == FoldLeft(append, begin_list(s, Len(v)), v)
AppendField(s, x) == IF x.t = "vec" THEN append_list(s, x.v) ELSE append(s, x)
rlp_append(s, x) ==
    CASE x.t \in {"option", "vec"} -> append_list(s, x.v)
      [] x.t = "struct" -> FoldLeft(AppendField, begin_list(s, Len(x.v)), x.v)
      [] x.t = "wrapper" -> AppendField(s, x.v)
      [] OTHER -> [s EXCEPT !.buffer = encode_value(@, ValueBytes(x))]

(* Mutant: a list of up to 55 bytes is taken to need a longer header, too. *)
estimate_size_every(s, add) ==
    LET total == Len(s.buffer) + add
    IN  FoldLeft(LAMBDA n, x : n + Len(BigEndian(total - x.position)), total, s.lists)

(* estimate_size: the size if add more bytes came and all lists ended. *)
estimate_size(s, add) ==
    LET total == Len(s.buffer) + add
        extra(x) == IF total - x.position > 55
                    THEN Len(BigEndian(total - x.position)) ELSE 0
    IN  FoldLeft(LAMBDA n, x : n + extra(x), total, s.lists)

NewStream == [lists |-> <<>>, buffer |-> <<>>, finished_list |-> FALSE]
is_finished(s) == s.lists = <<>>
-------------------------------------------------------------------------------
(* The ghost: a list that has its items becomes an item of the one around. *)

RECURSIVE Placed(_, _)
Placed(stack, items) ==
    LET top == Last(stack)
        all == top.items \o items
    IN  IF Len(all) = top.max THEN Placed(Front(stack), <<Struct(all)>>)
        ELSE Append(Front(stack), [top EXCEPT !.items = all])

NothingWritten == <<[max |-> Unbounded, items |-> <<>>]>>

Init ==
    /\ stream = NewStream
    /\ written = NothingWritten
    /\ calls = 0
    /\ rlp = NoView

Calling == /\ rlp = NoView
           /\ calls < MaxCalls
           /\ calls' = calls + 1
           /\ rlp' = rlp

Append_(x) ==
    /\ Calling
    /\ Fits(stream, 1)
    /\ x.t = "wrapper" => WrapInLists \/ is_finished(stream)
    /\ stream' = append(stream, x)
    /\ written' = Placed(written, <<x>>)

BeginList(n) ==
    /\ Calling
    /\ Fits(stream, 1)
    /\ stream' = begin_list(stream, n)
    /\ written' = IF n = 0 THEN Placed(written, <<Struct(<<>>)>>)
                  ELSE Append(written, [max |-> n, items |-> <<>>])

(* The list is counted by the one around it when it is completed. *)
BeginUnboundedList ==
    /\ Calling
    /\ Fits(stream, 1)
    /\ stream' = Opened(stream, Unbounded)
    /\ written' = Append(written, [max |-> Unbounded, items |-> <<>>])

CompleteUnboundedList ==
    /\ Calling
    /\ ~is_finished(stream)
    /\ Last(stream.lists).max = Unbounded
    /\ stream' = note_appended(Closed(stream), 1)
    /\ written' = Placed(Front(written), <<Struct(Last(written).items)>>)

AppendEmptyData ==
    /\ Calling
    /\ Fits(stream, 1)
    /\ stream' = append_raw(stream, <<128>>, 1)
    /\ written' = Placed(written, <<Octets(<<>>)>>)

(* Two values that are encoded already, such as the raw parts of a block. *)
AppendRaw(x, y) ==
    LET Encoded(z) == append(NewStream, z).buffer
    IN  /\ Calling
        /\ Fits(stream, 2)
        /\ stream' = append_raw(stream, Encoded(x) \o Encoded(y), 2)
        /\ written' = Placed(written, <<x, y>>)

(* append_raw_checked: nothing, if it would be too much. *)
AppendRawChecked(x) ==
    LET bytes == append(NewStream, x).buffer
    IN  /\ Calling
        /\ IF estimate_size(stream, Len(bytes)) > MaxSize THEN UNCHANGED <<stream, written>>
           ELSE /\ Fits(stream, 1)
                /\ stream' = append_raw(stream, bytes, 1)
                /\ written' = Placed(written, <<x>>)

(* clear leaves finished_list as it is. *)
Clear ==
    /\ rlp = NoView
    /\ stream' = [stream EXCEPT !.lists = <<>>, !.buffer = <<>>]
    /\ written' = NothingWritten
    /\ calls' = 0
    /\ rlp' = rlp

(* out, of one item, and a view of it. *)
Out ==
    /\ rlp = NoView
    /\ is_finished(stream)
    /\ Len(written[1].items) = 1
    /\ rlp' = View(stream.buffer)
    /\ UNCHANGED <<stream, written, calls>>

At(i) ==
    /\ rlp # NoView
    /\ rlp' = at(rlp, i).view
    /\ UNCHANGED <<stream, written, calls>>

ItemCount ==
    /\ rlp # NoView
    /\ rlp' = item_count(rlp).view
    /\ UNCHANGED <<stream, written, calls>>

Next ==
    \/ \E x \in StreamValues : Append_(x)
    \/ \E n \in 0..MaxLen : BeginList(n)
    \/ BeginUnboundedList
    \/ CompleteUnboundedList
    \/ AppendEmptyData
    \/ \E p \in RawPairs : AppendRaw(p[1], p[2]) \/ AppendRawChecked(p[1])
    \/ Clear
    \/ Out
    \/ \E i \in 0..(MaxLen + 1) : At(i)
    \/ ItemCount

Spec == Init /\ [][Next]_vars
-------------------------------------------------------------------------------
(* Properties. *)

(* The encoding of a value by its definition, from the inside out. *)
Header(base, n) == IF n < 56 THEN <<base + n>>
                   ELSE <<base + 55 + Len(BigEndian(n))>> \o BigEndian(n)
RECURSIVE Encoding(_)
Encodings(v) == FlattenSeq([i \in DOMAIN v |-> Encoding(v[i])])
Encoding(x) ==
    IF x.t = "wrapper" THEN Encoding(x.v)
    ELSE IF IsListType(x) THEN Header(192, Len(Encodings(x.v))) \o Encodings(x.v)
    ELSE LET b == ValueBytes(x)
         IN  IF Len(b) = 1 /\ b[1] < 128 THEN b ELSE Header(128, Len(b)) \o b

(* The types.  A list is open as long as it lacks items, and counts them.  *)
TypeOK ==
    /\ stream.buffer \in Bytes
    /\ calls \in 0..MaxCalls
    /\ Len(written) = Len(stream.lists) + 1
    /\ \A i \in DOMAIN stream.lists :
         /\ stream.lists[i].current < stream.lists[i].max
         /\ stream.lists[i].position \in 1..Len(stream.buffer)

(* The bytes are the encodings of the items, whatever the calls that wrote *)
(* them: values, lists in lists that end at the same time, empty lists at  *)
(* the end of a list, raw parts; headers that grow move what is behind     *)
(* them and nothing else.  Bytes of open lists have one byte for a header. *)
WritesEncodings ==
    stream.buffer = FlattenSeq([i \in DOMAIN written |->
        (IF i = 1 THEN <<>> ELSE <<0>>) \o Encodings(written[i].items)])

(* The list that a stream of one open list after another would become.     *)
RECURSIVE Folded(_)
Folded(stack) ==
    IF Len(stack) = 1 THEN Encodings(stack[1].items)
    ELSE Folded(Append(SubSeq(stack, 1, Len(stack) - 2),
                       [stack[Len(stack) - 1] EXCEPT
                          !.items = Append(@, Struct(Last(stack).items))]))

(* "Calculate total RLP size for appended payload": the size is exact with *)
(* one open list, and never too large.  With more it can be too small: the *)
(* header of an inner list is not counted among the bytes of the outer.    *)
EstimatesSize ==
    LET room == Len(Folded(written)) - estimate_size(stream, 0)
    IN  room \in 0..Max({0, Len(stream.lists) - 1})

(* A derived wrapper is encoded as what it wraps and counts as one item in *)
(* a list ("Appends value to the end of stream, but do not count it as an  *)
(* appended item. It's useful for wrapper types", of append_internal): a   *)
(* list has as many items as were appended to it.                          *)
WrapperCountsOnce ==
    /\ Len(written) = Len(stream.lists) + 1
    /\ \A i \in DOMAIN stream.lists : stream.lists[i].current = Len(written[i + 1].items)

Item == LET x == written[1].items[1] IN IF x.t = "wrapper" THEN x.v ELSE x

(* at answers with the item asked for, or an error past the last, after    *)
(* any sequence of calls that moved the offset cache; the counts, and the  *)
(* reader that unwraps (rlpin.rs), agree.                                  *)
ReadsItems ==
    rlp # NoView =>
      LET n == IF IsListType(Item) THEN Len(Item.v) ELSE 0
      IN  /\ \A i \in 0..(n + 1) :
               /\ IsOk(at(rlp, i).item) <=> i < n
               /\ i < n => trusted_at(rlp, i) = Encoding(Item.v[i + 1])
          /\ trusted_prototype(rlp) =
               IF IsListType(Item) THEN <<"List", n>>
                                   ELSE <<"Data", Len(ValueBytes(Item))>>
          /\ trusted_item_count(rlp) = n /\ Len(trusted_iter(rlp)) = n
          /\ trusted_data(rlp.bytes) = IF IsListType(Item) THEN Encodings(Item.v)
                                                           ELSE ValueBytes(Item)

(* Every type reads what it has written, derived structures included, and  *)
(* what an unsigned integer has written is an integer.                     *)
DecodesBack ==
    rlp # NoView =>
        /\ decode(TypeOf(written[1].items[1]), rlp.bytes) = Ok(written[1].items[1])
        /\ Item.t = "uint" => is_int(rlp.bytes)

(* An item that is cut short is refused: as data, as any of its items, and *)
(* as an integer or bytes.  Its iterator ends at once, so that a list that *)
(* is cut short has the item count of an empty one.                        *)
RefusesCut ==
    rlp # NoView /\ rlp = View(rlp.bytes) =>
        \A n \in 0..(Len(rlp.bytes) - 1) :
            LET cut == SubSeq(rlp.bytes, 1, n)
            IN  /\ ~IsOk(data(cut))
                /\ ~IsOk(at(View(cut), 0).item)
                /\ ~IsOk(decode([t |-> "bytes"], cut))
                /\ item_count(View(cut)).count \in {Ok(0), Err("RlpExpectedToBeList")}

(* An integer has one encoding: bytes that are accepted begin with what    *)
(* the integer is written as ("Non-canonical (longer than necessary)       *)
(* representation used", RlpInvalidIndirection).  The exception is the     *)
(* long form, accepted for values that have a short one.                   *)
OneEncoding(b) ==
    LET r == decode([t |-> "uint", size |-> 2], b)
    IN  IsOk(r) => IsPrefix(Encoding(r.ok), b)
===============================================================================
