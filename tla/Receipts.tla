-------------------------------- MODULE Receipts --------------------------------
(***************************************************************************)
(* Logs, the blooms that stand for them in receipts, the filters that look *)
(* for them, and the encoding of receipts (ethbloom/src/lib.rs and         *)
(* log_entry.rs, filter.rs, receipt.rs of common_types).                   *)
(*                                                                         *)
(* A bloom is the set of its bits <<byte, bit>>.  Addresses and topics are *)
(* bytes; a log is [address, topics, data]; an Option is none or one value *)
(* in a sequence.                                                          *)
(***************************************************************************)
EXTENDS RlpStream

CONSTANTS
    BLOOM_SIZE,
    HashBytes       \* blake2b of an address or a topic: its first bytes

BLOOM_BITS == 3
log2(x) == IF x <= 1 THEN 0 ELSE CHOOSE n \in 1..x : 2^(n - 1) <= x /\ x < 2^n

(* The last bytes of the bloom are the low ones. *)
BitOf(index) == LET i == index % (BLOOM_SIZE * 8)
                IN  <<BLOOM_SIZE - 1 - i \div 8, i % 8>>

(* accrue: three bits, from as many bytes of the hash as an index needs. *)
accrue(bloom, input) ==
    LET bytes == (log2(BLOOM_SIZE * 8) + 7) \div 8
        index(i) == FromBigEndian(SubSeq(HashBytes[input], i * bytes + 1, (i + 1) * bytes))
    IN  bloom \cup {BitOf(index(i)) : i \in 0..(BLOOM_BITS - 1)}

NoBits == {}
FromInput(input) == accrue(NoBits, input)
contains_bloom(self, bloom) == bloom \subseteq self
contains_input(self, input) == contains_bloom(self, FromInput(input))
accrue_bloom(self, bloom) == self \cup bloom
is_empty_bloom(self) == self = NoBits

(* The array of bytes. *)
BloomBytes(bloom) ==
    [n \in 1..BLOOM_SIZE |-> FoldSet(LAMBDA b, sum : sum + 2^b[2], 0,
                                     {b \in bloom : b[1] = n - 1})]

(* LogEntry::bloom *)
LogBloom(log) == FoldLeft(accrue, FromInput(log.address), log.topics)

(* Mutant: the bloom of a receipt is that of its last log. *)
LogsBloomLast(logs) == FoldLeft(LAMBDA b, log : LogBloom(log), NoBits, logs)

LogsBloom(logs) == FoldLeft(LAMBDA b, log : accrue_bloom(b, LogBloom(log)), NoBits, logs)
-------------------------------------------------------------------------------
(* Filter *)

Panic4 == "panic: index out of bounds"

(* clone takes four topics, as many as a filter has. *)
Cloned(f) == IF Len(f.topics) < 4 THEN Panic4 ELSE [f EXCEPT !.topics = SubSeq(@, 1, 4)]

Given(option) == option # <<>> /\ option[1] # <<>>

(* Combinations of the addresses and one of every position's topics. *)
bloom_possibilities(f) ==
    FoldLeft(LAMBDA bs, topic : IF topic = <<>> THEN bs
                                ELSE {accrue(b, t) : b \in bs, t \in Range(topic[1])},
             IF Given(f.address) THEN {FromInput(a) : a \in Range(f.address[1])} ELSE {NoBits},
             f.topics)

matches(f, log) ==
    /\ Given(f.address) => log.address \in Range(f.address[1])
    /\ \A i \in DOMAIN f.topics :
         Given(f.topics[i]) => /\ i <= Len(log.topics)
                               /\ log.topics[i] \in Range(f.topics[i][1])
-------------------------------------------------------------------------------
(* Receipts *)

(* SimpleReceipt::new, Receipt::new *)
NewSimpleReceipt(state_root, logs) ==
    [state_root |-> state_root, log_bloom |-> LogsBloom(logs), logs |-> logs]
NewReceipt(state_root, gas_used, transaction_fee, logs, output, error_message) ==
    [simple_receipt |-> NewSimpleReceipt(state_root, logs), output |-> output,
     gas_used |-> gas_used, error_message |-> error_message,
     transaction_fee |-> transaction_fee]

H256(v) == HashOf(v)
H256Type == [t |-> "hash", size |-> 32]
U256(v) == Uint(32, v)

(* LogEntry derives its encoding. *)
LogValue(log) ==
    Struct(<<H256(log.address), Vec(H256Type, [i \in DOMAIN log.topics |-> H256(log.topics[i])]),
             Octets(log.data)>>)
LogType == [t |-> "struct", of |-> <<H256Type, [t |-> "vec", of |-> H256Type], [t |-> "bytes"]>>]

SimpleFields(r) == <<H256(r.state_root), HashOf(BloomBytes(r.log_bloom)),
                     Vec(LogType, [i \in DOMAIN r.logs |-> LogValue(r.logs[i])])>>

(* Mutant: gas and message in the other order. *)
ReceiptFieldsSwapped(r) ==
    SimpleFields(r.simple_receipt) \o <<Octets(r.output), Octets(r.error_message), U256(r.gas_used)>>

ReceiptFields(r) ==
    SimpleFields(r.simple_receipt) \o <<Octets(r.output), U256(r.gas_used), Octets(r.error_message)>>

Encoded(fields) == append(NewStream, Struct(fields)).buffer

SimpleTypes == <<H256Type, [t |-> "hash", size |-> BLOOM_SIZE], [t |-> "vec", of |-> LogType]>>
ReceiptTypes == SimpleTypes \o <<[t |-> "bytes"], [t |-> "uint", size |-> 32], [t |-> "bytes"]>>

LogOf(value) ==
    [address |-> value.v[1].v, topics |-> [i \in DOMAIN value.v[2].v |-> value.v[2].v[i].v],
     data |-> value.v[3].v]
BitsOf(bytes) == {b \in (0..(Len(bytes) - 1)) \X (0..7) : (bytes[b[1] + 1] \div 2^b[2]) % 2 = 1}
SimpleOf(v) ==
    [state_root |-> v[1].v, log_bloom |-> BitsOf(v[2].v),
     logs |-> [i \in DOMAIN v[3].v |-> LogOf(v[3].v[i])]]

DecodedSimple(bytes) == AndThen(DecodeStruct(SimpleTypes, bytes), LAMBDA s : Ok(SimpleOf(s.v)))

(* The fee is not part of the encoding. *)
DecodedReceipt(bytes) ==
    AndThen(DecodeStruct(ReceiptTypes, bytes), LAMBDA s :
        Ok([simple_receipt |-> SimpleOf(s.v), output |-> s.v[4].v, gas_used |-> s.v[5].v,
            error_message |-> s.v[6].v, transaction_fee |-> 0]))
-------------------------------------------------------------------------------
(* A search by blooms misses no log: if a log of a receipt matches a       *)
(* filter, the bloom of the receipt has one of the filter's possibilities, *)
(* also if hashes share bits.  The exception is a filter with an empty     *)
(* list of topics at a position: all logs match there, but it has no       *)
(* possibilities at all.                                                   *)
NoLogMissed(receipt, f) ==
    LET clone == Cloned(f)
        some_empty == \E i \in DOMAIN f.topics : f.topics[i] = << <<>> >>
    IN  /\ clone = f
        /\ bloom_possibilities(f) = {} <=> some_empty
        /\ \A log \in Range(receipt.simple_receipt.logs) :
             matches(clone, log) /\ ~some_empty =>
                \E b \in bloom_possibilities(clone) :
                    contains_bloom(receipt.simple_receipt.log_bloom, b)
        /\ is_empty_bloom(receipt.simple_receipt.log_bloom) <=> receipt.simple_receipt.logs = <<>>

(* A receipt is read back as it was written, but for the fee, which is 0;  *)
(* what is written for storage can be read as a simple receipt, for        *)
(* syncing; a simple receipt is no receipt.  What the bloom in it has been *)
(* given it contains.                                                      *)
ReceiptsKept(receipt) ==
    LET full == Encoded(ReceiptFields(receipt))
        simple == Encoded(SimpleFields(receipt.simple_receipt))
    IN  /\ DecodedReceipt(full) = Ok([receipt EXCEPT !.transaction_fee = 0])
        /\ DecodedSimple(full) = Ok(receipt.simple_receipt)
        /\ DecodedSimple(simple) = Ok(receipt.simple_receipt)
        /\ ~IsOk(DecodedReceipt(simple))
        /\ \A log \in Range(receipt.simple_receipt.logs) :
             \A input \in {log.address} \cup Range(log.topics) :
                contains_input(SimpleOf(DecodeStruct(SimpleTypes, full).ok.v).log_bloom, input)
===============================================================================
