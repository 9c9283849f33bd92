------------------------------ MODULE MCLibraries ------------------------------
(* The libraries around the stores and the tries, which share no state:    *)
(* `part` is the one a behaviour is about.  Those without state of their   *)
(* own are called, with inputs from small sets, by `call`.                 *)
EXTENDS NodeCodec, Receipts, Libraries

CONSTANTS
    \* Uint
    ByteBase, LimbBytes,
    \* JsonInput
    Failed, JsonNull

VARIABLES
    part, call

Words == INSTANCE Uint
Abi == INSTANCE AbiToken
Buffers == INSTANCE ByteUtils
Json == INSTANCE JsonInput WITH Null <- JsonNull

hash_vars == <<hasher, key, fed>>
trie_vars == <<spec, raw, aux, contents>>
account_vars == <<factory, db, refs>>
logger_vars == <<installed, stored, dummy_done, pc, mine, result, late, setups, line,
                 has_file, file, lost, ring, appended>>
store_vars == <<dbs, files, mock, kept, writes, opens>>
arena_vars == <<storage, root_handle, hand, committing, failed>>
lib_vars == <<part, call, vars, hash_vars, trie_vars, account_vars, logger_vars, store_vars,
              arena_vars>>
-------------------------------------------------------------------------------
(* rlp: a value of every type; bytes that with a few others make a payload *)
(* of 55, 56 and more than 255 bytes; nested lists that end together.      *)
Filled(n) == Octets([i \in 1..n |-> 200])
U16 == [t |-> "uint", size |-> 2]
MCValues ==
    {Uint(2, 0), Uint(2, 128), Uint(2, 300), Bool(FALSE),
     Octets(<<0>>), Filled(54), Filled(198),
     Option(U16, <<>>), Option(U16, <<Uint(2, 1)>>),
     Struct(<<Uint(2, 7), Vec(U16, <<Uint(2, 1), Uint(2, 0)>>), HashOf(<<9, 9>>),
              Option(U16, <<>>)>>),
     Wrapper(Uint(2, 300))}
MCRawPairs == {<<Uint(2, 300), Option(U16, <<>>)>>, <<Filled(198), Filled(54)>>}

(* Bytes that are, or almost are, the encoding of an integer. *)
Integers_ == UNION {[1..n -> {0, 1, 127, 128, 129, 130, 183, 192, 255}] : n \in 1..4}

MCKeys == {<<>>, <<91>>}

(* Addresses that differ in the bits that are mixed into a key, nodes that *)
(* differ in the ones that are not.                                        *)
MCAddresses == {[rest |-> <<0, 1>>], [rest |-> <<1, 1>>]}
MCNodes == {[prefix |-> 1, rest |-> <<0, 0>>], [prefix |-> 2, rest |-> <<0, 1>>]}

(* Two databases and a name that is none; keys that are each other's       *)
(* prefix or shorter than a prefix; a key written twice in a transaction.  *)
MCStoreKeys == {<<1>>, <<1, 2>>, <<2>>}
MCPrefixes == {<<>>, <<0, 1>>, <<1>>, <<1, 2>>, <<1, 3>>}
MCTransactions ==
    {<< <<"blocks", k, x>> >> : k \in MCStoreKeys, x \in {1, 2, Deleted}}
    \cup {<< <<"blocks", <<1>>, 1>>, <<"nowhere", <<1>>, 1>>,
             <<"blocks", <<1>>, Deleted>>, <<"state", <<2>>, 2>> >>}
-------------------------------------------------------------------------------
(* Uint: limbs at both ends of their range. *)
Limbs == {0, 1, Words!B - 1}
Numbers == [0..3 -> Limbs]

(* AbiToken: what can stand in front of the last token, with bytes that    *)
(* are tags or lengths elsewhere, and arrays, which are last.              *)
Front_ == {[kind |-> "UCHAR", v |-> 33], [kind |-> "BOOL", v |-> TRUE],
           [kind |-> "INT8", v |-> -1], [kind |-> "INT16", v |-> 258],
           [kind |-> "INT32", v |-> -2], [kind |-> "STRING", v |-> <<>>],
           [kind |-> "STRING", v |-> <<1, 33>>], [kind |-> "STRING", v |-> <<33, 0, 1, 1>>],
           [kind |-> "STRING", v |-> [i \in 1..11 |-> 1]],
           [kind |-> "METHOD", v |-> [i \in 1..11 |-> 1]],
           [kind |-> "ADDRESS", v |-> [i \in 1..32 |-> 34]]}
Last_ == {[kind |-> "ABOOL", v |-> <<TRUE, FALSE>>], [kind |-> "AINT16", v |-> <<1, -1>>],
          [kind |-> "AUCHAR", v |-> <<>>], [kind |-> "AINT64", v |-> <<-3>>]}
AbiCalls == {<<>>} \cup {<<x>> : x \in Front_ \cup Last_}
            \cup {<<x, y>> : x \in Front_, y \in Front_ \cup Last_}

(* ByteUtils: buffers shorter and longer than what is written to them, and *)
(* all words of four bytes.                                                *)
BytesRefs == {Buffers!Flexible([i \in 1..n |-> 1]) : n \in 0..3}
             \cup {Buffers!Fixed([i \in 1..n |-> 1]) : n \in 0..3}
Portions == {<<>>, <<2>>, <<3, 4>>}
Halves == -((ByteBase ^ 4) \div 2) .. ((ByteBase ^ 4) \div 2) - 1

(* NibbleSlice: bytes whose nibbles differ, up to two, at every offset. *)
Slices == {NS!new_offset(d, o) : d \in UNION {[1..n -> {18, 240}] : n \in 0..2}, o \in 0..4}
SlicesInside == {s \in Slices : s.offset <= 2 * Len(s.data)}

(* Nodes: values of 1, 20 and 40 bytes; a node's reference is missing, a   *)
(* hash, or a short leaf.                                                  *)
NodeValues == {<<7>>} \cup {[i \in 1..n |-> 9] : n \in {20, 40}}
HashRef == <<160>> \o [i \in 1..32 |-> 3]
ShortLeaf == [tag |-> "Leaf", slice |-> NS!new_offset(<<18>>, 0), value |-> <<7>>]
Refs == {<<128>>, HashRef, NodeEncoded(ShortLeaf)}
NodeInputs ==
    {[tag |-> "Empty"]}
    \cup [tag : {"Leaf"}, slice : SlicesInside, value : NodeValues]
    \cup [tag : {"Extension"}, slice : {s \in SlicesInside : NS!len(s) > 0},
          child : Refs \ {<<128>>}]
    \cup {[tag |-> "Branch", value |-> v,
           children |-> [i \in 1..16 |-> IF i = 1 THEN x ELSE IF i = 16 THEN y
                                         ELSE IF i \in 2..n THEN HashRef ELSE <<128>>]] :
           v \in NodeValues \cup {NoBytes}, x \in Refs, y \in Refs, n \in {1, 2, 8}}

(* The same node for the model of the trie, which counts its bytes. *)
Trie == INSTANCE TrieNodes WITH
            Nibbles <- 0..15, Entries <- {}, NoValue <- NoBytes,
            ValueLen <- [v \in NodeValues |-> Len(encode_value(<<>>, v))]
Reference_(raw_) == CASE raw_ = <<128>> -> Trie!Absent
                      [] raw_ = HashRef -> Trie!Hash(Trie!Empty)
                      [] OTHER -> Trie!Leaf(NS!Nibbles(ShortLeaf.slice), ShortLeaf.value)
TrieNode(node) ==
    CASE node.tag = "Empty" -> Trie!Empty
      [] node.tag = "Leaf" -> Trie!Leaf(NS!Nibbles(node.slice), node.value)
      [] node.tag = "Extension" ->
            Trie!Extension(NS!Nibbles(node.slice), Reference_(node.child))
      [] node.tag = "Branch" ->
            Trie!Branch([i \in 0..15 |-> Reference_(node.children[i + 1])], node.value)

(* JsonInput: texts with and without 0x, of digits at both ends of their   *)
(* range, decimal ones and a letter that is none; elements with two        *)
(* spellings of the keys "a" and 10, and null in either place.             *)
Texts == {Json!Text(p, body) : p \in BOOLEAN, body \in UNION {[1..n -> {0, 9, 15, 16}] : n \in 0..5}}
Elements == {<<k, v>> : k \in {Json!Text(FALSE, <<10>>), Json!Text(TRUE, <<6, 1>>),
                               Json!Text(TRUE, <<10>>), JsonNull},
                       v \in {Json!Text(FALSE, <<1>>), Json!Text(TRUE, <<2>>), JsonNull}}
            \cup {<<JsonNull>>}
Dictionary == [k \in {<<97>>, <<10>>} |-> <<0>>]

(* Receipts: two addresses and two topics, whose hashes share bits.        *)
Word(n) == [i \in 1..32 |-> n]
MCHashBytes == (Word(1) :> <<0, 1, 0, 2, 7, 255>>) @@ (Word(2) :> <<0, 1, 8, 3, 0, 4>>)
               @@ (Word(11) :> <<0, 2, 0, 5, 255, 255>>) @@ (Word(12) :> <<7, 255, 0, 4, 0, 3>>)
LogEntries == {[address |-> a, topics |-> t, data |-> <<>>] :
                 a \in {Word(1), Word(2)},
                 t \in {<<>>, <<Word(11)>>, <<Word(12), Word(11)>>}}
ReceiptInputs == {NewReceipt(Word(5), 300, 7, logs, <<1, 2>>, <<65>>) :
                    logs \in {<<>>} \cup {<<l>> : l \in LogEntries}
                             \cup {<<l, m>> : l, m \in LogEntries}}
Topics == {<<>>, << <<>> >>, << <<Word(11)>> >>, << <<Word(12), Word(11)>> >>}
Filters == {[address |-> a, topics |-> <<t, u, <<>>, <<>> >>] :
              a \in {<<>>, << <<>> >>, << <<Word(1)>> >>, << <<Word(2), Word(1)>> >>},
              t \in Topics, u \in Topics}
-------------------------------------------------------------------------------
NoCall == [of |-> "none"]

Inputs ==
    [of : {"decode"}, bytes : Integers_]
    \cup [of : {"mul"}, a : Numbers, b : Numbers]
    \cup [of : {"abi"}, tokens : AbiCalls]
    \cup [of : {"write"}, ref : BytesRefs, offset : 0..4, a : Portions, b : Portions]
    \cup [of : {"words"}, a : Halves, b : Halves]
    \cup [of : {"text"}, text : Texts]
    \cup [of : {"input"}, elements : UNION {[1..n -> Elements] : n \in 0..3}]
    \cup [of : {"slices"}, a : SlicesInside, b : SlicesInside]
    \cup [of : {"node"}, node : NodeInputs]
    \cup [of : {"receipt"}, receipt : ReceiptInputs]
    \cup [of : {"search"}, receipt : ReceiptInputs, filter : Filters]

Call == call = NoCall /\ call' \in Inputs
Return == call # NoCall /\ call' = NoCall

LibInit ==
    /\ part \in {"rlp", "blake2b", "tries", "accounts", "logger", "stores", "arena", "calls"}
    /\ call = NoCall
    /\ Init /\ Hasher!Init /\ Kinds!Init /\ Accounts!Init /\ Log!Init
    /\ Stores!Init /\ Arena!Init
    /\ part # "tries" => spec = Kinds!Generic
    /\ part # "accounts" => factory = Accounts!Plain

LibNext ==
    /\ UNCHANGED part
    /\ \/ part = "rlp" /\ Next
          /\ UNCHANGED <<hash_vars, trie_vars, account_vars, logger_vars, store_vars, arena_vars, call>>
       \/ part = "blake2b" /\ Hasher!Next
          /\ UNCHANGED <<vars, trie_vars, account_vars, logger_vars, store_vars, arena_vars, call>>
       \/ part = "tries" /\ Kinds!Next
          /\ UNCHANGED <<vars, hash_vars, account_vars, logger_vars, store_vars, arena_vars, call>>
       \/ part = "accounts" /\ Accounts!Next
          /\ UNCHANGED <<vars, hash_vars, trie_vars, logger_vars, store_vars, arena_vars, call>>
       \/ part = "logger" /\ Log!Next
          /\ UNCHANGED <<vars, hash_vars, trie_vars, account_vars, store_vars, arena_vars, call>>
       \/ part = "stores" /\ Stores!Next
          /\ UNCHANGED <<vars, hash_vars, trie_vars, account_vars, logger_vars, arena_vars, call>>
       \/ part = "arena" /\ Arena!Next
          /\ UNCHANGED <<vars, hash_vars, trie_vars, account_vars, logger_vars, store_vars, call>>
       \/ part = "calls" /\ (Call \/ Return)
          /\ UNCHANGED <<vars, hash_vars, trie_vars, account_vars, logger_vars, store_vars,
                       arena_vars>>

LibSpec == LibInit /\ [][LibNext]_lib_vars
-------------------------------------------------------------------------------
(* The properties of the parts that Libraries does not have. *)

(* RlpStream: whatever the calls, the stream has the encodings of what was *)
(* appended, knows which lists are open, and keeps to a limit on its size. *)
StreamsWrite == TypeOK /\ WritesEncodings /\ EstimatesSize

(* Rlp: what a stream gave out is read back, item by item and as a value,  *)
(* is refused when it is cut short, and an integer has one encoding.       *)
StreamsRead ==
    /\ ReadsItems
    /\ DecodesBack
    /\ RefusesCut
    /\ call.of = "decode" => OneEncoding(call.bytes)

(* Conversions lose nothing: products of 256-bit numbers and their         *)
(* narrowing; the bytes of a contract's call; output that is written in    *)
(* portions; words and their bytes; texts and inputs of JSON files.        *)
ConversionsExact ==
    CASE call.of = "mul" -> Words!MulExact(call.a, call.b) /\ Words!ConversionsExact(call.a, call.b)
      [] call.of = "abi" -> Abi!Unambiguous(call.tokens, AbiCalls)
      [] call.of = "write" -> Buffers!PortionsJoin(call.ref, call.offset, call.a, call.b)
      [] call.of = "words" -> Buffers!WordsReadBack(call.a, call.b)
      [] call.of = "text" -> Json!ReadersAgree(call.text)
      [] call.of = "input" -> Json!InputReplays(Dictionary, call.elements)
      [] OTHER -> TRUE

(* NibbleSlice, NibbleVec and NodeCodec: views at any offset are their     *)
(* nibbles, as triehash writes them too; what was popped leaves no trace;  *)
(* a node is read as it was written, in the number of bytes with which the *)
(* model of the trie decides whether to inline it.                         *)
NodesReadBack ==
    /\ call.of = "slices" =>
        NS!SlicesExact(call.a, call.b) /\ NS!VecsExact(call.a, call.b)
        /\ NS!HashersAgree(call.a, call.b)
    /\ call.of = "node" => NodesExact(call.node, Trie!EncodedLen(TrieNode(call.node)))

(* Receipts are read back as written, in full and as simple ones, and a    *)
(* search by their blooms misses no log that a filter matches.             *)
ReceiptsFound ==
    /\ call.of = "receipt" => ReceiptsKept(call.receipt)
    /\ call.of = "search" => NoLogMissed(call.receipt, call.filter)
===============================================================================
