------------------------------- MODULE TrieKinds -------------------------------
(***************************************************************************)
(* The tries a TrieFactory makes (patricia_trie/src/lib.rs): generic ones, *)
(* secure ones, whose keys are hashed, and fat ones, which keep the key    *)
(* behind every hash in the database as well.  The trie itself is the      *)
(* dictionary that TrieDBMut is shown to be; hashes do not collide.        *)
(***************************************************************************)
EXTENDS MemoryDB, FiniteSets

CONSTANTS
    TrieKeys,   \* keys
    TrieValues, \* values that are not empty
    EmptyValue, \* the empty value
    None,       \* no value
    MaxAux      \* bound on the count of an auxiliary entry

Generic == "Generic"
Secure == "Secure"
Fat == "Fat"

VARIABLES
    spec,       \* TrieFactory.spec
    raw,        \* the dictionary of the raw trie, by raw keys
    aux,        \* the auxiliary entries of the database, by the hashed key
    contents    \* ghost: the dictionary by keys

vars == <<spec, raw, aux, contents>>

blake2b(x) == [hash_of |-> x]

(* The key of the raw trie. *)
RawKey(k) == IF spec = Generic THEN k ELSE blake2b(k)
RawKeys == {RawKey(k) : k \in TrieKeys}

(* TrieDBMut::insert, where the empty value removes, and remove: both give *)
(* the old value.                                                          *)
RawInserted(k, v) == [raw EXCEPT ![RawKey(k)] = IF v = EmptyValue THEN None ELSE v]
Old(k) == raw[RawKey(k)]

Init ==
    /\ spec \in {Generic, Secure, Fat}
    /\ raw = [r \in RawKeys |-> None]
    /\ aux = EmptyOver({blake2b(blake2b(k)) : k \in TrieKeys})
    /\ contents = [k \in TrieKeys |-> None]

to_aux_key(k) == blake2b(blake2b(k))

(* FatDBMut::insert: the key goes to the database if the trie had no value *)
(* for it, also if it is the empty value that is inserted.                 *)
Insert(k, v) ==
    /\ raw' = RawInserted(k, v)
    /\ contents' = [contents EXCEPT ![k] = IF v = EmptyValue THEN None ELSE v]
    /\ Count(aux[to_aux_key(k)]) < MaxAux
    /\ aux' = IF spec = Fat /\ Old(k) = None
              THEN [aux EXCEPT ![to_aux_key(k)] = EmplaceEntry(@, k)] ELSE aux
    /\ UNCHANGED spec

(* Mutant: the entry goes whether or not there was a value. *)
RemovesAuxAlways(k) == TRUE

RemovesAux(k) == Old(k) # None

Remove(k) ==
    /\ raw' = [raw EXCEPT ![RawKey(k)] = None]
    /\ contents' = [contents EXCEPT ![k] = None]
    /\ aux' = IF spec = Fat /\ RemovesAux(k)
              THEN [aux EXCEPT ![to_aux_key(k)] = RemoveEntry(@)] ELSE aux
    /\ UNCHANGED spec

Next == \E k \in TrieKeys : Remove(k) \/ \E v \in TrieValues \union {EmptyValue} : Insert(k, v)

Spec == Init /\ [][Next]_vars
-------------------------------------------------------------------------------
(* Readers. *)

get(k) == raw[RawKey(k)]
contains(k) == get(k) # None
is_empty == \A r \in DOMAIN raw : raw[r] = None
is_fat == spec = Fat

Panic == "panic: Missing fatdb hash"

(* FatDBIterator::next turns the hash an item has into the key behind it. *)
ItemKey(r) ==
    IF is_fat THEN LET e == aux[blake2b(r)] IN IF Contains(e) THEN e.val ELSE Panic
    ELSE r
iter == {<<ItemKey(r), raw[r]>> : r \in {r \in DOMAIN raw : raw[r] # None}}

(* Every kind reads as the dictionary, and "is_fat: allows enumeration of  *)
(* keys": a fat trie gives every key with its value, after any sequence of *)
(* insertions, empty ones included, and removals, of keys that are there   *)
(* or not; a secure one gives the hashes.                                  *)
KindsAgree ==
    /\ \A k \in TrieKeys : get(k) = contents[k] /\ contains(k) = (contents[k] # None)
    /\ is_empty <=> \A k \in TrieKeys : contents[k] = None
    /\ iter = {<<IF spec = Secure THEN blake2b(k) ELSE k, contents[k]>> :
                 k \in {k \in TrieKeys : contents[k] # None}}

(* What this rests on: the map of the database can tell a vacant slot.     *)
KindsAssumption == NoEntry \notin Entry(TrieKeys)
===============================================================================
