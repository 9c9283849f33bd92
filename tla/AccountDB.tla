------------------------------- MODULE AccountDB -------------------------------
(***************************************************************************)
(* AccountDB (accounts/src/account_db.rs): the storage tries of all        *)
(* accounts in one reference-counted database, each under keys that have   *)
(* the hash of the account's address mixed in.                             *)
(*                                                                         *)
(* A key is [prefix, rest], the first 12 bytes and the others, as bits.    *)
(***************************************************************************)
EXTENDS MemoryDB, FiniteSets

CONSTANTS
    Addresses,      \* hashes of addresses
    Nodes,          \* keys of trie nodes; the value of a node is the node
    MaxRefs         \* bound on the counts

Null == [prefix |-> 0, rest |-> <<>>]   \* BLAKE2B_NULL_RLP, the key of the empty trie
Mangled == "Mangled"
Plain == "Plain"

VARIABLES
    factory,    \* Factory::Mangled or Plain
    db,         \* the backing database
    refs        \* ghost: what each account has inserted less removed

vars == <<factory, db, refs>>

Xor(a, b) == [i \in DOMAIN a |-> (a[i] + b[i]) % 2]

(* Mutant: the keys of all accounts are the same. *)
combine_key_plain(address_hash, key) == key

combine_key(address_hash, key) == [key EXCEPT !.rest = Xor(@, address_hash.rest)]

(* Factory: the key in the backing database. *)
BackingKey(a, key) == IF factory = Mangled THEN combine_key(a, key) ELSE key

BackingKeys == Nodes \union {combine_key(a, n) : a \in Addresses, n \in Nodes}

Init ==
    /\ factory \in {Mangled, Plain}
    /\ db = EmptyOver(BackingKeys)
    /\ refs = [a \in Addresses |-> [n \in Nodes |-> 0]]

(* insert and emplace.  The empty node is not stored. *)
Insert(a, n) ==
    IF n = Null THEN UNCHANGED <<factory, db, refs>>
    ELSE /\ refs[a][n] < MaxRefs
         /\ db' = [db EXCEPT ![BackingKey(a, n)] = EmplaceEntry(@, n)]
         /\ refs' = [refs EXCEPT ![a][n] = @ + 1]
         /\ UNCHANGED factory

Remove(a, n) ==
    IF n = Null THEN UNCHANGED <<factory, db, refs>>
    ELSE /\ refs[a][n] > -MaxRefs
         /\ db' = [db EXCEPT ![BackingKey(a, n)] = RemoveEntry(@)]
         /\ refs' = [refs EXCEPT ![a][n] = @ - 1]
         /\ UNCHANGED factory

Next == \E a \in Addresses, n \in Nodes \union {Null} : Insert(a, n) \/ Remove(a, n)

Spec == Init /\ [][Next]_vars
-------------------------------------------------------------------------------
NotFound == [prefix |-> -1]

get(a, n) ==
    IF n = Null THEN Null
    ELSE LET e == db[BackingKey(a, n)] IN IF Contains(e) THEN e.val ELSE NotFound
contains(a, n) == n = Null \/ Contains(db[BackingKey(a, n)])

(* How often a node is referenced by an account, or by all of them.        *)
Surplus(r, n) == Cardinality({x \in Addresses \X (1..MaxRefs) : x[2] <= r[x[1]][n]})
Missing(r, n) == Cardinality({x \in Addresses \X (1..MaxRefs) : x[2] <= -r[x[1]][n]})
Referenced(a, n) == IF factory = Mangled THEN refs[a][n]
                    ELSE Surplus(refs, n) - Missing(refs, n)

(* "combines a key with an address hash to ensure uniqueness": what one    *)
(* account removes is never taken from another that has a node with the    *)
(* same content, and none finds a node it has not got; with plain keys     *)
(* they share their nodes and the counts.  The empty node is always there. *)
(* A node keeps its first 12 bytes, for partial lookups.                   *)
AccountsApart ==
    \A a \in Addresses :
        /\ get(a, Null) = Null /\ contains(a, Null)
        /\ \A n \in Nodes :
             /\ contains(a, n) <=> Referenced(a, n) > 0
             /\ get(a, n) = IF Referenced(a, n) > 0 THEN n ELSE NotFound
             /\ BackingKey(a, n).prefix = n.prefix

(* What this rests on: hashes have one length, addresses differ in the     *)
(* bytes that are mixed into a key, and the keys of different nodes do not *)
(* collide, as the hashes they are made of do not.  The key of the empty   *)
(* node is no node's.                                                      *)
Bits(rest) == rest \in [DOMAIN rest -> {0, 1}]
AccountAssumption ==
    /\ IsFiniteSet(Addresses) /\ MaxRefs \in Nat
    /\ NoEntry \notin Entry(Nodes) /\ Null \notin Nodes
    /\ \A n \in Nodes : n = [prefix |-> n.prefix, rest |-> n.rest] /\ Bits(n.rest)
    /\ \A a \in Addresses : Bits(a.rest)
    /\ \A a \in Addresses, n \in Nodes : DOMAIN a.rest = DOMAIN n.rest
    /\ \A a, b \in Addresses : a.rest = b.rest => a = b
    /\ \A a, b \in Addresses, m, n \in Nodes :
         m # n => combine_key(a, m) # combine_key(b, n)
===============================================================================
