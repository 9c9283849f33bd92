-------------------------------- MODULE Account --------------------------------
(***************************************************************************)
(* One account of accounts/src: its storage, whose changes wait for a      *)
(* commit to the storage trie and whose committed values are cached, and   *)
(* its code, which is dirty until it is committed to the database.         *)
(*                                                                         *)
(* The code works on one Account value; what can go wrong is in its copies.*)
(* The state layer that uses the crate keeps a clean copy (base) from      *)
(* block to block, executes a block on a clone of it (work), saves clones  *)
(* of that one to go back to when a call fails (saved), and overwrites     *)
(* base with work when the block is done.                                  *)
(*                                                                         *)
(* A storage trie is canonical, so its root stands for its contents.  An   *)
(* FVMAccount has two caches and two maps of changes, for keys of two      *)
(* kinds; no key is used as both, so one of each is modelled.              *)
(***************************************************************************)
EXTENDS Integers, SequencesExt

CONSTANTS
    Keys,       \* storage keys
    Values,     \* storage values
    Zeros,      \* those that is_zero holds of: they are removed from the trie
    Padded,     \* those whose encoding keeps a leading zero byte: what an
                \* FVMAccount has at its Wide keys, if it is below 2^248
    Settable,   \* the values set at a key (a bound)
    Missing,    \* what a key that is not in the trie reads as
    Panic,      \* a read that does not return
    Unset,      \* no value
    Codes,      \* codes; a code stands for its hash and for its length too
    EmptyCode,  \* no bytes, with the hash BLAKE2B_EMPTY
    Unknown,    \* code_size is None
    NoAccount,
    CacheSize   \* STORAGE_CACHE_ITEMS

ASSUME ValueAssumption ==
    /\ Zeros \subseteq Values /\ Missing \in Zeros /\ Padded \subseteq Values \ Zeros
    /\ Settable \in [Keys -> SUBSET Values] /\ Panic \notin Values
    /\ Unset \notin Values \union [val : Values, padded : BOOLEAN]
    /\ EmptyCode \in Codes /\ Unknown \notin Codes
    /\ IsFiniteSet(Keys) /\ CacheSize \in Nat \ {0}

\* encode, for the storage trie.  An FVM value of a Normal key is encoded as the
\* number it is and one of the AVM as the bytes it has, but one of a Wide key as
\* all of its 32 bytes.
encode(v) == [val |-> v, padded |-> v \in Padded]

\* decode: the decoder of numbers that a Wide key is read with refuses a leading
\* zero byte, and decode unwraps its answer.
decode(rlp) == IF rlp.padded THEN Panic ELSE rlp.val

Roots == [Keys -> {encode(v) : v \in Values \ Zeros} \union {Unset}]
Entries == [key : Keys, val : Values]
AccountType ==
    [root : Roots, changes : [Keys -> Values \union {Unset}],
     cache : UNION {[1 .. n -> Entries] : n \in 0 .. CacheSize},
     hash : Codes, code : Codes, size : Codes \union {Unknown}, dirty : BOOLEAN]
Encodings == [root : Roots, hash : Codes]

ASSUME MarkerAssumption == NoAccount \notin AccountType \union Encodings

VARIABLES
    base,       \* the copy kept between blocks
    work,       \* the copy a block is executed on
    saved,      \* a copy of work to go back to
    stored,     \* the account's RLP in the state trie
    codeDb,     \* the codes in the database
    truth       \* history: for work and saved, what was last set

vars == <<base, work, saved, stored, codeDb, truth>>

\* No changes; an empty trie.  No cache.
EmptyCache == <<>>
Nothing == [k \in Keys |-> Unset]

\* new_basic (whose code size is known) and new_contract.
New(size) ==
    [root |-> Nothing, changes |-> Nothing, cache |-> EmptyCache,
     hash |-> EmptyCode, code |-> EmptyCode, size |-> size, dirty |-> FALSE]

\* from_rlp: nothing but the root and the code hash survive the encoding.
Decoded(rlp) ==
    [root |-> rlp.root, changes |-> Nothing, cache |-> EmptyCache,
     hash |-> rlp.hash, code |-> EmptyCode, size |-> Unknown, dirty |-> FALSE]

Encoded(a) == [root |-> a.root, hash |-> a.hash]

-------------------------------------------------------------------------------
(* The LRU cache: a sequence of entries, the least recently used first.    *)

Cached(cache, k) == {i \in DOMAIN cache : cache[i].key = k}
Slot(cache, k) == CHOOSE i \in Cached(cache, k) : TRUE

Without(cache, k) ==
    IF Cached(cache, k) = {} THEN cache ELSE RemoveAt(cache, Slot(cache, k))

\* Mutant: the least recently used entry stays when the cache is full.
TouchUnbounded(cache, k, v) == Append(Without(cache, k), [key |-> k, val |-> v])

\* LruCache::insert, and the move to the end that get_mut does.
Touch(cache, k, v) ==
    LET all == Append(Without(cache, k), [key |-> k, val |-> v])
    IN  IF Len(all) > CacheSize THEN Tail(all) ELSE all

\* The entries of other are inserted one by one.
Merge(cache, other) ==
    LET merged[n \in 0 .. Len(other)] ==
            IF n = 0 THEN cache
            ELSE Touch(merged[n - 1], other[n].key, other[n].val)
    IN  merged[Len(other)]

-------------------------------------------------------------------------------
(* The operations.                                                         *)

\* What was written to the trie, whether or not it can be read back.
InTrie(root, k) == IF root[k] = Unset THEN Missing ELSE root[k].val

\* What get_with makes of it.
FromTrie(root, k) == IF root[k] = Unset THEN Missing ELSE decode(root[k])

\* storage_at: the changes, the cache, the trie.
Answer(a, k) ==
    CASE a.changes[k] # Unset -> a.changes[k]
      [] a.changes[k] = Unset /\ Cached(a.cache, k) # {} ->
            a.cache[Slot(a.cache, k)].val
      [] OTHER -> FromTrie(a.root, k)

\* The AVM's set_storage, and the FVM's.
Changed(a, k, v) == [a EXCEPT !.changes[k] = v]

\* It leaves what it did not find among the changes at the end of the cache,
\* unless it panics.
Read(a, k) ==
    IF a.changes[k] # Unset \/ Answer(a, k) = Panic THEN a
    ELSE [a EXCEPT !.cache = Touch(@, k, Answer(a, k))]

\* Mutant: a value of zeros is not removed from the trie.
CommittedZerosLeft(a, order) ==
    [a EXCEPT !.root = [k \in Keys |->
                           IF a.changes[k] \in Zeros \union {Unset} THEN @[k]
                           ELSE encode(a.changes[k])],
              !.changes = Nothing,
              !.cache = Merge(@, [i \in DOMAIN order |->
                                     [key |-> order[i], val |-> a.changes[order[i]]]])]

\* Mutant: the values committed are not put into the cache.
CommittedCacheOld(a, order) ==
    [a EXCEPT !.root = [k \in Keys |->
                           CASE a.changes[k] = Unset -> @[k]
                             [] a.changes[k] \in Zeros -> Unset
                             [] OTHER -> encode(a.changes[k])],
              !.changes = Nothing]

\* commit_storage: the changes are drained, in the order of a hash map, into
\* the trie and into the cache.
Committed(a, order) ==
    [a EXCEPT !.root = [k \in Keys |->
                           CASE a.changes[k] = Unset -> @[k]
                             [] a.changes[k] \in Zeros -> Unset
                             [] OTHER -> encode(a.changes[k])],
              !.changes = Nothing,
              !.cache = Merge(@, [i \in DOMAIN order |->
                                     [key |-> order[i], val |-> a.changes[order[i]]]])]

Dirty(a) == {k \in Keys : a.changes[k] # Unset}
Clean(a) == Dirty(a) = {} /\ ~a.dirty

\* storage_root: None while there are changes.
storage_root(a) == IF Dirty(a) = {} THEN a.root ELSE Unset

\* code: None if there are no bytes.
code(a) == IF a.code = EmptyCode THEN Unset ELSE a.code

\* Mutant: the clone takes the code for committed.
CloneBasicForgets(a) == [a EXCEPT !.changes = Nothing, !.cache = EmptyCache, !.dirty = FALSE]

CloneBasic(a) == [a EXCEPT !.changes = Nothing, !.cache = EmptyCache]
CloneDirty(a) == [CloneBasic(a) EXCEPT !.changes = a.changes]
CloneAll(a) == [CloneDirty(a) EXCEPT !.cache = a.cache]

\* Mutant: the changes of other are added to those of self.
OverwriteKeeps(self, other) ==
    [other EXCEPT !.cache = Merge(self.cache, @),
                  !.changes = [k \in Keys |->
                      IF @[k] = Unset THEN self.changes[k] ELSE @[k]]]

\* overwrite_with: everything of other, and the entries of both caches.
Overwrite(self, other) == [other EXCEPT !.cache = Merge(self.cache, @)]

\* init_code, reset_code.
WithCode(a, c) == [a EXCEPT !.hash = c, !.code = c, !.size = c, !.dirty = TRUE]

\* commit_code.
CodeCommitted(a) == [a EXCEPT !.size = a.code, !.dirty = FALSE]

\* cache_code, which finds the code in the database or leaves the account alone.
IsCached(a) == a.code # EmptyCode \/ a.hash = EmptyCode

CodeCached(a) ==
    IF IsCached(a) \/ a.hash \notin codeDb THEN a
    ELSE [a EXCEPT !.code = a.hash, !.size = a.hash]

\* cache_code_size.
SizeCached(a) ==
    IF a.size # Unknown \/ a.hash = EmptyCode \/ a.hash \notin codeDb THEN a
    ELSE [a EXCEPT !.size = a.hash]

-------------------------------------------------------------------------------
Init ==
    /\ base = NoAccount
    /\ work = NoAccount
    /\ saved = NoAccount
    /\ stored = NoAccount
    /\ codeDb = {}
    /\ truth = [work |-> Nothing, saved |-> Nothing]

Contents(root) == [k \in Keys |-> InTrie(root, k)]

\* The account comes into being.
Create ==
    /\ work = NoAccount /\ stored = NoAccount
    /\ \E size \in {Unknown, EmptyCode} : work' = New(size)
    /\ truth' = [truth EXCEPT !.work = Contents(Nothing)]
    /\ UNCHANGED <<base, saved, stored, codeDb>>

\* It is read from the state trie.
Load ==
    /\ base = NoAccount /\ stored # NoAccount
    /\ base' = Decoded(stored)
    /\ UNCHANGED <<work, saved, stored, codeDb, truth>>

\* A block begins on some clone of it.
BeginBlock ==
    /\ work = NoAccount /\ base # NoAccount
    /\ work' \in {CloneBasic(base), CloneDirty(base), CloneAll(base)}
    /\ truth' = [truth EXCEPT !.work = Contents(base.root)]
    /\ UNCHANGED <<base, saved, stored, codeDb>>

SetStorage(k, v) ==
    /\ work # NoAccount
    /\ work' = Changed(work, k, v)
    /\ truth' = [truth EXCEPT !.work[k] = v]
    /\ UNCHANGED <<base, saved, stored, codeDb>>

\* Reads fill the caches of either copy.
StorageAt(k) ==
    /\ \/ work # NoAccount /\ work' = Read(work, k) /\ UNCHANGED base
       \/ base # NoAccount /\ base' = Read(base, k) /\ UNCHANGED work
    /\ UNCHANGED <<saved, stored, codeDb, truth>>

DiscardStorageChanges ==
    /\ work # NoAccount
    /\ work' = [work EXCEPT !.changes = Nothing]
    /\ truth' = [truth EXCEPT !.work = Contents(work.root)]
    /\ UNCHANGED <<base, saved, stored, codeDb>>

InitCode(c) ==
    /\ work # NoAccount
    /\ work' = WithCode(work, c)
    /\ UNCHANGED <<base, saved, stored, codeDb, truth>>

CacheCode ==
    /\ \/ work # NoAccount /\ work' \in {CodeCached(work), SizeCached(work)} /\ UNCHANGED base
       \/ base # NoAccount /\ base' \in {CodeCached(base), SizeCached(base)} /\ UNCHANGED work
    /\ UNCHANGED <<saved, stored, codeDb, truth>>

\* A call begins, and fails.
Checkpoint ==
    /\ work # NoAccount /\ saved = NoAccount
    /\ saved' = CloneDirty(work)
    /\ truth' = [truth EXCEPT !.saved = truth.work]
    /\ UNCHANGED <<base, work, stored, codeDb>>

Revert ==
    /\ saved # NoAccount
    /\ work' = Overwrite(work, saved)
    /\ saved' = NoAccount
    /\ truth' = [work |-> truth.saved, saved |-> Nothing]
    /\ UNCHANGED <<base, stored, codeDb>>

\* It succeeds: the checkpoint is dropped.
DropCheckpoint ==
    /\ saved # NoAccount
    /\ saved' = NoAccount
    /\ truth' = [truth EXCEPT !.saved = Nothing]
    /\ UNCHANGED <<base, work, stored, codeDb>>

\* commit_storage, when no checkpoint is left that would go back behind it.
CommitStorage ==
    /\ work # NoAccount /\ saved = NoAccount
    /\ \E order \in SetToSeqs(Dirty(work)) : work' = Committed(work, order)
    /\ UNCHANGED <<base, saved, stored, codeDb, truth>>

CommitCode ==
    /\ work # NoAccount /\ saved = NoAccount
    /\ work.dirty
    /\ codeDb' = codeDb \union ({work.hash} \ {EmptyCode})
    /\ work' = CodeCommitted(work)
    /\ UNCHANGED <<base, saved, stored, truth>>

\* The block ends: the account is written, and base brought up to date.
EndBlock ==
    /\ work # NoAccount /\ saved = NoAccount
    /\ Clean(work)
    /\ stored' = Encoded(work)
    /\ base' = IF base = NoAccount THEN work ELSE Overwrite(base, work)
    /\ work' = NoAccount
    /\ truth' = [truth EXCEPT !.work = Nothing]
    /\ UNCHANGED <<saved, codeDb>>

\* The process restarts, or the block is given up.
Restart ==
    /\ base' \in {base, NoAccount}
    /\ work' = NoAccount /\ saved' = NoAccount
    /\ truth' = [work |-> Nothing, saved |-> Nothing]
    /\ UNCHANGED <<stored, codeDb>>

Next ==
    \/ \E k \in Keys : StorageAt(k) \/ \E v \in Settable[k] : SetStorage(k, v)
    \/ \E c \in Codes : InitCode(c)
    \/ Create \/ Load \/ BeginBlock \/ DiscardStorageChanges \/ CacheCode
    \/ Checkpoint \/ Revert \/ DropCheckpoint
    \/ CommitStorage \/ CommitCode \/ EndBlock \/ Restart

Spec == Init /\ [][Next]_vars

-------------------------------------------------------------------------------
Copies == {base, work, saved} \ {NoAccount}

TypeOK ==
    /\ Copies \subseteq AccountType
    /\ \A a \in Copies : \A k \in Keys : Cardinality(Cached(a.cache, k)) <= 1
    /\ codeDb \subseteq Codes \ {EmptyCode}

\* All zeros are the same to the trie.
Same(v, w) == v = w \/ {v, w} \subseteq Zeros

\* An entry of a cache is what the trie has, in every copy: through commits
\* that evict what they have just cached, clones without a cache, reverts to
\* an older copy, and a base whose older cache is merged with that of a block.
CacheCoherent ==
    \A a \in Copies : \A i \in DOMAIN a.cache :
        Same(a.cache[i].val, InTrie(a.root, a.cache[i].key))

\* A read of a copy panics on nothing but a padded value, and otherwise answers
\* with the value.
Tells(a, last) ==
    \A k \in Keys :
        IF Answer(a, k) = Panic THEN last[k] \in Padded ELSE Same(Answer(a, k), last[k])

\* storage_at answers with what was last set, or with what was last set when the
\* copy was made that a revert went back to.  It does not answer at all, where
\* the code panics, only if that is a Wide value with a leading zero byte that
\* neither the changes nor the cache has any longer: never with another value.
ReadsLastWrite ==
    /\ work # NoAccount => Tells(work, truth.work)
    /\ saved # NoAccount => Tells(saved, truth.saved)

\* The storage root, which goes into the state root, is that of a trie with all
\* that was last set, whenever there is one to ask for: also after values that
\* were set and set back to zero, committed in between or not, and reverts.
RootTellsAll ==
    \A c \in {<<work, truth.work>>, <<saved, truth.saved>>} :
        c[1] # NoAccount /\ storage_root(c[1]) # Unset =>
            \A k \in Keys : Same(InTrie(storage_root(c[1]), k), c[2][k])

\* The code behind the hash can always be found, in the copy or in the
\* database, and code_size is the size of that code: nothing that is dirty in
\* one copy is ever taken for committed in another.
CodeKept ==
    /\ \A a \in Copies :
          /\ a.hash \in {EmptyCode, code(a)} \union codeDb
          /\ a.size \in {Unknown, a.hash}
    /\ stored # NoAccount => stored.hash \in {EmptyCode} \union codeDb
===============================================================================
