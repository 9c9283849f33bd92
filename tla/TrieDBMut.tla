------------------------------- MODULE TrieDBMut -------------------------------
(***************************************************************************)
(* The mutable trie of patricia_trie/src/triedbmut.rs over a               *)
(* reference-counted HashStore of its own: insert, remove, get, commit,    *)
(* and a drop (which commits) followed by from_existing.                   *)
(*                                                                         *)
(* A NodeHandle is Hash(e), or a node in memory: New, or Cached, loaded    *)
(* from the database where its encoding is e.  A node of the arena has one *)
(* owner, so a handle in memory has the node itself and the arena's        *)
(* indices are left out.  An operation gives an error only for a hash the  *)
(* database lacks; ReadsAgree says that there is none.                     *)
(***************************************************************************)
EXTENDS TrieNodes

CONSTANT MaxCount   \* bound on the count of a node in the database

VARIABLES
    db,             \* counts of the nodes in the database that are not zero
    root,           \* the node whose hash is *self.root
    root_handle,
    death_row,      \* nodes to remove from the database with the next commit
    contents,       \* ghost: the dictionary the trie stands for
    twins           \* ghost: nodes a committed trie has had in two places

vars == <<db, root, root_handle, death_row, contents, twins>>
-------------------------------------------------------------------------------
New(node) == [tag |-> "New", node |-> node]
Cached(node, e) == [tag |-> "Cached", node |-> node, of |-> e]

Count(counts, e) == IF e \in DOMAIN counts THEN counts[e] ELSE 0

(* The nodes HashStore::get has an answer for; the null node always is. *)
Store == {Empty} \cup {e \in DOMAIN db : db[e] > 0}

(* Decoding: a child is a hash, or an inlined node that becomes a new one. *)
RECURSIVE from_rlp(_)
inline_or_hash(ref) == CASE ref.tag \in {"Absent", "Hash"} -> ref
                         [] OTHER -> New(from_rlp(ref))
from_rlp(e) ==
    CASE e.tag \in {"Empty", "Leaf"} -> e
      [] e.tag = "Extension" -> Extension(e.key, inline_or_hash(e.child))
      [] e.tag = "Branch" ->
            Branch([i \in Nibbles |-> inline_or_hash(e.children[i])], e.value)

(* The node behind a handle, taken out of the arena or loaded. *)
Loaded(handle) == IF handle.tag = "Hash"
                  THEN Cached(from_rlp(handle.of), handle.of) ELSE handle

(* What an inspector decides about a node: the Action, the value that was  *)
(* there before, and the nodes that went to death row further down.        *)
Outcome(action, node, old, dead) ==
    [action |-> action, node |-> node, old |-> old, dead |-> dead]
Change(changed) == IF changed THEN "Replace" ELSE "Restore"

(* Mutant: a node that is deleted does not go to death row. *)
DoomedIfReplaced(stored, action) ==
    IF stored.tag = "Cached" /\ action = "Replace" THEN {stored.of} ELSE {}

(* A loaded node that is not restored goes to death row. *)
Doomed(stored, action) ==
    IF stored.tag = "Cached" /\ action # "Restore" THEN {stored.of} ELSE {}

inspect(stored, o) ==
    [gone |-> o.action = "Delete",
     changed |-> o.action # "Restore",
     handle |-> IF o.action = "Restore" /\ stored.tag = "Cached"
                THEN Cached(o.node, stored.of) ELSE New(o.node),
     old |-> o.old,
     dead |-> o.dead \cup Doomed(stored, o.action)]
-------------------------------------------------------------------------------
(* Insertion. *)

RECURSIVE insert_inspector(_, _, _)

(* Mutant: the parent is told that nothing has changed. *)
insert_atUnchanged(handle, partial, value) ==
    LET stored == Loaded(handle)
    IN  [inspect(stored, insert_inspector(stored.node, partial, value))
            EXCEPT !.changed = FALSE]

insert_at(handle, partial, value) ==
    LET stored == Loaded(handle)
    IN  inspect(stored, insert_inspector(stored.node, partial, value))

InsertIntoBranch(node, partial, value) ==
    IF partial = <<>>
    THEN Outcome(Change(node.value # value), Branch(node.children, value),
                 node.value, {})
    ELSE LET i == Head(partial)
             child == node.children[i]
             sub == insert_at(child, Tail(partial), value)
         IN  IF child = Absent
             THEN Outcome("Replace",
                          [node EXCEPT !.children[i] =
                                           New(Leaf(Tail(partial), value))],
                          NoValue, {})
             ELSE Outcome(Change(sub.changed),
                          [node EXCEPT !.children[i] = sub.handle],
                          sub.old, sub.dead)

(* A leaf or an extension as a branch that says the same.  An extension of *)
(* one nibble goes; a longer one stays, one nibble shorter.                *)
AsBranch(node) ==
    IF node.key = <<>> THEN Branch(empty_children, node.value)
    ELSE LET shorter == [node EXCEPT !.key = Tail(@)]
             below == IF node.tag = "Extension" /\ shorter.key = <<>>
                      THEN node.child ELSE New(shorter)
         IN  Branch([empty_children EXCEPT ![Head(node.key)] = below], NoValue)

(* A key that leaves the node's key after cp nibbles: a branch there, and  *)
(* an extension in front of it if cp is not 0.                             *)
Split(node, cp, partial, value) ==
    LET low == [node EXCEPT !.key = mid(@, cp)]
        o == InsertIntoBranch(AsBranch(low), mid(partial, cp), value)
    IN  Outcome("Replace",
                IF cp = 0 THEN o.node
                          ELSE Extension(SubSeq(node.key, 1, cp), New(o.node)),
                o.old, o.dead)

insert_inspector(node, partial, value) ==
    IF node.tag = "Empty" THEN Outcome("Replace", Leaf(partial, value), NoValue, {})
    ELSE IF node.tag = "Branch" THEN InsertIntoBranch(node, partial, value)
    ELSE LET cp == common_prefix(partial, node.key)
             sub == insert_at(node.child, mid(partial, cp), value)
         IN  CASE node.tag = "Leaf" /\ node.key = partial ->
                    Outcome(Change(node.value # value), Leaf(partial, value),
                            node.value, {})
               [] node.tag = "Extension" /\ cp = Len(node.key) ->
                    Outcome(Change(sub.changed),
                            Extension(node.key, sub.handle), sub.old, sub.dead)
               [] OTHER -> Split(node, cp, partial, value)
-------------------------------------------------------------------------------
(* Removal. *)

(* A node that may be a branch with one entry or an extension of something *)
(* that is not a branch, made canonical; and the nodes this dooms.  A      *)
(* branch with no entry would be a panic and has no case.                  *)
RECURSIVE fix(_)
fix(node) ==
    LET used == {i \in Nibbles : node.children[i] # Absent}
        one == CHOOSE i \in used : TRUE
        child == Loaded(node.child)
        sub == child.node
        doomed == IF child.tag = "Cached" THEN {child.of} ELSE {}
        joined == node.key \o sub.key
        rest == fix(Extension(joined, sub.child))
    IN  CASE node.tag = "Branch" /\ node.value = NoValue /\ Cardinality(used) = 1 ->
                fix(Extension(<<one>>, node.children[one]))
          [] node.tag = "Branch" /\ node.value # NoValue /\ used = {} ->
                [node |-> Leaf(<<>>, node.value), dead |-> {}]
          [] node.tag = "Branch"
             /\ Cardinality(used) + (IF node.value = NoValue THEN 0 ELSE 1) > 1 ->
                [node |-> node, dead |-> {}]
          [] node.tag = "Extension" /\ sub.tag = "Extension" ->
                [node |-> rest.node, dead |-> doomed \cup rest.dead]
          [] node.tag = "Extension" /\ sub.tag = "Leaf" ->
                [node |-> Leaf(joined, sub.value), dead |-> doomed]
          [] node.tag = "Extension" /\ sub.tag \in {"Empty", "Branch"} ->
                [node |-> Extension(node.key, child), dead |-> {}]
          [] node.tag \in {"Empty", "Leaf"} -> [node |-> node, dead |-> {}]

RECURSIVE remove_inspector(_, _)

remove_at(handle, partial) ==
    LET stored == Loaded(handle)
    IN  inspect(stored, remove_inspector(stored.node, partial))

(* Mutant: the node is taken as it is. *)
FixedNot(node, old, dead) == Outcome("Replace", node, old, dead)

(* Mutant: the value that was there is lost. *)
FixedNoOld(node, old, dead) ==
    LET f == fix(node) IN Outcome("Replace", f.node, NoValue, dead \cup f.dead)

(* The outcome of a change that leaves a node which needs fixing. *)
Fixed(node, old, dead) ==
    LET f == fix(node) IN Outcome("Replace", f.node, old, dead \cup f.dead)

RemoveFromBranch(node, partial) ==
    LET i == Head(partial)
        sub == remove_at(node.children[i], Tail(partial))
    IN  IF partial = <<>> THEN
            IF node.value = NoValue THEN Outcome("Restore", node, NoValue, {})
            ELSE Fixed(Branch(node.children, NoValue), node.value, {})
        ELSE IF node.children[i] = Absent THEN Outcome("Restore", node, NoValue, {})
        ELSE IF sub.gone
             THEN Fixed([node EXCEPT !.children[i] = Absent], sub.old, sub.dead)
             ELSE Outcome(Change(sub.changed),
                          [node EXCEPT !.children[i] = sub.handle],
                          sub.old, sub.dead)

RemoveFromExtension(node, partial) ==
    LET sub == remove_at(node.child, mid(partial, Len(node.key)))
        ext == Extension(node.key, sub.handle)
    IN  IF ~IsPrefix(node.key, partial) THEN Outcome("Restore", node, NoValue, {})
        ELSE IF sub.gone THEN Outcome("Delete", Empty, sub.old, sub.dead)
        ELSE IF sub.changed THEN Fixed(ext, sub.old, sub.dead)
        ELSE Outcome("Restore", ext, sub.old, sub.dead)

remove_inspector(node, partial) ==
    CASE node.tag = "Empty" -> Outcome("Delete", Empty, NoValue, {})
      [] node.tag = "Branch" -> RemoveFromBranch(node, partial)
      [] node.tag = "Extension" -> RemoveFromExtension(node, partial)
      [] node.tag = "Leaf" ->
            IF node.key = partial THEN Outcome("Delete", Empty, node.value, {})
                                  ELSE Outcome("Restore", node, NoValue, {})
-------------------------------------------------------------------------------
(* Commit. *)

(* What a node is written as when it is committed, and what its parent gets. *)
RECURSIVE into_rlp(_)
commit_node(handle) ==
    CASE handle.tag \in {"Absent", "Hash"} -> handle
      [] handle.tag = "Cached" -> Hash(handle.of)
      [] handle.tag = "New" -> Reference(into_rlp(handle.node))
into_rlp(node) ==
    CASE node.tag \in {"Empty", "Leaf"} -> node
      [] node.tag = "Extension" -> Extension(node.key, commit_node(node.child))
      [] node.tag = "Branch" ->
            Branch([i \in Nibbles |-> commit_node(node.children[i])], node.value)

(* The nodes that commit_node inserts into the database, as a bag. *)
RECURSIVE InsertedBelow(_)
Inserted(handle) ==
    IF handle.tag # "New" THEN EmptyBag
    ELSE LET ref == Reference(into_rlp(handle.node))
         IN  InsertedBelow(handle.node)
             (+) (IF ref.tag = "Hash" THEN SetToBag({ref.of}) ELSE EmptyBag)
InsertedBelow(node) ==
    CASE node.tag \in {"Empty", "Leaf"} -> EmptyBag
      [] node.tag = "Extension" -> Inserted(node.child)
      [] node.tag = "Branch" ->
            FoldFunction(LAMBDA a, b : a (+) b, EmptyBag,
                         [i \in Nibbles |-> Inserted(node.children[i])])

(* The root node after a commit; it is stored whatever its length. *)
CommittedRoot ==
    IF root_handle.tag = "New" THEN into_rlp(root_handle.node) ELSE root_handle.of

(* Mutant: the root is inserted only if its encoding is long enough. *)
InsertedByRootLen == Inserted(root_handle)

InsertedByCommit ==
    IF root_handle.tag # "New" THEN EmptyBag
    ELSE InsertedBelow(root_handle.node) (+) SetToBag({CommittedRoot})

(* The database after a commit: death row goes, then the new nodes come. *)
(* Neither does anything to the null node.                               *)
CommittedDb ==
    LET inserted == InsertedByCommit
        counts == [e \in (DOMAIN db \cup DOMAIN inserted \cup death_row) \ {Empty} |->
                     Count(db, e) - (IF e \in death_row THEN 1 ELSE 0)
                     + CopiesIn(e, inserted)]
    IN  [e \in {x \in DOMAIN counts : counts[x] # 0} |-> counts[e]]
-------------------------------------------------------------------------------
(* Reading. *)

(* The errors: a hash that is not there, as the first one or further down. *)
InvalidStateRoot == "invalid state root"
IncompleteDatabase == "incomplete database"

(* Lookup::look_up in a database that has the nodes of store, through      *)
(* inlined nodes and hashes: the answer, and the nodes behind the hashes   *)
(* that were passed, seen, of which the recorder is told.                  *)
RECURSIVE look_up(_, _, _, _)
look_up(store, ref, key, seen) ==
    CASE ref.tag = "Hash" ->
            IF ref.of \in store
            THEN look_up(store, ref.of, key, Append(seen, ref.of))
            ELSE [value |-> IF seen = <<>> THEN InvalidStateRoot
                                          ELSE IncompleteDatabase,
                  seen |-> seen]
      [] ref.tag = "Leaf" ->
            [value |-> IF ref.key = key THEN ref.value ELSE NoValue, seen |-> seen]
      [] ref.tag = "Extension" /\ IsPrefix(ref.key, key) ->
            look_up(store, ref.child, mid(key, Len(ref.key)), seen)
      [] ref.tag = "Branch" /\ key = <<>> -> [value |-> ref.value, seen |-> seen]
      [] ref.tag = "Branch" /\ key # <<>> ->
            look_up(store, ref.children[Head(key)], Tail(key), seen)
      [] OTHER -> [value |-> NoValue, seen |-> seen]

(* lookup: in memory, until a hash leads to the database. *)
RECURSIVE lookup(_, _)
lookup(handle, partial) ==
    IF handle.tag = "Hash" THEN look_up(Store, handle, partial, <<>>).value
    ELSE IF handle.tag = "Absent" THEN NoValue
    ELSE LET node == handle.node
         IN  CASE node.tag = "Empty" -> NoValue
               [] node.tag = "Leaf" ->
                    IF node.key = partial THEN node.value ELSE NoValue
               [] node.tag = "Extension" ->
                    IF IsPrefix(node.key, partial)
                    THEN lookup(node.child, mid(partial, Len(node.key)))
                    ELSE NoValue
               [] node.tag = "Branch" ->
                    IF partial = <<>> THEN node.value
                    ELSE lookup(node.children[Head(partial)], Tail(partial))

get(key) == lookup(root_handle, key)

is_empty == IF root_handle.tag = "Hash" THEN root_handle.of = Empty
                                        ELSE root_handle.node = Empty
-------------------------------------------------------------------------------
(* A new, empty trie. *)
Init ==
    /\ db = EmptyBag
    /\ root = Empty
    /\ root_handle = Hash(Empty)
    /\ death_row = {}
    /\ contents = [k \in Keys |-> NoValue]
    /\ twins = {}

insert(k, v) ==
    LET r == insert_at(root_handle, k, v)
    IN  /\ root_handle' = r.handle
        /\ death_row' = death_row \cup r.dead
        /\ contents' = [contents EXCEPT ![k] = v]
        /\ UNCHANGED <<db, root, twins>>

(* Also an insertion of an empty value. *)
remove(k) ==
    LET r == remove_at(root_handle, k)
    IN  /\ root_handle' = IF r.gone THEN Hash(Empty) ELSE r.handle
        /\ root' = IF r.gone THEN Empty ELSE root
        /\ death_row' = death_row \cup r.dead
        /\ contents' = [contents EXCEPT ![k] = NoValue]
        /\ UNCHANGED <<db, twins>>

(* Mutant: death row is not emptied. *)
KeptDeathRow == death_row

(* What is left on death row by a commit: drain. *)
DrainedDeathRow == {}

(* Death row goes even if the root is the one in the database. *)
Committing ==
    LET bag == HashedAt(Hash(CommittedRoot))
    IN  /\ db' = CommittedDb
        /\ \A e \in DOMAIN db' : db'[e] <= MaxCount
        /\ root' = IF root_handle.tag = "Hash" THEN root ELSE CommittedRoot
        /\ death_row' = DrainedDeathRow
        /\ twins' = twins \cup {e \in DOMAIN bag : bag[e] > 1}
        /\ UNCHANGED contents

commit ==
    /\ Committing
    /\ root_handle' = IF root_handle.tag = "New" THEN Hash(root') ELSE root_handle

(* A drop, which commits, and from_existing on the root it left. *)
Reopen ==
    /\ Committing
    /\ root' = Empty \/ Count(db', root') > 0
    /\ root_handle' = Hash(root')

Next ==
    \/ \E e \in Entries : insert(e[1], e[2])
    \/ \E k \in Keys : remove(k)
    \/ commit
    \/ Reopen

Spec == Init /\ [][Next]_vars
-------------------------------------------------------------------------------
(* Properties. *)

(* The types.  The database never owes an insertion: a count is positive,  *)
(* and only nodes that are there wait on death row.                        *)
TypeOK ==
    /\ contents \in [Keys -> Values \cup {NoValue}]
    /\ root_handle.tag \in {"Hash", "Cached", "New"}
    /\ \A e \in DOMAIN db : db[e] \in 1..MaxCount
    /\ death_row \subseteq DOMAIN db \cup {Empty}

Roots == [dict \in [Keys -> Values \cup {NoValue}] |-> trie_root(dict)]

(* The trie is a function of its contents: whatever was inserted, removed  *)
(* and committed in whatever order, a commit now gives the root triehash   *)
(* computes from the dictionary, as the tests ask for random maps          *)
(* (fix in remove_inspector, the splits in insert_inspector).              *)
Canonical == CommittedRoot = Roots[contents]

(* get answers with the last value inserted for the key, also where part   *)
(* of the trie is in memory and part in the database, it never finds the   *)
(* database incomplete, and is_empty tells the truth.                      *)
ReadsAgree ==
    /\ \A k \in Keys : get(k) = contents[k]
    /\ is_empty <=> \A k \in Keys : contents[k] = NoValue

(* insert and remove return the value the key had ("Returns the old value  *)
(* associated with this key, if it existed", TrieMut).                     *)
OldValuesReturned ==
    \A k \in Keys :
        /\ remove_at(root_handle, k).old = contents[k]
        /\ \A v \in Values : insert_at(root_handle, k, v).old = contents[k]

(* What get, insert and remove tell their caller is the contents of the    *)
(* trie, whatever part of it is in memory.                                 *)
AnswersRight == ReadsAgree /\ OldValuesReturned

RECURSIVE InMemory(_)
InMemory(handle) ==
    IF handle.tag \in {"Absent", "Hash"} THEN {}
    ELSE {handle} \cup
         CASE handle.node.tag \in {"Empty", "Leaf"} -> {}
           [] handle.node.tag = "Extension" -> InMemory(handle.node.child)
           [] handle.node.tag = "Branch" ->
                UNION {InMemory(handle.node.children[i]) : i \in Nibbles}

(* "This trusts that the node is actually the original" (Action::Restore): *)
(* a node kept with its hash still encodes to what the hash is of, so that *)
(* commit_node may write the hash without looking at the node.             *)
CachedAreOriginal ==
    \A h \in InMemory(root_handle) : h.tag = "Cached" => into_rlp(h.node) = h.of

(* A commit leaves in the database the nodes of the trie, each as often as *)
(* the trie has it, so that the trie can be read again and nothing of the  *)
(* old one stays behind.  The exception is a node that the trie has had in *)
(* two places: death row is a set, so that two deaths in one commit count  *)
(* as one and a copy too many may be left, never one too few.              *)
CommitExact ==
    LET held == HashedAt(Hash(CommittedRoot))
        left == CommittedDb
    IN  \A e \in (DOMAIN held \cup DOMAIN left) \ {Empty} :
            /\ Count(left, e) >= CopiesIn(e, held)
            /\ e \notin twins => Count(left, e) = CopiesIn(e, held)

(* commit: the nodes it trusts are the originals, the counts it finds are  *)
(* positive, and what it leaves is the trie.                               *)
CommitsRight == TypeOK /\ CachedAreOriginal /\ CommitExact
===============================================================================
