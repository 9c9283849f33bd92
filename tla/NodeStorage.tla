------------------------------ MODULE NodeStorage ------------------------------
(***************************************************************************)
(* The arena of patricia_trie/src/triedbmut.rs, in which the nodes of a    *)
(* TrieDBMut live: handles are indices, slots are reused.  TrieDBMut is    *)
(* modelled with trees instead, a handle being the node itself; that is    *)
(* sound if every slot in use has one handle.                              *)
(*                                                                         *)
(* Here a node is the handles of its children and whether it has one that  *)
(* is not loaded.  insert_at and remove_at take a node out of the arena,   *)
(* call themselves for its child, and put a node back: `hand` has what the *)
(* calls that are under way have taken out, the outermost first.           *)
(***************************************************************************)
EXTENDS Integers, SequencesExt

CONSTANTS
    MaxSlots,       \* bound on the arena
    MaxDepth        \* bound on the calls under way

VARIABLES
    storage,        \* nodes: the slots; free: those to reuse
    root_handle,    \* a slot, or OnDisk
    hand,
    committing,     \* the handles that commit_node is still to be called for
    failed          \* history: an operation returned an error

arena_vars == <<storage, root_handle, hand, committing, failed>>

OnDisk == 0         \* NodeHandle::Hash

Stored(tag, children, hashes) == [tag |-> tag, children |-> children, hashes |-> hashes]
EmptyNode == Stored("New", {}, 0)

\* Mutant: the slot that is reused stays in the list.
FreeLeftAll(s) == s.free

FreeLeft(s) == IF s.free = <<>> THEN <<>> ELSE Tail(s.free)

\* alloc, and the handle that it returns.
handle(s) == IF s.free = <<>> THEN Len(s.nodes) + 1 ELSE Head(s.free)
alloc(s, stored) ==
    [nodes |-> IF s.free = <<>> THEN Append(s.nodes, stored)
               ELSE [s.nodes EXCEPT ![Head(s.free)] = stored],
     free  |-> FreeLeft(s)]

destroy(s, h) == [nodes |-> [s.nodes EXCEPT ![h] = EmptyNode], free |-> Append(s.free, h)]

Room(n) == Len(storage.nodes) + n <= MaxSlots + Len(storage.free)

\* cache, whose node is taken out again at once: a node with children on disk
\* or none, or with one that is inlined and gets a slot before it.
Loads(s) ==
    LET in_and_out(t, stored) ==
            [storage |-> destroy(alloc(t, stored), handle(t)), stored |-> stored]
    IN  {in_and_out(s, Stored("Cached", {}, n)) : n \in 0 .. 1}
        \union {in_and_out(alloc(s, EmptyNode), Stored("Cached", {handle(s)}, 0))}

Top == Last(hand)
-------------------------------------------------------------------------------
\* empty, of a trie that is created or opened.
Opened ==
    /\ storage' = [nodes |-> <<>>, free |-> <<>>]
    /\ root_handle' = OnDisk
    /\ hand' = <<>> /\ committing' = {} /\ failed' = FALSE

Init ==
    /\ storage = [nodes |-> <<>>, free |-> <<>>]
    /\ root_handle = OnDisk
    /\ hand = <<>> /\ committing = {} /\ failed = FALSE

Idle == hand = <<>> /\ committing = {} /\ ~failed

\* insert and remove begin with the root, whose handle they copy.
TakeRoot ==
    /\ Idle
    /\ \/ /\ root_handle # OnDisk
          /\ hand' = <<storage.nodes[root_handle]>>
          /\ storage' = destroy(storage, root_handle)
       \/ /\ root_handle = OnDisk /\ Room(2)
          /\ \E loaded \in Loads(storage) :
                hand' = <<loaded.stored>> /\ storage' = loaded.storage
    /\ UNCHANGED <<root_handle, committing, failed>>

\* insert_at and remove_at of a child, and fix of an extension's.
TakeChild ==
    /\ hand # <<>> /\ Len(hand) < MaxDepth
    /\ \/ \E c \in Top.children :
             /\ hand' = Append([hand EXCEPT ![Len(hand)].children = @ \ {c}],
                               storage.nodes[c])
             /\ storage' = destroy(storage, c)
       \/ /\ Top.hashes > 0 /\ Room(2)
          /\ \E loaded \in Loads(storage) :
                /\ hand' = Append([hand EXCEPT ![Len(hand)].hashes = @ - 1], loaded.stored)
                /\ storage' = loaded.storage
    /\ UNCHANGED <<root_handle, committing, failed>>

\* ... whose node the database does not have: the error goes up through all of
\* the calls, and what they have taken out is gone.
TakeChildFails ==
    /\ hand # <<>> /\ Top.hashes > 0
    /\ hand' = <<>> /\ failed' = TRUE
    /\ UNCHANGED <<storage, root_handle, committing>>

\* insert_inspector makes a leaf, or a node in between.
NewChild ==
    /\ hand # <<>> /\ Room(1)
    /\ \E mine \in SUBSET Top.children :
          /\ hand' = [hand EXCEPT ![Len(hand)].children = (@ \ mine) \union {handle(storage)}]
          /\ storage' = alloc(storage, Stored("New", mine, 0))
    /\ UNCHANGED <<root_handle, committing, failed>>

\* The node, replaced or restored, is put back and its handle returned.
PutBack ==
    /\ hand # <<>> /\ Room(1)
    /\ \E tag \in {"New", Top.tag} :
          storage' = alloc(storage, Stored(tag, Top.children, Top.hashes))
    /\ IF Len(hand) = 1
       THEN hand' = <<>> /\ root_handle' = handle(storage)
       ELSE /\ hand' = [Front(hand) EXCEPT ![Len(hand) - 1].children = @ \union {handle(storage)}]
            /\ UNCHANGED root_handle
    /\ UNCHANGED <<committing, failed>>

\* Action::Delete of a leaf.
Delete ==
    /\ hand # <<>> /\ Top.children = {} /\ Top.hashes = 0
    /\ hand' = Front(hand)
    /\ root_handle' = IF Len(hand) = 1 THEN OnDisk ELSE root_handle
    /\ UNCHANGED <<storage, committing, failed>>

\* fix combines a node with the one below it.
Combine ==
    /\ Len(hand) > 1
    /\ hand[Len(hand) - 1].children = {} /\ hand[Len(hand) - 1].hashes = 0
    /\ hand' = Append(Front(Front(hand)), [Top EXCEPT !.tag = "New"])
    /\ UNCHANGED <<storage, root_handle, committing, failed>>

\* commit takes the root out, and puts it back if it has not changed.
Commit ==
    /\ Idle /\ root_handle # OnDisk
    /\ LET node == storage.nodes[root_handle]
           without == destroy(storage, root_handle)
       IN  IF node.tag = "New"
           THEN storage' = without /\ committing' = node.children /\ root_handle' = OnDisk
           ELSE /\ storage' = alloc(without, node)
                /\ root_handle' = handle(without)
                /\ UNCHANGED committing
    /\ UNCHANGED <<hand, failed>>

\* commit_node of a child: what is below one that has not changed stays in the
\* arena without a handle.
CommitNode ==
    /\ \E c \in committing :
          LET node == storage.nodes[c]
          IN  /\ storage' = destroy(storage, c)
              /\ committing' = (committing \ {c})
                               \union (IF node.tag = "New" THEN node.children ELSE {})
    /\ UNCHANGED <<root_handle, hand, failed>>

Next == TakeRoot \/ TakeChild \/ TakeChildFails \/ NewChild \/ PutBack \/ Delete \/ Combine
        \/ Commit \/ CommitNode \/ Opened

Spec == Init /\ [][Next]_arena_vars
-------------------------------------------------------------------------------
\* The handles that somebody holds outside of the arena.
Held == IF hand # <<>> THEN [i \in DOMAIN hand |-> hand[i].children]
        ELSE <<committing, {root_handle} \ {OnDisk}>>

HeldSet == UNION {Held[i] : i \in DOMAIN Held}

Apart(sets) == \A i, j \in DOMAIN sets : i # j => sets[i] \intersect sets[j] = {}

Children == [i \in DOMAIN storage.nodes |-> storage.nodes[i].children]

\* Until an operation fails every slot has one handle at most, and none if it is
\* among those to be reused: through nodes that are taken out, put back elsewhere,
\* combined, inlined in one that is loaded, or left behind by a commit, no handle
\* is followed to another node's slot.
OneOwner ==
    ~failed =>
        /\ Apart(Held) /\ Apart(Children)
        /\ \A i \in DOMAIN Children : Children[i] \intersect HeldSet = {}
        /\ HeldSet \union UNION {Children[i] : i \in DOMAIN Children}
               \subseteq DOMAIN storage.nodes \ ToSet(storage.free)
        /\ IsInjective(storage.free)
===============================================================================
