---------------------------- MODULE ArchiveDBProofs ----------------------------
(***************************************************************************)
(* Proofs about ArchiveDB, for any number of handles, nodes and eras.      *)
(***************************************************************************)
EXTENDS ArchiveDB, StoreLemmas

\* What a key of the store, or of its overlay, may hold.
Cell == Keys \union Eras \union {Absent, Deleted, Unbuffered}

Op == [key : DbKeys, val : Keys \union Eras \union {Deleted}]

HandleState ==
    [overlay : [Keys -> Entry(Keys) \union {NoEntry}],
     latest_era : Eras \union {NoEra},
     pc : {"idle", "exec", "journalled", "injected"},
     block : Block,
     batch : Seq(Op)]

\* The overlay of the Rockskvdb is empty between two writes.
Typed ==
    /\ handles \in [Handles -> HandleState \union {Dropped}]
    /\ store \in [buf : [DbKeys -> {Unbuffered}],
                  disk : [DbKeys -> Keys \union Eras \union {Absent}]]
    /\ store.disk[Latest] \in Eras \union {Absent}
    /\ archived \subseteq Block
    /\ cloned \in BOOLEAN
    /\ config \in Settings

\* What an execution has done to a node since its parent's state, of which all
\* nodes are on disk: it is in the overlay once more, once less or not at all.
Executing(x, disk) ==
    /\ x.block.era \in Eras
    /\ \A k \in Keys :
          IF k \in x.block.state
          THEN Count(x.overlay[k]) = 1 \/ (Count(x.overlay[k]) = 0 /\ disk[k] = k)
          ELSE Count(x.overlay[k]) = 0 \/ (Count(x.overlay[k]) = -1 /\ disk[k] = k)

\* A batch has the nodes of the block that are not on disk, and takes none of
\* its nodes away.
Batched(x, disk) ==
    /\ \A k \in x.block.state : disk[k] = k \/ \E i \in DOMAIN x.batch : x.batch[i].key = k
    /\ \A i \in DOMAIN x.batch :
          \/ x.batch[i].key \in Keys /\ x.batch[i].val = x.batch[i].key
          \/ /\ x.pc = "journalled" /\ x.batch[i].key = Latest
             /\ x.batch[i].val = x.latest_era /\ x.latest_era \in Eras
          \/ /\ x.pc = "injected" /\ x.batch[i].key \in Keys \ x.block.state
             /\ x.batch[i].val = Deleted

Good(x, disk) ==
    /\ \A k \in Keys : Count(x.overlay[k]) > 0 => x.overlay[k].val = k
    /\ x.pc # "exec" => x.overlay = EmptyOver(Keys)
    /\ x.pc = "exec" => Executing(x, disk)
    /\ x.pc \in {"journalled", "injected"} => Batched(x, disk)

\* What was written stays, and an injection has the database for itself.
Kept ==
    /\ \A h \in Handles : handles[h] # Dropped => Good(handles[h], store.disk)
    /\ \A b \in archived : \A k \in b.state : store.disk[k] = k
    /\ \A h \in Handles : At(h, "injected") =>
          /\ handles[h].block.era = -1
          /\ \A g \in Handles \ {h} : handles[g] = Dropped \/ At(g, "idle")

\* The latest era of a handle that nobody has cloned: its own and the stored
\* one differ only between journal_under and the write of its batch.
LatestOf(x, disk) ==
    /\ x.pc # "journalled" => x.latest_era = Stored(disk)
    /\ x.pc = "journalled" =>
          /\ x.latest_era \in Eras /\ x.latest_era >= x.block.era
          /\ Stored(disk) = NoEra \/ Stored(disk) <= x.latest_era
          /\ x.latest_era = Stored(disk) \/ \E i \in DOMAIN x.batch : x.batch[i].key = Latest

Alone ==
    ~cloned =>
        /\ \A g \in Handles \ {First} : handles[g] = Dropped
        /\ handles[First] # Dropped => LatestOf(handles[First], store.disk)
        /\ \A b \in archived : b.era >= 0 =>
              Stored(store.disk) # NoEra /\ Stored(store.disk) >= b.era

\* What RocksDB has written out is a disk with the blocks of that moment, as
\* the one it has now.
Recoverable ==
    /\ stable.disk \in [DbKeys -> Keys \union Eras \union {Absent}]
    /\ stable.disk[Latest] \in Eras \union {Absent}
    /\ stable.archived \subseteq Block
    /\ \A b \in stable.archived : \A k \in b.state : stable.disk[k] = k
    /\ ~cloned => \A b \in stable.archived : b.era >= 0 =>
           Stored(stable.disk) # NoEra /\ Stored(stable.disk) >= b.era

IInv == Typed /\ Kept /\ Alone /\ Recoverable

-------------------------------------------------------------------------------
(* The operators.                                                          *)

\* insert and remove move the count by one, and a positive count comes with
\* the node itself.
LEMMA EntrySteps ==
    ASSUME NEW k \in Keys, NEW e \in Entry(Keys) \union {NoEntry},
           Count(e) > 0 => e.val = k
    PROVE  /\ EmplaceEntry(e, k) \in Entry(Keys)
           /\ Count(EmplaceEntry(e, k)) = Count(e) + 1
           /\ Count(EmplaceEntry(e, k)) > 0 => EmplaceEntry(e, k).val = k
           /\ RemoveEntry(e) \in Entry(Keys)
           /\ Count(RemoveEntry(e)) = Count(e) - 1
           /\ Count(RemoveEntry(e)) > 0 => RemoveEntry(e).val = k
<1>1. CASE e = NoEntry
    <2>1. EmplaceEntry(e, k) = [val |-> k, rc |-> 1]
          /\ RemoveEntry(e) = [val |-> NoValue, rc |-> -1] /\ Count(e) = 0
        BY <1>1 DEF EmplaceEntry, RemoveEntry, Count
    <2>2. EmplaceEntry(e, k) \in Entry(Keys) /\ RemoveEntry(e) \in Entry(Keys)
        BY <2>1 DEF Entry
    <2>3. QED BY <2>1, <2>2, MarkerAssumption DEF Count
<1>2. CASE e # NoEntry
    <2>1. e \in Entry(Keys) /\ Count(e) = e.rc /\ e.rc \in Int
        BY <1>2 DEF Count, Entry
    <2>2. EmplaceEntry(e, k) = [val |-> IF e.rc <= 0 THEN k ELSE e.val, rc |-> e.rc + 1]
          /\ RemoveEntry(e) = [e EXCEPT !.rc = @ - 1]
        BY <1>2 DEF EmplaceEntry, RemoveEntry
    <2>3. EmplaceEntry(e, k) \in Entry(Keys) /\ RemoveEntry(e) \in Entry(Keys)
        BY <2>1, <2>2 DEF Entry
    <2>4. Count(EmplaceEntry(e, k)) = e.rc + 1 /\ Count(RemoveEntry(e)) = e.rc - 1
          /\ RemoveEntry(e).val = e.val
        BY <2>1, <2>2, <2>3, MarkerAssumption DEF Count, Entry
    <2>5. QED BY <2>1, <2>2, <2>3, <2>4
<1>3. QED BY <1>1, <1>2

\* A batch is a list of finitely many operations.
LEMMA FiniteOps ==
    ASSUME NEW S \in SUBSET Keys
    PROVE  /\ IsFiniteSet({[key |-> k, val |-> k] : k \in S})
           /\ IsFiniteSet({[key |-> k, val |-> Deleted] : k \in S})
<1>1. IsFiniteSet(S)
    BY FS_Subset, MarkerAssumption
<1>2. [k \in S |-> [key |-> k, val |-> k]]
        \in Surjection(S, {[key |-> k, val |-> k] : k \in S})
    BY DEF Surjection
<1>3. [k \in S |-> [key |-> k, val |-> Deleted]]
        \in Surjection(S, {[key |-> k, val |-> Deleted] : k \in S})
    BY DEF Surjection
<1>4. QED BY <1>1, <1>2, <1>3, FS_Surjection

\* The puts and deletes of a set of nodes.
LEMMA PutsAndDeletes ==
    ASSUME NEW S \in SUBSET Keys
    PROVE  /\ Puts(S) \in Seq(Op) /\ Deletes(S) \in Seq(Op)
           /\ \A i \in DOMAIN Puts(S) : Puts(S)[i].key \in S /\ Puts(S)[i].val = Puts(S)[i].key
           /\ \A i \in DOMAIN Deletes(S) : Deletes(S)[i].key \in S /\ Deletes(S)[i].val = Deleted
           /\ \A k \in S : \E i \in DOMAIN Puts(S) : Puts(S)[i].key = k
<1> DEFINE P == {[key |-> k, val |-> k] : k \in S}
           D == {[key |-> k, val |-> Deleted] : k \in S}
<1>0. /\ Puts(S) = Listing(P)
      /\ Deletes(S) = Listing(D)
    BY DEF Puts, Deletes, Seqs!SetToSeq, Seqs!IsInjective, IsInjective,
           Seqs!Cardinality, Cardinality, Listing
<1>1. IsFiniteSet(P) /\ IsFiniteSet(D)
    BY FiniteOps
<1>2. P \subseteq Op /\ D \subseteq Op
    BY DEF Op, DbKeys
<1> HIDE DEF P, D
<1>3. /\ Puts(S) \in Seq(P) /\ \A x \in P : \E i \in DOMAIN Puts(S) : Puts(S)[i] = x
      /\ Deletes(S) \in Seq(D)
    BY <1>0, <1>1, Listed
<1>4. Puts(S) \in Seq(Op) /\ Deletes(S) \in Seq(Op)
    BY <1>2, <1>3, SeqMonotonic
<1>5. \A i \in DOMAIN Puts(S) : Puts(S)[i] \in P
    BY <1>3
<1>6. \A i \in DOMAIN Deletes(S) : Deletes(S)[i] \in D
    BY <1>3
<1>7. \A k \in S : \E i \in DOMAIN Puts(S) : Puts(S)[i].key = k
    <2>1. TAKE k \in S
    <2>2. [key |-> k, val |-> k] \in P
        BY DEF P
    <2>3. QED BY <1>3, <2>2
<1>8. QED BY <1>4, <1>5, <1>6, <1>7 DEF P, D

\* KeyValueDB::write of a batch.
LEMMA BatchWritten ==
    ASSUME Typed, NEW ops \in Seq(Op),
           \A i \in DOMAIN ops : ops[i].key = Latest => ops[i].val \in Eras
    PROVE  LET st == Flushed(Recorded(store, ops))
           IN  /\ st \in [buf : [DbKeys -> {Unbuffered}],
                           disk : [DbKeys -> Keys \union Eras \union {Absent}]]
               /\ st.disk[Latest] \in Eras \union {Absent}
               /\ \A k \in DbKeys : st.disk[k] =
                      IF OnKey(ops, k) = {} THEN store.disk[k]
                      ELSE Outcome(ops[Max(OnKey(ops, k))].val)
<1>1. Len(ops) \in Nat /\ DOMAIN ops = 1 .. Len(ops)
    OBVIOUS
<1>2. store \in Stores(DbKeys, Cell)
    BY DEF Typed, Cell, Stores
<1>3. IsBatch(ops, Cell)
    <2>1. \A i \in DOMAIN ops : ops[i] \in Op
        OBVIOUS
    <2>2. QED BY <1>1, <2>1, MarkerAssumption DEF Op, Cell, IsBatch
<1>4. /\ Recorded(store, ops) \in Stores(DbKeys, Cell)
      /\ Recorded(store, ops).disk = store.disk
      /\ View(Recorded(store, ops)) \in [DbKeys -> Cell \union {Absent}]
      /\ \A k \in DbKeys : View(Recorded(store, ops))[k] =
                  IF OnKey(ops, k) = {} THEN View(store)[k]
                  ELSE Outcome(ops[Max(OnKey(ops, k))].val)
    BY <1>2, <1>3, RecordedView
<1>0. View(store) = store.disk
    BY MarkerAssumption DEF View, Typed
<1>5. \A k \in DbKeys : View(Recorded(store, ops))[k] \in Keys \union Eras \union {Absent}
    <2>1. TAKE k \in DbKeys
    <2>2. CASE OnKey(ops, k) = {}
        BY <2>2, <1>0, <1>4 DEF Typed
    <2>3. CASE OnKey(ops, k) # {}
        <3>1. Max(OnKey(ops, k)) \in DOMAIN ops
            BY <1>1, <2>3, LastOnKey
        <3>2. ops[Max(OnKey(ops, k))] \in Op
            BY <3>1
        <3>3. ops[Max(OnKey(ops, k))].val \in Keys \union Eras \union {Deleted}
            BY <3>2 DEF Op
        <3>4. QED BY <2>3, <3>3, <1>4 DEF Outcome
    <2>4. QED BY <2>2, <2>3
<1>6. View(Recorded(store, ops))[Latest] \in Eras \union {Absent}
    <2>1. Latest \in DbKeys
        BY DEF DbKeys
    <2>2. CASE OnKey(ops, Latest) = {}
        BY <2>1, <2>2, <1>0, <1>4 DEF Typed
    <2>3. CASE OnKey(ops, Latest) # {}
        BY <1>1, <2>1, <2>3, <1>4, LastOnKey DEF Outcome
    <2>4. QED BY <2>2, <2>3
<1>7. DOMAIN Recorded(store, ops).disk = DbKeys
    BY <1>4 DEF Typed
<1>8. QED BY <1>0, <1>4, <1>5, <1>6, <1>7 DEF Flushed, EmptyBuf

-------------------------------------------------------------------------------
(* The invariant.                                                          *)

\* A database that has just been opened.
LEMMA OpenedGood ==
    ASSUME NEW disk \in [DbKeys -> Keys \union Eras \union {Absent}],
           disk[Latest] \in Eras \union {Absent}
    PROVE  /\ Opened(disk) \in HandleState
           /\ Opened(disk).pc = "idle"
           /\ Good(Opened(disk), disk)
           /\ LatestOf(Opened(disk), disk)
<1>1. Stored(disk) \in Eras \union {NoEra}
    BY DEF Stored
<1>2. EmptyOver(Keys) \in [Keys -> Entry(Keys) \union {NoEntry}]
      /\ \A k \in Keys : Count(EmptyOver(Keys)[k]) = 0
    BY DEF EmptyOver, Count
<1>3. Root \in Block
    BY HandleAssumption DEF Root, Block
<1>4. <<>> \in Seq(Op)
    OBVIOUS
<1>5. Opened(disk) = [overlay |-> EmptyOver(Keys), latest_era |-> Stored(disk),
                      pc |-> "idle", block |-> Root, batch |-> <<>>]
    BY DEF Opened
<1>6. Opened(disk) \in HandleState
    BY <1>1, <1>2, <1>3, <1>4, <1>5 DEF HandleState
<1>7. QED BY <1>2, <1>5, <1>6 DEF Good, LatestOf

\* A new database, with a single handle.
LEMMA InitIInv == ASSUME Init PROVE IInv
<1>1. /\ store.disk \in [DbKeys -> Keys \union Eras \union {Absent}]
      /\ store.disk[Latest] = Absent
      /\ store \in [buf : [DbKeys -> {Unbuffered}],
                    disk : [DbKeys -> Keys \union Eras \union {Absent}]]
    BY DEF Init, DbKeys, EmptyBuf
<1>2. /\ Opened(store.disk) \in HandleState
      /\ Opened(store.disk).pc = "idle"
      /\ Good(Opened(store.disk), store.disk)
      /\ LatestOf(Opened(store.disk), store.disk)
    BY <1>1, OpenedGood
<1>3. Root \in Block /\ Root.state = {} /\ Root.era = -1
    BY HandleAssumption DEF Root, Block
<1>4. Typed
    BY <1>1, <1>2, <1>3 DEF Typed, Init
<1>5. Kept
    BY <1>1, <1>2, <1>3 DEF Kept, Init, At
<1>6. Alone
    BY <1>1, <1>2, <1>3, HandleAssumption DEF Alone, Init
<1>7. stable.disk = store.disk /\ stable.archived = {Root}
    BY DEF Init, Given
<1>8. Recoverable
    BY <1>1, <1>3, <1>7 DEF Recoverable
<1>9. QED BY <1>4, <1>5, <1>6, <1>8 DEF IInv

\* What a step of the user of one handle has to show.
LEMMA OneHandle ==
    ASSUME IInv, NEW h \in Handles, handles[h] # Dropped,
           \A g \in Handles \ {h} : ~ At(g, "injected"),
           NEW x \in HandleState,
           x.pc = "injected" =>
               /\ x.block.era = -1
               /\ \A g \in Handles \ {h} : handles[g] = Dropped \/ At(g, "idle"),
           Good(x, store.disk),
           LatestOf(handles[h], store.disk) => LatestOf(x, store.disk),
           handles' = [handles EXCEPT ![h] = x],
           UNCHANGED <<store, archived, cloned, config, stable>>
    PROVE  IInv'
<1>1. handles' \in [Handles -> HandleState \union {Dropped}]
      /\ handles'[h] = x /\ \A g \in Handles \ {h} : handles'[g] = handles[g]
    BY DEF IInv, Typed
<1>2. Typed'
    BY <1>1 DEF IInv, Typed
<1>3. Kept'
    <2>1. \A g \in Handles : handles'[g] # Dropped => Good(handles'[g], store'.disk)
        BY <1>1 DEF IInv, Kept
    <2>2. \A b \in archived' : \A k \in b.state : store'.disk[k] = k
        BY DEF IInv, Kept
    <2>3. \A g \in Handles : At(g, "injected")' => g = h
        BY <1>1 DEF At
    <2>4. At(h, "injected")' => x.pc = "injected"
        BY <1>1 DEF At
    <2>5. \A g \in Handles \ {h} : handles[g] = Dropped \/ At(g, "idle")
              => handles'[g] = Dropped \/ At(g, "idle")'
        BY <1>1 DEF At
    <2>6. \A g \in Handles : At(g, "injected")' =>
              /\ handles'[g].block.era = -1
              /\ \A f \in Handles \ {g} : handles'[f] = Dropped \/ At(f, "idle")'
        BY <2>3, <2>4, <2>5, <1>1
    <2>7. QED BY <2>1, <2>2, <2>6 DEF Kept
<1>4. Alone'
    <2>1. SUFFICES ASSUME ~cloned PROVE Alone'
        BY DEF Alone
    <2>2. h = First
        BY <2>1 DEF IInv, Alone
    <2>3. QED BY <2>1, <2>2, <1>1 DEF IInv, Alone
<1>5. Recoverable'
    BY DEF IInv, Recoverable
<1>6. QED BY <1>2, <1>3, <1>4, <1>5 DEF IInv

\* boxed_clone: the clone starts with the overlay and the era of its original,
\* and from then on Alone claims nothing.
LEMMA CloneStep ==
    ASSUME IInv, NEW h \in Handles, NEW g \in Handles, Clone(h, g)
    PROVE  IInv'
<1>1. handles' \in [Handles -> HandleState \union {Dropped}]
      /\ handles'[g] = handles[h] /\ \A f \in Handles \ {g} : handles'[f] = handles[f]
    BY DEF IInv, Typed, Clone
<1>2. Typed'
    BY <1>1 DEF IInv, Typed, Clone
<1>3. \A f \in Handles : ~ At(f, "injected")'
    BY <1>1 DEF Clone, Injecting, At
<1>4. Kept'
    BY <1>1, <1>3 DEF IInv, Kept, Clone
<1>5. Alone'
    BY DEF Alone, Clone
<1>6. Recoverable'
    BY DEF IInv, Recoverable, Clone
<1>7. QED BY <1>2, <1>4, <1>5, <1>6 DEF IInv

\* A block begins on a state that is wholly on disk.
LEMMA BeginStep ==
    ASSUME IInv, NEW h \in Handles, NEW parent \in archived, Begin(h, parent)
    PROVE  IInv'
<1> DEFINE b == [parent EXCEPT !.era = @ + 1]
           x == [handles[h] EXCEPT !.pc = "exec", !.block = b]
<1>1. handles[h] \in HandleState /\ handles[h].pc = "idle"
    BY DEF IInv, Typed, Begin, At
<1>2. parent \in Block /\ parent.era < MaxEra /\ \A k \in parent.state : store.disk[k] = k
    <2>1. /\ parent \in Block /\ parent.era < config.max_era
          /\ config \in Settings /\ \A k \in parent.state : store.disk[k] = k
        BY DEF IInv, Typed, Kept, Begin
    <2>2. config.max_era \in 0 .. MaxEra /\ MaxEra \in Nat
        BY <2>1, HandleAssumption DEF Eras
    <2>3. parent.era \in Int
        BY <2>1, HandleAssumption DEF Block
    <2>4. QED BY <2>1, <2>2, <2>3
<1>3. b \in Block /\ b.era \in Eras /\ b.state = parent.state
    BY <1>2, HandleAssumption DEF Block, Eras
<1>4. x \in HandleState /\ x.pc = "exec" /\ x.block = b /\ x.overlay = handles[h].overlay
      /\ x.latest_era = handles[h].latest_era
    BY <1>1, <1>3 DEF HandleState
<1>5. handles' = [handles EXCEPT ![h] = x]
    BY DEF Begin, IInv, Typed
<1>6. Good(handles[h], store.disk) /\ handles[h].overlay = EmptyOver(Keys)
    BY <1>1 DEF IInv, Kept, Good, Begin, At
<1>7. \A k \in Keys : Count(x.overlay[k]) = 0
    BY <1>4, <1>6 DEF EmptyOver, Count
<1> HIDE DEF x, b
<1>8. Executing(x, store.disk)
    BY <1>2, <1>3, <1>4, <1>7 DEF Executing
<1>9. Good(x, store.disk)
    BY <1>4, <1>7, <1>8 DEF Good
<1>10. LatestOf(handles[h], store.disk) => LatestOf(x, store.disk)
    BY <1>1, <1>4 DEF LatestOf
<1>11. handles[h] # Dropped /\ \A g \in Handles : ~ At(g, "injected")
    BY DEF Begin, At, Injecting
<1>12. QED BY <1>4, <1>5, <1>9, <1>10, <1>11, OneHandle DEF Begin

\* While h is busy, nobody injects.
LEMMA NotInjecting ==
    ASSUME IInv, NEW h \in Handles, At(h, "exec")
    PROVE  \A g \in Handles : ~ At(g, "injected")
BY DEF IInv, Kept, At

\* An insertion or removal of k: the rest of the block and of the overlay is
\* as it was.
LEMMA OverlayStep ==
    ASSUME IInv, NEW h \in Handles, At(h, "exec"), NEW k \in Keys,
           NEW s \in SUBSET Keys, NEW e \in Entry(Keys),
           Count(e) > 0 => e.val = k,
           s \ {k} = handles[h].block.state \ {k},
           IF k \in s THEN Count(e) = 1 \/ (Count(e) = 0 /\ store.disk[k] = k)
           ELSE Count(e) = 0 \/ (Count(e) = -1 /\ store.disk[k] = k),
           handles' = [handles EXCEPT ![h].block.state = s, ![h].overlay[k] = e],
           UNCHANGED <<store, archived, cloned, config, stable>>
    PROVE  IInv'
<1> DEFINE b == [handles[h].block EXCEPT !.state = s]
           o == [handles[h].overlay EXCEPT ![k] = e]
           x == [handles[h] EXCEPT !.block = b, !.overlay = o]
<1>1. handles[h] \in HandleState /\ handles[h].pc = "exec" /\ handles[h] # Dropped
    BY DEF IInv, Typed, At
<1>2. b \in Block /\ b.state = s /\ b.era = handles[h].block.era
    BY <1>1 DEF HandleState, Block
<1>3. /\ o \in [Keys -> Entry(Keys) \union {NoEntry}]
      /\ o[k] = e /\ \A j \in Keys \ {k} : o[j] = handles[h].overlay[j]
    BY <1>1 DEF HandleState
<1>4. handles' = [handles EXCEPT ![h] = x]
    BY ZenonT(30) DEF IInv, Typed
<1> HIDE DEF b, o
<1>5. /\ x \in HandleState /\ x.pc = "exec" /\ x.block = b /\ x.overlay = o
      /\ x.latest_era = handles[h].latest_era
    BY <1>1, <1>2, <1>3 DEF HandleState
<1> HIDE DEF x
<1>6. Executing(handles[h], store.disk)
      /\ \A j \in Keys : Count(handles[h].overlay[j]) > 0 => handles[h].overlay[j].val = j
    BY <1>1 DEF IInv, Kept, Good
<1>7. Executing(x, store.disk)
    <2>1. \A j \in Keys \ {k} : j \in s <=> j \in handles[h].block.state
        OBVIOUS
    <2>2. \A j \in Keys \ {k} :
              IF j \in s THEN Count(o[j]) = 1 \/ (Count(o[j]) = 0 /\ store.disk[j] = j)
              ELSE Count(o[j]) = 0 \/ (Count(o[j]) = -1 /\ store.disk[j] = j)
        BY <1>3, <1>6, <2>1 DEF Executing
    <2>3. QED BY <1>2, <1>3, <1>5, <1>6, <2>2 DEF Executing
<1>8. Good(x, store.disk)
    BY <1>3, <1>5, <1>6, <1>7 DEF Good
<1>9. LatestOf(handles[h], store.disk) => LatestOf(x, store.disk)
    BY <1>1, <1>5 DEF LatestOf
<1>10. QED BY <1>1, <1>4, <1>5, <1>8, <1>9, NotInjecting, OneHandle

\* insert of a node the parent does not have.
LEMMA InsertStep ==
    ASSUME IInv, NEW h \in Handles, NEW k \in Keys, Insert(h, k)
    PROVE  IInv'
<1> DEFINE x == handles[h]
           e == x.overlay[k]
           s == x.block.state \union {k}
<1>1. x \in HandleState /\ At(h, "exec") /\ k \notin x.block.state
    BY DEF IInv, Typed, Insert, At
<1>2. Good(x, store.disk) /\ Executing(x, store.disk)
    BY <1>1 DEF IInv, Kept, Good, At
<1>3. /\ e \in Entry(Keys) \union {NoEntry} /\ (Count(e) > 0 => e.val = k)
      /\ Count(e) = 0 \/ (Count(e) = -1 /\ store.disk[k] = k)
    BY <1>1, <1>2 DEF HandleState, Good, Executing
<1>4. s \in SUBSET Keys /\ s \ {k} = x.block.state \ {k} /\ k \in s
    BY <1>1 DEF HandleState, Block
<1>5. /\ EmplaceEntry(e, k) \in Entry(Keys)
      /\ Count(EmplaceEntry(e, k)) = Count(e) + 1
      /\ Count(EmplaceEntry(e, k)) > 0 => EmplaceEntry(e, k).val = k
    BY <1>3, EntrySteps
<1>6. Count(EmplaceEntry(e, k)) = 1 \/ (Count(EmplaceEntry(e, k)) = 0 /\ store.disk[k] = k)
    BY <1>3, <1>5
<1>7. handles' = [handles EXCEPT ![h].block.state = s,
                                 ![h].overlay[k] = EmplaceEntry(e, k)]
    BY <1>1 DEF Insert, IInv, Typed
<1> HIDE DEF s, e
<1>8. QED BY <1>1, <1>4, <1>5, <1>6, <1>7, OverlayStep DEF Insert

\* remove of a node of the parent, which is only counted.
LEMMA RemoveStep ==
    ASSUME IInv, NEW h \in Handles, NEW k \in Keys, Remove(h, k)
    PROVE  IInv'
<1> DEFINE x == handles[h]
           e == x.overlay[k]
           s == x.block.state \ {k}
<1>1. x \in HandleState /\ At(h, "exec") /\ k \in x.block.state
    BY DEF IInv, Typed, Remove, At
<1>2. Good(x, store.disk) /\ Executing(x, store.disk)
    BY <1>1 DEF IInv, Kept, Good, At
<1>3. /\ e \in Entry(Keys) \union {NoEntry} /\ (Count(e) > 0 => e.val = k)
      /\ Count(e) = 1 \/ (Count(e) = 0 /\ store.disk[k] = k)
    BY <1>1, <1>2 DEF HandleState, Good, Executing
<1>4. s \in SUBSET Keys /\ s \ {k} = x.block.state \ {k} /\ k \notin s
    BY <1>1 DEF HandleState, Block
<1>5. /\ RemoveEntry(e) \in Entry(Keys)
      /\ Count(RemoveEntry(e)) = Count(e) - 1
      /\ Count(RemoveEntry(e)) > 0 => RemoveEntry(e).val = k
    BY <1>3, EntrySteps
<1>6. Count(RemoveEntry(e)) = 0 \/ (Count(RemoveEntry(e)) = -1 /\ store.disk[k] = k)
    BY <1>3, <1>5
<1>7. handles' = [handles EXCEPT ![h].block.state = s,
                                 ![h].overlay[k] = RemoveEntry(e)]
    BY <1>1 DEF Remove, IInv, Typed
<1> HIDE DEF s, e
<1>8. QED BY <1>1, <1>4, <1>5, <1>6, <1>7, OverlayStep DEF Remove

\* The puts of a handle that executes have what is missing of its block, and
\* the removals are of nodes that the block does not have.
LEMMA SignedOfExecuting ==
    ASSUME NEW h \in Handles, NEW disk, handles[h].block.state \subseteq Keys,
           Executing(handles[h], disk)
    PROVE  /\ Signed(h, 1) \subseteq Keys /\ Signed(h, -1) \subseteq Keys
           /\ \A k \in handles[h].block.state : disk[k] = k \/ k \in Signed(h, 1)
           /\ \A k \in Signed(h, -1) : k \notin handles[h].block.state
<1>1. Signed(h, 1) \subseteq Keys /\ Signed(h, -1) \subseteq Keys
    BY DEF Signed
<1>2. \A k \in handles[h].block.state : disk[k] = k \/ k \in Signed(h, 1)
    BY DEF Signed, Executing
<1>3. ASSUME NEW k \in Signed(h, -1) PROVE k \notin handles[h].block.state
    <2>1. k \in Keys /\ Count(handles[h].overlay[k]) * (-1) > 0
        BY DEF Signed
    <2>2. k \in handles[h].block.state =>
              Count(handles[h].overlay[k]) = 1 \/ Count(handles[h].overlay[k]) = 0
        BY <2>1 DEF Executing
    <2>3. QED BY <2>1, <2>2
<1>4. QED BY <1>1, <1>2, <1>3

\* journal_under: the batch has the nodes of the block that are not on disk
\* yet, and no deletion.
LEMMA JournalUnderStep ==
    ASSUME IInv, NEW h \in Handles, JournalUnder(h)
    PROVE  IInv'
<1> DEFINE now == handles[h].block.era
           newest == IsNewer(now, handles[h].latest_era)
           puts == Puts(Signed(h, 1))
           tail == IF newest THEN <<[key |-> Latest, val |-> now]>> ELSE <<>>
           latest == IF newest THEN now ELSE handles[h].latest_era
           x == [handles[h] EXCEPT !.overlay = EmptyOver(Keys), !.batch = puts \o tail,
                                   !.latest_era = latest, !.pc = "journalled"]
<1>1. handles[h] \in HandleState /\ At(h, "exec") /\ handles[h].pc = "exec"
      /\ handles[h] # Dropped
    BY DEF IInv, Typed, JournalUnder, At
<1>2. Executing(handles[h], store.disk) /\ now \in Eras
    BY <1>1 DEF IInv, Kept, Good, Executing
<1>3. /\ Signed(h, 1) \subseteq Keys
      /\ \A k \in handles[h].block.state : store.disk[k] = k \/ k \in Signed(h, 1)
    BY <1>1, <1>2, SignedOfExecuting DEF HandleState, Block
<1>4. /\ puts \in Seq(Op)
      /\ \A i \in DOMAIN puts : puts[i].key \in Keys /\ puts[i].val = puts[i].key
      /\ \A k \in Signed(h, 1) : \E i \in DOMAIN puts : puts[i].key = k
    BY <1>3, PutsAndDeletes
<1>5. handles[h].latest_era \in Eras \union {NoEra}
      /\ (handles[h].latest_era # NoEra => handles[h].latest_era \in Nat) /\ now \in Nat
    BY <1>1, <1>2, HandleAssumption DEF HandleState, Eras
<1>6. latest \in Eras /\ latest >= now
      /\ (handles[h].latest_era = NoEra \/ handles[h].latest_era <= latest)
      /\ (latest = handles[h].latest_era \/ newest)
    BY <1>2, <1>5 DEF IsNewer
<1>7. tail \in Seq(Op)
    <2>1. [key |-> Latest, val |-> now] \in Op
        BY <1>2 DEF Op, DbKeys
    <2>2. QED BY <2>1
<1>8. EmptyOver(Keys) \in [Keys -> Entry(Keys) \union {NoEntry}]
      /\ \A k \in Keys : Count(EmptyOver(Keys)[k]) = 0
    BY DEF EmptyOver, Count
<1>9. handles' = [handles EXCEPT ![h] = x]
    BY <1>1 DEF JournalUnder, JournalOps, IInv, Typed
<1>10. /\ newest => 1 \in DOMAIN tail /\ tail[1] = [key |-> Latest, val |-> now]
       /\ \A i \in DOMAIN tail : newest /\ tail[i] = [key |-> Latest, val |-> now]
    OBVIOUS
<1>11. newest => latest = now
    OBVIOUS
<1> HIDE DEF now, newest, puts, tail, latest
<1>0. /\ puts \o tail \in Seq(Op)
      /\ \A i \in DOMAIN puts : i \in DOMAIN (puts \o tail) /\ (puts \o tail)[i] = puts[i]
      /\ \A i \in DOMAIN tail :
             Len(puts) + i \in DOMAIN (puts \o tail) /\ (puts \o tail)[Len(puts) + i] = tail[i]
      /\ \A i \in DOMAIN (puts \o tail) :
             \/ i \in DOMAIN puts /\ (puts \o tail)[i] = puts[i]
             \/ \E j \in DOMAIN tail : i = Len(puts) + j /\ (puts \o tail)[i] = tail[j]
    BY <1>4, <1>7, Joined
<1>12. x \in HandleState
    BY <1>0, <1>1, <1>6, <1>8 DEF HandleState
<1>13. /\ x.overlay = EmptyOver(Keys) /\ x.pc = "journalled" /\ x.block = handles[h].block
       /\ x.latest_era = latest /\ x.batch = puts \o tail
    BY <1>1 DEF HandleState
<1> HIDE DEF x
<1>14. /\ \A i \in DOMAIN puts : i \in DOMAIN x.batch /\ x.batch[i] = puts[i]
       /\ newest => \E i \in DOMAIN x.batch : x.batch[i].key = Latest
       /\ \A i \in DOMAIN x.batch :
              i \in DOMAIN puts \/ (newest /\ x.batch[i] = [key |-> Latest, val |-> now])
    <2> DEFINE batch == puts \o tail
    <2>1. \A i \in DOMAIN puts : i \in DOMAIN batch /\ batch[i] = puts[i]
        BY <1>0
    <2>2. newest => \E i \in DOMAIN batch : batch[i] = [key |-> Latest, val |-> now]
        BY <1>0, <1>10
    <2>3. \A i \in DOMAIN batch :
              i \in DOMAIN puts \/ (newest /\ batch[i] = [key |-> Latest, val |-> now])
        BY <1>0, <1>10
    <2> HIDE DEF batch
    <2>4. x.batch = batch
        BY <1>13 DEF batch
    <2>5. QED BY <2>1, <2>2, <2>3, <2>4
<1>15. Batched(x, store.disk)
    <2>1. \A k \in x.block.state : store.disk[k] = k \/ \E i \in DOMAIN x.batch : x.batch[i].key = k
        BY <1>3, <1>4, <1>13, <1>14
    <2>2. \A i \in DOMAIN x.batch :
              \/ x.batch[i].key \in Keys /\ x.batch[i].val = x.batch[i].key
              \/ x.batch[i].key = Latest /\ x.batch[i].val = x.latest_era
        BY <1>4, <1>11, <1>13, <1>14
    <2>3. QED BY <1>6, <1>13, <2>1, <2>2 DEF Batched
<1>16. Good(x, store.disk)
    BY <1>8, <1>13, <1>15 DEF Good
<1>17. LatestOf(handles[h], store.disk) => LatestOf(x, store.disk)
    BY <1>1, <1>6, <1>13, <1>14 DEF LatestOf, now
<1>18. QED BY <1>1, <1>9, <1>12, <1>13, <1>16, <1>17, NotInjecting, OneHandle DEF JournalUnder

\* inject: it deletes nodes, which are none of the block it makes.
LEMMA InjectStep ==
    ASSUME IInv, NEW h \in Handles, Inject(h)
    PROVE  IInv'
<1> DEFINE bad == \/ \E k \in Signed(h, 1)  : View(store)[k] # Absent
                  \/ \E k \in Signed(h, -1) : View(store)[k] = Absent
           puts == Puts(Signed(h, 1))
           dels == Deletes(Signed(h, -1))
           batch == IF bad THEN <<>> ELSE puts \o dels
           b == [handles[h].block EXCEPT !.era = -1]
           pc == IF bad THEN "idle" ELSE "injected"
           x == [handles[h] EXCEPT !.overlay = EmptyOver(Keys), !.batch = batch,
                                   !.block = b, !.pc = pc]
<1>1. handles[h] \in HandleState /\ At(h, "exec") /\ handles[h].pc = "exec"
      /\ handles[h] # Dropped
    BY DEF IInv, Typed, Inject, At
<1>2. Executing(handles[h], store.disk)
    BY <1>1 DEF IInv, Kept, Good
<1>3. /\ Signed(h, 1) \subseteq Keys /\ Signed(h, -1) \subseteq Keys
      /\ \A k \in handles[h].block.state : store.disk[k] = k \/ k \in Signed(h, 1)
      /\ \A k \in Signed(h, -1) : k \notin handles[h].block.state
    BY <1>1, <1>2, SignedOfExecuting DEF HandleState, Block
<1>4. /\ puts \in Seq(Op)
      /\ \A i \in DOMAIN puts : puts[i].key \in Keys /\ puts[i].val = puts[i].key
      /\ \A k \in Signed(h, 1) : \E i \in DOMAIN puts : puts[i].key = k
    BY <1>3, PutsAndDeletes
<1>5. /\ dels \in Seq(Op)
      /\ \A i \in DOMAIN dels : dels[i].key \in Signed(h, -1) /\ dels[i].val = Deleted
    BY <1>3, PutsAndDeletes
<1>6. b \in Block /\ b.era = -1 /\ b.state = handles[h].block.state
    BY <1>1, HandleAssumption DEF HandleState, Block
<1>7. EmptyOver(Keys) \in [Keys -> Entry(Keys) \union {NoEntry}]
      /\ \A k \in Keys : Count(EmptyOver(Keys)[k]) = 0
    BY DEF EmptyOver, Count
<1>8. handles' = [handles EXCEPT ![h] = [@ EXCEPT !.overlay = EmptyOver(Keys),
                         !.batch = batch, !.block.era = -1, !.pc = pc]]
    BY DEF Inject
<1>9. pc \in {"idle", "injected"} /\ (pc = "injected" => batch = puts \o dels)
      /\ (pc = "idle" => batch = <<>>)
    OBVIOUS
<1> HIDE DEF bad, puts, dels, batch, b, pc
<1>10. /\ puts \o dels \in Seq(Op)
       /\ \A i \in DOMAIN puts : i \in DOMAIN (puts \o dels) /\ (puts \o dels)[i] = puts[i]
       /\ \A i \in DOMAIN dels :
              Len(puts) + i \in DOMAIN (puts \o dels) /\ (puts \o dels)[Len(puts) + i] = dels[i]
       /\ \A i \in DOMAIN (puts \o dels) :
              \/ i \in DOMAIN puts /\ (puts \o dels)[i] = puts[i]
              \/ \E j \in DOMAIN dels : i = Len(puts) + j /\ (puts \o dels)[i] = dels[j]
    BY <1>4, <1>5, Joined
<1>11. batch \in Seq(Op)
    <2>1. <<>> \in Seq(Op)
        OBVIOUS
    <2>2. QED BY <2>1, <1>9, <1>10
<1>0. handles' = [handles EXCEPT ![h] = x]
    <2>1. [handles[h] EXCEPT !.overlay = EmptyOver(Keys),
                         !.batch = batch, !.block.era = -1, !.pc = pc] = x
        BY <1>1 DEF b, HandleState, Block
    <2>2. QED BY <1>8, <2>1
<1>12. x \in HandleState
    BY <1>1, <1>6, <1>7, <1>9, <1>11 DEF HandleState
<1>13. /\ x.overlay = EmptyOver(Keys) /\ x.pc = pc /\ x.block = b /\ x.batch = batch
       /\ x.latest_era = handles[h].latest_era
    BY <1>1 DEF HandleState
<1> HIDE DEF x
<1>14. ASSUME pc = "injected" PROVE Batched(x, store.disk)
    <2>1. \A i \in DOMAIN puts : i \in DOMAIN batch /\ batch[i] = puts[i]
        BY <1>9, <1>10, <1>14
    <2>2. \A k \in x.block.state : store.disk[k] = k \/ \E i \in DOMAIN batch : batch[i].key = k
        BY <1>3, <1>4, <1>6, <1>13, <2>1
    <2>3. \A i \in DOMAIN batch :
              \/ \E j \in DOMAIN puts : batch[i] = puts[j]
              \/ \E j \in DOMAIN dels : batch[i] = dels[j]
        BY <1>9, <1>10, <1>14
    <2>4. \A i \in DOMAIN batch :
              \/ batch[i].key \in Keys /\ batch[i].val = batch[i].key
              \/ batch[i].key \in Keys \ x.block.state /\ batch[i].val = Deleted
        BY <2>3, <1>3, <1>4, <1>5, <1>6, <1>13
    <2>5. QED BY <2>2, <2>4, <1>13, <1>14 DEF Batched
<1>15. Good(x, store.disk)
    BY <1>7, <1>9, <1>13, <1>14 DEF Good
<1>16. LatestOf(handles[h], store.disk) => LatestOf(x, store.disk)
    BY <1>1, <1>9, <1>13 DEF LatestOf
<1>17. /\ x.block.era = -1
       /\ \A g \in Handles \ {h} : handles[g] = Dropped \/ At(g, "idle")
    BY <1>6, <1>13 DEF Inject
<1>18. QED BY <1>0, <1>1, <1>12, <1>15, <1>16, <1>17, NotInjecting, OneHandle DEF Inject

\* What has been good stays good when no node goes from the disk.
LEMMA GoodGrows ==
    ASSUME NEW x \in HandleState, NEW old, NEW new, Good(x, old),
           \A k \in Keys : old[k] = k => new[k] = k
    PROVE  Good(x, new)
<1>1. Executing(x, old) => Executing(x, new)
    BY DEF Executing
<1>2. Batched(x, old) => Batched(x, new)
    BY DEF Batched, HandleState, Block
<1>3. QED BY <1>1, <1>2 DEF Good

\* The batch of a handle, once it is written: the nodes of its block are all
\* on disk, those that were there still are if it was journalled, and the
\* stored era is the handle's if the batch has it.
LEMMA WrittenBatch ==
    ASSUME IInv, NEW h \in Handles, Write(h)
    PROVE  /\ Typed'
           /\ \A k \in handles[h].block.state : store'.disk[k] = k
           /\ At(h, "journalled") => \A k \in Keys : store.disk[k] = k => store'.disk[k] = k
           /\ IF \E i \in DOMAIN handles[h].batch : handles[h].batch[i].key = Latest
              THEN store'.disk[Latest] = handles[h].latest_era /\ handles[h].latest_era \in Eras
              ELSE store'.disk[Latest] = store.disk[Latest]
<1> DEFINE x == handles[h]
           ops == x.batch
<1>1. x \in HandleState /\ x.pc \in {"journalled", "injected"} /\ x # Dropped /\ ops \in Seq(Op)
    BY DEF IInv, Typed, Write, At, HandleState
<1>2. Batched(x, store.disk)
    BY <1>1 DEF IInv, Kept, Good
<1>3. \A i \in DOMAIN ops : ops[i].key = Latest => ops[i].val = x.latest_era /\ x.latest_era \in Eras
    BY <1>2, HandleAssumption DEF Batched
<1>4. /\ store' \in [buf : [DbKeys -> {Unbuffered}],
                     disk : [DbKeys -> Keys \union Eras \union {Absent}]]
      /\ store'.disk[Latest] \in Eras \union {Absent}
      /\ \A k \in DbKeys : store'.disk[k] =
             IF OnKey(ops, k) = {} THEN store.disk[k]
             ELSE Outcome(ops[Max(OnKey(ops, k))].val)
    <2>1. Typed
        BY DEF IInv
    <2>2. store' = Flushed(Recorded(store, ops))
        BY DEF Write
    <2>3. QED BY <1>1, <1>3, <2>1, <2>2, BatchWritten
<1>5. Len(ops) \in Nat /\ DOMAIN ops = 1 .. Len(ops)
    BY <1>1
<1> DEFINE lastOn(k) == ops[Max(OnKey(ops, k))]
<1>6. \A k : OnKey(ops, k) # {} => Max(OnKey(ops, k)) \in DOMAIN ops /\ lastOn(k).key = k
    BY <1>5, LastOnKey
<1>7. \A k \in Keys : k # Deleted
    BY MarkerAssumption
<1>8. ASSUME NEW k \in x.block.state PROVE store'.disk[k] = k
    <2>1. k \in Keys /\ k \in DbKeys
        BY <1>1 DEF HandleState, Block, DbKeys
    <2>2. CASE OnKey(ops, k) = {}
        BY <2>1, <2>2, <1>2, <1>4 DEF Batched, OnKey
    <2>3. CASE OnKey(ops, k) # {}
        <3>1. lastOn(k).val = k
            BY <2>1, <2>3, <1>2, <1>6, HandleAssumption DEF Batched
        <3>2. QED BY <2>1, <2>3, <3>1, <1>4, <1>7 DEF Outcome
    <2>4. QED BY <2>2, <2>3
<1>9. ASSUME At(h, "journalled"), NEW k \in Keys, store.disk[k] = k PROVE store'.disk[k] = k
    <2>1. k \in DbKeys /\ x.pc = "journalled"
        BY <1>9 DEF DbKeys, At
    <2>2. CASE OnKey(ops, k) = {}
        BY <2>1, <2>2, <1>4, <1>9
    <2>3. CASE OnKey(ops, k) # {}
        <3>1. lastOn(k).val = k
            BY <2>1, <2>3, <1>2, <1>6, HandleAssumption DEF Batched
        <3>2. QED BY <2>1, <2>3, <3>1, <1>4, <1>7 DEF Outcome
    <2>4. QED BY <2>2, <2>3
<1>10. Latest \in DbKeys
    BY DEF DbKeys
<1>11. ASSUME NEW i \in DOMAIN ops, ops[i].key = Latest
       PROVE  store'.disk[Latest] = x.latest_era /\ x.latest_era \in Eras
    <2>1. OnKey(ops, Latest) # {}
        BY <1>11 DEF OnKey
    <2>2. lastOn(Latest).val = x.latest_era /\ x.latest_era \in Eras
        BY <2>1, <1>3, <1>6
    <2>3. x.latest_era # Deleted
        BY <2>2, MarkerAssumption
    <2>4. QED BY <2>1, <2>2, <2>3, <1>4, <1>10 DEF Outcome
<1>12. ASSUME ~ \E i \in DOMAIN ops : ops[i].key = Latest
       PROVE  store'.disk[Latest] = store.disk[Latest]
    BY <1>4, <1>10, <1>12 DEF OnKey
<1>13. Typed'
    <2>1. [x EXCEPT !.batch = <<>>, !.pc = "idle"] \in HandleState
        <3>1. <<>> \in Seq(Op)
            OBVIOUS
        <3>2. QED BY <1>1, <3>1 DEF HandleState
    <2>2. handles' = [handles EXCEPT ![h] = [x EXCEPT !.batch = <<>>, !.pc = "idle"]]
        BY DEF Write, IInv, Typed
    <2>3. handles' \in [Handles -> HandleState \union {Dropped}]
        BY <2>1, <2>2 DEF IInv, Typed
    <2>4. x.block \in Block
        BY <1>1 DEF HandleState
    <2>5. archived' \subseteq Block
        BY <2>4 DEF Write, IInv, Typed
    <2>6. QED BY <2>3, <2>5, <1>4 DEF Typed, IInv, Write
<1>14. QED BY <1>8, <1>9, <1>11, <1>12, <1>13

\* The write of a batch: what is archived stays, and the block is added.
LEMMA WriteStep ==
    ASSUME IInv, NEW h \in Handles, Write(h)
    PROVE  IInv'
<1> DEFINE x == handles[h]
           y == [x EXCEPT !.batch = <<>>, !.pc = "idle"]
<1>1. x \in HandleState /\ x.pc \in {"journalled", "injected"} /\ x # Dropped
      /\ (At(h, "injected") <=> x.pc = "injected")
      /\ (At(h, "journalled") <=> x.pc = "journalled")
    BY DEF IInv, Typed, Write, At, HandleState
<1>2. /\ Typed'
      /\ \A k \in x.block.state : store'.disk[k] = k
      /\ At(h, "journalled") => \A k \in Keys : store.disk[k] = k => store'.disk[k] = k
      /\ IF \E i \in DOMAIN x.batch : x.batch[i].key = Latest
         THEN store'.disk[Latest] = x.latest_era /\ x.latest_era \in Eras
         ELSE store'.disk[Latest] = store.disk[Latest]
    BY WrittenBatch
<1>3. /\ handles'[h] = y /\ \A g \in Handles \ {h} : handles'[g] = handles[g]
      /\ y.pc = "idle" /\ y.overlay = x.overlay /\ y.latest_era = x.latest_era
    BY <1>1 DEF Write, IInv, Typed, HandleState
<1> HIDE DEF y
<1>4. Good(x, store.disk) /\ x.overlay = EmptyOver(Keys)
    BY <1>1 DEF IInv, Kept, Good
<1>5. Good(y, store'.disk)
    BY <1>3, <1>4 DEF Good
<1>6. \A g \in Handles \ {h} : handles[g] # Dropped => handles[g] \in HandleState
    BY DEF IInv, Typed
<1>7. \A g \in Handles \ {h} : handles[g] # Dropped => Good(handles[g], store'.disk)
    <2>1. CASE At(h, "journalled")
        <3>1. TAKE g \in Handles \ {h}
        <3>2. handles[g] # Dropped => handles[g] \in HandleState /\ Good(handles[g], store.disk)
            BY <1>6 DEF IInv, Kept
        <3>3. QED BY <2>1, <3>2, <1>2, GoodGrows
    <2>2. CASE At(h, "injected")
        <3>1. \A g \in Handles \ {h} : handles[g] # Dropped =>
                  handles[g].pc = "idle" /\ Good(handles[g], store.disk)
            BY <2>2 DEF IInv, Kept, At
        <3>2. QED BY <3>1 DEF Good
    <2>3. QED BY <1>1, <2>1, <2>2
<1>8. Kept'
    <2>1. \A g \in Handles : handles'[g] # Dropped => Good(handles'[g], store'.disk)
        BY <1>3, <1>5, <1>7
    <2>2. \A b \in archived' : \A k \in b.state : store'.disk[k] = k
        <3>1. CASE At(h, "journalled")
            <4>1. archived' = archived \union {x.block}
                BY <3>1, <1>1 DEF Write
            <4>2. \A b \in archived : \A k \in b.state : k \in Keys /\ store.disk[k] = k
                BY DEF IInv, Kept, Typed, Block
            <4>3. QED BY <3>1, <4>1, <4>2, <1>2
        <3>2. CASE At(h, "injected")
            BY <3>2, <1>2 DEF Write
        <3>3. QED BY <1>1, <3>1, <3>2
    <2>3. \A g \in Handles : ~ At(g, "injected")'
        <3>1. \A g \in Handles \ {h} : ~ At(g, "injected")
            BY <1>1 DEF IInv, Kept, At
        <3>2. QED BY <3>1, <1>3 DEF At
    <2>4. QED BY <2>1, <2>2, <2>3 DEF Kept
<1>9. Alone'
    <2>1. SUFFICES ASSUME ~cloned PROVE Alone'
        BY DEF Alone, Write
    <2>2. h = First /\ \A g \in Handles \ {First} : handles[g] = Dropped
        BY <2>1, <1>1 DEF IInv, Alone
    <2>3. LatestOf(x, store.disk)
        BY <2>1, <2>2, <1>1 DEF IInv, Alone
    <2>4. x.latest_era \in Eras => x.latest_era # Absent
        BY MarkerAssumption
    <2>5. x.latest_era = Stored(store'.disk)
        BY <2>3, <2>4, <1>1, <1>2 DEF LatestOf, Stored
    <2>6. LatestOf(y, store'.disk)
        BY <2>5, <1>3 DEF LatestOf
    <2>7. \A b \in archived' : b.era >= 0 =>
              Stored(store'.disk) # NoEra /\ Stored(store'.disk) >= b.era
        <3>1. CASE x.pc = "injected"
            BY <3>1, <1>1 DEF IInv, Kept, Write
        <3>2. CASE x.pc = "journalled"
            <4>1. /\ x.latest_era \in Eras /\ x.latest_era >= x.block.era
                  /\ Stored(store.disk) = NoEra \/ Stored(store.disk) <= x.latest_era
                BY <2>3, <3>2 DEF LatestOf
            <4>2. \A b \in archived : b.era \in Int /\ (b.era >= 0 =>
                      Stored(store.disk) # NoEra /\ Stored(store.disk) >= b.era)
                BY <2>1, HandleAssumption DEF IInv, Alone, Typed, Block
            <4>3. Stored(store.disk) \in Eras \union {NoEra}
                BY DEF Stored, IInv, Typed
            <4>4. x.latest_era # NoEra
                BY <4>1, MarkerAssumption
            <4>5. archived' = archived \union {x.block}
                BY <3>2, <1>1 DEF Write
            <4>6. \A b \in archived : b.era >= 0 => x.latest_era >= b.era
                BY <4>1, <4>2, <4>3, HandleAssumption DEF Eras
            <4>7. QED BY <4>1, <4>4, <4>5, <4>6, <2>5
        <3>3. QED BY <1>1, <3>1, <3>2
    <2>8. QED BY <2>2, <2>6, <2>7, <1>3 DEF Alone
<1>10. Recoverable'
    BY DEF IInv, Recoverable, Write
<1>11. QED BY <1>2, <1>8, <1>9, <1>10 DEF IInv

\* RocksDB writes out what it has been given.
LEMMA MemtableFlushStep ==
    ASSUME IInv, MemtableFlush
    PROVE  IInv'
<1>1. Typed' /\ Kept' /\ Alone'
    BY DEF MemtableFlush, IInv, Typed, Kept, Alone, At
<1>2. /\ stable'.disk = store.disk /\ stable'.archived = archived
      /\ cloned' = cloned
    BY DEF MemtableFlush, Given
<1>3. Recoverable'
    BY <1>2 DEF Recoverable, IInv, Typed, Kept, Alone
<1>4. QED BY <1>1, <1>3 DEF IInv

\* A crash leaves a disk with its blocks and loses the handles.
LEMMA CrashStep ==
    ASSUME IInv, Crash
    PROVE  IInv'
<1> DEFINE disk == Stable.disk
<1>1. /\ disk \in [DbKeys -> Keys \union Eras \union {Absent}]
      /\ disk[Latest] \in Eras \union {Absent}
      /\ Stable.archived \subseteq Block
      /\ \A b \in Stable.archived : \A k \in b.state : disk[k] = k
      /\ ~cloned => \A b \in Stable.archived : b.era >= 0 =>
             Stored(disk) # NoEra /\ Stored(disk) >= b.era
    <2>1. CASE config.wal
        <3>1. disk = store.disk /\ Stable.archived = archived
            BY <2>1 DEF Stable, Given
        <3>2. QED BY <3>1 DEF IInv, Typed, Kept, Alone
    <2>2. CASE ~config.wal
        BY <2>2 DEF Stable, IInv, Recoverable
    <2>3. QED BY <2>1, <2>2
<1>2. /\ store' = [buf |-> EmptyBuf(DbKeys), disk |-> disk]
      /\ archived' = Stable.archived
      /\ handles' = [h \in Handles |-> IF h = First THEN Opened(disk) ELSE Dropped]
      /\ cloned' = cloned /\ config' = config /\ stable' = stable
    BY DEF Crash
<1> HIDE DEF disk
<1>3. /\ Opened(disk) \in HandleState
      /\ Opened(disk).pc = "idle"
      /\ Good(Opened(disk), disk)
      /\ LatestOf(Opened(disk), disk)
    BY <1>1, OpenedGood
<1>4. store'.disk = disk /\ store' \in [buf : [DbKeys -> {Unbuffered}],
                  disk : [DbKeys -> Keys \union Eras \union {Absent}]]
    BY <1>1, <1>2 DEF EmptyBuf
<1>5. Typed'
    BY <1>1, <1>2, <1>3, <1>4 DEF Typed, IInv
<1>6. Kept'
    BY <1>1, <1>2, <1>3, <1>4 DEF Kept, At
<1>7. Alone'
    BY <1>1, <1>2, <1>3, <1>4, HandleAssumption DEF Alone
<1>8. Recoverable'
    BY <1>2 DEF IInv, Recoverable
<1>9. QED BY <1>5, <1>6, <1>7, <1>8 DEF IInv

\* Every step keeps the invariant.
LEMMA NextIInv == ASSUME IInv, [Next]_vars PROVE IInv'
<1>1. ASSUME NEW h \in Handles, NEW g \in Handles, Clone(h, g) PROVE IInv'
    BY <1>1, CloneStep
<1>2. ASSUME NEW h \in Handles, NEW parent \in archived, Begin(h, parent) PROVE IInv'
    BY <1>2, BeginStep
<1>3. ASSUME NEW h \in Handles, NEW k \in Keys, Insert(h, k) \/ Remove(h, k) PROVE IInv'
    BY <1>3, InsertStep, RemoveStep
<1>4. ASSUME NEW h \in Handles, JournalUnder(h) \/ Inject(h) \/ Write(h) PROVE IInv'
    BY <1>4, JournalUnderStep, InjectStep, WriteStep
<1>5. CASE Crash
    BY <1>5, CrashStep
<1>6. CASE MemtableFlush
    BY <1>6, MemtableFlushStep
<1>7. CASE UNCHANGED vars
    BY <1>7 DEF IInv, Typed, Kept, Alone, Recoverable, At, vars
<1>8. QED BY <1>1, <1>2, <1>3, <1>4, <1>5, <1>6, <1>7 DEF Next

\* The inductive invariant holds in every state of every behaviour.
THEOREM Invariance == Spec => []IInv
BY InitIInv, NextIInv, PTL DEF Spec

-------------------------------------------------------------------------------
(* What it gives.                                                          *)

\* Nothing is buffered between two writes.
LEMMA ViewIsDisk == ASSUME IInv PROVE View(store) = store.disk
BY MarkerAssumption DEF View, IInv, Typed

\* The handles, the store and the archive have their types.
THEOREM TypeCorrect == Spec => []TypeOK
<1>1. IInv => TypeOK
    BY DEF IInv, Typed, Recoverable, TypeOK, HandleState
<1>2. QED BY <1>1, Invariance, PTL

\* Every node of every block written stays readable: from the database, and
\* through every handle, because an overlay that has a count above zero for a
\* node has the node.  After a crash the disk has every node of the blocks that
\* RocksDB kept, which with a write-ahead log are all.
THEOREM KeepsAll == Spec => []ArchiveKeepsAll
<1>1. ASSUME IInv, NEW b \in archived, NEW k \in b.state
      PROVE  /\ state(k) = k
             /\ \A h \in Handles : handles[h] # Dropped => get(h, k) = k
    <2>1. state(k) = store.disk[k]
        BY DEF state
    <2>2. k \in Keys /\ k \in DbKeys /\ store.disk[k] = k
        BY <1>1 DEF IInv, Typed, Kept, Block, DbKeys
    <2>3. View(store)[k] = k
        BY <1>1, <2>2, ViewIsDisk
    <2>4. ASSUME NEW h \in Handles, handles[h] # Dropped PROVE get(h, k) = k
        <3>1. Good(handles[h], store.disk)
            BY <1>1, <2>4 DEF IInv, Kept
        <3>2. QED BY <2>2, <2>3, <3>1 DEF get, payload, Good, Count
    <2>5. QED BY <2>1, <2>2, <2>4
<1>2. ASSUME IInv, NEW b \in IF config.wal THEN archived ELSE stable.archived,
             NEW k \in b.state
      PROVE  Stable.disk[k] = k
    <2>1. CASE config.wal
        <3>1. Stable.disk = store.disk /\ b \in archived
            BY <1>2, <2>1 DEF Stable, Given
        <3>2. QED BY <1>2, <3>1 DEF IInv, Kept
    <2>2. CASE ~config.wal
        <3>1. Stable = stable /\ b \in stable.archived
            BY <1>2, <2>2 DEF Stable
        <3>2. QED BY <1>2, <3>1 DEF IInv, Recoverable
    <2>3. QED BY <2>1, <2>2
<1>3. IInv => ArchiveKeepsAll
    BY <1>1, <1>2 DEF ArchiveKeepsAll
<1>4. QED BY <1>3, Invariance, PTL

\* A block that is executed reads what it has of its parent and what it has
\* inserted.
THEOREM ExecutionReadsBack == Spec => []ExecutionReads
<1>1. IInv => ExecutionReads
    <2>1. SUFFICES ASSUME IInv, NEW h \in Handles, At(h, "exec"),
                          NEW k \in handles[h].block.state
                   PROVE  get(h, k) = k
        BY DEF ExecutionReads
    <2>2. k \in Keys /\ k \in DbKeys
        BY <2>1 DEF IInv, Typed, At, HandleState, Block, DbKeys
    <2>3. Good(handles[h], store.disk) /\ Executing(handles[h], store.disk)
        BY <2>1 DEF IInv, Kept, Good, At
    <2>4. View(store)[k] = store.disk[k]
        BY <2>1, <2>2, ViewIsDisk
    <2>5. QED BY <2>2, <2>3, <2>4 DEF get, payload, Good, Executing, Count
<1>2. QED BY <1>1, Invariance, PTL

\* A handle that was never cloned agrees with the database about the latest
\* era, which is that of the highest block it still has.
THEOREM LatestEra == Spec => []LatestEraAlone
<1>1. IInv => LatestEraAlone
    <2>1. SUFFICES ASSUME IInv, ~cloned, NEW h \in Handles, At(h, "idle") \/ At(h, "exec")
                   PROVE  /\ handles[h].latest_era = Stored(View(store))
                          /\ \A b \in archived : b.era >= 0 =>
                                handles[h].latest_era # NoEra /\ handles[h].latest_era >= b.era
        BY DEF LatestEraAlone, LatestEraExact
    <2>2. h = First /\ handles[First] # Dropped
        BY <2>1 DEF IInv, Alone, At
    <2>3. handles[h].latest_era = Stored(store.disk)
        BY <2>1, <2>2 DEF IInv, Alone, LatestOf, At
    <2>4. View(store)[Latest] = store.disk[Latest]
        BY <2>1, ViewIsDisk
    <2>5. QED BY <2>1, <2>3, <2>4 DEF Stored, IInv, Alone
<1>2. QED BY <1>1, Invariance, PTL
===============================================================================
