---------------------------- MODULE MemoryDBProofs ----------------------------
(***************************************************************************)
(* Proofs about MemoryDBSpec, for every set of keys and values and every   *)
(* bound on the counts.                                                    *)
(***************************************************************************)
EXTENDS MemoryDBSpec, TLAPS

\* What one slot holds after any one of the methods, when the slot was well
\* formed before: it is well formed, and a non-negative count still comes
\* with the value v of its key.
Sound(e, v) == e \in Slots /\ (e # NoEntry /\ e.rc >= 0 => e.val = v)

\* Insertion keeps a slot sound: the placeholder is replaced before the count
\* can become non-negative (emplace, insert).
LEMMA EmplaceSound ==
    ASSUME NEW v \in Values, NEW e, Sound(e, v)
    PROVE  Sound(EmplaceEntry(e, v), v)
<1>1. CASE e = NoEntry
    BY <1>1, MarkersDistinct DEF Sound, EmplaceEntry, Slots, Entry
<1>2. CASE e # NoEntry
    BY <1>2, MarkersDistinct DEF Sound, EmplaceEntry, Slots, Entry
<1>3. QED BY <1>1, <1>2

\* Removal keeps a slot sound (remove).
LEMMA RemoveSound ==
    ASSUME NEW v \in Values, NEW e, Sound(e, v)
    PROVE  Sound(RemoveEntry(e), v)
<1>1. CASE e = NoEntry
    BY <1>1, MarkersDistinct DEF Sound, RemoveEntry, Slots, Entry
<1>2. CASE e # NoEntry
    BY <1>2, MarkersDistinct DEF Sound, RemoveEntry, Slots, Entry
<1>3. QED BY <1>1, <1>2

\* So does a removal that vacates the slot of a last reference
\* (remove_and_purge).
LEMMA RemoveAndPurgeSound ==
    ASSUME NEW v \in Values, NEW e, Sound(e, v)
    PROVE  Sound(RemoveAndPurgeEntry(e), v)
<1>1. CASE e # NoEntry /\ e.rc = 1
    BY <1>1 DEF Sound, RemoveAndPurgeEntry, Slots
<1>2. CASE ~(e # NoEntry /\ e.rc = 1)
    BY <1>2, RemoveSound DEF RemoveAndPurgeEntry
<1>3. QED BY <1>1, <1>2

\* Merging two sound slots gives a sound slot: a sum that is not negative has
\* a term that is not negative, and consolidate keeps that term's value.
LEMMA ConsolidateSound ==
    ASSUME NEW v \in Values, NEW e, NEW f, Sound(e, v), Sound(f, v)
    PROVE  Sound(ConsolidateEntry(e, f), v)
<1>1. CASE f = NoEntry
    BY <1>1, MarkersDistinct DEF Sound, ConsolidateEntry, Slots
<1>2. CASE f # NoEntry /\ e = NoEntry
    BY <1>2, MarkersDistinct DEF Sound, ConsolidateEntry, Slots
<1>3. CASE f # NoEntry /\ e # NoEntry
    <2>1. e \in Entry(Values) /\ f \in Entry(Values)
        BY <1>3 DEF Sound, Slots
    <2>2. ConsolidateEntry(e, f) =
              [val |-> IF e.rc < 0 THEN f.val ELSE e.val, rc |-> e.rc + f.rc]
        BY <1>3 DEF ConsolidateEntry
    <2>3. ConsolidateEntry(e, f) \in Entry(Values)
        BY <2>1, <2>2 DEF Entry
    <2>4. ConsolidateEntry(e, f).rc >= 0 => ConsolidateEntry(e, f).val = v
        BY <1>3, <2>1, <2>2 DEF Sound, Entry
    <2>5. QED BY <2>3, <2>4 DEF Sound, Slots
<1>4. QED BY <1>1, <1>2, <1>3

\* purge vacates a slot or leaves it as it is.
LEMMA PurgeSound ==
    ASSUME NEW v \in Values, NEW e, Sound(e, v)
    PROVE  Sound(PurgeEntry(e), v)
BY DEF Sound, PurgeEntry, Slots

-------------------------------------------------------------------------------
\* The invariant says that every slot of both maps is sound.
AllSound(m) == m \in [Keys -> Slots] /\ \A k \in Keys : Sound(m[k], ValueOf[k])

\* The invariant says that every slot of both maps is sound.
LEMMA IInvIsSound == IInv <=> AllSound(data) /\ AllSound(other)
BY DEF IInv, TypeOK, LiveValues, ValueAgrees, AllSound, Sound

\* An empty map is sound.
LEMMA EmptySound == AllSound(EmptyOver(Keys))
BY DEF AllSound, Sound, EmptyOver, Slots

\* insert, remove and remove_and_purge keep a map sound.
LEMMA UpdateSound ==
    ASSUME NEW m, AllSound(m), NEW k \in Keys
    PROVE  /\ AllSound(Emplace(m, k))
           /\ AllSound(Remove(m, k))
           /\ AllSound(RemoveAndPurge(m, k))
<1>1. ValueOf[k] \in Values /\ Sound(m[k], ValueOf[k]) /\ m \in [Keys -> Slots]
    BY KeysAssumption DEF AllSound
<1>2. ASSUME NEW e, Sound(e, ValueOf[k])
      PROVE  AllSound([m EXCEPT ![k] = e])
    BY <1>1, <1>2 DEF AllSound, Sound
<1>3. AllSound(Emplace(m, k))
    BY <1>1, <1>2, EmplaceSound DEF Emplace
<1>4. AllSound(Remove(m, k))
    BY <1>1, <1>2, RemoveSound DEF Remove
<1>5. AllSound(RemoveAndPurge(m, k))
    BY <1>1, <1>2, RemoveAndPurgeSound DEF RemoveAndPurge
<1>6. QED BY <1>3, <1>4, <1>5

\* Every step keeps both maps sound.
LEMMA StepSound == IInv /\ [Next]_vars => IInv'
<1>1. SUFFICES ASSUME AllSound(data), AllSound(other), [Next]_vars
               PROVE  AllSound(data') /\ AllSound(other')
    BY IInvIsSound DEF IInv, TypeOK, LiveValues, ValueAgrees, AllSound, Sound, Slots
<1>2. CASE UNCHANGED vars
    BY <1>1, <1>2 DEF vars
<1>3. ASSUME NEW k \in Keys, KeyStep(k)
      PROVE  AllSound(data') /\ AllSound(other')
    BY <1>1, <1>3, UpdateSound
       DEF KeyStep, InsertKey, RemoveKey, PurgeKey, InsertOther, RemoveOther
<1>4. CASE Purge
    BY <1>1, <1>4, PurgeSound, KeysAssumption DEF Purge, AllSound, Sound
<1>5. CASE Consolidate
    <2>1. \A k \in Keys : Sound(ConsolidateEntry(data[k], other[k]), ValueOf[k])
        BY <1>1, ConsolidateSound, KeysAssumption DEF AllSound
    <2>2. AllSound(data')
        BY <1>5, <2>1 DEF Consolidate, AllSound, Sound
    <2>3. QED BY <1>5, <2>2, EmptySound DEF Consolidate
<1>6. CASE Drain
    BY <1>1, <1>6, EmptySound DEF Drain
<1>7. QED BY <1>1, <1>2, <1>3, <1>4, <1>5, <1>6 DEF Next

\* The inductive invariant holds in every state of every behaviour.
LEMMA Inductive == Spec => []IInv
<1>1. Init => IInv
    BY EmptySound, IInvIsSound DEF Init
<1>2. QED BY <1>1, StepSound, PTL DEF Spec

\* The maps hold well-formed entries for ever (memorydb.rs, `data`).
THEOREM TypeCorrect == Spec => []TypeOK
<1>1. IInv => TypeOK BY DEF IInv
<1>2. QED BY <1>1, Inductive, PTL

\* A slot whose count is not negative holds the value of its key, through
\* every interleaving of insertions, removals, purges and consolidations.
THEOREM LiveValuesCorrect == Spec => []LiveValues
<1>1. IInv => LiveValues BY DEF IInv
<1>2. QED BY <1>1, Inductive, PTL

\* HashStore::get answers with the value whose hash the key is, or not at all.
THEOREM GetSound ==
    Spec => []\A k \in Keys : Get(data, k) \in {NoEntry, ValueOf[k]}
<1>1. IInv => \A k \in Keys : Get(data, k) \in {NoEntry, ValueOf[k]}
    BY DEF IInv, TypeOK, LiveValues, ValueAgrees, Get, Contains, Count, Slots, Entry
<1>2. QED BY <1>1, Inductive, PTL

-------------------------------------------------------------------------------
\* The counts move as the abstract store says.
LEMMA CountSteps ==
    ASSUME NEW e \in Slots, NEW f \in Slots, NEW v \in Values
    PROVE  /\ Count(e) \in Int
           /\ Count(EmplaceEntry(e, v)) = Count(e) + 1
           /\ Count(RemoveEntry(e)) = Count(e) + (-1)
           /\ Count(RemoveAndPurgeEntry(e)) = Count(e) + (-1)
           /\ Count(PurgeEntry(e)) = Count(e)
           /\ Count(ConsolidateEntry(e, f)) = Count(e) + Count(f)
<1>1. \A val, rc : rc \in Int /\ val \in Values \union {NoValue}
                     => [val |-> val, rc |-> rc] # NoEntry
    BY MarkersDistinct DEF Entry
<1>2. Count(e) \in Int
    BY DEF Slots, Entry, Count
<1>3. Count(EmplaceEntry(e, v)) = Count(e) + 1
    BY <1>1 DEF Slots, Entry, Count, EmplaceEntry
<1>4. Count(RemoveEntry(e)) = Count(e) + (-1)
    <2>1. CASE e = NoEntry
        BY <1>1, <2>1 DEF Count, RemoveEntry
    <2>2. CASE e # NoEntry
        <3>1. e \in Entry(Values) BY <2>2 DEF Slots
        <3>2. [e EXCEPT !.rc = @ - 1] \in Entry(Values) BY <3>1 DEF Entry
        <3>3. [e EXCEPT !.rc = @ - 1] # NoEntry BY <3>2, MarkersDistinct
        <3>4. QED BY <2>2, <3>1, <3>3 DEF Count, RemoveEntry, Entry
    <2>3. QED BY <2>1, <2>2
<1>5. Count(RemoveAndPurgeEntry(e)) = Count(e) + (-1)
    BY <1>4 DEF RemoveAndPurgeEntry, Count
<1>6. Count(PurgeEntry(e)) = Count(e)
    BY DEF PurgeEntry, Count
<1>7. Count(ConsolidateEntry(e, f)) = Count(e) + Count(f)
    <2>1. CASE e = NoEntry \/ f = NoEntry
        BY <2>1, <1>2 DEF ConsolidateEntry, Count, Slots, Entry
    <2>2. CASE e # NoEntry /\ f # NoEntry
        <3>1. e \in Entry(Values) /\ f \in Entry(Values) BY <2>2 DEF Slots
        <3>2. ConsolidateEntry(e, f) =
                  [val |-> IF e.rc < 0 THEN f.val ELSE e.val, rc |-> e.rc + f.rc]
            BY <2>2 DEF ConsolidateEntry
        <3>3. ConsolidateEntry(e, f) # NoEntry
            BY <1>1, <3>1, <3>2 DEF Entry
        <3>4. QED BY <2>2, <3>2, <3>3 DEF Count
    <2>3. QED BY <2>1, <2>2
<1>8. QED BY <1>2, <1>3, <1>4, <1>5, <1>6, <1>7

\* One method on one key of one map is one abstract step on its counts, or
\* none at all when the key is the empty trie's.
CountsOf(m) == [k \in Keys |-> Count(m[k])]

\* An update bumps one count by one, or none.
LEMMA UpdateCounts ==
    ASSUME NEW m \in [Keys -> Slots], NEW k \in Keys
    PROVE  /\ CountsOf(Emplace(m, k)) \in {CountsOf(m), Abs!Bump(CountsOf(m), k, 1)}
           /\ CountsOf(Remove(m, k)) \in {CountsOf(m), Abs!Bump(CountsOf(m), k, -1)}
           /\ CountsOf(RemoveAndPurge(m, k))
                  \in {CountsOf(m), Abs!Bump(CountsOf(m), k, -1)}
<1>1. ValueOf[k] \in Values /\ m[k] \in Slots
    BY KeysAssumption
<1>3. CountsOf(Emplace(m, k)) \in {CountsOf(m), Abs!Bump(CountsOf(m), k, 1)}
    <2>1. Count(EmplaceEntry(m[k], ValueOf[k])) = Count(m[k]) + 1
        BY <1>1, CountSteps
    <2>2. CountsOf([m EXCEPT ![k] = EmplaceEntry(m[k], ValueOf[k])])
              = Abs!Bump(CountsOf(m), k, 1)
        BY <1>1, <2>1 DEF CountsOf, Abs!Bump
    <2>3. Emplace(m, k) \in {m, [m EXCEPT ![k] = EmplaceEntry(m[k], ValueOf[k])]}
        BY DEF Emplace
    <2>4. QED BY <2>2, <2>3
<1>4. CountsOf(Remove(m, k)) \in {CountsOf(m), Abs!Bump(CountsOf(m), k, -1)}
    <2>1. Count(RemoveEntry(m[k])) = Count(m[k]) + (-1)
        BY <1>1, CountSteps
    <2>2. CountsOf([m EXCEPT ![k] = RemoveEntry(m[k])])
              = Abs!Bump(CountsOf(m), k, -1)
        BY <1>1, <2>1 DEF CountsOf, Abs!Bump
    <2>3. Remove(m, k) \in {m, [m EXCEPT ![k] = RemoveEntry(m[k])]}
        BY DEF Remove
    <2>4. QED BY <2>2, <2>3
<1>5. CountsOf(RemoveAndPurge(m, k)) \in {CountsOf(m), Abs!Bump(CountsOf(m), k, -1)}
    <2>1. Count(RemoveAndPurgeEntry(m[k])) = Count(m[k]) + (-1)
        BY <1>1, CountSteps
    <2>2. CountsOf([m EXCEPT ![k] = RemoveAndPurgeEntry(m[k])])
              = Abs!Bump(CountsOf(m), k, -1)
        BY <1>1, <2>1 DEF CountsOf, Abs!Bump
    <2>3. RemoveAndPurge(m, k) \in {m, [m EXCEPT ![k] = RemoveAndPurgeEntry(m[k])]}
        BY DEF RemoveAndPurge
    <2>4. QED BY <2>2, <2>3
<1>6. QED BY <1>3, <1>4, <1>5

\* MemoryDB implements the signed counting store: every method moves the
\* counts by exactly what was asked for, and consolidate adds the overlay's.
THEOREM CountsRefinement == Spec => CountsImplemented
<1>1. Init => Abs!Init
    BY DEF Init, Abs!Init, EmptyOver, Count
<1>2. TypeOK /\ [Next]_vars => [Abs!Next]_<<CountsOf(data), CountsOf(other)>>
    <2>1. SUFFICES ASSUME TypeOK, [Next]_vars
                   PROVE  [Abs!Next]_<<CountsOf(data), CountsOf(other)>>
        OBVIOUS
    <2>2. CASE UNCHANGED vars
        BY <2>2 DEF vars, CountsOf
    <2>3. ASSUME NEW k \in Keys, KeyStep(k)
          PROVE  [Abs!Next]_<<CountsOf(data), CountsOf(other)>>
        <3>1. /\ CountsOf(data)' \in {CountsOf(data)} \union
                      {Abs!Bump(CountsOf(data), k, d) : d \in {-1, 1}}
              /\ CountsOf(other)' = CountsOf(other)
              \/ /\ CountsOf(other)' \in {CountsOf(other)} \union
                        {Abs!Bump(CountsOf(other), k, d) : d \in {-1, 1}}
                 /\ CountsOf(data)' = CountsOf(data)
            <4>1. /\ CountsOf(data)' = CountsOf(data')
                  /\ CountsOf(other)' = CountsOf(other')
                BY DEF CountsOf
            <4>2. CASE InsertKey(k) \/ RemoveKey(k) \/ PurgeKey(k)
                BY <2>1, <4>1, <4>2, UpdateCounts
                   DEF TypeOK, InsertKey, RemoveKey, PurgeKey
            <4>3. CASE InsertOther(k) \/ RemoveOther(k)
                BY <2>1, <4>1, <4>3, UpdateCounts
                   DEF TypeOK, InsertOther, RemoveOther
            <4>4. QED BY <2>3, <4>2, <4>3 DEF KeyStep
        <3>2. QED BY <3>1 DEF Abs!Next, Abs!Step, CountsOf
    <2>4. CASE Purge
        <3>1. CountsOf(data)' = CountsOf(data)
            BY <2>1, <2>4, CountSteps, KeysAssumption DEF TypeOK, Purge, CountsOf
        <3>2. QED BY <2>4, <3>1 DEF Purge, CountsOf
    <2>5. CASE Consolidate
        <3>1. \A k \in Keys : Count(data'[k]) = Count(data[k]) + Count(other[k])
            BY <2>1, <2>5, CountSteps, KeysAssumption DEF TypeOK, Consolidate
        <3>2. \A k \in Keys : Count(other'[k]) = 0
            BY <2>5 DEF Consolidate, EmptyOver, Count
        <3>3. Abs!Merge
            BY <3>1, <3>2 DEF Abs!Merge
        <3>4. QED BY <3>3 DEF Abs!Next
    <2>6. CASE Drain
        BY <2>6 DEF Drain, EmptyOver, Count, Abs!Next, Abs!Reset
    <2>7. QED BY <2>1, <2>2, <2>3, <2>4, <2>5, <2>6 DEF Next
<1>3. QED
    BY <1>1, <1>2, TypeCorrect, PTL DEF Spec, CountsImplemented, Abs!Spec, CountsOf
===============================================================================
