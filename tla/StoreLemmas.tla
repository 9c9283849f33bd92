------------------------------ MODULE StoreLemmas ------------------------------
(***************************************************************************)
(* What the proofs about the stores share: what the operators of           *)
(* RocksStore do to the view of a store.                                   *)
(***************************************************************************)
EXTENDS RocksStore, SetLemmas

\* The operations of a batch on one key, and what its last one makes of it.
OnKey(ops, k) == {i \in DOMAIN ops : ops[i].key = k}
Outcome(v) == IF v = Deleted THEN Absent ELSE v

\* The last of the operations of a batch on a key that it mentions.
LEMMA LastOnKey ==
    ASSUME NEW ops, Len(ops) \in Nat, DOMAIN ops = 1 .. Len(ops),
           NEW k, OnKey(ops, k) # {}
    PROVE  /\ Max(OnKey(ops, k)) \in DOMAIN ops
           /\ ops[Max(OnKey(ops, k))].key = k
           /\ \A i \in OnKey(ops, k) : i <= Max(OnKey(ops, k))
<1>1. OnKey(ops, k) \subseteq 1 .. Len(ops)
    BY DEF OnKey
<1>2. Max(OnKey(ops, k)) \in OnKey(ops, k) /\ \A i \in OnKey(ops, k) : i <= Max(OnKey(ops, k))
    BY <1>1, MaxIn
<1>3. QED BY <1>2 DEF OnKey

Stores(K, V) == [buf : [K -> V], disk : [K -> V]]

IsBatch(ops, V) ==
    /\ Len(ops) \in Nat /\ DOMAIN ops = 1 .. Len(ops)
    /\ \A i \in DOMAIN ops : ops[i].val \in V \ {Unbuffered}

\* put and delete: a key reads as its last operation says, or as before.
LEMMA RecordedView ==
    ASSUME NEW K, NEW V, NEW st \in Stores(K, V), NEW ops, IsBatch(ops, V)
    PROVE  /\ Recorded(st, ops) \in Stores(K, V)
           /\ Recorded(st, ops).disk = st.disk
           /\ View(Recorded(st, ops)) \in [K -> V \union {Absent}]
           /\ \A k \in K : View(Recorded(st, ops))[k] =
                  IF OnKey(ops, k) = {} THEN View(st)[k]
                  ELSE Outcome(ops[Max(OnKey(ops, k))].val)
<1> DEFINE buf == [k \in K |-> IF OnKey(ops, k) = {} THEN st.buf[k]
                               ELSE ops[Max(OnKey(ops, k))].val]
<1>0. st \in [buf : [K -> V], disk : [K -> V]]
    BY DEF Stores
<1>1. Recorded(st, ops) = [st EXCEPT !.buf = buf]
    BY <1>0 DEF Recorded, OnKey
<1>2. \A k \in K : OnKey(ops, k) # {} => ops[Max(OnKey(ops, k))].val \in V \ {Unbuffered}
    BY LastOnKey DEF IsBatch
<1>3. buf \in [K -> V]
    BY <1>0, <1>2
<1>4. Recorded(st, ops) \in [buf : [K -> V], disk : [K -> V]]
      /\ Recorded(st, ops).disk = st.disk /\ Recorded(st, ops).buf = buf
    BY <1>0, <1>1, <1>3
<1>5. View(Recorded(st, ops)) =
        [k \in K |-> CASE buf[k] = Unbuffered -> st.disk[k]
                       [] buf[k] = Deleted -> Absent
                       [] OTHER -> buf[k]]
    BY <1>0, <1>4 DEF View
<1>6. View(st) = [k \in K |-> CASE st.buf[k] = Unbuffered -> st.disk[k]
                                [] st.buf[k] = Deleted -> Absent
                                [] OTHER -> st.buf[k]]
    BY <1>0 DEF View
<1> HIDE DEF buf
<1>7. View(Recorded(st, ops)) \in [K -> V \union {Absent}]
    BY <1>0, <1>3, <1>5
<1>8. ASSUME NEW k \in K
      PROVE  View(Recorded(st, ops))[k] =
                  IF OnKey(ops, k) = {} THEN View(st)[k]
                  ELSE Outcome(ops[Max(OnKey(ops, k))].val)
    <2>1. CASE OnKey(ops, k) = {}
        <3>1. buf[k] = st.buf[k] BY <2>1 DEF buf
        <3>2. QED BY <2>1, <3>1, <1>5, <1>6
    <2>2. CASE OnKey(ops, k) # {}
        <3>1. buf[k] = ops[Max(OnKey(ops, k))].val /\ buf[k] # Unbuffered
            BY <2>2, <1>2 DEF buf
        <3>2. QED BY <2>2, <3>1, <1>5 DEF Outcome
    <2>3. QED BY <2>1, <2>2
<1>9. QED BY <1>4, <1>7, <1>8 DEF Stores

\* A key that the overlay does not mention reads as the database has it.
LEMMA ViewAt ==
    ASSUME NEW st, NEW k \in DOMAIN st.disk, st.buf[k] = Unbuffered,
           Deleted # Unbuffered
    PROVE  View(st)[k] = st.disk[k]
BY DEF View

\* flush: RocksDB has what was visible, and it is still visible.
LEMMA FlushedView ==
    ASSUME NEW K, NEW V, NEW st \in Stores(K, V), Absent \in V, Unbuffered \in V,
           Deleted # Unbuffered
    PROVE  /\ View(st) \in [K -> V]
           /\ Flushed(st) \in Stores(K, V)
           /\ Flushed(st).disk = View(st)
           /\ View(Flushed(st)) = View(st)
           /\ Buffered(Flushed(st)) = {}
<1>1. st \in [buf : [K -> V], disk : [K -> V]] /\ DOMAIN st.disk = K
    BY DEF Stores
<1>2. View(st) \in [K -> V]
    BY <1>1 DEF View
<1>3. /\ Flushed(st) = [buf |-> [k \in K |-> Unbuffered], disk |-> View(st)]
      /\ Flushed(st).disk = View(st) /\ Flushed(st).buf = [k \in K |-> Unbuffered]
    BY <1>1 DEF Flushed, EmptyBuf
<1> HIDE DEF View
<1>4. Flushed(st) \in Stores(K, V)
    BY <1>2, <1>3 DEF Stores
<1> DEFINE fl == Flushed(st)
<1> HIDE DEF fl
<1>5. View(fl) = View(st)
    <2>1. fl.disk = View(st) /\ fl.buf = [k \in K |-> Unbuffered] /\ DOMAIN fl.disk = K
        BY <1>2, <1>3 DEF fl
    <2>2. View(fl) = [k \in K |-> CASE fl.buf[k] = Unbuffered -> fl.disk[k]
                                    [] fl.buf[k] = Deleted -> Absent
                                    [] OTHER -> fl.buf[k]]
        BY <2>1 DEF View
    <2>3. \A k \in K : View(fl)[k] = View(st)[k]
        BY <2>1, ViewAt
    <2>4. View(fl) = [k \in K |-> View(fl)[k]] /\ View(st) = [k \in K |-> View(st)[k]]
        BY <2>2, <1>2
    <2>5. QED BY <2>3, <2>4
<1>6. Buffered(Flushed(st)) = {}
    BY <1>2, <1>3 DEF Buffered
<1>7. QED BY <1>2, <1>3, <1>4, <1>5, <1>6 DEF fl

\* A database that has just been opened shows what is on disk.
LEMMA UnbufferedView ==
    ASSUME NEW K, NEW V, NEW disk \in [K -> V], Unbuffered \in V,
           NEW st, st = [buf |-> EmptyBuf(K), disk |-> disk], Deleted # Unbuffered
    PROVE  st \in Stores(K, V) /\ View(st) = disk /\ Buffered(st) = {}
<1>1. st.disk = disk /\ st.buf = [k \in K |-> Unbuffered] /\ DOMAIN disk = K
    BY DEF EmptyBuf
<1>2. st \in Stores(K, V)
    BY DEF Stores, EmptyBuf
<1>3. View(st) = [k \in K |-> CASE st.buf[k] = Unbuffered -> disk[k]
                                [] st.buf[k] = Deleted -> Absent
                                [] OTHER -> st.buf[k]]
    BY <1>1 DEF View
<1>0. View(st) = disk
    <2>1. \A k \in K : View(st)[k] = disk[k]
        BY <1>1, ViewAt
    <2>2. View(st) = [k \in K |-> View(st)[k]] /\ disk = [k \in K |-> disk[k]]
        BY <1>3
    <2>3. QED BY <2>1, <2>2
<1>4. QED BY <1>0, <1>1, <1>2 DEF Buffered

\* Operations put nothing else in the overlay than their keys.
LEMMA RecordedBuffers ==
    ASSUME NEW K, NEW V, NEW st \in Stores(K, V), NEW ops
    PROVE  \A k \in Buffered(Recorded(st, ops)) :
               k \in K /\ (k \in Buffered(st) \/ \E i \in DOMAIN ops : ops[i].key = k)
<1>1. st \in [buf : [K -> V], disk : [K -> V]] /\ DOMAIN st.disk = K
    BY DEF Stores
<1> DEFINE buf == [k \in K |-> IF OnKey(ops, k) = {} THEN st.buf[k]
                               ELSE ops[Max(OnKey(ops, k))].val]
<1>2. Recorded(st, ops) = [st EXCEPT !.buf = buf]
    BY <1>1 DEF Recorded, OnKey
<1>3. Recorded(st, ops).disk = st.disk /\ Recorded(st, ops).buf = buf
    BY <1>1, <1>2
<1>4. QED BY <1>1, <1>3 DEF Buffered, OnKey

\* At least one operation is done before an overlay is flushed.
LEMMA ChunkIn ==
    ASSUME NEW S, NEW ops \in Seq(S), ops # <<>>, NEW st, NEW limit
    PROVE  Chunk(st, ops, limit) \in 1 .. Len(ops)
<1> DEFINE full == {i \in DOMAIN ops : Overflows(Recorded(st, SubSeq(ops, 1, i)), limit)}
<1>1. Len(ops) \in Nat \ {0} /\ DOMAIN ops = 1 .. Len(ops)
    OBVIOUS
<1>2. full \subseteq 1 .. Len(ops) /\ full \subseteq Nat
    BY <1>1
<1>3. Chunk(st, ops, limit) = IF full = {} THEN Len(ops) ELSE Min(full)
    BY DEF Chunk
<1> HIDE DEF full
<1>4. full # {} => Min(full) \in full
    BY <1>2, MinIn
<1>5. CASE full = {}
    BY <1>1, <1>3, <1>5
<1>6. CASE full # {}
    BY <1>2, <1>3, <1>4, <1>6
<1>7. QED BY <1>5, <1>6
===============================================================================
