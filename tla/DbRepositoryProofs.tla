-------------------------- MODULE DbRepositoryProofs --------------------------
(***************************************************************************)
(* Proofs about DbRepository, for any number of threads, databases, keys   *)
(* and transactions, and every configuration.                              *)
(***************************************************************************)
EXTENDS DbRepository, StoreLemmas

Cell == Values \union {Absent, Deleted, Unbuffered}

\* What a database accepted: an operation and the transaction it came from.
LogEntry == [tx : TxIds, key : Keys, val : Values \union {Deleted}]

Active(w) == pc[w] # "idle"

\* A lock is only held by a thread that still has operations for the database.
Typed ==
    /\ config \in Settings
    /\ dbs \in [Dbs -> Stores(Keys, Cell)]
    /\ stable \in [Dbs -> [Keys -> Cell]]
    /\ lock \in [Dbs -> Threads \union {Free}]
    /\ pc \in [Threads -> {"idle", "buffering", "flushing"}]
    /\ tx \in [Threads -> TxIds]
    /\ todo \in [Threads -> [Dbs -> Seq(DBOp)]]
    /\ pos \in [Threads -> 1 .. (Len(Priority) + 1)]
    /\ hist \in [Dbs -> Seq(LogEntry)]
    /\ given \in [Dbs -> Nat]
    /\ kept \in [Dbs -> Nat]
    /\ \A d \in Dbs : kept[d] <= given[d] /\ given[d] <= Len(hist[d])
    /\ \A d \in Dbs : lock[d] # Free => pc[lock[d]] = "buffering" /\ todo[lock[d]][d] # <<>>
    /\ acked \subseteq TxIds

\* The overlay on top of RocksDB, RocksDB, and what survives a crash have all
\* that was accepted, all that RocksDB was given and all that it kept.
Prefixes ==
    ~config.fails =>
        \A d \in Dbs :
            /\ View(dbs[d]) = Replay(hist[d])
            /\ dbs[d].disk = Replay(SubSeq(hist[d], 1, given[d]))
            /\ stable[d] = Replay(SubSeq(hist[d], 1, kept[d]))

\* What RocksDB is given is in its write-ahead log.
Logged == config.wal => kept = given

\* All that the log h of a database has of transaction t is on disk, that is
\* among the first m; and it has something, if the transaction has.
Settled(t, h, m) == \A n \in DOMAIN h : h[n].tx = t => n <= m
Entered(t, d, h) == Ops[t][d] = <<>> \/ \E n \in DOMAIN h : h[n].tx = t

Passed(w, i) == i \in DOMAIN Priority /\ pc[w] = "flushing" /\ i < pos[w]
Ahead(w, i) ==
    i \in DOMAIN Priority /\ (pc[w] = "buffering" \/ (pc[w] = "flushing" /\ i >= pos[w]))

Durable == config.wal /\ ~config.fails

\* A transaction is settled in the databases its flush has passed, and in all
\* of them when it is acknowledged; it is not written a second time.
Apart ==
    \A w \in Threads, v \in Threads : Active(w) /\ Active(v) /\ w # v => tx[w] # tx[v]
Begun ==
    \A w \in Threads : Active(w) =>
        /\ \A d \in Dbs : todo[w][d] = <<>> => Entered(tx[w], d, hist[d])
        /\ tx[w] \in acked => todo[w] = Nothing
        /\ pc[w] = "flushing" => todo[w] = Nothing
PassedSettled ==
    \A w \in Threads : \A i : Passed(w, i) =>
        Settled(tx[w], hist[Priority[i]], kept[Priority[i]])
AckedSettled ==
    \A t \in acked, d \in Dbs : Settled(t, hist[d], kept[d]) /\ Entered(t, d, hist[d])

Settling == Durable => Apart /\ Begun /\ PassedSettled /\ AckedSettled

\* The keys transaction t has for d.
TxKeys(t, d) == {Ops[t][d][i].key : i \in DOMAIN Ops[t][d]}

Turns == config.serial /\ Durable /\ ~MayOverflow

\* When the writers take turns, only the transaction that is written is not on
\* disk yet, and it has not reached the databases that are ahead of its flush.
OneActive == \A w \in Threads, v \in Threads : Active(w) /\ Active(v) => w = v
UnkeptActive ==
    \A d \in Dbs : \A n \in DOMAIN hist[d] :
        n > kept[d] => \E w \in Threads : Active(w) /\ tx[w] = hist[d][n].tx
BufferedActive ==
    \A d \in Dbs : \A k \in Buffered(dbs[d]) :
        \E w \in Threads : Active(w) /\ k \in TxKeys(tx[w], d)
TodoKeys ==
    \A w \in Threads, d \in Dbs : \A i \in DOMAIN todo[w][d] :
        todo[w][d][i].key \in TxKeys(tx[w], d)
PassedEmpty == \A w \in Threads : \A i : Passed(w, i) => Buffered(dbs[Priority[i]]) = {}
AheadNotKept ==
    \A w \in Threads : \A i : Ahead(w, i) =>
        \A n \in DOMAIN hist[Priority[i]] :
            n <= kept[Priority[i]] => hist[Priority[i]][n].tx # tx[w]

InTurn == Turns => /\ OneActive /\ UnkeptActive /\ BufferedActive
                   /\ TodoKeys /\ PassedEmpty /\ AheadNotKept

IInv == Typed /\ Prefixes /\ Logged /\ Settling /\ InTurn

-------------------------------------------------------------------------------
(* The operators.                                                          *)

\* A prefix of a log, when the log grows or is cut.
LEMMA Prefix ==
    ASSUME NEW S, NEW h \in Seq(S), NEW new \in Seq(S), NEW n \in Nat, n <= Len(h)
    PROVE  /\ SubSeq(h, 1, n) \in Seq(S) /\ Len(SubSeq(h, 1, n)) = n
           /\ \A i \in 1 .. n : SubSeq(h, 1, n)[i] = h[i]
           /\ SubSeq(h \o new, 1, n) = SubSeq(h, 1, n)
           /\ SubSeq(SubSeq(h, 1, n), 1, n) = SubSeq(h, 1, n)
           /\ SubSeq(h, 1, Len(h)) = h
<1>1. SubSeq(h, 1, n) \in Seq(S) /\ Len(SubSeq(h, 1, n)) = n
      /\ \A i \in 1 .. n : SubSeq(h, 1, n)[i] = h[i]
    OBVIOUS
<1>2. SubSeq(h \o new, 1, n) = SubSeq(h, 1, n)
    OBVIOUS
<1>3. \A g \in Seq(S) : SubSeq(g, 1, Len(g)) = g
    OBVIOUS
<1>4. QED BY <1>1, <1>2, <1>3

\* A key of a replayed log reads as the last operation on it says.
LEMMA ReplayAt ==
    ASSUME NEW h, NEW k \in Keys
    PROVE  Replay(h)[k] = IF OnKey(h, k) = {} THEN Absent
                          ELSE Outcome(h[Max(OnKey(h, k))].val)
BY DEF Replay, OnKey, Outcome

\* What is appended to a log decides on the keys it mentions.
LEMMA ReplayAppend ==
    ASSUME NEW h \in Seq(LogEntry), NEW new \in Seq(LogEntry), NEW k \in Keys
    PROVE  Replay(h \o new)[k] =
               IF OnKey(new, k) = {} THEN Replay(h)[k]
               ELSE Outcome(new[Max(OnKey(new, k))].val)
<1> DEFINE g == h \o new
<1>1. /\ g \in Seq(LogEntry)
      /\ \A i \in DOMAIN h : i \in DOMAIN g /\ g[i] = h[i]
      /\ \A i \in DOMAIN new : Len(h) + i \in DOMAIN g /\ g[Len(h) + i] = new[i]
      /\ \A i \in DOMAIN g : \/ i \in DOMAIN h /\ g[i] = h[i]
                             \/ \E j \in DOMAIN new : i = Len(h) + j /\ g[i] = new[j]
    BY Joined
<1> HIDE DEF g
<1>2. /\ Len(g) \in Nat /\ DOMAIN g = 1 .. Len(g)
      /\ Len(h) \in Nat /\ DOMAIN h = 1 .. Len(h)
      /\ Len(new) \in Nat /\ DOMAIN new = 1 .. Len(new)
    BY <1>1
<1>3. CASE OnKey(new, k) = {}
    <2>1. OnKey(g, k) = OnKey(h, k)
        BY <1>1, <1>3 DEF OnKey
    <2>2. OnKey(h, k) # {} => Max(OnKey(h, k)) \in DOMAIN h
        BY <1>2, LastOnKey
    <2>3. OnKey(h, k) # {} => g[Max(OnKey(h, k))] = h[Max(OnKey(h, k))]
        BY <1>1, <2>2
    <2>4. /\ Replay(g)[k] = IF OnKey(g, k) = {} THEN Absent
                              ELSE Outcome(g[Max(OnKey(g, k))].val)
          /\ Replay(h)[k] = IF OnKey(h, k) = {} THEN Absent
                              ELSE Outcome(h[Max(OnKey(h, k))].val)
        BY ReplayAt
    <2>5. QED BY <1>3, <2>1, <2>3, <2>4 DEF g
<1>4. CASE OnKey(new, k) # {}
    <2> DEFINE m == Max(OnKey(new, k))
    <2>1. m \in DOMAIN new /\ new[m].key = k /\ \A i \in OnKey(new, k) : i <= m
        BY <1>2, <1>4, LastOnKey
    <2>2. Len(h) + m \in OnKey(g, k)
        BY <1>1, <2>1 DEF OnKey
    <2>3. \A i \in OnKey(g, k) : i <= Len(h) + m
        <3>1. TAKE i \in OnKey(g, k)
        <3>2. CASE i \in DOMAIN h
            BY <3>2, <1>2, <2>1
        <3>3. CASE i \notin DOMAIN h
            <4>1. PICK j \in DOMAIN new : i = Len(h) + j /\ g[i] = new[j]
                BY <3>3, <1>1 DEF OnKey
            <4>2. j \in OnKey(new, k)
                BY <4>1 DEF OnKey
            <4>3. QED BY <4>1, <4>2, <2>1, <1>2
        <3>4. QED BY <3>2, <3>3
    <2>4. Max(OnKey(g, k)) \in OnKey(g, k) /\ \A i \in OnKey(g, k) : i <= Max(OnKey(g, k))
        <3>1. Max(OnKey(g, k)) \in DOMAIN g /\ g[Max(OnKey(g, k))].key = k
              /\ \A i \in OnKey(g, k) : i <= Max(OnKey(g, k))
            BY <1>2, <2>2, LastOnKey
        <3>2. QED BY <3>1 DEF OnKey
    <2>5. Max(OnKey(g, k)) = Len(h) + m
        <3>1. OnKey(g, k) \subseteq Nat
            BY <1>2 DEF OnKey
        <3>2. QED BY <2>2, <2>3, <2>4, <3>1
    <2>6. g[Len(h) + m] = new[m]
        BY <1>1, <2>1
    <2>7. QED BY <1>4, <2>2, <2>5, <2>6, ReplayAt DEF g
<1>5. QED BY <1>3, <1>4

\* The last operation on a key is the last one in every prefix that has it.
LEMMA ReplayPrefix ==
    ASSUME NEW h \in Seq(LogEntry), NEW n \in Nat, n <= Len(h), NEW k \in Keys,
           OnKey(h, k) # {}, Max(OnKey(h, k)) <= n
    PROVE  Replay(SubSeq(h, 1, n))[k] = Outcome(h[Max(OnKey(h, k))].val)
<1> DEFINE g == SubSeq(h, 1, n)
           m == Max(OnKey(h, k))
<1>1. /\ g \in Seq(LogEntry) /\ Len(g) = n /\ DOMAIN g = 1 .. n
      /\ \A i \in 1 .. n : g[i] = h[i]
    OBVIOUS
<1>2. Len(h) \in Nat /\ DOMAIN h = 1 .. Len(h)
    OBVIOUS
<1> HIDE DEF g
<1>3. m \in DOMAIN h /\ h[m].key = k /\ \A i \in OnKey(h, k) : i <= m
    BY <1>2, LastOnKey
<1>4. m \in OnKey(g, k) /\ m \in 1 .. n
    BY <1>1, <1>2, <1>3 DEF OnKey
<1>5. OnKey(g, k) \subseteq OnKey(h, k)
    BY <1>1, <1>2 DEF OnKey
<1>6. Max(OnKey(g, k)) \in OnKey(g, k) /\ \A i \in OnKey(g, k) : i <= Max(OnKey(g, k))
    <2>1. OnKey(g, k) \subseteq 1 .. n
        BY <1>1 DEF OnKey
    <2>2. QED BY <1>4, <2>1, MaxIn
<1>7. Max(OnKey(g, k)) = m
    <2>1. OnKey(g, k) \subseteq Nat
        BY <1>1 DEF OnKey
    <2>2. QED BY <1>3, <1>4, <1>5, <1>6, <2>1
<1>8. QED BY <1>1, <1>4, <1>7, ReplayAt DEF g

\* write_buffered in one database: what it does and what it logs.
Buffers(w, d, done, new) ==
    /\ done \in Seq(DBOp) /\ done # <<>>
    /\ \A i \in DOMAIN done : i \in DOMAIN todo[w][d] /\ done[i] = todo[w][d][i]
    /\ new \in Seq(LogEntry) /\ DOMAIN new = DOMAIN done
    /\ \A i \in DOMAIN done :
          new[i].tx = tx[w] /\ new[i].key = done[i].key /\ new[i].val = done[i].val
    /\ hist' = [hist EXCEPT ![d] = @ \o new]
    /\ \E rest \in Seq(DBOp) :
          /\ \A i \in DOMAIN rest : \E j \in DOMAIN todo[w][d] : rest[i] = todo[w][d][j]
          /\ todo' = [todo EXCEPT ![w][d] = rest]
          /\ lock' = [lock EXCEPT ![d] = HolderAfter(w, rest)]
    /\ \/ /\ dbs' = [dbs EXCEPT ![d] = Flushed(Recorded(dbs[d], done))]
          /\ Overflows(Recorded(dbs[d], done), config.limit)
          /\ Taken(d)
       \/ /\ dbs' = [dbs EXCEPT ![d] = FlushFailed(Recorded(dbs[d], done))]
          /\ config.fails
          /\ NotTaken
       \/ /\ dbs' = [dbs EXCEPT ![d] = Recorded(dbs[d], done)]
          /\ NotTaken

\* A step of write_buffered records a first part of what the thread has left
\* for a database, and may flush.
LEMMA BufferFacts ==
    ASSUME Typed, NEW w \in Threads, NEW d \in Dbs, BufferDb(w, d)
    PROVE  \E done, new : Buffers(w, d, done, new)
<1> DEFINE ops == todo[w][d]
           n == Chunk(dbs[d], ops, config.limit)
           done == SubSeq(ops, 1, n)
           rest == SubSeq(ops, n + 1, Len(ops))
           new == [i \in 1 .. n |-> [tx |-> tx[w], key |-> done[i].key, val |-> done[i].val]]
<1>1. ops \in Seq(DBOp) /\ ops # <<>> /\ tx[w] \in TxIds
    BY SMTT(30) DEF Typed, BufferDb
<1>2. n \in 1 .. Len(ops)
    BY <1>1, ChunkIn
<1>3. /\ hist' = [hist EXCEPT ![d] = @ \o new]
      /\ todo' = [todo EXCEPT ![w][d] = rest]
      /\ lock' = [lock EXCEPT ![d] = HolderAfter(w, todo'[w][d])]
      /\ \/ /\ dbs' = [dbs EXCEPT ![d] = Flushed(Recorded(dbs[d], done))]
            /\ Overflows(Recorded(dbs[d], done), config.limit)
            /\ Taken(d)
         \/ /\ dbs' = [dbs EXCEPT ![d] = FlushFailed(Recorded(dbs[d], done))]
            /\ config.fails
            /\ NotTaken
         \/ /\ dbs' = [dbs EXCEPT ![d] = Recorded(dbs[d], done)]
            /\ NotTaken
    BY DEF BufferDb
<1> HIDE DEF n, ops
<1>4. /\ done \in Seq(DBOp) /\ Len(done) = n /\ DOMAIN done = 1 .. n /\ done # <<>>
      /\ \A i \in 1 .. n : i \in DOMAIN ops /\ done[i] = ops[i]
    BY <1>1, <1>2
<1>5. /\ rest \in Seq(DBOp)
      /\ \A i \in DOMAIN rest : i + n \in DOMAIN ops /\ rest[i] = ops[i + n]
    BY <1>1, <1>2
<1> HIDE DEF done, rest
<1>6. \A i \in 1 .. n : new[i] = [tx |-> tx[w], key |-> done[i].key, val |-> done[i].val]
                        /\ new[i].tx = tx[w] /\ new[i].key = done[i].key
                        /\ new[i].val = done[i].val /\ done[i] \in DBOp
    BY <1>4
<1>7. \A i \in 1 .. n : new[i] \in LogEntry
    BY <1>1, <1>6 DEF LogEntry, DBOp
<1>8. new \in Seq(LogEntry) /\ DOMAIN new = 1 .. n
    BY <1>2, <1>7
<1> HIDE DEF new
<1>9. \A i \in DOMAIN done :
          new[i].tx = tx[w] /\ new[i].key = done[i].key /\ new[i].val = done[i].val
    BY <1>4, <1>6
<1>10. /\ \A i \in DOMAIN rest : \E j \in DOMAIN todo[w][d] : rest[i] = todo[w][d][j]
       /\ todo' = [todo EXCEPT ![w][d] = rest]
       /\ lock' = [lock EXCEPT ![d] = HolderAfter(w, rest)]
    <2>1. \A i \in DOMAIN rest : \E j \in DOMAIN todo[w][d] : rest[i] = todo[w][d][j]
        BY <1>5 DEF ops
    <2>2. todo'[w][d] = rest
        BY <1>3 DEF Typed
    <2>3. QED BY <1>3, <2>1, <2>2
<1>11. Buffers(w, d, done, new)
    BY <1>3, <1>4, <1>5, <1>8, <1>9, <1>10 DEF Buffers, ops
<1>12. QED BY <1>11

\* The overlay with the operations in it, and after a flush of it.
LEMMA RecordedTypes ==
    ASSUME Typed, NEW d \in Dbs, NEW done \in Seq(DBOp)
    PROVE  /\ IsBatch(done, Cell)
           /\ Recorded(dbs[d], done) \in Stores(Keys, Cell)
           /\ Flushed(Recorded(dbs[d], done)) \in Stores(Keys, Cell)
           /\ FlushFailed(Recorded(dbs[d], done)) \in Stores(Keys, Cell)
<1> DEFINE r == Recorded(dbs[d], done)
<1>1. dbs[d] \in Stores(Keys, Cell)
    BY DEF Typed
<1>2. IsBatch(done, Cell)
    <2>1. \A i \in DOMAIN done : done[i] \in DBOp
        OBVIOUS
    <2>2. Len(done) \in Nat /\ DOMAIN done = 1 .. Len(done)
        OBVIOUS
    <2>3. QED BY <2>1, <2>2, DbAssumption DEF DBOp, Cell, IsBatch
<1>3. r \in Stores(Keys, Cell)
    BY <1>1, <1>2, RecordedView
<1> HIDE DEF r
<1>4. Absent \in Cell /\ Unbuffered \in Cell /\ Deleted # Unbuffered
    BY DbAssumption DEF Cell
<1>5. Flushed(r) \in Stores(Keys, Cell)
    BY <1>3, <1>4, FlushedView
<1>6. FlushFailed(r) \in Stores(Keys, Cell)
    BY <1>3, <1>4 DEF FlushFailed, Stores, EmptyBuf
<1>7. QED BY <1>2, <1>3, <1>5, <1>6 DEF r

-------------------------------------------------------------------------------
(* Types.                                                                  *)

\* The repository as it is opened is well typed.
LEMMA InitTyped == ASSUME Init PROVE Typed
<1>1. Fresh(Nowhere) \in Stores(Keys, Cell) /\ Nowhere \in [Keys -> Cell]
    BY DEF Fresh, Nowhere, Stores, EmptyBuf, Cell
<1>2. /\ Nothing \in [Dbs -> Seq(DBOp)] /\ Nothing \in [Dbs -> Seq(LogEntry)]
      /\ \A d \in Dbs : Nothing[d] = <<>> /\ Len(Nothing[d]) = 0
    BY DEF Nothing
<1>3. 1 \in 1 .. (Len(Priority) + 1)
    BY DbAssumption
<1>4. QED BY <1>1, <1>2, <1>3 DEF Init, Typed

\* RocksDB takes what it is given.
LEMMA TakenTypes ==
    ASSUME Typed, NEW d \in Dbs, NEW st \in Stores(Keys, Cell), NEW h \in Seq(LogEntry),
           Len(h) >= Len(hist[d]),
           dbs' = [dbs EXCEPT ![d] = st], hist' = [hist EXCEPT ![d] = h],
           Taken(d) \/ NotTaken
    PROVE  /\ dbs' \in [Dbs -> Stores(Keys, Cell)]
           /\ hist' \in [Dbs -> Seq(LogEntry)]
           /\ stable' \in [Dbs -> [Keys -> Cell]]
           /\ given' \in [Dbs -> Nat] /\ kept' \in [Dbs -> Nat]
           /\ \A e \in Dbs : kept'[e] <= given'[e] /\ given'[e] <= Len(hist'[e])
<1>1. /\ dbs' \in [Dbs -> Stores(Keys, Cell)] /\ dbs'[d] = st
      /\ hist' \in [Dbs -> Seq(LogEntry)] /\ hist'[d] = h
      /\ \A e \in Dbs \ {d} : hist'[e] = hist[e]
    BY DEF Typed
<1>2. \A e \in Dbs : /\ kept[e] \in Nat /\ given[e] \in Nat /\ kept[e] <= given[e]
                     /\ given[e] <= Len(hist[e]) /\ Len(hist[e]) \in Nat
    BY DEF Typed
<1>3. Len(h) \in Nat /\ \A e \in Dbs : Len(hist'[e]) \in Nat /\ Len(hist[e]) <= Len(hist'[e])
    BY <1>1, <1>2
<1>4. CASE NotTaken
    BY <1>1, <1>2, <1>3, <1>4 DEF NotTaken, Typed
<1>5. CASE Taken(d)
    <2>1. given' = [given EXCEPT ![d] = Len(h)] /\ given' \in [Dbs -> Nat]
        BY <1>1, <1>3, <1>5 DEF Taken, Typed
    <2>2. st.disk \in [Keys -> Cell]
        BY DEF Stores
    <2>3. stable' \in [Dbs -> [Keys -> Cell]]
        BY <1>1, <1>5, <2>2 DEF Taken, Typed
    <2>4. given'[d] = Len(h) /\ \A e \in Dbs \ {d} : given'[e] = given[e]
        BY <2>1 DEF Typed
    <2>5. /\ kept' \in [Dbs -> Nat] /\ kept'[d] \in {kept[d], Len(h)}
          /\ \A e \in Dbs \ {d} : kept'[e] = kept[e]
        BY <1>3, <1>5, <2>4 DEF Taken, Typed
    <2>6. \A e \in Dbs : kept'[e] <= given'[e] /\ given'[e] <= Len(hist'[e])
        <3>1. TAKE e \in Dbs
        <3>2. CASE e = d
            BY <3>2, <1>1, <1>2, <1>3, <2>4, <2>5
        <3>3. CASE e # d
            BY <3>3, <1>1, <1>2, <2>4, <2>5
        <3>4. QED BY <3>2, <3>3
    <2>7. QED BY <1>1, <2>1, <2>3, <2>5, <2>6
<1>6. QED BY <1>4, <1>5

\* write_buffered keeps the types.
LEMMA BufferTyped ==
    ASSUME Typed, NEW w \in Threads, NEW d \in Dbs, BufferDb(w, d)
    PROVE  Typed'
<1>1. PICK done, new : Buffers(w, d, done, new)
    BY BufferFacts
<1>2. PICK rest \in Seq(DBOp) :
          /\ todo' = [todo EXCEPT ![w][d] = rest]
          /\ lock' = [lock EXCEPT ![d] = HolderAfter(w, rest)]
    BY <1>1 DEF Buffers
<1>3. PICK st \in Stores(Keys, Cell) :
          dbs' = [dbs EXCEPT ![d] = st] /\ (Taken(d) \/ NotTaken)
    BY <1>1, RecordedTypes DEF Buffers
<1>4. /\ hist' = [hist EXCEPT ![d] = hist[d] \o new]
      /\ hist[d] \o new \in Seq(LogEntry) /\ Len(hist[d] \o new) >= Len(hist[d])
    <2>1. hist[d] \in Seq(LogEntry) /\ new \in Seq(LogEntry)
        BY <1>1 DEF Typed, Buffers
    <2>2. QED BY <1>1, <2>1 DEF Buffers
<1>5. /\ dbs' \in [Dbs -> Stores(Keys, Cell)]
      /\ hist' \in [Dbs -> Seq(LogEntry)]
      /\ stable' \in [Dbs -> [Keys -> Cell]]
      /\ given' \in [Dbs -> Nat] /\ kept' \in [Dbs -> Nat]
      /\ \A e \in Dbs : kept'[e] <= given'[e] /\ given'[e] <= Len(hist'[e])
    BY <1>3, <1>4, TakenTypes
<1>6. /\ todo' \in [Threads -> [Dbs -> Seq(DBOp)]] /\ todo'[w][d] = rest
      /\ \A v \in Threads, e \in Dbs : e # d => todo'[v][e] = todo[v][e]
    BY <1>2 DEF Typed
<1>7. /\ lock' \in [Dbs -> Threads \union {Free}] /\ lock'[d] = HolderAfter(w, rest)
      /\ \A e \in Dbs \ {d} : lock'[e] = lock[e]
    BY <1>2 DEF Typed, HolderAfter
<1>8. pc[w] = "buffering" /\ UNCHANGED <<config, pc, tx, pos, acked>>
    BY DEF BufferDb
<1>9. \A e \in Dbs : lock'[e] # Free => pc'[lock'[e]] = "buffering" /\ todo'[lock'[e]][e] # <<>>
    <2>1. TAKE e \in Dbs
    <2>2. CASE e = d
        BY <2>2, <1>6, <1>7, <1>8 DEF HolderAfter
    <2>3. CASE e # d
        <3>1. lock'[e] = lock[e] /\ (lock[e] # Free => lock[e] \in Threads)
            BY <2>3, <1>7 DEF Typed
        <3>2. lock[e] # Free => pc[lock[e]] = "buffering" /\ todo[lock[e]][e] # <<>>
            BY DEF Typed
        <3>3. QED BY <2>3, <3>1, <3>2, <1>6, <1>8
    <2>4. QED BY <2>2, <2>3
<1>10. QED BY <1>5, <1>6, <1>7, <1>8, <1>9 DEF Typed

\* flush keeps the types.
LEMMA FlushDbTyped ==
    ASSUME Typed, NEW w \in Threads, FlushDb(w)
    PROVE  Typed'
<1> DEFINE d == Priority[pos[w]]
<1>1. pos[w] \in DOMAIN Priority /\ d \in Dbs /\ pos[w] + 1 \in 1 .. (Len(Priority) + 1)
    BY DbAssumption DEF FlushDb
<1>2. /\ dbs' = [dbs EXCEPT ![d] = Flushed(dbs[d])] /\ hist' = hist /\ Taken(d)
      /\ pos' = [pos EXCEPT ![w] = pos[w] + 1]
      /\ UNCHANGED <<config, lock, pc, tx, todo, acked>>
    BY DEF FlushDb, Nth
<1> HIDE DEF d
<1>3. dbs[d] \in Stores(Keys, Cell) /\ hist[d] \in Seq(LogEntry)
      /\ hist' = [hist EXCEPT ![d] = hist[d]]
    BY <1>1, <1>2 DEF Typed
<1>4. Flushed(dbs[d]) \in Stores(Keys, Cell)
    <2>1. Absent \in Cell /\ Unbuffered \in Cell /\ Deleted # Unbuffered
        BY DbAssumption DEF Cell
    <2>2. QED BY <1>3, <2>1, FlushedView
<1>5. /\ dbs' \in [Dbs -> Stores(Keys, Cell)]
      /\ hist' \in [Dbs -> Seq(LogEntry)]
      /\ stable' \in [Dbs -> [Keys -> Cell]]
      /\ given' \in [Dbs -> Nat] /\ kept' \in [Dbs -> Nat]
      /\ \A e \in Dbs : kept'[e] <= given'[e] /\ given'[e] <= Len(hist'[e])
    <2>1. Len(hist[d]) >= Len(hist[d])
        BY <1>3
    <2>2. QED BY <1>1, <1>2, <1>3, <1>4, <2>1, TakenTypes
<1>6. QED BY <1>1, <1>2, <1>5 DEF Typed

\* Every step keeps the types.
LEMMA NextTyped == ASSUME Typed, [Next]_vars PROVE Typed'
<1>1. ASSUME NEW w \in Threads, NEW t \in TxIds, StartWrite(w, t) PROVE Typed'
    <2>1. Ops[t] \in [Dbs -> Seq(DBOp)]
        BY DbAssumption
    <2>2. \A d \in Dbs : lock[d] # Free => lock[d] \in Threads \ {w}
        BY <1>1 DEF Typed, StartWrite
    <2>3. QED BY <1>1, <2>1, <2>2 DEF Typed, StartWrite
<1>2. ASSUME NEW w \in Threads, NEW d \in Dbs, BufferDb(w, d) PROVE Typed'
    BY <1>2, BufferTyped
<1>3. ASSUME NEW w \in Threads, StartFlush(w) PROVE Typed'
    <2>1. 1 \in 1 .. (Len(Priority) + 1)
        BY DbAssumption
    <2>2. \A d \in Dbs : lock[d] # Free => lock[d] \in Threads \ {w}
        BY <1>3 DEF Typed, StartFlush, Nothing
    <2>3. QED BY <1>3, <2>1, <2>2 DEF Typed, StartFlush
<1>4. ASSUME NEW w \in Threads, FlushDb(w) PROVE Typed'
    BY <1>4, FlushDbTyped
<1>5. ASSUME NEW w \in Threads, Ack(w) PROVE Typed'
    <2>1. \A d \in Dbs : lock[d] # Free => lock[d] \in Threads \ {w}
        BY <1>5 DEF Typed, Ack
    <2>2. QED BY <1>5, <2>1 DEF Typed, Ack
<1>6. ASSUME NEW w \in Threads, FlushFails(w) PROVE Typed'
    <2>1. \A d \in Dbs : lock[d] # Free => lock[d] \in Threads \ {w}
        BY <1>6 DEF Typed, FlushFails
    <2>2. \A d \in Dbs : FlushFailed(dbs[d]) \in Stores(Keys, Cell)
        <3>1. TAKE d \in Dbs
        <3>2. dbs[d] \in [buf : [Keys -> Cell], disk : [Keys -> Cell]]
            BY DEF Typed, Stores
        <3>3. QED BY <3>2 DEF FlushFailed, Stores, EmptyBuf, Cell
    <2>3. dbs' \in [Dbs -> Stores(Keys, Cell)]
        BY <1>6, <2>2 DEF Typed, FlushFails
    <2>4. QED BY <1>6, <2>1, <2>3 DEF Typed, FlushFails
<1>7. ASSUME NEW d \in Dbs, MemtableFlush(d) PROVE Typed'
    <2>1. dbs[d].disk \in [Keys -> Cell]
        BY DEF Typed, Stores
    <2>2. stable' \in [Dbs -> [Keys -> Cell]] /\ kept' \in [Dbs -> Nat]
        BY <1>7, <2>1 DEF Typed, MemtableFlush
    <2>3. kept'[d] = given[d] /\ \A e \in Dbs \ {d} : kept'[e] = kept[e]
        BY <1>7 DEF Typed, MemtableFlush
    <2>4. QED BY <1>7, <2>2, <2>3 DEF Typed, MemtableFlush
<1>8. CASE Crash
    <2>1. \A d \in Dbs : Fresh(stable[d]) \in Stores(Keys, Cell)
        BY DEF Typed, Fresh, Stores, EmptyBuf, Cell
    <2>2. \A d \in Dbs : SubSeq(hist[d], 1, kept[d]) \in Seq(LogEntry)
                         /\ Len(SubSeq(hist[d], 1, kept[d])) = kept[d] /\ kept[d] <= kept[d]
        BY Prefix DEF Typed
    <2>3. Nothing \in [Dbs -> Seq(DBOp)]
        BY DEF Nothing
    <2>4. dbs' \in [Dbs -> Stores(Keys, Cell)] /\ hist' \in [Dbs -> Seq(LogEntry)]
        BY <1>8, <2>1, <2>2 DEF Crash
    <2>5. \A d \in Dbs : kept'[d] <= given'[d] /\ given'[d] <= Len(hist'[d])
        BY <1>8, <2>2 DEF Crash
    <2>6. QED BY <1>8, <2>3, <2>4, <2>5 DEF Typed, Crash
<1>9. CASE Reopen
    <2>1. Absent \in Cell /\ Unbuffered \in Cell /\ Deleted # Unbuffered
        BY DbAssumption DEF Cell
    <2>2. \A d \in Dbs : View(dbs[d]) \in [Keys -> Cell] /\ Flushed(dbs[d]) \in Stores(Keys, Cell)
        BY <2>1, FlushedView DEF Typed
    <2>3. \A d \in Dbs : Len(hist[d]) \in Nat /\ Len(hist[d]) <= Len(hist[d])
        BY DEF Typed
    <2>4. dbs' \in [Dbs -> Stores(Keys, Cell)] /\ stable' \in [Dbs -> [Keys -> Cell]]
        BY <1>9, <2>2 DEF Reopen
    <2>5. given' \in [Dbs -> Nat] /\ kept' = given'
          /\ \A d \in Dbs : kept'[d] <= given'[d] /\ given'[d] <= Len(hist'[d])
        BY <1>9, <2>3 DEF Reopen
    <2>6. QED BY <1>9, <2>4, <2>5 DEF Typed, Reopen
<1>10. CASE UNCHANGED vars
    BY <1>10 DEF Typed, vars
<1>11. QED BY <1>1, <1>2, <1>3, <1>4, <1>5, <1>6, <1>7, <1>8, <1>9, <1>10 DEF Next, WriteStep

-------------------------------------------------------------------------------
(* What the databases show, and what they keep.                            *)

\* At first a log is empty, and so is what its database shows.
LEMMA InitPrefixes == ASSUME Init PROVE Prefixes /\ Logged
<1>1. \A d \in Dbs : hist[d] = <<>> /\ given[d] = 0 /\ kept[d] = 0
                     /\ dbs[d] = Fresh(Nowhere) /\ stable[d] = Nowhere
    BY DEF Init, Nothing
<1>2. Nowhere \in [Keys -> Cell] /\ Unbuffered \in Cell /\ Deleted # Unbuffered
    BY DbAssumption DEF Nowhere, Cell
<1>3. View(Fresh(Nowhere)) = Nowhere /\ Fresh(Nowhere).disk = Nowhere
    BY <1>2, UnbufferedView DEF Fresh
<1>4. SubSeq(<<>>, 1, 0) = <<>>
    OBVIOUS
<1>5. Replay(<<>>) = Nowhere
    BY DEF Replay, Nowhere
<1>6. kept = given
    BY DEF Init
<1>7. QED BY <1>1, <1>3, <1>4, <1>5, <1>6 DEF Prefixes, Logged

\* A step that appends to the log of d what its overlay shows then.
LEMMA OneDbPrefixes ==
    ASSUME Typed, Prefixes, ~config.fails, config' = config,
           NEW d \in Dbs, NEW st, NEW new \in Seq(LogEntry),
           dbs' = [dbs EXCEPT ![d] = st], hist' = [hist EXCEPT ![d] = hist[d] \o new],
           View(st) = Replay(hist[d] \o new),
           (Taken(d) /\ st.disk = View(st)) \/ (NotTaken /\ st.disk = dbs[d].disk)
    PROVE  Prefixes'
<1> DEFINE h == hist[d] \o new
<1>1. /\ dbs'[d] = st /\ hist'[d] = h
      /\ \A e \in Dbs \ {d} : dbs'[e] = dbs[e] /\ hist'[e] = hist[e]
    BY DEF Typed
<1>2. /\ hist[d] \in Seq(LogEntry) /\ h \in Seq(LogEntry) /\ Len(h) \in Nat
      /\ kept[d] \in Nat /\ given[d] \in Nat /\ kept[d] <= Len(hist[d]) /\ given[d] <= Len(hist[d])
    BY DEF Typed
<1>3. /\ SubSeq(h, 1, given[d]) = SubSeq(hist[d], 1, given[d])
      /\ SubSeq(h, 1, kept[d]) = SubSeq(hist[d], 1, kept[d])
    BY SMTT(30), <1>2, Prefix
<1>4. SubSeq(h, 1, Len(h)) = h
    BY SMTT(30), <1>2
<1> HIDE DEF h
<1>5. View(st) = Replay(h)
    BY DEF h
<1>6. ASSUME NEW e \in Dbs \ {d}
      PROVE  /\ View(dbs'[e]) = Replay(hist'[e])
             /\ dbs'[e].disk = Replay(SubSeq(hist'[e], 1, given'[e]))
             /\ stable'[e] = Replay(SubSeq(hist'[e], 1, kept'[e]))
    <2>1. given'[e] = given[e] /\ kept'[e] = kept[e] /\ stable'[e] = stable[e]
        BY DEF Taken, NotTaken, Typed
    <2>2. QED BY <2>1, <1>1 DEF Prefixes
<1>7. CASE Taken(d) /\ st.disk = View(st)
    <2>1. given'[d] = Len(h)
        BY <1>1, <1>7 DEF Taken, Typed
    <2>2. (stable'[d] = st.disk /\ kept'[d] = Len(h)) \/ (stable'[d] = stable[d] /\ kept'[d] = kept[d])
        BY <1>1, <1>7, <2>1 DEF Taken, Typed
    <2>3. stable[d] = Replay(SubSeq(hist[d], 1, kept[d]))
        BY DEF Prefixes
    <2>4. stable'[d] = Replay(SubSeq(h, 1, kept'[d]))
        BY <1>3, <1>4, <1>5, <1>7, <2>2, <2>3
    <2>5. /\ View(dbs'[d]) = Replay(hist'[d])
          /\ dbs'[d].disk = Replay(SubSeq(hist'[d], 1, given'[d]))
          /\ stable'[d] = Replay(SubSeq(hist'[d], 1, kept'[d]))
        BY <1>1, <1>4, <1>5, <1>7, <2>1, <2>4
    <2>6. QED BY <1>6, <2>5 DEF Prefixes
<1>8. CASE NotTaken /\ st.disk = dbs[d].disk
    <2>1. given' = given /\ kept' = kept /\ stable' = stable
        BY <1>8 DEF NotTaken
    <2>2. /\ st.disk = Replay(SubSeq(h, 1, given'[d]))
          /\ stable'[d] = Replay(SubSeq(h, 1, kept'[d]))
        BY <1>3, <1>8, <2>1 DEF Prefixes
    <2>3. QED BY <1>1, <1>5, <1>6, <2>2 DEF Prefixes
<1>9. QED BY <1>7, <1>8

\* write_buffered appends to the log what it records, and a flush in it writes
\* out the whole log or nothing.
LEMMA BufferPrefixes ==
    ASSUME Typed, Prefixes, NEW w \in Threads, NEW d \in Dbs, BufferDb(w, d)
    PROVE  Prefixes'
<1>0. config' = config
    BY DEF BufferDb
<1> SUFFICES ASSUME ~config.fails PROVE Prefixes'
    BY <1>0 DEF Prefixes
<1>1. PICK done, new : Buffers(w, d, done, new)
    BY BufferFacts
<1>2. /\ done \in Seq(DBOp) /\ new \in Seq(LogEntry) /\ hist[d] \in Seq(LogEntry)
      /\ dbs[d] \in Stores(Keys, Cell)
      /\ hist' = [hist EXCEPT ![d] = hist[d] \o new]
    BY <1>1 DEF Buffers, Typed
<1> DEFINE r == Recorded(dbs[d], done)
<1>3. /\ r \in Stores(Keys, Cell) /\ r.disk = dbs[d].disk
      /\ View(r) \in [Keys -> Cell \union {Absent}]
      /\ \A k \in Keys : View(r)[k] =
             IF OnKey(done, k) = {} THEN View(dbs[d])[k]
             ELSE Outcome(done[Max(OnKey(done, k))].val)
    BY <1>2, RecordedTypes, RecordedView
<1>4. \A k \in Keys : OnKey(done, k) = OnKey(new, k)
    BY <1>1 DEF Buffers, OnKey
<1>5. \A k \in Keys : OnKey(done, k) # {} => Max(OnKey(done, k)) \in DOMAIN done
    BY <1>2, LastOnKey
<1>6. \A i \in DOMAIN done : done[i].val = new[i].val
    BY <1>1 DEF Buffers
<1> HIDE DEF r
<1>7. \A k \in Keys : View(r)[k] = Replay(hist[d] \o new)[k]
    <2>1. TAKE k \in Keys
    <2>2. View(dbs[d])[k] = Replay(hist[d])[k]
        BY DEF Prefixes
    <2>3. Replay(hist[d] \o new)[k] =
               IF OnKey(new, k) = {} THEN Replay(hist[d])[k]
               ELSE Outcome(new[Max(OnKey(new, k))].val)
        BY <1>2, ReplayAppend
    <2>4. QED BY <1>3, <1>4, <1>5, <1>6, <2>2, <2>3
<1>8. View(r) = Replay(hist[d] \o new)
    <2>1. View(r) = [k \in Keys |-> View(r)[k]]
        BY SMTT(30), <1>3
    <2>2. Replay(hist[d] \o new) = [k \in Keys |-> Replay(hist[d] \o new)[k]]
        BY DEF Replay
    <2>3. QED BY <1>7, <2>1, <2>2
<1>9. CASE dbs' = [dbs EXCEPT ![d] = Flushed(r)] /\ Taken(d)
    <2>1. Absent \in Cell /\ Unbuffered \in Cell /\ Deleted # Unbuffered
        BY DbAssumption DEF Cell
    <2>2. Flushed(r).disk = View(r) /\ View(Flushed(r)) = View(r)
        BY <1>3, <2>1, FlushedView
    <2>3. Flushed(r).disk = View(Flushed(r)) /\ View(Flushed(r)) = Replay(hist[d] \o new)
        BY <1>8, <2>2
    <2>4. QED BY <1>0, <1>2, <1>9, <2>3, OneDbPrefixes
<1>10. CASE dbs' = [dbs EXCEPT ![d] = r] /\ NotTaken
    BY <1>0, <1>2, <1>3, <1>8, <1>10, OneDbPrefixes
<1>11. QED BY <1>1, <1>9, <1>10 DEF Buffers, r

\* Every step leaves each database with a prefix of its log.
LEMMA NextPrefixes == ASSUME Typed, Prefixes, [Next]_vars PROVE Prefixes'
<1>0. Absent \in Cell /\ Unbuffered \in Cell /\ Deleted # Unbuffered
    BY DbAssumption DEF Cell
<1>1. ASSUME NEW w \in Threads, NEW t \in TxIds, StartWrite(w, t) PROVE Prefixes'
    BY <1>1 DEF Prefixes, StartWrite
<1>2. ASSUME NEW w \in Threads, NEW d \in Dbs, BufferDb(w, d) PROVE Prefixes'
    BY <1>2, BufferPrefixes
<1>3. ASSUME NEW w \in Threads, StartFlush(w) \/ Ack(w) PROVE Prefixes'
    BY <1>3 DEF Prefixes, StartFlush, Ack
<1>4. ASSUME NEW w \in Threads, FlushDb(w) PROVE Prefixes'
    <2> DEFINE d == Priority[pos[w]]
               st == Flushed(dbs[d])
    <2>1. d \in Dbs
        BY <1>4, DbAssumption DEF FlushDb
    <2>2. /\ dbs' = [dbs EXCEPT ![d] = st] /\ hist' = hist /\ Taken(d) /\ config' = config
        BY <1>4 DEF FlushDb, Nth
    <2> HIDE DEF d
    <2>3. dbs[d] \in Stores(Keys, Cell) /\ hist[d] \in Seq(LogEntry)
        BY <2>1 DEF Typed
    <2>4. st.disk = View(dbs[d]) /\ View(st) = View(dbs[d])
        BY <1>0, <2>3, FlushedView
    <2> HIDE DEF st
    <2>5. <<>> \in Seq(LogEntry) /\ hist[d] \o <<>> = hist[d]
        BY <2>3
    <2>6. hist' = [hist EXCEPT ![d] = hist[d] \o <<>>]
        BY <2>1, <2>2, <2>5 DEF Typed
    <2>7. SUFFICES ASSUME ~config.fails PROVE Prefixes'
        BY <2>2 DEF Prefixes
    <2>8. View(st) = Replay(hist[d] \o <<>>)
        BY <2>1, <2>4, <2>5, <2>7 DEF Prefixes
    <2>9. st.disk = View(st)
        BY <2>4
    <2>10. QED BY <2>1, <2>2, <2>5, <2>6, <2>7, <2>8, <2>9, OneDbPrefixes
<1>5. ASSUME NEW w \in Threads, FlushFails(w) PROVE Prefixes'
    BY <1>5 DEF Prefixes, FlushFails
<1>6. ASSUME NEW d \in Dbs, MemtableFlush(d) PROVE Prefixes'
    <2>1. /\ stable' = [stable EXCEPT ![d] = dbs[d].disk]
          /\ kept' = [kept EXCEPT ![d] = given[d]]
          /\ UNCHANGED <<config, dbs, hist, given>>
        BY <1>6 DEF MemtableFlush
    <2>2. /\ stable'[d] = dbs[d].disk /\ kept'[d] = given[d]
          /\ \A e \in Dbs \ {d} : stable'[e] = stable[e] /\ kept'[e] = kept[e]
        BY <2>1 DEF Typed
    <2>3. QED BY <2>1, <2>2 DEF Prefixes
<1>7. CASE Crash
    <2>1. /\ \A d \in Dbs : dbs'[d] = Fresh(stable[d]) /\ hist'[d] = SubSeq(hist[d], 1, kept[d])
          /\ given' = kept /\ UNCHANGED <<config, stable, kept>>
        BY <1>7 DEF Crash
    <2>2. \A d \in Dbs : View(Fresh(stable[d])) = stable[d] /\ Fresh(stable[d]).disk = stable[d]
        <3>1. TAKE d \in Dbs
        <3>2. stable[d] \in [Keys -> Cell]
            BY DEF Typed
        <3>3. QED BY <3>2, <1>0, UnbufferedView DEF Fresh
    <2>3. \A d \in Dbs : SubSeq(SubSeq(hist[d], 1, kept[d]), 1, kept[d]) = SubSeq(hist[d], 1, kept[d])
        <3>1. TAKE d \in Dbs
        <3>2. hist[d] \in Seq(LogEntry) /\ kept[d] \in Nat /\ kept[d] <= Len(hist[d])
            BY DEF Typed
        <3>3. QED BY <3>2, Prefix
    <2>4. QED BY <2>1, <2>2, <2>3 DEF Prefixes
<1>8. CASE Reopen
    <2>1. \A d \in Dbs : /\ dbs'[d] = Flushed(dbs[d]) /\ stable'[d] = View(dbs[d])
                         /\ given'[d] = Len(hist[d]) /\ kept'[d] = Len(hist[d])
        BY <1>8 DEF Reopen
    <2>2. UNCHANGED <<config, hist>>
        BY <1>8 DEF Reopen
    <2>3. \A d \in Dbs : Flushed(dbs[d]).disk = View(dbs[d]) /\ View(Flushed(dbs[d])) = View(dbs[d])
        BY <1>0, FlushedView DEF Typed
    <2>4. \A d \in Dbs : SubSeq(hist[d], 1, Len(hist[d])) = hist[d]
        <3>1. TAKE d \in Dbs
        <3>2. hist[d] \in Seq(LogEntry)
            BY DEF Typed
        <3>3. QED BY <3>2
    <2>5. QED BY <2>1, <2>2, <2>3, <2>4 DEF Prefixes
<1>9. CASE UNCHANGED vars
    BY <1>9 DEF Prefixes, vars
<1>10. QED BY <1>1, <1>2, <1>3, <1>4, <1>5, <1>6, <1>7, <1>8, <1>9 DEF Next, WriteStep

\* Every step logs operations of transactions that have begun.
LEMMA NextLogged == ASSUME Typed, Logged, [Next]_vars PROVE Logged'
<1>1. ASSUME NEW d \in Dbs, Taken(d) \/ NotTaken, config' = config PROVE Logged'
    BY <1>1 DEF Logged, Taken, NotTaken, Typed
<1>2. ASSUME NEW w \in Threads, NEW d \in Dbs, BufferDb(w, d) PROVE Logged'
    BY <1>1, <1>2 DEF BufferDb
<1>3. ASSUME NEW w \in Threads, FlushDb(w) PROVE Logged'
    <2>1. Priority[pos[w]] \in Dbs
        BY <1>3, DbAssumption DEF FlushDb
    <2>2. QED BY <1>1, <1>3, <2>1 DEF FlushDb, Nth
<1>4. QED BY <1>2, <1>3 DEF Next, WriteStep, vars, Logged, StartWrite, StartFlush, Ack,
                            FlushFails, MemtableFlush, Crash, Reopen

-------------------------------------------------------------------------------
(* What is acknowledged is on disk.                                        *)

\* Nothing is acknowledged at first.
LEMMA InitSettling == ASSUME Init PROVE Settling
BY DEF Init, Settling, Apart, Begun, PassedSettled, AckedSettled, Passed, Active

\* What a log has it keeps, and what was on disk of a transaction that is not
\* appended to still is all of it.
LEMMA Grown ==
    ASSUME Typed, NEW d \in Dbs, NEW new \in Seq(LogEntry),
           hist' = [hist EXCEPT ![d] = hist[d] \o new], Taken(d) \/ NotTaken
    PROVE  \A t : \A e \in Dbs :
               /\ Entered(t, e, hist[e]) => Entered(t, e, hist'[e])
               /\ Settled(t, hist[e], kept[e]) /\ (e = d => \A i \in DOMAIN new : new[i].tx # t)
                      => Settled(t, hist'[e], kept'[e])
<1>1. hist[d] \in Seq(LogEntry) /\ hist'[d] = hist[d] \o new
      /\ \A e \in Dbs \ {d} : hist'[e] = hist[e]
    BY DEF Typed
<1>2. /\ \A i \in DOMAIN hist[d] : i \in DOMAIN hist'[d] /\ hist'[d][i] = hist[d][i]
      /\ \A i \in DOMAIN hist'[d] :
             \/ i \in DOMAIN hist[d] /\ hist'[d][i] = hist[d][i]
             \/ \E j \in DOMAIN new : i = Len(hist[d]) + j /\ hist'[d][i] = new[j]
    BY <1>1, Joined
<1>3. \A e \in Dbs : kept[e] \in Nat /\ kept'[e] \in Nat /\ kept[e] <= kept'[e]
    <2>1. \A e \in Dbs : kept[e] \in Nat /\ kept[e] <= Len(hist[e]) /\ Len(hist[e]) \in Nat
        BY DEF Typed
    <2>2. Len(hist'[d]) \in Nat /\ Len(hist[d]) <= Len(hist'[d])
        BY <1>1
    <2>3. CASE NotTaken
        BY <2>1, <2>3 DEF NotTaken
    <2>4. CASE Taken(d)
        <3>1. given'[d] = Len(hist'[d])
            BY <2>4 DEF Taken, Typed
        <3>2. /\ kept'[d] \in {kept[d], Len(hist'[d])}
              /\ \A e \in Dbs \ {d} : kept'[e] = kept[e]
            BY <2>4, <3>1 DEF Taken, Typed
        <3>3. kept'[d] \in Nat /\ kept[d] <= kept'[d]
            BY <2>1, <2>2, <3>2
        <3>4. QED BY <2>1, <3>2, <3>3
    <2>5. QED BY <2>3, <2>4
<1>4. ASSUME NEW t, NEW e \in Dbs, Entered(t, e, hist[e])
      PROVE  Entered(t, e, hist'[e])
    BY <1>1, <1>2, <1>4 DEF Entered
<1>5. ASSUME NEW t, NEW e \in Dbs, Settled(t, hist[e], kept[e]),
             e = d => \A i \in DOMAIN new : new[i].tx # t
      PROVE  Settled(t, hist'[e], kept'[e])
    <2>1. SUFFICES ASSUME NEW n \in DOMAIN hist'[e], hist'[e][n].tx = t
                   PROVE  n <= kept'[e]
        BY DEF Settled
    <2>2. n \in DOMAIN hist[e] /\ hist[e][n].tx = t
        BY <1>1, <1>2, <1>5, <2>1
    <2>3. n <= kept[e] /\ n \in Nat
        BY <1>5, <2>2 DEF Settled, Typed
    <2>4. QED BY <1>3, <2>3
<1>6. QED BY <1>4, <1>5

\* A transaction begins that nothing was logged of.
LEMMA StartWriteSettling ==
    ASSUME Typed, Settling, Durable, NEW w \in Threads, NEW t \in TxIds, StartWrite(w, t)
    PROVE  Settling'
<1>1. Apart /\ Begun /\ PassedSettled /\ AckedSettled
    BY DEF Settling
<1>2. /\ pc' = [pc EXCEPT ![w] = "buffering"] /\ tx' = [tx EXCEPT ![w] = t]
      /\ todo' = [todo EXCEPT ![w] = Ops[t]]
      /\ UNCHANGED <<config, pos, hist, kept, acked>>
      /\ \A v \in Threads : pc[v] # "idle" => tx[v] # t
      /\ \A d \in Dbs : \A i \in DOMAIN hist[d] : hist[d][i].tx # t
    BY DEF StartWrite, Started
<1>3. /\ pc'[w] = "buffering" /\ tx'[w] = t /\ todo'[w] = Ops[t]
      /\ \A v \in Threads \ {w} : pc'[v] = pc[v] /\ tx'[v] = tx[v] /\ todo'[v] = todo[v]
    BY <1>2 DEF Typed
<1>5. Apart'
    BY <1>1, <1>2, <1>3 DEF Apart, Active
<1>6. Begun'
    <2>1. \A d \in Dbs : todo'[w][d] = <<>> => Entered(t, d, hist[d])
        BY <1>3 DEF Entered
    <2>2. t \in acked => Ops[t] = Nothing
        <3>1. SUFFICES ASSUME t \in acked PROVE Ops[t] = Nothing
            OBVIOUS
        <3>2. \A d \in Dbs : Ops[t][d] = <<>>
            BY <1>1, <1>2, <3>1 DEF AckedSettled, Entered
        <3>3. Ops[t] \in [Dbs -> Seq(DBOp)]
            BY DbAssumption
        <3>4. QED BY <3>2, <3>3 DEF Nothing
    <2>3. QED BY <1>1, <1>2, <1>3, <2>1, <2>2 DEF Begun, Active
<1>7. PassedSettled'
    BY <1>1, <1>2, <1>3 DEF PassedSettled, Passed
<1>8. AckedSettled'
    BY <1>1, <1>2 DEF AckedSettled
<1>9. QED BY <1>5, <1>6, <1>7, <1>8 DEF Settling

\* What write_buffered logs belongs to a transaction that is not acknowledged.
LEMMA BufferSettling ==
    ASSUME Typed, Settling, Durable, NEW w \in Threads, NEW d \in Dbs, BufferDb(w, d)
    PROVE  Settling'
<1>1. Apart /\ Begun /\ PassedSettled /\ AckedSettled
    BY DEF Settling
<1>2. PICK done, new : Buffers(w, d, done, new)
    BY BufferFacts
<1>3. PICK rest \in Seq(DBOp) : todo' = [todo EXCEPT ![w][d] = rest]
    BY <1>2 DEF Buffers
<1>4. /\ new \in Seq(LogEntry) /\ hist[d] \in Seq(LogEntry)
      /\ \A i \in DOMAIN new : new[i].tx = tx[w]
      /\ hist' = [hist EXCEPT ![d] = hist[d] \o new]
      /\ Taken(d) \/ NotTaken
    BY <1>2 DEF Buffers, Durable, Typed
<1>5. /\ UNCHANGED <<config, pc, tx, pos, acked>>
      /\ pc[w] = "buffering" /\ todo[w][d] # <<>>
    BY DEF BufferDb
<1>6. \A t : \A e \in Dbs :
               /\ Entered(t, e, hist[e]) => Entered(t, e, hist'[e])
               /\ Settled(t, hist[e], kept[e]) /\ (e = d => \A i \in DOMAIN new : new[i].tx # t)
                      => Settled(t, hist'[e], kept'[e])
    BY <1>4, Grown
<1>7. tx[w] \notin acked
    BY <1>1, <1>5 DEF Begun, Active, Nothing
<1>8. \E n \in DOMAIN hist'[d] : hist'[d][n].tx = tx[w]
    <2>1. hist'[d] = hist[d] \o new
        BY <1>4 DEF Typed
    <2>2. PICK i \in DOMAIN new : TRUE
        <3>1. 1 \in DOMAIN done
            BY <1>2 DEF Buffers
        <3>2. QED BY <3>1, <1>2 DEF Buffers
    <2>3. Len(hist[d]) + i \in DOMAIN hist'[d] /\ hist'[d][Len(hist[d]) + i] = new[i]
        BY <1>4, <2>1, Joined
    <2>4. QED BY <1>4, <2>3
<1>9. Apart'
    BY <1>1, <1>5 DEF Apart, Active
<1>10. Begun'
    <2>1. /\ todo'[w][d] = rest
          /\ \A v \in Threads, e \in Dbs : v # w \/ e # d => todo'[v][e] = todo[v][e]
          /\ \A v \in Threads \ {w} : todo'[v] = todo[v]
        BY <1>3 DEF Typed
    <2>2. ASSUME NEW v \in Threads, Active(v), NEW e \in Dbs, todo'[v][e] = <<>>
          PROVE  Entered(tx[v], e, hist'[e])
        <3>1. CASE v = w /\ e = d
            BY <3>1, <1>8 DEF Entered
        <3>2. CASE v # w \/ e # d
            <4>1. Entered(tx[v], e, hist[e])
                BY <1>1, <2>1, <2>2, <3>2 DEF Begun
            <4>2. QED BY <1>6, <4>1
        <3>3. QED BY <3>1, <3>2
    <2>3. ASSUME NEW v \in Threads, Active(v)
          PROVE  /\ tx[v] \in acked => todo'[v] = Nothing
                 /\ pc[v] = "flushing" => todo'[v] = Nothing
        <3>1. CASE v = w
            BY <3>1, <1>5, <1>7
        <3>2. CASE v # w
            BY <3>2, <2>1, <2>3, <1>1 DEF Begun
        <3>3. QED BY <3>1, <3>2
    <2>4. QED BY <1>5, <2>2, <2>3 DEF Begun, Active
<1>11. PassedSettled'
    <2>1. SUFFICES ASSUME NEW v \in Threads, NEW i, Passed(v, i)
                   PROVE  Settled(tx[v], hist'[Priority[i]], kept'[Priority[i]])
        BY <1>5 DEF PassedSettled, Passed
    <2>2. v # w /\ tx[v] # tx[w]
        BY <1>1, <1>5, <2>1 DEF Passed, Apart, Active
    <2>3. Priority[i] \in Dbs /\ Settled(tx[v], hist[Priority[i]], kept[Priority[i]])
        BY <1>1, <2>1, DbAssumption DEF PassedSettled, Passed
    <2>4. QED BY <1>4, <1>6, <2>2, <2>3
<1>12. AckedSettled'
    <2>1. \A t \in acked, e \in Dbs :
              Settled(t, hist'[e], kept'[e]) /\ Entered(t, e, hist'[e])
        BY <1>1, <1>4, <1>6, <1>7 DEF AckedSettled
    <2>2. QED BY <1>5, <2>1 DEF AckedSettled
<1>13. QED BY <1>9, <1>10, <1>11, <1>12 DEF Settling

\* A flush of one database settles there whatever it has accepted.
LEMMA FlushDbFacts ==
    ASSUME Typed, Durable, NEW w \in Threads, FlushDb(w)
    PROVE  LET d == Priority[pos[w]]
           IN  /\ d \in Dbs /\ pos[w] \in DOMAIN Priority /\ pc[w] = "flushing"
               /\ hist' = hist /\ pos' = [pos EXCEPT ![w] = pos[w] + 1]
               /\ UNCHANGED <<config, pc, tx, todo, acked>>
               /\ kept'[d] = Len(hist[d]) /\ dbs'[d] = Flushed(dbs[d])
               /\ \A e \in Dbs \ {d} : kept'[e] = kept[e] /\ dbs'[e] = dbs[e]
               /\ \A t : Settled(t, hist[d], kept'[d])
<1> DEFINE d == Priority[pos[w]]
<1>1. d \in Dbs /\ pos[w] \in DOMAIN Priority /\ pc[w] = "flushing"
    BY DbAssumption DEF FlushDb
<1>2. /\ hist' = hist /\ pos' = [pos EXCEPT ![w] = pos[w] + 1]
      /\ UNCHANGED <<config, pc, tx, todo, acked>> /\ Taken(d)
      /\ dbs' = [dbs EXCEPT ![d] = Flushed(dbs[d])]
    BY DEF FlushDb, Nth
<1> HIDE DEF d
<1>3. given'[d] = Len(hist[d])
    BY <1>1, <1>2 DEF Taken, Typed
<1>4. kept' = [kept EXCEPT ![d] = given'[d]]
    BY <1>2 DEF Taken, Durable
<1>5. kept'[d] = Len(hist[d]) /\ \A e \in Dbs \ {d} : kept'[e] = kept[e]
    BY <1>1, <1>3, <1>4 DEF Typed
<1>6. \A n \in DOMAIN hist[d] : n <= Len(hist[d])
    <2>1. hist[d] \in Seq(LogEntry)
        BY <1>1 DEF Typed
    <2>2. QED BY <2>1
<1>7. dbs'[d] = Flushed(dbs[d]) /\ \A e \in Dbs \ {d} : dbs'[e] = dbs[e]
    BY <1>1, <1>2 DEF Typed
<1>8. QED BY <1>1, <1>2, <1>5, <1>6, <1>7 DEF Settled, d

\* A flush settles all that was logged before it, whoever logged it.
LEMMA FlushDbSettling ==
    ASSUME Typed, Settling, Durable, NEW w \in Threads, FlushDb(w)
    PROVE  Settling'
<1> DEFINE d == Priority[pos[w]]
<1>1. Apart /\ Begun /\ PassedSettled /\ AckedSettled
    BY DEF Settling
<1>2. /\ d \in Dbs /\ pos[w] \in DOMAIN Priority /\ pc[w] = "flushing"
      /\ hist' = hist /\ pos' = [pos EXCEPT ![w] = pos[w] + 1]
      /\ UNCHANGED <<config, pc, tx, todo, acked>>
      /\ \A e \in Dbs \ {d} : kept'[e] = kept[e]
      /\ \A t : Settled(t, hist[d], kept'[d])
    BY FlushDbFacts
<1>3. \A t : \A e \in Dbs : Settled(t, hist[e], kept[e]) => Settled(t, hist[e], kept'[e])
    BY <1>2
<1>4. Apart' /\ Begun'
    BY <1>1, <1>2 DEF Apart, Begun, Active
<1>5. PassedSettled'
    <2>1. SUFFICES ASSUME NEW v \in Threads, NEW i, Passed(v, i)'
                   PROVE  Settled(tx[v], hist[Priority[i]], kept'[Priority[i]])
        BY <1>2 DEF PassedSettled
    <2>2. i \in DOMAIN Priority /\ Priority[i] \in Dbs /\ i \in Int
        BY <2>1, DbAssumption DEF Passed
    <2>3. CASE Passed(v, i)
        BY <2>2, <2>3, <1>1, <1>3 DEF PassedSettled
    <2>4. CASE ~Passed(v, i)
        <3>1. v = w /\ i < pos[w] + 1 /\ ~(i < pos[w])
            BY <2>1, <2>4, <1>2 DEF Passed, Typed
        <3>2. i = pos[w]
            BY <3>1, <2>2, <1>2, DbAssumption
        <3>3. QED BY <3>2, <1>2
    <2>5. QED BY <2>3, <2>4
<1>6. AckedSettled'
    BY <1>1, <1>2, <1>3 DEF AckedSettled
<1>7. QED BY <1>4, <1>5, <1>6 DEF Settling

\* A thread acknowledges when its flush has passed every database.
LEMMA AckSettling ==
    ASSUME Typed, Settling, Durable, NEW w \in Threads, Ack(w)
    PROVE  Settling'
<1>1. Apart /\ Begun /\ PassedSettled /\ AckedSettled
    BY DEF Settling
<1>2. /\ acked' = acked \union {tx[w]} /\ pc' = [pc EXCEPT ![w] = "idle"]
      /\ UNCHANGED <<config, tx, todo, pos, hist, kept>>
      /\ pc[w] = "flushing" /\ pos[w] > Len(Priority)
    BY DEF Ack, FlushedAll
<1>3. pc'[w] = "idle" /\ \A v \in Threads \ {w} : pc'[v] = pc[v]
    BY <1>2 DEF Typed
<1>4. \A d \in Dbs : Settled(tx[w], hist[d], kept[d]) /\ Entered(tx[w], d, hist[d])
    <2>1. TAKE d \in Dbs
    <2>2. PICK i \in DOMAIN Priority : Priority[i] = d
        BY DbAssumption
    <2>3. Passed(w, i)
        BY <1>2, <2>2, DbAssumption DEF Passed, Typed
    <2>4. todo[w][d] = <<>>
        BY <1>1, <1>2 DEF Begun, Active, Nothing
    <2>5. QED BY <1>1, <1>2, <2>2, <2>3, <2>4 DEF PassedSettled, Begun, Active
<1>5. Apart'
    BY <1>1, <1>2, <1>3 DEF Apart, Active
<1>6. Begun'
    <2>1. \A v \in Threads : Active(v)' => Active(v) /\ v # w
        BY <1>2, <1>3 DEF Active
    <2>2. \A v \in Threads : Active(v) /\ v # w => tx[v] # tx[w]
        BY <1>1, <1>2 DEF Apart, Active
    <2>3. QED BY <1>1, <1>2, <1>3, <2>1, <2>2 DEF Begun
<1>7. PassedSettled'
    BY <1>1, <1>2, <1>3 DEF PassedSettled, Passed
<1>8. AckedSettled'
    BY <1>1, <1>2, <1>4 DEF AckedSettled
<1>9. QED BY <1>5, <1>6, <1>7, <1>8 DEF Settling

\* A crash cuts the log behind what was kept, and nothing settled is there.
LEMMA CrashSettling ==
    ASSUME Typed, Settling, Durable, Crash
    PROVE  Settling'
<1>1. AckedSettled
    BY DEF Settling
<1>2. /\ \A d \in Dbs : hist'[d] = SubSeq(hist[d], 1, kept[d])
      /\ pc' = [w \in Threads |-> "idle"] /\ UNCHANGED <<config, kept, acked>>
    BY DEF Crash
<1>3. \A w \in Threads : pc'[w] = "idle"
    BY <1>2
<1>4. ASSUME NEW t \in acked, NEW d \in Dbs
      PROVE  Settled(t, hist'[d], kept[d]) /\ Entered(t, d, hist'[d])
    <2>1. hist[d] \in Seq(LogEntry) /\ kept[d] \in Nat /\ kept[d] <= Len(hist[d])
        BY DEF Typed
    <2>2. DOMAIN hist'[d] = 1 .. kept[d] /\ \A n \in 1 .. kept[d] : hist'[d][n] = hist[d][n]
        BY <1>2, <2>1
    <2>3. Settled(t, hist[d], kept[d]) /\ Entered(t, d, hist[d])
        BY <1>1 DEF AckedSettled
    <2>4. \A n \in DOMAIN hist[d] : n \in Nat \ {0}
        BY <2>1
    <2>5. Settled(t, hist'[d], kept[d])
        BY <2>1, <2>2 DEF Settled
    <2>6. Entered(t, d, hist'[d])
        BY <2>1, <2>2, <2>3, <2>4 DEF Settled, Entered
    <2>7. QED BY <2>5, <2>6
<1>5. Apart' /\ Begun' /\ PassedSettled'
    BY <1>3 DEF Apart, Begun, PassedSettled, Passed, Active
<1>6. AckedSettled'
    BY <1>2, <1>4 DEF AckedSettled
<1>7. QED BY <1>5, <1>6 DEF Settling

\* Every step keeps what is acknowledged settled.
LEMMA NextSettling == ASSUME Typed, Settling, [Next]_vars PROVE Settling'
<1>0. config' = config
    BY DEF Next, WriteStep, vars, StartWrite, BufferDb, StartFlush, FlushDb, Ack, FlushFails,
           MemtableFlush, Crash, Reopen
<1> SUFFICES ASSUME Durable PROVE Settling'
    BY <1>0 DEF Settling, Durable
<1>1. Apart /\ Begun /\ PassedSettled /\ AckedSettled
    BY DEF Settling
<1>2. ASSUME NEW w \in Threads, NEW t \in TxIds, StartWrite(w, t) PROVE Settling'
    BY <1>2, StartWriteSettling
<1>3. ASSUME NEW w \in Threads, NEW d \in Dbs, BufferDb(w, d) PROVE Settling'
    BY <1>3, BufferSettling
<1>4. ASSUME NEW w \in Threads, StartFlush(w) PROVE Settling'
    <2>1. /\ pc[w] = "buffering" /\ todo[w] = Nothing
          /\ pc' = [pc EXCEPT ![w] = "flushing"] /\ pos' = [pos EXCEPT ![w] = 1]
          /\ UNCHANGED <<config, tx, todo, hist, kept, acked>>
        BY <1>4 DEF StartFlush
    <2>2. /\ pc'[w] = "flushing" /\ pos'[w] = 1
          /\ \A v \in Threads \ {w} : pc'[v] = pc[v] /\ pos'[v] = pos[v]
        BY <2>1 DEF Typed
    <2>3. Apart' /\ Begun' /\ AckedSettled'
        BY <1>1, <2>1, <2>2 DEF Apart, Begun, AckedSettled, Active
    <2>4. \A i \in DOMAIN Priority : ~(i < 1)
        BY DbAssumption
    <2>5. PassedSettled'
        BY <1>1, <2>1, <2>2, <2>4 DEF PassedSettled, Passed
    <2>6. QED BY <2>3, <2>5 DEF Settling
<1>5. ASSUME NEW w \in Threads, FlushDb(w) PROVE Settling'
    BY <1>5, FlushDbSettling
<1>6. ASSUME NEW w \in Threads, Ack(w) PROVE Settling'
    BY <1>6, AckSettling
<1>7. ASSUME NEW w \in Threads, FlushFails(w) PROVE Settling'
    BY <1>7 DEF FlushFails, Durable
<1>8. ASSUME NEW d \in Dbs, MemtableFlush(d) PROVE Settling'
    BY <1>8 DEF MemtableFlush, Durable
<1>9. CASE Crash
    BY <1>9, CrashSettling
<1>10. CASE Reopen
    <2>1. /\ \A d \in Dbs : kept'[d] = Len(hist[d])
          /\ \A w \in Threads : pc'[w] = "idle"
          /\ UNCHANGED <<config, hist, acked>>
        BY <1>10 DEF Reopen
    <2>2. \A d \in Dbs : \A n \in DOMAIN hist[d] : n <= Len(hist[d])
        <3>1. TAKE d \in Dbs
        <3>2. hist[d] \in Seq(LogEntry)
            BY DEF Typed
        <3>3. QED BY <3>2
    <2>3. Apart' /\ Begun' /\ PassedSettled'
        BY <2>1 DEF Apart, Begun, PassedSettled, Passed, Active
    <2>4. AckedSettled'
        BY <1>1, <2>1, <2>2 DEF AckedSettled, Settled
    <2>5. QED BY <2>3, <2>4 DEF Settling
<1>11. CASE UNCHANGED vars
    BY <1>1, <1>11 DEF Settling, Apart, Begun, PassedSettled, AckedSettled, Passed, Active, vars
<1>12. QED BY SMTT(30), <1>2, <1>3, <1>4, <1>5, <1>6, <1>7, <1>8, <1>9, <1>10, <1>11 DEF Next, WriteStep

-------------------------------------------------------------------------------
(* Writers that take turns.                                                *)

\* Nobody is writing at first.
LEMMA InitInTurn == ASSUME Init PROVE InTurn
<1>1. \A w \in Threads : pc[w] = "idle" /\ \A d \in Dbs : todo[w][d] = <<>>
    BY DEF Init, Nothing
<1>2. \A d \in Dbs : hist[d] = <<>> /\ Buffered(dbs[d]) = {}
    BY DEF Init, Nothing, Buffered, Fresh, EmptyBuf, Nowhere
<1>3. OneActive /\ UnkeptActive /\ BufferedActive /\ TodoKeys /\ PassedEmpty /\ AheadNotKept
    BY <1>1, <1>2 DEF OneActive, UnkeptActive, BufferedActive, TodoKeys, PassedEmpty,
                      AheadNotKept, Active, Passed, Ahead
<1>4. QED BY <1>3 DEF InTurn

\* An overlay with operations of one transaction only does not overflow.
LEMMA NoOverflow ==
    ASSUME Typed, ~MayOverflow, NEW d \in Dbs, NEW t \in TxIds, NEW st,
           Buffered(st) \subseteq TxKeys(t, d)
    PROVE  ~Overflows(st, config.limit)
<1> DEFINE ops == Ops[t][d]
           T == TxKeys(t, d)
<1>1. ops \in Seq(DBOp)
    BY DbAssumption
<1>2. IsFiniteSet(DOMAIN ops)
    BY SMTT(30), <1>1, FS_Interval
<1>3. [i \in DOMAIN ops |-> ops[i].key] \in Surjection(DOMAIN ops, T)
    BY DEF TxKeys, Surjection
<1>4. IsFiniteSet(T)
    BY <1>2, <1>3, FS_Surjection
<1>5. ~(Cardinality(T) > config.limit)
    BY DEF MayOverflow, TxKeys
<1>6. /\ Cardinality(T) \in Nat /\ IsFiniteSet(Buffered(st)) /\ Cardinality(Buffered(st)) \in Nat
      /\ Cardinality(Buffered(st)) <= Cardinality(T)
    BY <1>4, FS_Subset, FS_CardinalityType
<1>7. config.limit \in Nat
    BY DbAssumption DEF Typed
<1>8. QED BY <1>5, <1>6, <1>7 DEF Overflows

\* The writer before has left nothing in the overlays.
LEMMA StartWriteInTurn ==
    ASSUME Typed, InTurn, Turns, NEW w \in Threads, NEW t \in TxIds, StartWrite(w, t)
    PROVE  InTurn'
<1>1. OneActive /\ UnkeptActive /\ BufferedActive /\ TodoKeys /\ PassedEmpty /\ AheadNotKept
    BY DEF InTurn
<1>2. /\ pc' = [pc EXCEPT ![w] = "buffering"] /\ tx' = [tx EXCEPT ![w] = t]
      /\ todo' = [todo EXCEPT ![w] = Ops[t]]
      /\ UNCHANGED <<config, pos, hist, kept, dbs>>
      /\ \A v \in Threads : pc[v] = "idle"
      /\ \A d \in Dbs : \A i \in DOMAIN hist[d] : hist[d][i].tx # t
    BY DEF StartWrite, Started, Turns
<1>3. /\ pc'[w] = "buffering" /\ tx'[w] = t /\ todo'[w] = Ops[t]
      /\ \A v \in Threads \ {w} : pc'[v] = "idle" /\ tx'[v] = tx[v] /\ todo'[v] = todo[v]
    BY <1>2 DEF Typed
<1>4. OneActive'
    BY <1>3 DEF OneActive, Active
<1>5. UnkeptActive'
    BY <1>1, <1>2 DEF UnkeptActive, Active
<1>6. BufferedActive'
    BY <1>1, <1>2 DEF BufferedActive, Active
<1>7. TodoKeys'
    <2>1. SUFFICES ASSUME NEW v \in Threads, NEW d \in Dbs, NEW i \in DOMAIN todo'[v][d]
                   PROVE  todo'[v][d][i].key \in TxKeys(tx'[v], d)
        BY DEF TodoKeys, TxKeys
    <2>2. CASE v = w
        BY <1>3, <2>1, <2>2 DEF TxKeys
    <2>3. CASE v # w
        BY <1>1, <1>3, <2>1, <2>3 DEF TodoKeys
    <2>4. QED BY <2>2, <2>3
<1>8. PassedEmpty'
    BY <1>3 DEF PassedEmpty, Passed
<1>9. AheadNotKept'
    <2>1. \A i \in DOMAIN Priority : Priority[i] \in Dbs
        BY DbAssumption
    <2>2. QED BY <1>2, <1>3, <2>1 DEF AheadNotKept, Ahead
<1>10. QED BY <1>4, <1>5, <1>6, <1>7, <1>8, <1>9 DEF InTurn

\* While one thread fills the overlays, nothing of its transaction is on disk.
LEMMA BufferInTurn ==
    ASSUME Typed, InTurn, Turns, NEW w \in Threads, NEW d \in Dbs, BufferDb(w, d)
    PROVE  InTurn'
<1>1. OneActive /\ UnkeptActive /\ BufferedActive /\ TodoKeys /\ PassedEmpty /\ AheadNotKept
    BY DEF InTurn
<1>2. PICK done, new : Buffers(w, d, done, new)
    BY BufferFacts
<1>3. PICK rest \in Seq(DBOp) :
          /\ \A i \in DOMAIN rest : \E j \in DOMAIN todo[w][d] : rest[i] = todo[w][d][j]
          /\ todo' = [todo EXCEPT ![w][d] = rest]
    BY <1>2 DEF Buffers
<1>4. /\ UNCHANGED <<config, pc, tx, pos>> /\ pc[w] = "buffering" /\ tx[w] \in TxIds
      /\ \A v \in Threads : Active(v) => v = w
    BY <1>1 DEF BufferDb, OneActive, Active, Typed
<1> DEFINE r == Recorded(dbs[d], done)
<1>5. \A k \in Buffered(r) : k \in TxKeys(tx[w], d)
    <2>1. TAKE k \in Buffered(r)
    <2>2. dbs[d] \in Stores(Keys, Cell)
        BY DEF Typed
    <2>3. k \in Buffered(dbs[d]) \/ \E i \in DOMAIN done : done[i].key = k
        BY <2>2, RecordedBuffers
    <2>4. CASE k \in Buffered(dbs[d])
        BY <2>4, <1>1, <1>4 DEF BufferedActive
    <2>5. CASE \E i \in DOMAIN done : done[i].key = k
        BY <2>5, <1>1, <1>2 DEF TodoKeys, Buffers
    <2>6. QED BY <2>3, <2>4, <2>5
<1>6. ~Overflows(r, config.limit)
    BY <1>4, <1>5, NoOverflow DEF Turns
<1>7. dbs' = [dbs EXCEPT ![d] = r] /\ NotTaken
    BY <1>2, <1>6 DEF Buffers, Turns, Durable
<1> HIDE DEF r
<1>8. kept' = kept /\ dbs'[d] = r /\ \A e \in Dbs \ {d} : dbs'[e] = dbs[e]
    BY <1>7 DEF NotTaken, Typed
<1>9. /\ hist[d] \in Seq(LogEntry) /\ new \in Seq(LogEntry)
      /\ \A i \in DOMAIN new : new[i].tx = tx[w]
      /\ hist'[d] = hist[d] \o new /\ \A e \in Dbs \ {d} : hist'[e] = hist[e]
    BY <1>2 DEF Buffers, Typed
<1>10. /\ \A i \in DOMAIN hist[d] : i \in DOMAIN hist'[d] /\ hist'[d][i] = hist[d][i]
       /\ \A i \in DOMAIN hist'[d] :
              \/ i \in DOMAIN hist[d] /\ hist'[d][i] = hist[d][i]
              \/ \E j \in DOMAIN new : i = Len(hist[d]) + j /\ hist'[d][i] = new[j]
    BY <1>9, Joined
<1>11. \A i \in DOMAIN hist'[d] : i \notin DOMAIN hist[d] =>
           hist'[d][i].tx = tx[w] /\ i > kept[d]
    <2>1. TAKE i \in DOMAIN hist'[d]
    <2>2. kept[d] \in Nat /\ Len(hist[d]) \in Nat /\ kept[d] <= Len(hist[d])
        BY DEF Typed
    <2>3. \A j \in DOMAIN new : j \in Nat /\ j > 0
        BY <1>9
    <2>4. QED BY SMTT(30), <1>9, <1>10, <2>2, <2>3
<1>12. /\ todo'[w][d] = rest
       /\ \A v \in Threads, e \in Dbs : v # w \/ e # d => todo'[v][e] = todo[v][e]
    BY <1>3 DEF Typed
<1>13. OneActive'
    BY <1>1, <1>4 DEF OneActive, Active
<1>14. UnkeptActive'
    <2>1. SUFFICES ASSUME NEW e \in Dbs, NEW n \in DOMAIN hist'[e], n > kept[e]
                   PROVE  \E v \in Threads : Active(v) /\ tx[v] = hist'[e][n].tx
        BY <1>4, <1>8 DEF UnkeptActive, Active
    <2>2. CASE n \in DOMAIN hist[e]
        <3>1. hist'[e][n] = hist[e][n]
            BY <2>1, <2>2, <1>9, <1>10
        <3>2. QED BY <2>1, <2>2, <3>1, <1>1 DEF UnkeptActive
    <2>3. CASE n \notin DOMAIN hist[e]
        <3>1. e = d /\ hist'[e][n].tx = tx[w]
            BY <2>1, <2>3, <1>9, <1>11
        <3>2. QED BY <3>1, <1>4 DEF Active
    <2>4. QED BY <2>2, <2>3
<1>15. BufferedActive'
    <2>1. \A e \in Dbs : \A k \in Buffered(dbs'[e]) :
              \E v \in Threads : Active(v) /\ k \in TxKeys(tx[v], e)
        BY <1>1, <1>4, <1>5, <1>8 DEF BufferedActive, Active
    <2>2. QED BY <2>1, <1>4 DEF BufferedActive, Active
<1>16. TodoKeys'
    <2>1. \A i \in DOMAIN rest : rest[i].key \in TxKeys(tx[w], d)
        BY <1>1, <1>3 DEF TodoKeys
    <2>2. QED BY <2>1, <1>1, <1>4, <1>12 DEF TodoKeys
<1>17. PassedEmpty'
    BY <1>4 DEF PassedEmpty, Passed, Active
<1>18. AheadNotKept'
    <2>1. SUFFICES ASSUME NEW v \in Threads, NEW i, Ahead(v, i), NEW n \in DOMAIN hist'[Priority[i]],
                          n <= kept[Priority[i]]
                   PROVE  hist'[Priority[i]][n].tx # tx[v]
        BY <1>4, <1>8 DEF AheadNotKept, Ahead
    <2>2. Priority[i] \in Dbs
        BY <2>1, DbAssumption DEF Ahead
    <2>3. n \in DOMAIN hist[Priority[i]] /\ hist'[Priority[i]][n] = hist[Priority[i]][n]
        <3>1. CASE Priority[i] = d
            <4>1. kept[d] \in Nat /\ n \in Int
                BY <2>1, <3>1, <1>9 DEF Typed
            <4>2. QED BY <2>1, <3>1, <4>1, <1>10, <1>11
        <3>2. CASE Priority[i] # d
            BY <2>1, <2>2, <3>2, <1>9
        <3>3. QED BY <3>1, <3>2
    <2>4. QED BY <2>1, <2>3, <1>1 DEF AheadNotKept
<1>19. QED BY <1>13, <1>14, <1>15, <1>16, <1>17, <1>18 DEF InTurn

\* The flush goes through the databases in the order of their priority.
LEMMA FlushDbInTurn ==
    ASSUME Typed, InTurn, Turns, NEW w \in Threads, FlushDb(w)
    PROVE  InTurn'
<1> DEFINE d == Priority[pos[w]]
<1>1. OneActive /\ UnkeptActive /\ BufferedActive /\ TodoKeys /\ PassedEmpty /\ AheadNotKept
    BY DEF InTurn
<1>2. /\ d \in Dbs /\ pos[w] \in DOMAIN Priority /\ pc[w] = "flushing"
      /\ hist' = hist /\ pos' = [pos EXCEPT ![w] = pos[w] + 1]
      /\ UNCHANGED <<config, pc, tx, todo, acked>>
      /\ kept'[d] = Len(hist[d]) /\ dbs'[d] = Flushed(dbs[d])
      /\ \A e \in Dbs \ {d} : kept'[e] = kept[e] /\ dbs'[e] = dbs[e]
    BY FlushDbFacts DEF Turns
<1>3. Buffered(dbs'[d]) = {}
    <2>1. Absent \in Cell /\ Unbuffered \in Cell /\ Deleted # Unbuffered
        BY DbAssumption DEF Cell
    <2>2. dbs[d] \in Stores(Keys, Cell)
        BY <1>2 DEF Typed
    <2>3. QED BY <1>2, <2>1, <2>2, FlushedView
<1>4. \A n \in DOMAIN hist[d] : ~(n > Len(hist[d]))
    <2>1. hist[d] \in Seq(LogEntry)
        BY <1>2 DEF Typed
    <2>2. QED BY <2>1
<1>5. \A v \in Threads : Active(v) => v = w
    BY <1>1, <1>2 DEF OneActive, Active
<1>6. pos'[w] = pos[w] + 1
    BY <1>2 DEF Typed
<1>7. \A i \in DOMAIN Priority : i \in Int /\ Priority[i] \in Dbs /\ (i # pos[w] => Priority[i] # d)
    BY <1>2, DbAssumption
<1> HIDE DEF d
<1>8. OneActive'
    BY <1>1, <1>2 DEF OneActive, Active
<1>9. UnkeptActive'
    BY <1>1, <1>2, <1>4 DEF UnkeptActive, Active
<1>10. BufferedActive'
    BY <1>1, <1>2, <1>3 DEF BufferedActive, Active
<1>11. TodoKeys'
    BY <1>1, <1>2 DEF TodoKeys
<1>12. PassedEmpty'
    <2>1. SUFFICES ASSUME NEW v \in Threads, NEW i, Passed(v, i)'
                   PROVE  Buffered(dbs'[Priority[i]]) = {}
        BY DEF PassedEmpty
    <2>2. v = w /\ i \in DOMAIN Priority /\ i < pos[w] + 1
        BY <2>1, <1>2, <1>5, <1>6 DEF Passed, Active
    <2>3. CASE i = pos[w]
        BY <2>3, <1>3 DEF d
    <2>4. CASE i # pos[w]
        <3>1. Passed(w, i)
            BY <2>2, <2>4, <1>2, <1>7 DEF Passed
        <3>2. QED BY <2>2, <2>4, <3>1, <1>1, <1>2, <1>7 DEF PassedEmpty
    <2>5. QED BY <2>3, <2>4
<1>13. AheadNotKept'
    <2>1. SUFFICES ASSUME NEW v \in Threads, NEW i, Ahead(v, i)', NEW n \in DOMAIN hist[Priority[i]],
                          n <= kept'[Priority[i]]
                   PROVE  hist[Priority[i]][n].tx # tx[v]
        BY <1>2 DEF AheadNotKept
    <2>2. v = w /\ i \in DOMAIN Priority /\ i >= pos[w] + 1
        BY <2>1, <1>2, <1>5, <1>6 DEF Ahead, Active
    <2>3. Ahead(w, i) /\ i # pos[w]
        BY <2>2, <1>2, <1>7 DEF Ahead
    <2>4. kept'[Priority[i]] = kept[Priority[i]]
        BY <2>2, <2>3, <1>2, <1>7
    <2>5. QED BY <2>1, <2>2, <2>3, <2>4, <1>1 DEF AheadNotKept
<1>14. QED BY <1>8, <1>9, <1>10, <1>11, <1>12, <1>13 DEF InTurn

\* When a write returns, nothing is left that is not on disk.
LEMMA AckInTurn ==
    ASSUME Typed, Settling, InTurn, Turns, NEW w \in Threads, Ack(w)
    PROVE  InTurn'
<1>1. OneActive /\ UnkeptActive /\ BufferedActive /\ TodoKeys /\ PassedEmpty /\ AheadNotKept
      /\ PassedSettled
    BY DEF InTurn, Settling, Turns
<1>2. /\ pc' = [pc EXCEPT ![w] = "idle"] /\ UNCHANGED <<config, tx, todo, pos, hist, kept, dbs>>
      /\ pc[w] = "flushing" /\ pos[w] > Len(Priority)
    BY DEF Ack, FlushedAll
<1>3. \A v \in Threads : Active(v) => v = w
    BY <1>1, <1>2 DEF OneActive, Active
<1>4. \A v \in Threads : pc'[v] = "idle"
    BY <1>2, <1>3 DEF Typed, Active
<1>5. ASSUME NEW d \in Dbs
      PROVE  Settled(tx[w], hist[d], kept[d]) /\ Buffered(dbs[d]) = {}
    <2>1. PICK i \in DOMAIN Priority : Priority[i] = d
        BY DbAssumption
    <2>2. Passed(w, i)
        BY <1>2, <2>1, DbAssumption DEF Passed, Typed
    <2>3. QED BY <1>1, <2>1, <2>2 DEF PassedSettled, PassedEmpty
<1>6. UnkeptActive'
    <2>1. \A d \in Dbs : \A n \in DOMAIN hist[d] : ~(n > kept[d])
        <3>1. TAKE d \in Dbs
        <3>2. TAKE n \in DOMAIN hist[d]
        <3>3. n > kept[d] => hist[d][n].tx = tx[w]
            BY <1>1, <1>3 DEF UnkeptActive
        <3>4. hist[d][n].tx = tx[w] => n <= kept[d]
            BY <1>5 DEF Settled
        <3>5. n \in Nat /\ kept[d] \in Nat
            BY DEF Typed
        <3>6. QED BY <3>3, <3>4, <3>5
    <2>2. QED BY <2>1, <1>2 DEF UnkeptActive
<1>7. OneActive' /\ BufferedActive' /\ TodoKeys' /\ PassedEmpty' /\ AheadNotKept'
    BY SMTT(30), <1>1, <1>2, <1>4, <1>5 DEF OneActive, BufferedActive, TodoKeys, PassedEmpty,
                                  AheadNotKept, Active, Passed, Ahead
<1>8. QED BY <1>6, <1>7 DEF InTurn

\* Every step keeps the turns.
LEMMA NextInTurn == ASSUME Typed, Settling, InTurn, [Next]_vars PROVE InTurn'
<1>0. config' = config
    BY DEF Next, WriteStep, vars, StartWrite, BufferDb, StartFlush, FlushDb, Ack, FlushFails,
           MemtableFlush, Crash, Reopen
<1> SUFFICES ASSUME Turns PROVE InTurn'
    BY <1>0 DEF InTurn, Turns, Durable, MayOverflow
<1>1. OneActive /\ UnkeptActive /\ BufferedActive /\ TodoKeys /\ PassedEmpty /\ AheadNotKept
    BY DEF InTurn
<1>2. ASSUME NEW w \in Threads, NEW t \in TxIds, StartWrite(w, t) PROVE InTurn'
    BY <1>2, StartWriteInTurn
<1>3. ASSUME NEW w \in Threads, NEW d \in Dbs, BufferDb(w, d) PROVE InTurn'
    BY <1>3, BufferInTurn
<1>4. ASSUME NEW w \in Threads, StartFlush(w) PROVE InTurn'
    <2>1. /\ pc[w] = "buffering"
          /\ pc' = [pc EXCEPT ![w] = "flushing"] /\ pos' = [pos EXCEPT ![w] = 1]
          /\ UNCHANGED <<config, tx, todo, hist, kept, dbs>>
        BY <1>4 DEF StartFlush
    <2>2. /\ pc'[w] = "flushing" /\ pos'[w] = 1
          /\ \A v \in Threads \ {w} : pc'[v] = pc[v] /\ pos'[v] = pos[v]
        BY <2>1 DEF Typed
    <2>3. \A v \in Threads : Active(v)' <=> Active(v)
        BY <2>1, <2>2 DEF Active
    <2>4. OneActive' /\ UnkeptActive' /\ BufferedActive' /\ TodoKeys'
        BY <1>1, <2>1, <2>3 DEF OneActive, UnkeptActive, BufferedActive, TodoKeys
    <2>5. \A i \in DOMAIN Priority : ~(i < 1)
        BY DbAssumption
    <2>6. PassedEmpty'
        BY <1>1, <2>1, <2>2, <2>5 DEF PassedEmpty, Passed
    <2>7. AheadNotKept'
        BY <1>1, <2>1, <2>2 DEF AheadNotKept, Ahead
    <2>8. QED BY <2>4, <2>6, <2>7 DEF InTurn
<1>5. ASSUME NEW w \in Threads, FlushDb(w) PROVE InTurn'
    BY <1>5, FlushDbInTurn
<1>6. ASSUME NEW w \in Threads, Ack(w) PROVE InTurn'
    BY <1>6, AckInTurn
<1>7. ASSUME NEW w \in Threads, FlushFails(w) PROVE InTurn'
    BY <1>7 DEF FlushFails, Turns, Durable
<1>8. ASSUME NEW d \in Dbs, MemtableFlush(d) PROVE InTurn'
    BY <1>8 DEF MemtableFlush, Turns, Durable
<1>9. CASE Crash \/ Reopen
    <2>1. \A w \in Threads : pc'[w] = "idle"
        BY <1>9 DEF Crash, Reopen
    <2>2. \A w \in Threads : \A d \in Dbs : todo'[w][d] = <<>> \/ (tx' = tx /\ todo' = todo)
        BY <1>9 DEF Crash, Reopen, Nothing
    <2>3. \A d \in Dbs : \A n \in DOMAIN hist'[d] : ~(n > kept'[d])
        <3>1. TAKE d \in Dbs
        <3>2. hist[d] \in Seq(LogEntry) /\ kept[d] \in Nat /\ kept[d] <= Len(hist[d])
            BY DEF Typed
        <3>3. CASE Crash
            <4>1. hist'[d] = SubSeq(hist[d], 1, kept[d]) /\ kept'[d] = kept[d]
                BY <3>3 DEF Crash
            <4>2. QED BY <3>2, <4>1
        <3>4. CASE Reopen
            <4>1. hist'[d] = hist[d] /\ kept'[d] = Len(hist[d])
                BY <3>4 DEF Reopen
            <4>2. QED BY <3>2, <4>1
        <3>5. QED BY <1>9, <3>3, <3>4
    <2>4. \A d \in Dbs : Buffered(dbs'[d]) = {}
        <3>1. Absent \in Cell /\ Unbuffered \in Cell /\ Deleted # Unbuffered
            BY DbAssumption DEF Cell
        <3>2. TAKE d \in Dbs
        <3>3. dbs[d] \in Stores(Keys, Cell) /\ stable[d] \in [Keys -> Cell]
            BY DEF Typed
        <3>4. Buffered(Flushed(dbs[d])) = {}
            BY <3>1, <3>3, FlushedView
        <3>5. Buffered(Fresh(stable[d])) = {}
            BY <3>1, <3>3, UnbufferedView DEF Fresh
        <3>6. QED BY <1>9, <3>4, <3>5 DEF Crash, Reopen
    <2>5. OneActive' /\ UnkeptActive' /\ BufferedActive' /\ PassedEmpty' /\ AheadNotKept'
        BY <2>1, <2>3, <2>4 DEF OneActive, UnkeptActive, BufferedActive, PassedEmpty,
                                AheadNotKept, Active, Passed, Ahead
    <2>6. TodoKeys'
        BY <1>1, <2>2 DEF TodoKeys
    <2>7. QED BY <2>5, <2>6 DEF InTurn
<1>10. CASE UNCHANGED vars
    BY <1>1, <1>10 DEF InTurn, OneActive, UnkeptActive, BufferedActive, TodoKeys, PassedEmpty,
                       AheadNotKept, Active, Passed, Ahead, vars
<1>11. QED BY <1>2, <1>3, <1>4, <1>5, <1>6, <1>7, <1>8, <1>9, <1>10 DEF Next, WriteStep

-------------------------------------------------------------------------------
(* The theorems.                                                           *)

\* The inductive invariant holds in every state of every behaviour.
THEOREM Invariance == Spec => []IInv
<1>1. Init => IInv
    BY InitTyped, InitPrefixes, InitSettling, InitInTurn DEF IInv
<1>2. IInv /\ [Next]_vars => IInv'
    BY NextTyped, NextPrefixes, NextLogged, NextSettling, NextInTurn DEF IInv
<1>3. QED BY <1>1, <1>2, PTL DEF Spec

\* The stores are total over the keys, and what is kept is no more than what
\* was given to the database, which is no more than what was logged.
THEOREM TypeCorrect == Spec => []TypeOK
<1>1. IInv => TypeOK
    <2>1. SUFFICES ASSUME Typed PROVE TypeOK
        BY DEF IInv
    <2>2. \A d \in Dbs : /\ DOMAIN dbs[d].buf = Keys /\ DOMAIN dbs[d].disk = Keys
                         /\ DOMAIN stable[d] = Keys
        <3>1. TAKE d \in Dbs
        <3>2. dbs[d] \in [buf : [Keys -> Cell], disk : [Keys -> Cell]] /\ stable[d] \in [Keys -> Cell]
            BY <2>1 DEF Typed, Stores
        <3>3. QED BY <3>2
    <2>3. \A d \in Dbs : 0 <= kept[d] /\ kept[d] <= given[d] /\ given[d] <= Len(hist[d])
        BY <2>1 DEF Typed
    <2>4. QED BY <2>1, <2>2, <2>3 DEF Typed, TypeOK
<1>2. QED BY <1>1, Invariance, PTL

\* No operation is lost, repeated or reordered between the overlay, the batch
\* and RocksDB, and a crash cuts the log of a database, nothing else.
THEOREM PrefixesDurable == Spec => []PrefixDurable
<1>1. IInv => PrefixDurable
    BY DEF IInv, Prefixes, PrefixDurable
<1>2. QED BY <1>1, Invariance, PTL

\* With a write-ahead log and batches that are not refused, what was
\* acknowledged is on disk.
THEOREM AckedStays == Spec => []AckedDurable
<1>1. IInv => AckedDurable
    <2>1. SUFFICES ASSUME IInv, Durable, NEW d \in Dbs, NEW k \in Keys,
                          OnKey(hist[d], k) # {},
                          hist[d][Max(OnKey(hist[d], k))].tx \in acked
                   PROVE  stable[d][k] = Outcome(hist[d][Max(OnKey(hist[d], k))].val)
        BY DEF AckedDurable, AckedOnDisk, Durable, OnKey, Outcome
    <2> DEFINE m == Max(OnKey(hist[d], k))
    <2>2. hist[d] \in Seq(LogEntry) /\ kept[d] \in Nat /\ kept[d] <= Len(hist[d])
        BY <2>1 DEF IInv, Typed
    <2>3. Len(hist[d]) \in Nat /\ DOMAIN hist[d] = 1 .. Len(hist[d])
        BY <2>2
    <2>4. m \in DOMAIN hist[d]
        BY <2>1, <2>3, LastOnKey
    <2>5. m <= kept[d]
        BY <2>1, <2>4 DEF IInv, Settling, AckedSettled, Settled
    <2>6. stable[d] = Replay(SubSeq(hist[d], 1, kept[d]))
        BY <2>1 DEF IInv, Prefixes, Durable
    <2>7. QED BY <2>1, <2>2, <2>5, <2>6, ReplayPrefix
<1>2. QED BY <1>1, Invariance, PTL

\* When the writers take turns, a transaction that reached a database has
\* reached every database of a higher priority in full.
THEOREM InPriorityOrder == Spec => []PriorityOrder
<1>1. IInv => PriorityOrder
    <2>1. SUFFICES ASSUME IInv, Turns, NEW i \in DOMAIN Priority, NEW j \in DOMAIN Priority, i < j,
                          NEW n \in 1 .. kept[Priority[j]], NEW m \in DOMAIN hist[Priority[i]],
                          hist[Priority[i]][m].tx = hist[Priority[j]][n].tx,
                          ~(m <= kept[Priority[i]])
                   PROVE  FALSE
        BY DEF PriorityOrder, Turns, Durable
    <2>2. Priority[i] \in Dbs /\ Priority[j] \in Dbs /\ i \in Nat /\ j \in Nat
        BY DbAssumption
    <2>3. m \in Nat /\ kept[Priority[i]] \in Nat /\ kept[Priority[j]] \in Nat
          /\ kept[Priority[j]] <= Len(hist[Priority[j]]) /\ n \in DOMAIN hist[Priority[j]]
        BY <2>1, <2>2 DEF IInv, Typed
    <2>4. PICK w \in Threads : Active(w) /\ tx[w] = hist[Priority[i]][m].tx
        BY <2>1, <2>2, <2>3 DEF IInv, InTurn, UnkeptActive
    <2>5. ~Ahead(w, j)
        <3>1. AheadNotKept
            BY <2>1 DEF IInv, InTurn
        <3>2. n <= kept[Priority[j]] /\ hist[Priority[j]][n].tx = tx[w]
            BY <2>1, <2>3, <2>4
        <3>3. QED BY <2>3, <3>1, <3>2 DEF AheadNotKept
    <2>6. pc[w] \in {"buffering", "flushing"} /\ pos[w] \in Nat
        <3>1. pc[w] \in {"buffering", "flushing"} /\ pos[w] \in 1 .. (Len(Priority) + 1)
            BY <2>1, <2>4 DEF IInv, Typed, Active
        <3>2. Len(Priority) \in Nat
            BY DbAssumption
        <3>3. QED BY <3>1, <3>2
    <2>7. Passed(w, i)
        BY <2>1, <2>2, <2>5, <2>6 DEF Passed, Ahead
    <2>8. QED BY <2>1, <2>4, <2>7 DEF IInv, Settling, Turns, PassedSettled, Settled
<1>2. QED BY <1>1, Invariance, PTL
===============================================================================
