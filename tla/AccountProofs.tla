----------------------------- MODULE AccountProofs -----------------------------
(***************************************************************************)
(* Proofs about Account, for any storage keys and values, codes and cache  *)
(* size.                                                                   *)
(***************************************************************************)
EXTENDS Account, SetLemmas

\* A cache has one entry for a key, and no more entries than its capacity.
Distinct(c) == \A i, j \in DOMAIN c : c[i].key = c[j].key => i = j

Caches == {c \in Seq(Entries) : Len(c) <= CacheSize /\ Distinct(c)}

Has(c, k) == \E i \in DOMAIN c : c[i].key = k

-------------------------------------------------------------------------------
(* The inductive invariant.                                                *)

AccountState ==
    [root : Roots, changes : [Keys -> Values \union {Unset}], cache : Caches,
     hash : Codes, code : Codes, size : Codes \union {Unknown}, dirty : BOOLEAN]

Truths == [Keys -> Values \union {Unset}]

Typed ==
    /\ base \in AccountState \union {NoAccount}
    /\ work \in AccountState \union {NoAccount}
    /\ saved \in AccountState \union {NoAccount}
    /\ stored \in Encodings \union {NoAccount}
    /\ codeDb \subseteq Codes \ {EmptyCode}
    /\ truth \in [work : Truths, saved : Truths]

Coherent(a) ==
    \A i \in DOMAIN a.cache : Same(a.cache[i].val, InTrie(a.root, a.cache[i].key))

\* Code that is not in the database is in the copy, and marked dirty.
CodeSafe(a, db) ==
    /\ a.dirty \/ a.code # EmptyCode => a.code = a.hash
    /\ ~a.dirty => a.hash \in {EmptyCode} \union db
    /\ a.size \in {Unknown, a.hash}

Good(a, db) == Coherent(a) /\ CodeSafe(a, db)

\* What an account has without its cache is what was set.
Holds(a, t) ==
    \A k \in Keys :
        Same(IF a.changes[k] # Unset THEN a.changes[k] ELSE InTrie(a.root, k), t[k])

\* What a block has changed since b is still in its cache, or so much is that
\* nothing of an older cache survives a merge with it.
Covers(a, b) ==
    \A k \in Keys : a.root[k] # b.root[k] => Has(a.cache, k) \/ Len(a.cache) = CacheSize

BaseGood ==
    base # NoAccount => Good(base, codeDb) /\ Clean(base) /\ stored # NoAccount

WorkGood ==
    work # NoAccount =>
        /\ Good(work, codeDb) /\ Holds(work, truth.work)
        /\ base # NoAccount => Covers(work, base)
        /\ base = NoAccount => stored = NoAccount

\* Nothing is committed behind a checkpoint.
SavedGood ==
    saved # NoAccount =>
        /\ Good(saved, codeDb) /\ Holds(saved, truth.saved)
        /\ work # NoAccount /\ saved.root = work.root

StoredGood == stored # NoAccount => stored.hash \in {EmptyCode} \union codeDb

IInv == Typed /\ BaseGood /\ WorkGood /\ SavedGood /\ StoredGood

-------------------------------------------------------------------------------
(* The cache.                                                              *)

\* The entry that is removed is the one of the key, if it has one; the others
\* keep their order.
LEMMA WithoutKey ==
    ASSUME NEW c \in Caches, NEW k \in Keys
    PROVE  /\ Without(c, k) \in Seq(Entries)
           /\ \/ ~Has(c, k) /\ Without(c, k) = c
              \/ \E s \in DOMAIN c :
                    /\ c[s].key = k /\ Len(Without(c, k)) = Len(c) - 1
                    /\ \A i \in 1 .. Len(c) - 1 :
                          Without(c, k)[i] = IF i < s THEN c[i] ELSE c[i + 1]
<1>1. c \in Seq(Entries) /\ Len(c) \in Nat /\ DOMAIN c = 1 .. Len(c)
    BY SMTT(30) DEF Caches
<1>2. CASE ~Has(c, k)
    BY ZenonT(30), <1>1, <1>2 DEF Without, Cached, Has
<1>3. CASE Has(c, k)
    <2> DEFINE s == Slot(c, k)
    <2>1. s \in Cached(c, k)
        BY <1>3 DEF Slot, Cached, Has
    <2>2. s \in 1 .. Len(c) /\ c[s].key = k
        BY <1>1, <2>1 DEF Cached
    <2>3. Without(c, k) = RemoveAt(c, s)
        BY <2>1 DEF Without
    <2> HIDE DEF s
    <2> DEFINE l == SubSeq(c, 1, s - 1)
               r == SubSeq(c, s + 1, Len(c))
    <2>4. l \in Seq(Entries) /\ Len(l) = s - 1 /\ \A i \in 1 .. s - 1 : l[i] = c[i]
        BY <1>1, <2>2
    <2>5. r \in Seq(Entries) /\ Len(r) = Len(c) - s /\ \A i \in 1 .. Len(c) - s : r[i] = c[s + i]
        <3>1. r = [i \in 1 .. Len(c) - s |-> c[s + i]]
            BY <1>1, <2>2
        <3>2. Len(c) - s \in Nat /\ \A i \in 1 .. Len(c) - s : s + i \in DOMAIN c /\ c[s + i] \in Entries
            BY <1>1, <2>2
        <3> DEFINE n == Len(c) - s
        <3>3. n \in Nat /\ r = [i \in 1 .. n |-> c[s + i]] /\ \A i \in 1 .. n : c[s + i] \in Entries
            BY <3>1, <3>2
        <3> HIDE DEF n, r
        <3>4. r \in Seq(Entries) /\ Len(r) = n /\ \A i \in 1 .. n : r[i] = c[s + i]
            BY <3>3
        <3>5. QED BY <3>4 DEF n
    <2>6. Without(c, k) = l \o r
        BY <2>3 DEF RemoveAt
    <2> HIDE DEF l, r
    <2>7. /\ l \o r \in Seq(Entries) /\ Len(l \o r) = Len(c) - 1
          /\ \A i \in 1 .. Len(c) - 1 : (l \o r)[i] = IF i <= s - 1 THEN l[i] ELSE r[i - (s - 1)]
        <3>1. l \o r \in Seq(Entries) /\ Len(l \o r) = (s - 1) + (Len(c) - s)
            BY <2>4, <2>5
        <3>2. \A i \in 1 .. (s - 1) + (Len(c) - s) :
                  (l \o r)[i] = IF i <= s - 1 THEN l[i] ELSE r[i - (s - 1)]
            BY <2>4, <2>5
        <3>3. (s - 1) + (Len(c) - s) = Len(c) - 1
            BY <1>1, <2>2
        <3>4. QED BY <3>1, <3>2, <3>3
    <2>8. \A i \in 1 .. Len(c) - 1 : (l \o r)[i] = IF i < s THEN c[i] ELSE c[i + 1]
        <3>1. TAKE i \in 1 .. Len(c) - 1
        <3>2. CASE i < s
            BY <3>2, <1>1, <2>2, <2>4, <2>7
        <3>3. CASE ~(i < s)
            <4>1. i - (s - 1) \in 1 .. Len(c) - s /\ s + (i - (s - 1)) = i + 1
                BY <3>3, <1>1, <2>2
            <4>2. QED BY <4>1, <3>3, <1>1, <2>2, <2>5, <2>7
        <3>4. QED BY <3>2, <3>3
    <2>9. QED BY <1>1, <2>2, <2>6, <2>7, <2>8
<1>4. QED BY <1>2, <1>3

\* Where the entries of a touched cache t come from: they are those of c in
\* their order, without the one at s and, if the cache was full, the first; the
\* last is the one that was touched.
From(c, k, t, s, d) ==
    /\ d = 1 => Len(t) = CacheSize
    /\ \/ s = Len(c) + 1 /\ ~Has(c, k) /\ Len(t) = Len(c) + 1 - d
       \/ s <= Len(c) /\ c[s].key = k /\ Len(t) = Len(c) /\ d = 0
    /\ \A i \in 1 .. Len(t) - 1 : t[i] = IF i + d < s THEN c[i + d] ELSE c[i + d + 1]

\* A touched cache keeps to its capacity and does not shrink; its entries come
\* from the old one, and the one that was touched is the last.
LEMMA Touched ==
    ASSUME NEW c \in Caches, NEW k \in Keys, NEW v \in Values
    PROVE  /\ Touch(c, k, v) \in Seq(Entries)
           /\ Len(Touch(c, k, v)) \in 1 .. CacheSize
           /\ Len(Touch(c, k, v)) >= Len(c)
           /\ Touch(c, k, v)[Len(Touch(c, k, v))] = [key |-> k, val |-> v]
           /\ \E s \in 1 .. Len(c) + 1, d \in {0, 1} : From(c, k, Touch(c, k, v), s, d)
<1> DEFINE w == Without(c, k)
           e == [key |-> k, val |-> v]
           t == Touch(c, k, v)
<1>1. c \in Seq(Entries) /\ Len(c) \in Nat /\ DOMAIN c = 1 .. Len(c) /\ Len(c) <= CacheSize
    BY DEF Caches
<1>2. CacheSize \in Nat /\ CacheSize >= 1 /\ e \in Entries
    BY ValueAssumption DEF Entries
<1>3. /\ w \in Seq(Entries)
      /\ \/ ~Has(c, k) /\ w = c
         \/ \E s \in DOMAIN c :
                /\ c[s].key = k /\ Len(w) = Len(c) - 1
                /\ \A i \in 1 .. Len(c) - 1 : w[i] = IF i < s THEN c[i] ELSE c[i + 1]
    BY WithoutKey
<1>4. t = IF Len(Append(w, e)) > CacheSize THEN Tail(Append(w, e)) ELSE Append(w, e)
    BY DEF Touch
<1> HIDE DEF w, e, t
<1>5. /\ Append(w, e) \in Seq(Entries) /\ Len(Append(w, e)) = Len(w) + 1 /\ Len(w) \in Nat
      /\ Append(w, e)[Len(w) + 1] = e
      /\ \A i \in 1 .. Len(w) : Append(w, e)[i] = w[i]
    BY <1>2, <1>3
<1> DEFINE a == Append(w, e)
<1> HIDE DEF a
<1>6. /\ a \in Seq(Entries) /\ Len(a) = Len(w) + 1 /\ Len(w) \in Nat /\ a[Len(w) + 1] = e
      /\ \A i \in 1 .. Len(w) : a[i] = w[i]
      /\ t = IF Len(a) > CacheSize THEN Tail(a) ELSE a
    BY <1>4, <1>5 DEF a
<1>7. CASE ~Has(c, k) /\ w = c /\ Len(c) = CacheSize
    <2>1. t = Tail(a) /\ t \in Seq(Entries) /\ Len(t) = Len(c)
          /\ \A i \in 1 .. Len(c) : t[i] = a[i + 1]
        BY <1>1, <1>2, <1>6, <1>7
    <2>2. t[Len(t)] = e /\ \A i \in 1 .. Len(t) - 1 : t[i] = c[i + 1]
        BY <1>1, <1>2, <1>6, <1>7, <2>1
    <2>3. \A i \in 1 .. Len(t) - 1 : t[i] = IF i + 1 < Len(c) + 1 THEN c[i + 1] ELSE c[i + 1 + 1]
        BY <2>2, <1>1, <2>1
    <2>4. Len(t) = Len(c) + 1 - 1 /\ Len(c) + 1 \in 1 .. Len(c) + 1
        BY <1>1, <2>1
    <2>5. From(c, k, t, Len(c) + 1, 1)
        BY <1>7, <2>1, <2>3, <2>4 DEF From
    <2>6. Len(t) \in 1 .. CacheSize /\ Len(t) >= Len(c) /\ t \in Seq(Entries)
        BY <1>1, <1>2, <1>7, <2>1
    <2>7. \E q \in 1 .. Len(c) + 1, d \in {0, 1} : From(c, k, t, q, d)
        BY <2>4, <2>5
    <2>8. QED BY <2>2, <2>6, <2>7 DEF t, e
<1>8. CASE ~Has(c, k) /\ w = c /\ Len(c) < CacheSize
    <2>1. t = a /\ Len(t) = Len(c) + 1
        BY <1>1, <1>2, <1>6, <1>8
    <2>2. \A i \in 1 .. Len(t) - 1 : t[i] = IF i + 0 < Len(c) + 1 THEN c[i + 0] ELSE c[i + 0 + 1]
        BY <1>1, <1>6, <1>8, <2>1
    <2>3. Len(t) = Len(c) + 1 - 0 /\ Len(c) + 1 \in 1 .. Len(c) + 1 /\ t[Len(t)] = e
        BY <1>1, <1>6, <1>8, <2>1
    <2>4. From(c, k, t, Len(c) + 1, 0)
        BY <1>8, <2>1, <2>2, <2>3 DEF From
    <2>5. Len(t) \in 1 .. CacheSize /\ Len(t) >= Len(c) /\ t \in Seq(Entries)
        BY <1>1, <1>2, <1>6, <1>8, <2>1
    <2>6. \E q \in 1 .. Len(c) + 1, d \in {0, 1} : From(c, k, t, q, d)
        BY <2>3, <2>4
    <2>7. QED BY <2>3, <2>5, <2>6 DEF t, e
<1>9. ASSUME NEW s \in DOMAIN c, c[s].key = k, Len(w) = Len(c) - 1,
             \A i \in 1 .. Len(c) - 1 : w[i] = IF i < s THEN c[i] ELSE c[i + 1]
      PROVE  /\ t \in Seq(Entries) /\ Len(t) = Len(c) /\ t[Len(t)] = e
             /\ s \in 1 .. Len(c) + 1 /\ s <= Len(c)
             /\ \A i \in 1 .. Len(t) - 1 : t[i] = IF i + 0 < s THEN c[i + 0] ELSE c[i + 0 + 1]
    <2>1. t = a /\ Len(t) = Len(c)
        BY <1>1, <1>2, <1>6, <1>9
    <2>2. QED BY <1>1, <1>6, <1>9, <2>1
<1>10. CASE \E s \in DOMAIN c :
                /\ c[s].key = k /\ Len(w) = Len(c) - 1
                /\ \A i \in 1 .. Len(c) - 1 : w[i] = IF i < s THEN c[i] ELSE c[i + 1]
    <2>1. PICK s \in DOMAIN c :
                /\ c[s].key = k /\ Len(w) = Len(c) - 1
                /\ \A i \in 1 .. Len(c) - 1 : w[i] = IF i < s THEN c[i] ELSE c[i + 1]
        BY <1>10
    <2>2. /\ t \in Seq(Entries) /\ Len(t) = Len(c) /\ t[Len(t)] = e
          /\ s \in 1 .. Len(c) + 1 /\ s <= Len(c)
          /\ \A i \in 1 .. Len(t) - 1 : t[i] = IF i + 0 < s THEN c[i + 0] ELSE c[i + 0 + 1]
        BY <1>9, <2>1
    <2>3. Len(c) >= 1
        BY <1>1
    <2>4. From(c, k, t, s, 0)
        BY <2>1, <2>2 DEF From
    <2>5. Len(t) \in 1 .. CacheSize /\ Len(t) >= Len(c)
        BY <1>1, <1>2, <2>2, <2>3
    <2>6. \E q \in 1 .. Len(c) + 1, d \in {0, 1} : From(c, k, t, q, d)
        BY <2>2, <2>4
    <2>7. QED BY <2>2, <2>5, <2>6 DEF t, e
<1>11. Len(c) = CacheSize \/ Len(c) < CacheSize
    <2>1. CacheSize \in Nat
        BY <1>2
    <2>2. Len(c) \in Nat /\ Len(c) <= CacheSize
        BY <1>1
    <2>3. \A m, n \in Nat : m <= n => m = n \/ m < n
        OBVIOUS
    <2>4. QED BY <2>1, <2>2, <2>3
<1>12. QED BY <1>3, <1>7, <1>8, <1>10, <1>11

\* A touched cache has the entry that was touched and no others than it had; it
\* only loses one if it is full.
LEMMA TouchEntries ==
    ASSUME NEW c \in Caches, NEW k \in Keys, NEW v \in Values
    PROVE  /\ Touch(c, k, v) \in Caches
           /\ Len(Touch(c, k, v)) >= Len(c)
           /\ Has(Touch(c, k, v), k)
           /\ \A i \in DOMAIN Touch(c, k, v) :
                 \/ Touch(c, k, v)[i] = [key |-> k, val |-> v]
                 \/ /\ Touch(c, k, v)[i].key # k
                    /\ \E j \in DOMAIN c : Touch(c, k, v)[i] = c[j]
           /\ \A q \in Keys : Has(c, q) => Has(Touch(c, k, v), q) \/ Len(Touch(c, k, v)) = CacheSize
<1> DEFINE t == Touch(c, k, v)
<1>1. /\ t \in Seq(Entries) /\ Len(t) \in 1 .. CacheSize /\ Len(t) >= Len(c)
      /\ t[Len(t)] = [key |-> k, val |-> v]
    BY Touched
<1>2. PICK s \in 1 .. Len(c) + 1, d \in {0, 1} : From(c, k, t, s, d)
    BY Touched
<1>3. /\ c \in Seq(Entries) /\ Len(c) \in Nat /\ DOMAIN c = 1 .. Len(c) /\ Len(c) <= CacheSize
      /\ \A i, j \in 1 .. Len(c) : c[i].key = c[j].key => i = j
    BY DEF Caches, Distinct
<1>4. CacheSize \in Nat
    BY ValueAssumption
<1> HIDE DEF t
<1>5. Len(t) \in Nat /\ Len(t) >= 1 /\ Len(t) <= CacheSize /\ DOMAIN t = 1 .. Len(t)
    BY <1>1, <1>4
<1>0. \A i \in 1 .. Len(t) : i = Len(t) \/ i \in 1 .. Len(t) - 1
    <2>1. \A n \in Nat : \A i \in 1 .. n : i = n \/ i \in 1 .. n - 1
        OBVIOUS
    <2>2. QED BY <1>5, <2>1
<1> DEFINE o(i) == IF i + d < s THEN i + d ELSE i + d + 1
<1>6. \A i \in 1 .. Len(t) - 1 : o(i) \in 1 .. Len(c) /\ t[i] = c[o(i)] /\ o(i) # s
    <2>1. TAKE i \in 1 .. Len(t) - 1
    <2>2. t[i] = c[o(i)]
        BY <1>2 DEF From
    <2>3. CASE s = Len(c) + 1 /\ Len(t) = Len(c) + 1 - d
        BY <2>2, <2>3, <1>3, <1>5
    <2>4. CASE s <= Len(c) /\ Len(t) = Len(c) /\ d = 0
        BY <2>2, <2>4, <1>3, <1>5
    <2>5. QED BY <2>3, <2>4, <1>2 DEF From
<1>7. \A i, j \in 1 .. Len(t) - 1 : o(i) = o(j) => i = j
    BY <1>5
<1>8. \A i \in 1 .. Len(c) : c[i].key = k => i = s
    BY <1>2, <1>3 DEF From, Has
<1> HIDE DEF o
<1>9. \A i \in 1 .. Len(t) - 1 : t[i].key # k
    BY <1>6, <1>8
<1>10. t[Len(t)].key = k
    BY <1>1
<1>11. Distinct(t)
    <2>1. SUFFICES ASSUME NEW i \in 1 .. Len(t), NEW j \in 1 .. Len(t), t[i].key = t[j].key
                   PROVE  i = j
        BY <1>5 DEF Distinct
    <2>2. CASE i = Len(t) \/ j = Len(t)
        BY <2>1, <2>2, <1>0, <1>9, <1>10
    <2>3. CASE i # Len(t) /\ j # Len(t)
        <3>1. i \in 1 .. Len(t) - 1 /\ j \in 1 .. Len(t) - 1
            BY <2>3, <1>0
        <3>2. QED BY <3>1, <2>1, <1>3, <1>6, <1>7
    <2>4. QED BY <2>2, <2>3
<1>12. t \in Caches
    BY <1>1, <1>5, <1>11 DEF Caches
<1>13. Has(t, k)
    BY <1>5, <1>10 DEF Has
<1>14. ASSUME NEW i \in DOMAIN t
       PROVE  t[i] = [key |-> k, val |-> v] \/ (t[i].key # k /\ \E j \in DOMAIN c : t[i] = c[j])
    <2>1. i = Len(t) \/ i \in 1 .. Len(t) - 1
        BY <1>5
    <2>2. QED BY <2>1, <1>1, <1>3, <1>6, <1>9
<1>15. ASSUME NEW q \in Keys, Has(c, q), Len(t) # CacheSize
       PROVE  Has(t, q)
    <2>1. PICK j \in 1 .. Len(c) : c[j].key = q
        BY <1>3, <1>15 DEF Has
    <2>2. d = 0
        BY <1>2, <1>15 DEF From
    <2>7. Len(t) = IF s = Len(c) + 1 THEN Len(c) + 1 ELSE Len(c)
        <3>1. s = Len(c) + 1 => ~(s <= Len(c))
            BY <1>3
        <3>2. QED BY <2>2, <3>1, <1>2, <1>3 DEF From
    <2>3. CASE j = s
        BY <2>1, <2>3, <1>2, <1>3, <1>13 DEF From
    <2>4. CASE j < s
        <3>1. j \in 1 .. Len(t) - 1 /\ o(j) = j
            BY <2>2, <2>4, <2>7, <1>3, <1>5 DEF o
        <3>2. t[j] = c[j]
            BY <3>1, <1>6
        <3>3. j \in DOMAIN t
            BY <3>1, <1>5
        <3>4. QED BY <3>2, <3>3, <2>1 DEF Has
    <2>5. CASE j > s
        <3>1. j - 1 \in 1 .. Len(t) - 1 /\ o(j - 1) = j
            BY <2>2, <2>5, <2>7, <1>3, <1>5 DEF o
        <3>2. t[j - 1] = c[j]
            BY <3>1, <1>6
        <3>3. j - 1 \in DOMAIN t
            BY <3>1, <1>5
        <3>4. QED BY <3>2, <3>3, <2>1 DEF Has
    <2>6. QED BY <2>3, <2>4, <2>5, <1>3
<1>16. QED BY <1>1, <1>12, <1>13, <1>14, <1>15 DEF t

\* The entries used last, among which the key is not, stay the ones used last.
LEMMA TouchLatest ==
    ASSUME NEW c \in Caches, NEW k \in Keys, NEW v \in Values,
           NEW n \in Nat, n <= Len(c), n < CacheSize,
           \A i \in 1 .. n : c[Len(c) - n + i].key # k
    PROVE  /\ n < Len(Touch(c, k, v))
           /\ \A i \in 1 .. n :
                 Touch(c, k, v)[Len(Touch(c, k, v)) - (n + 1) + i] = c[Len(c) - n + i]
           /\ Touch(c, k, v)[Len(Touch(c, k, v))] = [key |-> k, val |-> v]
<1> DEFINE t == Touch(c, k, v)
<1>1. /\ t \in Seq(Entries) /\ Len(t) \in 1 .. CacheSize /\ Len(t) >= Len(c)
      /\ t[Len(t)] = [key |-> k, val |-> v]
    BY Touched
<1>2. PICK s \in 1 .. Len(c) + 1, d \in {0, 1} : From(c, k, t, s, d)
    BY Touched
<1>3. Len(c) \in Nat /\ Len(c) <= CacheSize
    BY DEF Caches
<1>4. CacheSize \in Nat
    BY ValueAssumption
<1> HIDE DEF t
<1>5. Len(t) \in Nat /\ Len(t) >= 1 /\ Len(t) <= CacheSize
    BY <1>1, <1>4
<1>6. s <= Len(c) => s <= Len(c) - n
    <2>1. SUFFICES ASSUME s <= Len(c), s > Len(c) - n PROVE FALSE
        BY <1>3
    <2>2. s - (Len(c) - n) \in 1 .. n /\ Len(c) - n + (s - (Len(c) - n)) = s
        BY <1>3, <2>1
    <2>3. c[s].key = k
        BY <1>2, <1>3, <2>1 DEF From
    <2>4. QED BY <2>2, <2>3
<1>7. n < Len(t)
    BY <1>2, <1>3, <1>4, <1>5, <1>6 DEF From
<1>8. ASSUME NEW i \in 1 .. n
      PROVE  t[Len(t) - (n + 1) + i] = c[Len(c) - n + i]
    <2> DEFINE j == Len(t) - (n + 1) + i
    <2>1. j \in 1 .. Len(t) - 1
        BY <1>5, <1>7
    <2>2. t[j] = IF j + d < s THEN c[j + d] ELSE c[j + d + 1]
        BY <1>2, <2>1 DEF From
    <2>3. CASE s = Len(c) + 1 /\ Len(t) = Len(c) + 1 - d
        <3>1. j + d = Len(c) - n + i /\ j + d < s
            BY <2>3, <1>3, <1>5
        <3>2. QED BY <2>2, <3>1
    <2>4. CASE s <= Len(c) /\ Len(t) = Len(c) /\ d = 0
        <3>1. j + d + 1 = Len(c) - n + i /\ ~(j + d < s)
            BY <2>4, <1>3, <1>5, <1>6
        <3>2. QED BY <2>2, <3>1
    <2>5. QED BY <2>3, <2>4, <1>2 DEF From
<1>9. QED BY <1>1, <1>7, <1>8 DEF t

\* The caches that Merge goes through, up to the n-th entry of other.
Run(cache, other, m, n) ==
    /\ m \in [0 .. n -> Caches]
    /\ m[0] = cache
    /\ \A i \in 1 .. n : m[i] = Touch(m[i - 1], other[i].key, other[i].val)

\* Merge ends with the last of them.
LEMMA MergeRun ==
    ASSUME NEW cache \in Caches, NEW other \in Seq(Entries)
    PROVE  \E m : Run(cache, other, m, Len(other)) /\ Merge(cache, other) = m[Len(other)]
<1> DEFINE L == Len(other)
<1>1. /\ L \in Nat
      /\ \A i \in 1 .. L : other[i].key \in Keys /\ other[i].val \in Values
    <2>1. L \in Nat /\ \A i \in 1 .. L : other[i] \in Entries
        OBVIOUS
    <2>2. QED BY <2>1 DEF Entries
<1> HIDE DEF L
<1> DEFINE Undone == {n \in 0 .. L : ~ \E m : Run(cache, other, m, n)}
<1>2. Undone = {}
    <2>1. SUFFICES ASSUME Undone # {} PROVE FALSE
        OBVIOUS
    <2>2. Undone \subseteq Nat
        BY <1>1
    <2>3. PICK n \in Undone : \A k \in Undone : n <= k
        BY <2>1, <2>2, LeastNatural
    <2>4. CASE n = 0
        <3>1. Run(cache, other, [i \in 0 .. 0 |-> cache], 0)
            BY DEF Run
        <3>2. QED BY <2>4, <3>1
    <2>5. CASE n # 0
        <3>1. n - 1 \in 0 .. L /\ n - 1 \notin Undone /\ n \in 1 .. L
            BY <2>2, <2>3, <2>5, <1>1
        <3>2. PICK m : Run(cache, other, m, n - 1)
            BY <3>1
        <3> DEFINE new == Touch(m[n - 1], other[n].key, other[n].val)
                   g == [i \in 0 .. n |-> IF i = n THEN new ELSE m[i]]
        <3>3. m[n - 1] \in Caches
            BY <3>1, <3>2, <1>1 DEF Run
        <3>4. new \in Caches
            BY <3>1, <3>3, <1>1, TouchEntries
        <3> HIDE DEF new
        <3>5. \A i \in 0 .. n : i # n => i \in 0 .. n - 1
            BY <3>1, <1>1
        <3>6. g \in [0 .. n -> Caches]
            BY <3>2, <3>4, <3>5 DEF Run
        <3>7. g[0] = cache
            BY <3>1, <3>2, <1>1 DEF Run
        <3>8. ASSUME NEW i \in 1 .. n
              PROVE  g[i] = Touch(g[i - 1], other[i].key, other[i].val)
            <4>1. i - 1 \in 0 .. n /\ i - 1 # n /\ i \in 0 .. n
                BY <3>1, <1>1
            <4>2. g[i - 1] = m[i - 1]
                BY <4>1
            <4>3. CASE i = n
                BY <4>1, <4>2, <4>3 DEF new
            <4>4. CASE i # n
                <5>1. i \in 1 .. n - 1 /\ g[i] = m[i]
                    BY <4>1, <4>4, <3>1, <1>1
                <5>2. QED BY <5>1, <4>2, <3>2 DEF Run
            <4>5. QED BY <4>3, <4>4
        <3> HIDE DEF g
        <3>9. Run(cache, other, g, n)
            BY <3>6, <3>7, <3>8 DEF Run
        <3>10. QED BY <3>9
    <2>6. QED BY <2>4, <2>5
<1>3. PICK m : Run(cache, other, m, L)
    BY <1>1, <1>2
<1> DEFINE step(f) == [n \in 0 .. L |->
                          IF n = 0 THEN cache
                          ELSE Touch(f[n - 1], other[n].key, other[n].val)]
           merged == CHOOSE f : f = step(f)
<1>4. m = step(m)
    <2>1. \A n \in 0 .. L : n # 0 => n \in 1 .. L
        BY <1>1
    <2>2. \A n \in 0 .. L : m[n] = step(m)[n]
        BY <2>1, <1>3 DEF Run
    <2>3. m = [n \in 0 .. L |-> m[n]]
        BY <1>3 DEF Run
    <2>4. QED BY <2>2, <2>3
<1>5. merged = step(merged)
    BY <1>4
<1>6. Merge(cache, other) = merged[L]
    BY DEF Merge, L
<1> HIDE DEF merged
<1> DEFINE Apart == {n \in 0 .. L : merged[n] # m[n]}
<1>7. Apart = {}
    <2>1. SUFFICES ASSUME Apart # {} PROVE FALSE
        OBVIOUS
    <2>2. Apart \subseteq Nat
        BY <1>1
    <2>3. PICK n \in Apart : \A k \in Apart : n <= k
        BY <2>1, <2>2, LeastNatural
    <2>4. merged[n] = step(merged)[n] /\ m[n] = step(m)[n]
        BY <1>4, <1>5, Zenon
    <2>5. CASE n = 0
        BY <2>3, <2>4, <2>5
    <2>6. CASE n # 0
        <3>1. n - 1 \in 0 .. L /\ n - 1 \notin Apart
            BY <2>2, <2>3, <2>6, <1>1
        <3>2. merged[n - 1] = m[n - 1]
            BY <3>1
        <3>3. QED BY <3>2, <2>3, <2>4, <2>6
    <2>7. QED BY <2>5, <2>6
<1>8. merged[L] = m[L]
    BY <1>1, <1>7
<1>9. QED BY <1>3, <1>6, <1>8 DEF L

\* A merged cache has entries of other, and those of cache for other keys; it
\* only loses one if it is full.
LEMMA MergeEntries ==
    ASSUME NEW cache \in Caches, NEW other \in Seq(Entries)
    PROVE  /\ Merge(cache, other) \in Caches
           /\ \A i \in DOMAIN Merge(cache, other) :
                 \/ \E j \in DOMAIN other : Merge(cache, other)[i] = other[j]
                 \/ /\ ~Has(other, Merge(cache, other)[i].key)
                    /\ \E j \in DOMAIN cache : Merge(cache, other)[i] = cache[j]
           /\ \A q \in Keys : Has(cache, q) \/ Has(other, q) =>
                  Has(Merge(cache, other), q) \/ Len(Merge(cache, other)) = CacheSize
           /\ Len(Merge(cache, other)) >= Len(cache)
<1> DEFINE L == Len(other)
<1>1. PICK m : Run(cache, other, m, L) /\ Merge(cache, other) = m[L]
    BY MergeRun
<1>2. L \in Nat /\ DOMAIN other = 1 .. L /\ \A i \in 1 .. L : other[i] \in Entries
    OBVIOUS
<1> HIDE DEF L
<1>3. CacheSize \in Nat
    BY ValueAssumption
<1> DEFINE Sound(c, n) ==
        /\ \A i \in DOMAIN c :
              \/ \E j \in 1 .. n : c[i] = other[j]
              \/ /\ \A j \in 1 .. n : other[j].key # c[i].key
                 /\ \E j \in DOMAIN cache : c[i] = cache[j]
        /\ \A q \in Keys : Has(cache, q) \/ (\E j \in 1 .. n : other[j].key = q) =>
               Has(c, q) \/ Len(c) = CacheSize
        /\ Len(c) >= Len(cache)
<1> DEFINE Unsound == {n \in 0 .. L : ~Sound(m[n], n)}
<1>4. Unsound = {}
    <2>1. SUFFICES ASSUME Unsound # {} PROVE FALSE
        OBVIOUS
    <2>2. Unsound \subseteq Nat
        BY <1>2
    <2>3. PICK n \in Unsound : \A k \in Unsound : n <= k
        BY <2>1, <2>2, LeastNatural
    <2>4. CASE n = 0
        <3>1. m[n] = cache
            BY <2>4, <1>1 DEF Run
        <3>2. Len(cache) \in Nat
            BY DEF Caches
        <3>3. Sound(cache, 0)
            BY <3>2
        <3>4. QED BY <2>3, <2>4, <3>1, <3>3
    <2>5. CASE n # 0
        <3>1. n - 1 \in 0 .. L /\ n - 1 \notin Unsound /\ n \in 1 .. L
            BY SMTT(30), <2>2, <2>3, <2>5, <1>2
        <3> DEFINE c == m[n - 1]
                   k == other[n].key
                   v == other[n].val
                   t == Touch(c, k, v)
        <3>2. c \in Caches /\ m[n] = t
            BY <3>1, <1>1, <1>2 DEF Run
        <3>3. k \in Keys /\ v \in Values /\ other[n] = [key |-> k, val |-> v]
            BY <3>1, <1>2 DEF Entries
        <3>4. Sound(c, n - 1)
            BY <3>1
        <3> HIDE DEF c, k, v
        <3>5. /\ t \in Caches /\ Len(t) >= Len(c) /\ Has(t, k)
              /\ \A i \in DOMAIN t :
                    \/ t[i] = [key |-> k, val |-> v]
                    \/ /\ t[i].key # k
                       /\ \E j \in DOMAIN c : t[i] = c[j]
              /\ \A q \in Keys : Has(c, q) => Has(t, q) \/ Len(t) = CacheSize
            BY ZenonT(30), <3>2, <3>3, TouchEntries
        <3> HIDE DEF t
        <3>6. \A j \in 1 .. n : j = n \/ j \in 1 .. n - 1
            BY <3>1, <1>2
        <3>7. \A j \in 1 .. n - 1 : j \in 1 .. n
            BY <3>1, <1>2
        <3>8. n \in 1 .. n /\ other[n].key = k
            BY <3>1, <1>2 DEF k
        <3>9. ASSUME NEW i \in DOMAIN t
              PROVE  \/ \E j \in 1 .. n : t[i] = other[j]
                     \/ /\ \A j \in 1 .. n : other[j].key # t[i].key
                        /\ \E j \in DOMAIN cache : t[i] = cache[j]
            <4>1. CASE t[i] = [key |-> k, val |-> v]
                BY <4>1, <3>3, <3>8
            <4>2. CASE t[i].key # k /\ \E j \in DOMAIN c : t[i] = c[j]
                <5>1. PICK j \in DOMAIN c : t[i] = c[j]
                    BY <4>2
                <5>2. \/ \E l \in 1 .. n - 1 : c[j] = other[l]
                      \/ /\ \A l \in 1 .. n - 1 : other[l].key # c[j].key
                         /\ \E l \in DOMAIN cache : c[j] = cache[l]
                    BY <3>4
                <5>3. QED BY <5>1, <5>2, <4>2, <3>6, <3>7, <3>8
            <4>3. QED BY <4>1, <4>2, <3>5
        <3>10. CASE Len(t) = CacheSize
            <4>1. Len(c) \in Nat /\ Len(t) \in Nat /\ Len(cache) \in Nat
                BY <3>2, <3>5 DEF Caches
            <4>2. Len(t) >= Len(cache)
                BY <4>1, <3>4, <3>5
            <4>3. Sound(t, n)
                BY <4>2, <3>9, <3>10
            <4>4. QED BY <4>3, <3>2, <2>3
        <3>11. CASE Len(t) # CacheSize
            <4>1. Len(c) \in Nat /\ Len(t) \in Nat /\ Len(cache) \in Nat
                  /\ Len(c) <= CacheSize /\ Len(t) <= CacheSize
                BY <3>2, <3>5 DEF Caches
            <4>2. Len(t) >= Len(cache)
                BY <4>1, <3>4, <3>5
            <4>3. Len(c) # CacheSize
                BY <4>1, <3>5, <3>11, <1>3
            <4>4. ASSUME NEW q \in Keys, Has(cache, q) \/ \E j \in 1 .. n : other[j].key = q
                  PROVE  Has(t, q)
                <5>1. q = k \/ Has(cache, q) \/ \E j \in 1 .. n - 1 : other[j].key = q
                    BY <4>4, <3>6, <3>8
                <5>2. q = k \/ Has(c, q)
                    BY <5>1, <4>3, <3>4
                <5>3. QED BY <5>2, <3>5, <3>11
            <4>5. Sound(t, n)
                BY <4>2, <4>4, <3>9
            <4>6. QED BY <4>5, <3>2, <2>3
        <3>12. QED BY <3>10, <3>11
    <2>6. QED BY <2>4, <2>5
<1>5. Sound(m[L], L) /\ m[L] \in Caches
    BY <1>1, <1>2, <1>4 DEF Run
<1> DEFINE t == Merge(cache, other)
<1>6. t = m[L]
    BY <1>1
<1> HIDE DEF t
<1>7. Sound(t, L) /\ t \in Caches
    BY <1>5, <1>6
<1>8. \A q : Has(other, q) <=> \E j \in 1 .. L : other[j].key = q
    BY <1>2 DEF Has
<1>9. QED BY <1>2, <1>7, <1>8 DEF t

\* A full cache, merged into another, replaces it.
LEMMA MergeFull ==
    ASSUME NEW cache \in Caches, NEW other \in Caches, Len(other) = CacheSize
    PROVE  Merge(cache, other) = other
<1> DEFINE L == Len(other)
<1>1. other \in Seq(Entries) /\ Distinct(other)
    BY DEF Caches
<1>2. PICK m : Run(cache, other, m, L) /\ Merge(cache, other) = m[L]
    BY <1>1, MergeRun
<1>3. L \in Nat /\ L = CacheSize /\ DOMAIN other = 1 .. L /\ \A i \in 1 .. L : other[i] \in Entries
    BY <1>1
<1> HIDE DEF L
<1> DEFINE Latest(c, n) == n <= Len(c) /\ \A i \in 1 .. n : c[Len(c) - n + i] = other[i]
           Others == {n \in 0 .. L : ~Latest(m[n], n)}
<1>4. Others = {}
    <2>1. SUFFICES ASSUME Others # {} PROVE FALSE
        OBVIOUS
    <2>2. Others \subseteq Nat
        BY <1>3
    <2>3. PICK n \in Others : \A k \in Others : n <= k
        BY <2>1, <2>2, LeastNatural
    <2>4. CASE n = 0
        <3>1. m[n] = cache /\ Len(cache) \in Nat
            BY <2>4, <1>2 DEF Run, Caches
        <3>2. Latest(cache, 0)
            BY <3>1
        <3>3. QED BY <2>3, <2>4, <3>1, <3>2
    <2>5. CASE n # 0
        <3>1. n - 1 \in 0 .. L /\ n - 1 \notin Others /\ n \in 1 .. L /\ n - 1 \in Nat /\ n - 1 < CacheSize
            BY <2>2, <2>3, <2>5, <1>3
        <3> DEFINE c == m[n - 1]
                   k == other[n].key
                   v == other[n].val
                   t == Touch(c, k, v)
        <3>2. c \in Caches /\ m[n] = t
            BY <3>1, <1>2, <1>3 DEF Run
        <3>3. k \in Keys /\ v \in Values /\ other[n] = [key |-> k, val |-> v]
            BY <3>1, <1>3 DEF Entries
        <3>4. Latest(c, n - 1)
            BY <3>1
        <3>5. \A i \in 1 .. n - 1 : other[i].key # k
            <4>1. TAKE i \in 1 .. n - 1
            <4>2. i \in DOMAIN other /\ n \in DOMAIN other /\ i # n
                BY <3>1, <1>3
            <4>3. QED BY <4>2, <1>1 DEF Distinct
        <3> HIDE DEF c, k, v
        <3>6. \A i \in 1 .. n - 1 : c[Len(c) - (n - 1) + i].key # k
            BY <3>4, <3>5
        <3>7. /\ n - 1 < Len(t)
              /\ \A i \in 1 .. n - 1 : t[Len(t) - ((n - 1) + 1) + i] = c[Len(c) - (n - 1) + i]
              /\ t[Len(t)] = [key |-> k, val |-> v]
            BY <3>1, <3>2, <3>3, <3>4, <3>6, TouchLatest
        <3>8. Len(t) \in Nat
            BY <3>2, <3>3, TouchEntries DEF Caches
        <3> HIDE DEF t
        <3>9. (n - 1) + 1 = n /\ n <= Len(t) /\ Len(t) - n + n = Len(t)
            BY <3>1, <3>7, <3>8, <1>3
        <3>10. \A i \in 1 .. n : i = n \/ i \in 1 .. n - 1
            BY <3>1, <1>3
        <3>11. ASSUME NEW i \in 1 .. n
               PROVE  t[Len(t) - n + i] = other[i]
            <4>1. CASE i = n
                BY <4>1, <3>3, <3>7, <3>9
            <4>2. CASE i \in 1 .. n - 1
                <5>1. t[Len(t) - n + i] = c[Len(c) - (n - 1) + i]
                    BY <4>2, <3>7, <3>9
                <5>2. QED BY <5>1, <4>2, <3>4
            <4>3. QED BY <4>1, <4>2, <3>10
        <3>12. Latest(t, n)
            BY <3>9, <3>11
        <3>13. QED BY <3>2, <3>12, <2>3
    <2>6. QED BY <2>4, <2>5
<1> DEFINE t == m[L]
<1>5. Latest(t, L) /\ t \in Caches
    <2>1. L \in 0 .. L
        BY <1>3
    <2>2. Latest(m[L], L)
        BY <2>1, <1>4
    <2>3. m[L] \in Caches
        BY <2>1, <1>2 DEF Run
    <2>4. QED BY <2>2, <2>3
<1> HIDE DEF t
<1>6. t \in Seq(Entries) /\ Len(t) \in Nat /\ Len(t) <= L
    BY <1>3, <1>5 DEF Caches
<1>7. Len(t) = L /\ \A i \in 1 .. L : Len(t) - L + i = i
    BY <1>3, <1>5, <1>6
<1>8. \A i \in 1 .. L : t[i] = other[i]
    BY <1>5, <1>7
<1>9. t = other
    <2>1. Len(other) = Len(t)
        BY <1>7 DEF L
    <2>2. QED BY <2>1, <1>1, <1>3, <1>6, <1>7, <1>8
<1>10. QED BY <1>2, <1>9 DEF t

-------------------------------------------------------------------------------
(* The operations on one account.                                          *)

\* The markers are neither values nor accounts, and a well-typed account is
\* one.
LEMMA Markers ==
    /\ NoAccount \notin AccountState /\ NoAccount \notin Encodings
    /\ AccountState \subseteq AccountType
    /\ Unset \notin Values /\ Missing \in Zeros /\ Zeros \subseteq Values
    /\ EmptyCode \in Codes /\ Unknown \notin Codes /\ EmptyCache \in Caches
<1>1. ASSUME NEW c \in Caches
      PROVE  c \in UNION {[1 .. n -> Entries] : n \in 0 .. CacheSize}
    <2>1. Len(c) \in Nat /\ Len(c) <= CacheSize /\ c \in [1 .. Len(c) -> Entries]
        BY DEF Caches
    <2>2. Len(c) \in 0 .. CacheSize
        BY <2>1, ValueAssumption
    <2>3. QED BY <2>1, <2>2
<1>2. AccountState \subseteq AccountType
    BY <1>1 DEF AccountState, AccountType
<1>3. EmptyCache \in Caches
    BY ValueAssumption DEF EmptyCache, Caches, Distinct
<1>4. QED BY <1>2, <1>3, ValueAssumption, MarkerAssumption

\* The encoding of a value is not the mark of an empty slot, and has the value.
LEMMA Encoding ==
    ASSUME NEW v \in Values
    PROVE  encode(v) # Unset /\ encode(v).val = v
<1>1. encode(v) \in [val : Values, padded : BOOLEAN] /\ encode(v).val = v
    BY DEF encode
<1>2. QED BY <1>1, ValueAssumption

\* What a trie gives for a key is the value that was written, unless that is
\* padded and the read panics.
LEMMA TrieGives ==
    ASSUME NEW root \in Roots, NEW k \in Keys
    PROVE  /\ InTrie(root, k) \in Values
           /\ FromTrie(root, k) \in {InTrie(root, k), Panic}
           /\ FromTrie(root, k) = Panic => InTrie(root, k) \in Padded
<1>1. Missing \in Values /\ Panic \notin Values
    BY ValueAssumption
<1>2. CASE root[k] = Unset
    BY <1>1, <1>2 DEF InTrie, FromTrie
<1>3. CASE root[k] # Unset
    <2>1. PICK v \in Values : root[k] = encode(v)
        BY <1>3 DEF Roots
    <2>2. encode(v).val = v /\ encode(v).padded = (v \in Padded)
        BY DEF encode
    <2>3. InTrie(root, k) = v /\ FromTrie(root, k) = IF v \in Padded THEN Panic ELSE v
        BY <1>3, <2>1, <2>2 DEF InTrie, FromTrie, decode
    <2>4. QED BY <1>1, <2>3
<1>4. QED BY <1>2, <1>3

\* All zeros being the same is an equivalence.
LEMMA SameEquivalence ==
    /\ \A v : Same(v, v)
    /\ \A v, w : Same(v, w) => Same(w, v)
    /\ \A u, v, w : Same(u, v) /\ Same(v, w) => Same(u, w)
BY DEF Same

\* A new account, and one that is read from the state trie, have no changes and
\* no cache.
LEMMA NewGood ==
    ASSUME NEW size \in {Unknown, EmptyCode}, NEW db
    PROVE  /\ New(size) \in AccountState /\ Good(New(size), db)
           /\ Holds(New(size), Contents(Nothing))
<1> DEFINE a == New(size)
<1>1. a \in AccountState
    <2>1. Nothing \in Roots /\ Nothing \in [Keys -> Values \union {Unset}]
        BY DEF Nothing, Roots
    <2>2. QED BY <2>1, Markers DEF New, AccountState
<1>2. a.cache = <<>> /\ a.changes = Nothing /\ a.root = Nothing /\ ~a.dirty
      /\ a.code = EmptyCode /\ a.hash = EmptyCode /\ a.size = size
    BY DEF New, EmptyCache
<1> HIDE DEF a
<1>3. Good(a, db)
    BY <1>2 DEF Good, Coherent, CodeSafe
<1>4. Holds(a, Contents(Nothing))
    BY <1>2 DEF Holds, Contents, Nothing, Same
<1>5. QED BY <1>1, <1>3, <1>4 DEF a

\* An account read from the state trie (from_rlp) is clean, and its code is in
\* the database.
LEMMA DecodedGood ==
    ASSUME NEW rlp \in Encodings, NEW db, rlp.hash \in {EmptyCode} \union db
    PROVE  Decoded(rlp) \in AccountState /\ Good(Decoded(rlp), db) /\ Clean(Decoded(rlp))
<1> DEFINE a == Decoded(rlp)
<1>1. a \in AccountState
    <2>1. Nothing \in [Keys -> Values \union {Unset}]
        BY DEF Nothing
    <2>2. QED BY <2>1, Markers DEF Decoded, AccountState, Encodings
<1>2. a.cache = <<>> /\ a.changes = Nothing /\ ~a.dirty
      /\ a.code = EmptyCode /\ a.hash = rlp.hash /\ a.size = Unknown
    BY DEF Decoded, EmptyCache
<1> HIDE DEF a
<1>3. Good(a, db)
    BY <1>2 DEF Good, Coherent, CodeSafe
<1>4. Clean(a)
    BY <1>2 DEF Clean, Dirty, Nothing
<1>5. QED BY <1>1, <1>3, <1>4 DEF a

\* A coherent account answers with its change, or with what the trie has; it
\* panics only if that is padded.
LEMMA AnswerGood ==
    ASSUME NEW a \in AccountState, Coherent(a), NEW k \in Keys
    PROVE  /\ Answer(a, k) \in Values \union {Panic}
           /\ a.changes[k] # Unset => Answer(a, k) = a.changes[k] /\ Answer(a, k) # Panic
           /\ a.changes[k] = Unset /\ Answer(a, k) # Panic =>
                  Same(Answer(a, k), InTrie(a.root, k))
           /\ a.changes[k] = Unset /\ Answer(a, k) = Panic => InTrie(a.root, k) \in Padded
<1>1. a.changes[k] \in Values \union {Unset} /\ a.root \in Roots
      /\ a.cache \in Seq(Entries) /\ Panic \notin Values
    BY ValueAssumption DEF AccountState, Caches
<1>2. /\ InTrie(a.root, k) \in Values
      /\ FromTrie(a.root, k) \in {InTrie(a.root, k), Panic}
      /\ FromTrie(a.root, k) = Panic => InTrie(a.root, k) \in Padded
    BY <1>1, TrieGives
<1>3. CASE a.changes[k] # Unset
    BY <1>1, <1>3 DEF Answer
<1>4. CASE a.changes[k] = Unset /\ Cached(a.cache, k) # {}
    <2>1. Slot(a.cache, k) \in DOMAIN a.cache /\ a.cache[Slot(a.cache, k)].key = k
        BY <1>4 DEF Slot, Cached
    <2>2. Answer(a, k) = a.cache[Slot(a.cache, k)].val
        BY <1>4 DEF Answer
    <2>3. a.cache[Slot(a.cache, k)] \in Entries
        BY <1>1, <2>1
    <2>4. QED BY <1>1, <1>4, <2>1, <2>2, <2>3 DEF Coherent, Entries
<1>5. CASE a.changes[k] = Unset /\ Cached(a.cache, k) = {}
    <2>1. Answer(a, k) = FromTrie(a.root, k)
        BY <1>5 DEF Answer
    <2>2. QED BY <1>2, <1>5, <2>1, SameEquivalence
<1>6. QED BY <1>3, <1>4, <1>5

\* A read changes nothing but the cache, which stays coherent and covers what
\* it covered.
LEMMA ReadGood ==
    ASSUME NEW a \in AccountState, NEW db, Good(a, db), NEW k \in Keys
    PROVE  /\ Read(a, k) \in AccountState /\ Good(Read(a, k), db)
           /\ Read(a, k).root = a.root /\ Read(a, k).changes = a.changes
           /\ Read(a, k).dirty = a.dirty
           /\ \A b : Covers(a, b) => Covers(Read(a, k), b)
<1>1. CASE a.changes[k] # Unset \/ Answer(a, k) = Panic
    BY <1>1 DEF Read
<1>2. CASE a.changes[k] = Unset /\ Answer(a, k) # Panic
    <2> DEFINE v == Answer(a, k)
               t == Touch(a.cache, k, v)
               r == Read(a, k)
    <2>1. v \in Values /\ Same(v, InTrie(a.root, k))
        BY <1>2, AnswerGood DEF Good
    <2>2. a.cache \in Caches
        BY DEF AccountState
    <2> HIDE DEF v
    <2>3. /\ t \in Caches /\ Len(t) >= Len(a.cache)
          /\ \A i \in DOMAIN t :
                \/ t[i] = [key |-> k, val |-> v]
                \/ /\ t[i].key # k
                   /\ \E j \in DOMAIN a.cache : t[i] = a.cache[j]
          /\ \A q \in Keys : Has(a.cache, q) => Has(t, q) \/ Len(t) = CacheSize
        BY <2>1, <2>2, TouchEntries
    <2>4. r = [a EXCEPT !.cache = t]
        BY <1>2 DEF Read, v
    <2> HIDE DEF t
    <2>5. r \in AccountState /\ r.cache = t /\ r.root = a.root /\ r.changes = a.changes
          /\ r.hash = a.hash /\ r.code = a.code /\ r.size = a.size /\ r.dirty = a.dirty
        BY <2>3, <2>4 DEF AccountState
    <2> HIDE DEF r
    <2>6. Coherent(r)
        <3>1. SUFFICES ASSUME NEW i \in DOMAIN t
                       PROVE  Same(t[i].val, InTrie(a.root, t[i].key))
            BY <2>5 DEF Coherent
        <3>2. CASE t[i] = [key |-> k, val |-> v]
            BY <3>2, <2>1
        <3>3. CASE \E j \in DOMAIN a.cache : t[i] = a.cache[j]
            BY <3>3 DEF Good, Coherent
        <3>4. QED BY <3>2, <3>3, <2>3
    <2>7. CodeSafe(r, db)
        BY <2>5 DEF Good, CodeSafe
    <2>8. ASSUME NEW b, Covers(a, b), NEW q \in Keys, r.root[q] # b.root[q]
          PROVE  Has(t, q) \/ Len(t) = CacheSize
        <3>1. Has(a.cache, q) \/ Len(a.cache) = CacheSize
            BY <2>5, <2>8 DEF Covers
        <3>2. Len(a.cache) = CacheSize => Len(t) = CacheSize
            <4>1. Len(t) \in Nat /\ Len(t) <= CacheSize /\ CacheSize \in Nat
                BY <2>3, ValueAssumption DEF Caches
            <4>2. QED BY <4>1, <2>3
        <3>3. QED BY <3>1, <3>2, <2>3
    <2>9. \A b : Covers(a, b) => Covers(r, b)
        BY <2>5, <2>8 DEF Covers
    <2>10. QED BY <2>5, <2>6, <2>7, <2>9 DEF Good, r
<1>3. QED BY <1>1, <1>2

\* A commit moves the changes to the trie, and leaves what it wrote in the
\* cache, or a cache that is full.
LEMMA CommittedGood ==
    ASSUME NEW a \in AccountState, NEW db, Good(a, db), NEW order \in SetToSeqs(Dirty(a))
    PROVE  /\ Committed(a, order) \in AccountState /\ Good(Committed(a, order), db)
           /\ \A t : Holds(a, t) => Holds(Committed(a, order), t)
           /\ \A b : Covers(a, b) => Covers(Committed(a, order), b)
<1> DEFINE new == [i \in DOMAIN order |-> [key |-> order[i], val |-> a.changes[order[i]]]]
           root == [k \in Keys |->
                       CASE a.changes[k] = Unset -> a.root[k]
                         [] a.changes[k] \in Zeros -> Unset
                         [] OTHER -> encode(a.changes[k])]
           m == Merge(a.cache, new)
           c == Committed(a, order)
<1>1. /\ \A k \in Keys : a.changes[k] \in Values \union {Unset}
      /\ \A k \in Keys : a.root[k] \in {encode(v) : v \in Values \ Zeros} \union {Unset}
      /\ a.cache \in Caches
    BY DEF AccountState, Roots
<1>2. /\ order \in [1 .. Cardinality(Dirty(a)) -> Dirty(a)]
      /\ Cardinality(Dirty(a)) \in Nat
      /\ \A k \in Dirty(a) : \E i \in 1 .. Cardinality(Dirty(a)) : order[i] = k
    <2>1. IsFiniteSet(Dirty(a))
        <3>1. Dirty(a) \subseteq Keys
            BY DEF Dirty
        <3>2. QED BY <3>1, ValueAssumption, FS_Subset
    <2>2. /\ order \in [1 .. Cardinality(Dirty(a)) -> Dirty(a)]
          /\ \A i, j \in 1 .. Cardinality(Dirty(a)) : order[i] = order[j] => i = j
        BY DEF SetToSeqs
    <2>3. QED BY <2>1, <2>2, Covered
<1>3. \A k : k \in Dirty(a) <=> k \in Keys /\ a.changes[k] # Unset
    BY DEF Dirty
<1> DEFINE n == Cardinality(Dirty(a))
<1> HIDE DEF n
<1>4. /\ n \in Nat /\ DOMAIN new = 1 .. n /\ DOMAIN order = 1 .. n
      /\ \A i \in 1 .. n : /\ new[i] = [key |-> order[i], val |-> a.changes[order[i]]]
                           /\ order[i] \in Keys /\ a.changes[order[i]] \in Values
    BY <1>1, <1>2, <1>3 DEF n
<1>5. \A k \in Keys : Has(new, k) <=> a.changes[k] # Unset
    <2>1. \A k \in Keys : a.changes[k] # Unset => \E i \in 1 .. n : order[i] = k
        BY <1>2, <1>3 DEF n
    <2>2. \A i \in 1 .. n : a.changes[order[i]] # Unset /\ new[i].key = order[i]
        BY <1>4, Markers
    <2>3. QED BY <1>4, <2>1, <2>2 DEF Has
<1>6. new \in Seq(Entries)
    <2>1. \A i \in 1 .. n : new[i] \in Entries
        BY <1>4 DEF Entries
    <2>2. new = [i \in 1 .. n |-> new[i]]
        BY <1>4
    <2> HIDE DEF new
    <2>3. QED BY <1>4, <2>1, <2>2
<1>7. c = [a EXCEPT !.root = root, !.changes = Nothing, !.cache = m]
    BY DEF Committed
<1> HIDE DEF new
<1>8. /\ m \in Caches /\ Len(m) >= Len(a.cache)
      /\ \A i \in DOMAIN m :
            \/ \E j \in DOMAIN new : m[i] = new[j]
            \/ /\ ~Has(new, m[i].key)
               /\ \E j \in DOMAIN a.cache : m[i] = a.cache[j]
      /\ \A q \in Keys : Has(a.cache, q) \/ Has(new, q) => Has(m, q) \/ Len(m) = CacheSize
    BY <1>1, <1>6, MergeEntries
<1>9. \A k \in Keys : root[k] = IF a.changes[k] = Unset THEN a.root[k]
                                 ELSE IF a.changes[k] \in Zeros THEN Unset ELSE encode(a.changes[k])
    <2>1. TAKE k \in Keys
    <2>2. CASE a.changes[k] = Unset
        BY <2>2, Markers
    <2>3. CASE a.changes[k] # Unset /\ a.changes[k] \in Zeros
        BY <2>3
    <2>4. CASE a.changes[k] # Unset /\ a.changes[k] \notin Zeros
        BY <2>4
    <2>5. QED BY <2>2, <2>3, <2>4
<1>10. root \in Roots
    <2>1. \A k \in Keys : root[k] \in {encode(v) : v \in Values \ Zeros} \union {Unset}
        BY <1>1, <1>9
    <2>2. root = [k \in Keys |-> root[k]]
        OBVIOUS
    <2> HIDE DEF root
    <2>3. QED BY <2>1, <2>2 DEF Roots
<1> HIDE DEF root, m
<1>11. /\ c \in AccountState
       /\ c.root = root /\ c.changes = Nothing /\ c.cache = m
       /\ c.hash = a.hash /\ c.code = a.code /\ c.size = a.size /\ c.dirty = a.dirty
    <2>1. Nothing \in [Keys -> Values \union {Unset}]
        BY DEF Nothing
    <2>2. QED BY <1>7, <1>8, <1>10, <2>1 DEF AccountState
<1> HIDE DEF c
<1>12. ASSUME NEW k \in Keys, a.changes[k] # Unset
       PROVE  Same(a.changes[k], InTrie(root, k))
    <2>1. CASE a.changes[k] \in Zeros
        BY <2>1, <1>9, <1>12, Markers DEF InTrie, Same
    <2>2. CASE a.changes[k] \notin Zeros
        <3>1. a.changes[k] \in Values /\ root[k] = encode(a.changes[k])
            BY <2>2, <1>1, <1>9, <1>12
        <3>2. QED BY <3>1, Encoding DEF InTrie, Same
    <2>3. QED BY <2>1, <2>2
<1>13. \A k \in Keys : a.changes[k] = Unset => InTrie(root, k) = InTrie(a.root, k)
    BY <1>9 DEF InTrie
<1>14. Coherent(c)
    <2>1. SUFFICES ASSUME NEW i \in DOMAIN m
                   PROVE  Same(m[i].val, InTrie(root, m[i].key))
        BY <1>11 DEF Coherent
    <2>2. CASE \E j \in DOMAIN new : m[i] = new[j]
        <3>1. PICK j \in 1 .. n : m[i] = new[j]
            BY <2>2, <1>4
        <3>2. m[i].key = order[j] /\ m[i].val = a.changes[order[j]]
            BY <3>1, <1>4
        <3>3. QED BY <3>2, <1>4, <1>12, Markers
    <2>3. CASE ~Has(new, m[i].key) /\ \E j \in DOMAIN a.cache : m[i] = a.cache[j]
        <3>1. PICK j \in DOMAIN a.cache : m[i] = a.cache[j]
            BY <2>3
        <3>2. m[i].key \in Keys
            <4>1. a.cache[j] \in Entries
                BY <1>1, <3>1 DEF Caches
            <4>2. QED BY <3>1, <4>1 DEF Entries
        <3>3. a.changes[m[i].key] = Unset
            BY <2>3, <3>2, <1>5
        <3>4. Same(a.cache[j].val, InTrie(a.root, a.cache[j].key))
            BY <3>1 DEF Good, Coherent
        <3>5. QED BY <3>1, <3>2, <3>3, <3>4, <1>13
    <2>4. QED BY <2>2, <2>3, <1>8
<1>15. CodeSafe(c, db)
    BY <1>11 DEF Good, CodeSafe
<1>16. ASSUME NEW t, Holds(a, t)
       PROVE  Holds(c, t)
    <2>1. SUFFICES ASSUME NEW k \in Keys
                   PROVE  Same(InTrie(root, k), t[k])
        BY <1>11 DEF Holds, Nothing
    <2>2. CASE a.changes[k] = Unset
        BY <2>2, <1>13, <1>16 DEF Holds
    <2>3. CASE a.changes[k] # Unset
        <3>1. Same(a.changes[k], t[k])
            BY <2>3, <1>16 DEF Holds
        <3>2. QED BY <3>1, <2>3, <1>12, SameEquivalence
    <2>4. QED BY <2>2, <2>3
<1>17. ASSUME NEW b, Covers(a, b)
       PROVE  Covers(c, b)
    <2>1. SUFFICES ASSUME NEW k \in Keys, root[k] # b.root[k]
                   PROVE  Has(m, k) \/ Len(m) = CacheSize
        BY <1>11 DEF Covers
    <2>2. CASE a.changes[k] # Unset
        BY <2>2, <1>5, <1>8
    <2>3. CASE a.changes[k] = Unset
        <3>1. Has(a.cache, k) \/ Len(a.cache) = CacheSize
            BY <2>1, <2>3, <1>9, <1>17 DEF Covers
        <3>2. Len(a.cache) = CacheSize => Len(m) = CacheSize
            <4>1. Len(m) \in Nat /\ Len(m) <= CacheSize /\ CacheSize \in Nat
                BY <1>8, ValueAssumption DEF Caches
            <4>2. QED BY <4>1, <1>8
        <3>3. QED BY <3>1, <3>2, <1>8
    <2>4. QED BY <2>2, <2>3
<1>18. QED BY <1>11, <1>14, <1>15, <1>16, <1>17 DEF Good, c

\* The entries of self that outlive an overwrite by other must be true of what
\* other has in the trie.
LEMMA OverwriteGood ==
    ASSUME NEW self \in AccountState, NEW other \in AccountState, NEW db, Good(other, db),
           Coherent(self), Covers(other, self)
    PROVE  /\ Overwrite(self, other) \in AccountState /\ Good(Overwrite(self, other), db)
           /\ Overwrite(self, other).root = other.root
           /\ Overwrite(self, other).changes = other.changes
           /\ Overwrite(self, other).dirty = other.dirty
           /\ \A b : self.root = other.root /\ Covers(self, b) => Covers(Overwrite(self, other), b)
<1> DEFINE m == Merge(self.cache, other.cache)
           o == Overwrite(self, other)
<1>1. self.cache \in Caches /\ other.cache \in Caches /\ other.cache \in Seq(Entries)
    BY DEF AccountState, Caches
<1>2. /\ m \in Caches /\ Len(m) >= Len(self.cache)
      /\ \A i \in DOMAIN m :
            \/ \E j \in DOMAIN other.cache : m[i] = other.cache[j]
            \/ /\ ~Has(other.cache, m[i].key)
               /\ \E j \in DOMAIN self.cache : m[i] = self.cache[j]
      /\ \A q \in Keys : Has(self.cache, q) \/ Has(other.cache, q) =>
             Has(m, q) \/ Len(m) = CacheSize
    BY <1>1, MergeEntries
<1>3. Len(other.cache) = CacheSize => m = other.cache
    BY <1>1, MergeFull
<1>4. o = [other EXCEPT !.cache = m]
    BY DEF Overwrite
<1> HIDE DEF m
<1>5. o \in AccountState /\ o.cache = m /\ o.root = other.root /\ o.changes = other.changes
      /\ o.hash = other.hash /\ o.code = other.code /\ o.size = other.size /\ o.dirty = other.dirty
    BY <1>2, <1>4 DEF AccountState
<1> HIDE DEF o
<1>6. Coherent(o)
    <2>1. SUFFICES ASSUME NEW i \in DOMAIN m
                   PROVE  Same(m[i].val, InTrie(other.root, m[i].key))
        BY <1>5 DEF Coherent
    <2>2. CASE \E j \in DOMAIN other.cache : m[i] = other.cache[j]
        BY <2>2 DEF Good, Coherent
    <2>3. CASE /\ ~Has(other.cache, m[i].key)
               /\ \E j \in DOMAIN self.cache : m[i] = self.cache[j]
               /\ Len(other.cache) # CacheSize
        <3>1. PICK j \in DOMAIN self.cache : m[i] = self.cache[j]
            BY <2>3
        <3>2. m[i].key \in Keys
            <4>1. self.cache[j] \in Entries
                BY <1>1, <3>1 DEF Caches
            <4>2. QED BY <3>1, <4>1 DEF Entries
        <3>3. other.root[m[i].key] = self.root[m[i].key]
            BY <2>3, <3>2 DEF Covers
        <3>4. Same(m[i].val, InTrie(self.root, m[i].key))
            BY <3>1 DEF Coherent
        <3>5. QED BY <3>3, <3>4 DEF InTrie
    <2>4. CASE Len(other.cache) = CacheSize
        BY <2>4, <1>3, <2>1 DEF Good, Coherent
    <2>5. QED BY <2>2, <2>3, <2>4, <1>2
<1>7. CodeSafe(o, db)
    BY <1>5 DEF Good, CodeSafe
<1>8. ASSUME NEW b, self.root = other.root, Covers(self, b)
      PROVE  Covers(o, b)
    <2>1. SUFFICES ASSUME NEW k \in Keys, self.root[k] # b.root[k]
                   PROVE  Has(m, k) \/ Len(m) = CacheSize
        BY <1>5, <1>8 DEF Covers
    <2>2. Has(self.cache, k) \/ Len(self.cache) = CacheSize
        BY <2>1, <1>8 DEF Covers
    <2>3. Len(self.cache) = CacheSize => Len(m) = CacheSize
        <3>1. Len(m) \in Nat /\ Len(m) <= CacheSize /\ CacheSize \in Nat
            BY <1>2, ValueAssumption DEF Caches
        <3>2. QED BY <3>1, <1>2
    <2>4. QED BY <2>2, <2>3, <1>2
<1>9. QED BY <1>5, <1>6, <1>7, <1>8 DEF Good, o

\* A clone is as good as its original, whichever of its parts it takes along.
LEMMA CloneGood ==
    ASSUME NEW a \in AccountState, NEW db, Good(a, db),
           NEW c \in {CloneBasic(a), CloneDirty(a), CloneAll(a)}
    PROVE  /\ c \in AccountState /\ Good(c, db) /\ c.root = a.root
           /\ c.changes \in {a.changes, Nothing}
           /\ c = CloneDirty(a) => c.changes = a.changes
<1>1. Nothing \in [Keys -> Values \union {Unset}]
    BY DEF Nothing
<1>2. EmptyCache \in Caches /\ a.cache \in Caches
    BY Markers DEF AccountState
<1>3. /\ c \in AccountState /\ c.root = a.root /\ c.changes \in {a.changes, Nothing}
      /\ c.cache \in {EmptyCache, a.cache}
      /\ c.hash = a.hash /\ c.code = a.code /\ c.size = a.size /\ c.dirty = a.dirty
    BY <1>1, <1>2 DEF CloneBasic, CloneDirty, CloneAll, AccountState
<1>4. Coherent(c)
    BY <1>3 DEF Good, Coherent, EmptyCache
<1>5. CodeSafe(c, db)
    BY <1>3 DEF Good, CodeSafe
<1>6. c = CloneDirty(a) => c.changes = a.changes
    BY DEF CloneDirty, CloneBasic, AccountState
<1>7. QED BY <1>3, <1>4, <1>5, <1>6 DEF Good

\* What the code operations leave of an account.
SameStorage(a, b) == a.root = b.root /\ a.changes = b.changes /\ a.cache = b.cache

\* What is said of the storage of an account is said of every account with the
\* same storage.
LEMMA SameStorageGood ==
    ASSUME NEW a, NEW b, SameStorage(a, b)
    PROVE  /\ Coherent(b) => Coherent(a)
           /\ \A t : Holds(b, t) => Holds(a, t)
           /\ \A c : Covers(b, c) => Covers(a, c)
           /\ \A c : Covers(c, b) => Covers(c, a)
BY DEF SameStorage, Coherent, Holds, Covers

\* New code is in the copy, until it is committed.
LEMMA WithCodeGood ==
    ASSUME NEW a \in AccountState, NEW db, Good(a, db), NEW c \in Codes
    PROVE  WithCode(a, c) \in AccountState /\ Good(WithCode(a, c), db)
           /\ SameStorage(WithCode(a, c), a)
<1> DEFINE w == WithCode(a, c)
<1>1. /\ w \in AccountState /\ SameStorage(w, a)
      /\ w.hash = c /\ w.code = c /\ w.size = c /\ w.dirty
    BY DEF WithCode, AccountState, SameStorage
<1> HIDE DEF w
<1>2. Coherent(w)
    BY <1>1, SameStorageGood DEF Good
<1>3. CodeSafe(w, db)
    BY <1>1 DEF CodeSafe
<1>4. QED BY <1>1, <1>2, <1>3 DEF Good, w

\* A commit of the code puts it into the database, which keeps the others.
LEMMA CodeCommittedGood ==
    ASSUME NEW a \in AccountState, NEW db, Good(a, db), a.dirty
    PROVE  LET new == db \union ({a.hash} \ {EmptyCode})
           IN  CodeCommitted(a) \in AccountState /\ Good(CodeCommitted(a), new)
               /\ SameStorage(CodeCommitted(a), a)
<1> DEFINE w == CodeCommitted(a)
           new == db \union ({a.hash} \ {EmptyCode})
<1>1. /\ w \in AccountState /\ SameStorage(w, a)
      /\ w.hash = a.hash /\ w.code = a.code /\ w.size = a.code /\ ~w.dirty
    BY DEF CodeCommitted, AccountState, SameStorage
<1> HIDE DEF w
<1>2. Coherent(w)
    BY <1>1, SameStorageGood DEF Good
<1>3. CodeSafe(w, new)
    BY <1>1 DEF Good, CodeSafe
<1>4. QED BY <1>1, <1>2, <1>3 DEF Good, w

\* A database of codes that grows loses none.
LEMMA MoreCode ==
    ASSUME NEW a, NEW db, NEW new, Good(a, db), db \subseteq new
    PROVE  Good(a, new)
BY DEF Good, CodeSafe

\* The code that is read into a copy is the one its hash names.
LEMMA CodeCachedGood ==
    ASSUME NEW a \in AccountState, Good(a, codeDb), NEW w \in {CodeCached(a), SizeCached(a)}
    PROVE  w \in AccountState /\ Good(w, codeDb) /\ SameStorage(w, a) /\ w.dirty = a.dirty
<1>1. CASE w = a
    BY <1>1 DEF SameStorage
<1>2. CASE w # a /\ w = CodeCached(a)
    <2>1. w = [a EXCEPT !.code = a.hash, !.size = a.hash] /\ a.code = EmptyCode
          /\ a.hash \in codeDb
        BY <1>2 DEF CodeCached, IsCached
    <2>2. /\ w \in AccountState /\ SameStorage(w, a)
          /\ w.hash = a.hash /\ w.code = a.hash /\ w.size = a.hash /\ w.dirty = a.dirty
        BY <2>1 DEF AccountState, SameStorage
    <2>3. Coherent(w)
        BY <2>2, SameStorageGood DEF Good
    <2>4. CodeSafe(w, codeDb)
        BY <2>1, <2>2 DEF Good, CodeSafe
    <2>5. QED BY <2>2, <2>3, <2>4 DEF Good
<1>3. CASE w # a /\ w = SizeCached(a)
    <2>1. w = [a EXCEPT !.size = a.hash]
        BY <1>3 DEF SizeCached
    <2>2. /\ w \in AccountState /\ SameStorage(w, a)
          /\ w.hash = a.hash /\ w.code = a.code /\ w.size = a.hash /\ w.dirty = a.dirty
        BY <2>1 DEF AccountState, SameStorage
    <2>3. Coherent(w)
        BY <2>2, SameStorageGood DEF Good
    <2>4. CodeSafe(w, codeDb)
        BY <2>2 DEF Good, CodeSafe
    <2>5. QED BY <2>2, <2>3, <2>4 DEF Good
<1>4. QED BY <1>1, <1>2, <1>3

-------------------------------------------------------------------------------
(* The steps.                                                              *)

\* A record of what was last set, with one part replaced.
LEMMA TruthSteps ==
    ASSUME NEW t \in [work : Truths, saved : Truths], NEW v \in Truths
    PROVE  /\ [t EXCEPT !.work = v] \in [work : Truths, saved : Truths]
           /\ [t EXCEPT !.work = v].work = v /\ [t EXCEPT !.work = v].saved = t.saved
           /\ [t EXCEPT !.saved = v] \in [work : Truths, saved : Truths]
           /\ [t EXCEPT !.saved = v].work = t.work /\ [t EXCEPT !.saved = v].saved = v
OBVIOUS

\* What a trie holds may be what was last set.
LEMMA ContentsTruths ==
    ASSUME NEW root \in Roots
    PROVE  Contents(root) \in Truths /\ Nothing \in Truths
<1>1. \A k \in Keys : InTrie(root, k) \in Values
    BY TrieGives
<1>2. QED BY <1>1 DEF Contents, Truths, Nothing

\* An account without changes holds what its trie has.
LEMMA CleanHolds ==
    ASSUME NEW a, a.changes = Nothing
    PROVE  Holds(a, Contents(a.root))
BY SameEquivalence DEF Holds, Contents, Nothing

\* Nothing exists at first.
LEMMA InitIInv == Init => IInv
<1> SUFFICES ASSUME Init PROVE IInv
    OBVIOUS
<1>1. Typed
    BY DEF Init, Typed, Truths, Nothing
<1>2. QED BY <1>1 DEF Init, IInv, BaseGood, WorkGood, SavedGood, StoredGood

\* new_basic and new_contract: there was no account in any copy.
LEMMA CreateStep == IInv /\ Create => IInv'
<1> SUFFICES ASSUME IInv, Create PROVE IInv'
    OBVIOUS
<1>1. PICK size \in {Unknown, EmptyCode} : work' = New(size)
    BY DEF Create
<1>2. work' \in AccountState /\ Good(work', codeDb) /\ Holds(work', Contents(Nothing))
    BY <1>1, NewGood
<1>3. truth' \in [work : Truths, saved : Truths] /\ truth'.work = Contents(Nothing)
      /\ truth'.saved = truth.saved
    <2>1. Nothing \in Roots
        BY DEF Nothing, Roots
    <2>2. QED BY <2>1, ContentsTruths, TruthSteps DEF Create, IInv, Typed
<1>4. UNCHANGED <<base, saved, stored, codeDb>> /\ work = NoAccount /\ stored = NoAccount
    BY DEF Create
<1>5. Typed'
    BY <1>2, <1>3, <1>4 DEF IInv, Typed
<1>6. base = NoAccount /\ saved = NoAccount
    BY <1>4 DEF IInv, BaseGood, SavedGood
<1>7. QED BY <1>2, <1>3, <1>4, <1>5, <1>6 DEF IInv, BaseGood, WorkGood, SavedGood, StoredGood

\* from_rlp: no block is running on an account that is only on disk.
LEMMA LoadStep == IInv /\ Load => IInv'
<1> SUFFICES ASSUME IInv, Load PROVE IInv'
    OBVIOUS
<1>1. base = NoAccount /\ stored # NoAccount /\ base' = Decoded(stored)
      /\ UNCHANGED <<work, saved, stored, codeDb, truth>>
    BY DEF Load
<1>2. stored \in Encodings /\ stored.hash \in {EmptyCode} \union codeDb
    BY <1>1 DEF IInv, Typed, StoredGood
<1>3. base' \in AccountState /\ Good(base', codeDb) /\ Clean(base')
    BY <1>1, <1>2, DecodedGood
<1>4. Typed'
    BY <1>1, <1>3 DEF IInv, Typed
<1>5. work = NoAccount
    BY <1>1 DEF IInv, WorkGood
<1>6. QED BY <1>1, <1>3, <1>4, <1>5 DEF IInv, BaseGood, WorkGood, SavedGood, StoredGood

\* A clone of a clean account holds what its trie holds.
LEMMA BeginBlockStep == IInv /\ BeginBlock => IInv'
<1> SUFFICES ASSUME IInv, BeginBlock PROVE IInv'
    OBVIOUS
<1>1. work = NoAccount /\ base # NoAccount /\ UNCHANGED <<base, saved, stored, codeDb>>
      /\ work' \in {CloneBasic(base), CloneDirty(base), CloneAll(base)}
    BY DEF BeginBlock
<1>2. base \in AccountState /\ Good(base, codeDb) /\ base.changes = Nothing /\ stored # NoAccount
    <2>1. base \in AccountState /\ Good(base, codeDb) /\ Clean(base) /\ stored # NoAccount
        BY <1>1 DEF IInv, Typed, BaseGood
    <2>2. \A k \in Keys : base.changes[k] = Unset
        BY <2>1 DEF Clean, Dirty
    <2>3. QED BY <2>1, <2>2 DEF AccountState, Nothing
<1>3. work' \in AccountState /\ Good(work', codeDb) /\ work'.root = base.root
      /\ work'.changes = Nothing
    BY <1>1, <1>2, CloneGood
<1>4. truth' \in [work : Truths, saved : Truths] /\ truth'.work = Contents(base.root)
    <2>1. base.root \in Roots
        BY <1>2 DEF AccountState
    <2>2. QED BY <2>1, ContentsTruths, TruthSteps DEF BeginBlock, IInv, Typed
<1>5. Holds(work', truth'.work)
    BY <1>3, <1>4, CleanHolds
<1>6. Covers(work', base)
    BY <1>3 DEF Covers
<1>7. saved = NoAccount
    BY <1>1 DEF IInv, SavedGood
<1>8. Typed'
    BY <1>1, <1>3, <1>4 DEF IInv, Typed
<1>9. QED BY <1>1, <1>2, <1>3, <1>5, <1>6, <1>7, <1>8
          DEF IInv, BaseGood, WorkGood, SavedGood, StoredGood

\* set_storage: what was set last is among the changes.
LEMMA SetStorageStep ==
    ASSUME NEW k \in Keys, NEW v \in Values
    PROVE  IInv /\ SetStorage(k, v) => IInv'
<1> SUFFICES ASSUME IInv, SetStorage(k, v) PROVE IInv'
    OBVIOUS
<1>1. work # NoAccount /\ work' = Changed(work, k, v) /\ truth' = [truth EXCEPT !.work[k] = v]
      /\ UNCHANGED <<base, saved, stored, codeDb>>
    BY DEF SetStorage
<1>2. work \in AccountState /\ Good(work, codeDb) /\ Holds(work, truth.work)
    BY <1>1 DEF IInv, Typed, WorkGood
<1>3. /\ work' \in AccountState /\ work'.root = work.root /\ work'.cache = work.cache
      /\ work'.hash = work.hash /\ work'.code = work.code /\ work'.size = work.size
      /\ work'.dirty = work.dirty
      /\ work'.changes = [work.changes EXCEPT ![k] = v]
      /\ work.changes \in [Keys -> Values \union {Unset}]
    BY <1>1, <1>2 DEF Changed, AccountState
<1>4. /\ truth' \in [work : Truths, saved : Truths]
      /\ truth'.work = [truth.work EXCEPT ![k] = v] /\ truth'.saved = truth.saved
      /\ truth.work \in [Keys -> Values \union {Unset}]
    BY <1>1 DEF IInv, Typed, Truths
<1>5. Good(work', codeDb)
    BY <1>2, <1>3 DEF Good, Coherent, CodeSafe
<1>6. Holds(work', truth'.work)
    <2>1. SUFFICES ASSUME NEW q \in Keys
                   PROVE  Same(IF work'.changes[q] # Unset THEN work'.changes[q]
                               ELSE InTrie(work.root, q), truth'.work[q])
        BY <1>3 DEF Holds
    <2>2. CASE q = k
        BY <2>2, <1>3, <1>4, Markers, SameEquivalence
    <2>3. CASE q # k
        BY <2>3, <1>2, <1>3, <1>4 DEF Holds
    <2>4. QED BY <2>2, <2>3
<1>7. base # NoAccount /\ Covers(work, base) => Covers(work', base)
    BY <1>3 DEF Covers
<1>8. Typed'
    BY <1>1, <1>3, <1>4 DEF IInv, Typed
<1>9. work' # NoAccount
    BY <1>3, Markers
<1>10. QED BY <1>1, <1>3, <1>4, <1>5, <1>6, <1>7, <1>8, <1>9
           DEF IInv, BaseGood, WorkGood, SavedGood, StoredGood

\* A step on the copy of a block alone, or on the one kept between blocks.
LEMMA WorkStep ==
    ASSUME IInv, work # NoAccount, UNCHANGED <<base, saved, stored, codeDb, truth>>,
           work' \in AccountState, Good(work', codeDb),
           Holds(work, truth.work) => Holds(work', truth.work),
           \A b : Covers(work, b) => Covers(work', b),
           saved = NoAccount \/ work'.root = work.root
    PROVE  IInv'
<1>1. Typed'
    BY DEF IInv, Typed
<1>2. work' # NoAccount
    BY Markers
<1>3. Holds(work', truth.work) /\ (base # NoAccount => Covers(work', base))
    BY DEF IInv, WorkGood
<1>4. QED BY <1>1, <1>2, <1>3 DEF IInv, BaseGood, WorkGood, SavedGood, StoredGood

\* A step on the copy kept between blocks leaves its trie and its cleanness.
LEMMA BaseStep ==
    ASSUME IInv, base # NoAccount, UNCHANGED <<work, saved, stored, codeDb, truth>>,
           base' \in AccountState, Good(base', codeDb),
           base'.root = base.root, base'.changes = base.changes, base'.dirty = base.dirty
    PROVE  IInv'
<1>1. Typed'
    BY DEF IInv, Typed
<1>2. base' # NoAccount
    BY Markers
<1>3. Clean(base) => Clean(base')
    BY DEF Clean, Dirty
<1>4. Covers(work, base) => Covers(work, base')
    BY DEF Covers
<1>5. QED BY <1>1, <1>2, <1>3, <1>4 DEF IInv, BaseGood, WorkGood, SavedGood, StoredGood

\* storage_at fills the cache of either copy.
LEMMA StorageAtStep ==
    ASSUME NEW k \in Keys
    PROVE  IInv /\ StorageAt(k) => IInv'
<1> SUFFICES ASSUME IInv, StorageAt(k) PROVE IInv'
    OBVIOUS
<1>1. CASE work # NoAccount /\ work' = Read(work, k) /\ UNCHANGED base
    <2>1. work \in AccountState /\ Good(work, codeDb)
        BY <1>1 DEF IInv, Typed, WorkGood
    <2>2. /\ work' \in AccountState /\ Good(work', codeDb) /\ work'.root = work.root
          /\ work'.changes = work.changes
          /\ \A b : Covers(work, b) => Covers(work', b)
        BY <1>1, <2>1, ReadGood
    <2>3. Holds(work, truth.work) => Holds(work', truth.work)
        BY <2>2 DEF Holds
    <2>4. UNCHANGED <<base, saved, stored, codeDb, truth>>
        BY <1>1 DEF StorageAt
    <2>5. QED BY <1>1, <2>2, <2>3, <2>4, WorkStep
<1>2. CASE base # NoAccount /\ base' = Read(base, k) /\ UNCHANGED work
    <2>1. base \in AccountState /\ Good(base, codeDb)
        BY <1>2 DEF IInv, Typed, BaseGood
    <2>2. /\ base' \in AccountState /\ Good(base', codeDb) /\ base'.root = base.root
          /\ base'.changes = base.changes /\ base'.dirty = base.dirty
        BY <1>2, <2>1, ReadGood
    <2>3. UNCHANGED <<work, saved, stored, codeDb, truth>>
        BY <1>2 DEF StorageAt
    <2>4. QED BY <1>2, <2>2, <2>3, BaseStep
<1>3. QED BY <1>1, <1>2 DEF StorageAt

\* discard_storage_changes: what the trie has is what counts again.
LEMMA DiscardStep == IInv /\ DiscardStorageChanges => IInv'
<1> SUFFICES ASSUME IInv, DiscardStorageChanges PROVE IInv'
    OBVIOUS
<1>1. work # NoAccount /\ work' = [work EXCEPT !.changes = Nothing]
      /\ UNCHANGED <<base, saved, stored, codeDb>>
    BY DEF DiscardStorageChanges
<1>2. work \in AccountState /\ Good(work, codeDb)
    BY <1>1 DEF IInv, Typed, WorkGood
<1>3. /\ work' \in AccountState /\ work'.root = work.root /\ work'.cache = work.cache
      /\ work'.hash = work.hash /\ work'.code = work.code /\ work'.size = work.size
      /\ work'.dirty = work.dirty /\ work'.changes = Nothing
    <2>1. Nothing \in [Keys -> Values \union {Unset}]
        BY DEF Nothing
    <2>2. QED BY <1>1, <1>2, <2>1 DEF AccountState
<1>4. /\ truth' \in [work : Truths, saved : Truths]
      /\ truth'.work = Contents(work.root) /\ truth'.saved = truth.saved
    <2>1. work.root \in Roots
        BY <1>2 DEF AccountState
    <2>2. QED BY <2>1, ContentsTruths, TruthSteps DEF DiscardStorageChanges, IInv, Typed
<1>5. Good(work', codeDb)
    BY <1>2, <1>3 DEF Good, Coherent, CodeSafe
<1>6. Holds(work', truth'.work)
    BY <1>3, <1>4, CleanHolds
<1>7. Covers(work, base) => Covers(work', base)
    BY <1>3 DEF Covers
<1>8. Typed' /\ work' # NoAccount
    BY <1>1, <1>3, <1>4, Markers DEF IInv, Typed
<1>9. QED BY <1>1, <1>3, <1>4, <1>5, <1>6, <1>7, <1>8
          DEF IInv, BaseGood, WorkGood, SavedGood, StoredGood

\* init_code and reset_code touch no storage.
LEMMA InitCodeStep ==
    ASSUME NEW c \in Codes
    PROVE  IInv /\ InitCode(c) => IInv'
<1> SUFFICES ASSUME IInv, InitCode(c) PROVE IInv'
    OBVIOUS
<1>1. work # NoAccount /\ work' = WithCode(work, c)
      /\ UNCHANGED <<base, saved, stored, codeDb, truth>>
    BY DEF InitCode
<1>2. work \in AccountState /\ Good(work, codeDb)
    BY <1>1 DEF IInv, Typed, WorkGood
<1>3. work' \in AccountState /\ Good(work', codeDb) /\ SameStorage(work', work)
    BY <1>1, <1>2, WithCodeGood
<1>4. /\ Holds(work, truth.work) => Holds(work', truth.work)
      /\ \A b : Covers(work, b) => Covers(work', b)
      /\ work'.root = work.root
    BY <1>3, SameStorageGood DEF SameStorage
<1>5. QED BY <1>1, <1>3, <1>4, WorkStep

\* cache_code and cache_code_size touch no storage.
LEMMA CacheCodeStep == IInv /\ CacheCode => IInv'
<1> SUFFICES ASSUME IInv, CacheCode PROVE IInv'
    OBVIOUS
<1>1. CASE work # NoAccount /\ work' \in {CodeCached(work), SizeCached(work)} /\ UNCHANGED base
    <2>1. work \in AccountState /\ Good(work, codeDb)
        BY <1>1 DEF IInv, Typed, WorkGood
    <2>2. work' \in AccountState /\ Good(work', codeDb) /\ SameStorage(work', work)
        BY <1>1, <2>1, CodeCachedGood
    <2>3. /\ Holds(work, truth.work) => Holds(work', truth.work)
          /\ \A b : Covers(work, b) => Covers(work', b)
          /\ work'.root = work.root
        BY <2>2, SameStorageGood DEF SameStorage
    <2>4. UNCHANGED <<base, saved, stored, codeDb, truth>>
        BY <1>1 DEF CacheCode
    <2>5. QED BY <1>1, <2>2, <2>3, <2>4, WorkStep
<1>2. CASE base # NoAccount /\ base' \in {CodeCached(base), SizeCached(base)} /\ UNCHANGED work
    <2>1. base \in AccountState /\ Good(base, codeDb)
        BY <1>2 DEF IInv, Typed, BaseGood
    <2>2. base' \in AccountState /\ Good(base', codeDb) /\ SameStorage(base', base)
          /\ base'.dirty = base.dirty
        BY <1>2, <2>1, CodeCachedGood
    <2>3. UNCHANGED <<work, saved, stored, codeDb, truth>>
        BY <1>2 DEF CacheCode
    <2>4. QED BY <1>2, <2>2, <2>3, BaseStep DEF SameStorage
<1>3. QED BY <1>1, <1>2 DEF CacheCode

\* clone_dirty: the saved copy has the changes and the trie of the block.
LEMMA CheckpointStep == IInv /\ Checkpoint => IInv'
<1> SUFFICES ASSUME IInv, Checkpoint PROVE IInv'
    OBVIOUS
<1>1. work # NoAccount /\ saved = NoAccount /\ saved' = CloneDirty(work)
      /\ truth' = [truth EXCEPT !.saved = truth.work]
      /\ UNCHANGED <<base, work, stored, codeDb>>
    BY DEF Checkpoint
<1>2. work \in AccountState /\ Good(work, codeDb) /\ Holds(work, truth.work)
    BY <1>1 DEF IInv, Typed, WorkGood
<1>3. /\ saved' \in AccountState /\ Good(saved', codeDb)
      /\ saved'.root = work.root /\ saved'.changes = work.changes
    BY <1>1, <1>2, CloneGood
<1>4. /\ truth' \in [work : Truths, saved : Truths]
      /\ truth'.work = truth.work /\ truth'.saved = truth.work
    BY <1>1, TruthSteps DEF IInv, Typed
<1>5. Holds(saved', truth'.saved)
    BY <1>2, <1>3, <1>4 DEF Holds
<1>6. Typed'
    BY <1>1, <1>3, <1>4 DEF IInv, Typed
<1>7. QED BY <1>1, <1>3, <1>4, <1>5, <1>6 DEF IInv, BaseGood, WorkGood, SavedGood, StoredGood

\* overwrite_with a saved copy: both are on the same trie, so the entries of
\* the overwritten cache stay true.
LEMMA RevertStep == IInv /\ Revert => IInv'
<1> SUFFICES ASSUME IInv, Revert PROVE IInv'
    OBVIOUS
<1>1. saved # NoAccount /\ work' = Overwrite(work, saved) /\ saved' = NoAccount
      /\ truth' = [work |-> truth.saved, saved |-> Nothing]
      /\ UNCHANGED <<base, stored, codeDb>>
    BY DEF Revert
<1>2. /\ work # NoAccount /\ saved.root = work.root
      /\ work \in AccountState /\ Good(work, codeDb)
      /\ saved \in AccountState /\ Good(saved, codeDb) /\ Holds(saved, truth.saved)
    BY <1>1 DEF IInv, Typed, WorkGood, SavedGood
<1>3. Covers(saved, work)
    BY <1>2 DEF Covers
<1>4. /\ work' \in AccountState /\ Good(work', codeDb)
      /\ work'.root = saved.root /\ work'.changes = saved.changes
      /\ \A b : Covers(work, b) => Covers(work', b)
    BY <1>1, <1>2, <1>3, OverwriteGood DEF Good
<1>5. truth' \in [work : Truths, saved : Truths] /\ truth'.work = truth.saved
    BY <1>1 DEF IInv, Typed, Truths, Nothing
<1>6. Holds(work', truth'.work)
    BY <1>2, <1>4, <1>5 DEF Holds
<1>7. Typed'
    BY <1>1, <1>4, <1>5 DEF IInv, Typed
<1>8. QED BY <1>1, <1>2, <1>4, <1>6, <1>7 DEF IInv, BaseGood, WorkGood, SavedGood, StoredGood

\* A checkpoint that is dropped takes nothing along.
LEMMA DropCheckpointStep == IInv /\ DropCheckpoint => IInv'
<1> SUFFICES ASSUME IInv, DropCheckpoint PROVE IInv'
    OBVIOUS
<1>1. saved' = NoAccount /\ truth' = [truth EXCEPT !.saved = Nothing]
      /\ UNCHANGED <<base, work, stored, codeDb>>
    BY DEF DropCheckpoint
<1>2. truth' \in [work : Truths, saved : Truths] /\ truth'.work = truth.work
    BY <1>1 DEF IInv, Typed, Truths, Nothing
<1>3. Typed'
    BY <1>1, <1>2 DEF IInv, Typed
<1>4. QED BY <1>1, <1>2, <1>3 DEF IInv, BaseGood, WorkGood, SavedGood, StoredGood

\* commit_storage: no saved copy is left behind on the old trie.
LEMMA CommitStorageStep == IInv /\ CommitStorage => IInv'
<1> SUFFICES ASSUME IInv, CommitStorage PROVE IInv'
    OBVIOUS
<1>1. /\ work # NoAccount /\ saved = NoAccount
      /\ UNCHANGED <<base, saved, stored, codeDb, truth>>
      /\ \E order \in SetToSeqs(Dirty(work)) : work' = Committed(work, order)
    BY DEF CommitStorage
<1>2. PICK order \in SetToSeqs(Dirty(work)) : work' = Committed(work, order)
    BY <1>1
<1>3. work \in AccountState /\ Good(work, codeDb)
    BY <1>1 DEF IInv, Typed, WorkGood
<1>4. /\ work' \in AccountState /\ Good(work', codeDb)
      /\ Holds(work, truth.work) => Holds(work', truth.work)
      /\ \A b : Covers(work, b) => Covers(work', b)
    BY <1>2, <1>3, CommittedGood
<1>5. QED BY <1>1, <1>4, WorkStep

\* commit_code: no other copy loses its code by it.
LEMMA CommitCodeStep == IInv /\ CommitCode => IInv'
<1> SUFFICES ASSUME IInv, CommitCode PROVE IInv'
    OBVIOUS
<1>1. /\ work # NoAccount /\ saved = NoAccount /\ work.dirty
      /\ codeDb' = codeDb \union ({work.hash} \ {EmptyCode})
      /\ work' = CodeCommitted(work) /\ UNCHANGED <<base, saved, stored, truth>>
    BY DEF CommitCode
<1>2. work \in AccountState /\ Good(work, codeDb)
    BY <1>1 DEF IInv, Typed, WorkGood
<1>3. work' \in AccountState /\ Good(work', codeDb') /\ SameStorage(work', work)
    BY <1>1, <1>2, CodeCommittedGood
<1>4. codeDb \subseteq codeDb' /\ codeDb' \subseteq Codes \ {EmptyCode}
    BY <1>1, <1>2 DEF IInv, Typed, AccountState
<1>5. base # NoAccount => Good(base, codeDb')
    BY <1>4, MoreCode DEF IInv, BaseGood
<1>6. /\ Holds(work, truth.work) => Holds(work', truth.work)
      /\ Covers(work, base) => Covers(work', base)
    BY <1>3, SameStorageGood
<1>7. Typed' /\ work' # NoAccount
    BY <1>1, <1>3, <1>4, Markers DEF IInv, Typed
<1>8. QED BY <1>1, <1>3, <1>4, <1>5, <1>6, <1>7
          DEF IInv, BaseGood, WorkGood, SavedGood, StoredGood

\* overwrite_with the copy of the block: what it changed is in its cache, or
\* nothing of the older cache survives.
LEMMA EndBlockStep == IInv /\ EndBlock => IInv'
<1> SUFFICES ASSUME IInv, EndBlock PROVE IInv'
    OBVIOUS
<1>1. /\ work # NoAccount /\ saved = NoAccount /\ Clean(work)
      /\ stored' = Encoded(work) /\ work' = NoAccount
      /\ base' = IF base = NoAccount THEN work ELSE Overwrite(base, work)
      /\ truth' = [truth EXCEPT !.work = Nothing]
      /\ UNCHANGED <<saved, codeDb>>
    BY DEF EndBlock
<1>2. work \in AccountState /\ Good(work, codeDb)
    BY <1>1 DEF IInv, Typed, WorkGood
<1>3. base' \in AccountState /\ Good(base', codeDb) /\ Clean(base')
    <2>1. CASE base = NoAccount
        BY <2>1, <1>1, <1>2
    <2>2. CASE base # NoAccount
        <3>1. base \in AccountState /\ Coherent(base) /\ Covers(work, base)
            BY <2>2, <1>1 DEF IInv, Typed, BaseGood, WorkGood, Good
        <3>2. /\ base' \in AccountState /\ Good(base', codeDb)
              /\ base'.changes = work.changes /\ base'.dirty = work.dirty
            BY <2>2, <3>1, <1>1, <1>2, OverwriteGood
        <3>3. Clean(base')
            BY <3>2, <1>1 DEF Clean, Dirty
        <3>4. QED BY <3>2, <3>3
    <2>3. QED BY <2>1, <2>2
<1>4. stored' \in Encodings /\ stored'.hash = work.hash
    BY <1>1, <1>2 DEF Encoded, Encodings, AccountState
<1>5. stored'.hash \in {EmptyCode} \union codeDb
    BY <1>1, <1>2, <1>4 DEF Good, CodeSafe, Clean
<1>6. truth' \in [work : Truths, saved : Truths]
    BY <1>1 DEF IInv, Typed, Truths, Nothing
<1>7. Typed' /\ stored' # NoAccount
    BY <1>1, <1>3, <1>4, <1>6, Markers DEF IInv, Typed
<1>8. QED BY <1>1, <1>3, <1>5, <1>7 DEF IInv, BaseGood, WorkGood, SavedGood, StoredGood

\* What is lost with the copies is not relied on.
LEMMA RestartStep == IInv /\ Restart => IInv'
<1> SUFFICES ASSUME IInv, Restart PROVE IInv'
    OBVIOUS
<1>1. base' \in {base, NoAccount} /\ work' = NoAccount /\ saved' = NoAccount
      /\ truth' = [work |-> Nothing, saved |-> Nothing] /\ UNCHANGED <<stored, codeDb>>
    BY DEF Restart
<1>2. Typed'
    BY <1>1 DEF IInv, Typed, Truths, Nothing
<1>3. QED BY <1>1, <1>2 DEF IInv, BaseGood, WorkGood, SavedGood, StoredGood

\* Every step keeps the invariant.
LEMMA NextIInv == IInv /\ [Next]_vars => IInv'
<1> SUFFICES ASSUME IInv, [Next]_vars PROVE IInv'
    OBVIOUS
<1>1. CASE \E k \in Keys : StorageAt(k) \/ \E v \in Settable[k] : SetStorage(k, v)
    BY <1>1, StorageAtStep, SetStorageStep, ValueAssumption
<1>2. CASE \E c \in Codes : InitCode(c)
    BY <1>2, InitCodeStep
<1>3. CASE Create
    BY <1>3, CreateStep
<1>4. CASE Load
    BY <1>4, LoadStep
<1>5. CASE BeginBlock
    BY <1>5, BeginBlockStep
<1>6. CASE DiscardStorageChanges
    BY <1>6, DiscardStep
<1>7. CASE CacheCode
    BY <1>7, CacheCodeStep
<1>8. CASE Checkpoint
    BY <1>8, CheckpointStep
<1>9. CASE Revert
    BY <1>9, RevertStep
<1>10. CASE DropCheckpoint
    BY <1>10, DropCheckpointStep
<1>11. CASE CommitStorage
    BY <1>11, CommitStorageStep
<1>12. CASE CommitCode
    BY <1>12, CommitCodeStep
<1>13. CASE EndBlock
    BY <1>13, EndBlockStep
<1>14. CASE Restart
    BY <1>14, RestartStep
<1>15. CASE UNCHANGED vars
    BY <1>15 DEF vars, IInv, Typed, BaseGood, WorkGood, SavedGood, StoredGood
<1>16. QED BY <1>1, <1>2, <1>3, <1>4, <1>5, <1>6, <1>7, <1>8, <1>9, <1>10, <1>11, <1>12,
              <1>13, <1>14, <1>15 DEF Next

-------------------------------------------------------------------------------
(* The theorems.                                                           *)

\* The inductive invariant holds in every state of every behaviour.
THEOREM Invariance == Spec => []IInv
BY InitIInv, NextIInv, PTL DEF Spec

\* Every copy is an account, its cache within its capacity and with one entry
\* for a key, and the database has no entry for the empty code.
THEOREM TypeCorrect == Spec => []TypeOK
<1>1. IInv => TypeOK
    <2> SUFFICES ASSUME IInv PROVE TypeOK
        OBVIOUS
    <2>1. Copies \subseteq AccountState
        BY DEF IInv, Typed, Copies
    <2>2. ASSUME NEW a \in Copies, NEW k \in Keys
          PROVE  Cardinality(Cached(a.cache, k)) <= 1
        <3>1. Distinct(a.cache)
            BY <2>1, <2>2 DEF AccountState, Caches
        <3>2. CASE Cached(a.cache, k) = {}
            BY <3>2, FS_EmptySet
        <3>3. CASE Cached(a.cache, k) # {}
            <4>1. PICK i : i \in Cached(a.cache, k)
                BY <3>3
            <4>2. Cached(a.cache, k) = {i}
                BY <3>1, <4>1 DEF Cached, Distinct
            <4>3. QED BY <4>2, FS_Singleton
        <3>4. QED BY <3>2, <3>3
    <2>3. codeDb \subseteq Codes \ {EmptyCode}
        BY DEF IInv, Typed
    <2>4. QED BY <2>1, <2>2, <2>3, Markers DEF TypeOK
<1>2. QED BY <1>1, Invariance, PTL

\* A cached value is what the storage trie has, in every copy and for every
\* capacity of the cache: through commits, evictions, clones, reverts, and
\* overwrite_with on a base whose cache is older than the block.
THEOREM CachesCoherent == Spec => []CacheCoherent
<1>1. IInv => CacheCoherent
    BY DEF IInv, BaseGood, WorkGood, SavedGood, CacheCoherent, Copies, Good, Coherent
<1>2. QED BY <1>1, Invariance, PTL

\* storage_at answers with what was last set, or was set when the copy was
\* saved that a revert went back to; it panics only where that is a Wide value
\* with a leading zero byte, and never answers with another value.
THEOREM ReadsLast == Spec => []ReadsLastWrite
<1>1. ASSUME NEW a \in AccountState, NEW t, Coherent(a), Holds(a, t)
      PROVE  Tells(a, t)
    <2>1. SUFFICES ASSUME NEW k \in Keys
                   PROVE  IF Answer(a, k) = Panic THEN t[k] \in Padded
                          ELSE Same(Answer(a, k), t[k])
        BY DEF Tells
    <2>2. CASE a.changes[k] # Unset
        BY <2>2, <1>1, AnswerGood DEF Holds
    <2>3. CASE a.changes[k] = Unset
        <3>1. Same(InTrie(a.root, k), t[k])
            BY <2>3, <1>1 DEF Holds
        <3>2. CASE Answer(a, k) = Panic
            <4>1. InTrie(a.root, k) \in Padded
                BY <2>3, <3>2, <1>1, AnswerGood
            <4>2. InTrie(a.root, k) \notin Zeros
                BY <4>1, ValueAssumption
            <4>3. QED BY <3>1, <3>2, <4>1, <4>2 DEF Same
        <3>3. CASE Answer(a, k) # Panic
            BY <2>3, <3>1, <3>3, <1>1, AnswerGood, SameEquivalence
        <3>4. QED BY <3>2, <3>3
    <2>4. QED BY <2>2, <2>3
<1>2. IInv => ReadsLastWrite
    BY <1>1, Markers DEF IInv, Typed, WorkGood, SavedGood, ReadsLastWrite, Good
<1>3. QED BY <1>2, Invariance, PTL

\* Whenever there is a storage root to ask for, its trie has all that was set.
THEOREM RootsTellAll == Spec => []RootTellsAll
<1>1. ASSUME NEW a, NEW t, Holds(a, t), storage_root(a) # Unset, NEW k \in Keys
      PROVE  Same(InTrie(storage_root(a), k), t[k])
    <2>1. Dirty(a) = {} /\ storage_root(a) = a.root
        BY <1>1 DEF storage_root
    <2>2. a.changes[k] = Unset
        BY <2>1 DEF Dirty
    <2>3. QED BY <1>1, <2>1, <2>2 DEF Holds
<1>2. IInv => RootTellsAll
    <2> SUFFICES ASSUME IInv PROVE RootTellsAll
        OBVIOUS
    <2>1. ASSUME work # NoAccount, storage_root(work) # Unset, NEW k \in Keys
          PROVE  Same(InTrie(storage_root(work), k), truth.work[k])
        BY <1>1, <2>1 DEF IInv, WorkGood
    <2>2. ASSUME saved # NoAccount, storage_root(saved) # Unset, NEW k \in Keys
          PROVE  Same(InTrie(storage_root(saved), k), truth.saved[k])
        BY <1>1, <2>2 DEF IInv, SavedGood
    <2>3. QED BY <2>1, <2>2 DEF RootTellsAll
<1>3. QED BY <1>2, Invariance, PTL

\* The code behind the hash of an account is in the copy or in the database,
\* and code_size is its size.
THEOREM CodesKept == Spec => []CodeKept
<1>1. ASSUME NEW a, CodeSafe(a, codeDb)
      PROVE  a.hash \in {EmptyCode, code(a)} \union codeDb /\ a.size \in {Unknown, a.hash}
    BY <1>1 DEF CodeSafe, code
<1>2. IInv => CodeKept
    BY <1>1 DEF IInv, BaseGood, WorkGood, SavedGood, StoredGood, CodeKept, Copies, Good
<1>3. QED BY <1>2, Invariance, PTL
================================================================================
