------------------------- MODULE OverlayRecentDBProofs -------------------------
(***************************************************************************)
(* Proofs about OverlayRecentDB, for any nodes, prefixes, histories, forks *)
(* and crashes, as long as no batch outgrows the overlay of the            *)
(* Rockskvdb: then a batch is written whole.                               *)
(***************************************************************************)
EXTENDS OverlayRecentDB, StoreLemmas

-------------------------------------------------------------------------------
(* Sums over sets of short keys.                                           *)

Chosen(T) == CHOOSE x \in T : TRUE

\* f adds up the sizes of the subsets of S that have no more than n members.
SumsUp(f, S, n) ==
    \A T \in SUBSET S : Cardinality(T) <= n =>
        f[T] = IF T = {} THEN 0 ELSE f[T \ {Chosen(T)}] + Size[Chosen(T)]

\* The subsets of a finite set, and what is left of one without a member.
LEMMA Smaller ==
    ASSUME NEW S, IsFiniteSet(S), NEW T \in SUBSET S
    PROVE  /\ IsFiniteSet(T) /\ Cardinality(T) \in Nat
           /\ T # {} => Chosen(T) \in T
           /\ \A x \in T : Cardinality(T \ {x}) = Cardinality(T) - 1 /\ Cardinality(T) > 0
           /\ Cardinality(T) = 0 => T = {}
<1>1. IsFiniteSet(T) /\ Cardinality(T) \in Nat
    BY FS_Subset, FS_CardinalityType
<1>2. T # {} => Chosen(T) \in T
    BY DEF Chosen
<1>3. Cardinality(T) = 0 <=> T = {}
    BY <1>1, FS_EmptySet
<1>4. \A x \in T : Cardinality(T \ {x}) = Cardinality(T) - 1
    BY <1>1, FS_RemoveElement
<1>5. QED BY <1>1, <1>2, <1>3, <1>4

\* There are such functions, however many members are looked at.
LEMMA SumsExist ==
    ASSUME NEW S \in SUBSET ShortKeys
    PROVE  \A n \in Nat : \E f \in [SUBSET S -> Nat] : SumsUp(f, S, n)
<1> DEFINE Fails == {n \in Nat : ~ \E f \in [SUBSET S -> Nat] : SumsUp(f, S, n)}
<1>0. IsFiniteSet(S)
    BY KeyAssumption, FS_Subset
<1>1. SUFFICES Fails = {}
    OBVIOUS
<1>2. SUFFICES ASSUME Fails # {} PROVE FALSE
    OBVIOUS
<1>3. PICK n \in Fails : \A m \in Fails : n <= m
    <2>1. Fails \subseteq Nat OBVIOUS
    <2>2. QED BY <1>2, <2>1, LeastNatural
<1>4. CASE n = 0
    <2> DEFINE f == [T \in SUBSET S |-> 0]
    <2>1. f \in [SUBSET S -> Nat]
        OBVIOUS
    <2>2. SumsUp(f, S, 0)
        <3>1. ASSUME NEW T \in SUBSET S, Cardinality(T) <= 0
              PROVE  T = {}
            BY <1>0, <3>1, Smaller
        <3>2. QED BY <3>1 DEF SumsUp
    <2>3. QED BY <1>4, <2>1, <2>2
<1>5. CASE n # 0
    <2>0. n \in Nat /\ n - 1 \in Nat
        BY <1>5
    <2>1. n - 1 \in Nat /\ n \in Nat /\ n - 1 \notin Fails
        <3>1. ~ (n <= n - 1)
            BY <2>0
        <3>2. n - 1 \notin Fails
            BY <1>3, <3>1
        <3> HIDE DEF Fails
        <3>3. QED BY <2>0, <3>2
    <2>2. PICK f \in [SUBSET S -> Nat] : SumsUp(f, S, n - 1)
        BY <2>1
    <2> DEFINE g == [T \in SUBSET S |->
                        IF Cardinality(T) = n THEN f[T \ {Chosen(T)}] + Size[Chosen(T)]
                        ELSE f[T]]
    <2>3. ASSUME NEW T \in SUBSET S, Cardinality(T) = n
          PROVE  /\ Chosen(T) \in ShortKeys /\ T \ {Chosen(T)} \in SUBSET S /\ T # {}
                 /\ Cardinality(T \ {Chosen(T)}) = n - 1
        <3>1. T # {} BY <1>0, <1>5, <2>3, FS_EmptySet
        <3>2. QED BY <1>0, <2>3, <3>1, Smaller
    <2>4. g \in [SUBSET S -> Nat]
        BY <2>3, KeyAssumption
    <2>5. SumsUp(g, S, n)
        <3>1. SUFFICES ASSUME NEW T \in SUBSET S, Cardinality(T) <= n
                       PROVE  g[T] = IF T = {} THEN 0
                                     ELSE g[T \ {Chosen(T)}] + Size[Chosen(T)]
            BY DEF SumsUp
        <3>2. Cardinality(T) \in Nat
            BY <1>0, Smaller
        <3>3. CASE Cardinality(T) = n
            <4>1. g[T] = f[T \ {Chosen(T)}] + Size[Chosen(T)]
                BY <3>3
            <4>2. g[T \ {Chosen(T)}] = f[T \ {Chosen(T)}]
                BY <2>1, <2>3, <3>3
            <4>3. QED BY <2>3, <3>3, <4>1, <4>2
        <3>4. CASE Cardinality(T) # n
            <4>1. g[T] = f[T] /\ Cardinality(T) <= n - 1
                BY <2>1, <3>1, <3>2, <3>4
            <4>2. f[T] = IF T = {} THEN 0 ELSE f[T \ {Chosen(T)}] + Size[Chosen(T)]
                BY <2>2, <4>1 DEF SumsUp
            <4>3. T # {} => g[T \ {Chosen(T)}] = f[T \ {Chosen(T)}]
                <5>1. T # {} => Cardinality(T \ {Chosen(T)}) = Cardinality(T) - 1
                                /\ T \ {Chosen(T)} \in SUBSET S
                    BY <1>0, Smaller
                <5>2. T # {} => Cardinality(T \ {Chosen(T)}) # n
                    BY <2>1, <3>2, <4>1, <5>1
                <5>3. QED BY <5>1, <5>2
            <4>4. QED BY <4>1, <4>2, <4>3
        <3>5. QED BY <3>3, <3>4
    <2> HIDE DEF g
    <2>6. QED BY <1>3, <2>4, <2>5
<1>6. QED BY <1>4, <1>5

\* SumOf is such a function, on all sets of short keys at a time.
LEMMA SumOfIs ==
    \E f \in [SUBSET ShortKeys -> Nat] :
        /\ SumsUp(f, ShortKeys, Cardinality(ShortKeys))
        /\ \A S \in SUBSET ShortKeys : SumOf(S) = f[S]
<1>0. IsFiniteSet(ShortKeys) /\ Cardinality(ShortKeys) \in Nat
    BY KeyAssumption, FS_CardinalityType
<1>1. PICK f \in [SUBSET ShortKeys -> Nat] : SumsUp(f, ShortKeys, Cardinality(ShortKeys))
    BY <1>0, SumsExist
<1>2. \A T \in SUBSET ShortKeys :
          f[T] = IF T = {} THEN 0 ELSE f[T \ {Chosen(T)}] + Size[Chosen(T)]
    <2>1. \A T \in SUBSET ShortKeys : Cardinality(T) <= Cardinality(ShortKeys)
        BY <1>0, FS_Subset
    <2>2. QED BY <1>1, <2>1 DEF SumsUp
<1>3. ASSUME NEW S \in SUBSET ShortKeys
      PROVE  SumOf(S) = f[S]
    <2> DEFINE Rec(r) == r = [T \in SUBSET S |->
                                IF T = {} THEN 0 ELSE r[T \ {Chosen(T)}] + Size[Chosen(T)]]
               h == CHOOSE r : Rec(r)
               g == [T \in SUBSET S |-> f[T]]
    <2>1. SumOf(S) = h[S]
        BY DEF SumOf, FoldSet, MapThenFoldSet, Chosen
    <2>2. Rec(g)
        <3>1. \A T \in SUBSET S : g[T] = f[T] /\ T \in SUBSET ShortKeys
                                  /\ T \ {Chosen(T)} \in SUBSET S
            OBVIOUS
        <3>2. \A T \in SUBSET S : f[T] = IF T = {} THEN 0
                                         ELSE g[T \ {Chosen(T)}] + Size[Chosen(T)]
            BY <1>2, <3>1
        <3>3. QED BY <3>2
    <2>3. Rec(h)
        BY <2>2
    <2> HIDE DEF h
    <2>4. \A T \in SUBSET S :
              h[T] = IF T = {} THEN 0 ELSE h[T \ {Chosen(T)}] + Size[Chosen(T)]
        BY <2>3
    <2> DEFINE Wrong == {Cardinality(T) : T \in {U \in SUBSET S : h[U] # f[U]}}
    <2>5. \A T \in SUBSET S : T \in SUBSET ShortKeys /\ Cardinality(T) \in Nat
        BY <1>0, Smaller
    <2>6. Wrong \subseteq Nat
        BY <2>5
    <2>7. Wrong = {}
        <3>1. SUFFICES ASSUME Wrong # {} PROVE FALSE
            OBVIOUS
        <3>2. PICK n \in Wrong : \A m \in Wrong : n <= m
            BY <2>6, <3>1, LeastNatural
        <3>3. PICK T \in SUBSET S : h[T] # f[T] /\ n = Cardinality(T)
            BY <3>2
        <3>4. T # {} /\ h[T \ {Chosen(T)}] # f[T \ {Chosen(T)}]
            BY <1>2, <2>4, <3>3
        <3>5. Cardinality(T \ {Chosen(T)}) \in Wrong
            BY <3>4
        <3>6. Cardinality(T \ {Chosen(T)}) = n - 1 /\ n \in Nat
            BY <1>0, <2>5, <3>3, <3>4, Smaller
        <3>7. QED BY <3>2, <3>5, <3>6
    <2>8. QED BY <2>1, <2>7
<1>4. QED BY <1>1, <1>3

\* One more member adds its size, in whatever order they are added up.
LEMMA SumWith ==
    ASSUME NEW A \in SUBSET ShortKeys, NEW x \in ShortKeys \ A
    PROVE  SumOf(A \union {x}) = SumOf(A) + Size[x]
<1>0. IsFiniteSet(ShortKeys)
    BY KeyAssumption
<1>1. PICK f \in [SUBSET ShortKeys -> Nat] :
          /\ SumsUp(f, ShortKeys, Cardinality(ShortKeys))
          /\ \A S \in SUBSET ShortKeys : SumOf(S) = f[S]
    BY SumOfIs
<1>2. \A T \in SUBSET ShortKeys :
          f[T] = IF T = {} THEN 0 ELSE f[T \ {Chosen(T)}] + Size[Chosen(T)]
    <2>1. \A T \in SUBSET ShortKeys : Cardinality(T) <= Cardinality(ShortKeys)
        BY <1>0, FS_Subset
    <2>2. QED BY <1>1, <2>1 DEF SumsUp
<1>3. \A s \in ShortKeys : Size[s] \in Nat
    BY KeyAssumption
<1> DEFINE Pairs == {p \in (SUBSET ShortKeys) \X ShortKeys :
                        p[2] \notin p[1] /\ f[p[1] \union {p[2]}] # f[p[1]] + Size[p[2]]}
           Wrong == {Cardinality(p[1]) : p \in Pairs}
<1>4. Wrong \subseteq Nat
    <2>1. \A p \in Pairs : p[1] \in SUBSET ShortKeys
        OBVIOUS
    <2>2. \A p \in Pairs : Cardinality(p[1]) \in Nat
        BY <1>0, <2>1, Smaller
    <2>3. QED BY ZenonT(30), <2>2
<1>5. Wrong = {}
    <2>1. SUFFICES ASSUME Wrong # {} PROVE FALSE
        OBVIOUS
    <2>2. PICK n \in Wrong : \A m \in Wrong : n <= m
        BY <1>4, <2>1, LeastNatural
    <2>3. PICK p \in Pairs : n = Cardinality(p[1])
        BY <2>2
    <2> DEFINE B == p[1]
               y == p[2]
               T == B \union {y}
               c == Chosen(T)
    <2>4. B \in SUBSET ShortKeys /\ y \in ShortKeys \ B /\ f[T] # f[B] + Size[y]
          /\ n = Cardinality(B)
        BY <2>3
    <2> HIDE DEF B, y
    <2>5. T \in SUBSET ShortKeys /\ T # {} /\ c \in T
        BY <2>4 DEF Chosen
    <2>6. f[T] = f[T \ {c}] + Size[c]
        BY <1>2, <2>5
    <2> HIDE DEF c
    <2>7. c # y
        <3>1. T \ {y} = B
            BY <2>4
        <3> HIDE DEF T
        <3>2. QED BY <2>4, <2>6, <3>1
    <2> DEFINE C == B \ {c}
    <2>8. /\ C \in SUBSET ShortKeys /\ y \in ShortKeys \ C /\ c \in ShortKeys \ C /\ c \in B
          /\ T \ {c} = C \union {y} /\ B = C \union {c}
        BY <2>4, <2>5, <2>7
    <2>9. Cardinality(C) = n - 1 /\ n \in Nat
        BY <1>0, <2>4, <2>8, Smaller
    <2> HIDE DEF C
    <2>10. \A z \in ShortKeys \ C : f[C \union {z}] = f[C] + Size[z]
        <3>1. SUFFICES ASSUME NEW z \in ShortKeys \ C, f[C \union {z}] # f[C] + Size[z]
                       PROVE  FALSE
            OBVIOUS
        <3>2. <<C, z>> \in Pairs
            BY <2>8, <3>1
        <3>3. Cardinality(<<C, z>>[1]) \in Wrong
            BY <3>2
        <3>4. Cardinality(C) \in Wrong
            BY <3>3
        <3>5. n <= n - 1
            BY <2>2, <2>9, <3>4
        <3>6. QED BY <2>9, <3>5
    <2>11. f[C \union {y}] = f[C] + Size[y] /\ f[C \union {c}] = f[C] + Size[c]
        BY <2>8, <2>10
    <2>12. f[T] = f[C] + Size[y] + Size[c] /\ f[B] = f[C] + Size[c]
        BY <2>6, <2>8, <2>11
    <2>13. f[C] \in Nat /\ Size[y] \in Nat /\ Size[c] \in Nat
        BY <1>3, <2>8
    <2>14. QED BY <2>4, <2>12, <2>13
<1>6. f[A \union {x}] = f[A] + Size[x]
    <2>1. <<A, x>> \in Pairs => Cardinality(<<A, x>>[1]) \in Wrong
        OBVIOUS
    <2>2. f[A \union {x}] # f[A] + Size[x] => <<A, x>> \in Pairs
        OBVIOUS
    <2> HIDE DEF Pairs, Wrong
    <2>3. QED BY <1>5, <2>1, <2>2
<1>7. QED BY <1>1, <1>6

\* Sums are natural, and that of two disjoint sets is the sum of theirs.
LEMMA SumOfUnion ==
    ASSUME NEW A \in SUBSET ShortKeys, NEW B \in SUBSET ShortKeys, A \intersect B = {}
    PROVE  /\ SumOf(A) \in Nat /\ SumOf(B) \in Nat
           /\ SumOf(A \union B) = SumOf(A) + SumOf(B)
           /\ SumOf({}) = 0
<1>0. IsFiniteSet(ShortKeys)
    BY KeyAssumption
<1>1. PICK f \in [SUBSET ShortKeys -> Nat] :
          /\ SumsUp(f, ShortKeys, Cardinality(ShortKeys))
          /\ \A S \in SUBSET ShortKeys : SumOf(S) = f[S]
    BY SumOfIs
<1>2. SumOf({}) = 0
    <2>1. Cardinality({}) <= Cardinality(ShortKeys)
        BY <1>0, FS_Subset, FS_EmptySet
    <2>2. QED BY <1>1, <2>1 DEF SumsUp
<1>3. \A S \in SUBSET ShortKeys : SumOf(S) \in Nat
    BY <1>1
<1> DEFINE Bad == {C \in SUBSET B : SumOf(A \union C) # SumOf(A) + SumOf(C)}
           Wrong == {Cardinality(C) : C \in Bad}
<1>4. Wrong \subseteq Nat
    BY ZenonT(30), <1>0, Smaller
<1>5. Wrong = {}
    <2>1. SUFFICES ASSUME Wrong # {} PROVE FALSE
        OBVIOUS
    <2>2. PICK n \in Wrong : \A m \in Wrong : n <= m
        BY <1>4, <2>1, LeastNatural
    <2>3. PICK C \in Bad : n = Cardinality(C)
        BY <2>2
    <2>4. C # {}
        <3>1. A \union {} = A /\ SumOf(A) + 0 = SumOf(A)
            BY <1>3
        <3>2. QED BY <1>2, <3>1
    <2>5. PICK x \in C : TRUE
        BY <2>4
    <2> DEFINE D == C \ {x}
    <2>6. /\ D \in SUBSET ShortKeys /\ x \in ShortKeys \ D /\ D \in SUBSET B /\ C = D \union {x}
          /\ A \union D \in SUBSET ShortKeys /\ x \in ShortKeys \ (A \union D)
          /\ A \union C = (A \union D) \union {x}
        BY <2>3, <2>5
    <2>7. Cardinality(D) = n - 1 /\ n \in Nat
        <3>1. C \in SUBSET ShortKeys
            BY <2>3
        <3>2. QED BY <1>0, <2>3, <2>5, <3>1, Smaller
    <2> HIDE DEF D
    <2>8. SumOf(A \union D) = SumOf(A) + SumOf(D)
        <3>1. ~ (n <= Cardinality(D))
            BY <2>7
        <3>2. SumOf(A \union D) # SumOf(A) + SumOf(D) => D \in Bad
            BY <2>6
        <3>3. D \in Bad => Cardinality(D) \in Wrong
            OBVIOUS
        <3> HIDE DEF Bad, Wrong
        <3>4. QED BY <2>2, <3>1, <3>2, <3>3
    <2>9. SumOf(C) = SumOf(D) + Size[x] /\ SumOf(A \union C) = SumOf(A \union D) + Size[x]
        BY <2>6, SumWith
    <2>10. SumOf(D) \in Nat /\ SumOf(A) \in Nat /\ Size[x] \in Nat
        BY <1>3, <2>6, KeyAssumption
    <2>11. SumOf(A \union C) = SumOf(A) + SumOf(C)
        BY <2>8, <2>9, <2>10
    <2>12. QED BY <2>3, <2>11
<1>6. SumOf(A \union B) = SumOf(A) + SumOf(B)
    <2>1. SumOf(A \union B) # SumOf(A) + SumOf(B) => B \in Bad
        OBVIOUS
    <2>2. B \in Bad => Cardinality(B) \in Wrong
        OBVIOUS
    <2> HIDE DEF Bad, Wrong
    <2>3. QED BY <1>5, <2>1, <2>2
<1>7. QED BY <1>2, <1>3, <1>6

-------------------------------------------------------------------------------
(* References.                                                             *)

Journals == [Eras -> Seq(StoredRecord)]

\* The overlay that has every node as often as a journal inserts it.
Overlay(j) == [s \in ShortKeys |-> EmplaceTimes(NoEntry, s, Cardinality(Refs(j, s)))]

Places == Eras \X (1 .. MaxBlocks) \X Keys

\* The journal has room for finitely many references,
LEMMA PlacesFinite == IsFiniteSet(Places)
<1> DEFINE P == (Eras \X (1 .. MaxBlocks)) \X Keys
           f == [p \in P |-> <<p[1][1], p[1][2], p[2]>>]
<1>1. MaxEra \in Nat /\ MaxBlocks \in Nat
    BY BoundAssumption
<1>2. IsFiniteSet(Eras) /\ IsFiniteSet(1 .. MaxBlocks)
    <2>1. 0 \in Int /\ 1 \in Int /\ MaxEra \in Int /\ MaxBlocks \in Int
        BY <1>1
    <2>2. QED BY <2>1, FS_Interval DEF Eras
<1>3. IsFiniteSet(P)
    <2>1. IsFiniteSet(Eras \X (1 .. MaxBlocks))
        BY <1>2, FS_Product
    <2>2. QED BY <2>1, KeyAssumption, FS_Product
<1>4. f \in Surjection(P, Places)
    <2>1. f \in [P -> Places]
        BY DEF Places
    <2>2. ASSUME NEW r \in Places PROVE \E p \in P : f[p] = r
        <3>1. PICK e \in Eras, i \in 1 .. MaxBlocks, k \in Keys : r = <<e, i, k>>
            BY DEF Places
        <3>2. <<<<e, i>>, k>> \in P /\ f[<<<<e, i>>, k>>] = <<e, i, k>>
            OBVIOUS
        <3>3. QED BY <3>1, <3>2
    <2>3. QED BY <2>1, <2>2 DEF Surjection
<1>5. QED BY <1>3, <1>4, FS_Surjection

\* so a node has a number of them.
LEMMA RefsFinite ==
    ASSUME NEW j, NEW s
    PROVE  /\ Refs(j, s) \subseteq Places
           /\ IsFiniteSet(Refs(j, s)) /\ Cardinality(Refs(j, s)) \in Nat
<1>1. Refs(j, s) \subseteq Places
    BY DEF Refs, Places
<1>2. QED BY <1>1, PlacesFinite, FS_Subset, FS_CardinalityType

\* The entry of a node in the overlay has the node, and a count above zero,
\* exactly if some record inserts a node with its short key.
LEMMA OverlayEntry ==
    ASSUME NEW j, NEW s \in ShortKeys
    PROVE  /\ Overlay(j)[s] = IF Refs(j, s) = {} THEN NoEntry
                              ELSE [val |-> s, rc |-> Cardinality(Refs(j, s))]
           /\ Overlay(j)[s] \in Slot(ShortKeys)
           /\ Count(Overlay(j)[s]) = Cardinality(Refs(j, s))
           /\ RawGet(Overlay(j)[s]) = IF Refs(j, s) = {} THEN NoEntry ELSE s
           /\ Contains(Overlay(j)[s]) <=> Refs(j, s) # {}
           /\ Overlay(j)[s] # NoEntry <=> Refs(j, s) # {}
<1> DEFINE n == Cardinality(Refs(j, s))
<1>1. n \in Nat /\ (n = 0 <=> Refs(j, s) = {})
    BY RefsFinite, FS_EmptySet
<1>2. Overlay(j)[s] = EmplaceTimes(NoEntry, s, n)
    BY DEF Overlay
<1> HIDE DEF n
<1>3. Overlay(j)[s] = IF Refs(j, s) = {} THEN NoEntry ELSE [val |-> s, rc |-> n]
    BY <1>1, <1>2 DEF EmplaceTimes, Count
<1>4. [val |-> s, rc |-> n] \in Entry(ShortKeys)
    BY <1>1 DEF Entry
<1>5. [val |-> s, rc |-> n] # NoEntry
    BY <1>4, MarkerAssumption
<1>6. CASE Refs(j, s) = {}
    BY <1>1, <1>3, <1>6 DEF Count, RawGet, Contains, Slot, n
<1>7. CASE Refs(j, s) # {}
    <2>1. n > 0
        BY <1>1, <1>7
    <2>2. QED BY <1>1, <1>3, <1>4, <1>5, <1>7, <2>1 DEF Count, RawGet, Contains, Slot, n
<1>8. QED BY <1>6, <1>7

\* A record at the end of an era adds one reference for each key it inserts.
LEMMA RefsAppended ==
    ASSUME NEW j \in Journals, NEW e \in Eras, NEW r \in StoredRecord,
           Len(j[e]) < MaxBlocks, NEW s
    PROVE  Cardinality(Refs([j EXCEPT ![e] = Append(@, r)], s)) =
               Cardinality(Refs(j, s)) + Cardinality({k \in r.ins : Short[k] = s})
<1> DEFINE J == [j EXCEPT ![e] = Append(@, r)]
           n == Len(j[e]) + 1
           K == {k \in r.ins : Short[k] = s}
           N == {<<e, n, k>> : k \in K}
<1>0. /\ MaxBlocks \in Nat /\ j[e] \in Seq(StoredRecord) /\ n \in 1 .. MaxBlocks
      /\ r.ins \subseteq Keys
    <2>1. MaxBlocks \in Nat BY BoundAssumption
    <2>2. j[e] \in Seq(StoredRecord) BY DEF Journals
    <2>3. Len(j[e]) \in Nat BY <2>2
    <2>4. r.ins \subseteq Keys BY DEF StoredRecord
    <2>5. QED BY <2>1, <2>2, <2>3, <2>4
<1>1. /\ Len(J[e]) = n /\ J[e][n] = r
      /\ \A i \in 1 .. Len(j[e]) : J[e][i] = j[e][i]
      /\ \A f \in Eras \ {e} : J[f] = j[f]
    <2>1. J[e] = Append(j[e], r) /\ \A f \in Eras \ {e} : J[f] = j[f]
        BY DEF Journals
    <2>2. QED BY <1>0, <2>1
<1> HIDE DEF J
<1>2. Refs(J, s) = Refs(j, s) \union N
    <2>1. ASSUME NEW p \in Refs(J, s) PROVE p \in Refs(j, s) \union N
        <3>1. PICK f \in Eras, i \in 1 .. MaxBlocks, k \in Keys :
                  p = <<f, i, k>> /\ i <= Len(J[f]) /\ k \in J[f][i].ins /\ Short[k] = s
            BY DEF Refs
        <3>2. CASE f = e /\ i = n
            BY <1>1, <3>1, <3>2
        <3>3. CASE f = e /\ i # n
            <4>1. i <= Len(j[e]) /\ i \in 1 .. Len(j[e])
                BY <1>0, <1>1, <3>1, <3>3
            <4>2. QED BY <1>1, <3>1, <3>3, <4>1 DEF Refs
        <3>4. CASE f # e
            BY <1>1, <3>1, <3>4 DEF Refs
        <3>5. QED BY <3>2, <3>3, <3>4
    <2>2. ASSUME NEW p \in Refs(j, s) PROVE p \in Refs(J, s)
        <3>1. PICK f \in Eras, i \in 1 .. MaxBlocks, k \in Keys :
                  p = <<f, i, k>> /\ i <= Len(j[f]) /\ k \in j[f][i].ins /\ Short[k] = s
            BY DEF Refs
        <3>2. CASE f = e
            <4>1. i <= Len(J[e]) /\ i \in 1 .. Len(j[e])
                BY <1>0, <1>1, <3>1, <3>2
            <4>2. QED BY <1>1, <3>1, <3>2, <4>1 DEF Refs
        <3>3. CASE f # e
            BY <1>1, <3>1, <3>3 DEF Refs
        <3>4. QED BY <3>2, <3>3
    <2>3. ASSUME NEW k \in K PROVE <<e, n, k>> \in Refs(J, s)
        <3>1. k \in Keys /\ k \in J[e][n].ins /\ Short[k] = s /\ n <= Len(J[e])
            BY <1>0, <1>1
        <3> HIDE DEF n
        <3>2. QED BY <1>0, <3>1 DEF Refs
    <2>4. QED BY <2>1, <2>2, <2>3
<1>3. Refs(j, s) \intersect N = {}
    <2>1. \A k \in Keys : <<e, n, k>> \notin Refs(j, s)
        <3>1. ~ (n <= Len(j[e]))
            BY <1>0
        <3>2. QED BY <3>1 DEF Refs
    <2>2. \A k \in K : k \in Keys
        BY <1>0
    <2>3. QED BY <2>1, <2>2
<1>4. IsFiniteSet(K) /\ IsFiniteSet(N) /\ Cardinality(N) = Cardinality(K)
    <2>1. IsFiniteSet(K)
        BY <1>0, KeyAssumption, FS_Subset
    <2> DEFINE g == [k \in K |-> <<e, n, k>>]
    <2>2. g \in Surjection(K, N) /\ g \in Injection(K, N)
        <3> HIDE DEF n, K
        <3>1. g \in [K -> N] /\ \A a, b \in K : g[a] = g[b] => a = b
            OBVIOUS
        <3>2. \A x \in N : \E k \in K : g[k] = x
            OBVIOUS
        <3>3. QED BY <3>1, <3>2 DEF Injection, Surjection, IsInjective
    <2> HIDE DEF g, K, N
    <2>3. QED BY <2>1, <2>2, FS_Surjection
<1>5. Cardinality(Refs(j, s) \union N) =
          Cardinality(Refs(j, s)) + Cardinality(N) - Cardinality(Refs(j, s) \intersect N)
    BY <1>4, RefsFinite, FS_Union
<1>6. Cardinality(Refs(j, s)) \in Nat /\ Cardinality(N) \in Nat
    BY <1>4, RefsFinite, FS_CardinalityType
<1>7. Cardinality(Refs(j, s) \intersect N) = 0
    BY <1>3, FS_EmptySet
<1> HIDE DEF K, N
<1>8. Cardinality(Refs(J, s)) = Cardinality(Refs(j, s)) + Cardinality(K)
    BY <1>2, <1>4, <1>5, <1>6, <1>7
<1>9. QED BY <1>8 DEF J, K

\* When an era leaves the journal, so do its references.
LEMMA RefsCleared ==
    ASSUME NEW j \in Journals, NEW e \in Eras, NEW s
    PROVE  LET gone == {r \in Refs(j, s) : r[1] = e}
               J    == [j EXCEPT ![e] = <<>>]
           IN  /\ Refs(J, s) = Refs(j, s) \ gone
               /\ Cardinality(gone) \in Nat
               /\ Cardinality(gone) <= Cardinality(Refs(j, s))
               /\ Cardinality(Refs(J, s)) = Cardinality(Refs(j, s)) - Cardinality(gone)
<1> DEFINE gone == {r \in Refs(j, s) : r[1] = e}
           J    == [j EXCEPT ![e] = <<>>]
<1>1. J[e] = <<>> /\ \A f \in Eras \ {e} : J[f] = j[f]
    BY DEF Journals
<1> HIDE DEF J
<1>2. Refs(J, s) = Refs(j, s) \ gone
    <2>1. ASSUME NEW f \in Eras, NEW i \in 1 .. MaxBlocks, NEW k \in Keys
          PROVE  <<f, i, k>> \in Refs(J, s) <=> <<f, i, k>> \in Refs(j, s) /\ f # e
        <3>1. CASE f = e
            <4>1. ~ (i <= Len(J[f]))
                BY <1>1, <3>1
            <4>2. QED BY <3>1, <4>1 DEF Refs
        <3>2. CASE f # e
            BY <1>1, <3>2 DEF Refs
        <3>3. QED BY <3>1, <3>2
    <2>2. Refs(J, s) \subseteq Places /\ Refs(j, s) \subseteq Places
        BY RefsFinite
    <2>3. \A r \in Places : r \in Refs(J, s) <=> r \in Refs(j, s) \ gone
        <3>1. SUFFICES ASSUME NEW f \in Eras, NEW i \in 1 .. MaxBlocks, NEW k \in Keys
                       PROVE  <<f, i, k>> \in Refs(J, s) <=> <<f, i, k>> \in Refs(j, s) \ gone
            BY DEF Places
        <3>2. <<f, i, k>>[1] = f
            OBVIOUS
        <3>3. QED BY <2>1, <3>2
    <2>4. QED BY <2>2, <2>3
<1>3. IsFiniteSet(Refs(j, s)) /\ gone \subseteq Refs(j, s)
    BY RefsFinite
<1>4. /\ Cardinality(gone) \in Nat /\ Cardinality(Refs(j, s)) \in Nat
      /\ Cardinality(gone) <= Cardinality(Refs(j, s))
    BY <1>3, FS_Subset, FS_CardinalityType
<1>5. Cardinality(Refs(j, s) \ gone) = Cardinality(Refs(j, s)) - Cardinality(gone)
    <2>1. Cardinality(Refs(j, s) \ gone) =
              Cardinality(Refs(j, s)) - Cardinality(Refs(j, s) \intersect gone)
        BY <1>3, FS_Difference
    <2>2. Refs(j, s) \intersect gone = gone
        OBVIOUS
    <2>3. QED BY <2>1, <2>2
<1>6. QED BY <1>2, <1>4, <1>5 DEF J

-------------------------------------------------------------------------------
(* What read_overlay finds.                                                *)

\* The journal j, with the latest era l, is in the database db.
Stored(j, l, db) ==
    /\ db[Latest] = IF l = NoEra THEN Absent ELSE l
    /\ \A e \in Eras, i \in 0 .. MaxBlocks :
          db[<<e, i>>] = IF i < Len(j[e]) THEN j[e][i + 1] ELSE Absent

\* A journal without gaps up to its latest era l.
Gapless(j, l, low) ==
    /\ low \in Int
    /\ \A e \in Eras : j[e] # <<>> <=> l # NoEra /\ low < e /\ e <= l
    /\ \A e \in Eras : Len(j[e]) <= MaxBlocks

\* The records of an era are read up to the first that is missing.
LEMMA RecordsRead ==
    ASSUME NEW j \in Journals, NEW l, NEW db, Stored(j, l, db),
           NEW e \in Eras, Len(j[e]) <= MaxBlocks
    PROVE  RecordsAt(db, e) = j[e]
<1> DEFINE m == Len(j[e])
           First(n) == /\ n = MaxBlocks + 1 \/ db[<<e, n>>] = Absent
                       /\ \A i \in 0 .. (n - 1) : db[<<e, i>>] # Absent
           c == CHOOSE n \in 0 .. (MaxBlocks + 1) : First(n)
<1>1. /\ j[e] \in Seq(StoredRecord) /\ m \in Nat /\ MaxBlocks \in Nat /\ m \in 0 .. MaxBlocks
      /\ \A i \in 1 .. m : j[e][i] \in StoredRecord
    <2>1. j[e] \in Seq(StoredRecord) /\ MaxBlocks \in Nat
        BY BoundAssumption DEF Journals
    <2>2. QED BY <2>1
<1>2. \A i \in 0 .. MaxBlocks : db[<<e, i>>] = IF i < m THEN j[e][i + 1] ELSE Absent
    BY DEF Stored
<1>3. Absent \notin StoredRecord
    BY MarkerAssumption
<1> HIDE DEF m
<1>4. \A i \in 0 .. MaxBlocks : db[<<e, i>>] # Absent <=> i < m
    <2> DEFINE N == MaxBlocks
    <2>1. m \in Nat /\ N \in Nat
        BY <1>1
    <2> HIDE DEF N
    <2>2. \A i \in 0 .. N : i < m => i + 1 \in 1 .. m
        BY <2>1
    <2>3. \A i \in 0 .. MaxBlocks : i < m => j[e][i + 1] \in StoredRecord
        BY <1>1, <2>2 DEF N
    <2>4. QED BY <1>2, <1>3, <2>3
<1>5. First(m)
    BY <1>1, <1>4
<1>6. \A n \in 0 .. (MaxBlocks + 1) : First(n) => n = m
    <2>1. SUFFICES ASSUME NEW n \in 0 .. (MaxBlocks + 1), First(n), n # m PROVE FALSE
        OBVIOUS
    <2>2. CASE n < m
        <3>1. n \in 0 .. MaxBlocks /\ n # MaxBlocks + 1
            BY <1>1, <2>2
        <3>2. QED BY <1>4, <2>1, <2>2, <3>1
    <2>3. CASE m < n
        <3>1. m \in 0 .. (n - 1)
            BY <1>1, <2>3
        <3>2. db[<<e, m>>] # Absent
            BY <2>1, <3>1
        <3>3. ~ (m < m) /\ m \in 0 .. MaxBlocks
            BY <1>1
        <3>4. QED BY <1>4, <3>2, <3>3
    <2>4. QED BY <1>1, <2>1, <2>2, <2>3
<1>7. c = m
    <2>1. m \in 0 .. (MaxBlocks + 1)
        BY <1>1
    <2> HIDE DEF First
    <2>2. QED BY <1>5, <1>6, <2>1
<1>8. RecordsAt(db, e) = [i \in 1 .. c |-> db[<<e, i - 1>>]]
    BY DEF RecordsAt
<1> HIDE DEF c
<1>9. \A i \in 1 .. m : db[<<e, i - 1>>] = j[e][i]
    <2>1. SUFFICES ASSUME NEW i \in 1 .. m PROVE db[<<e, i - 1>>] = j[e][i]
        OBVIOUS
    <2>2. i - 1 \in 0 .. MaxBlocks /\ i - 1 < m /\ (i - 1) + 1 = i
        BY <1>1
    <2>3. QED BY <1>2, <2>2
<1>10. j[e] = [i \in 1 .. m |-> j[e][i]]
    BY <1>1 DEF m
<1>11. QED BY <1>7, <1>8, <1>9, <1>10

\* read_overlay finds the journal that was written, and what depends on it.
LEMMA ReadBack ==
    ASSUME NEW j \in Journals, NEW l \in Eras \union {NoEra}, NEW low,
           NEW db, Stored(j, l, db), Gapless(j, l, low)
    PROVE  ReadOverlay(db) =
               [ovl      |-> Overlay(j),
                journal  |-> j,
                latest   |-> l,
                earliest |-> IF JournalledEras(j) = {} THEN NoEra ELSE Min(JournalledEras(j)),
                csize    |-> SumOf({s \in ShortKeys : Contains(Overlay(j)[s])})]
<1> DEFINE top == IF db[Latest] = Absent THEN NoEra ELSE db[Latest]
           read == [e \in Eras |->
                      IF top # NoEra /\ e <= top
                         /\ \A f \in e .. top : db[<<f, 0>>] # Absent
                      THEN RecordsAt(db, e) ELSE <<>>]
<1>1. top = l
    <2>1. Absent \notin Eras
        BY MarkerAssumption
    <2>2. QED BY <2>1 DEF Stored
<1>2. MaxBlocks \in Nat /\ MaxEra \in Nat
    BY BoundAssumption
<1>3. \A f \in Eras : db[<<f, 0>>] # Absent <=> j[f] # <<>>
    <2>1. SUFFICES ASSUME NEW f \in Eras PROVE db[<<f, 0>>] # Absent <=> j[f] # <<>>
        OBVIOUS
    <2>2. j[f] \in Seq(StoredRecord)
        BY DEF Journals
    <2>3. db[<<f, 0>>] = IF 0 < Len(j[f]) THEN j[f][1] ELSE Absent
        <3>1. 0 \in 0 .. MaxBlocks /\ 0 + 1 = 1
            BY <1>2
        <3>2. QED BY <3>1 DEF Stored
    <2>4. CASE j[f] = <<>>
        BY <2>3, <2>4
    <2>5. CASE j[f] # <<>>
        <3>1. 0 < Len(j[f]) /\ j[f][1] \in StoredRecord
            BY <2>2, <2>5
        <3>2. QED BY <2>3, <2>5, <3>1, MarkerAssumption
    <2>6. QED BY <2>4, <2>5
<1>4. \A e \in Eras : read[e] = j[e]
    <2>1. SUFFICES ASSUME NEW e \in Eras PROVE read[e] = j[e]
        OBVIOUS
    <2>2. RecordsAt(db, e) = j[e]
        BY RecordsRead DEF Gapless
    <2>3. CASE j[e] = <<>>
        BY <2>2, <2>3
    <2>4. CASE j[e] # <<>>
        <3>1. l # NoEra /\ low < e /\ e <= l /\ l \in Eras
            BY <2>4 DEF Gapless
        <3>2. ASSUME NEW f \in e .. l PROVE db[<<f, 0>>] # Absent
            <4>1. f \in Eras /\ low < f /\ f <= l
                BY <1>2, <3>1 DEF Gapless, Eras
            <4>2. QED BY <1>3, <3>1, <4>1 DEF Gapless
        <3> HIDE DEF top
        <3>3. QED BY <1>1, <2>2, <3>1, <3>2
    <2>5. QED BY <2>3, <2>4
<1> HIDE DEF top
<1>5. read = j
    <2>1. j = [e \in Eras |-> j[e]]
        BY DEF Journals
    <2>2. read = [e \in Eras |-> read[e]]
        OBVIOUS
    <2> HIDE DEF read
    <2>3. QED BY <1>4, <2>1, <2>2
<1> HIDE DEF read
<1>6. ReadOverlay(db) =
        [ovl |-> Overlay(read), journal |-> read, latest |-> top,
         earliest |-> IF JournalledEras(read) = {} THEN NoEra ELSE Min(JournalledEras(read)),
         csize |-> SumOf({s \in ShortKeys : Contains(Overlay(read)[s])})]
    BY DEF ReadOverlay, Overlay, read, top
<1>7. QED BY <1>1, <1>5, <1>6

-------------------------------------------------------------------------------
(* Batches.                                                                *)

\* What the operations b make of a store on which a was recorded: a key that
\* they do not mention stays, one that they all give the same value has it.
LEMMA RecordedJoin ==
    ASSUME NEW K, NEW V, NEW st \in Stores(K, V),
           NEW a \in Seq([key : K, val : V \ {Unbuffered}]),
           NEW b \in Seq([key : K, val : V \ {Unbuffered}]),
           NEW k \in K
    PROVE  /\ (\A i \in DOMAIN b : b[i].key # k) =>
                  View(Recorded(st, a \o b))[k] = View(Recorded(st, a))[k]
           /\ \A v : (\E i \in DOMAIN b : b[i].key = k)
                     /\ (\A i \in DOMAIN b : b[i].key = k => b[i].val = v) =>
                  View(Recorded(st, a \o b))[k] = Outcome(v)
<1> DEFINE S == [key : K, val : V \ {Unbuffered}]
           c == a \o b
           T == OnKey(c, k)
<1>0. /\ Len(a) \in Nat /\ DOMAIN a = 1 .. Len(a) /\ Len(b) \in Nat /\ DOMAIN b = 1 .. Len(b)
      /\ c \in Seq(S) /\ Len(c) = Len(a) + Len(b) /\ DOMAIN c = 1 .. Len(c)
    OBVIOUS
<1>1. /\ \A i \in DOMAIN a : i \in DOMAIN c /\ c[i] = a[i]
      /\ \A i \in DOMAIN b : Len(a) + i \in DOMAIN c /\ c[Len(a) + i] = b[i]
      /\ \A i \in DOMAIN c : \/ i \in DOMAIN a /\ c[i] = a[i]
                             \/ \E j \in DOMAIN b : i = Len(a) + j /\ c[i] = b[j]
    BY Joined
<1>2. IsBatch(a, V) /\ IsBatch(c, V)
    <2>1. \A s \in Seq(S) : Len(s) \in Nat /\ DOMAIN s = 1 .. Len(s)
                            /\ \A i \in DOMAIN s : s[i] \in S
        <3> HIDE DEF S
        <3>1. QED OBVIOUS
    <2> HIDE DEF c
    <2>2. \A s \in Seq(S) : IsBatch(s, V)
        BY <2>1 DEF IsBatch
    <2>3. QED BY <1>0, <2>2
<1> HIDE DEF c
<1>3. View(Recorded(st, c))[k] = IF T = {} THEN View(st)[k] ELSE Outcome(c[Max(T)].val)
    BY <1>2, RecordedView
<1>4. View(Recorded(st, a))[k] = IF OnKey(a, k) = {} THEN View(st)[k]
                                 ELSE Outcome(a[Max(OnKey(a, k))].val)
    BY <1>2, RecordedView
<1>5. ASSUME \A i \in DOMAIN b : b[i].key # k
      PROVE  View(Recorded(st, c))[k] = View(Recorded(st, a))[k]
    <2>1. T = OnKey(a, k)
        BY <1>1, <1>5 DEF OnKey
    <2>2. T # {} => Max(T) \in DOMAIN a
        BY <1>0, <2>1, LastOnKey
    <2>3. QED BY <1>1, <1>3, <1>4, <2>1, <2>2
<1>6. ASSUME NEW v, NEW i \in DOMAIN b, b[i].key = k,
             \A j \in DOMAIN b : b[j].key = k => b[j].val = v
      PROVE  View(Recorded(st, c))[k] = Outcome(v)
    <2>1. Len(a) + i \in T
        BY <1>1, <1>6 DEF OnKey
    <2>2. Max(T) \in DOMAIN c /\ c[Max(T)].key = k /\ Len(a) + i <= Max(T)
        <3>1. OnKey(c, k) # {} /\ Len(c) \in Nat /\ DOMAIN c = 1 .. Len(c)
            BY <1>0, <2>1
        <3>2. /\ Max(OnKey(c, k)) \in DOMAIN c /\ c[Max(OnKey(c, k))].key = k
              /\ \A m \in OnKey(c, k) : m <= Max(OnKey(c, k))
            BY <3>1, LastOnKey
        <3>3. QED BY <2>1, <3>2
    <2>3. Max(T) \notin DOMAIN a
        BY <1>0, <2>2
    <2>4. c[Max(T)].val = v
        BY <1>1, <1>6, <2>2, <2>3
    <2>5. QED BY <1>3, <2>1, <2>4
<1>7. QED BY <1>5, <1>6 DEF c

\* The overlay of the Rockskvdb does not reach its limit.
Roomy == Cardinality(DbKeys) <= MaxOverlay

\* The keys of the database are finitely many.
LEMMA DbKeysFinite == IsFiniteSet(DbKeys)
<1>1. MaxEra \in Nat /\ MaxBlocks \in Nat
    BY BoundAssumption
<1>2. IsFiniteSet(Eras) /\ IsFiniteSet(0 .. MaxBlocks)
    <2>1. 0 \in Int /\ MaxEra \in Int /\ MaxBlocks \in Int
        BY <1>1
    <2>2. QED BY <2>1, FS_Interval DEF Eras
<1>3. IsFiniteSet(RecordKeys)
    BY <1>2, FS_Product DEF RecordKeys
<1>4. IsFiniteSet({Latest})
    BY FS_Singleton
<1>5. IsFiniteSet(Keys \union {Latest})
    BY <1>4, KeyAssumption, FS_Union
<1>6. QED BY <1>3, <1>5, FS_Union DEF DbKeys

\* Then a batch is written whole, and nothing is flushed on the way.
LEMMA WrittenWhole ==
    ASSUME NEW V, NEW st \in Stores(DbKeys, V), NEW ops, NEW S, ops \in Seq(S),
           \A i \in DOMAIN ops : ops[i].val \in V, Roomy
    PROVE  Written(st, ops, MaxOverlay) = Recorded(st, ops) /\ Unwritten(st, ops, MaxOverlay) = <<>>
<1>1. Len(ops) \in Nat /\ DOMAIN ops = 1 .. Len(ops)
    OBVIOUS
<1>2. MaxOverlay \in Nat
    BY BoundAssumption
<1>3. \A x : x.disk = st.disk => ~ Overflows(x, MaxOverlay)
    <2>1. SUFFICES ASSUME NEW x, x.disk = st.disk PROVE ~ Overflows(x, MaxOverlay)
        OBVIOUS
    <2>2. Buffered(x) \subseteq DbKeys
        BY <2>1 DEF Buffered, Stores
    <2>3. Cardinality(Buffered(x)) \in Nat /\ Cardinality(DbKeys) \in Nat
          /\ Cardinality(Buffered(x)) <= Cardinality(DbKeys)
        BY <2>2, DbKeysFinite, FS_Subset, FS_CardinalityType
    <2>4. QED BY <1>2, <2>3 DEF Overflows, Roomy
<1>4. \A t : Recorded(st, t).disk = st.disk
    BY DEF Recorded, Stores
<1>5. Chunk(st, ops, MaxOverlay) = Len(ops)
    BY <1>3, <1>4 DEF Chunk
<1>6. SubSeq(ops, 1, Len(ops)) = ops /\ SubSeq(ops, Len(ops) + 1, Len(ops)) = <<>>
    <2>1. SubSeq(ops, 1, Len(ops)) = ops
        OBVIOUS
    <2>2. SubSeq(ops, Len(ops) + 1, Len(ops)) = <<>>
        BY <1>1
    <2>3. QED BY <2>1, <2>2
<1>7. QED BY <1>3, <1>4, <1>5, <1>6 DEF Written, Unwritten

\* The operations that put or delete each node of a set.
LEMMA NodeOps ==
    ASSUME NEW S \in SUBSET Keys, NEW V, Deleted \in V, ShortKeys \subseteq V
    PROVE  /\ Puts(S) \in Seq([key : DbKeys, val : V])
           /\ Deletes(S) \in Seq([key : DbKeys, val : V])
           /\ \A i \in DOMAIN Puts(S) : Puts(S)[i].key \in S
                                        /\ Puts(S)[i].val = Short[Puts(S)[i].key]
           /\ \A i \in DOMAIN Deletes(S) : Deletes(S)[i].key \in S
                                           /\ Deletes(S)[i].val = Deleted
           /\ \A k \in S : \E i \in DOMAIN Puts(S) : Puts(S)[i].key = k
           /\ \A k \in S : \E i \in DOMAIN Deletes(S) : Deletes(S)[i].key = k
<1> DEFINE P == {[key |-> k, val |-> Short[k]] : k \in S}
           D == {[key |-> k, val |-> Deleted] : k \in S}
           Opr == [key : DbKeys, val : V]
<1>0. /\ Puts(S) = Listing(P)
      /\ Deletes(S) = Listing(D)
    BY DEF Puts, Deletes, Seqs!SetToSeq, Seqs!IsInjective, IsInjective,
           Seqs!Cardinality, Cardinality, Listing
<1>1. IsFiniteSet(S)
    BY KeyAssumption, FS_Subset
<1>2. IsFiniteSet(P) /\ IsFiniteSet(D)
    <2>1. [k \in S |-> [key |-> k, val |-> Short[k]]] \in Surjection(S, P)
          /\ [k \in S |-> [key |-> k, val |-> Deleted]] \in Surjection(S, D)
        BY DEF Surjection
    <2>2. QED BY <1>1, <2>1, FS_Surjection
<1>3. /\ Puts(S) \in Seq(P) /\ \A x \in P : \E i \in DOMAIN Puts(S) : Puts(S)[i] = x
      /\ Deletes(S) \in Seq(D) /\ \A x \in D : \E i \in DOMAIN Deletes(S) : Deletes(S)[i] = x
    BY ZenonT(30), <1>0, <1>2, Listed
<1>4. P \subseteq Opr /\ D \subseteq Opr
    BY KeyAssumption DEF DbKeys
<1>5. \A A, B : A \subseteq B => Seq(A) \subseteq Seq(B)
    OBVIOUS
<1>6. /\ \A x \in P : x.key \in S /\ x.val = Short[x.key]
      /\ \A x \in D : x.key \in S /\ x.val = Deleted
      /\ \A k \in S : [key |-> k, val |-> Short[k]] \in P /\ [key |-> k, val |-> Short[k]].key = k
      /\ \A k \in S : [key |-> k, val |-> Deleted] \in D /\ [key |-> k, val |-> Deleted].key = k
    OBVIOUS
<1>7. \A A, q : q \in Seq(A) => \A i \in DOMAIN q : q[i] \in A
    OBVIOUS
<1> HIDE DEF P, D, Opr
<1>8. Puts(S) \in Seq(Opr) /\ Deletes(S) \in Seq(Opr)
    BY <1>3, <1>4, <1>5
<1>9. /\ \A i \in DOMAIN Puts(S) : Puts(S)[i] \in P
      /\ \A i \in DOMAIN Deletes(S) : Deletes(S)[i] \in D
    BY <1>3, <1>7
<1>10. /\ \A k \in S : \E i \in DOMAIN Puts(S) : Puts(S)[i].key = k
       /\ \A k \in S : \E i \in DOMAIN Deletes(S) : Deletes(S)[i].key = k
    <2>1. SUFFICES ASSUME NEW k \in S
                   PROVE  /\ \E i \in DOMAIN Puts(S) : Puts(S)[i].key = k
                          /\ \E i \in DOMAIN Deletes(S) : Deletes(S)[i].key = k
        OBVIOUS
    <2>2. PICK i \in DOMAIN Puts(S) : Puts(S)[i] = [key |-> k, val |-> Short[k]]
        BY <1>3, <1>6
    <2>3. PICK m \in DOMAIN Deletes(S) : Deletes(S)[m] = [key |-> k, val |-> Deleted]
        BY <1>3, <1>6
    <2>4. QED BY <1>6, <2>2, <2>3
<1>11. QED BY <1>6, <1>8, <1>9, <1>10 DEF Opr

-------------------------------------------------------------------------------
(* A history, its journal and its image in a database.                     *)

Block == [era : -1 .. MaxEra, anc : SUBSET Nat, state : SUBSET Keys]
Histories == [tip : Nat, blocks : Seq(Block)]

\* A block comes after its ancestors, whose ancestors are its own.
Ordered(h) ==
    \A b \in DOMAIN h.blocks :
        /\ b \in h.blocks[b].anc
        /\ \A a \in h.blocks[b].anc :
              /\ a \in DOMAIN h.blocks
              /\ a = b \/ h.blocks[a].era < h.blocks[b].era
              /\ h.blocks[a].anc \subseteq h.blocks[b].anc

Chronicle(nodes, h) ==
    /\ h \in Histories
    /\ Len(h.blocks) <= MaxBlocks + 1
    /\ h.tip \in DOMAIN h.blocks
    /\ \A b \in DOMAIN h.blocks : h.blocks[b].state \subseteq nodes
    /\ Ordered(h)

\* The journal has the eras behind the canonical one, up to the latest.
Spans(h, j, l) ==
    /\ IF l = NoEra THEN Len(h.blocks) = 1 /\ h.blocks[1].era = -1
       ELSE /\ l \in Eras
            /\ \A b \in DOMAIN h.blocks : h.blocks[b].era <= l
            /\ History > 0 => h.blocks[h.tip].era < l
    /\ \A e \in Eras : j[e] # <<>> <=> l # NoEra /\ h.blocks[h.tip].era < e /\ e <= l
    /\ \A e \in Eras : Len(j[e]) < Len(h.blocks)

\* A record is that of a block of its era: what it inserts is in the state of
\* the block, what it removes is not.
Records(h, j) ==
    \A e \in Eras : \A i \in DOMAIN j[e] :
        LET r == j[e][i]
        IN  /\ r.id \in DOMAIN h.blocks /\ h.blocks[r.id].era = e
            /\ r.ins \subseteq h.blocks[r.id].state
            /\ r.del \intersect h.blocks[r.id].state = {}

\* A record of b or an ancestor of b, above the block a.
Between(h, j, a, b, e, i) ==
    /\ e \in Eras /\ i \in DOMAIN j[e]
    /\ h.blocks[a].era < e /\ j[e][i].id \in h.blocks[b].anc

\* What a live block has and a live ancestor has not was inserted in between;
\* what the ancestor has and the block has not was removed.
Differences(h, j) ==
    \A b \in DOMAIN h.blocks : \A a \in h.blocks[b].anc :
        Live(h, b) /\ Live(h, a) =>
            /\ \A k \in h.blocks[b].state \ h.blocks[a].state :
                  \E e, i : Between(h, j, a, b, e, i) /\ k \in j[e][i].ins
            /\ \A k \in h.blocks[a].state \ h.blocks[b].state :
                  \E e, i : Between(h, j, a, b, e, i) /\ k \in j[e][i].del

\* The database has the records, and the nodes of the canonical state.
OnDisk(h, j, l, db) ==
    /\ Stored(j, l, db)
    /\ \A k \in h.blocks[h.tip].state : db[k] # Absent

\* Without forks it has no other nodes than those and what will be written
\* again.
Unforked(nodes, h) ==
    /\ \A k, l \in nodes : k # l => Short[k] # Short[l]
    /\ \A a, b \in DOMAIN h.blocks : a # b => h.blocks[a].era # h.blocks[b].era

Tidy(nodes, h, j, db) ==
    Unforked(nodes, h) => \A k \in Keys : db[k] # Absent =>
        k \in h.blocks[h.tip].state \/ \E e \in Eras : \E i \in DOMAIN j[e] : k \in j[e][i].ins

\* The history h of blocks over some nodes, with the journal j and its latest
\* era l, fits the database db.
Fits(nodes, h, j, l, db) ==
    /\ Chronicle(nodes, h)
    /\ Spans(h, j, l)
    /\ Records(h, j)
    /\ Differences(h, j)
    /\ OnDisk(h, j, l, db)
    /\ Tidy(nodes, h, j, db)

\* What read_overlay finds in db fits h.
Image(nodes, h, db) ==
    LET found == ReadOverlay(db)
    IN  /\ found.journal \in Journals /\ found.latest \in Eras \union {NoEra}
        /\ Fits(nodes, h, found.journal, found.latest, db)

-------------------------------------------------------------------------------
(* The inductive invariant.                                                *)

Cell == ShortKeys \union Eras \union StoredRecord \union {Absent, Deleted, Unbuffered}
Op == [key : DbKeys, val : ShortKeys \union Eras \union StoredRecord \union {Deleted}]

\* The histories as of the last write, the last flush and, with the disk, the
\* last memtable flush.
Snapshots == [written : Histories, durable : Histories,
              stable : [disk : [DbKeys -> Cell], hist : Histories]]

\* No batch is torn: nothing is in the middle of a write.
Typed ==
    /\ txo \in [Keys -> Slot(ShortKeys)]
    /\ pending \subseteq ShortKeys
    /\ journal \in Journals
    /\ latest \in Eras \union {NoEra}
    /\ earliest \in (0 .. (MaxEra + 1)) \union {NoEra}
    /\ batch \in Seq(Op)
    /\ store \in Stores(DbKeys, Cell)
    /\ pc \in {"idle", "exec", "journalled", "marked", "written"}
    /\ work \in [parent : DOMAIN blocks, state : SUBSET writer.keys]
    /\ snap \in Snapshots
    /\ reader \in [block : DOMAIN blocks, key : Keys] \union {NoRead}
    /\ writer \in Writers

\* The overlay has every node as often as the journal inserts it.
Counted ==
    /\ ovl = Overlay(journal)
    /\ csize = SumOf({s \in ShortKeys : Contains(ovl[s])})
    /\ latest = NoEra => /\ pending = {} /\ earliest = NoEra /\ pc # "journalled"
                         /\ Len(blocks) = 1 /\ blocks[1].era = -1
    /\ History > 0 /\ latest # NoEra => earliest = blocks[tip].era + 1

\* The transaction overlay has the difference to the parent's state.
Executing ==
    /\ pc # "exec" => txo = EmptyOver(Keys)
    /\ pc = "exec" =>
          /\ Live(Now, work.parent)
          /\ blocks[work.parent].era < MaxEra /\ Len(blocks) <= MaxBlocks
          /\ \A k \in Keys :
                Count(txo[k]) = (IF k \in work.state THEN 1 ELSE 0)
                                - (IF k \in blocks[work.parent].state THEN 1 ELSE 0)

\* What is visible when the batch is written, and the history it belongs to:
\* an injected state takes the place of the root's.
After == View(Recorded(store, batch))
Promised ==
    IF pc = "marked" /\ latest = NoEra
    THEN [tip |-> tip, blocks |-> <<[Root EXCEPT !.state = work.state]>>]
    ELSE Now

\* What is in memory fits what is in the database, or will be when the batch
\* is written; what is visible, what is on disk and what RocksDB has written out
\* of its memtable are images of what they had last.
Images ==
    /\ Chronicle(writer.keys, Now)
    /\ Fits(writer.keys, Promised, journal, latest, After)
    /\ Image(writer.keys, snap.written, View(store))
    /\ Image(writer.keys, snap.durable, store.disk)
    /\ Image(writer.keys, snap.stable.hist, snap.stable.disk)
    /\ pc \in {"idle", "exec", "written"} => batch = <<>> /\ snap.written = Now

\* A node of the canonical state is in the database or on its way there, and
\* the batch deletes no node that a live block has.
Readables ==
    /\ \A k \in blocks[tip].state : Short[k] \in pending \/ View(store)[k] # Absent
    /\ \A i \in DOMAIN batch : batch[i].key \in Keys /\ batch[i].val = Deleted =>
          \A b \in DOMAIN blocks : Live(Now, b) => batch[i].key \notin blocks[b].state
    /\ ReaderNeverMisses

\* A writer that is not lazy flushes every batch, and clears the pending nodes
\* when they are on disk.
Settled ==
    ~writer.lazy =>
        /\ pc # "written" => snap.durable = snap.written
        /\ latest # NoEra =>
              \A k \in blocks[tip].state : Short[k] \in pending \/ store.disk[k] # Absent

IInv == Typed /\ Counted /\ Executing /\ Images /\ Readables /\ Settled

-------------------------------------------------------------------------------
(* Histories.                                                              *)

\* The shape of a history.
LEMMA Shape ==
    ASSUME NEW nodes, NEW h, Chronicle(nodes, h)
    PROVE  /\ h.blocks \in Seq(Block) /\ Len(h.blocks) \in 1 .. (MaxBlocks + 1)
           /\ DOMAIN h.blocks = 1 .. Len(h.blocks) /\ h.tip \in DOMAIN h.blocks
           /\ \A b \in DOMAIN h.blocks :
                 /\ h.blocks[b] \in Block /\ h.blocks[b].era \in -1 .. MaxEra
                 /\ h.blocks[b].state \in SUBSET Keys /\ h.blocks[b].anc \in SUBSET Nat
           /\ MaxBlocks \in Nat /\ MaxEra \in Nat
<1>1. h.blocks \in Seq(Block)
    BY DEF Chronicle, Histories
<1>2. MaxBlocks \in Nat /\ MaxEra \in Nat
    BY BoundAssumption
<1>3. Len(h.blocks) \in Nat /\ DOMAIN h.blocks = 1 .. Len(h.blocks)
      /\ \A b \in DOMAIN h.blocks : h.blocks[b] \in Block
    BY <1>1
<1>4. Len(h.blocks) <= MaxBlocks + 1 /\ h.tip \in DOMAIN h.blocks
    BY DEF Chronicle
<1>5. Len(h.blocks) \in 1 .. (MaxBlocks + 1)
    BY <1>2, <1>3, <1>4
<1>6. QED BY <1>1, <1>2, <1>3, <1>4, <1>5 DEF Block

\* A live block is the tip or above it.
LEMMA AboveTip ==
    ASSUME NEW nodes, NEW h, Chronicle(nodes, h), NEW b, Live(h, b)
    PROVE  /\ b \in DOMAIN h.blocks /\ h.tip \in h.blocks[b].anc
           /\ b = h.tip \/ h.blocks[h.tip].era < h.blocks[b].era
           /\ h.blocks[h.tip].era <= h.blocks[b].era
           /\ h.blocks[h.tip].era \in -1 .. MaxEra /\ h.blocks[b].era \in -1 .. MaxEra
           /\ Live(h, h.tip)
<1>1. b \in DOMAIN h.blocks /\ h.tip \in h.blocks[b].anc
    BY DEF Live
<1>2. h.tip \in DOMAIN h.blocks /\ h.blocks[h.tip].era \in -1 .. MaxEra
      /\ h.blocks[b].era \in -1 .. MaxEra /\ MaxEra \in Nat
    BY <1>1, Shape
<1>3. b = h.tip \/ h.blocks[h.tip].era < h.blocks[b].era
    BY <1>1 DEF Chronicle, Ordered
<1>4. h.tip \in h.blocks[h.tip].anc
    BY <1>2 DEF Chronicle, Ordered
<1>5. QED BY <1>1, <1>2, <1>3, <1>4 DEF Live

\* What fits a database is what is read back from it.
LEMMA FitsReads ==
    ASSUME NEW nodes, NEW h, NEW j \in Journals, NEW l \in Eras \union {NoEra}, NEW db,
           Fits(nodes, h, j, l, db)
    PROVE  /\ ReadOverlay(db) =
               [ovl      |-> Overlay(j),
                journal  |-> j,
                latest   |-> l,
                earliest |-> IF JournalledEras(j) = {} THEN NoEra ELSE Min(JournalledEras(j)),
                csize    |-> SumOf({s \in ShortKeys : Contains(Overlay(j)[s])})]
           /\ Image(nodes, h, db)
           /\ \A e \in Eras : Len(j[e]) <= MaxBlocks
<1>1. Chronicle(nodes, h) /\ Spans(h, j, l) /\ Stored(j, l, db)
    BY DEF Fits, OnDisk
<1>2. Len(h.blocks) \in 1 .. (MaxBlocks + 1) /\ MaxBlocks \in Nat
      /\ h.blocks[h.tip].era \in -1 .. MaxEra
    BY <1>1, Shape
<1>3. \A e \in Eras : Len(j[e]) <= MaxBlocks
    <2>1. \A e \in Eras : j[e] \in Seq(StoredRecord)
        BY DEF Journals
    <2>2. \A e \in Eras : Len(j[e]) \in Nat
        BY <2>1
    <2>3. QED BY <1>1, <1>2, <2>2 DEF Spans
<1>4. Gapless(j, l, h.blocks[h.tip].era)
    BY <1>1, <1>2, <1>3 DEF Gapless, Spans
<1>5. ReadOverlay(db) =
               [ovl      |-> Overlay(j),
                journal  |-> j,
                latest   |-> l,
                earliest |-> IF JournalledEras(j) = {} THEN NoEra ELSE Min(JournalledEras(j)),
                csize    |-> SumOf({s \in ShortKeys : Contains(Overlay(j)[s])})]
    BY <1>1, <1>4, ReadBack
<1>6. ReadOverlay(db).journal = j /\ ReadOverlay(db).latest = l
    BY <1>5
<1>7. QED BY <1>3, <1>5, <1>6 DEF Image

\* A node of a live block is one of the canonical state, or the overlay has it.
LEMMA LiveNodes ==
    ASSUME NEW nodes, NEW h, NEW j, NEW b, Chronicle(nodes, h), Differences(h, j),
           \A e \in Eras : Len(j[e]) <= MaxBlocks, j \in Journals,
           Live(h, b), NEW k \in h.blocks[b].state
    PROVE  k \in Keys /\ (k \in h.blocks[h.tip].state \/ Refs(j, Short[k]) # {})
<1>1. b \in DOMAIN h.blocks /\ h.tip \in h.blocks[b].anc /\ Live(h, h.tip)
    BY AboveTip
<1>2. k \in Keys
    BY <1>1, Shape
<1>3. CASE k \notin h.blocks[h.tip].state
    <2>1. PICK e, i : Between(h, j, h.tip, b, e, i) /\ k \in j[e][i].ins
        BY <1>1, <1>3 DEF Differences
    <2>2. e \in Eras /\ i \in DOMAIN j[e] /\ j[e] \in Seq(StoredRecord)
        BY <2>1 DEF Between, Journals
    <2>3. MaxBlocks \in Nat
        BY BoundAssumption
    <2>4. i \in 1 .. MaxBlocks /\ i <= Len(j[e])
        BY <2>2, <2>3
    <2>5. <<e, i, k>> \in Refs(j, Short[k])
        BY <1>2, <2>1, <2>2, <2>4 DEF Refs
    <2>6. QED BY <1>2, <2>5
<1>4. QED BY <1>2, <1>3

-------------------------------------------------------------------------------
(* journal_under: a history with one more block.                           *)

Grown(h, p, S) ==
    [tip    |-> h.tip,
     blocks |-> Append(h.blocks, [era   |-> h.blocks[p].era + 1,
                                  anc   |-> h.blocks[p].anc \union {Len(h.blocks) + 1},
                                  state |-> S])]
NewRecord(h, p, S) ==
    [id |-> Len(h.blocks) + 1, ins |-> S \ h.blocks[p].state, del |-> h.blocks[p].state \ S]
JournalWith(h, j, p, S) ==
    [j EXCEPT ![h.blocks[p].era + 1] = Append(@, NewRecord(h, p, S))]
LatestWith(h, l, p) ==
    IF l = NoEra \/ h.blocks[p].era + 1 > l THEN h.blocks[p].era + 1 ELSE l

MayGrow(nodes, h, p, S) ==
    /\ Chronicle(nodes, h) /\ Live(h, p)
    /\ h.blocks[p].era < MaxEra /\ Len(h.blocks) <= MaxBlocks
    /\ S \subseteq nodes /\ nodes \subseteq Keys

\* What the longer history is made of.
LEMMA GrownShape ==
    ASSUME NEW nodes, NEW h, NEW p, NEW S, MayGrow(nodes, h, p, S)
    PROVE  LET g == Grown(h, p, S)
               n == Len(h.blocks) + 1
           IN  /\ g.tip = h.tip /\ DOMAIN g.blocks = 1 .. n /\ Len(g.blocks) = n
               /\ g.blocks \in Seq(Block) /\ g \in Histories
               /\ n \in 2 .. (MaxBlocks + 1)
               /\ DOMAIN h.blocks = 1 .. (n - 1) /\ p \in 1 .. (n - 1)
               /\ \A b \in 1 .. (n - 1) : g.blocks[b] = h.blocks[b] /\ b # n
               /\ g.blocks[n].era = h.blocks[p].era + 1
               /\ g.blocks[n].anc = h.blocks[p].anc \union {n}
               /\ g.blocks[n].state = S
               /\ h.blocks[p].era + 1 \in Eras
<1> DEFINE g == Grown(h, p, S)
           n == Len(h.blocks) + 1
           new == [era |-> h.blocks[p].era + 1, anc |-> h.blocks[p].anc \union {n}, state |-> S]
<1>1. /\ h.blocks \in Seq(Block) /\ Len(h.blocks) \in 1 .. (MaxBlocks + 1)
      /\ DOMAIN h.blocks = 1 .. Len(h.blocks) /\ MaxBlocks \in Nat /\ MaxEra \in Nat
      /\ h.tip \in DOMAIN h.blocks
    BY Shape DEF MayGrow
<1>2. p \in DOMAIN h.blocks /\ h.blocks[p].era \in -1 .. MaxEra /\ h.blocks[p].anc \in SUBSET Nat
    <2>1. p \in DOMAIN h.blocks
        BY AboveTip DEF MayGrow
    <2>2. QED BY <2>1, Shape DEF MayGrow
<1>3. h.blocks[p].era + 1 \in Eras
    BY SMTT(30), <1>1, <1>2 DEF MayGrow, Eras
<1>4. n \in 2 .. (MaxBlocks + 1) /\ n \in Nat
    BY <1>1 DEF MayGrow
<1>5. new \in Block
    <2>1. h.blocks[p].anc \union {n} \in SUBSET Nat
        BY <1>2, <1>4
    <2>2. S \in SUBSET Keys
        BY DEF MayGrow
    <2>3. h.blocks[p].era + 1 \in -1 .. MaxEra
        BY <1>1, <1>3 DEF Eras
    <2>4. QED BY <2>1, <2>2, <2>3 DEF Block
<1>6. g.tip = h.tip /\ g.blocks = Append(h.blocks, new)
    BY DEF Grown
<1>7. g = [tip |-> h.tip, blocks |-> Append(h.blocks, new)]
    BY DEF Grown
<1> HIDE DEF g
<1>8. new.era = h.blocks[p].era + 1 /\ new.anc = h.blocks[p].anc \union {n} /\ new.state = S
    OBVIOUS
<1> HIDE DEF new
<1>9. /\ Append(h.blocks, new) \in Seq(Block) /\ Len(Append(h.blocks, new)) = n
      /\ DOMAIN Append(h.blocks, new) = 1 .. n
      /\ Append(h.blocks, new)[n] = new
      /\ \A b \in 1 .. Len(h.blocks) : Append(h.blocks, new)[b] = h.blocks[b]
    BY <1>1, <1>5
<1>10. h.tip \in Nat
    BY <1>1
<1>11. g \in Histories
    BY <1>7, <1>9, <1>10 DEF Histories
<1>12. n - 1 = Len(h.blocks) /\ \A b \in 1 .. (n - 1) : b # n
    BY <1>1
<1>13. QED BY <1>1, <1>2, <1>3, <1>4, <1>6, <1>8, <1>9, <1>11, <1>12 DEF g

\* Who is alive does not change, but for the new block.
LEMMA GrownLive ==
    ASSUME NEW nodes, NEW h, NEW p, NEW S, MayGrow(nodes, h, p, S)
    PROVE  LET g == Grown(h, p, S)
               n == Len(h.blocks) + 1
           IN  /\ \A b \in 1 .. (n - 1) : Live(g, b) <=> Live(h, b)
               /\ Live(g, n)
               /\ Chronicle(nodes, g)
<1> DEFINE g == Grown(h, p, S)
           n == Len(h.blocks) + 1
<1>1. /\ g.tip = h.tip /\ DOMAIN g.blocks = 1 .. n /\ Len(g.blocks) = n
      /\ g.blocks \in Seq(Block) /\ g \in Histories
      /\ n \in 2 .. (MaxBlocks + 1) /\ MaxBlocks \in Nat
      /\ DOMAIN h.blocks = 1 .. (n - 1) /\ p \in 1 .. (n - 1)
      /\ \A b \in 1 .. (n - 1) : g.blocks[b] = h.blocks[b] /\ b # n
      /\ g.blocks[n].era = h.blocks[p].era + 1
      /\ g.blocks[n].anc = h.blocks[p].anc \union {n}
      /\ g.blocks[n].state = S
    BY SMTT(30), GrownShape, BoundAssumption
<1> HIDE DEF g, n
<1>2. \A b \in 1 .. n : b \in 1 .. (n - 1) \/ b = n
    BY <1>1
<1>3. \A b \in 1 .. (n - 1) : b \in 1 .. n
    BY <1>1
<1>4. /\ Chronicle(nodes, h) /\ Live(h, p) /\ S \subseteq nodes
    BY DEF MayGrow
<1>5. \A b \in 1 .. (n - 1) : h.blocks[b].era \in Int
    BY <1>1, <1>4, Shape
<1>6. Ordered(g)
    <2>1. SUFFICES ASSUME NEW b \in 1 .. n
                   PROVE  /\ b \in g.blocks[b].anc
                          /\ \A a \in g.blocks[b].anc :
                                /\ a \in 1 .. n
                                /\ a = b \/ g.blocks[a].era < g.blocks[b].era
                                /\ g.blocks[a].anc \subseteq g.blocks[b].anc
        BY <1>1 DEF Ordered
    <2>2. \A c \in 1 .. (n - 1) :
              /\ c \in h.blocks[c].anc
              /\ \A a \in h.blocks[c].anc :
                    /\ a \in 1 .. (n - 1)
                    /\ a = c \/ h.blocks[a].era < h.blocks[c].era
                    /\ h.blocks[a].anc \subseteq h.blocks[c].anc
        BY <1>1, <1>4 DEF Chronicle, Ordered
    <2>3. CASE b \in 1 .. (n - 1)
        BY <1>1, <1>3, <2>2, <2>3
    <2>4. CASE b = n
        <3>1. ASSUME NEW a \in h.blocks[p].anc
              PROVE  /\ a \in 1 .. (n - 1) /\ g.blocks[a].era < g.blocks[n].era
                     /\ g.blocks[a].anc \subseteq g.blocks[n].anc
            <4>1. a \in 1 .. (n - 1) /\ (a = p \/ h.blocks[a].era < h.blocks[p].era)
                  /\ h.blocks[a].anc \subseteq h.blocks[p].anc
                BY <1>1, <2>2
            <4>2. h.blocks[a].era \in Int /\ h.blocks[p].era \in Int
                BY <1>1, <1>5, <4>1
            <4>3. h.blocks[a].era < h.blocks[p].era + 1
                BY <4>1, <4>2
            <4>4. QED BY <1>1, <4>1, <4>3
        <3>2. QED BY <1>1, <1>3, <2>4, <3>1
    <2>5. QED BY <1>2, <2>3, <2>4
<1>7. \A b \in 1 .. n : g.blocks[b].state \subseteq nodes
    BY <1>1, <1>2, <1>4 DEF Chronicle
<1>8. g.tip \in 1 .. n
    BY <1>1, <1>3, <1>4 DEF Chronicle
<1>9. Chronicle(nodes, g)
    BY <1>1, <1>6, <1>7, <1>8 DEF Chronicle
<1>10. \A b \in 1 .. (n - 1) : Live(g, b) <=> Live(h, b)
    BY <1>1, <1>3 DEF Live
<1>11. Live(g, n)
    BY SMTT(30), <1>1, <1>2, <1>4 DEF Live
<1>12. QED BY <1>9, <1>10, <1>11 DEF g, n

\* The record that is added, and where.
LEMMA GrownJournal ==
    ASSUME NEW nodes, NEW h, NEW p, NEW S, MayGrow(nodes, h, p, S),
           NEW j \in Journals, NEW l \in Eras \union {NoEra}, Spans(h, j, l)
    PROVE  LET J == JournalWith(h, j, p, S)
               r == NewRecord(h, p, S)
               now == h.blocks[p].era + 1
               m == Len(j[now]) + 1
           IN  /\ now \in Eras /\ r \in StoredRecord /\ m \in 1 .. MaxBlocks
               /\ J \in Journals /\ LatestWith(h, l, p) \in Eras
               /\ \A e \in Eras \ {now} : J[e] = j[e]
               /\ J[now] = Append(j[now], r)
               /\ Len(J[now]) = m /\ DOMAIN J[now] = 1 .. m /\ J[now][m] = r
               /\ DOMAIN j[now] = 1 .. (m - 1)
               /\ \A i \in 1 .. (m - 1) : J[now][i] = j[now][i] /\ i \in 1 .. m /\ i # m
               /\ \A i \in 1 .. m : i \in 1 .. (m - 1) \/ i = m
<1> DEFINE J == JournalWith(h, j, p, S)
           r == NewRecord(h, p, S)
           now == h.blocks[p].era + 1
           n == Len(h.blocks) + 1
           m == Len(j[now]) + 1
<1>1. now \in Eras /\ n \in 2 .. (MaxBlocks + 1) /\ MaxBlocks \in Nat /\ p \in DOMAIN h.blocks
    BY GrownShape, BoundAssumption
<1>2. r \in StoredRecord
    <2>1. S \subseteq Keys /\ h.blocks[p].state \subseteq Keys
        BY <1>1, Shape DEF MayGrow
    <2>2. n \in 1 .. (MaxBlocks + 1)
        BY <1>1
    <2>3. QED BY <2>1, <2>2 DEF StoredRecord, NewRecord
<1>3. j[now] \in Seq(StoredRecord) /\ Len(j[now]) \in Nat /\ DOMAIN j[now] = 1 .. Len(j[now])
    <2>1. j[now] \in Seq(StoredRecord)
        BY <1>1 DEF Journals
    <2>2. QED BY <2>1
<1>4. Len(j[now]) < Len(h.blocks) /\ Len(h.blocks) \in Nat /\ Len(h.blocks) <= MaxBlocks
    BY SMTT(30), <1>1, Shape DEF Spans, MayGrow
<1>5. m \in 1 .. MaxBlocks /\ m - 1 = Len(j[now])
    BY SMTT(30), <1>1, <1>3, <1>4
<1>6. J[now] = Append(j[now], r) /\ \A e \in Eras \ {now} : J[e] = j[e]
    BY <1>1 DEF JournalWith, Journals
<1>7. J \in Journals
    <2>1. Append(j[now], r) \in Seq(StoredRecord)
        BY <1>2, <1>3
    <2>2. J = [j EXCEPT ![now] = Append(@, r)]
        BY DEF JournalWith
    <2> HIDE DEF J, r, now
    <2>3. QED BY <1>1, <2>1, <2>2 DEF Journals
<1>8. LatestWith(h, l, p) \in Eras
    BY <1>1 DEF LatestWith
<1> HIDE DEF J, r, now
<1>9. /\ Len(J[now]) = m /\ DOMAIN J[now] = 1 .. m /\ J[now][m] = r
      /\ \A i \in 1 .. Len(j[now]) : J[now][i] = j[now][i]
    BY <1>2, <1>3, <1>6
<1>10. /\ \A i \in 1 .. (m - 1) : i \in 1 .. m /\ i # m
       /\ \A i \in 1 .. m : i \in 1 .. (m - 1) \/ i = m
    BY <1>5
<1>11. QED BY <1>1, <1>2, <1>3, <1>5, <1>6, <1>7, <1>8, <1>9, <1>10 DEF J, r, now

\* The longer journal spans the eras up to the new latest one.
LEMMA GrownSpans ==
    ASSUME NEW nodes, NEW h, NEW p, NEW S, MayGrow(nodes, h, p, S),
           NEW j \in Journals, NEW l \in Eras \union {NoEra}, Spans(h, j, l)
    PROVE  Spans(Grown(h, p, S), JournalWith(h, j, p, S), LatestWith(h, l, p))
<1> DEFINE g == Grown(h, p, S)
           n == Len(h.blocks) + 1
           J == JournalWith(h, j, p, S)
           now == h.blocks[p].era + 1
           L == LatestWith(h, l, p)
           low == h.blocks[h.tip].era
           m == Len(j[now]) + 1
<1>0. /\ g.tip = h.tip /\ DOMAIN g.blocks = 1 .. n /\ Len(g.blocks) = n
      /\ n \in 2 .. (MaxBlocks + 1) /\ MaxBlocks \in Nat
      /\ DOMAIN h.blocks = 1 .. (n - 1) /\ p \in 1 .. (n - 1) /\ h.tip \in DOMAIN h.blocks
      /\ \A b \in 1 .. (n - 1) : g.blocks[b] = h.blocks[b]
      /\ g.blocks[n].era = now
    BY SMTT(30), GrownShape, Shape DEF MayGrow
<1>00. /\ now \in Eras /\ L \in Eras
       /\ \A e \in Eras \ {now} : J[e] = j[e]
       /\ Len(J[now]) = m /\ m \in 1 .. MaxBlocks
       /\ DOMAIN j[now] = 1 .. (m - 1)
    BY GrownJournal
<1> HIDE DEF g, n, J, L
<1>1. /\ g.tip = h.tip /\ DOMAIN g.blocks = 1 .. n /\ Len(g.blocks) = n /\ n \in Nat /\ n >= 2
      /\ DOMAIN h.blocks = 1 .. (n - 1) /\ p \in 1 .. (n - 1) /\ h.tip \in 1 .. (n - 1)
      /\ \A b \in 1 .. (n - 1) : g.blocks[b] = h.blocks[b]
      /\ g.blocks[n].era = now
      /\ \A b \in 1 .. n : b \in 1 .. (n - 1) \/ b = n
    BY <1>0
<1>2. /\ now \in Eras /\ now \in Int /\ \A e \in Eras \ {now} : J[e] = j[e]
      /\ Len(J[now]) = Len(j[now]) + 1 /\ J[now] # <<>> /\ Len(j[now]) \in Nat
      /\ L \in Eras
    <2>2. j[now] \in Seq(StoredRecord)
        BY <1>00 DEF Journals
    <2>3. Len(j[now]) \in Nat
        BY <2>2
    <2>4. J[now] # <<>>
        BY <1>00, <2>3
    <2>5. QED BY <1>00, <2>3, <2>4 DEF Eras
<1>3. low \in Int /\ low < now /\ low = g.blocks[g.tip].era
    <2>1. h.blocks[h.tip].era <= h.blocks[p].era /\ h.blocks[h.tip].era \in -1 .. MaxEra
          /\ h.blocks[p].era \in -1 .. MaxEra
        BY AboveTip DEF MayGrow
    <2>2. MaxEra \in Nat
        BY BoundAssumption
    <2>3. QED BY SMTT(30), <1>1, <2>1, <2>2
<1>4. NoEra \notin Eras /\ \A e \in Eras : e \in Int
    <2>1. MaxEra \in Nat
        BY BoundAssumption
    <2>2. QED BY <2>1, MarkerAssumption DEF Eras
<1>5. /\ L # NoEra /\ now <= L
      /\ l # NoEra => l <= L /\ (L = l \/ L = now) /\ now <= l + 1
      /\ l = NoEra => L = now /\ low = -1 /\ now = 0
    <2>1. CASE l = NoEra
        <3>1. L = now
            BY <2>1 DEF LatestWith, L
        <3>2. n - 1 = 1 /\ h.blocks[1].era = -1
            <4>1. Len(h.blocks) = 1
                BY <2>1 DEF Spans
            <4>2. QED BY <2>1, <4>1 DEF Spans, n
        <3>3. p = 1 /\ h.tip = 1
            BY <1>1, <3>2
        <3>4. QED BY <1>2, <1>4, <2>1, <3>1, <3>2, <3>3
    <2>2. CASE l # NoEra
        <3>1. h.blocks[p].era <= l
            BY <1>1, <2>2 DEF Spans
        <3>2. L = IF now > l THEN now ELSE l
            BY <2>2 DEF LatestWith, L
        <3>3. h.blocks[p].era \in Int /\ l \in Int
            <4>1. h.blocks[p].era \in -1 .. MaxEra
                BY <1>1, Shape DEF MayGrow
            <4>2. QED BY <1>4, <2>2, <4>1
        <3>4. now <= l + 1
            BY <3>1, <3>3
        <3>5. QED BY <1>2, <1>4, <2>2, <3>2, <3>3, <3>4
    <2>3. QED BY <2>1, <2>2
<1> HIDE DEF now, low, m
<1>6. \A b \in 1 .. n : g.blocks[b].era <= L
    <2>1. SUFFICES ASSUME NEW b \in 1 .. (n - 1) PROVE h.blocks[b].era <= L
        BY <1>1, <1>5
    <2>2. CASE l = NoEra
        <3>1. n - 1 = 1 /\ h.blocks[1].era = -1
            BY <1>1, <2>2 DEF Spans, n
        <3>2. QED BY <1>1, <1>5, <2>1, <2>2, <3>1
    <2>3. CASE l # NoEra
        <3>1. h.blocks[b].era <= l
            BY <1>1, <2>3 DEF Spans
        <3>2. h.blocks[b].era \in Int
            <4>1. h.blocks[b].era \in -1 .. MaxEra
                BY <1>1, Shape DEF MayGrow
            <4>2. QED BY <4>1
        <3>3. QED BY <1>2, <1>4, <1>5, <2>3, <3>1, <3>2
    <2>4. QED BY <2>2, <2>3
<1>7. low < L
    BY <1>2, <1>3, <1>4, <1>5
<1>8. ASSUME NEW e \in Eras
      PROVE  J[e] # <<>> <=> L # NoEra /\ low < e /\ e <= L
    <2>1. j[e] # <<>> <=> l # NoEra /\ low < e /\ e <= l
        BY DEF Spans, low
    <2>2. CASE e = now
        BY <1>2, <1>3, <1>5, <2>2
    <2>3. CASE e # now
        <3>1. J[e] = j[e]
            BY <1>2, <2>3
        <3>2. CASE l = NoEra
            <4>1. ~ (low < e /\ e <= L)
                BY <1>4, <1>5, <2>3, <3>2
            <4>2. QED BY <2>1, <3>1, <3>2, <4>1
        <3>3. CASE l # NoEra
            <4>1. low < e /\ e <= L <=> low < e /\ e <= l
                BY <1>2, <1>4, <1>5, <2>3, <3>3
            <4>2. QED BY <1>5, <2>1, <3>1, <3>3, <4>1
        <3>4. QED BY <3>2, <3>3
    <2>4. QED BY <2>2, <2>3
<1>9. ASSUME NEW e \in Eras
      PROVE  Len(J[e]) < n
    <2>1. Len(j[e]) < n - 1 /\ Len(j[e]) \in Nat
        <3>1. j[e] \in Seq(StoredRecord)
            BY DEF Journals
        <3>2. Len(j[e]) < Len(h.blocks)
            BY DEF Spans
        <3>3. Len(h.blocks) = n - 1
            <4>1. Len(h.blocks) \in 1 .. (MaxBlocks + 1)
                BY Shape DEF MayGrow
            <4>2. QED BY <4>1 DEF n
        <3>4. QED BY <3>1, <3>2, <3>3
    <2>2. CASE e = now
        BY <1>1, <1>2, <2>1, <2>2
    <2>3. CASE e # now
        BY SMTT(30), <1>1, <1>2, <2>1, <2>3
    <2>4. QED BY <2>2, <2>3
<1>10. Spans(g, J, L)
    BY <1>1, <1>2, <1>3, <1>5, <1>6, <1>7, <1>8, <1>9 DEF Spans
<1>11. QED BY <1>10 DEF g, J, L

\* Its new record is that of the new block.
LEMMA GrownRecords ==
    ASSUME NEW nodes, NEW h, NEW p, NEW S, MayGrow(nodes, h, p, S),
           NEW j \in Journals, NEW l \in Eras \union {NoEra}, Spans(h, j, l), Records(h, j)
    PROVE  Records(Grown(h, p, S), JournalWith(h, j, p, S))
<1> DEFINE g == Grown(h, p, S)
           n == Len(h.blocks) + 1
           J == JournalWith(h, j, p, S)
           r == NewRecord(h, p, S)
           now == h.blocks[p].era + 1
           m == Len(j[now]) + 1
<1>1. /\ DOMAIN g.blocks = 1 .. n /\ n \in Nat /\ n >= 2
      /\ DOMAIN h.blocks = 1 .. (n - 1)
      /\ \A b \in 1 .. (n - 1) : g.blocks[b] = h.blocks[b]
      /\ g.blocks[n].era = now /\ g.blocks[n].state = S
    BY GrownShape
<1>2. /\ now \in Eras /\ \A e \in Eras \ {now} : J[e] = j[e]
      /\ DOMAIN J[now] = 1 .. m /\ J[now][m] = r /\ DOMAIN j[now] = 1 .. (m - 1)
      /\ \A i \in 1 .. (m - 1) : J[now][i] = j[now][i]
      /\ \A i \in 1 .. m : i \in 1 .. (m - 1) \/ i = m
    BY GrownJournal
<1>3. r.id = n /\ r.ins \subseteq S /\ r.del \intersect S = {}
    BY DEF NewRecord
<1> HIDE DEF g, n, J, r, now, m
<1>4. \A b \in 1 .. (n - 1) : b \in 1 .. n
    BY <1>1
<1>5. n \in 1 .. n
    BY <1>1
<1>6. ASSUME NEW e \in Eras, NEW i \in DOMAIN J[e]
      PROVE  /\ J[e][i].id \in DOMAIN g.blocks /\ g.blocks[J[e][i].id].era = e
             /\ J[e][i].ins \subseteq g.blocks[J[e][i].id].state
             /\ J[e][i].del \intersect g.blocks[J[e][i].id].state = {}
    <2>1. CASE e = now /\ i = m
        BY <1>1, <1>2, <1>3, <1>5, <2>1
    <2>2. CASE ~ (e = now /\ i = m)
        <3>1. i \in DOMAIN j[e] /\ J[e][i] = j[e][i]
            BY <1>2, <1>6, <2>2
        <3>2. /\ j[e][i].id \in DOMAIN h.blocks /\ h.blocks[j[e][i].id].era = e
              /\ j[e][i].ins \subseteq h.blocks[j[e][i].id].state
              /\ j[e][i].del \intersect h.blocks[j[e][i].id].state = {}
            BY <3>1 DEF Records
        <3>3. QED BY <1>1, <1>4, <3>1, <3>2
    <2>3. QED BY <2>1, <2>2
<1>7. Records(g, J)
    BY <1>6 DEF Records
<1>8. QED BY <1>7 DEF g, J

\* The new block differs from its live ancestors by what was recorded in between.
LEMMA GrownDifferences ==
    ASSUME NEW nodes, NEW h, NEW p, NEW S, MayGrow(nodes, h, p, S),
           NEW j \in Journals, NEW l \in Eras \union {NoEra}, Spans(h, j, l), Differences(h, j)
    PROVE  Differences(Grown(h, p, S), JournalWith(h, j, p, S))
<1> DEFINE g == Grown(h, p, S)
           n == Len(h.blocks) + 1
           J == JournalWith(h, j, p, S)
           r == NewRecord(h, p, S)
           now == h.blocks[p].era + 1
           m == Len(j[now]) + 1
<1>1. /\ DOMAIN g.blocks = 1 .. n /\ n \in Nat /\ n >= 2
      /\ DOMAIN h.blocks = 1 .. (n - 1) /\ p \in 1 .. (n - 1)
      /\ \A b \in 1 .. (n - 1) : g.blocks[b] = h.blocks[b]
      /\ g.blocks[n].era = now /\ g.blocks[n].state = S
      /\ g.blocks[n].anc = h.blocks[p].anc \union {n}
    BY GrownShape
<1>2. /\ now \in Eras /\ \A e \in Eras \ {now} : J[e] = j[e]
      /\ DOMAIN J[now] = 1 .. m /\ J[now][m] = r /\ DOMAIN j[now] = 1 .. (m - 1)
      /\ \A i \in 1 .. (m - 1) : J[now][i] = j[now][i] /\ i \in 1 .. m
      /\ m \in 1 .. m
    BY GrownJournal
<1>3. /\ \A b \in 1 .. (n - 1) : Live(g, b) <=> Live(h, b)
      /\ Live(h, p)
    BY GrownLive DEF MayGrow
<1>4. r.id = n /\ r.ins = S \ h.blocks[p].state /\ r.del = h.blocks[p].state \ S
    BY DEF NewRecord
<1>5. \A b \in 1 .. (n - 1) : h.blocks[b].anc \subseteq 1 .. (n - 1) /\ b \in h.blocks[b].anc
    BY <1>1 DEF MayGrow, Chronicle, Ordered
<1>6. \A a \in h.blocks[p].anc : a \in 1 .. (n - 1) /\ h.blocks[a].era < now
    <2>1. SUFFICES ASSUME NEW a \in h.blocks[p].anc
                   PROVE  a \in 1 .. (n - 1) /\ h.blocks[a].era < now
        OBVIOUS
    <2>2. a = p \/ h.blocks[a].era < h.blocks[p].era
        BY <1>1 DEF MayGrow, Chronicle, Ordered
    <2>3. h.blocks[a].era \in -1 .. MaxEra /\ h.blocks[p].era \in -1 .. MaxEra
        BY <1>1, <1>5, Shape DEF MayGrow
    <2>4. MaxEra \in Nat
        BY BoundAssumption
    <2>5. h.blocks[a].era < h.blocks[p].era + 1
        BY <2>2, <2>3, <2>4
    <2>6. QED BY <1>1, <1>5, <2>5
<1> HIDE DEF g, n, J, r, now, m
<1>7. \A b \in 1 .. n : b \in 1 .. (n - 1) \/ b = n
    BY <1>1
\* What was between two old blocks still is.
<1>8. ASSUME NEW a \in 1 .. (n - 1), NEW b \in 1 .. (n - 1), NEW c \in 1 .. n,
             h.blocks[b].anc \subseteq g.blocks[c].anc,
             NEW e, NEW i, Between(h, j, a, b, e, i)
      PROVE  Between(g, J, a, c, e, i) /\ J[e][i] = j[e][i]
    <2>1. e \in Eras /\ i \in DOMAIN j[e] /\ h.blocks[a].era < e /\ j[e][i].id \in h.blocks[b].anc
        BY <1>8 DEF Between
    <2>2. i \in DOMAIN J[e] /\ J[e][i] = j[e][i]
        BY <1>2, <2>1
    <2>3. QED BY <1>1, <1>8, <2>1, <2>2 DEF Between
<1>9. ASSUME NEW b \in 1 .. n, NEW a \in g.blocks[b].anc, Live(g, b), Live(g, a)
      PROVE  /\ \A k \in g.blocks[b].state \ g.blocks[a].state :
                   \E e, i : Between(g, J, a, b, e, i) /\ k \in J[e][i].ins
             /\ \A k \in g.blocks[a].state \ g.blocks[b].state :
                   \E e, i : Between(g, J, a, b, e, i) /\ k \in J[e][i].del
    <2>1. CASE b \in 1 .. (n - 1)
        <3>1. a \in 1 .. (n - 1) /\ a \in h.blocks[b].anc /\ g.blocks[b] = h.blocks[b]
              /\ g.blocks[a] = h.blocks[a] /\ Live(h, a) /\ Live(h, b)
            BY <1>1, <1>3, <1>5, <1>9, <2>1
        <3>2. /\ \A k \in h.blocks[b].state \ h.blocks[a].state :
                   \E e, i : Between(h, j, a, b, e, i) /\ k \in j[e][i].ins
              /\ \A k \in h.blocks[a].state \ h.blocks[b].state :
                   \E e, i : Between(h, j, a, b, e, i) /\ k \in j[e][i].del
            BY <1>1, <2>1, <3>1 DEF Differences
        <3>3. \A e, i : Between(h, j, a, b, e, i) => Between(g, J, a, b, e, i) /\ J[e][i] = j[e][i]
            BY <1>8, <2>1, <3>1
        <3>4. QED BY <3>1, <3>2, <3>3
    <2>2. CASE b = n /\ a = n
        BY <2>2
    <2>3. CASE b = n /\ a # n
        <3>1. a \in h.blocks[p].anc
            BY <1>1, <1>9, <2>3
        <3>2. a \in 1 .. (n - 1) /\ g.blocks[a] = h.blocks[a] /\ Live(h, a) /\ h.blocks[a].era < now
            BY <1>1, <1>3, <1>6, <1>9, <3>1
        <3>3. /\ \A k \in h.blocks[p].state \ h.blocks[a].state :
                   \E e, i : Between(h, j, a, p, e, i) /\ k \in j[e][i].ins
              /\ \A k \in h.blocks[a].state \ h.blocks[p].state :
                   \E e, i : Between(h, j, a, p, e, i) /\ k \in j[e][i].del
            BY <1>1, <1>3, <3>1, <3>2 DEF Differences
        <3>4. \A e, i : Between(h, j, a, p, e, i) => Between(g, J, a, n, e, i) /\ J[e][i] = j[e][i]
            BY <1>1, <1>8, <1>9, <2>3, <3>2
        <3>5. Between(g, J, a, n, now, m) /\ J[now][m].ins = S \ h.blocks[p].state
              /\ J[now][m].del = h.blocks[p].state \ S
            BY <1>1, <1>2, <1>4, <3>2 DEF Between
        <3>6. ASSUME NEW k \in S \ h.blocks[a].state
              PROVE  \E e, i : Between(g, J, a, n, e, i) /\ k \in J[e][i].ins
            <4>1. CASE k \in h.blocks[p].state
                BY <3>3, <3>4, <3>6, <4>1
            <4>2. CASE k \notin h.blocks[p].state
                BY <3>5, <3>6, <4>2
            <4>3. QED BY <4>1, <4>2
        <3>7. ASSUME NEW k \in h.blocks[a].state \ S
              PROVE  \E e, i : Between(g, J, a, n, e, i) /\ k \in J[e][i].del
            <4>1. CASE k \notin h.blocks[p].state
                BY <3>3, <3>4, <3>7, <4>1
            <4>2. CASE k \in h.blocks[p].state
                BY <3>5, <3>7, <4>2
            <4>3. QED BY <4>1, <4>2
        <3>8. QED BY <1>1, <2>3, <3>2, <3>6, <3>7
    <2>4. QED BY <1>7, <2>1, <2>2, <2>3
<1>10. Differences(g, J)
    BY <1>1, <1>9 DEF Differences
<1>11. QED BY <1>10 DEF g, J

\* What the batch of journal_under does to a database.
Journalled(h, j, l, p, S, db, db2) ==
    LET now == h.blocks[p].era + 1
    IN  /\ db2[<<now, Len(j[now])>>] = NewRecord(h, p, S)
        /\ db2[Latest] = LatestWith(h, l, p)
        /\ \A k \in DbKeys \ {Latest, <<now, Len(j[now])>>} : db2[k] = db[k]

\* The database then has the longer journal, and the same nodes.
LEMMA GrownOnDisk ==
    ASSUME NEW nodes, NEW h, NEW p, NEW S, MayGrow(nodes, h, p, S),
           NEW j \in Journals, NEW l \in Eras \union {NoEra}, Spans(h, j, l),
           NEW db, NEW db2, OnDisk(h, j, l, db), Tidy(nodes, h, j, db),
           Journalled(h, j, l, p, S, db, db2)
    PROVE  /\ OnDisk(Grown(h, p, S), JournalWith(h, j, p, S), LatestWith(h, l, p), db2)
           /\ Tidy(nodes, Grown(h, p, S), JournalWith(h, j, p, S), db2)
           /\ \A k \in Keys : db2[k] = db[k]
<1> DEFINE g == Grown(h, p, S)
           n == Len(h.blocks) + 1
           J == JournalWith(h, j, p, S)
           L == LatestWith(h, l, p)
           r == NewRecord(h, p, S)
           now == h.blocks[p].era + 1
           m == Len(j[now]) + 1
<1>1. /\ g.tip = h.tip /\ DOMAIN g.blocks = 1 .. n /\ n \in Nat
      /\ DOMAIN h.blocks = 1 .. (n - 1) /\ h.tip \in 1 .. (n - 1)
      /\ \A b \in 1 .. (n - 1) : g.blocks[b] = h.blocks[b]
    BY SMTT(30), GrownShape, Shape DEF MayGrow
<1>2. /\ now \in Eras /\ L \in Eras
      /\ \A e \in Eras \ {now} : J[e] = j[e]
      /\ Len(J[now]) = m /\ m \in 1 .. MaxBlocks /\ J[now][m] = r
      /\ DOMAIN j[now] = 1 .. (m - 1)
      /\ DOMAIN J[now] = 1 .. m
      /\ \A i \in 1 .. (m - 1) : J[now][i] = j[now][i] /\ i \in 1 .. m
    BY GrownJournal
<1>3. MaxBlocks \in Nat /\ MaxEra \in Nat
    BY BoundAssumption
<1>4. m - 1 = Len(j[now]) /\ m \in Nat /\ m - 1 \in 0 .. MaxBlocks
    <2>1. j[now] \in Seq(StoredRecord)
        BY <1>2 DEF Journals
    <2>2. Len(j[now]) \in Nat
        BY <2>1
    <2>3. QED BY <1>2, <1>3, <2>2
<1>5. /\ db2[<<now, m - 1>>] = r /\ db2[Latest] = L
      /\ \A k \in DbKeys \ {Latest, <<now, m - 1>>} : db2[k] = db[k]
    BY <1>4 DEF Journalled
<1>6. L # NoEra
    <2>1. NoEra \notin Eras
        BY <1>3, MarkerAssumption DEF Eras
    <2>2. QED BY <1>2, <2>1
<1>7. /\ \A e \in Eras, i \in 0 .. MaxBlocks :
              <<e, i>> \in DbKeys /\ <<e, i>> # Latest /\ (<<e, i>> = <<now, m - 1>> <=> e = now /\ i = m - 1)
      /\ \A k \in Keys : k \in DbKeys \ {Latest, <<now, m - 1>>}
    <2>1. \A e \in Eras, i \in 0 .. MaxBlocks : <<e, i>> \in RecordKeys
        BY DEF RecordKeys
    <2>2. \A e, i : <<e, i>> = <<now, m - 1>> <=> e = now /\ i = m - 1
        OBVIOUS
    <2>3. <<now, m - 1>> \in RecordKeys
        BY <1>2, <1>4, <2>1
    <2> HIDE DEF now, m
    <2>4. QED BY <2>1, <2>2, <2>3, MarkerAssumption DEF DbKeys
<1> HIDE DEF g, n, J, L, r, now, m
<1>8. \A k \in Keys : db2[k] = db[k]
    BY <1>5, <1>7
<1>9. Stored(J, L, db2)
    <2>1. ASSUME NEW e \in Eras, NEW i \in 0 .. MaxBlocks
          PROVE  db2[<<e, i>>] = IF i < Len(J[e]) THEN J[e][i + 1] ELSE Absent
        <3>1. db[<<e, i>>] = IF i < Len(j[e]) THEN j[e][i + 1] ELSE Absent
            BY DEF OnDisk, Stored
        <3>2. CASE e # now
            BY <1>2, <1>5, <1>7, <3>1, <3>2
        <3>3. CASE e = now /\ i = m - 1
            <4>1. i + 1 = m /\ i < m
                BY <1>4, <3>3
            <4>2. QED BY <1>2, <1>5, <3>3, <4>1
        <3>4. CASE e = now /\ i # m - 1
            <4>1. db2[<<e, i>>] = db[<<e, i>>]
                BY <1>5, <1>7, <3>4
            <4>2. CASE i < m - 1
                <5>1. i + 1 \in 1 .. (m - 1) /\ i < m
                    BY <1>4, <4>2
                <5>2. J[now][i + 1] = j[now][i + 1]
                    BY <1>2, <5>1
                <5>3. QED BY <1>2, <1>4, <3>1, <3>4, <4>1, <4>2, <5>1, <5>2
            <4>3. CASE ~ (i < m - 1)
                <5>1. ~ (i < m)
                    BY <1>4, <3>4, <4>3
                <5>2. QED BY <1>2, <1>4, <3>1, <3>4, <4>1, <4>3, <5>1
            <4>4. QED BY <4>2, <4>3
        <3>5. QED BY <3>2, <3>3, <3>4
    <2>2. QED BY <1>5, <1>6, <2>1 DEF Stored
<1>10. OnDisk(g, J, L, db2)
    <2>1. g.blocks[g.tip].state = h.blocks[h.tip].state /\ h.blocks[h.tip].state \subseteq Keys
        BY <1>1, Shape DEF MayGrow
    <2>2. \A k \in h.blocks[h.tip].state : db[k] # Absent
        BY DEF OnDisk
    <2>3. QED BY <1>8, <1>9, <2>1, <2>2 DEF OnDisk
<1>11. Tidy(nodes, g, J, db2)
    <2>1. SUFFICES ASSUME Unforked(nodes, g), NEW k \in Keys, db2[k] # Absent
                   PROVE  \/ k \in g.blocks[g.tip].state
                          \/ \E e \in Eras : \E i \in DOMAIN J[e] : k \in J[e][i].ins
        BY DEF Tidy
    <2>2. Unforked(nodes, h)
        <3>1. \A b \in 1 .. (n - 1) : b \in 1 .. n
            BY <1>1
        <3>2. QED BY <1>1, <2>1, <3>1 DEF Unforked
    <2>3. k \in h.blocks[h.tip].state \/ \E e \in Eras : \E i \in DOMAIN j[e] : k \in j[e][i].ins
        BY <1>8, <2>1, <2>2 DEF Tidy
    <2>4. \A e \in Eras : \A i \in DOMAIN j[e] : i \in DOMAIN J[e] /\ J[e][i] = j[e][i]
        BY <1>2
    <2>5. QED BY <1>1, <2>3, <2>4
<1>12. QED BY <1>8, <1>10, <1>11 DEF g, J, L

\* A history that fits a database still does with one more block.
LEMMA FitsGrown ==
    ASSUME NEW nodes, NEW h, NEW p, NEW S, MayGrow(nodes, h, p, S),
           NEW j \in Journals, NEW l \in Eras \union {NoEra},
           NEW db, NEW db2, Fits(nodes, h, j, l, db), Journalled(h, j, l, p, S, db, db2)
    PROVE  Fits(nodes, Grown(h, p, S), JournalWith(h, j, p, S), LatestWith(h, l, p), db2)
<1>1. /\ Spans(h, j, l) /\ Records(h, j) /\ Differences(h, j)
      /\ OnDisk(h, j, l, db) /\ Tidy(nodes, h, j, db)
    BY DEF Fits
<1>2. Chronicle(nodes, Grown(h, p, S))
    BY GrownLive
<1>3. QED BY <1>1, <1>2, GrownSpans, GrownRecords, GrownDifferences, GrownOnDisk DEF Fits

-------------------------------------------------------------------------------
(* mark_canonical: a history whose tip is a child of the tip.              *)

Marked(h, b) == [tip |-> b, blocks |-> h.blocks]
JournalWithout(j, era) == [j EXCEPT ![era] = <<>>]

MayMove(nodes, h, l, b) ==
    /\ Chronicle(nodes, h) /\ nodes \subseteq Keys
    /\ Live(h, b) /\ b # h.tip
    /\ h.blocks[b].era = h.blocks[h.tip].era + 1
    /\ l \in Eras /\ h.blocks[b].era + History <= l

\* What is alive then was alive before, and the new tip is as high as the
\* first era of the journal.
LEMMA MarkedLive ==
    ASSUME NEW nodes, NEW h, NEW l, NEW b, MayMove(nodes, h, l, b)
    PROVE  LET g == Marked(h, b)
               era == h.blocks[b].era
               low == h.blocks[h.tip].era
           IN  /\ g.tip = b /\ g.blocks = h.blocks
               /\ Chronicle(nodes, g)
               /\ \A c : Live(g, c) => Live(h, c) /\ Live(g, b)
               /\ b \in DOMAIN h.blocks /\ h.tip \in DOMAIN h.blocks /\ h.tip \in h.blocks[b].anc
               /\ Live(h, h.tip)
               /\ era \in Eras /\ era \in Int /\ low \in Int /\ era = low + 1
               /\ \A e \in Eras : e \in Int
               /\ era <= l /\ (History > 0 => era < l) /\ l # NoEra
<1> DEFINE g == Marked(h, b)
           era == h.blocks[b].era
           low == h.blocks[h.tip].era
<1>1. g.tip = b /\ g.blocks = h.blocks
    BY DEF Marked
<1>2. g = [tip |-> b, blocks |-> h.blocks]
    BY DEF Marked
<1> HIDE DEF g
<1>3. /\ Chronicle(nodes, h) /\ b \in DOMAIN h.blocks /\ h.tip \in h.blocks[b].anc
      /\ h.tip \in DOMAIN h.blocks /\ Live(h, h.tip)
      /\ low \in -1 .. MaxEra /\ era \in -1 .. MaxEra
    BY AboveTip, Shape DEF MayMove
<1>4. MaxEra \in Nat /\ History \in Nat /\ DOMAIN h.blocks \subseteq Nat
    BY <1>3, BoundAssumption, Shape
<1>5. /\ \A e \in Eras : e \in Int
      /\ era \in Int /\ low \in Int /\ era = low + 1 /\ l \in Int /\ NoEra \notin Eras
    BY <1>3, <1>4, MarkerAssumption DEF Eras, MayMove
<1>6. era \in Eras
    BY <1>3, <1>4, <1>5 DEF Eras
<1>7. era <= l /\ (History > 0 => era < l)
    <2>1. era + History <= l
        BY DEF MayMove
    <2> HIDE DEF era
    <2>2. QED BY <1>4, <1>5, <2>1
<1>8. Chronicle(nodes, g)
    <2>1. g \in Histories
        BY <1>2, <1>3, <1>4 DEF Chronicle, Histories
    <2>2. QED BY <1>1, <1>3, <2>1 DEF Chronicle, Ordered
<1>9. ASSUME NEW c, Live(g, c) PROVE Live(h, c) /\ Live(g, b)
    <2>1. c \in DOMAIN h.blocks /\ b \in h.blocks[c].anc
        BY <1>1, <1>9 DEF Live
    <2>2. h.blocks[b].anc \subseteq h.blocks[c].anc /\ b \in h.blocks[b].anc
        BY <1>3, <2>1 DEF Chronicle, Ordered
    <2>3. QED BY <1>1, <1>3, <2>1, <2>2 DEF Live
<1>10. l # NoEra
    BY <1>5 DEF MayMove
<1>11. QED BY <1>1, <1>3, <1>5, <1>6, <1>7, <1>8, <1>9, <1>10 DEF g

\* The journal without the era.
LEMMA MarkedJournal ==
    ASSUME NEW j \in Journals, NEW era \in Eras
    PROVE  LET J == JournalWithout(j, era)
           IN  /\ J \in Journals /\ J[era] = <<>>
               /\ DOMAIN J[era] = {} /\ Len(J[era]) = 0
               /\ \A e \in Eras \ {era} : J[e] = j[e]
<1> DEFINE J == JournalWithout(j, era)
<1>1. J[era] = <<>> /\ \A e \in Eras \ {era} : J[e] = j[e]
    BY DEF JournalWithout, Journals
<1>2. J = [j EXCEPT ![era] = <<>>]
    BY DEF JournalWithout
<1>3. <<>> \in Seq(StoredRecord) /\ Len(<<>>) = 0 /\ DOMAIN <<>> = {}
    OBVIOUS
<1> HIDE DEF J
<1>4. J \in Journals
    BY <1>2, <1>3 DEF Journals
<1>5. QED BY <1>1, <1>3, <1>4 DEF J

\* It starts at the next era.
LEMMA MarkedSpans ==
    ASSUME NEW nodes, NEW h, NEW l, NEW b, MayMove(nodes, h, l, b),
           NEW j \in Journals, Spans(h, j, l)
    PROVE  Spans(Marked(h, b), JournalWithout(j, h.blocks[b].era), l)
<1> DEFINE g == Marked(h, b)
           J == JournalWithout(j, h.blocks[b].era)
           era == h.blocks[b].era
           low == h.blocks[h.tip].era
<1>1. /\ g.tip = b /\ g.blocks = h.blocks /\ b \in DOMAIN h.blocks
      /\ era \in Eras /\ era \in Int /\ low \in Int /\ era = low + 1
      /\ \A e \in Eras : e \in Int
      /\ era <= l /\ (History > 0 => era < l) /\ l # NoEra
    BY MarkedLive
<1>2. /\ J[era] = <<>> /\ Len(J[era]) = 0
      /\ \A e \in Eras \ {era} : J[e] = j[e]
    <2>1. h.blocks[b].era \in Eras
        BY <1>1
    <2>2. QED BY <2>1, MarkedJournal
<1>3. Len(h.blocks) \in Nat /\ Len(h.blocks) > 0
    BY Shape DEF MayMove
<1>4. /\ l \in Eras /\ \A c \in DOMAIN h.blocks : h.blocks[c].era <= l
      /\ \A e \in Eras : j[e] # <<>> <=> l # NoEra /\ low < e /\ e <= l
      /\ \A e \in Eras : Len(j[e]) < Len(h.blocks)
    BY <1>1 DEF Spans
<1> HIDE DEF g, J, era, low
<1>5. ASSUME NEW e \in Eras
      PROVE  (J[e] # <<>> <=> l # NoEra /\ era < e /\ e <= l) /\ Len(J[e]) < Len(h.blocks)
    <2>1. CASE e = era
        BY <1>1, <1>2, <1>3, <2>1
    <2>2. CASE e # era
        <3>1. low < e <=> era < e
            <4>1. e \in Int /\ era \in Int /\ low \in Int /\ era = low + 1 /\ e # era
                BY <1>1, <2>2
            <4>2. QED BY <4>1
        <3>2. QED BY <1>2, <1>4, <2>2, <3>1
    <2>3. QED BY <2>1, <2>2
<1>6. era = g.blocks[g.tip].era
    BY <1>1 DEF era
<1>7. Spans(g, J, l)
    BY <1>1, <1>4, <1>5, <1>6 DEF Spans
<1>8. QED BY <1>7 DEF g, J

\* Its records are those it had, and so are the differences between the blocks
\* that are left.
LEMMA MarkedDifferences ==
    ASSUME NEW nodes, NEW h, NEW l, NEW b, MayMove(nodes, h, l, b),
           NEW j \in Journals, Records(h, j), Differences(h, j)
    PROVE  /\ Records(Marked(h, b), JournalWithout(j, h.blocks[b].era))
           /\ Differences(Marked(h, b), JournalWithout(j, h.blocks[b].era))
<1> DEFINE g == Marked(h, b)
           J == JournalWithout(j, h.blocks[b].era)
           era == h.blocks[b].era
<1>1. /\ g.tip = b /\ g.blocks = h.blocks /\ b \in DOMAIN h.blocks /\ Chronicle(nodes, g)
      /\ era \in Eras /\ era \in Int /\ \A e \in Eras : e \in Int
      /\ \A c : Live(g, c) => Live(h, c)
    BY MarkedLive
<1>2. DOMAIN J[era] = {} /\ \A e \in Eras \ {era} : J[e] = j[e]
    <2>1. h.blocks[b].era \in Eras
        BY <1>1
    <2>2. QED BY <2>1, MarkedJournal
<1> HIDE DEF g, J
<1>3. Records(g, J)
    <2>1. \A e \in Eras : \A i \in DOMAIN J[e] : i \in DOMAIN j[e] /\ J[e][i] = j[e][i]
        BY <1>2
    <2>2. QED BY <1>1, <2>1 DEF Records
<1>4. ASSUME NEW c \in DOMAIN g.blocks, NEW a \in g.blocks[c].anc, Live(g, c), Live(g, a)
      PROVE  /\ \A k \in g.blocks[c].state \ g.blocks[a].state :
                   \E e, i : Between(g, J, a, c, e, i) /\ k \in J[e][i].ins
             /\ \A k \in g.blocks[a].state \ g.blocks[c].state :
                   \E e, i : Between(g, J, a, c, e, i) /\ k \in J[e][i].del
    <2>1. era <= h.blocks[a].era /\ h.blocks[a].era \in Int
        <3>1. era <= h.blocks[a].era /\ h.blocks[a].era \in -1 .. MaxEra
            BY <1>1, <1>4, AboveTip
        <3>2. MaxEra \in Nat
            BY BoundAssumption
        <3>3. QED BY <3>1, <3>2
    <2>2. ASSUME NEW e, NEW i, Between(h, j, a, c, e, i)
          PROVE  Between(g, J, a, c, e, i) /\ J[e][i] = j[e][i]
        <3>1. e \in Eras /\ h.blocks[a].era < e
            BY <2>2 DEF Between
        <3>2. e # era
            BY <1>1, <2>1, <3>1
        <3>3. QED BY <1>1, <1>2, <2>2, <3>1, <3>2 DEF Between
    <2>3. /\ \A k \in h.blocks[c].state \ h.blocks[a].state :
                 \E e, i : Between(h, j, a, c, e, i) /\ k \in j[e][i].ins
          /\ \A k \in h.blocks[a].state \ h.blocks[c].state :
                 \E e, i : Between(h, j, a, c, e, i) /\ k \in j[e][i].del
        BY <1>1, <1>4 DEF Differences
    <2>4. QED BY <1>1, <2>2, <2>3
<1>5. Differences(g, J)
    BY <1>4 DEF Differences
<1>6. QED BY <1>3, <1>5 DEF g, J

\* The canonical records, what they insert, and what of what they remove is
\* not inserted any more.
Canon(h, j, b) == {i \in DOMAIN j[h.blocks[b].era] : j[h.blocks[b].era][i].id = b}
Entering(h, j, b) == UNION {j[h.blocks[b].era][i].ins : i \in Canon(h, j, b)}
Dropped(h, j, b) == UNION {j[h.blocks[b].era][i].del : i \in Canon(h, j, b)}
Leaving(h, j, b) ==
    {k \in Dropped(h, j, b) : Refs(JournalWithout(j, h.blocks[b].era), Short[k]) = {}}

\* They turn the state of the old tip into that of the new one.
LEMMA CanonDifference ==
    ASSUME NEW nodes, NEW h, NEW l, NEW b, MayMove(nodes, h, l, b),
           NEW j \in Journals, Records(h, j), Differences(h, j)
    PROVE  /\ Entering(h, j, b) \subseteq h.blocks[b].state
           /\ Dropped(h, j, b) \intersect h.blocks[b].state = {}
           /\ h.blocks[b].state \ h.blocks[h.tip].state \subseteq Entering(h, j, b)
           /\ h.blocks[h.tip].state \ h.blocks[b].state \subseteq Dropped(h, j, b)
           /\ Entering(h, j, b) \subseteq Keys /\ Dropped(h, j, b) \subseteq Keys
           /\ \A k \in Entering(h, j, b) : Refs(j, Short[k]) # {} \/ Len(j[h.blocks[b].era]) > MaxBlocks
<1> DEFINE era == h.blocks[b].era
           low == h.blocks[h.tip].era
           recs == j[era]
           canon == Canon(h, j, b)
<1>1. /\ b \in DOMAIN h.blocks /\ h.tip \in h.blocks[b].anc /\ h.tip \in DOMAIN h.blocks
      /\ era \in Eras /\ era \in Int /\ low \in Int /\ era = low + 1 /\ Live(h, h.tip)
      /\ \A e \in Eras : e \in Int
      /\ Live(h, b) /\ Chronicle(nodes, h)
    BY MarkedLive DEF MayMove
<1>2. recs \in Seq(StoredRecord)
    BY <1>1 DEF Journals
<1>3. \A i \in DOMAIN recs : recs[i] \in StoredRecord
    BY <1>2
<1>4. \A i \in canon : i \in DOMAIN recs /\ recs[i].id = b /\ recs[i] \in StoredRecord
    BY SMTT(30), <1>3 DEF Canon
<1>5. \A i \in canon : recs[i].ins \subseteq h.blocks[b].state
                       /\ recs[i].del \intersect h.blocks[b].state = {}
    BY <1>1, <1>4 DEF Records
<1>6. ASSUME NEW e, NEW i, Between(h, j, h.tip, b, e, i)
      PROVE  e = era /\ i \in canon
    <2>1. e \in Eras /\ i \in DOMAIN j[e] /\ low < e /\ j[e][i].id \in h.blocks[b].anc
        BY <1>6 DEF Between
    <2>2. h.blocks[j[e][i].id].era = e
        BY <2>1 DEF Records
    <2>3. j[e][i].id = b \/ h.blocks[j[e][i].id].era < era
        BY <1>1, <2>1 DEF Chronicle, Ordered
    <2>4. j[e][i].id = b
        BY <1>1, <2>1, <2>2, <2>3
    <2>5. QED BY <2>1, <2>2, <2>4 DEF Canon
<1>7. /\ \A k \in h.blocks[b].state \ h.blocks[h.tip].state :
             \E e, i : Between(h, j, h.tip, b, e, i) /\ k \in j[e][i].ins
      /\ \A k \in h.blocks[h.tip].state \ h.blocks[b].state :
             \E e, i : Between(h, j, h.tip, b, e, i) /\ k \in j[e][i].del
    BY <1>1 DEF Differences
<1>8. \A k \in Entering(h, j, b) : \E i \in canon : k \in recs[i].ins
    BY DEF Entering
<1>9. ASSUME NEW k \in Entering(h, j, b)
      PROVE  k \in Keys /\ (Refs(j, Short[k]) # {} \/ Len(recs) > MaxBlocks)
    <2>1. PICK i \in canon : k \in recs[i].ins
        BY <1>8
    <2>2. k \in Keys /\ i \in DOMAIN recs
        BY <1>4, <2>1 DEF StoredRecord
    <2>3. MaxBlocks \in Nat
        BY BoundAssumption
    <2>4. Len(recs) <= MaxBlocks => i \in 1 .. MaxBlocks /\ i <= Len(recs)
        BY <1>2, <2>2, <2>3
    <2>5. Len(recs) <= MaxBlocks => <<era, i, k>> \in Refs(j, Short[k])
        BY <1>1, <2>1, <2>2, <2>4 DEF Refs
    <2>6. Len(recs) <= MaxBlocks \/ Len(recs) > MaxBlocks
        BY <1>2, <2>3
    <2>7. QED BY <2>2, <2>5, <2>6
<1>10. Dropped(h, j, b) \subseteq Keys
    BY <1>4 DEF Dropped, StoredRecord
<1>11. Entering(h, j, b) \subseteq h.blocks[b].state
       /\ Dropped(h, j, b) \intersect h.blocks[b].state = {}
    BY <1>5 DEF Entering, Dropped
<1>12. h.blocks[b].state \ h.blocks[h.tip].state \subseteq Entering(h, j, b)
    BY <1>6, <1>7 DEF Entering
<1>13. h.blocks[h.tip].state \ h.blocks[b].state \subseteq Dropped(h, j, b)
    BY <1>6, <1>7 DEF Dropped
<1>14. QED BY <1>9, <1>10, <1>11, <1>12, <1>13

\* What the batch of mark_canonical does to a database.
Moved(h, j, b, db, db2) ==
    LET era == h.blocks[b].era
    IN  /\ \A i \in DOMAIN j[era] : db2[<<era, i - 1>>] = Absent
        /\ \A k \in Entering(h, j, b) : db2[k] = Short[k]
        /\ \A k \in Leaving(h, j, b) : db2[k] = Absent
        /\ \A k \in DbKeys :
              /\ k \notin Entering(h, j, b) \union Leaving(h, j, b)
              /\ \A i \in DOMAIN j[era] : k # <<era, i - 1>>
              => db2[k] = db[k]

\* The keys of records are no keys of nodes.
LEMMA DistinctKeys ==
    /\ \A e \in Eras, i \in 0 .. MaxBlocks :
          <<e, i>> \in DbKeys /\ <<e, i>> \notin Keys /\ <<e, i>> # Latest
    /\ \A k \in Keys : k \in DbKeys /\ k # Latest /\ \A e \in Eras, i \in 0 .. MaxBlocks : k # <<e, i>>
    /\ Latest \in DbKeys /\ Latest \notin Keys
<1>1. \A e \in Eras, i \in 0 .. MaxBlocks : <<e, i>> \in RecordKeys
    BY DEF RecordKeys
<1>2. QED BY <1>1, MarkerAssumption DEF DbKeys

\* The database then has the shorter journal.
LEMMA MarkedStored ==
    ASSUME NEW nodes, NEW h, NEW l, NEW b, MayMove(nodes, h, l, b),
           NEW j \in Journals, Spans(h, j, l), Records(h, j), Differences(h, j),
           NEW db, NEW db2, Stored(j, l, db), Moved(h, j, b, db, db2)
    PROVE  Stored(JournalWithout(j, h.blocks[b].era), l, db2)
<1> DEFINE era == h.blocks[b].era
           J == JournalWithout(j, era)
<1>1. era \in Eras
    BY MarkedLive
<1>2. J[era] = <<>> /\ Len(J[era]) = 0 /\ \A e \in Eras \ {era} : J[e] = j[e]
    BY <1>1, MarkedJournal
<1>3. Entering(h, j, b) \union Leaving(h, j, b) \subseteq Keys
    BY CanonDifference DEF Leaving
<1>4. MaxBlocks \in Nat /\ Len(j[era]) \in Nat /\ DOMAIN j[era] = 1 .. Len(j[era])
      /\ Len(j[era]) <= MaxBlocks
    <2>1. j[era] \in Seq(StoredRecord)
        BY <1>1 DEF Journals
    <2>2. Len(j[era]) < Len(h.blocks)
        BY <1>1 DEF Spans
    <2>3. Len(h.blocks) \in 1 .. (MaxBlocks + 1) /\ MaxBlocks \in Nat
        BY Shape DEF MayMove
    <2>4. QED BY <2>1, <2>2, <2>3
<1>5. \A k \in DbKeys :
          k \notin Keys /\ (\A i \in DOMAIN j[era] : k # <<era, i - 1>>) => db2[k] = db[k]
    BY <1>3 DEF Moved
<1>6. \A i \in DOMAIN j[era] : db2[<<era, i - 1>>] = Absent
    BY DEF Moved
<1> HIDE DEF era, J
<1>7. \A i \in DOMAIN j[era] : i - 1 \in 0 .. MaxBlocks
    BY <1>4
<1>8. db2[Latest] = db[Latest]
    BY <1>1, <1>5, <1>7, DistinctKeys
<1>9. ASSUME NEW e \in Eras, NEW i \in 0 .. MaxBlocks
      PROVE  db2[<<e, i>>] = IF i < Len(J[e]) THEN J[e][i + 1] ELSE Absent
    <2>1. db[<<e, i>>] = IF i < Len(j[e]) THEN j[e][i + 1] ELSE Absent
        BY DEF Stored
    <2>2. CASE e # era
        <3>1. \A m \in DOMAIN j[era] : <<e, i>> # <<era, m - 1>>
            BY <2>2
        <3>2. db2[<<e, i>>] = db[<<e, i>>]
            BY <1>5, <3>1, DistinctKeys
        <3>3. QED BY <1>2, <2>1, <2>2, <3>2
    <2>3. CASE e = era /\ i < Len(j[era])
        <3>1. i + 1 \in DOMAIN j[era] /\ (i + 1) - 1 = i
            BY <1>4, <2>3
        <3>2. db2[<<era, i>>] = Absent
            BY <1>6, <3>1
        <3>3. ~ (i < 0)
            OBVIOUS
        <3>4. QED BY <1>2, <2>3, <3>2, <3>3
    <2>4. CASE e = era /\ ~ (i < Len(j[era]))
        <3>1. \A m \in DOMAIN j[era] : i # m - 1
            BY <1>4, <2>4
        <3>2. \A m \in DOMAIN j[era] : <<e, i>> # <<era, m - 1>>
            BY <3>1
        <3>3. db2[<<e, i>>] = db[<<e, i>>]
            BY <1>5, <3>2, DistinctKeys
        <3>4. ~ (i < 0)
            OBVIOUS
        <3>5. QED BY <1>2, <2>1, <2>4, <3>3, <3>4
    <2>5. QED BY <2>2, <2>3, <2>4
<1>10. Stored(J, l, db2)
    BY <1>8, <1>9 DEF Stored
<1>11. QED BY <1>10 DEF J, era

\* What happens to a node: it comes, it goes, or it stays.
LEMMA MovedNode ==
    ASSUME NEW nodes, NEW h, NEW l, NEW b, MayMove(nodes, h, l, b),
           NEW j \in Journals, Spans(h, j, l), Records(h, j), Differences(h, j),
           NEW db, NEW db2, Moved(h, j, b, db, db2), NEW k \in Keys
    PROVE  /\ k \in Entering(h, j, b) => db2[k] # Absent /\ k \in h.blocks[b].state
           /\ k \in Leaving(h, j, b) => db2[k] = Absent /\ k \in Dropped(h, j, b)
           /\ k \notin Entering(h, j, b) \union Leaving(h, j, b) => db2[k] = db[k]
<1>1. Short[k] # Absent
    <2>1. Short[k] \in ShortKeys
        BY KeyAssumption
    <2>2. QED BY <2>1, MarkerAssumption
<1>2. h.blocks[b].era \in Eras
    BY MarkedLive
<1>3. \A i \in DOMAIN j[h.blocks[b].era] : i - 1 \in 0 .. MaxBlocks
    <2>1. j[h.blocks[b].era] \in Seq(StoredRecord)
        BY <1>2 DEF Journals
    <2>2. Len(j[h.blocks[b].era]) < Len(h.blocks)
        BY <1>2 DEF Spans
    <2>3. Len(h.blocks) \in 1 .. (MaxBlocks + 1) /\ MaxBlocks \in Nat
        BY Shape DEF MayMove
    <2>4. QED BY SMTT(30), <2>1, <2>2, <2>3
<1>4. k \in DbKeys /\ \A i \in DOMAIN j[h.blocks[b].era] : k # <<h.blocks[b].era, i - 1>>
    BY <1>2, <1>3, DistinctKeys
<1>5. k \in Entering(h, j, b) => k \in h.blocks[b].state
    BY CanonDifference
<1>6. k \in Leaving(h, j, b) => k \in Dropped(h, j, b)
    BY DEF Leaving
<1>7. QED BY <1>1, <1>4, <1>5, <1>6 DEF Moved

\* No node is left behind that nobody needs, as long as there are no forks.
LEMMA MarkedTidy ==
    ASSUME NEW nodes, NEW h, NEW l, NEW b, MayMove(nodes, h, l, b),
           NEW j \in Journals, Spans(h, j, l), Records(h, j), Differences(h, j),
           NEW db, NEW db2, Moved(h, j, b, db, db2), Tidy(nodes, h, j, db)
    PROVE  Tidy(nodes, Marked(h, b), JournalWithout(j, h.blocks[b].era), db2)
<1> DEFINE era == h.blocks[b].era
           J == JournalWithout(j, era)
           g == Marked(h, b)
<1>1. /\ g.tip = b /\ g.blocks = h.blocks /\ b \in DOMAIN h.blocks /\ era \in Eras
      /\ h.tip \in DOMAIN h.blocks /\ Chronicle(nodes, h) /\ nodes \subseteq Keys
    <2>1. /\ g.tip = b /\ g.blocks = h.blocks /\ b \in DOMAIN h.blocks /\ era \in Eras
          /\ h.tip \in DOMAIN h.blocks
        BY MarkedLive
    <2>2. Chronicle(nodes, h) /\ nodes \subseteq Keys
        BY DEF MayMove
    <2>3. QED BY <2>1, <2>2
<1>2. \A e \in Eras \ {era} : J[e] = j[e]
    BY <1>1, MarkedJournal
<1>3. \A e \in Eras : \A i \in DOMAIN j[e] : j[e][i].ins \subseteq nodes
    <2>1. SUFFICES ASSUME NEW e \in Eras, NEW i \in DOMAIN j[e]
                   PROVE  j[e][i].ins \subseteq nodes
        OBVIOUS
    <2>2. j[e][i].id \in DOMAIN h.blocks /\ j[e][i].ins \subseteq h.blocks[j[e][i].id].state
        BY DEF Records
    <2>3. QED BY <1>1, <2>2 DEF Chronicle
<1>4. SUFFICES ASSUME Unforked(nodes, g), NEW k \in Keys, db2[k] # Absent
               PROVE  \/ k \in h.blocks[b].state
                      \/ \E e \in Eras : \E i \in DOMAIN J[e] : k \in J[e][i].ins
    BY <1>1 DEF Tidy
<1>5. Unforked(nodes, h)
    BY <1>1, <1>4 DEF Unforked
<1>6. CASE k \in Entering(h, j, b)
    BY <1>6, MovedNode
<1>7. CASE k \notin Entering(h, j, b)
    <2>1. k \notin Leaving(h, j, b) /\ db[k] # Absent
        BY <1>4, <1>7, MovedNode
    <2>2. CASE k \in h.blocks[h.tip].state
        <3>1. CASE k \in h.blocks[b].state
            BY <3>1
        <3>2. CASE k \notin h.blocks[b].state
            <4>1. k \in Dropped(h, j, b)
                BY <2>2, <3>2, CanonDifference
            <4>2. Refs(J, Short[k]) # {}
                BY <2>1, <4>1 DEF Leaving
            <4>3. PICK e \in Eras, i \in 1 .. MaxBlocks, m \in Keys :
                      i <= Len(J[e]) /\ m \in J[e][i].ins /\ Short[m] = Short[k]
                BY <4>2 DEF Refs
            <4>4. J \in Journals
                BY <1>1, MarkedJournal
            <4>5. i \in DOMAIN J[e]
                <5>1. J[e] \in Seq(StoredRecord) /\ MaxBlocks \in Nat
                    BY <4>4, BoundAssumption DEF Journals
                <5>2. QED BY <4>3, <5>1
            <4>6. DOMAIN J[era] = {}
                BY <1>1, MarkedJournal
            <4>7. J[e] = j[e]
                BY <1>2, <4>5, <4>6
            <4>8. m \in nodes /\ k \in nodes
                BY <1>1, <1>3, <2>2, <4>3, <4>5, <4>7 DEF Chronicle
            <4>9. m = k
                BY <1>4, <4>3, <4>8 DEF Unforked
            <4>10. QED BY <4>3, <4>5, <4>9
        <3>3. QED BY <3>1, <3>2
    <2>3. CASE k \notin h.blocks[h.tip].state
        <3>1. PICK e, i : e \in Eras /\ i \in DOMAIN j[e] /\ k \in j[e][i].ins
            BY <1>5, <2>1, <2>3 DEF Tidy
        <3>2. CASE e = era
            <4>1. j[e][i].id \in DOMAIN h.blocks /\ h.blocks[j[e][i].id].era = era
                BY <3>1, <3>2 DEF Records
            <4>2. j[e][i].id = b
                BY <1>1, <1>5, <4>1 DEF Unforked
            <4>3. k \in Entering(h, j, b)
                BY <3>1, <3>2, <4>2 DEF Entering, Canon
            <4>4. QED BY <1>7, <4>3
        <3>3. CASE e # era
            BY <1>2, <3>1, <3>3
        <3>4. QED BY <3>2, <3>3
    <2>4. QED BY <2>2, <2>3
<1>8. QED BY <1>6, <1>7

\* A history that fits a database still does when a block is canonical, and
\* the nodes that leave the database are in no block that is alive.
LEMMA FitsMarked ==
    ASSUME NEW nodes, NEW h, NEW l, NEW b, MayMove(nodes, h, l, b),
           NEW j \in Journals, NEW db, NEW db2, Fits(nodes, h, j, l, db),
           Moved(h, j, b, db, db2)
    PROVE  /\ Fits(nodes, Marked(h, b), JournalWithout(j, h.blocks[b].era), l, db2)
           /\ \A k \in Leaving(h, j, b) : \A c :
                 Live(Marked(h, b), c) => k \notin h.blocks[c].state
<1> DEFINE era == h.blocks[b].era
           J == JournalWithout(j, era)
           g == Marked(h, b)
<1>1. /\ Chronicle(nodes, h) /\ Spans(h, j, l) /\ Records(h, j) /\ Differences(h, j)
      /\ OnDisk(h, j, l, db) /\ Tidy(nodes, h, j, db)
    BY DEF Fits
<1>2. Stored(j, l, db) /\ \A k \in h.blocks[h.tip].state : db[k] # Absent
    BY <1>1 DEF OnDisk
<1>3. Chronicle(nodes, g) /\ g.tip = b /\ g.blocks = h.blocks
      /\ h.blocks[b].state \subseteq Keys /\ era \in Eras
    BY <1>1, MarkedLive, Shape
<1>4. Spans(g, J, l) /\ Records(g, J) /\ Differences(g, J) /\ Tidy(nodes, g, J, db2)
      /\ Stored(J, l, db2)
    BY <1>1, <1>2, MarkedSpans, MarkedDifferences, MarkedTidy, MarkedStored
<1>5. ASSUME NEW k \in h.blocks[b].state PROVE db2[k] # Absent
    <2>1. k \in Keys /\ k \notin Leaving(h, j, b)
        BY <1>1, <1>3, CanonDifference DEF Leaving
    <2>2. k \in Entering(h, j, b) \/ k \in h.blocks[h.tip].state
        BY <1>1, CanonDifference
    <2>3. QED BY <1>1, <1>2, <2>1, <2>2, MovedNode
<1>6. Fits(nodes, g, J, l, db2)
    BY <1>3, <1>4, <1>5 DEF Fits, OnDisk
<1>7. ASSUME NEW k \in Leaving(h, j, b), NEW c, Live(g, c)
      PROVE  k \notin h.blocks[c].state
    <2>1. k \in Dropped(h, j, b) /\ Refs(J, Short[k]) = {}
        BY DEF Leaving
    <2>2. k \notin h.blocks[b].state
        BY <1>1, <2>1, CanonDifference
    <2>3. J \in Journals
        BY <1>3, MarkedJournal
    <2>4. l \in Eras
        BY DEF MayMove
    <2>5. \A e \in Eras : Len(J[e]) <= MaxBlocks
        <3> HIDE DEF J, g
        <3>1. QED BY <1>6, <2>3, <2>4, FitsReads
    <2>6. k \in g.blocks[c].state => k \in g.blocks[g.tip].state \/ Refs(J, Short[k]) # {}
        BY <1>3, <1>4, <1>7, <2>3, <2>5, LiveNodes
    <2>7. QED BY <1>3, <2>1, <2>2, <2>6
<1>8. QED BY <1>6, <1>7

-------------------------------------------------------------------------------
(* inject: a history of one block.                                         *)

Single(S) == [tip |-> 1, blocks |-> <<[Root EXCEPT !.state = S]>>]

\* It is a history, with the state given.
LEMMA SingleShape ==
    ASSUME NEW nodes, NEW S, S \subseteq nodes, nodes \subseteq Keys
    PROVE  /\ Chronicle(nodes, Single(S)) /\ Live(Single(S), 1)
           /\ Single(S).tip = 1 /\ DOMAIN Single(S).blocks = {1} /\ Len(Single(S).blocks) = 1
           /\ Single(S).blocks[1].era = -1 /\ Single(S).blocks[1].state = S
           /\ Single(S).blocks[1].anc = {1}
<1> DEFINE only == [Root EXCEPT !.state = S]
           g == Single(S)
<1>1. only = [era |-> -1, anc |-> {1}, state |-> S]
    BY DEF Root
<1>2. MaxEra \in Nat /\ MaxBlocks \in Nat
    BY BoundAssumption
<1>3. only \in Block
    <2>1. -1 \in -1 .. MaxEra /\ {1} \in SUBSET Nat /\ S \in SUBSET Keys
        BY <1>2
    <2>2. QED BY <1>1, <2>1 DEF Block
<1>4. only.era = -1 /\ only.anc = {1} /\ only.state = S
    BY <1>1
<1>5. g = [tip |-> 1, blocks |-> <<only>>]
    BY DEF Single
<1> HIDE DEF only, g
<1>6. g.tip = 1 /\ g.blocks = <<only>>
    BY <1>5
<1>7. /\ g.blocks \in Seq(Block) /\ Len(g.blocks) = 1 /\ DOMAIN g.blocks = {1}
      /\ g.blocks[1] = only
    BY <1>3, <1>6
<1>8. g \in Histories
    BY <1>5, <1>6, <1>7 DEF Histories
<1>9. Ordered(g)
    BY <1>4, <1>7 DEF Ordered
<1>10. Chronicle(nodes, g)
    BY <1>2, <1>4, <1>6, <1>7, <1>8, <1>9 DEF Chronicle
<1>11. Live(g, 1)
    BY <1>4, <1>6, <1>7 DEF Live
<1>12. QED BY <1>4, <1>6, <1>7, <1>10, <1>11 DEF g

\* Without a latest era there is one block, and no record.
LEMMA NoJournal ==
    ASSUME NEW nodes, NEW h, Chronicle(nodes, h), NEW j \in Journals, Spans(h, j, NoEra)
    PROVE  /\ DOMAIN h.blocks = {1} /\ Len(h.blocks) = 1 /\ h.tip = 1
           /\ h.blocks[1].era = -1 /\ j = EmptyJournal /\ \A e \in Eras : j[e] = <<>>
<1>1. Len(h.blocks) = 1 /\ h.blocks[1].era = -1
    BY DEF Spans
<1>2. DOMAIN h.blocks = 1 .. Len(h.blocks) /\ h.tip \in DOMAIN h.blocks
    BY Shape
<1>3. \A e \in Eras : j[e] = <<>>
    BY DEF Spans
<1>4. j = EmptyJournal
    BY <1>3 DEF EmptyJournal, Journals
<1>5. QED BY <1>1, <1>2, <1>3, <1>4

\* What the batch of inject does to a database.
Injected(old, S, db, db2) ==
    /\ \A k \in S \ old : db2[k] = Short[k]
    /\ \A k \in old \ S : db2[k] = Absent
    /\ \A k \in DbKeys : k \notin (S \ old) \union (old \ S) => db2[k] = db[k]

\* The state injected fits the database then.
LEMMA FitsInjected ==
    ASSUME NEW nodes, nodes \subseteq Keys, NEW h, NEW j \in Journals,
           NEW db, NEW db2, Fits(nodes, h, j, NoEra, db),
           NEW S, S \subseteq nodes, Injected(h.blocks[1].state, S, db, db2)
    PROVE  Fits(nodes, Single(S), j, NoEra, db2)
<1> DEFINE g == Single(S)
           old == h.blocks[1].state
<1>1. /\ Chronicle(nodes, h) /\ Spans(h, j, NoEra) /\ Stored(j, NoEra, db)
      /\ \A k \in h.blocks[h.tip].state : db[k] # Absent
      /\ Tidy(nodes, h, j, db)
    BY DEF Fits, OnDisk
<1>2. /\ DOMAIN h.blocks = {1} /\ h.tip = 1
      /\ \A e \in Eras : j[e] = <<>>
    BY <1>1, NoJournal
<1>3. old \subseteq nodes
    BY <1>1, <1>2 DEF Chronicle
<1>4. /\ Chronicle(nodes, g) /\ g.tip = 1 /\ DOMAIN g.blocks = {1} /\ Len(g.blocks) = 1
      /\ g.blocks[1].era = -1 /\ g.blocks[1].state = S /\ g.blocks[1].anc = {1}
    BY SingleShape
<1> HIDE DEF g
<1>5. Spans(g, j, NoEra)
    <2>1. \A e \in Eras : Len(j[e]) < 1
        BY <1>2
    <2>2. QED BY <1>2, <1>4, <2>1 DEF Spans
<1>6. Records(g, j)
    BY <1>2 DEF Records
<1>7. Differences(g, j)
    BY <1>4 DEF Differences
<1>8. /\ \A k \in S \ old : db2[k] = Short[k]
      /\ \A k \in old \ S : db2[k] = Absent
      /\ \A k \in DbKeys : k \notin Keys \/ (k \in S <=> k \in old) => db2[k] = db[k]
    BY <1>3 DEF Injected
<1>9. Stored(j, NoEra, db2)
    <2>1. db2[Latest] = db[Latest]
        BY <1>8, DistinctKeys
    <2>2. \A e \in Eras, i \in 0 .. MaxBlocks : db2[<<e, i>>] = db[<<e, i>>]
        BY <1>8, DistinctKeys
    <2>3. QED BY <1>1, <2>1, <2>2 DEF Stored
<1>10. ASSUME NEW k \in S PROVE db2[k] # Absent
    <2>1. k \in Keys /\ k \in DbKeys
        BY DistinctKeys
    <2>2. Short[k] # Absent
        BY <2>1, KeyAssumption, MarkerAssumption
    <2>3. CASE k \in old
        BY <1>1, <1>2, <1>8, <2>1, <2>3
    <2>4. CASE k \notin old
        BY <1>8, <2>2, <2>4
    <2>5. QED BY <2>3, <2>4
<1>11. OnDisk(g, j, NoEra, db2)
    BY <1>4, <1>9, <1>10 DEF OnDisk
<1>12. Tidy(nodes, g, j, db2)
    <2>1. SUFFICES ASSUME Unforked(nodes, g), NEW k \in Keys, db2[k] # Absent, k \notin S
                   PROVE  FALSE
        BY <1>4 DEF Tidy
    <2>2. Unforked(nodes, h)
        BY <1>2, <2>1 DEF Unforked
    <2>3. k \notin old /\ db[k] # Absent
        BY <1>8, <2>1, DistinctKeys
    <2>4. QED BY <1>1, <1>2, <2>2, <2>3 DEF Tidy
<1>13. QED BY <1>4, <1>5, <1>6, <1>7, <1>11, <1>12 DEF Fits, g

-------------------------------------------------------------------------------
(* What the batches do to what is visible.                                 *)

\* The operations are of the kind the store takes, and what they make visible.
LEMMA Operations ==
    /\ Op \subseteq [key : DbKeys, val : Cell \ {Unbuffered}]
    /\ Seq(Op) \subseteq Seq([key : DbKeys, val : Cell \ {Unbuffered}])
    /\ Outcome(Deleted) = Absent
    /\ \A v \in ShortKeys \union Eras \union StoredRecord : Outcome(v) = v /\ v # Deleted /\ v # Absent
<1>1. /\ Deleted # Unbuffered
      /\ \A v \in ShortKeys \union Eras \union StoredRecord : v # Deleted /\ v # Absent /\ v # Unbuffered
    BY MarkerAssumption
<1>2. Op \subseteq [key : DbKeys, val : Cell \ {Unbuffered}]
    BY <1>1 DEF Op, Cell
<1>3. \A A, B : A \subseteq B => Seq(A) \subseteq Seq(B)
    OBVIOUS
<1>4. Seq(Op) \subseteq Seq([key : DbKeys, val : Cell \ {Unbuffered}])
    BY <1>2, <1>3
<1>5. QED BY <1>1, <1>2, <1>4 DEF Outcome

\* A sequence of them is a batch.
LEMMA Batches ==
    ASSUME NEW ops \in Seq(Op)
    PROVE  IsBatch(ops, Cell)
<1>1. \A s \in Seq(Op) : Len(s) \in Nat /\ DOMAIN s = 1 .. Len(s) /\ \A i \in DOMAIN s : s[i] \in Op
    OBVIOUS
<1>2. \A o \in Op : o.val \in Cell /\ o.val # Unbuffered
    BY Operations
<1>3. QED BY <1>1, <1>2 DEF IsBatch

\* A batch that goes on: RecordedJoin for the operations of this module.
LEMMA Visible ==
    ASSUME NEW st \in Stores(DbKeys, Cell), NEW a \in Seq(Op), NEW b \in Seq(Op), NEW k \in DbKeys
    PROVE  /\ (\A i \in DOMAIN b : b[i].key # k) =>
                  View(Recorded(st, a \o b))[k] = View(Recorded(st, a))[k]
           /\ \A v : (\E i \in DOMAIN b : b[i].key = k)
                     /\ (\A i \in DOMAIN b : b[i].key = k => b[i].val = v) =>
                  View(Recorded(st, a \o b))[k] = Outcome(v)
<1>1. /\ a \in Seq([key : DbKeys, val : Cell \ {Unbuffered}])
      /\ b \in Seq([key : DbKeys, val : Cell \ {Unbuffered}])
    BY Operations
<1>2. QED BY <1>1, RecordedJoin

\* A batch without operations.
LEMMA NothingRecorded ==
    ASSUME NEW st \in Stores(DbKeys, Cell)
    PROVE  /\ Recorded(st, <<>>) = st
           /\ \A a \in Seq(Op) : <<>> \o a = a
<1>1. /\ st \in [buf : [DbKeys -> Cell], disk : [DbKeys -> Cell]]
      /\ DOMAIN st.disk = DbKeys
    BY DEF Stores
<1> DEFINE buf == [k \in DbKeys |-> LET on == {i \in DOMAIN <<>> : <<>>[i].key = k}
                                   IN  IF on = {} THEN st.buf[k] ELSE <<>>[Max(on)].val]
<1>2. Recorded(st, <<>>) = [st EXCEPT !.buf = buf]
    BY <1>1 DEF Recorded
<1>3. buf = [k \in DbKeys |-> st.buf[k]]
    OBVIOUS
<1>4. buf = st.buf
    BY <1>1, <1>3
<1> HIDE DEF buf
<1>5. Recorded(st, <<>>) = st
    BY <1>1, <1>2, <1>4
<1>6. QED BY <1>5

\* The batch of journal_under.
JournalOps(h, j, l, p, S) ==
    LET now == h.blocks[p].era + 1
    IN  <<[key |-> <<now, Len(j[now])>>, val |-> NewRecord(h, p, S)]>> \o
        (IF l = NoEra \/ now > l THEN <<[key |-> Latest, val |-> now]>> ELSE <<>>)

\* It writes the record, and the latest era when that is a new one.
LEMMA AppliedJournal ==
    ASSUME NEW nodes, NEW h, NEW p, NEW S, MayGrow(nodes, h, p, S),
           NEW j \in Journals, NEW l \in Eras \union {NoEra}, Spans(h, j, l),
           NEW st \in Stores(DbKeys, Cell), View(st)[Latest] = IF l = NoEra THEN Absent ELSE l
    PROVE  LET ops == JournalOps(h, j, l, p, S)
           IN  /\ ops \in Seq(Op) /\ ops # <<>>
               /\ \A i \in DOMAIN ops : ops[i].key \notin Keys
               /\ Journalled(h, j, l, p, S, View(st), View(Recorded(st, ops)))
<1> DEFINE now == h.blocks[p].era + 1
           r == NewRecord(h, p, S)
           x == [key |-> <<now, Len(j[now])>>, val |-> r]
           y == [key |-> Latest, val |-> now]
           a == <<x>>
           none == <<>>
           newest == l = NoEra \/ now > l
           b == IF newest THEN <<y>> ELSE <<>>
           ops == JournalOps(h, j, l, p, S)
           L == LatestWith(h, l, p)
<1>1. /\ now \in Eras /\ r \in StoredRecord /\ Len(j[now]) + 1 \in 1 .. MaxBlocks
      /\ L \in Eras
    BY GrownJournal
<1>2. Len(j[now]) \in 0 .. MaxBlocks
    <2>1. j[now] \in Seq(StoredRecord) /\ MaxBlocks \in Nat
        BY <1>1, BoundAssumption DEF Journals
    <2>2. Len(j[now]) \in Nat
        BY <2>1
    <2>3. QED BY <1>1, <2>1, <2>2
<1>3. ops = a \o b
    BY DEF JournalOps
<1>4. x.key = <<now, Len(j[now])>> /\ x.val = r /\ y.key = Latest /\ y.val = now
    OBVIOUS
<1>5. x \in Op /\ y \in Op
    BY <1>1, <1>2, DistinctKeys DEF Op
<1>6. L = IF newest THEN now ELSE l
    BY DEF LatestWith
<1> HIDE DEF x, y, r, ops, L
<1>7. a \in Seq(Op) /\ b \in Seq(Op) /\ none \in Seq(Op)
    BY <1>5
<1>7a. none \o a = a /\ Recorded(st, none) = st
    <2> HIDE DEF a, b
    <2>1. QED BY <1>7, NothingRecorded
<1>8. /\ DOMAIN a = {1} /\ a[1] = x
      /\ newest => DOMAIN b = {1} /\ b[1] = y
      /\ ~ newest => DOMAIN b = {}
    OBVIOUS
<1> HIDE DEF newest, a, b, none, now
<1>9. x.key \in DbKeys /\ x.key \notin Keys /\ x.key # Latest /\ Latest \in DbKeys /\ Latest \notin Keys
    BY <1>1, <1>2, <1>4, DistinctKeys
<1>10. ops \in Seq(Op) /\ ops # <<>>
    <2>1. a \o b \in Seq(Op) /\ (1 \in DOMAIN a => 1 \in DOMAIN (a \o b))
        BY <1>7, Joined
    <2>2. QED BY <1>3, <1>8, <2>1
<1>11. \A i \in DOMAIN ops : ops[i].key \notin Keys
    <2>1. SUFFICES ASSUME NEW i \in DOMAIN (a \o b) PROVE (a \o b)[i].key \notin Keys
        BY <1>3
    <2>2. \/ i \in DOMAIN a /\ (a \o b)[i] = a[i]
          \/ \E m \in DOMAIN b : (a \o b)[i] = b[m]
        BY <1>7, Joined
    <2>3. CASE newest
        BY <1>4, <1>8, <1>9, <2>2, <2>3
    <2>4. CASE ~ newest
        BY <1>4, <1>8, <1>9, <2>2, <2>4
    <2>5. QED BY <2>3, <2>4
<1> DEFINE db == View(st)
           db1 == View(Recorded(st, a))
           db2 == View(Recorded(st, ops))
<1>12. \A k \in DbKeys : db1[k] = IF k = x.key THEN r ELSE db[k]
    <2>1. SUFFICES ASSUME NEW k \in DbKeys PROVE db1[k] = IF k = x.key THEN r ELSE db[k]
        OBVIOUS
    <2>3. CASE k = x.key
        <3>1. View(Recorded(st, none \o a))[k] = Outcome(r)
            BY <1>4, <1>7, <1>8, <2>3, Visible
        <3>2. Outcome(r) = r
            BY <1>1, Operations
        <3>3. QED BY <1>7a, <2>3, <3>1, <3>2
    <2>4. CASE k # x.key
        <3>0. \A i \in DOMAIN a : a[i].key # k
            BY <1>8, <2>4
        <3>1. View(Recorded(st, none \o a))[k] = View(Recorded(st, none))[k]
            BY <1>7, <3>0, Visible
        <3>2. QED BY <1>7a, <2>4, <3>1
    <2>5. QED BY <2>3, <2>4
<1>13. \A k \in DbKeys : db2[k] = IF newest /\ k = Latest THEN now ELSE db1[k]
    <2>1. SUFFICES ASSUME NEW k \in DbKeys
                   PROVE  View(Recorded(st, a \o b))[k] =
                              IF newest /\ k = Latest THEN now ELSE View(Recorded(st, a))[k]
        BY <1>3
    <2>2. CASE newest /\ k = Latest
        <3>1. View(Recorded(st, a \o b))[k] = Outcome(now)
            BY <1>4, <1>7, <1>8, <2>2, Visible
        <3>2. Outcome(now) = now
            BY <1>1, Operations
        <3>3. QED BY <2>2, <3>1, <3>2
    <2>3. CASE ~ (newest /\ k = Latest)
        <3>1. \A i \in DOMAIN b : b[i].key # k
            BY <1>4, <1>8, <2>3
        <3>2. View(Recorded(st, a \o b))[k] = View(Recorded(st, a))[k]
            BY <1>7, <3>1, Visible
        <3>3. QED BY <2>3, <3>2
    <2>4. QED BY <2>2, <2>3
<1> HIDE DEF db, db1, db2
<1>14. db2[x.key] = r /\ (\A k \in DbKeys \ {Latest, x.key} : db2[k] = db[k])
    BY <1>9, <1>12, <1>13
<1>15. db2[Latest] = L
    <2>1. db1[Latest] = db[Latest]
        BY <1>9, <1>12
    <2>2. ~ newest => db[Latest] = l
        BY DEF db, newest
    <2>3. QED BY <1>6, <1>9, <1>13, <2>1, <2>2
<1>16. Journalled(h, j, l, p, S, db, db2)
    BY <1>4, <1>14, <1>15 DEF Journalled, now, r, L
<1>17. QED BY <1>10, <1>11, <1>16 DEF ops, db, db2

\* Puts and Deletes, as operations of this module.
LEMMA AppliedPuts ==
    ASSUME NEW S \in SUBSET Keys, NEW st \in Stores(DbKeys, Cell), NEW a \in Seq(Op)
    PROVE  /\ a \o Puts(S) \in Seq(Op) /\ a \o Deletes(S) \in Seq(Op)
           /\ Puts(S) \in Seq(Op) /\ Deletes(S) \in Seq(Op)
           /\ \A k \in DbKeys :
                 /\ View(Recorded(st, a \o Puts(S)))[k] =
                        IF k \in S THEN Short[k] ELSE View(Recorded(st, a))[k]
                 /\ View(Recorded(st, a \o Deletes(S)))[k] =
                        IF k \in S THEN Absent ELSE View(Recorded(st, a))[k]
<1> DEFINE V == ShortKeys \union Eras \union StoredRecord \union {Deleted}
<1>1. /\ Puts(S) \in Seq(Op) /\ Deletes(S) \in Seq(Op)
      /\ \A i \in DOMAIN Puts(S) : Puts(S)[i].key \in S /\ Puts(S)[i].val = Short[Puts(S)[i].key]
      /\ \A i \in DOMAIN Deletes(S) : Deletes(S)[i].key \in S /\ Deletes(S)[i].val = Deleted
      /\ \A k \in S : \E i \in DOMAIN Puts(S) : Puts(S)[i].key = k
      /\ \A k \in S : \E i \in DOMAIN Deletes(S) : Deletes(S)[i].key = k
    <2>1. Deleted \in V /\ ShortKeys \subseteq V /\ Op = [key : DbKeys, val : V]
        BY DEF Op
    <2> HIDE DEF V
    <2>2. QED BY <2>1, NodeOps
<1>2. a \o Puts(S) \in Seq(Op) /\ a \o Deletes(S) \in Seq(Op)
    BY <1>1, Joined
<1>3. ASSUME NEW k \in DbKeys
      PROVE  /\ View(Recorded(st, a \o Puts(S)))[k] =
                    IF k \in S THEN Short[k] ELSE View(Recorded(st, a))[k]
             /\ View(Recorded(st, a \o Deletes(S)))[k] =
                    IF k \in S THEN Absent ELSE View(Recorded(st, a))[k]
    <2>1. CASE k \in S
        <3>1. View(Recorded(st, a \o Puts(S)))[k] = Outcome(Short[k])
            BY <1>1, <2>1, Visible
        <3>2. View(Recorded(st, a \o Deletes(S)))[k] = Outcome(Deleted)
            BY SMTT(30), <1>1, <2>1, Visible
        <3>3. Short[k] \in ShortKeys
            BY <2>1, KeyAssumption
        <3>4. QED BY <2>1, <3>1, <3>2, <3>3, Operations
    <2>2. CASE k \notin S
        BY <1>1, <2>2, Visible
    <2>3. QED BY <2>1, <2>2
<1>4. QED BY <1>1, <1>2, <1>3

\* The batch of inject.
LEMMA AppliedInject ==
    ASSUME NEW old \in SUBSET Keys, NEW S \in SUBSET Keys, NEW st \in Stores(DbKeys, Cell)
    PROVE  LET ops == Puts(S \ old) \o Deletes(old \ S)
           IN  /\ ops \in Seq(Op)
               /\ \A i \in DOMAIN ops : ops[i].val = Deleted => ops[i].key \in old \ S
               /\ Injected(old, S, View(st), View(Recorded(st, ops)))
<1> DEFINE a == Puts(S \ old)
           b == Deletes(old \ S)
           none == <<>>
           new == S \ old
           gone == old \ S
<1>0. new \in SUBSET Keys /\ gone \in SUBSET Keys /\ a = Puts(new) /\ b = Deletes(gone)
    OBVIOUS
<1>1. /\ none \in Seq(Op) /\ none \o a = a /\ Recorded(st, none) = st
      /\ a \in Seq(Op) /\ b \in Seq(Op) /\ a \o b \in Seq(Op)
    <2>1. none \in Seq(Op)
        OBVIOUS
    <2>2. Recorded(st, none) = st /\ \A s \in Seq(Op) : none \o s = s
        BY NothingRecorded
    <2> HIDE DEF a, b, none, new, gone
    <2>3. a \in Seq(Op) /\ b \in Seq(Op)
        BY <1>0, <2>1, AppliedPuts
    <2>4. a \o b \in Seq(Op)
        BY <1>0, <2>3, AppliedPuts
    <2>5. QED BY <2>1, <2>2, <2>3, <2>4
<1> HIDE DEF a, b, none
<1>2. \A k \in DbKeys : View(Recorded(st, a \o b))[k] =
                            IF k \in gone THEN Absent ELSE View(Recorded(st, a))[k]
    <2> HIDE DEF new, gone
    <2>1. QED BY <1>0, <1>1, AppliedPuts
<1>3. \A k \in DbKeys : View(Recorded(st, a))[k] =
                            IF k \in new THEN Short[k] ELSE View(st)[k]
    <2> HIDE DEF new, gone
    <2>1. \A k \in DbKeys : View(Recorded(st, none \o Puts(new)))[k] =
                            IF k \in new THEN Short[k] ELSE View(Recorded(st, none))[k]
        <3>1. none \in Seq(Op) /\ new \in SUBSET Keys
            BY <1>0, <1>1
        <3>2. QED BY <3>1, AppliedPuts
    <2>2. QED BY <1>0, <1>1, <2>1
<1>4. /\ \A i \in DOMAIN a : a[i].key \in Keys /\ a[i].val = Short[a[i].key]
      /\ \A i \in DOMAIN b : b[i].key \in gone
    <2> DEFINE V == ShortKeys \union {Deleted}
    <2>1. Deleted \in V /\ ShortKeys \subseteq V
        OBVIOUS
    <2> HIDE DEF V, new, gone
    <2>2. /\ \A i \in DOMAIN Puts(new) : Puts(new)[i].key \in new
                                          /\ Puts(new)[i].val = Short[Puts(new)[i].key]
          /\ \A i \in DOMAIN Deletes(gone) : Deletes(gone)[i].key \in gone
        BY <1>0, <2>1, NodeOps
    <2>3. QED BY <1>0, <2>2
<1>5. \A k \in Keys : Short[k] # Deleted /\ k \in DbKeys
    BY KeyAssumption, Operations, DistinctKeys
<1>6. ASSUME NEW i \in DOMAIN (a \o b), (a \o b)[i].val = Deleted
      PROVE  (a \o b)[i].key \in gone
    <2>1. \/ i \in DOMAIN a /\ (a \o b)[i] = a[i]
          \/ \E m \in DOMAIN b : (a \o b)[i] = b[m]
        BY <1>1, Joined
    <2>2. QED BY <1>4, <1>5, <1>6, <2>1
<1>7. Injected(old, S, View(st), View(Recorded(st, a \o b)))
    BY <1>2, <1>3, <1>5 DEF Injected
<1>8. QED BY <1>1, <1>6, <1>7 DEF a, b

\* The records of an era that are deleted.
Erasures(recs, era) == [i \in DOMAIN recs |-> [key |-> <<era, i - 1>>, val |-> Deleted]]

\* They delete the records of the era, and nothing else.
LEMMA AppliedErasures ==
    ASSUME NEW j \in Journals, NEW era \in Eras, Len(j[era]) <= MaxBlocks,
           NEW st \in Stores(DbKeys, Cell), NEW a \in Seq(Op)
    PROVE  LET e == Erasures(j[era], era)
           IN  /\ e \in Seq(Op) /\ a \o e \in Seq(Op)
               /\ \A i \in DOMAIN e : e[i].key \notin Keys
               /\ \A i \in DOMAIN j[era] : View(Recorded(st, a \o e))[<<era, i - 1>>] = Absent
               /\ \A k \in DbKeys : (\A i \in DOMAIN j[era] : k # <<era, i - 1>>) =>
                      View(Recorded(st, a \o e))[k] = View(Recorded(st, a))[k]
<1> DEFINE e == Erasures(j[era], era)
           n == Len(j[era])
<1>1. n \in Nat /\ DOMAIN j[era] = 1 .. n /\ \A i \in 1 .. n : i - 1 \in 0 .. MaxBlocks
    <2>1. j[era] \in Seq(StoredRecord) /\ MaxBlocks \in Nat
        BY BoundAssumption DEF Journals
    <2>2. QED BY <2>1
<1>2. \A i \in 1 .. n : <<era, i - 1>> \in DbKeys /\ <<era, i - 1>> \notin Keys
    BY <1>1, DistinctKeys
<1>3. e = [i \in 1 .. n |-> [key |-> <<era, i - 1>>, val |-> Deleted]]
    BY <1>1 DEF Erasures
<1>4. \A i \in 1 .. n : [key |-> <<era, i - 1>>, val |-> Deleted] \in Op
    BY <1>2 DEF Op
<1> HIDE DEF e, n
<1>5. e \in Seq(Op) /\ DOMAIN e = 1 .. n
      /\ \A i \in 1 .. n : e[i].key = <<era, i - 1>> /\ e[i].val = Deleted
    BY <1>1, <1>3, <1>4
<1>6. a \o e \in Seq(Op)
    BY <1>5, Joined
<1>7. ASSUME NEW i \in 1 .. n
      PROVE  View(Recorded(st, a \o e))[<<era, i - 1>>] = Absent
    <2>1. PICK k \in DbKeys : k = <<era, i - 1>>
        BY <1>2
    <2>2. e \in Seq(Op) /\ i \in DOMAIN e /\ e[i].key = k /\ \A m \in DOMAIN e : e[m].val = Deleted
        BY <1>5, <2>1
    <2>3. \E m \in DOMAIN e : e[m].key = k
        BY <2>2
    <2>4. \A m \in DOMAIN e : e[m].key = k => e[m].val = Deleted
        BY <2>2
    <2>5. e \in Seq(Op)
        BY <2>2
    <2>6. View(Recorded(st, a \o e))[k] = Outcome(Deleted)
        BY <2>3, <2>4, <2>5, Visible
    <2>7. QED BY <2>1, <2>6, Operations
<1>8. ASSUME NEW k \in DbKeys, \A i \in 1 .. n : k # <<era, i - 1>>
      PROVE  View(Recorded(st, a \o e))[k] = View(Recorded(st, a))[k]
    <2>1. \A m \in DOMAIN e : e[m].key # k
        BY <1>5, <1>8
    <2>2. QED BY <1>5, <2>1, Visible
<1>9. \A i \in DOMAIN e : e[i].key \notin Keys
    BY <1>2, <1>5
<1>10. QED BY <1>1, <1>5, <1>6, <1>7, <1>8, <1>9 DEF e

\* What is in a batch that goes on was in one of its parts.
LEMMA Drawn ==
    ASSUME NEW s \in Seq(Op), NEW t \in Seq(Op), NEW u, u = s \o t, NEW i \in DOMAIN u
    PROVE  (\E x \in DOMAIN s : u[i] = s[x]) \/ (\E x \in DOMAIN t : u[i] = t[x])
BY SMTT(30), Joined

\* The batch of mark_canonical, after the operations a.
MarkOps(h, j, b, a) ==
    a \o Erasures(j[h.blocks[b].era], h.blocks[b].era)
      \o Puts(Entering(h, j, b)) \o Deletes(Leaving(h, j, b))

\* It moves the database on, and deletes no nodes but those that leave.
LEMMA AppliedMark ==
    ASSUME NEW nodes, NEW h, NEW l, NEW b, MayMove(nodes, h, l, b),
           NEW j \in Journals, Spans(h, j, l), Records(h, j), Differences(h, j),
           NEW st \in Stores(DbKeys, Cell), NEW a \in Seq(Op)
    PROVE  LET ops == MarkOps(h, j, b, a)
           IN  /\ ops \in Seq(Op)
               /\ Moved(h, j, b, View(Recorded(st, a)), View(Recorded(st, ops)))
               /\ \A i \in DOMAIN ops : ops[i].key \in Keys /\ ops[i].val = Deleted =>
                      \/ ops[i].key \in Leaving(h, j, b)
                      \/ \E m \in DOMAIN a : a[m] = ops[i]
<1> DEFINE era == h.blocks[b].era
           e == Erasures(j[era], era)
           ins == Entering(h, j, b)
           del == Leaving(h, j, b)
           p == Puts(ins)
           d == Deletes(del)
           ops == a \o e \o p \o d
           db == View(Recorded(st, a))
           db1 == View(Recorded(st, a \o e))
           db2 == View(Recorded(st, a \o e \o p))
           db3 == View(Recorded(st, ops))
<1>1. era \in Eras
    BY MarkedLive
<1>2. Len(j[era]) <= MaxBlocks
    <2>1. j[era] \in Seq(StoredRecord)
        BY <1>1 DEF Journals
    <2>2. Len(j[era]) < Len(h.blocks)
        BY <1>1 DEF Spans
    <2>3. Len(h.blocks) \in 1 .. (MaxBlocks + 1) /\ MaxBlocks \in Nat
        BY Shape DEF MayMove
    <2>4. QED BY <2>1, <2>2, <2>3
<1>3. ins \in SUBSET Keys /\ del \in SUBSET Keys /\ ins \intersect del = {}
    BY CanonDifference DEF Leaving
<1>4. \A i \in DOMAIN j[era] : <<era, i - 1>> \in DbKeys /\ <<era, i - 1>> \notin Keys
    <2>1. j[era] \in Seq(StoredRecord) /\ MaxBlocks \in Nat
        BY <1>1, BoundAssumption DEF Journals
    <2>2. \A i \in DOMAIN j[era] : i - 1 \in 0 .. MaxBlocks
        BY SMTT(30), <1>2, <2>1
    <2>3. QED BY <1>1, <2>2, DistinctKeys
<1> HIDE DEF era, ins, del
<1>5. /\ e \in Seq(Op) /\ a \o e \in Seq(Op)
      /\ \A i \in DOMAIN e : e[i].key \notin Keys
      /\ \A i \in DOMAIN j[era] : db1[<<era, i - 1>>] = Absent
      /\ \A k \in DbKeys : (\A i \in DOMAIN j[era] : k # <<era, i - 1>>) => db1[k] = db[k]
    BY <1>1, <1>2, AppliedErasures
<1>6. /\ p \in Seq(Op) /\ a \o e \o p \in Seq(Op)
      /\ \A k \in DbKeys : db2[k] = IF k \in ins THEN Short[k] ELSE db1[k]
    <2> DEFINE q == a \o e
    <2>1. q \in Seq(Op)
        BY <1>5
    <2> HIDE DEF q
    <2>2. /\ p \in Seq(Op) /\ q \o p \in Seq(Op)
          /\ \A k \in DbKeys : View(Recorded(st, q \o p))[k] =
                                   IF k \in ins THEN Short[k] ELSE View(Recorded(st, q))[k]
        BY <1>3, <2>1, AppliedPuts
    <2>3. QED BY <2>2 DEF q
<1>7. /\ d \in Seq(Op) /\ ops \in Seq(Op)
      /\ \A k \in DbKeys : db3[k] = IF k \in del THEN Absent ELSE db2[k]
    <2> DEFINE q == a \o e \o p
    <2>1. q \in Seq(Op)
        BY <1>6
    <2> HIDE DEF q
    <2>2. /\ d \in Seq(Op) /\ q \o d \in Seq(Op)
          /\ \A k \in DbKeys : View(Recorded(st, q \o d))[k] =
                                   IF k \in del THEN Absent ELSE View(Recorded(st, q))[k]
        BY <1>3, <2>1, AppliedPuts
    <2>3. QED BY <2>2 DEF q
<1>8. /\ \A i \in DOMAIN p : p[i].val # Deleted
      /\ \A i \in DOMAIN d : d[i].key \in del
    <2> DEFINE V == ShortKeys \union {Deleted}
    <2>1. Deleted \in V /\ ShortKeys \subseteq V
        OBVIOUS
    <2> HIDE DEF V
    <2>2. /\ \A i \in DOMAIN p : p[i].key \in ins /\ p[i].val = Short[p[i].key]
          /\ \A i \in DOMAIN d : d[i].key \in del
        BY <1>3, <2>1, NodeOps
    <2>3. \A k \in Keys : Short[k] # Deleted
        BY KeyAssumption, Operations
    <2> HIDE DEF p, d
    <2>4. QED BY <1>3, <2>2, <2>3
<1> HIDE DEF e, p, d
<1>9. ASSUME NEW i \in DOMAIN ops, ops[i].key \in Keys, ops[i].val = Deleted
      PROVE  ops[i].key \in del \/ \E m \in DOMAIN a : a[m] = ops[i]
    <2> DEFINE q == a \o e
               q2 == q \o p
    <2>1. a \in Seq(Op) /\ e \in Seq(Op) /\ p \in Seq(Op) /\ d \in Seq(Op)
          /\ q \in Seq(Op) /\ q2 \in Seq(Op) /\ ops = q2 \o d /\ q2 = q \o p /\ q = a \o e
        BY <1>5, <1>6, <1>7
    <2> HIDE DEF q, q2, ops
    <2>2. ASSUME NEW m \in DOMAIN q
          PROVE  (\E x \in DOMAIN a : q[m] = a[x]) \/ (\E x \in DOMAIN e : q[m] = e[x])
        <3>1. a \in Seq(Op) /\ e \in Seq(Op) /\ q = a \o e
            BY <2>1
        <3>2. m \in DOMAIN (a \o e)
            BY <2>2, <3>1
        <3>3. \/ m \in DOMAIN a /\ (a \o e)[m] = a[m]
              \/ \E x \in DOMAIN e : (a \o e)[m] = e[x]
            BY <3>1, <3>2, Joined
        <3>4. QED BY <3>1, <3>3
    <2>3. ASSUME NEW m \in DOMAIN q2
          PROVE  (\E x \in DOMAIN q : q2[m] = q[x]) \/ (\E x \in DOMAIN p : q2[m] = p[x])
        <3>1. q \in Seq(Op) /\ p \in Seq(Op) /\ q2 = q \o p
            BY <2>1
        <3>2. m \in DOMAIN (q \o p)
            BY <2>3, <3>1
        <3>3. \/ m \in DOMAIN q /\ (q \o p)[m] = q[m]
              \/ \E x \in DOMAIN p : (q \o p)[m] = p[x]
            BY <3>1, <3>2, Joined
        <3>4. QED BY <3>1, <3>3
    <2>4. (\E x \in DOMAIN q2 : ops[i] = q2[x]) \/ (\E x \in DOMAIN d : ops[i] = d[x])
        BY <1>9, <2>1, Drawn
    <2>5. \/ \E x \in DOMAIN a : ops[i] = a[x]
          \/ \E x \in DOMAIN e : ops[i] = e[x]
          \/ \E x \in DOMAIN p : ops[i] = p[x]
          \/ \E x \in DOMAIN d : ops[i] = d[x]
        BY <2>2, <2>3, <2>4
    <2>6. QED BY <1>5, <1>8, <1>9, <2>5
<1> HIDE DEF ops, db, db1, db2, db3
<1>10. Moved(h, j, b, db, db3)
    <2>1. \A i \in DOMAIN j[era] : db3[<<era, i - 1>>] = Absent
        BY <1>3, <1>4, <1>5, <1>6, <1>7
    <2>2. \A k \in Keys : k \in DbKeys
        BY DistinctKeys
    <2>3. \A k \in ins : db3[k] = Short[k]
        BY <1>3, <1>6, <1>7, <2>2
    <2>4. \A k \in del : db3[k] = Absent
        BY <1>3, <1>7, <2>2
    <2>5. \A k \in DbKeys : k \notin ins \union del /\ (\A i \in DOMAIN j[era] : k # <<era, i - 1>>)
                            => db3[k] = db[k]
        BY <1>5, <1>6, <1>7
    <2>6. QED BY <2>1, <2>3, <2>4, <2>5 DEF Moved, era, ins, del
<1>11. QED BY <1>7, <1>9, <1>10 DEF MarkOps, ops, db, db3, e, p, d, era, ins, del

-------------------------------------------------------------------------------
(* The invariant, state by state.                                          *)

\* What is known of the writer and the bounds.
LEMMA Settings ==
    ASSUME writer \in Writers
    PROVE  /\ writer.keys \subseteq Keys /\ writer.max_era \in 0 .. MaxEra
           /\ writer.max_blocks \in 0 .. MaxBlocks /\ writer.lazy \in BOOLEAN
           /\ MaxEra \in Nat /\ MaxBlocks \in Nat /\ History \in Nat
           /\ NoEra \notin Eras /\ \A e \in Eras : e \in Int
<1>1. MaxEra \in Nat /\ MaxBlocks \in Nat /\ History \in Nat
    BY BoundAssumption
<1>2. NoEra \notin Eras /\ \A e \in Eras : e \in Int
    BY <1>1, MarkerAssumption DEF Eras
<1>3. writer \in [lazy : BOOLEAN, wal : BOOLEAN, keys : SUBSET Keys,
                  max_era : 0 .. MaxEra, max_blocks : 0 .. MaxBlocks]
    BY BoundAssumption
<1>4. QED BY <1>1, <1>2, <1>3

\* Between two batches what is visible fits the history.
LEMMA Resting ==
    ASSUME Typed, Images, pc \in {"idle", "exec", "written"}
    PROVE  /\ batch = <<>> /\ After = View(store) /\ Promised = Now /\ snap.written = Now
           /\ Fits(writer.keys, Now, journal, latest, View(store))
           /\ \A k \in blocks[tip].state : View(store)[k] # Absent
           /\ View(store)[Latest] = IF latest = NoEra THEN Absent ELSE latest
<1>1. batch = <<>> /\ snap.written = Now /\ Promised = Now
    BY DEF Images, Promised
<1>2. After = View(store)
    BY <1>1, NothingRecorded DEF After, Typed
<1>3. Fits(writer.keys, Now, journal, latest, View(store))
    BY <1>1, <1>2 DEF Images
<1>4. Now.blocks = blocks /\ Now.tip = tip
    BY DEF Now
<1>5. QED BY <1>1, <1>2, <1>3, <1>4 DEF Fits, OnDisk, Stored

\* The journal at any moment.
LEMMA Journalling ==
    ASSUME Typed, Counted, Images
    PROVE  /\ Chronicle(writer.keys, Now) /\ Now.blocks = blocks /\ Now.tip = tip
           /\ tip \in DOMAIN blocks /\ DOMAIN blocks = 1 .. Len(blocks) /\ 1 \in DOMAIN blocks
           /\ Spans(Now, journal, latest) /\ Differences(Now, journal) /\ Records(Now, journal)
           /\ \A e \in Eras : Len(journal[e]) <= MaxBlocks
           /\ latest = NoEra => DOMAIN blocks = {1} /\ tip = 1 /\ blocks[1].era = -1
                                /\ journal = EmptyJournal
<1>1. Chronicle(writer.keys, Now) /\ Now.blocks = blocks /\ Now.tip = tip
    BY DEF Images, Now
<1>2. tip \in DOMAIN blocks /\ DOMAIN blocks = 1 .. Len(blocks) /\ 1 \in DOMAIN blocks
    <2>1. Len(blocks) \in 1 .. (MaxBlocks + 1)
        BY <1>1, Shape
    <2>2. QED BY <1>1, <2>1, Shape
<1>3. journal \in Journals /\ latest \in Eras \union {NoEra}
    BY DEF Typed
<1>4. /\ Chronicle(writer.keys, Promised) /\ Spans(Promised, journal, latest)
      /\ Differences(Promised, journal) /\ Records(Promised, journal)
    BY DEF Images, Fits
<1>5. \A e \in Eras : Len(journal[e]) <= MaxBlocks
    BY <1>3, FitsReads DEF Images
<1>6. CASE Promised = Now
    <2>1. Spans(Now, journal, latest) /\ Differences(Now, journal) /\ Records(Now, journal)
        BY <1>4, <1>6
    <2>2. latest = NoEra => /\ DOMAIN blocks = {1} /\ tip = 1 /\ blocks[1].era = -1
                            /\ journal = EmptyJournal
        BY <1>1, <1>3, <2>1, NoJournal
    <2>3. QED BY <1>1, <1>2, <1>5, <2>1, <2>2
<1>7. CASE Promised # Now
    <2>1. pc = "marked" /\ latest = NoEra
        BY <1>7 DEF Promised
    <2>2. \A e \in Eras : journal[e] = <<>>
        BY <1>3, <1>4, <2>1, NoJournal
    <2>3. journal = EmptyJournal
        BY <1>3, <1>4, <2>1, NoJournal
    <2>4. Len(blocks) = 1 /\ blocks[1].era = -1
        BY <2>1 DEF Counted
    <2>5. DOMAIN blocks = {1} /\ tip = 1
        BY <1>2, <2>4
    <2>6. Spans(Now, journal, latest)
        <3>1. \A e \in Eras : Len(journal[e]) < 1
            BY <2>2
        <3>2. QED BY <1>1, <2>1, <2>2, <2>4, <3>1 DEF Spans
    <2>7. Records(Now, journal)
        BY <2>2 DEF Records
    <2>8. Differences(Now, journal)
        <3>1. \A a \in blocks[1].anc : a = 1
            BY <1>1, <2>5 DEF Chronicle, Ordered
        <3>2. QED BY <1>1, <2>5, <3>1 DEF Differences
    <2>9. QED BY <1>1, <1>2, <1>5, <2>3, <2>4, <2>5, <2>6, <2>7, <2>8
<1>8. QED BY <1>6, <1>7

\* A node of a live block is in the overlay or in the canonical state.
LEMMA Alive ==
    ASSUME Typed, Counted, Images, NEW b, Live(Now, b), NEW k \in blocks[b].state
    PROVE  /\ k \in Keys /\ Short[k] \in ShortKeys /\ b \in DOMAIN blocks
           /\ k \in blocks[tip].state \/ Refs(journal, Short[k]) # {}
           /\ RawGet(ovl[Short[k]]) = IF Refs(journal, Short[k]) = {} THEN NoEntry ELSE Short[k]
           /\ Short[k] # NoEntry /\ Short[k] # NoValue /\ NoEntry # NoValue
<1>1. /\ Chronicle(writer.keys, Now) /\ Now.blocks = blocks /\ Now.tip = tip
      /\ Differences(Now, journal) /\ \A e \in Eras : Len(journal[e]) <= MaxBlocks
    BY Journalling
<1>2. journal \in Journals
    BY DEF Typed
<1>3. k \in Keys /\ (k \in blocks[tip].state \/ Refs(journal, Short[k]) # {})
    BY <1>1, <1>2, LiveNodes
<1>4. Short[k] \in ShortKeys
    BY <1>3, KeyAssumption
<1>5. RawGet(ovl[Short[k]]) = IF Refs(journal, Short[k]) = {} THEN NoEntry ELSE Short[k]
    BY <1>4, OverlayEntry DEF Counted
<1>6. b \in DOMAIN blocks
    BY <1>1 DEF Live
<1>7. QED BY <1>3, <1>4, <1>5, <1>6, MarkerAssumption

-------------------------------------------------------------------------------
(* What the invariant implies.                                             *)

\* The types.
LEMMA InvTypeOK ==
    ASSUME IInv PROVE TypeOK
<1>0. Typed /\ Counted /\ Images
    BY DEF IInv
<1>1. /\ txo \in [Keys -> Slot(ShortKeys)] /\ pending \subseteq ShortKeys
      /\ earliest \in (0 .. (MaxEra + 1)) \union {NoEra}
      /\ pc \in {"idle", "exec", "journalled", "marked", "writing", "written"}
      /\ journal \in [Eras -> Seq(StoredRecord)]
    BY <1>0 DEF Typed, Journals
<1>2. ovl \in [ShortKeys -> Slot(ShortKeys)]
    <2>1. \A s \in ShortKeys : Overlay(journal)[s] \in Slot(ShortKeys)
        BY OverlayEntry
    <2>2. ovl = [s \in ShortKeys |-> ovl[s]]
        BY <1>0 DEF Counted, Overlay
    <2>3. QED BY <1>0, <2>1, <2>2 DEF Counted
<1>3. latest \in (0 .. (MaxEra + 1)) \union {NoEra}
    <2>1. MaxEra \in Nat
        BY BoundAssumption
    <2>2. QED BY <1>0, <2>1 DEF Typed, Eras
<1>4. csize \in Nat
    <2>1. {s \in ShortKeys : Contains(ovl[s])} \in SUBSET ShortKeys
        OBVIOUS
    <2>2. \A A \in SUBSET ShortKeys : SumOf(A) \in Nat
        <3>1. \A A \in SUBSET ShortKeys : A \intersect {} = {} /\ {} \in SUBSET ShortKeys
            OBVIOUS
        <3>2. QED BY <3>1, SumOfUnion
    <2>3. QED BY <1>0, <2>1, <2>2 DEF Counted
<1>5. DOMAIN store.disk = DbKeys /\ DOMAIN store.buf = DbKeys
    BY <1>0 DEF Typed, Stores
<1>6. \A i \in DOMAIN batch : batch[i].key \in DbKeys
    <2>1. \A q \in Seq(Op) : \A i \in DOMAIN q : q[i] \in Op
        OBVIOUS
    <2>2. QED BY <1>0, <2>1 DEF Typed, Op
<1>7. work.parent \in DOMAIN blocks /\ work.state \subseteq Keys
    BY <1>0, Settings DEF Typed
<1>8. tip \in DOMAIN blocks
    BY <1>0, Journalling
<1>9. reader = NoRead \/ reader.key \in Keys
    BY <1>0 DEF Typed
<1>10. QED BY <1>1, <1>2, <1>3, <1>4, <1>5, <1>6, <1>7, <1>8, <1>9 DEF TypeOK

\* get: a node of a live block is in the overlay, or pending, or visible.
LEMMA InvNoLiveNodeLost ==
    ASSUME IInv PROVE NoLiveNodeLost
<1>0. Typed /\ Counted /\ Images /\ Readables
    BY DEF IInv
<1>1. SUFFICES ASSUME NEW b \in DOMAIN blocks, Live(Now, b), NEW k \in blocks[b].state
               PROVE  Readable(k)
    BY DEF NoLiveNodeLost
<1>2. /\ k \in blocks[tip].state \/ Refs(journal, Short[k]) # {}
      /\ RawGet(ovl[Short[k]]) = IF Refs(journal, Short[k]) = {} THEN NoEntry ELSE Short[k]
      /\ Short[k] # NoEntry /\ Short[k] # NoValue /\ NoEntry # NoValue
    BY <1>0, <1>1, Alive
<1>3. k \in blocks[tip].state => Short[k] \in pending \/ View(store)[k] # Absent
    BY <1>0 DEF Readables
<1>4. QED BY <1>2, <1>3 DEF Readable, InMemory

\* state() and a get that is interrupted.
LEMMA InvReadersNeverMiss ==
    ASSUME IInv PROVE ReadersNeverMiss
<1>0. Typed /\ Counted /\ Images /\ Readables /\ Settled
    BY DEF IInv
<1>1. ReaderNeverMisses
    BY <1>0 DEF Readables
<1>2. ASSUME ~writer.lazy, latest # NoEra, NEW b \in DOMAIN blocks, Live(Now, b),
             NEW k \in blocks[b].state
      PROVE  StateReadable(k)
    <2>1. /\ k \in Keys /\ (k \in blocks[tip].state \/ Refs(journal, Short[k]) # {})
          /\ RawGet(ovl[Short[k]]) = IF Refs(journal, Short[k]) = {} THEN NoEntry ELSE Short[k]
          /\ Short[k] # NoEntry
        BY <1>0, <1>2, Alive
    <2>2. k \in blocks[tip].state => Short[k] \in pending \/ store.disk[k] # Absent
        BY <1>0, <1>2 DEF Settled
    <2>3. QED BY <2>1, <2>2 DEF StateReadable, InMemory
<1>3. StateNeverMisses
    BY <1>2 DEF StateNeverMisses
<1>4. QED BY <1>1, <1>3 DEF ReadersNeverMiss

\* What read_overlay finds is the overlay of the journal it finds.
LEMMA ImageReads ==
    ASSUME NEW nodes, NEW h, NEW db, Image(nodes, h, db)
    PROVE  LET found == ReadOverlay(db)
           IN  /\ found.journal \in Journals /\ found.latest \in Eras \union {NoEra}
               /\ Fits(nodes, h, found.journal, found.latest, db)
               /\ found.ovl = Overlay(found.journal)
               /\ found.csize = SumOf({s \in ShortKeys : Contains(found.ovl[s])})
               /\ found.earliest = IF JournalledEras(found.journal) = {} THEN NoEra
                                   ELSE Min(JournalledEras(found.journal))
<1> DEFINE found == ReadOverlay(db)
           j == found.journal
           l == found.latest
<1>1. j \in Journals /\ l \in Eras \union {NoEra} /\ Fits(nodes, h, j, l, db)
    BY DEF Image
<1> HIDE DEF j, l
<1>2. ReadOverlay(db) =
        [ovl |-> Overlay(j), journal |-> j, latest |-> l,
         earliest |-> IF JournalledEras(j) = {} THEN NoEra ELSE Min(JournalledEras(j)),
         csize |-> SumOf({s \in ShortKeys : Contains(Overlay(j)[s])})]
    BY <1>1, FitsReads
<1>3. /\ found.ovl = Overlay(j)
      /\ found.csize = SumOf({s \in ShortKeys : Contains(Overlay(j)[s])})
      /\ found.earliest = IF JournalledEras(j) = {} THEN NoEra ELSE Min(JournalledEras(j))
    BY <1>2
<1>4. found.journal = j /\ found.latest = l
    BY DEF j, l
<1> HIDE DEF found
<1>5. found.csize = SumOf({s \in ShortKeys : Contains(found.ovl[s])})
    BY <1>3
<1>6. QED BY <1>1, <1>3, <1>4, <1>5 DEF found

\* What a crash leaves is the image of a history.
LEMMA StableImage ==
    ASSUME IInv
    PROVE  /\ Image(writer.keys, Stable.hist, Stable.disk)
           /\ Stable.hist \in Histories /\ Stable.disk \in [DbKeys -> Cell]
           /\ Stable.hist = IF writer.wal THEN snap.durable ELSE snap.stable.hist
<1>1. /\ store \in Stores(DbKeys, Cell) /\ snap \in Snapshots
      /\ Image(writer.keys, snap.durable, store.disk)
      /\ Image(writer.keys, snap.stable.hist, snap.stable.disk)
    BY DEF IInv, Typed, Images
<1>2. store.disk \in [DbKeys -> Cell]
    BY <1>1 DEF Stores
<1>3. snap.durable \in Histories /\ snap.stable.hist \in Histories
      /\ snap.stable.disk \in [DbKeys -> Cell]
    BY <1>1 DEF Snapshots
<1>4. CASE writer.wal
    <2>1. Stable.hist = snap.durable /\ Stable.disk = store.disk
        BY <1>4 DEF Stable, Given
    <2>2. QED BY <1>1, <1>2, <1>3, <1>4, <2>1
<1>5. CASE ~writer.wal
    <2>1. Stable.hist = snap.stable.hist /\ Stable.disk = snap.stable.disk
        BY <1>5 DEF Stable
    <2>2. QED BY <1>1, <1>3, <1>5, <2>1
<1>6. QED BY <1>4, <1>5

\* Its live blocks can be read from it.
LEMMA InvCrashSafe ==
    ASSUME IInv PROVE CrashSafe
<1> DEFINE h == Stable.hist
           db == Stable.disk
           found == ReadOverlay(db)
           j == found.journal
<1>0. Image(writer.keys, h, db)
    BY StableImage
<1>1. /\ j \in Journals /\ found.latest \in Eras \union {NoEra}
      /\ Fits(writer.keys, h, j, found.latest, db) /\ found.ovl = Overlay(j)
    <2> HIDE DEF h, db
    <2>1. QED BY ZenonT(30), <1>0, ImageReads
<1>2. SUFFICES ASSUME NEW b \in DOMAIN h.blocks, Live(h, b), NEW k \in h.blocks[b].state
               PROVE  RawGet(found.ovl[Short[k]]) = Short[k] \/ db[k] # Absent
    BY StableImage DEF CrashSafe, Survives
<1> HIDE DEF h, found, j, db
<1>3. /\ Chronicle(writer.keys, h) /\ Differences(h, j)
      /\ \A m \in h.blocks[h.tip].state : db[m] # Absent
    BY <1>1 DEF Fits, OnDisk
<1>4. \A e \in Eras : Len(j[e]) <= MaxBlocks
    BY <1>1, FitsReads
<1>5. k \in Keys /\ (k \in h.blocks[h.tip].state \/ Refs(j, Short[k]) # {})
    BY <1>1, <1>2, <1>3, <1>4, LiveNodes
<1>6. Short[k] \in ShortKeys
    BY <1>5, KeyAssumption
<1>7. Refs(j, Short[k]) # {} => RawGet(found.ovl[Short[k]]) = Short[k]
    <2>1. RawGet(Overlay(j)[Short[k]]) = IF Refs(j, Short[k]) = {} THEN NoEntry ELSE Short[k]
        BY <1>6, OverlayEntry
    <2>2. QED BY <1>1, <2>1
<1>8. QED BY <1>3, <1>5, <1>7

\* What is visible between two batches is the image of what is in memory.
LEMMA InvCanReconstructRefs ==
    ASSUME IInv PROVE CanReconstructRefs
<1>0. Typed /\ Counted /\ Images
    BY DEF IInv
<1>1. SUFFICES ASSUME pc \in {"idle", "exec"}
               PROVE  LET found == ReadOverlay(View(store))
                      IN  /\ found.ovl = ovl /\ found.journal = journal
                          /\ found.latest = latest /\ found.csize = csize
    BY DEF CanReconstructRefs
<1>2. Fits(writer.keys, Now, journal, latest, View(store))
    BY <1>0, <1>1, Resting
<1>3. journal \in Journals /\ latest \in Eras \union {NoEra}
    BY <1>0 DEF Typed
<1>4. ReadOverlay(View(store)) =
        [ovl |-> Overlay(journal), journal |-> journal, latest |-> latest,
         earliest |-> IF JournalledEras(journal) = {} THEN NoEra ELSE Min(JournalledEras(journal)),
         csize |-> SumOf({s \in ShortKeys : Contains(Overlay(journal)[s])})]
    BY <1>2, <1>3, FitsReads
<1>5. QED BY <1>0, <1>4 DEF Counted

\* What is visible between two batches has no node that nobody needs.
LEMMA InvNoLeak ==
    ASSUME IInv PROVE NoLeak
<1>0. Typed /\ Counted /\ Images
    BY DEF IInv
<1>1. SUFFICES ASSUME \A k, l \in writer.keys : k # l => Short[k] # Short[l],
                      \A a, b \in DOMAIN blocks : a # b => blocks[a].era # blocks[b].era,
                      NEW k \in Keys, pc \in {"idle", "exec"}, View(store)[k] # Absent
               PROVE  \/ k \in blocks[tip].state
                      \/ \E e \in Eras : \E i \in DOMAIN journal[e] : k \in journal[e][i].ins
    BY DEF NoLeak
<1>2. Tidy(writer.keys, Now, journal, View(store))
    BY <1>0, <1>1, Resting DEF Fits
<1>3. Now.blocks = blocks /\ Now.tip = tip
    BY DEF Now
<1>4. Unforked(writer.keys, Now)
    BY <1>1, <1>3 DEF Unforked
<1>5. QED BY <1>1, <1>2, <1>3, <1>4 DEF Tidy

\* The first era of a journal without gaps.
LEMMA FirstEra ==
    ASSUME NEW j, NEW l \in Eras, NEW low \in Int, low < l, -1 <= low,
           \A e \in Eras : j[e] # <<>> <=> low < e /\ e <= l
    PROVE  JournalledEras(j) # {} /\ Min(JournalledEras(j)) = low + 1
<1>1. MaxEra \in Nat /\ l \in Int /\ l <= MaxEra
    <2>1. MaxEra \in Nat
        BY BoundAssumption
    <2>2. QED BY <2>1 DEF Eras
<1>2. low + 1 \in Eras /\ low < low + 1 /\ low + 1 <= l
    BY <1>1 DEF Eras
<1>3. low + 1 \in JournalledEras(j)
    BY <1>2 DEF JournalledEras
<1>4. \A e \in JournalledEras(j) : e \in Nat /\ low + 1 <= e
    BY DEF JournalledEras, Eras
<1>5. JournalledEras(j) \subseteq Nat /\ JournalledEras(j) # {}
    BY <1>3, <1>4
<1>6. Min(JournalledEras(j)) \in JournalledEras(j)
      /\ \A y \in JournalledEras(j) : Min(JournalledEras(j)) <= y
    BY <1>5, MinIn
<1>7. Min(JournalledEras(j)) \in Nat /\ low + 1 <= Min(JournalledEras(j))
      /\ Min(JournalledEras(j)) <= low + 1
    BY <1>3, <1>4, <1>6
<1>8. QED BY <1>5, <1>7

\* The first record is that of the era behind the canonical one.
LEMMA InvEarliestEraExact ==
    ASSUME IInv, History > 0 PROVE EarliestEraExact
<1>0. Typed /\ Counted /\ Images
    BY DEF IInv
<1>1. SUFFICES ASSUME JournalledEras(journal) # {}
               PROVE  earliest = Min(JournalledEras(journal))
    BY DEF EarliestEraExact
<1>2. /\ Spans(Now, journal, latest) /\ Now.blocks = blocks /\ Now.tip = tip
      /\ Chronicle(writer.keys, Now)
    BY <1>0, Journalling
<1>3. latest # NoEra
    BY <1>1, <1>2 DEF Spans, JournalledEras
<1>4. /\ latest \in Eras /\ blocks[tip].era < latest
      /\ \A e \in Eras : journal[e] # <<>> <=> blocks[tip].era < e /\ e <= latest
    BY <1>2, <1>3 DEF Spans
<1>5. blocks[tip].era \in Int /\ -1 <= blocks[tip].era
    <2>1. blocks[tip].era \in -1 .. MaxEra /\ MaxEra \in Nat
        BY <1>2, Shape
    <2>2. QED BY <2>1
<1>6. Min(JournalledEras(journal)) = blocks[tip].era + 1
    BY <1>4, <1>5, FirstEra
<1>7. QED BY <1>0, <1>3, <1>6 DEF Counted

-------------------------------------------------------------------------------
(* The invariant holds at first.                                           *)

\* An empty database fits the root.
LEMMA InitInv ==
    ASSUME Init PROVE IInv
<1>1. /\ pc = "idle" /\ batch = <<>> /\ latest = NoEra /\ tip = 1 /\ blocks = <<Root>>
      /\ pending = {} /\ earliest = NoEra /\ csize = 0 /\ reader = NoRead
      /\ journal = EmptyJournal /\ ovl = EmptyOver(ShortKeys) /\ txo = EmptyOver(Keys)
      /\ store = [buf |-> EmptyBuf(DbKeys), disk |-> [k \in DbKeys |-> Absent]]
      /\ work = [parent |-> 1, state |-> {}] /\ writer \in Writers
      /\ snap = [written |-> Now, durable |-> Now,
                 stable |-> [disk |-> store.disk, hist |-> Now]]
    BY DEF Init
<1> DEFINE nodes == writer.keys
           h == Single({})
           db == [k \in DbKeys |-> Absent]
<1>2. [Root EXCEPT !.state = {}] = Root
    BY DEF Root
<1>3. Now = h /\ snap.written = h /\ snap.durable = h /\ Promised = Now
      /\ snap.stable.hist = h /\ snap.stable.disk = store.disk
    BY <1>1, <1>2 DEF Now, Single, Promised
<1>4. {} \subseteq nodes /\ nodes \subseteq Keys
    BY <1>1, Settings
<1> HIDE DEF nodes
<1>5. /\ Chronicle(nodes, h) /\ Live(h, 1) /\ h.tip = 1 /\ DOMAIN h.blocks = {1}
      /\ Len(h.blocks) = 1 /\ h.blocks[1].era = -1 /\ h.blocks[1].state = {}
      /\ h.blocks[1].anc = {1}
    BY <1>4, SingleShape
<1>6. /\ store \in Stores(DbKeys, Cell) /\ View(store) = db /\ store.disk = db
    <2>1. Unbuffered \in Cell /\ Absent \in Cell
        BY DEF Cell
    <2>2. db \in [DbKeys -> Cell] /\ store = [buf |-> EmptyBuf(DbKeys), disk |-> db]
        BY <1>1, <2>1
    <2>3. Deleted # Unbuffered
        BY MarkerAssumption
    <2> HIDE DEF db
    <2>4. store.disk = db
        BY <2>2
    <2>5. QED BY <2>1, <2>2, <2>3, <2>4, UnbufferedView
<1>7. journal \in Journals /\ \A e \in Eras : journal[e] = <<>>
    <2>1. \A e \in Eras : journal[e] = <<>>
        BY <1>1 DEF EmptyJournal
    <2>2. <<>> \in Seq(StoredRecord)
        OBVIOUS
    <2>3. QED BY <1>1, <2>1, <2>2 DEF EmptyJournal, Journals
<1>8. After = db
    BY <1>1, <1>6, NothingRecorded DEF After
<1>9. Fits(nodes, h, journal, NoEra, db)
    <2>1. Spans(h, journal, NoEra)
        <3>1. \A e \in Eras : Len(journal[e]) < 1
            BY <1>7
        <3>2. QED BY <1>5, <1>7, <3>1 DEF Spans
    <2>2. Records(h, journal)
        BY <1>7 DEF Records
    <2>3. Differences(h, journal)
        BY <1>5 DEF Differences
    <2>4. \A k \in DbKeys : db[k] = Absent
        OBVIOUS
    <2>5. Stored(journal, NoEra, db)
        <3>1. \A e \in Eras, i \in 0 .. MaxBlocks : ~ (i < Len(journal[e]))
            BY <1>7
        <3>2. QED BY <2>4, <3>1, DistinctKeys DEF Stored
    <2>6. OnDisk(h, journal, NoEra, db)
        BY <1>5, <2>5 DEF OnDisk
    <2>7. Tidy(nodes, h, journal, db)
        BY <2>4, DistinctKeys DEF Tidy
    <2>8. QED BY <1>5, <2>1, <2>2, <2>3, <2>6, <2>7 DEF Fits
<1>10. Image(nodes, h, db)
    <2> HIDE DEF h, db
    <2>1. QED BY <1>7, <1>9, FitsReads
<1>11. Typed
    <2>1. NoEntry \in Slot(ShortKeys)
        BY DEF Slot
    <2>2. txo \in [Keys -> Slot(ShortKeys)]
        BY <1>1, <2>1 DEF EmptyOver
    <2>3. h \in Histories
        BY <1>5 DEF Chronicle
    <2>4. store.disk \in [DbKeys -> Cell]
        BY <1>6 DEF Stores
    <2>5. snap \in Snapshots
        BY <1>1, <1>3, <2>3, <2>4 DEF Snapshots
    <2>6. work \in [parent : DOMAIN blocks, state : SUBSET writer.keys]
        BY <1>1
    <2>7. batch \in Seq(Op)
        BY <1>1
    <2>8. QED BY <1>1, <1>6, <1>7, <2>2, <2>5, <2>6, <2>7 DEF Typed
<1>12. Counted
    <2>1. \A s \in ShortKeys : Refs(journal, s) = {}
        <3>1. \A e \in Eras, i \in 1 .. MaxBlocks : ~ (i <= Len(journal[e]))
            BY <1>7
        <3>2. QED BY <3>1 DEF Refs
    <2>2. ovl = Overlay(journal)
        <3>1. \A s \in ShortKeys : Overlay(journal)[s] = NoEntry
            BY <2>1, OverlayEntry
        <3>2. Overlay(journal) = [s \in ShortKeys |-> Overlay(journal)[s]]
            BY DEF Overlay
        <3>3. QED BY <1>1, <3>1, <3>2 DEF EmptyOver
    <2>3. {s \in ShortKeys : Contains(ovl[s])} = {}
        BY <1>1 DEF EmptyOver, Contains
    <2>4. SumOf({}) = 0
        <3>1. {} \in SUBSET ShortKeys /\ {} \intersect {} = {}
            OBVIOUS
        <3>2. QED BY <3>1, SumOfUnion
    <2>5. Len(blocks) = 1 /\ blocks[1].era = -1
        BY <1>1 DEF Root
    <2>6. QED BY <1>1, <2>2, <2>3, <2>4, <2>5 DEF Counted
<1>13. Executing
    BY <1>1 DEF Executing
<1>14. Images
    BY <1>1, <1>3, <1>5, <1>6, <1>8, <1>9, <1>10 DEF Images, nodes
<1>15. Readables
    <2>1. blocks[tip].state = {}
        BY <1>1 DEF Root
    <2>2. QED BY <1>1, <2>1 DEF Readables, ReaderNeverMisses
<1>16. Settled
    BY <1>1 DEF Settled
<1>17. QED BY <1>11, <1>12, <1>13, <1>14, <1>15, <1>16 DEF IInv

-------------------------------------------------------------------------------
(* The steps.                                                              *)

\* Frames: what a step that leaves some of the state alone preserves.
LEMMA SameImages ==
    ASSUME Images, UNCHANGED <<journal, latest, batch, store, blocks, tip, snap, writer>>,
           pc = "marked" => work' = work,
           pc' = pc \/ (pc \in {"idle", "exec", "written"} /\ pc' \in {"idle", "exec", "written"})
    PROVE  Images'
<1>1. Now' = Now
    BY DEF Now
<1>2. After' = After
    BY DEF After
<1>3. Promised' = Promised
    <2>1. CASE pc = "marked"
        BY <2>1 DEF Promised, Now
    <2>2. CASE pc # "marked"
        <3>1. pc' # "marked"
            BY <2>2
        <3>2. QED BY <1>1, <2>2, <3>1 DEF Promised
    <2>3. QED BY <2>1, <2>2
<1>4. QED BY <1>1, <1>2, <1>3 DEF Images

\* A block begins as its parent ends.
LEMMA BeginInv ==
    ASSUME IInv, NEW p \in DOMAIN blocks, Begin(p) PROVE IInv'
<1>0. Typed /\ Counted /\ Executing /\ Images /\ Readables /\ Settled
    BY DEF IInv
<1>1. /\ pc = "idle" /\ pc' = "exec" /\ Live(Now, p) /\ blocks[p].era < writer.max_era
      /\ Len(blocks) <= writer.max_blocks
      /\ work' = [parent |-> p, state |-> blocks[p].state]
      /\ UNCHANGED <<memory, batch, store, history, reader, writer, crashes>>
    BY DEF Begin
<1>2. /\ txo' = txo /\ ovl' = ovl /\ pending' = pending /\ journal' = journal
      /\ latest' = latest /\ earliest' = earliest /\ csize' = csize /\ batch' = batch
      /\ store' = store /\ blocks' = blocks /\ tip' = tip /\ snap' = snap
      /\ reader' = reader /\ writer' = writer
    BY <1>1 DEF memory, history
<1>3. Now' = Now /\ Now.blocks = blocks /\ Now.tip = tip
    BY <1>2 DEF Now
<1>4. blocks[p].state \subseteq writer.keys
    BY <1>0, <1>3 DEF Images, Chronicle
<1>5. work' \in [parent : DOMAIN blocks, state : SUBSET writer.keys]
    BY <1>1, <1>4
<1>6. Typed'
    BY <1>0, <1>1, <1>2, <1>5 DEF Typed
<1>7. Counted'
    BY <1>0, <1>1, <1>2 DEF Counted
<1>8. Executing'
    <2>1. txo' = EmptyOver(Keys)
        BY <1>0, <1>1, <1>2 DEF Executing
    <2>2. \A k \in Keys : Count(txo'[k]) = 0
        BY <2>1 DEF EmptyOver, Count
    <2>3. work'.parent = p /\ work'.state = blocks[p].state
        BY <1>1
    <2>4. blocks[p].era \in -1 .. MaxEra /\ Len(blocks) \in Nat
        <3>1. Chronicle(writer.keys, Now) /\ p \in DOMAIN Now.blocks
            BY <1>0, <1>3 DEF Images
        <3>2. QED BY <1>3, <3>1, Shape
    <2>5. blocks[p].era < MaxEra /\ Len(blocks) <= MaxBlocks
        <3>1. writer.max_era \in 0 .. MaxEra /\ writer.max_blocks \in 0 .. MaxBlocks
              /\ MaxEra \in Nat /\ MaxBlocks \in Nat
            BY <1>0, Settings DEF Typed
        <3>2. QED BY <1>1, <2>4, <3>1
    <2>6. QED BY <1>1, <1>2, <1>3, <2>2, <2>3, <2>5 DEF Executing
<1>9. Images'
    BY <1>0, <1>1, <1>2, SameImages
<1>10. Readables'
    BY <1>0, <1>2, <1>3 DEF Readables, ReaderNeverMisses
<1>11. Settled'
    BY <1>0, <1>1, <1>2 DEF Settled
<1>12. QED BY <1>6, <1>7, <1>8, <1>9, <1>10, <1>11 DEF IInv

\* An insertion or a removal moves a count by one.
LEMMA OneEntry ==
    ASSUME NEW e \in Slot(ShortKeys), NEW s \in ShortKeys
    PROVE  /\ EmplaceEntry(e, s) \in Slot(ShortKeys) /\ RemoveEntry(e) \in Slot(ShortKeys)
           /\ Count(e) \in Int
           /\ Count(EmplaceEntry(e, s)) = Count(e) + 1
           /\ Count(RemoveEntry(e)) = Count(e) - 1
<1>1. \A v \in ShortKeys \union {NoValue}, n \in Int :
          [val |-> v, rc |-> n] \in Entry(ShortKeys) /\ [val |-> v, rc |-> n] # NoEntry
          /\ [val |-> v, rc |-> n].rc = n
    <2>1. \A v \in ShortKeys \union {NoValue}, n \in Int : [val |-> v, rc |-> n] \in Entry(ShortKeys)
        BY DEF Entry
    <2>2. QED BY <2>1, MarkerAssumption
<1>2. CASE e = NoEntry
    <2>1. EmplaceEntry(e, s) = [val |-> s, rc |-> 1] /\ RemoveEntry(e) = [val |-> NoValue, rc |-> -1]
        BY <1>2 DEF EmplaceEntry, RemoveEntry
    <2>2. QED BY <1>1, <1>2, <2>1 DEF Slot, Count
<1>3. CASE e # NoEntry
    <2>1. e \in Entry(ShortKeys) /\ e.val \in ShortKeys \union {NoValue} /\ e.rc \in Int
        BY <1>3 DEF Slot, Entry
    <2>2. /\ EmplaceEntry(e, s) = [val |-> IF e.rc <= 0 THEN s ELSE e.val, rc |-> e.rc + 1]
          /\ RemoveEntry(e) = [val |-> e.val, rc |-> e.rc - 1]
        <3>1. e = [val |-> e.val, rc |-> e.rc]
            BY <2>1 DEF Entry
        <3>2. QED BY <1>3, <3>1 DEF EmplaceEntry, RemoveEntry
    <2>3. e.rc + 1 \in Int /\ e.rc - 1 \in Int
          /\ (IF e.rc <= 0 THEN s ELSE e.val) \in ShortKeys \union {NoValue}
        BY <2>1
    <2>4. QED BY <1>1, <1>3, <2>1, <2>2, <2>3 DEF Slot, Count
<1>4. QED BY <1>2, <1>3

\* Insert and remove change the transaction overlay and the state it stands for.
LEMMA TouchInv ==
    ASSUME IInv, NEW k \in Keys, Insert(k) \/ Remove(k) PROVE IInv'
<1>0. Typed /\ Counted /\ Executing /\ Images /\ Readables /\ Settled
    BY DEF IInv
<1>1. /\ pc = "exec" /\ pc' = "exec"
      /\ ovl' = ovl /\ pending' = pending /\ journal' = journal
      /\ latest' = latest /\ earliest' = earliest /\ csize' = csize /\ batch' = batch
      /\ store' = store /\ blocks' = blocks /\ tip' = tip /\ snap' = snap
      /\ reader' = reader /\ writer' = writer
    BY DEF Insert, Remove, history
<1>2. Now' = Now
    BY <1>1 DEF Now
<1>3. /\ txo \in [Keys -> Slot(ShortKeys)] /\ Short[k] \in ShortKeys
      /\ work \in [parent : DOMAIN blocks, state : SUBSET writer.keys]
    BY <1>0, KeyAssumption DEF Typed
<1>4. /\ txo[k] \in Slot(ShortKeys)
      /\ EmplaceEntry(txo[k], Short[k]) \in Slot(ShortKeys) /\ RemoveEntry(txo[k]) \in Slot(ShortKeys)
      /\ Count(txo[k]) \in Int
      /\ Count(EmplaceEntry(txo[k], Short[k])) = Count(txo[k]) + 1
      /\ Count(RemoveEntry(txo[k])) = Count(txo[k]) - 1
    BY <1>3, OneEntry
<1>5. /\ work' \in [parent : DOMAIN blocks, state : SUBSET writer.keys]
      /\ work'.parent = work.parent
      /\ txo' \in [Keys -> Slot(ShortKeys)]
      /\ \A m \in Keys \ {k} : txo'[m] = txo[m] /\ (m \in work'.state <=> m \in work.state)
    <2>1. CASE Insert(k)
        <3>1. /\ k \in writer.keys /\ work' = [work EXCEPT !.state = @ \union {k}]
              /\ txo' = [txo EXCEPT ![k] = EmplaceEntry(@, Short[k])]
            BY <2>1 DEF Insert
        <3>2. QED BY <1>3, <1>4, <3>1
    <2>2. CASE Remove(k)
        <3>1. /\ work' = [work EXCEPT !.state = @ \ {k}]
              /\ txo' = [txo EXCEPT ![k] = RemoveEntry(@)]
            BY <2>2 DEF Remove
        <3>2. QED BY <1>3, <1>4, <3>1
    <2>3. QED BY <2>1, <2>2
<1>6. \A m \in Keys :
          Count(txo[m]) = (IF m \in work.state THEN 1 ELSE 0)
                          - (IF m \in blocks[work.parent].state THEN 1 ELSE 0)
    BY <1>0, <1>1 DEF Executing
<1>7. Count(txo'[k]) = (IF k \in work'.state THEN 1 ELSE 0)
                       - (IF k \in blocks[work.parent].state THEN 1 ELSE 0)
    <2>1. CASE Insert(k)
        <3>1. /\ k \notin work.state /\ k \in work'.state
              /\ txo'[k] = EmplaceEntry(txo[k], Short[k])
            BY <1>3, <2>1 DEF Insert
        <3>2. QED BY <1>4, <1>6, <3>1
    <2>2. CASE Remove(k)
        <3>1. /\ k \in work.state /\ k \notin work'.state
              /\ txo'[k] = RemoveEntry(txo[k])
            BY <1>3, <2>2 DEF Remove
        <3>2. QED BY <1>4, <1>6, <3>1
    <2>3. QED BY <2>1, <2>2
<1>8. Typed'
    BY <1>0, <1>1, <1>5 DEF Typed
<1>9. Counted'
    BY <1>0, <1>1 DEF Counted
<1>10. Executing'
    <2>1. \A m \in Keys :
          Count(txo'[m]) = (IF m \in work'.state THEN 1 ELSE 0)
                          - (IF m \in blocks[work.parent].state THEN 1 ELSE 0)
        <3>1. SUFFICES ASSUME NEW m \in Keys
                       PROVE  Count(txo'[m]) = (IF m \in work'.state THEN 1 ELSE 0)
                                 - (IF m \in blocks[work.parent].state THEN 1 ELSE 0)
            OBVIOUS
        <3>2. CASE m = k
            BY <1>7, <3>2
        <3>3. CASE m # k
            BY <1>5, <1>6, <3>3
        <3>4. QED BY <3>2, <3>3
    <2>2. QED BY <1>0, <1>1, <1>2, <1>5, <2>1 DEF Executing
<1>11. Images'
    BY <1>0, <1>1, SameImages
<1>12. Readables'
    BY <1>0, <1>1, <1>2 DEF Readables, ReaderNeverMisses
<1>13. Settled'
    BY <1>0, <1>1 DEF Settled
<1>14. QED BY <1>8, <1>9, <1>10, <1>11, <1>12, <1>13 DEF IInv

\* A reader misses in memory what is visible in the database.
LEMMA ReadMissInv ==
    ASSUME IInv, NEW b \in DOMAIN blocks, NEW k \in Keys, ReadMiss(b, k) PROVE IInv'
<1>0. Typed /\ Counted /\ Executing /\ Images /\ Readables /\ Settled
    BY DEF IInv
<1>1. /\ Live(Now, b) /\ k \in blocks[b].state /\ ~InMemory(k)
      /\ reader' = [block |-> b, key |-> k]
      /\ txo' = txo /\ ovl' = ovl /\ pending' = pending /\ journal' = journal
      /\ latest' = latest /\ earliest' = earliest /\ csize' = csize /\ batch' = batch
      /\ store' = store /\ blocks' = blocks /\ tip' = tip /\ snap' = snap
      /\ pc' = pc /\ work' = work /\ writer' = writer
    BY DEF ReadMiss, memory, history
<1>2. Now' = Now
    BY <1>1 DEF Now
<1>3. Refs(journal, Short[k]) = {} /\ Short[k] \notin pending /\ k \in blocks[tip].state
    <2>1. /\ k \in blocks[tip].state \/ Refs(journal, Short[k]) # {}
          /\ RawGet(ovl[Short[k]]) = IF Refs(journal, Short[k]) = {} THEN NoEntry ELSE Short[k]
          /\ Short[k] # NoEntry
        BY <1>0, <1>1, Alive
    <2>2. QED BY <1>1, <2>1 DEF InMemory
<1>4. View(store)[k] # Absent
    BY <1>0, <1>3 DEF Readables
<1>5. reader'.key = k
    BY <1>1
<1>6. Typed'
    BY <1>0, <1>1 DEF Typed
<1>7. Counted' /\ Executing'
    BY <1>0, <1>1, <1>2 DEF Counted, Executing
<1>8. Images'
    BY <1>0, <1>1, SameImages
<1>9. Readables'
    BY <1>0, <1>1, <1>2, <1>4, <1>5 DEF Readables, ReaderNeverMisses
<1>10. Settled'
    BY <1>0, <1>1 DEF Settled
<1>11. QED BY <1>6, <1>7, <1>8, <1>9, <1>10 DEF IInv

\* The reader is done.
LEMMA ReadPayloadInv ==
    ASSUME IInv, ReadPayload PROVE IInv'
<1>0. Typed /\ Counted /\ Executing /\ Images /\ Readables /\ Settled
    BY DEF IInv
<1>1. /\ reader' = NoRead
      /\ txo' = txo /\ ovl' = ovl /\ pending' = pending /\ journal' = journal
      /\ latest' = latest /\ earliest' = earliest /\ csize' = csize /\ batch' = batch
      /\ store' = store /\ blocks' = blocks /\ tip' = tip /\ snap' = snap
      /\ pc' = pc /\ work' = work /\ writer' = writer
    BY DEF ReadPayload, memory, history
<1>2. Now' = Now
    BY <1>1 DEF Now
<1>3. Typed'
    BY <1>0, <1>1 DEF Typed
<1>4. Counted' /\ Executing'
    BY <1>0, <1>1, <1>2 DEF Counted, Executing
<1>5. Images'
    BY <1>0, <1>1, SameImages
<1>6. Readables'
    BY <1>0, <1>1, <1>2 DEF Readables, ReaderNeverMisses
<1>7. Settled'
    BY <1>0, <1>1 DEF Settled
<1>8. QED BY <1>3, <1>4, <1>5, <1>6, <1>7 DEF IInv

\* Whether the pending nodes are cleared or not: what has been written is
\* visible, and what a writer that is not lazy has written is on disk.
LEMMA PendingInv ==
    ASSUME IInv, ClearPending \/ KeepPending PROVE IInv'
<1>0. Typed /\ Counted /\ Executing /\ Images /\ Readables /\ Settled
    BY DEF IInv
<1>1. /\ pc = "written" /\ pc' = "idle"
      /\ writer.lazy \/ snap.durable = snap.written
      /\ pending' = pending \/ pending' = {}
      /\ txo' = txo /\ ovl' = ovl /\ journal' = journal
      /\ latest' = latest /\ earliest' = earliest /\ csize' = csize /\ batch' = batch
      /\ store' = store /\ blocks' = blocks /\ tip' = tip /\ snap' = snap
      /\ reader' = reader /\ work' = work /\ writer' = writer
    BY DEF ClearPending, KeepPending, memory, history
<1>2. Now' = Now
    BY <1>1 DEF Now
<1>3. \A k \in blocks[tip].state : View(store)[k] # Absent
    BY <1>0, <1>1, Resting
<1>4. Typed'
    BY <1>0, <1>1 DEF Typed
<1>5. Counted' /\ Executing'
    BY <1>0, <1>1, <1>2 DEF Counted, Executing
<1>6. Images'
    BY <1>0, <1>1, SameImages
<1>7. Readables'
    BY <1>0, <1>1, <1>2, <1>3 DEF Readables, ReaderNeverMisses
<1>8. Settled'
    <2>1. ASSUME ~writer.lazy
          PROVE  \A k \in blocks[tip].state : store.disk[k] # Absent
        <3>1. snap.durable = Now
            BY <1>0, <1>1, <2>1 DEF Images
        <3>2. Image(writer.keys, Now, store.disk)
            BY <1>0, <3>1 DEF Images
        <3>3. Now.blocks = blocks /\ Now.tip = tip
            BY DEF Now
        <3>4. QED BY <3>2, <3>3 DEF Image, Fits, OnDisk
    <2>2. ~writer.lazy => snap.durable = snap.written
        BY <1>1
    <2>3. QED BY <1>1, <2>1, <2>2 DEF Settled
<1>9. QED BY <1>4, <1>5, <1>6, <1>7, <1>8 DEF IInv

\* A flush puts what is visible on disk.
LEMMA KvFlushInv ==
    ASSUME IInv, KvFlush PROVE IInv'
<1>0. Typed /\ Counted /\ Executing /\ Images /\ Readables /\ Settled
    BY DEF IInv
<1>1. /\ store' = Flushed(store) /\ snap' = [snap EXCEPT !.durable = snap.written]
      /\ txo' = txo /\ ovl' = ovl /\ pending' = pending /\ journal' = journal
      /\ latest' = latest /\ earliest' = earliest /\ csize' = csize /\ batch' = batch
      /\ blocks' = blocks /\ tip' = tip /\ reader' = reader
      /\ pc' = pc /\ work' = work /\ writer' = writer
    BY DEF KvFlush, memory
<1>2. Now' = Now /\ Promised' = Promised
    BY <1>1 DEF Now, Promised
<1>3. store \in Stores(DbKeys, Cell) /\ batch \in Seq(Op)
      /\ snap \in Snapshots
    BY <1>0 DEF Typed
<1>4. /\ store' \in Stores(DbKeys, Cell) /\ store'.disk = View(store) /\ View(store') = View(store)
    BY <1>1, <1>3, FlushedView, MarkerAssumption DEF Cell
<1>5. snap'.durable = snap.written /\ snap'.written = snap.written
      /\ snap'.stable = snap.stable /\ snap' \in Snapshots
    BY <1>1, <1>3 DEF Snapshots
<1>6. After' = After
    <2>1. IsBatch(batch, Cell)
        BY <1>3, Batches
    <2>2. ASSUME NEW st \in Stores(DbKeys, Cell)
          PROVE  View(Recorded(st, batch)) =
                     [k \in DbKeys |-> IF OnKey(batch, k) = {} THEN View(st)[k]
                                       ELSE Outcome(batch[Max(OnKey(batch, k))].val)]
        <3>1. /\ View(Recorded(st, batch)) \in [DbKeys -> Cell \union {Absent}]
              /\ \A k \in DbKeys : View(Recorded(st, batch))[k] =
                     IF OnKey(batch, k) = {} THEN View(st)[k]
                     ELSE Outcome(batch[Max(OnKey(batch, k))].val)
            BY <2>1, RecordedView
        <3>2. QED BY <3>1
    <2>3. View(Recorded(store', batch)) = View(Recorded(store, batch))
        BY <1>3, <1>4, <2>2
    <2>4. QED BY <1>1, <2>3 DEF After
<1>7. Typed'
    BY <1>0, <1>1, <1>4, <1>5 DEF Typed
<1>8. Counted' /\ Executing'
    BY <1>0, <1>1, <1>2 DEF Counted, Executing
<1>9. Images'
    BY <1>0, <1>1, <1>2, <1>4, <1>5, <1>6 DEF Images
<1>10. Readables'
    BY <1>0, <1>1, <1>2, <1>4 DEF Readables, ReaderNeverMisses
<1>11. Settled'
    BY <1>0, <1>1, <1>4, <1>5 DEF Settled, Readables
<1>12. QED BY <1>7, <1>8, <1>9, <1>10, <1>11 DEF IInv

\* RocksDB writes its memtable out: what is on disk is there to stay.
LEMMA MemtableFlushInv ==
    ASSUME IInv, MemtableFlush PROVE IInv'
<1>0. Typed /\ Counted /\ Executing /\ Images /\ Readables /\ Settled
    BY DEF IInv
<1>1. /\ snap' = [snap EXCEPT !.stable = Given] /\ store' = store
      /\ txo' = txo /\ ovl' = ovl /\ pending' = pending /\ journal' = journal
      /\ latest' = latest /\ earliest' = earliest /\ csize' = csize /\ batch' = batch
      /\ blocks' = blocks /\ tip' = tip /\ reader' = reader
      /\ pc' = pc /\ work' = work /\ writer' = writer
    BY DEF MemtableFlush, memory
<1>2. Now' = Now /\ Promised' = Promised /\ After' = After
    BY <1>1 DEF Now, Promised, After
<1>3. store \in Stores(DbKeys, Cell) /\ snap \in Snapshots
    BY <1>0 DEF Typed
<1>4. /\ snap'.written = snap.written /\ snap'.durable = snap.durable
      /\ snap'.stable.disk = store.disk /\ snap'.stable.hist = snap.durable
      /\ snap' \in Snapshots
    BY <1>1, <1>3 DEF Snapshots, Given, Stores
<1>5. Typed'
    BY <1>0, <1>1, <1>4 DEF Typed
<1>6. Counted' /\ Executing'
    BY <1>0, <1>1, <1>2 DEF Counted, Executing
<1>7. Images'
    BY <1>0, <1>1, <1>2, <1>4 DEF Images
<1>8. Readables'
    BY <1>0, <1>1, <1>2 DEF Readables, ReaderNeverMisses
<1>9. Settled'
    BY <1>0, <1>1, <1>4 DEF Settled
<1>10. QED BY <1>5, <1>6, <1>7, <1>8, <1>9 DEF IInv

-------------------------------------------------------------------------------
(* journal_under and mark_canonical.                                       *)

\* The transaction overlay has what the state gains and loses.
LEMMA Gained ==
    ASSUME NEW old \in SUBSET Keys, NEW S \in SUBSET Keys, NEW m,
           \A k \in Keys : Count(m[k]) = (IF k \in S THEN 1 ELSE 0) - (IF k \in old THEN 1 ELSE 0)
    PROVE  Inserted(m) = S \ old /\ Removed(m) = old \ S
<1>1. \A k \in Keys : Count(m[k]) > 0 <=> k \in S /\ k \notin old
    <2>1. SUFFICES ASSUME NEW k \in Keys PROVE Count(m[k]) > 0 <=> k \in S /\ k \notin old
        OBVIOUS
    <2>2. CASE k \in S
        BY <2>2
    <2>3. CASE k \notin S
        BY <2>3
    <2>4. QED BY <2>2, <2>3
<1>2. \A k \in Keys : Count(m[k]) < 0 <=> k \notin S /\ k \in old
    <2>1. SUFFICES ASSUME NEW k \in Keys PROVE Count(m[k]) < 0 <=> k \notin S /\ k \in old
        OBVIOUS
    <2>2. CASE k \in S
        BY <2>2
    <2>3. CASE k \notin S
        BY <2>3
    <2>4. QED BY <2>2, <2>3
<1>3. QED BY <1>1, <1>2 DEF Inserted, Removed

\* Emplacing a node again, or removing it some of the times it was emplaced.
LEMMA Emplaced ==
    ASSUME NEW s \in ShortKeys, NEW n \in Nat, NEW t \in Nat
    PROVE  /\ EmplaceTimes(EmplaceTimes(NoEntry, s, n), s, t) = EmplaceTimes(NoEntry, s, n + t)
           /\ t <= n => RemoveAndPurgeTimes(EmplaceTimes(NoEntry, s, n), t)
                        = EmplaceTimes(NoEntry, s, n - t)
           /\ Count(EmplaceTimes(NoEntry, s, n)) = n
           /\ Contains(EmplaceTimes(NoEntry, s, n)) <=> n > 0
<1>1. \A m \in Nat : m # 0 => [val |-> s, rc |-> m] # NoEntry
    <2>1. \A m \in Nat : [val |-> s, rc |-> m] \in Entry(ShortKeys)
        BY DEF Entry
    <2>2. QED BY <2>1, MarkerAssumption
<1>2. \A m \in Nat : EmplaceTimes(NoEntry, s, m) = IF m = 0 THEN NoEntry ELSE [val |-> s, rc |-> m]
    BY DEF EmplaceTimes, Count
<1>3. \A m \in Nat : Count(EmplaceTimes(NoEntry, s, m)) = m
    BY <1>1, <1>2 DEF Count
<1>4. Contains(EmplaceTimes(NoEntry, s, n)) <=> n > 0
    BY <1>1, <1>2, <1>3 DEF Contains
<1> DEFINE x == EmplaceTimes(NoEntry, s, n)
<1>5. n # 0 => x # NoEntry /\ x.val = s /\ x.rc = n
    BY <1>1, <1>2
<1>6. Count(x) = n /\ (n = 0 => x = NoEntry)
    BY <1>2, <1>3
<1>7. EmplaceTimes(x, s, t) = EmplaceTimes(NoEntry, s, n + t)
    <2>1. n + t \in Nat
        OBVIOUS
    <2>2. EmplaceTimes(NoEntry, s, n + t) = IF n + t = 0 THEN NoEntry ELSE [val |-> s, rc |-> n + t]
        BY <1>2, <2>1
    <2>3. EmplaceTimes(x, s, t) = IF t = 0 THEN x
             ELSE [val |-> IF n <= 0 THEN s ELSE x.val, rc |-> n + t]
        BY <1>6 DEF EmplaceTimes
    <2>4. CASE t = 0
        BY <2>3, <2>4
    <2>5. CASE t # 0
        <3>1. (IF n <= 0 THEN s ELSE x.val) = s
            BY <1>5
        <3>2. n + t # 0
            BY <2>5
        <3> HIDE DEF x
        <3>3. QED BY <2>2, <2>3, <2>5, <3>1, <3>2
    <2>6. QED BY <2>4, <2>5
<1>8. ASSUME t <= n
      PROVE  RemoveAndPurgeTimes(x, t) = EmplaceTimes(NoEntry, s, n - t)
    <2>1. n - t \in Nat
        BY <1>8
    <2>2. EmplaceTimes(NoEntry, s, n - t) = IF n - t = 0 THEN NoEntry ELSE [val |-> s, rc |-> n - t]
        BY <1>2, <2>1
    <2>3. CASE t = 0
        <3>1. RemoveAndPurgeTimes(x, t) = x
            BY <2>3 DEF RemoveAndPurgeTimes
        <3>2. QED BY <2>3, <3>1
    <2>4. CASE t # 0 /\ t = n
        <3>1. RemoveAndPurgeTimes(x, t) = NoEntry
            BY <1>6, <2>4 DEF RemoveAndPurgeTimes
        <3>2. QED BY <2>2, <2>4, <3>1
    <2>5. CASE t # 0 /\ t # n
        <3>1. x # NoEntry /\ Count(x) \notin 1 .. t /\ t > 0 /\ Count(x) # t
            BY <1>5, <1>6, <1>8, <2>5
        <3>2. RemoveAndPurgeTimes(x, t) = [val |-> x.val, rc |-> Count(x) - t]
            <4> HIDE DEF x
            <4>1. QED BY <2>5, <3>1 DEF RemoveAndPurgeTimes
        <3>3. n - t # 0 /\ x.val = s
            BY <1>5, <1>8, <2>5
        <3> HIDE DEF x
        <3>4. QED BY <1>6, <2>2, <3>2, <3>3
    <2>6. QED BY <2>3, <2>4, <2>5
<1>9. QED BY <1>3, <1>4, <1>7, <1>8

\* The overlay of a journal with one more record.
LEMMA OverlayGrown ==
    ASSUME NEW j \in Journals, NEW e \in Eras, NEW r \in StoredRecord, Len(j[e]) < MaxBlocks
    PROVE  LET J == [j EXCEPT ![e] = Append(@, r)]
               times == [s \in ShortKeys |-> TimesInserted(r.ins, s)]
               o == Overlay(j)
           IN  /\ Overlay(J) = [s \in ShortKeys |-> EmplaceTimes(o[s], s, times[s])]
               /\ SumOf({s \in ShortKeys : Contains(Overlay(J)[s])}) =
                      SumOf({s \in ShortKeys : Contains(o[s])})
                      + SumOf({s \in ShortKeys : times[s] > 0 /\ ~Contains(o[s])})
<1> DEFINE J == [j EXCEPT ![e] = Append(@, r)]
           times == [s \in ShortKeys |-> TimesInserted(r.ins, s)]
           o == Overlay(j)
           O == Overlay(J)
           new == {s \in ShortKeys : times[s] > 0 /\ ~Contains(o[s])}
           old == {s \in ShortKeys : Contains(o[s])}
           all == {s \in ShortKeys : Contains(O[s])}
<1>1. \A s \in ShortKeys : Cardinality(Refs(J, s)) = Cardinality(Refs(j, s)) + times[s]
    BY RefsAppended DEF TimesInserted
<1>2. \A s \in ShortKeys : times[s] \in Nat
    <2>1. \A s : {k \in r.ins : Short[k] = s} \subseteq Keys
        BY DEF StoredRecord
    <2>2. QED BY <2>1, KeyAssumption, FS_Subset, FS_CardinalityType DEF TimesInserted
<1> HIDE DEF times
<1>3. \A s \in ShortKeys : o[s] = EmplaceTimes(NoEntry, s, Cardinality(Refs(j, s)))
                           /\ O[s] = EmplaceTimes(NoEntry, s, Cardinality(Refs(J, s)))
    BY DEF Overlay
<1>4. \A s \in ShortKeys : Cardinality(Refs(j, s)) \in Nat
    BY RefsFinite
<1> HIDE DEF o, J
<1>5. \A s \in ShortKeys : O[s] = EmplaceTimes(o[s], s, times[s])
                           /\ (Contains(O[s]) <=> Contains(o[s]) \/ times[s] > 0)
    <2>1. SUFFICES ASSUME NEW s \in ShortKeys
                   PROVE  O[s] = EmplaceTimes(o[s], s, times[s])
                          /\ (Contains(O[s]) <=> Contains(o[s]) \/ times[s] > 0)
        OBVIOUS
    <2> DEFINE n == Cardinality(Refs(j, s))
               t == times[s]
    <2>2. n \in Nat /\ t \in Nat /\ n + t \in Nat
        BY <1>2, <1>4
    <2>3. o[s] = EmplaceTimes(NoEntry, s, n) /\ O[s] = EmplaceTimes(NoEntry, s, n + t)
        BY <1>1, <1>3
    <2> HIDE DEF n, t, O
    <2>4. EmplaceTimes(EmplaceTimes(NoEntry, s, n), s, t) = EmplaceTimes(NoEntry, s, n + t)
          /\ (Contains(EmplaceTimes(NoEntry, s, n)) <=> n > 0)
        BY <2>2, Emplaced
    <2>5. Contains(EmplaceTimes(NoEntry, s, n + t)) <=> n + t > 0
        BY <2>2, Emplaced
    <2>6. O[s] = EmplaceTimes(o[s], s, t) /\ (Contains(O[s]) <=> Contains(o[s]) \/ t > 0)
        BY <2>2, <2>3, <2>4, <2>5
    <2>7. QED BY <2>6 DEF t
<1>6. O = [s \in ShortKeys |-> EmplaceTimes(o[s], s, times[s])]
    <2>1. O = [s \in ShortKeys |-> O[s]]
        BY DEF Overlay
    <2> HIDE DEF O
    <2>2. QED BY <1>5, <2>1
<1> HIDE DEF O
<1>7. all = old \union new
    BY <1>5
<1>8. old \in SUBSET ShortKeys /\ new \in SUBSET ShortKeys /\ old \intersect new = {}
    OBVIOUS
<1>9. SumOf(all) = SumOf(old) + SumOf(new)
    <2> HIDE DEF all, old, new
    <2>1. QED BY <1>7, <1>8, SumOfUnion
<1>10. QED BY <1>6, <1>9 DEF O, o, J, times

\* The overlay of a journal that an era has left.
LEMMA OverlayCleared ==
    ASSUME NEW j \in Journals, NEW e \in Eras
    PROVE  LET J == JournalWithout(j, e)
               times == [s \in ShortKeys |-> Cardinality({r \in Refs(j, s) : r[1] = e})]
               o == Overlay(j)
           IN  /\ Overlay(J) = [s \in ShortKeys |-> RemoveAndPurgeTimes(o[s], times[s])]
               /\ SumOf({s \in ShortKeys : Contains(Overlay(J)[s])}) =
                      SumOf({s \in ShortKeys : Contains(o[s])})
                      - SumOf({s \in ShortKeys : Count(o[s]) \in 1 .. times[s]})
<1> DEFINE J == JournalWithout(j, e)
           times == [s \in ShortKeys |-> Cardinality({r \in Refs(j, s) : r[1] = e})]
           o == Overlay(j)
           O == Overlay(J)
           gone == {s \in ShortKeys : Count(o[s]) \in 1 .. times[s]}
           old == {s \in ShortKeys : Contains(o[s])}
           left == {s \in ShortKeys : Contains(O[s])}
<1>1. \A s \in ShortKeys : /\ times[s] \in Nat /\ times[s] <= Cardinality(Refs(j, s))
                           /\ Cardinality(Refs(J, s)) = Cardinality(Refs(j, s)) - times[s]
    BY RefsCleared DEF JournalWithout
<1> HIDE DEF times
<1>3. \A s \in ShortKeys : o[s] = EmplaceTimes(NoEntry, s, Cardinality(Refs(j, s)))
                           /\ O[s] = EmplaceTimes(NoEntry, s, Cardinality(Refs(J, s)))
    BY DEF Overlay
<1>4. \A s \in ShortKeys : Cardinality(Refs(j, s)) \in Nat
    BY RefsFinite
<1> HIDE DEF o, J
<1>5. \A s \in ShortKeys : /\ O[s] = RemoveAndPurgeTimes(o[s], times[s])
                           /\ Contains(o[s]) <=> Contains(O[s]) \/ Count(o[s]) \in 1 .. times[s]
                           /\ ~(Contains(O[s]) /\ Count(o[s]) \in 1 .. times[s])
    <2>1. SUFFICES ASSUME NEW s \in ShortKeys
                   PROVE  /\ O[s] = RemoveAndPurgeTimes(o[s], times[s])
                          /\ Contains(o[s]) <=> Contains(O[s]) \/ Count(o[s]) \in 1 .. times[s]
                          /\ ~(Contains(O[s]) /\ Count(o[s]) \in 1 .. times[s])
        OBVIOUS
    <2> DEFINE n == Cardinality(Refs(j, s))
               t == times[s]
    <2>2. n \in Nat /\ t \in Nat /\ n - t \in Nat /\ t <= n
        BY <1>1, <1>4
    <2>3. o[s] = EmplaceTimes(NoEntry, s, n) /\ O[s] = EmplaceTimes(NoEntry, s, n - t)
        BY <1>1, <1>3
    <2> HIDE DEF n, t, O
    <2>4. /\ RemoveAndPurgeTimes(EmplaceTimes(NoEntry, s, n), t) = EmplaceTimes(NoEntry, s, n - t)
          /\ Contains(EmplaceTimes(NoEntry, s, n)) <=> n > 0
          /\ Count(EmplaceTimes(NoEntry, s, n)) = n
        BY <2>2, Emplaced
    <2>5. Contains(EmplaceTimes(NoEntry, s, n - t)) <=> n - t > 0
        BY <2>2, Emplaced
    <2>6. /\ O[s] = RemoveAndPurgeTimes(o[s], t)
          /\ Contains(o[s]) <=> n > 0
          /\ Contains(O[s]) <=> n - t > 0
          /\ Count(o[s]) = n
        BY <2>3, <2>4, <2>5
    <2>7. /\ n > 0 <=> n - t > 0 \/ n \in 1 .. t
          /\ ~(n - t > 0 /\ n \in 1 .. t)
        BY <2>2
    <2>8. QED BY <2>6, <2>7 DEF t
<1>6. O = [s \in ShortKeys |-> RemoveAndPurgeTimes(o[s], times[s])]
    <2>1. O = [s \in ShortKeys |-> O[s]]
        BY DEF Overlay
    <2> HIDE DEF O
    <2>2. QED BY <1>5, <2>1
<1> HIDE DEF O
<1>7. old = left \union gone /\ left \intersect gone = {}
    BY <1>5
<1>8. left \in SUBSET ShortKeys /\ gone \in SUBSET ShortKeys
    OBVIOUS
<1>9. SumOf(left) = SumOf(old) - SumOf(gone)
    <2> HIDE DEF left, old, gone
    <2>1. SumOf(left) \in Nat /\ SumOf(gone) \in Nat /\ SumOf(old) = SumOf(left) + SumOf(gone)
        BY <1>7, <1>8, SumOfUnion
    <2>2. QED BY <2>1
<1>10. QED BY <1>6, <1>9 DEF O, o, J, times

\* journal_under: the history has one more block, and so has the journal.
LEMMA JournalUnderInv ==
    ASSUME IInv, JournalUnder PROVE IInv'
<1> DEFINE nodes == writer.keys
           p == work.parent
           S == work.state
           now == blocks[p].era + 1
           rec == NewRecord(Now, p, S)
           J == JournalWith(Now, journal, p, S)
           times == [s \in ShortKeys |-> TimesInserted(rec.ins, s)]
           ops == JournalOps(Now, journal, latest, p, S)
<1>0. Typed /\ Counted /\ Executing /\ Images /\ Readables /\ Settled
    BY DEF IInv
<1>1. pc = "exec" /\ pc' = "journalled" /\ store' = store /\ work' = work /\ tip' = tip
      /\ snap' = snap /\ reader' = reader /\ writer' = writer
      /\ pending' = {} /\ txo' = EmptyOver(Keys)
    BY DEF JournalUnder
<1>2. Now.blocks = blocks /\ Now.tip = tip
    BY DEF Now
<1>3. /\ batch = <<>> /\ snap.written = Now
      /\ Fits(nodes, Now, journal, latest, View(store))
      /\ \A k \in blocks[tip].state : View(store)[k] # Absent
      /\ View(store)[Latest] = IF latest = NoEra THEN Absent ELSE latest
    BY <1>0, <1>1, Resting
<1>4. MayGrow(nodes, Now, p, S)
    BY <1>0, <1>1, <1>2, Settings DEF MayGrow, Executing, Typed, Images
<1>5. /\ journal \in Journals /\ latest \in Eras \union {NoEra}
      /\ store \in Stores(DbKeys, Cell)
      /\ Spans(Now, journal, latest)
    BY <1>0, <1>3 DEF Typed, Fits
<1>6. /\ p \in DOMAIN blocks /\ blocks[p].state \in SUBSET Keys /\ S \in SUBSET Keys
      /\ Live(Now, p)
    BY <1>2, <1>4, Shape DEF MayGrow, Live
<1>7. Inserted(txo) = rec.ins /\ Removed(txo) = rec.del /\ rec.id = Len(blocks) + 1
    <2>1. Inserted(txo) = S \ blocks[p].state /\ Removed(txo) = blocks[p].state \ S
        BY <1>0, <1>1, <1>6, Gained DEF Executing
    <2>2. QED BY <1>2, <2>1 DEF NewRecord
<1>8. [id |-> Len(blocks) + 1, ins |-> Inserted(txo), del |-> Removed(txo)] = rec
    BY <1>2, <1>7 DEF NewRecord
<1>9. /\ ovl' = [s \in ShortKeys |-> EmplaceTimes(ovl[s], s, times[s])]
      /\ csize' = csize + SumOf(GrownBy(times))
      /\ journal' = [journal EXCEPT ![now] = Append(@, rec)]
      /\ latest' = IF latest = NoEra \/ now > latest THEN now ELSE latest
      /\ earliest' = IF earliest = NoEra \/ earliest > now THEN now ELSE earliest
      /\ batch' = <<[key |-> <<now, Len(journal[now])>>, val |-> rec]>> \o
                  (IF latest = NoEra \/ now > latest THEN <<[key |-> Latest, val |-> now]>> ELSE <<>>)
      /\ blocks' = Append(blocks, [era |-> now, anc |-> blocks[p].anc \union {Len(blocks) + 1},
                                   state |-> S])
    <2> DEFINE entry == [id |-> Len(blocks) + 1, ins |-> Inserted(txo), del |-> Removed(txo)]
               many == [s \in ShortKeys |-> TimesInserted(entry.ins, s)]
    <2>1. /\ ovl' = [s \in ShortKeys |-> EmplaceTimes(ovl[s], s, many[s])]
          /\ csize' = csize + SumOf(GrownBy(many))
          /\ journal' = [journal EXCEPT ![now] = Append(@, entry)]
          /\ batch' = <<[key |-> <<now, Len(journal[now])>>, val |-> entry]>> \o
                  (IF latest = NoEra \/ now > latest THEN <<[key |-> Latest, val |-> now]>> ELSE <<>>)
        BY DEF JournalUnder, Child, NextIndex, IsNewest
    <2>2. /\ latest' = IF latest = NoEra \/ now > latest THEN now ELSE latest
          /\ earliest' = IF earliest = NoEra \/ earliest > now THEN now ELSE earliest
          /\ blocks' = Append(blocks, [era |-> now, anc |-> blocks[p].anc \union {Len(blocks) + 1},
                                   state |-> S])
        BY DEF JournalUnder, Child, IsNewest
    <2>3. entry = rec
        BY <1>8
    <2>4. many = times
        BY SMTT(30), <2>3
    <2> HIDE DEF entry, rec, many, times
    <2>5. QED BY <2>1, <2>2, <2>3, <2>4
<1>10. /\ Now' = Grown(Now, p, S)
       /\ journal' = J
       /\ latest' = LatestWith(Now, latest, p)
       /\ batch' = ops
       /\ Now'.blocks = blocks' /\ Now'.tip = tip
    BY <1>1, <1>2, <1>9 DEF Now, Grown, JournalWith, LatestWith, JournalOps
<1>11. /\ now \in Eras /\ rec \in StoredRecord /\ Len(journal[now]) < MaxBlocks
       /\ J \in Journals /\ LatestWith(Now, latest, p) \in Eras
    <2>1. /\ now \in Eras /\ rec \in StoredRecord /\ Len(journal[now]) + 1 \in 1 .. MaxBlocks
          /\ J \in Journals /\ LatestWith(Now, latest, p) \in Eras
        BY <1>2, <1>4, <1>5, GrownJournal
    <2>2. MaxBlocks \in Nat /\ journal[now] \in Seq(StoredRecord)
        BY <1>5, <2>1, BoundAssumption DEF Journals
    <2>3. Len(journal[now]) \in Nat
        BY <2>2
    <2>4. QED BY <2>1, <2>2, <2>3
<1>12. /\ ops \in Seq(Op) /\ ops # <<>>
       /\ \A i \in DOMAIN ops : ops[i].key \notin Keys
       /\ Journalled(Now, journal, latest, p, S, View(store), View(Recorded(store, ops)))
    BY <1>3, <1>4, <1>5, AppliedJournal
<1>13. Promised' = Now' /\ After' = View(Recorded(store, ops))
    BY <1>1, <1>10 DEF Promised, After
<1>14. Fits(nodes, Now', journal', latest', After')
    <2>1. Fits(nodes, Grown(Now, p, S), J, LatestWith(Now, latest, p), View(Recorded(store, ops)))
        <3> HIDE DEF p, S, ops
        <3>1. QED BY <1>3, <1>4, <1>5, <1>12, FitsGrown
    <2>2. QED BY <1>10, <1>13, <2>1
<1>15. LET n == Len(blocks) + 1
       IN  /\ DOMAIN blocks' = 1 .. n /\ DOMAIN blocks = 1 .. (n - 1) /\ n \in Nat
           /\ Len(blocks') = n
           /\ \A b \in DOMAIN blocks : blocks'[b] = blocks[b] /\ b \in DOMAIN blocks'
           /\ \A b \in DOMAIN blocks : Live(Now', b) <=> Live(Now, b)
           /\ tip \in DOMAIN blocks
    <2> DEFINE g == Grown(Now, p, S)
               n == Len(blocks) + 1
    <2>1. /\ DOMAIN g.blocks = 1 .. n /\ Len(g.blocks) = n /\ n \in 2 .. (MaxBlocks + 1)
          /\ DOMAIN blocks = 1 .. (n - 1)
          /\ \A b \in 1 .. (n - 1) : g.blocks[b] = blocks[b]
        BY <1>2, <1>4, GrownShape
    <2>2. \A b \in 1 .. (n - 1) : Live(g, b) <=> Live(Now, b)
        BY <1>2, <1>4, GrownLive
    <2>3. g.blocks = blocks'
        BY <1>10
    <2>4. tip \in DOMAIN blocks
        BY <1>2, <1>4, Shape DEF MayGrow
    <2>5. \A b \in 1 .. (n - 1) : b \in 1 .. n
        BY <2>1
    <2>6. n \in Nat
        BY <2>1
    <2> HIDE DEF g, n
    <2>7. QED BY <1>10, <2>1, <2>2, <2>3, <2>4, <2>5, <2>6 DEF g, n
<1>16. Typed'
    <2>1. latest' \in Eras /\ journal' \in Journals /\ batch' \in Seq(Op)
        BY <1>10, <1>11, <1>12
    <2>2. txo' \in [Keys -> Slot(ShortKeys)]
        BY <1>1 DEF EmptyOver, Slot
    <2>3. earliest' \in (0 .. (MaxEra + 1)) \union {NoEra}
        <3>1. MaxEra \in Nat
            BY BoundAssumption
        <3>2. now \in 0 .. (MaxEra + 1)
            BY <1>11, <3>1 DEF Eras
        <3> HIDE DEF now
        <3>3. QED BY <1>0, <1>9, <3>2 DEF Typed
    <2>4. work' \in [parent : DOMAIN blocks', state : SUBSET writer'.keys]
        BY <1>0, <1>1, <1>15 DEF Typed
    <2>5. reader' \in [block : DOMAIN blocks', key : Keys] \union {NoRead}
        BY <1>0, <1>1, <1>15 DEF Typed
    <2>6. pending' \subseteq ShortKeys /\ store' \in Stores(DbKeys, Cell)
          /\ pc' \in {"idle", "exec", "journalled", "marked", "written"}
          /\ snap' \in Snapshots /\ writer' \in Writers
        BY <1>0, <1>1 DEF Typed
    <2>7. QED BY <2>1, <2>2, <2>3, <2>4, <2>5, <2>6 DEF Typed
<1>17. Counted'
    <2>1. ovl = Overlay(journal) /\ csize = SumOf({s \in ShortKeys : Contains(ovl[s])})
        BY SMTT(30), <1>0 DEF Counted
    <2>2. /\ Overlay(journal') = [s \in ShortKeys |-> EmplaceTimes(ovl[s], s, times[s])]
          /\ SumOf({s \in ShortKeys : Contains(Overlay(journal')[s])}) =
                 SumOf({s \in ShortKeys : Contains(ovl[s])}) + SumOf(GrownBy(times))
        <3>1. /\ Overlay([journal EXCEPT ![now] = Append(@, rec)]) =
                     [s \in ShortKeys |-> EmplaceTimes(Overlay(journal)[s], s, times[s])]
              /\ SumOf({s \in ShortKeys : Contains(Overlay([journal EXCEPT ![now] = Append(@, rec)])[s])}) =
                     SumOf({s \in ShortKeys : Contains(Overlay(journal)[s])})
                     + SumOf({s \in ShortKeys : times[s] > 0 /\ ~Contains(Overlay(journal)[s])})
            <4> HIDE DEF now, rec
            <4>1. QED BY <1>5, <1>11, OverlayGrown
        <3>2. QED BY <1>9, <2>1, <3>1 DEF GrownBy
    <2>3. ovl' = Overlay(journal')
        BY <1>9, <2>2
    <2>4. csize' = SumOf({s \in ShortKeys : Contains(ovl'[s])})
        <3> HIDE DEF times
        <3>1. QED BY <1>9, <2>1, <2>2, <2>3
    <2>5. latest' # NoEra
        BY <1>10, <1>11, Settings, <1>0 DEF Typed
    <2>6. ASSUME History > 0
          PROVE  earliest' = blocks'[tip'].era + 1
        <3>1. blocks'[tip'].era = blocks[tip].era
            BY <1>1, <1>15
        <3>2. blocks[tip].era \in -1 .. MaxEra /\ blocks[p].era \in -1 .. MaxEra
              /\ blocks[tip].era <= blocks[p].era /\ MaxEra \in Nat
            <4>1. Chronicle(nodes, Now)
                BY <1>4 DEF MayGrow
            <4>2. QED BY <1>2, <1>6, <4>1, AboveTip, Shape
        <3>3. CASE latest = NoEra
            <4>1. earliest = NoEra /\ Len(blocks) = 1 /\ blocks[1].era = -1
                BY <1>0, <3>3 DEF Counted
            <4>2. tip = 1 /\ p = 1
                BY <1>6, <1>15, <4>1
            <4>3. QED BY <1>9, <3>1, <4>1, <4>2
        <3>4. CASE latest # NoEra
            <4>1. earliest = blocks[tip].era + 1
                BY <1>0, <2>6, <3>4 DEF Counted
            <4>2. earliest # NoEra /\ ~(earliest > now)
                <5>1. earliest \in 0 .. (MaxEra + 1)
                    BY <3>2, <4>1
                <5>2. QED BY <3>2, <4>1, <5>1, MarkerAssumption
            <4>3. QED BY <1>9, <3>1, <4>1, <4>2
        <3>5. QED BY <3>3, <3>4
    <2>7. QED BY <2>3, <2>4, <2>5, <2>6 DEF Counted
<1>18. Executing'
    BY <1>1 DEF Executing
<1>19. Images'
    <2>1. Chronicle(nodes, Now')
        BY <1>14 DEF Fits
    <2>2. /\ Image(nodes, snap.written, View(store)) /\ Image(nodes, snap.durable, store.disk)
          /\ Image(nodes, snap.stable.hist, snap.stable.disk)
        BY <1>0 DEF Images
    <2>3. QED BY <1>1, <1>13, <1>14, <2>1, <2>2 DEF Images
<1>20. Readables'
    <2>1. \A k \in blocks'[tip'].state : View(store')[k] # Absent
        BY <1>1, <1>3, <1>15
    <2>2. \A i \in DOMAIN batch' : batch'[i].key \notin Keys
        BY <1>10, <1>12
    <2>3. ReaderNeverMisses'
        <3>1. ASSUME reader # NoRead, Live(Now', reader.block),
                     reader.key \in blocks'[reader.block].state
              PROVE  View(store)[reader.key] # Absent
            <4>1. reader.block \in DOMAIN blocks
                BY <1>0, <3>1 DEF Typed
            <4>2. Live(Now, reader.block) /\ reader.key \in blocks[reader.block].state
                BY <1>15, <3>1, <4>1
            <4>3. QED BY <1>0, <3>1, <4>2 DEF Readables, ReaderNeverMisses
        <3>2. QED BY <1>1, <3>1 DEF ReaderNeverMisses
    <2>4. QED BY <2>1, <2>2, <2>3 DEF Readables
<1>21. Settled'
    <2>1. ASSUME ~writer.lazy
          PROVE  snap.durable = snap.written /\ \A k \in blocks[tip].state : store.disk[k] # Absent
        <3>1. snap.durable = Now
            BY <1>0, <1>1, <1>3, <2>1 DEF Settled
        <3>2. Image(nodes, Now, store.disk)
            BY <1>0, <3>1 DEF Images
        <3>3. QED BY <1>2, <1>3, <3>1, <3>2 DEF Image, Fits, OnDisk
    <2>2. blocks'[tip'].state = blocks[tip].state
        BY SMTT(30), <1>1, <1>15
    <2>3. QED BY <1>1, <2>1, <2>2 DEF Settled
<1>22. QED BY <1>16, <1>17, <1>18, <1>19, <1>20, <1>21 DEF IInv

\* mark_canonical: the tip moves to a child, and its era leaves the journal.
LEMMA MarkCanonicalInv ==
    ASSUME IInv, NEW b \in DOMAIN blocks, MarkCanonical(b) PROVE IInv'
<1> DEFINE nodes == writer.keys
           era == blocks[b].era
           recs == journal[era]
           J == JournalWithout(journal, era)
           ins == Entering(Now, journal, b)
           del == Leaving(Now, journal, b)
           times == [s \in ShortKeys |-> Cardinality({r \in Refs(journal, s) : r[1] = era})]
           ops == batch \o Erasures(recs, era) \o Puts(ins) \o Deletes(del)
<1>0. Typed /\ Counted /\ Executing /\ Images /\ Readables /\ Settled
    BY DEF IInv
<1>1. /\ pc \in {"journalled", "idle"} /\ pc' = "marked"
      /\ b # tip /\ Live(Now, b) /\ era = blocks[tip].era + 1 /\ era + History <= latest
      /\ tip' = b /\ txo' = txo /\ latest' = latest /\ store' = store /\ work' = work
      /\ blocks' = blocks /\ snap' = snap /\ reader' = reader /\ writer' = writer
    BY DEF MarkCanonical, MayMark
<1>2. /\ Now.blocks = blocks /\ Now.tip = tip
      /\ Now' = Marked(Now, b) /\ Promised = Now
      /\ Now'.blocks = blocks /\ Now'.tip = b
    BY <1>1 DEF Now, Marked, Promised
<1>3. /\ journal \in Journals /\ latest \in Eras \union {NoEra} /\ batch \in Seq(Op)
      /\ store \in Stores(DbKeys, Cell)
    BY <1>0 DEF Typed
<1>4. latest \in Eras /\ latest # NoEra
    <2>1. latest = NoEra => DOMAIN blocks = {1} /\ tip = 1
        BY <1>0, Journalling
    <2>2. QED BY <1>1, <1>3, <2>1
<1>5. /\ MayMove(nodes, Now, latest, b)
      /\ Spans(Now, journal, latest) /\ Differences(Now, journal) /\ Records(Now, journal)
      /\ \A e \in Eras : Len(journal[e]) <= MaxBlocks
      /\ MaxBlocks \in Nat
    BY <1>0, <1>1, <1>2, <1>4, Journalling, Settings DEF MayMove, Typed
<1>6. Fits(nodes, Now, journal, latest, After)
    BY <1>0, <1>2 DEF Images
<1>7. /\ era \in Eras /\ era \in Int /\ blocks[tip].era \in Int
      /\ \A c : Live(Now', c) => Live(Now, c)
      /\ Chronicle(nodes, Now')
    <2>1. LET g == Marked(Now, b)
          IN  /\ Now.blocks[b].era \in Eras /\ Now.blocks[b].era \in Int
              /\ Now.blocks[Now.tip].era \in Int
              /\ \A c : Live(g, c) => Live(Now, c)
              /\ Chronicle(nodes, g)
        BY <1>5, MarkedLive
    <2>2. QED BY <1>2, <2>1
<1>8. /\ ins \subseteq Keys /\ Dropped(Now, journal, b) \subseteq Keys
      /\ \A k \in ins : Refs(journal, Short[k]) # {}
      /\ blocks[b].state \ blocks[tip].state \subseteq ins
    <2>1. /\ ins \subseteq Keys /\ Dropped(Now, journal, b) \subseteq Keys
          /\ Now.blocks[b].state \ Now.blocks[Now.tip].state \subseteq ins
          /\ \A k \in ins : Refs(journal, Short[k]) # {} \/ Len(journal[Now.blocks[b].era]) > MaxBlocks
        BY <1>3, <1>5, CanonDifference
    <2>2. Len(journal[era]) \in Nat /\ Len(journal[era]) <= MaxBlocks
        <3>1. journal[era] \in Seq(StoredRecord)
            BY <1>3, <1>7 DEF Journals
        <3>2. QED BY <1>5, <1>7, <3>1
    <2>3. ~(Len(journal[era]) > MaxBlocks)
        BY <1>5, <2>2
    <2>4. QED BY <1>2, <2>1, <2>3
<1>9. /\ ovl = Overlay(journal) /\ csize = SumOf({s \in ShortKeys : Contains(ovl[s])})
      /\ Overlay(J) = [s \in ShortKeys |-> RemoveAndPurgeTimes(ovl[s], times[s])]
      /\ SumOf({s \in ShortKeys : Contains(Overlay(J)[s])}) =
             csize - SumOf({s \in ShortKeys : Count(ovl[s]) \in 1 .. times[s]})
    <2>1. ovl = Overlay(journal) /\ csize = SumOf({s \in ShortKeys : Contains(ovl[s])})
        BY <1>0 DEF Counted
    <2>2. /\ Overlay(J) = [s \in ShortKeys |-> RemoveAndPurgeTimes(Overlay(journal)[s], times[s])]
          /\ SumOf({s \in ShortKeys : Contains(Overlay(J)[s])}) =
                 SumOf({s \in ShortKeys : Contains(Overlay(journal)[s])})
                 - SumOf({s \in ShortKeys : Count(Overlay(journal)[s]) \in 1 .. times[s]})
        <3> HIDE DEF era
        <3>1. QED BY <1>3, <1>7, OverlayCleared
    <2>3. QED BY <2>1, <2>2
<1>10. {k \in ins : ovl[Short[k]] # NoEntry /\ ovl[Short[k]].rc > 0} = ins
    <2>1. ASSUME NEW k \in ins
          PROVE  ovl[Short[k]] # NoEntry /\ ovl[Short[k]].rc > 0
        <3>1. Short[k] \in ShortKeys /\ Refs(journal, Short[k]) # {}
            BY <1>8, KeyAssumption
        <3>2. Contains(Overlay(journal)[Short[k]])
            BY <3>1, OverlayEntry
        <3>3. QED BY <1>9, <3>2 DEF Contains, Count
    <2>2. QED BY <2>1
<1>11. Deletable(Dropped(Now, journal, b), Overlay(J)) = del
    <2>1. ASSUME NEW k \in Dropped(Now, journal, b)
          PROVE  ~Contains(Overlay(J)[Short[k]]) <=> Refs(J, Short[k]) = {}
        <3>1. Short[k] \in ShortKeys
            BY <1>8, KeyAssumption
        <3>2. QED BY <3>1, OverlayEntry
    <2>2. del = {k \in Dropped(Now, journal, b) : Refs(J, Short[k]) = {}}
        BY <1>2 DEF Leaving
    <2>3. QED BY <2>1, <2>2 DEF Deletable
<1>12. /\ batch' = ops
       /\ pending' = pending \union Transferring(ins)
       /\ ovl' = Overlay(J)
       /\ csize' = csize - SumOf({s \in ShortKeys : Count(ovl[s]) \in 1 .. times[s]})
       /\ journal' = J
       /\ earliest' = IF JournalledEras(J) # {} THEN era + 1 ELSE earliest
    <2> DEFINE canon == {i \in DOMAIN recs : recs[i].id = b}
               come == {k \in UNION {recs[i].ins : i \in canon} :
                           ovl[Short[k]] # NoEntry /\ ovl[Short[k]].rc > 0}
               after == [s \in ShortKeys |-> RemoveAndPurgeTimes(ovl[s], times[s])]
               go == Deletable(UNION {recs[i].del : i \in canon}, after)
    <2>1. /\ batch' = batch \o Erasures(recs, era) \o Puts(come) \o Deletes(go)
          /\ pending' = pending \union Transferring(come)
          /\ ovl' = after
          /\ csize' = csize - SumOf({s \in ShortKeys : Count(ovl[s]) \in 1 .. times[s]})
          /\ journal' = [journal EXCEPT ![era] = <<>>]
          /\ earliest' = IF JournalledEras(journal') # {} THEN EarliestAfter(era) ELSE earliest
        BY DEF MarkCanonical, Erasures
    <2>2. /\ UNION {recs[i].ins : i \in canon} = ins
          /\ UNION {recs[i].del : i \in canon} = Dropped(Now, journal, b)
        BY <1>2 DEF Entering, Dropped, Canon
    <2>3. come = ins
        BY <1>10, <2>2
    <2>4. after = Overlay(J)
        BY <1>9
    <2>5. go = del
        BY <1>11, <2>2, <2>4
    <2> HIDE DEF come, go, after
    <2>6. journal' = J
        BY <2>1 DEF JournalWithout
    <2>7. QED BY <2>1, <2>3, <2>4, <2>5, <2>6 DEF EarliestAfter
<1>13. /\ ops \in Seq(Op)
       /\ Moved(Now, journal, b, After, View(Recorded(store, ops)))
       /\ \A i \in DOMAIN ops : ops[i].key \in Keys /\ ops[i].val = Deleted =>
              \/ ops[i].key \in del
              \/ \E m \in DOMAIN batch : batch[m] = ops[i]
    <2>1. LET o == MarkOps(Now, journal, b, batch)
          IN  /\ o \in Seq(Op)
              /\ Moved(Now, journal, b, View(Recorded(store, batch)), View(Recorded(store, o)))
              /\ \A i \in DOMAIN o : o[i].key \in Keys /\ o[i].val = Deleted =>
                     \/ o[i].key \in Leaving(Now, journal, b)
                     \/ \E m \in DOMAIN batch : batch[m] = o[i]
        <3> HIDE DEF nodes
        <3>1. QED BY <1>3, <1>5, AppliedMark
    <2>1a. ops = MarkOps(Now, journal, b, batch)
        BY <1>2 DEF MarkOps
    <2> HIDE DEF ops
    <2>2. QED BY <2>1, <2>1a DEF After
<1>14. Promised' = Now' /\ After' = View(Recorded(store, ops))
    BY <1>1, <1>4, <1>12 DEF Promised, After
<1>15. /\ Fits(nodes, Now', J, latest, After')
       /\ \A k \in del : \A c : Live(Now', c) => k \notin blocks[c].state
    <2> DEFINE db2 == View(Recorded(store, ops))
    <2>1. /\ Fits(nodes, Marked(Now, b), JournalWithout(journal, Now.blocks[b].era), latest, db2)
          /\ \A k \in del : \A c : Live(Marked(Now, b), c) => k \notin Now.blocks[c].state
        <3>1. Moved(Now, journal, b, After, db2)
            BY <1>13
        <3> HIDE DEF db2
        <3>2. QED BY <1>3, <1>4, <1>5, <1>6, <3>1, FitsMarked
    <2>2. QED BY <1>2, <1>14, <2>1
<1>16. Typed'
    <2>1. J \in Journals
        BY <1>3, <1>7, MarkedJournal
    <2>2. Transferring(ins) \subseteq ShortKeys
        BY <1>8, KeyAssumption DEF Transferring
    <2>3. earliest' \in (0 .. (MaxEra + 1)) \union {NoEra}
        <3>1. MaxEra \in Nat
            BY BoundAssumption
        <3>2. era + 1 \in 0 .. (MaxEra + 1)
            BY <1>7, <3>1 DEF Eras
        <3> HIDE DEF era
        <3>3. QED BY <1>0, <1>12, <3>2 DEF Typed
    <2>4. batch' \in Seq(Op)
        BY <1>12, <1>13
    <2>5. pending' \subseteq ShortKeys
        BY <1>0, <1>12, <2>2 DEF Typed
    <2> HIDE DEF J
    <2>6. journal' \in Journals
        BY <1>12, <2>1
    <2>7. QED BY <1>0, <1>1, <2>3, <2>4, <2>5, <2>6 DEF Typed
<1>17. Counted'
    <2>1. ovl' = Overlay(journal')
        BY <1>12
    <2>2. csize' = SumOf({s \in ShortKeys : Contains(ovl'[s])})
        BY <1>9, <1>12
    <2>3. ASSUME History > 0
          PROVE  earliest' = blocks'[tip'].era + 1
        <3>1. Spans(Now', J, latest) /\ Now'.blocks[Now'.tip].era = era
            BY <1>2, <1>15 DEF Fits
        <3>2. /\ era < latest
              /\ \A e \in Eras : J[e] # <<>> <=> era < e /\ e <= latest
            BY <1>4, <2>3, <3>1 DEF Spans
        <3>3. -1 <= era
            BY <1>7 DEF Eras
        <3> HIDE DEF era, J
        <3>4. JournalledEras(J) # {}
            BY <1>4, <1>7, <3>2, <3>3, FirstEra
        <3>5. earliest' = era + 1
            BY <1>12, <3>4
        <3>6. QED BY <1>1, <3>5 DEF era
    <2>4. QED BY <1>1, <1>4, <2>1, <2>2, <2>3 DEF Counted
<1>18. Executing'
    BY <1>0, <1>1 DEF Executing
<1>19. Images'
    <2>1. /\ Image(nodes, snap.written, View(store)) /\ Image(nodes, snap.durable, store.disk)
          /\ Image(nodes, snap.stable.hist, snap.stable.disk)
        BY <1>0 DEF Images
    <2>2. Fits(nodes, Promised', journal', latest', After')
        BY <1>1, <1>12, <1>14, <1>15
    <2>3. QED BY <1>1, <1>7, <2>1, <2>2 DEF Images
<1>20. \A k \in blocks[b].state : k \in blocks[tip].state \/ Short[k] \in pending'
    <2>1. \A k \in ins : Short[k] \in Transferring(ins)
        BY DEF Transferring
    <2>2. QED BY <1>8, <1>12, <2>1
<1>21. Readables'
    <2>1. \A k \in blocks[b].state : Short[k] \in pending' \/ View(store)[k] # Absent
        BY <1>0, <1>12, <1>20 DEF Readables
    <2>2. ASSUME NEW i \in DOMAIN ops, ops[i].key \in Keys, ops[i].val = Deleted,
                 NEW c \in DOMAIN blocks, Live(Now', c)
          PROVE  ops[i].key \notin blocks[c].state
        <3>1. CASE ops[i].key \in del
            BY <1>15, <2>2, <3>1
        <3>2. CASE \E m \in DOMAIN batch : batch[m] = ops[i]
            BY <1>0, <1>7, <2>2, <3>2 DEF Readables
        <3>3. QED BY <1>13, <2>2, <3>1, <3>2
    <2>3. ReaderNeverMisses'
        BY SMTT(30), <1>0, <1>1, <1>7 DEF Readables, ReaderNeverMisses
    <2>4. \A i \in DOMAIN batch' : batch'[i].key \in Keys /\ batch'[i].val = Deleted =>
              \A c \in DOMAIN blocks' : Live(Now', c) => batch'[i].key \notin blocks'[c].state
        BY <1>1, <1>12, <2>2
    <2>5. QED BY <1>1, <2>1, <2>3, <2>4 DEF Readables
<1>22. Settled'
    <2>1. ASSUME ~writer.lazy
          PROVE  snap.durable = snap.written
                 /\ \A k \in blocks[b].state : Short[k] \in pending' \/ store.disk[k] # Absent
        <3>1. /\ snap.durable = snap.written
              /\ \A k \in blocks[tip].state : Short[k] \in pending \/ store.disk[k] # Absent
            BY <1>0, <1>1, <1>4, <2>1 DEF Settled
        <3>2. QED BY <1>12, <1>20, <3>1
    <2>2. QED BY <1>1, <2>1 DEF Settled
<1>23. QED BY <1>16, <1>17, <1>18, <1>19, <1>21, <1>22 DEF IInv

-------------------------------------------------------------------------------
(* inject, write and a crash.                                              *)

\* inject: until the batch is written the root has what both states have.
LEMMA InjectInv ==
    ASSUME IInv, Inject PROVE IInv'
<1> DEFINE nodes == writer.keys
           old == blocks[1].state
           S == work.state
           both == old \intersect S
           ops == Puts(S \ old) \o Deletes(old \ S)
<1>0. Typed /\ Counted /\ Executing /\ Images /\ Readables /\ Settled
    BY DEF IInv
<1>1. /\ pc = "exec" /\ pc' = "marked" /\ latest = NoEra /\ latest' = latest
      /\ batch' = Puts(Inserted(txo)) \o Deletes(Removed(txo))
      /\ txo' = EmptyOver(Keys)
      /\ blocks' = <<[Root EXCEPT !.state = both]>>
      /\ ovl' = ovl /\ pending' = pending /\ journal' = journal /\ earliest' = earliest
      /\ csize' = csize /\ store' = store /\ work' = work /\ tip' = tip /\ snap' = snap
      /\ reader' = reader /\ writer' = writer
    BY DEF Inject
<1>2. /\ batch = <<>> /\ snap.written = Now
      /\ Fits(nodes, Now, journal, latest, View(store))
      /\ \A k \in blocks[tip].state : View(store)[k] # Absent
    BY <1>0, <1>1, Resting
<1>3. /\ Now.blocks = blocks /\ Now.tip = tip /\ DOMAIN blocks = {1} /\ tip = 1
      /\ Chronicle(nodes, Now)
    BY <1>0, <1>1, Journalling
<1>4. /\ journal \in Journals /\ store \in Stores(DbKeys, Cell) /\ nodes \subseteq Keys
      /\ S \subseteq nodes /\ work.parent = 1
    BY <1>0, <1>3, Settings DEF Typed
<1>5. old \in SUBSET Keys /\ S \in SUBSET Keys /\ both \subseteq nodes /\ Live(Now, 1)
    <2>1. old \in SUBSET Keys
        BY <1>3, Shape
    <2>2. Live(Now, 1)
        BY <1>3, AboveTip, <1>0, <1>1, <1>4 DEF Executing
    <2>3. QED BY <1>4, <2>1, <2>2
<1>6. batch' = ops
    <2>1. Inserted(txo) = S \ old /\ Removed(txo) = old \ S
        <3>1. \A k \in Keys : Count(txo[k]) = (IF k \in S THEN 1 ELSE 0) - (IF k \in old THEN 1 ELSE 0)
            BY <1>0, <1>1, <1>4 DEF Executing
        <3> HIDE DEF S, old
        <3>2. QED BY <1>5, <3>1, Gained
    <2>2. QED BY <1>1, <2>1
<1>7. /\ ops \in Seq(Op)
      /\ \A i \in DOMAIN ops : ops[i].val = Deleted => ops[i].key \in old \ S
      /\ Injected(old, S, View(store), View(Recorded(store, ops)))
    <2> HIDE DEF old, S
    <2>1. QED BY <1>4, <1>5, AppliedInject
<1>8. Now' = Single(both) /\ Promised' = Single(S) /\ After' = View(Recorded(store, ops))
    BY <1>1, <1>3, <1>6 DEF Now, Promised, Single, After
<1>9. Fits(nodes, Promised', journal', latest', After')
    <2> DEFINE db2 == View(Recorded(store, ops))
    <2>1. Injected(Now.blocks[1].state, S, View(store), db2)
        BY <1>3, <1>7
    <2>2. Fits(nodes, Now, journal, NoEra, View(store))
        BY <1>1, <1>2
    <2> HIDE DEF db2, S, nodes
    <2>3. Fits(nodes, Single(S), journal, NoEra, db2)
        BY <1>4, <2>1, <2>2, FitsInjected
    <2>4. QED BY <1>1, <1>8, <2>3 DEF db2
<1>10. /\ Chronicle(nodes, Now') /\ DOMAIN blocks' = {1} /\ Len(blocks') = 1
       /\ blocks'[1].era = -1 /\ blocks'[1].state = both
       /\ \A c : Live(Now', c) => c = 1
    <2>1. /\ Chronicle(nodes, Single(both)) /\ DOMAIN Single(both).blocks = {1}
          /\ Len(Single(both).blocks) = 1
          /\ Single(both).blocks[1].era = -1 /\ Single(both).blocks[1].state = both
        <3> HIDE DEF both, nodes
        <3>1. QED BY <1>4, <1>5, SingleShape
    <2>2. Single(both).blocks = blocks'
        BY <1>1 DEF Single
    <2> HIDE DEF both
    <2>3. \A c : Live(Single(both), c) => c = 1
        BY <2>1 DEF Live
    <2>4. QED BY <1>8, <2>1, <2>2, <2>3
<1>11. Typed'
    <2>1. work' \in [parent : DOMAIN blocks', state : SUBSET writer'.keys]
        BY <1>0, <1>1, <1>3, <1>10 DEF Typed
    <2>2. reader' \in [block : DOMAIN blocks', key : Keys] \union {NoRead}
        BY <1>0, <1>1, <1>3, <1>10 DEF Typed
    <2>3. txo' \in [Keys -> Slot(ShortKeys)]
        BY <1>1 DEF EmptyOver, Slot
    <2>4. batch' \in Seq(Op)
        BY <1>6, <1>7
    <2>5. QED BY <1>0, <1>1, <2>1, <2>2, <2>3, <2>4 DEF Typed
<1>12. Counted'
    BY <1>0, <1>1, <1>10 DEF Counted
<1>13. Executing'
    BY <1>1 DEF Executing
<1>14. Images'
    BY <1>0, <1>1, <1>9, <1>10 DEF Images
<1>15. Readables'
    <2>1. \A k \in blocks'[tip'].state : View(store')[k] # Absent
        BY <1>1, <1>2, <1>3, <1>10
    <2>2. \A i \in DOMAIN batch' : batch'[i].key \in Keys /\ batch'[i].val = Deleted =>
              \A c \in DOMAIN blocks' : Live(Now', c) => batch'[i].key \notin blocks'[c].state
        BY <1>6, <1>7, <1>10
    <2>3. ReaderNeverMisses'
        BY <1>0, <1>1, <1>3, <1>5, <1>10 DEF Readables, ReaderNeverMisses
    <2>4. QED BY <2>1, <2>2, <2>3 DEF Readables
<1>16. Settled'
    BY <1>0, <1>1 DEF Settled
<1>17. QED BY <1>11, <1>12, <1>13, <1>14, <1>15, <1>16 DEF IInv

\* write_buffered, of a batch that fits in: what was promised is visible.
LEMMA WriteInv ==
    ASSUME IInv, Roomy, Write PROVE IInv'
<1> DEFINE nodes == writer.keys
<1>0. Typed /\ Counted /\ Executing /\ Images /\ Readables /\ Settled
    BY DEF IInv
<1>1. /\ journal \in Journals /\ latest \in Eras \union {NoEra} /\ batch \in Seq(Op)
      /\ store \in Stores(DbKeys, Cell)
    BY <1>0 DEF Typed
<1>2. /\ Written(store, batch, MaxOverlay) = Recorded(store, batch)
      /\ Unwritten(store, batch, MaxOverlay) = <<>>
    <2>1. \A q \in Seq(Op) : \A i \in DOMAIN q : q[i] \in Op
        OBVIOUS
    <2>2. \A i \in DOMAIN batch : batch[i].val \in Cell
        BY <1>1, <2>1 DEF Op, Cell
    <2>3. QED BY <1>1, <2>2, WrittenWhole
<1>3. /\ pc \in {"journalled", "marked"} /\ pc' = "written"
      /\ store' = Recorded(store, batch) /\ batch' = <<>>
      /\ blocks' = IF latest = NoEra THEN <<[Root EXCEPT !.state = work.state]>> ELSE blocks
      /\ snap' = [snap EXCEPT !.written = [tip |-> tip, blocks |-> blocks']]
      /\ txo' = txo /\ ovl' = ovl /\ pending' = pending /\ journal' = journal
      /\ latest' = latest /\ earliest' = earliest /\ csize' = csize
      /\ work' = work /\ tip' = tip /\ reader' = reader /\ writer' = writer
    BY <1>0, <1>2 DEF Write, memory, Typed
<1>4. /\ Now' = Promised /\ Promised' = Now' /\ Now'.blocks = blocks' /\ Now'.tip = tip
    <2>1. latest = NoEra => pc = "marked"
        BY <1>0, <1>3 DEF Counted
    <2>2. Now' = [tip |-> tip, blocks |-> blocks']
        BY <1>3 DEF Now
    <2>3. Now' = Promised
        BY <1>3, <2>1, <2>2 DEF Now, Promised
    <2>4. QED BY <1>3, <2>2, <2>3 DEF Promised, Now
<1>5. /\ store' \in Stores(DbKeys, Cell) /\ store'.disk = store.disk
      /\ After = View(store') /\ After' = View(store')
      /\ \A k \in DbKeys : View(store')[k] =
             IF OnKey(batch, k) = {} THEN View(store)[k]
             ELSE Outcome(batch[Max(OnKey(batch, k))].val)
    <2>1. /\ Recorded(store, batch) \in Stores(DbKeys, Cell)
          /\ Recorded(store, batch).disk = store.disk
          /\ \A k \in DbKeys : View(Recorded(store, batch))[k] =
                 IF OnKey(batch, k) = {} THEN View(store)[k]
                 ELSE Outcome(batch[Max(OnKey(batch, k))].val)
        BY <1>1, Batches, RecordedView
    <2>2. Recorded(Recorded(store, batch), <<>>) = Recorded(store, batch)
        BY <2>1, NothingRecorded
    <2>3. QED BY <1>3, <2>1, <2>2 DEF After
<1>6. /\ Fits(nodes, Now', journal, latest, View(store'))
      /\ Image(nodes, Now', View(store'))
      /\ Chronicle(nodes, Now')
      /\ \A k \in blocks'[tip].state : View(store')[k] # Absent
    <2>1. Fits(nodes, Now', journal, latest, View(store'))
        BY <1>0, <1>4, <1>5 DEF Images
    <2>2. Image(nodes, Now', View(store'))
        BY <1>1, <2>1, FitsReads
    <2>3. QED BY <1>4, <2>1, <2>2 DEF Fits, OnDisk
<1>7. latest = NoEra => DOMAIN blocks = {1} /\ DOMAIN blocks' = {1} /\ tip = 1
                        /\ Len(blocks') = 1 /\ blocks'[1].era = -1
    <2>1. latest = NoEra => DOMAIN blocks = {1} /\ tip = 1
        BY <1>0, Journalling
    <2>2. latest = NoEra => Len(blocks') = 1 /\ DOMAIN blocks' = {1} /\ blocks'[1].era = -1
        BY <1>3 DEF Root
    <2>3. QED BY <2>1, <2>2
<1>8. DOMAIN blocks' = DOMAIN blocks
    BY <1>3, <1>7
<1>9. Typed'
    <2>1. snap' \in Snapshots
        <3>1. Now' = [tip |-> tip, blocks |-> blocks']
            BY <1>3 DEF Now
        <3>2. Now' \in Histories
            BY <1>6 DEF Chronicle
        <3>3. QED BY <1>0, <1>3, <3>1, <3>2 DEF Typed, Snapshots
    <2>2. batch' \in Seq(Op)
        BY <1>3
    <2>3. QED BY <1>0, <1>3, <1>5, <1>8, <2>1, <2>2 DEF Typed
<1>10. Counted'
    <2>1. latest # NoEra => blocks' = blocks
        BY <1>3
    <2>2. QED BY <1>0, <1>3, <1>7, <2>1 DEF Counted
<1>11. Executing'
    BY <1>0, <1>3 DEF Executing
<1>12. Images'
    <2>1. snap'.written = Now' /\ snap'.durable = snap.durable /\ snap'.stable = snap.stable
        BY <1>0, <1>3 DEF Now, Typed, Snapshots
    <2>2. Image(nodes, snap.durable, store.disk)
          /\ Image(nodes, snap.stable.hist, snap.stable.disk)
        BY <1>0 DEF Images
    <2>3. Fits(nodes, Promised', journal', latest', After')
        BY <1>3, <1>4, <1>5, <1>6
    <2>4. QED BY <1>3, <1>5, <1>6, <2>1, <2>2, <2>3 DEF Images
<1>13. ASSUME reader # NoRead, Live(Now', reader.block),
              reader.key \in blocks'[reader.block].state
       PROVE  View(store')[reader.key] # Absent
    <2>1. reader.block \in DOMAIN blocks /\ reader.key \in Keys
        BY <1>0, <1>13 DEF Typed
    <2>2. CASE latest = NoEra
        BY <1>6, <1>7, <1>13, <2>1, <2>2
    <2>3. CASE latest # NoEra
        <3>1. blocks' = blocks /\ Now' = Now
            BY <1>3, <2>3 DEF Now
        <3>2. Live(Now, reader.block) /\ reader.key \in blocks[reader.block].state
            BY <1>13, <3>1
        <3>3. View(store)[reader.key] # Absent
            BY <1>0, <1>13, <3>2 DEF Readables, ReaderNeverMisses
        <3>4. reader.key \in DbKeys
            BY <2>1, DistinctKeys
        <3>5. CASE OnKey(batch, reader.key) = {}
            BY <1>5, <3>3, <3>4, <3>5
        <3>6. CASE OnKey(batch, reader.key) # {}
            <4> DEFINE i == Max(OnKey(batch, reader.key))
            <4>1. i \in DOMAIN batch /\ batch[i].key = reader.key
                <5>1. Len(batch) \in Nat /\ DOMAIN batch = 1 .. Len(batch)
                    BY <1>1
                <5>2. QED BY <3>6, <5>1, LastOnKey
            <4>2. \A q \in Seq(Op) : \A m \in DOMAIN q : q[m] \in Op
                OBVIOUS
            <4>3. batch[i].val \in ShortKeys \union Eras \union StoredRecord \union {Deleted}
                BY <1>1, <4>1, <4>2 DEF Op
            <4>4. batch[i].val # Deleted
                BY <1>0, <2>1, <3>2, <4>1 DEF Readables
            <4>5. Outcome(batch[i].val) # Absent
                BY <4>3, <4>4, Operations
            <4>6. QED BY <1>5, <3>4, <3>6, <4>5
        <3>7. QED BY <3>5, <3>6
    <2>4. QED BY <2>2, <2>3
<1>14. Readables'
    <2>1. ReaderNeverMisses'
        BY <1>3, <1>13 DEF ReaderNeverMisses
    <2>2. \A k \in blocks'[tip'].state : View(store')[k] # Absent
        BY <1>3, <1>6
    <2>3. DOMAIN batch' = {}
        BY <1>3
    <2>4. QED BY <2>1, <2>2, <2>3 DEF Readables
<1>15. Settled'
    <2>1. latest # NoEra => blocks' = blocks
        BY <1>3
    <2>2. QED BY <1>0, <1>3, <1>5, <2>1 DEF Settled
<1>16. QED BY <1>9, <1>10, <1>11, <1>12, <1>14, <1>15 DEF IInv

\* A crash: what RocksDB still has is read from the disk.
LEMMA CrashInv ==
    ASSUME IInv, Crash PROVE IInv'
<1> DEFINE nodes == writer.keys
           h == Stable.hist
           db == Stable.disk
           found == ReadOverlay(db)
<1>0. Typed /\ Counted /\ Executing /\ Images /\ Readables /\ Settled
    BY DEF IInv
<1>1. /\ store' = [buf |-> EmptyBuf(DbKeys), disk |-> db]
      /\ ovl' = found.ovl /\ journal' = found.journal /\ latest' = found.latest
      /\ earliest' = found.earliest /\ csize' = found.csize
      /\ txo' = EmptyOver(Keys) /\ pending' = {} /\ batch' = <<>> /\ pc' = "idle"
      /\ work' = [parent |-> 1, state |-> {}]
      /\ blocks' = h.blocks /\ tip' = h.tip
      /\ snap' = [snap EXCEPT !.written = h, !.durable = h]
      /\ reader' = NoRead /\ writer' = writer
    BY DEF Crash
<1>2. /\ found.journal \in Journals /\ found.latest \in Eras \union {NoEra}
      /\ Fits(nodes, h, found.journal, found.latest, db)
      /\ found.ovl = Overlay(found.journal)
      /\ found.csize = SumOf({s \in ShortKeys : Contains(found.ovl[s])})
      /\ found.earliest = IF JournalledEras(found.journal) = {} THEN NoEra
                          ELSE Min(JournalledEras(found.journal))
    <2>1. Image(nodes, h, db)
        BY StableImage
    <2> HIDE DEF h, db, nodes
    <2>2. QED BY <2>1, ImageReads
<1>20. h \in Histories /\ db \in [DbKeys -> Cell] /\ Image(nodes, h, db)
    BY StableImage
<1> HIDE DEF found, h, db
<1>3. /\ snap \in Snapshots
      /\ store \in Stores(DbKeys, Cell) /\ writer \in Writers
    BY <1>0 DEF Typed
<1>4. Now' = h /\ Promised' = h /\ snap'.written = h /\ snap'.durable = h
      /\ snap'.stable = snap.stable /\ snap' \in Snapshots
    <2>1. h \in Histories
        BY <1>20
    <2>2. h = [tip |-> h.tip, blocks |-> h.blocks]
        BY <2>1 DEF Histories
    <2>3. Now' = h
        BY <1>1, <2>2 DEF Now
    <2>4. Promised' = h
        BY <1>1, <2>3 DEF Promised, Now
    <2>5. QED BY <1>1, <1>3, <2>1, <2>3, <2>4 DEF Snapshots
<1>5. /\ store' \in Stores(DbKeys, Cell) /\ View(store') = db /\ store'.disk = db
      /\ After' = db
    <2>1. db \in [DbKeys -> Cell] /\ DOMAIN db = DbKeys /\ Unbuffered \in Cell
        BY <1>20 DEF Cell
    <2>2. store' = [buf |-> EmptyBuf(DbKeys), disk |-> db]
        BY <1>1
    <2>3. Deleted # Unbuffered
        BY MarkerAssumption
    <2>4. store'.disk = db
        BY <2>2
    <2>5. store' \in Stores(DbKeys, Cell) /\ View(store') = db
        BY <2>1, <2>2, <2>3, UnbufferedView
    <2>6. Recorded(store', <<>>) = store'
        BY <2>5, NothingRecorded
    <2>7. QED BY <1>1, <2>4, <2>5, <2>6 DEF After
<1>6. Fits(nodes, Now', journal', latest', After') /\ Image(nodes, h, db)
      /\ Image(nodes, snap.stable.hist, snap.stable.disk)
    BY <1>0, <1>1, <1>2, <1>4, <1>5, <1>20 DEF Images
<1>7. /\ Chronicle(nodes, h) /\ Spans(h, found.journal, found.latest)
      /\ \A k \in h.blocks[h.tip].state : db[k] # Absent
      /\ Now'.blocks = blocks' /\ Now'.tip = tip'
    BY <1>1, <1>2, <1>4 DEF Fits, OnDisk
<1>8. Counted'
    <2>1. latest' = NoEra => earliest' = NoEra /\ Len(blocks') = 1 /\ blocks'[1].era = -1
        <3>1. ASSUME found.latest = NoEra
              PROVE  /\ \A e \in Eras : found.journal[e] = <<>>
                     /\ Len(h.blocks) = 1 /\ h.blocks[1].era = -1
            <4> HIDE DEF nodes
            <4>1. QED BY <1>2, <1>7, <3>1, NoJournal
        <3>2. (\A e \in Eras : found.journal[e] = <<>>) => JournalledEras(found.journal) = {}
            BY DEF JournalledEras
        <3>3. QED BY <1>1, <1>2, <3>1, <3>2
    <2>2. ASSUME History > 0, latest' # NoEra
          PROVE  earliest' = blocks'[tip'].era + 1
        <3> DEFINE j == found.journal
                   l == found.latest
                   low == h.blocks[h.tip].era
        <3>1. /\ l \in Eras /\ low < l
              /\ \A e \in Eras : j[e] # <<>> <=> low < e /\ e <= l
            BY <1>1, <1>2, <1>7, <2>2 DEF Spans
        <3>2. low \in Int /\ -1 <= low
            <4>1. low \in -1 .. MaxEra /\ MaxEra \in Nat
                BY <1>7, Shape
            <4>2. QED BY <4>1
        <3> HIDE DEF j, l, low
        <3>3. JournalledEras(j) # {} /\ Min(JournalledEras(j)) = low + 1
            BY <3>1, <3>2, FirstEra
        <3>4. QED BY <1>1, <1>2, <3>3 DEF j, low
    <2>3. QED BY <1>1, <1>2, <2>1, <2>2 DEF Counted
<1>9. Typed'
    <2>1. earliest' \in (0 .. (MaxEra + 1)) \union {NoEra}
        <3>1. MaxEra \in Nat
            BY BoundAssumption
        <3>2. JournalledEras(found.journal) \subseteq Eras /\ Eras \subseteq Nat
              /\ Eras \subseteq 0 .. (MaxEra + 1)
            BY <3>1 DEF JournalledEras, Eras
        <3>3. JournalledEras(found.journal) # {} =>
                  Min(JournalledEras(found.journal)) \in JournalledEras(found.journal)
            BY <3>2, MinIn
        <3>4. QED BY <1>1, <1>2, <3>2, <3>3
    <2>2. 1 \in DOMAIN blocks'
        <3>1. DOMAIN h.blocks = 1 .. Len(h.blocks) /\ Len(h.blocks) \in 1 .. (MaxBlocks + 1)
              /\ MaxBlocks \in Nat
            BY <1>7, Shape
        <3>2. QED BY <1>1, <3>1
    <2>3. work' \in [parent : DOMAIN blocks', state : SUBSET writer'.keys]
        BY <1>1, <2>2
    <2>4. txo' \in [Keys -> Slot(ShortKeys)]
        BY <1>1 DEF EmptyOver, Slot
    <2>5. batch' \in Seq(Op)
        BY <1>1
    <2>6. QED BY <1>1, <1>2, <1>3, <1>4, <1>5, <2>1, <2>3, <2>4, <2>5 DEF Typed
<1>10. Executing'
    BY <1>1 DEF Executing
<1>11. Images'
    BY <1>1, <1>4, <1>5, <1>6, <1>7 DEF Images
<1>12. Readables'
    BY <1>1, <1>5, <1>7 DEF Readables, ReaderNeverMisses
<1>13. Settled'
    BY <1>1, <1>4, <1>5, <1>7 DEF Settled
<1>14. QED BY <1>8, <1>9, <1>10, <1>11, <1>12, <1>13 DEF IInv

-------------------------------------------------------------------------------
(* The theorems.                                                           *)

\* Every step preserves the invariant.
LEMMA NextInv ==
    ASSUME IInv, Roomy, [Next]_vars PROVE IInv'
<1>1. CASE UNCHANGED vars
    <2>1. /\ txo' = txo /\ ovl' = ovl /\ pending' = pending /\ journal' = journal
          /\ latest' = latest /\ earliest' = earliest /\ csize' = csize /\ batch' = batch
          /\ store' = store /\ blocks' = blocks /\ tip' = tip /\ snap' = snap
          /\ pc' = pc /\ work' = work /\ reader' = reader /\ writer' = writer
        BY <1>1 DEF vars, memory, history
    <2>2. Now' = Now
        BY <2>1 DEF Now
    <2>3. Typed' /\ Counted' /\ Executing'
        BY <2>1, <2>2 DEF IInv, Typed, Counted, Executing
    <2>4. Images'
        BY <2>1, SameImages DEF IInv
    <2>5. Readables' /\ Settled'
        BY <2>1, <2>2 DEF IInv, Readables, ReaderNeverMisses, Settled
    <2>6. QED BY <2>3, <2>4, <2>5 DEF IInv
<1>2. ASSUME NEW b \in DOMAIN blocks, Begin(b) PROVE IInv'
    BY <1>2, BeginInv
<1>3. ASSUME NEW b \in DOMAIN blocks, MarkCanonical(b) PROVE IInv'
    BY <1>3, MarkCanonicalInv
<1>4. ASSUME NEW k \in Keys, Insert(k) \/ Remove(k) PROVE IInv'
    BY <1>4, TouchInv
<1>5. ASSUME NEW b \in DOMAIN blocks, NEW k \in Keys, ReadMiss(b, k) PROVE IInv'
    BY <1>5, ReadMissInv
<1>6. CASE JournalUnder
    BY <1>6, JournalUnderInv
<1>7. CASE Inject
    BY <1>7, InjectInv
<1>8. CASE Write
    BY <1>8, WriteInv
<1>9. CASE KvFlush
    BY <1>9, KvFlushInv
<1>10. CASE ClearPending \/ KeepPending
    BY <1>10, PendingInv
<1>11. CASE Crash
    BY <1>11, CrashInv
<1>12. CASE ReadPayload
    BY <1>12, ReadPayloadInv
<1>13. CASE MemtableFlush
    BY <1>13, MemtableFlushInv
<1>14. QED
    BY <1>1, <1>2, <1>3, <1>4, <1>5, <1>6, <1>7, <1>8, <1>9, <1>10, <1>11, <1>12, <1>13
    DEF Next

\* The inductive invariant of the journal: what is in memory fits what is
\* visible, or will be when the batch is written; what is on disk fits what was
\* flushed last, and what a crash leaves fits a flush before.
THEOREM Invariance == Roomy => (Spec => []IInv)
<1>1. Init => IInv
    BY InitInv
<1>2. Roomy /\ IInv /\ [Next]_vars => IInv'
    BY NextInv
<1>3. CASE Roomy
    <2>1. IInv /\ [Next]_vars => IInv'
        BY <1>2, <1>3
    <2>2. QED BY <1>1, <2>1, PTL DEF Spec
<1>4. QED BY <1>3

\* The overlays, the journal and the batches keep to their types.
THEOREM TypeCorrect == Roomy => (Spec => []TypeOK)
<1>1. IInv => TypeOK
    BY InvTypeOK
<1>2. QED BY <1>1, Invariance, PTL

\* get never misses a node of a state that has not been pruned out, whatever
\* forks compete for it and however far a commit has come.
THEOREM NodesAreKept == Roomy => (Spec => []NoLiveNodeLost)
<1>1. IInv => NoLiveNodeLost
    BY InvNoLiveNodeLost
<1>2. QED BY <1>1, Invariance, PTL

\* Neither do readers that look at the overlay and the database one after the
\* other, nor those that ask state().
THEOREM ReadersAreServed == Roomy => (Spec => []ReadersNeverMiss)
<1>1. IInv => ReadersNeverMiss
    BY InvReadersNeverMiss
<1>2. QED BY <1>1, Invariance, PTL

\* A crash at any moment, of a write or of a flush, leaves every state not
\* pruned out of a history that had been flushed: of the last one if RocksDB has
\* a write-ahead log, and without one of that which its memtable's last flush
\* wrote out.
THEOREM CrashesAreHarmless == Roomy => (Spec => []CrashSafe)
<1>1. IInv => CrashSafe
    BY InvCrashSafe
<1>2. QED BY <1>1, Invariance, PTL

\* Between two commits read_overlay would rebuild what is in memory.
THEOREM RefsAreReconstructed == Roomy => (Spec => []CanReconstructRefs)
<1>1. IInv => CanReconstructRefs
    BY InvCanReconstructRefs
<1>2. QED BY <1>1, Invariance, PTL

\* Without forks mark_canonical leaves no node behind that nobody needs.
THEOREM NothingLeaks == Roomy => (Spec => []NoLeak)
<1>1. IInv => NoLeak
    BY InvNoLeak
<1>2. QED BY <1>1, Invariance, PTL

\* earliest_era is exact, also after a crash, as long as a block is made
\* canonical while a later one is in the journal.
THEOREM EarliestIsExact == Roomy /\ History > 0 => (Spec => []EarliestEraExact)
<1>1. CASE History > 0
    <2>1. IInv => EarliestEraExact
        BY <1>1, InvEarliestEraExact
    <2>2. QED BY <2>1, Invariance, PTL
<1>2. QED BY <1>1
================================================================================
