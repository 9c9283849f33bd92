------------------------------- MODULE SetLemmas -------------------------------
(***************************************************************************)
(* What the proofs share about data: that a set of numbers has a least and *)
(* a greatest member, that a finite set can be listed, what is in a        *)
(* concatenation, what a list in order is and what a fold does step by     *)
(* step.                                                                   *)
(***************************************************************************)
EXTENDS Integers, FiniteSetsExt, FiniteSetTheorems, SequenceTheorems, TLAPS

\* Every set of naturals that is not empty has a least member.  (With it,
\* induction is the search for a least counterexample.)
LEMMA LeastNatural ==
    ASSUME NEW T, T \subseteq Nat, T # {}
    PROVE  \E x \in T : \A y \in T : x <= y
<1>1. \A u, v \in Nat : u < v => <<u, v>> \in OpToRel(<, Nat)
    BY DEF OpToRel
<1>2. \E R : IsWellFoundedOn(R, Nat) /\ \A u, v \in Nat : u < v => <<u, v>> \in R
    BY <1>1, NatLessThanWellFounded, Zenon
<1>3. PICK R : IsWellFoundedOn(R, Nat) /\ \A u, v \in Nat : u < v => <<u, v>> \in R
    BY <1>2
<1>4. IsWellFoundedOn(R, Nat)
    BY <1>3
<1>5. PICK x \in T : \A y \in T : ~ (<<y, x>> \in R)
    BY <1>4, WFMin
<1>6. \A y \in T : ~ (y < x)
    BY <1>3, <1>5, Zenon
<1>7. QED BY <1>6

\* The Max of some of the numbers up to n is one of them, and the greatest.
LEMMA MaxIn ==
    ASSUME NEW n \in Nat, NEW T, T \subseteq 1 .. n, T # {}
    PROVE  Max(T) \in T /\ \A y \in T : y <= Max(T)
<1> DEFINE D == {n - x : x \in T}
<1>1. D \subseteq Nat /\ D # {}
    <2>1. \A x \in T : x \in Int /\ x <= n
        OBVIOUS
    <2>2. \A x \in T : n - x \in Nat
        BY <2>1
    <2>3. QED BY <2>2
<1>2. PICK d \in D : \A e \in D : d <= e
    BY <1>1, LeastNatural
<1>3. PICK x \in T : d = n - x
    OBVIOUS
<1>4. \A y \in T : n - x <= n - y
    BY <1>2, <1>3
<1>5. \A y \in T : x >= y
    BY <1>4
<1>6. QED BY <1>5 DEF Max

\* The Min of a set of naturals is one of them, and the least.
LEMMA MinIn ==
    ASSUME NEW T, T \subseteq Nat, T # {}
    PROVE  Min(T) \in T /\ \A y \in T : Min(T) <= y
BY LeastNatural DEF Min

\* The members of a concatenation are those of its parts.
LEMMA Joined ==
    ASSUME NEW S, NEW s \in Seq(S), NEW t \in Seq(S)
    PROVE  /\ s \o t \in Seq(S)
           /\ \A i \in DOMAIN s : i \in DOMAIN (s \o t) /\ (s \o t)[i] = s[i]
           /\ \A i \in DOMAIN t : Len(s) + i \in DOMAIN (s \o t) /\ (s \o t)[Len(s) + i] = t[i]
           /\ \A i \in DOMAIN (s \o t) :
                  \/ i \in DOMAIN s /\ (s \o t)[i] = s[i]
                  \/ \E j \in DOMAIN t : i = Len(s) + j /\ (s \o t)[i] = t[j]
<1>1. /\ DOMAIN s = 1 .. Len(s) /\ DOMAIN t = 1 .. Len(t)
      /\ s \o t \in Seq(S) /\ DOMAIN (s \o t) = 1 .. Len(s) + Len(t)
      /\ Len(s) \in Nat /\ Len(t) \in Nat
    OBVIOUS
<1>2. \A i \in 1 .. Len(s) + Len(t) :
          (s \o t)[i] = IF i <= Len(s) THEN s[i] ELSE t[i - Len(s)]
    OBVIOUS
<1>3. \A i \in DOMAIN s : i \in DOMAIN (s \o t) /\ (s \o t)[i] = s[i]
    BY <1>1, <1>2
<1>4. \A i \in DOMAIN t : Len(s) + i \in DOMAIN (s \o t) /\ (s \o t)[Len(s) + i] = t[i]
    BY <1>1, <1>2
<1>5. ASSUME NEW i \in DOMAIN (s \o t), i \notin DOMAIN s
      PROVE  \E j \in DOMAIN t : i = Len(s) + j /\ (s \o t)[i] = t[j]
    <2>1. i - Len(s) \in DOMAIN t /\ i = Len(s) + (i - Len(s)) /\ (s \o t)[i] = t[i - Len(s)]
        BY <1>1, <1>2, <1>5
    <2>2. QED BY <2>1
<1>6. QED BY <1>1, <1>3, <1>4, <1>5

\* A list of a finite set that repeats nothing, and is as long as the set has
\* members, leaves none of them out.
LEMMA Covered ==
    ASSUME NEW S, IsFiniteSet(S), NEW f \in [1 .. Cardinality(S) -> S],
           \A i, j \in 1 .. Cardinality(S) : f[i] = f[j] => i = j
    PROVE  /\ Cardinality(S) \in Nat
           /\ \A x \in S : \E i \in 1 .. Cardinality(S) : f[i] = x
<1> DEFINE n == Cardinality(S)
<1>1. n \in Nat
    BY FS_CardinalityType
<1>2. f \in Injection(1 .. n, S)
    BY DEF Injection, IsInjective
<1>3. IsFiniteSet(1 .. n) /\ Cardinality(1 .. n) = n
    BY <1>1, FS_Interval
<1>4. f \in Surjection(1 .. n, S)
    BY <1>2, <1>3, FS_Injection
<1>5. QED BY <1>1, <1>4 DEF Surjection

\* What SetToSeq chooses.
Listing(S) == CHOOSE f \in [1 .. Cardinality(S) -> S] : IsInjective(f)

\* A finite set has a listing, in which each of its members occurs.
LEMMA Listed ==
    ASSUME NEW S, IsFiniteSet(S)
    PROVE  /\ Listing(S) \in Seq(S)
           /\ \A x \in S : \E i \in DOMAIN Listing(S) : Listing(S)[i] = x
<1> DEFINE n == Cardinality(S)
           s == Listing(S)
<1>1. n \in Nat /\ ExistsBijection(1 .. n, S)
    BY FS_CardinalityType
<1>2. PICK f : f \in Bijection(1 .. n, S)
    BY <1>1 DEF ExistsBijection
<1>3. f \in [1 .. n -> S] /\ IsInjective(f)
    BY <1>2 DEF Bijection, Injection
<1>4. s \in [1 .. n -> S] /\ IsInjective(s)
    BY <1>3 DEF Listing
<1> HIDE DEF s
<1>5. \A x \in S : \E i \in 1 .. n : s[i] = x
    <2>1. \A i, j \in 1 .. n : s[i] = s[j] => i = j
        BY <1>4 DEF IsInjective
    <2>2. QED BY <1>4, <2>1, Covered
<1>6. QED BY <1>1, <1>4, <1>5 DEF s

-------------------------------------------------------------------------------
(* Lists in an order.                                                     *)

\* R orders the members of S, each of them before or after each other.
Orders(R, S) ==
    /\ \A x \in S : <<x, x>> \notin R
    /\ \A x, y, z \in S : <<x, y>> \in R /\ <<y, z>> \in R => <<x, z>> \in R
    /\ \A x, y \in S : x = y \/ <<x, y>> \in R \/ <<y, x>> \in R

\* How many members of S are before x, and the member in each place.
Before(S, R, x) == {y \in S : <<y, x>> \in R}
Rank(S, R, x) == Cardinality(Before(S, R, x))
InPlace(S, R, i) == CHOOSE x \in S : Rank(S, R, x) = i - 1
Ranked(S, R) == [i \in 1 .. Cardinality(S) |-> InPlace(S, R, i)]

\* The ranks follow the order.
LEMMA RanksFollow ==
    ASSUME NEW S, IsFiniteSet(S), NEW R, Orders(R, S)
    PROVE  /\ Cardinality(S) \in Nat
           /\ \A x \in S : Rank(S, R, x) \in 0 .. Cardinality(S) - 1
           /\ \A x, y \in S : <<x, y>> \in R => Rank(S, R, x) < Rank(S, R, y)
           /\ \A x, y \in S : Rank(S, R, x) = Rank(S, R, y) => x = y
<1>1. Cardinality(S) \in Nat
    BY FS_CardinalityType
<1>2. ASSUME NEW x \in S
      PROVE  /\ IsFiniteSet(Before(S, R, x)) /\ Rank(S, R, x) \in Nat
             /\ IsFiniteSet(Before(S, R, x) \union {x})
             /\ Cardinality(Before(S, R, x) \union {x}) = Rank(S, R, x) + 1
    <2>1. Before(S, R, x) \in SUBSET S /\ x \notin Before(S, R, x)
        BY DEF Orders, Before
    <2>2. IsFiniteSet(Before(S, R, x))
        BY <2>1, FS_Subset
    <2>3. Rank(S, R, x) \in Nat
        BY <2>2, FS_CardinalityType DEF Rank
    <2>4. /\ IsFiniteSet(Before(S, R, x) \union {x})
          /\ Cardinality(Before(S, R, x) \union {x}) = Rank(S, R, x) + 1
        BY <2>1, <2>2, FS_AddElement DEF Rank
    <2>5. QED BY <2>2, <2>3, <2>4
<1>3. ASSUME NEW x \in S PROVE Rank(S, R, x) \in 0 .. Cardinality(S) - 1
    <2>1. Before(S, R, x) \union {x} \in SUBSET S
        BY DEF Before
    <2>2. Cardinality(Before(S, R, x) \union {x}) <= Cardinality(S)
        BY <2>1, <1>2, FS_Subset
    <2> DEFINE r == Rank(S, R, x)
               n == Cardinality(S)
    <2>3. r \in Nat /\ n \in Nat /\ r + 1 <= n
        BY <1>1, <1>2, <2>2
    <2> HIDE DEF r, n
    <2>4. r \in 0 .. n - 1
        BY <2>3
    <2>5. QED BY <2>4 DEF r, n
<1>4. ASSUME NEW x \in S, NEW y \in S, <<x, y>> \in R
      PROVE  Rank(S, R, x) < Rank(S, R, y)
    <2>1. Before(S, R, x) \union {x} \in SUBSET Before(S, R, y)
        BY <1>4 DEF Orders, Before
    <2>2. Cardinality(Before(S, R, x) \union {x}) <= Cardinality(Before(S, R, y))
        BY <1>2, <2>1, FS_Subset
    <2>3. Rank(S, R, x) + 1 <= Rank(S, R, y)
        BY <1>2, <2>2 DEF Rank
    <2> DEFINE r == Rank(S, R, x)
               t == Rank(S, R, y)
    <2>4. r \in Nat /\ t \in Nat /\ r + 1 <= t
        BY <1>2, <2>3
    <2> HIDE DEF r, t
    <2>5. r < t
        BY <2>4
    <2>6. QED BY <2>5 DEF r, t
<1>5. ASSUME NEW x \in S, NEW y \in S, Rank(S, R, x) = Rank(S, R, y)
      PROVE  x = y
    <2> DEFINE r == Rank(S, R, x)
               t == Rank(S, R, y)
    <2>0. r \in Nat /\ t = r
        BY <1>2, <1>5
    <2> HIDE DEF r, t
    <2>1. ~ (r < t) /\ ~ (t < r)
        BY <2>0
    <2>2. ~ (Rank(S, R, x) < Rank(S, R, y)) /\ ~ (Rank(S, R, y) < Rank(S, R, x))
        BY <2>1 DEF r, t
    <2>3. QED BY <1>4, <2>2 DEF Orders
<1>6. QED BY <1>1, <1>3, <1>4, <1>5

\* Every member has its place, and the places are in order.
LEMMA RankedIs ==
    ASSUME NEW S, IsFiniteSet(S), NEW R, Orders(R, S)
    PROVE  /\ Cardinality(S) \in Nat
           /\ Ranked(S, R) \in [1 .. Cardinality(S) -> S]
           /\ \A i \in 1 .. Cardinality(S) : Rank(S, R, Ranked(S, R)[i]) = i - 1
           /\ \A x \in S : /\ Rank(S, R, x) + 1 \in 1 .. Cardinality(S)
                           /\ Ranked(S, R)[Rank(S, R, x) + 1] = x
           /\ \A i, j \in 1 .. Cardinality(S) :
                  i < j => <<Ranked(S, R)[i], Ranked(S, R)[j]>> \in R
<1> DEFINE n == Cardinality(S)
           f == [x \in S |-> Rank(S, R, x)]
           s == Ranked(S, R)
<1>1. /\ n \in Nat
      /\ \A x \in S : Rank(S, R, x) \in 0 .. n - 1
      /\ \A x, y \in S : <<x, y>> \in R => Rank(S, R, x) < Rank(S, R, y)
      /\ \A x, y \in S : Rank(S, R, x) = Rank(S, R, y) => x = y
    BY RanksFollow
<1> HIDE DEF n
<1>2. f \in Surjection(S, 0 .. n - 1)
    <2>1. f \in Injection(S, 0 .. n - 1)
        BY <1>1 DEF Injection, IsInjective
    <2>2. IsFiniteSet(0 .. n - 1) /\ Cardinality(0 .. n - 1) = n
        <3>1. 0 \in Int /\ n - 1 \in Int
            BY <1>1
        <3>2. /\ IsFiniteSet(0 .. n - 1)
              /\ Cardinality(0 .. n - 1) = IF 0 > n - 1 THEN 0 ELSE (n - 1) - 0 + 1
            BY <3>1, FS_Interval
        <3>3. QED BY <1>1, <3>2
    <2> DEFINE T == 0 .. n - 1
    <2>3. f \in Injection(S, T) /\ IsFiniteSet(T) /\ Cardinality(S) = Cardinality(T)
        BY <2>1, <2>2 DEF n
    <2> HIDE DEF f, T
    <2>4. f \in Surjection(S, T)
        BY <2>3, FS_Injection
    <2>5. QED BY <2>4 DEF T
<1>3. ASSUME NEW i \in 1 .. n
      PROVE  s[i] \in S /\ Rank(S, R, s[i]) = i - 1
    <2>1. i - 1 \in 0 .. n - 1
        BY <1>1
    <2>2. \E x \in S : Rank(S, R, x) = i - 1
        BY <1>2, <2>1 DEF Surjection
    <2>3. s[i] = InPlace(S, R, i)
        BY DEF Ranked, n
    <2>4. QED BY <2>2, <2>3 DEF InPlace
<1>4. s = [i \in 1 .. n |-> s[i]]
    BY DEF Ranked, n
<1> HIDE DEF s
<1>5. s \in [1 .. n -> S]
    BY <1>3, <1>4
<1>6. ASSUME NEW x \in S
      PROVE  Rank(S, R, x) + 1 \in 1 .. n /\ s[Rank(S, R, x) + 1] = x
    <2>1. Rank(S, R, x) + 1 \in 1 .. n /\ (Rank(S, R, x) + 1) - 1 = Rank(S, R, x)
        BY <1>1
    <2>2. QED BY <1>1, <1>3, <2>1
<1>7. ASSUME NEW i \in 1 .. n, NEW j \in 1 .. n, i < j
      PROVE  <<s[i], s[j]>> \in R
    <2>1. /\ s[i] \in S /\ s[j] \in S
          /\ Rank(S, R, s[i]) = i - 1 /\ Rank(S, R, s[j]) = j - 1
        BY <1>3
    <2>2. s[i] # s[j] /\ ~ (Rank(S, R, s[j]) < Rank(S, R, s[i]))
        BY <1>7, <2>1
    <2>3. QED BY <1>1, <2>1, <2>2 DEF Orders
<1>8. QED BY <1>1, <1>3, <1>5, <1>6, <1>7 DEF s, n

\* A list in order of everything in S is the only one.
LEMMA OnlyRanked ==
    ASSUME NEW S, IsFiniteSet(S), NEW R, Orders(R, S),
           NEW n \in Nat, NEW s \in [1 .. n -> S],
           \A x \in S : \E i \in 1 .. n : s[i] = x,
           \A i, j \in 1 .. n : i < j => <<s[i], s[j]>> \in R
    PROVE  n = Cardinality(S) /\ s = Ranked(S, R)
<1>1. \A i, j \in 1 .. n : s[i] = s[j] => i = j
    <2>1. SUFFICES ASSUME NEW i \in 1 .. n, NEW j \in 1 .. n, s[i] = s[j], i # j
                   PROVE  FALSE
        OBVIOUS
    <2>2. i < j \/ j < i
        BY <2>1
    <2>3. <<s[i], s[i]>> \in R
        BY <2>1, <2>2
    <2>4. QED BY <2>3 DEF Orders
<1>2. ASSUME NEW k \in 0 .. n, NEW P, P = {s[i] : i \in 1 .. k}
      PROVE  Cardinality(P) = k
    <2>1. 1 .. k \subseteq 1 .. n /\ k \in Nat
        OBVIOUS
    <2> DEFINE f == [i \in 1 .. k |-> s[i]]
    <2>2. f \in Bijection(1 .. k, P)
        <3>1. f \in Injection(1 .. k, P)
            BY <1>1, <1>2, <2>1 DEF Injection, IsInjective
        <3>2. f \in Surjection(1 .. k, P)
            BY <1>2, <2>1 DEF Surjection
        <3>3. QED BY <3>1, <3>2 DEF Bijection
    <2>3. IsFiniteSet(1 .. k) /\ Cardinality(1 .. k) = k
        BY <2>1, FS_Interval
    <2>4. ExistsBijection(1 .. k, P)
        BY <2>2 DEF ExistsBijection
    <2>5. QED BY <2>3, <2>4, FS_Bijection
<1>3. n = Cardinality(S)
    <2>1. S = {s[i] : i \in 1 .. n}
        OBVIOUS
    <2>2. n \in 0 .. n
        OBVIOUS
    <2>3. QED BY <1>2, <2>1, <2>2
<1>4. ASSUME NEW i \in 1 .. n PROVE Rank(S, R, s[i]) = i - 1
    <2>1. Before(S, R, s[i]) = {s[j] : j \in 1 .. i - 1}
        <3>1. ASSUME NEW j \in 1 .. n PROVE <<s[j], s[i]>> \in R <=> j \in 1 .. i - 1
            <4>1. CASE j < i
                BY <4>1
            <4>2. CASE j = i
                BY <4>2 DEF Orders
            <4>3. CASE i < j
                <5>1. <<s[i], s[j]>> \in R
                    BY <4>3
                <5>2. <<s[j], s[i]>> \notin R
                    BY <5>1 DEF Orders
                <5>3. QED BY <4>3, <5>2
            <4>4. QED BY <4>1, <4>2, <4>3
        <3>2. 1 .. i - 1 \subseteq 1 .. n
            OBVIOUS
        <3>3. ASSUME NEW y \in Before(S, R, s[i]) PROVE y \in {s[j] : j \in 1 .. i - 1}
            <4>1. y \in S /\ <<y, s[i]>> \in R
                BY DEF Before
            <4>2. PICK j \in 1 .. n : s[j] = y
                BY <4>1
            <4>3. QED BY <3>1, <4>1, <4>2
        <3>4. ASSUME NEW j \in 1 .. i - 1 PROVE s[j] \in Before(S, R, s[i])
            BY <3>1, <3>2 DEF Before
        <3>5. QED BY <3>3, <3>4
    <2>2. i - 1 \in 0 .. n
        OBVIOUS
    <2>3. QED BY <1>2, <2>1, <2>2 DEF Rank
<1>5. /\ Cardinality(S) \in Nat /\ Ranked(S, R) \in [1 .. Cardinality(S) -> S]
      /\ \A x \in S : Ranked(S, R)[Rank(S, R, x) + 1] = x
    BY RankedIs
<1>6. \A i \in 1 .. n : Ranked(S, R)[i] = s[i]
    <2>1. SUFFICES ASSUME NEW i \in 1 .. n PROVE Ranked(S, R)[i] = s[i]
        OBVIOUS
    <2>2. Rank(S, R, s[i]) + 1 = i
        BY <1>4
    <2>3. QED BY <1>5, <2>2
<1>7. QED BY <1>3, <1>5, <1>6

-------------------------------------------------------------------------------
(* Folds over the places of a list, the last place last.                   *)

\* g folds over every set of numbers up to n, the greatest last.
IsFold(g, n, T, b, step) ==
    /\ g \in [SUBSET (1 .. n) -> T]
    /\ \A S \in SUBSET (1 .. n) :
          g[S] = IF S = {} THEN b ELSE step[Max(S)][g[S \ {Max(S)}]]

\* There is such a function.
LEMMA FoldExists ==
    ASSUME NEW n \in Nat, NEW T, NEW b \in T, NEW step, \A i \in 1 .. n : step[i] \in [T -> T]
    PROVE  \E g : IsFold(g, n, T, b, step)
<1> DEFINE W == {k \in Nat : k <= n /\ ~ \E g : IsFold(g, k, T, b, step)}
<1>1. SUFFICES ASSUME W # {} PROVE FALSE
    <2>1. W = {} => n \notin W
        OBVIOUS
    <2>2. QED BY <2>1
<1>2. PICK k \in W : \A j \in W : k <= j
    BY <1>1, LeastNatural
<1>3. k \in Nat /\ k <= n /\ ~ \E g : IsFold(g, k, T, b, step)
    OBVIOUS
<1> HIDE DEF W
<1>4. k # 0
    <2>1. SUFFICES ASSUME k = 0 PROVE FALSE
        OBVIOUS
    <2> DEFINE g == [S \in SUBSET (1 .. 0) |-> b]
    <2>2. \A S \in SUBSET (1 .. 0) : S = {} /\ g[S] = b
        OBVIOUS
    <2>3. IsFold(g, 0, T, b, step)
        BY <2>2 DEF IsFold
    <2>4. QED BY <1>3, <2>1, <2>3
<1>5. k - 1 \in Nat /\ k - 1 <= n /\ ~ (k <= k - 1) /\ k \in 1 .. n
    BY <1>3, <1>4
<1>6. PICK f : IsFold(f, k - 1, T, b, step)
    BY <1>2, <1>5 DEF W
<1> DEFINE Low(S) == S \ {k}
           g == [S \in SUBSET (1 .. k) |-> IF k \in S THEN step[k][f[Low(S)]] ELSE f[S]]
<1>7. /\ \A S \in SUBSET (1 .. k) : Low(S) \in SUBSET (1 .. k - 1)
      /\ \A S \in SUBSET (1 .. k) : k \notin S => S \in SUBSET (1 .. k - 1)
      /\ \A S \in SUBSET (1 .. k - 1) : S \in SUBSET (1 .. k) /\ k \notin S
    BY <1>3
<1>8. /\ f \in [SUBSET (1 .. k - 1) -> T]
      /\ \A S \in SUBSET (1 .. k - 1) :
            f[S] = IF S = {} THEN b ELSE step[Max(S)][f[S \ {Max(S)}]]
    BY <1>6 DEF IsFold
<1>9. /\ \A S \in SUBSET (1 .. k) : k \in S => g[S] = step[k][f[Low(S)]]
      /\ \A S \in SUBSET (1 .. k - 1) : g[S] = f[S]
    BY <1>7
<1>10. g \in [SUBSET (1 .. k) -> T]
    <2>1. step[k] \in [T -> T]
        BY <1>5
    <2>2. \A S \in SUBSET (1 .. k) : step[k][f[Low(S)]] \in T /\ (k \notin S => f[S] \in T)
        BY <1>7, <1>8, <2>1
    <2>3. QED BY <2>2
<1>11. ASSUME NEW S \in SUBSET (1 .. k)
       PROVE  g[S] = IF S = {} THEN b ELSE step[Max(S)][g[S \ {Max(S)}]]
    <2>1. CASE k \in S
        <3>1. S # {} /\ S \subseteq 1 .. k
            BY <2>1
        <3>2. Max(S) \in S /\ \A y \in S : y <= Max(S)
            BY <1>3, <3>1, MaxIn
        <3> DEFINE m == Max(S)
        <3>3. m \in 1 .. k /\ k <= m
            BY <2>1, <3>1, <3>2
        <3> HIDE DEF m
        <3>4. m = k
            BY <1>3, <3>3
        <3>5. g[Low(S)] = f[Low(S)]
            BY <1>7, <1>9
        <3> HIDE DEF g
        <3>6. QED BY <1>9, <2>1, <3>1, <3>4, <3>5 DEF m
    <2>2. CASE k \notin S
        <3>1. S \in SUBSET (1 .. k - 1)
            BY <1>7, <2>2
        <3>2. S \ {Max(S)} \in SUBSET (1 .. k - 1)
            BY <3>1
        <3> HIDE DEF g
        <3>3. QED BY <1>8, <1>9, <3>1, <3>2
    <2>3. QED BY <2>1, <2>2
<1> HIDE DEF g
<1>12. IsFold(g, k, T, b, step)
    BY <1>10, <1>11 DEF IsFold
<1>13. QED BY <1>3, <1>12

\* h of the first i numbers is what i steps make of b.
Grows(h, n, T, b, step) ==
    /\ h[1 .. 0] = b
    /\ \A i \in 0 .. n : h[1 .. i] \in T
    /\ \A i \in 1 .. n : h[1 .. i] = step[i][h[1 .. i - 1]]

\* What h folds, step by step, if what a step makes of something in T is known.
LEMMA FoldSteps ==
    ASSUME NEW n \in Nat, NEW T, NEW b \in T, NEW step, \A i \in 1 .. n : step[i] \in [T -> T],
           NEW h, h[{}] = b,
           \A S \in SUBSET (1 .. n) : S # {} /\ h[S \ {Max(S)}] \in T =>
               h[S] = step[Max(S)][h[S \ {Max(S)}]]
    PROVE  Grows(h, n, T, b, step)
<1>1. 1 .. 0 = {}
    OBVIOUS
<1>2. ASSUME NEW i \in 1 .. n, h[1 .. i - 1] \in T
      PROVE  h[1 .. i] = step[i][h[1 .. i - 1]] /\ h[1 .. i] \in T
    <2> DEFINE S == 1 .. i
               m == Max(S)
    <2>1. S \in SUBSET (1 .. n) /\ S # {} /\ i \in Nat /\ i \in S
        OBVIOUS
    <2>2. m \in S /\ \A y \in S : y <= m
        <3>1. S \subseteq 1 .. i
            OBVIOUS
        <3> HIDE DEF S
        <3>2. QED BY <2>1, <3>1, MaxIn
    <2> HIDE DEF m
    <2>3. m \in Nat /\ m <= i /\ i <= m
        BY <2>1, <2>2
    <2>4. m = i
        BY <2>3
    <2>5. S \ {i} = 1 .. i - 1
        OBVIOUS
    <2> HIDE DEF S
    <2>6. h[S] = step[i][h[1 .. i - 1]]
        BY <1>2, <2>1, <2>4, <2>5 DEF m
    <2>7. QED BY <1>2, <2>6 DEF S
<1>3. ASSUME NEW i \in 0 .. n PROVE h[1 .. i] \in T
    <2> DEFINE W == {j \in Nat : j <= n /\ h[1 .. j] \notin T}
    <2>1. SUFFICES ASSUME W # {} PROVE FALSE
        OBVIOUS
    <2>2. PICK j \in W : \A k \in W : j <= k
        BY <2>1, LeastNatural
    <2>3. j \in Nat /\ j <= n /\ h[1 .. j] \notin T /\ j # 0
        BY <1>1
    <2>4. j \in 1 .. n /\ j - 1 \in Nat /\ j - 1 <= n /\ ~ (j <= j - 1)
        BY <2>3
    <2>5. h[1 .. j - 1] \in T
        BY <2>2, <2>4
    <2>6. QED BY <1>2, <2>3, <2>4, <2>5
<1>4. ASSUME NEW i \in 1 .. n PROVE h[1 .. i] = step[i][h[1 .. i - 1]]
    <2>1. i - 1 \in 0 .. n
        OBVIOUS
    <2>2. QED BY <1>2, <1>3, <2>1
<1>5. QED BY <1>1, <1>3, <1>4 DEF Grows
================================================================================
