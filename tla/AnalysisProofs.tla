--------------------------- MODULE AnalysisProofs ---------------------------
(***************************************************************************)
(* Proofs about the computations of Analysis: the answers of the blast     *)
(* radius, of playback and of the timeline are exact for every forest,     *)
(* log, history and call the assumptions allow.                            *)
(*                                                                         *)
(* The search for a blast radius takes many steps and needs an invariant,  *)
(* Search: the entries found so far, the source first, are each on a path  *)
(* of the forest, in order of depth, each asset once; visited holds their  *)
(* depths; the queue is the entries not looked around yet, none more than  *)
(* one deeper than its head; and whatever is next to an entry that was     *)
(* looked around, and not beyond max_depth, has an entry.  It says more    *)
(* than the property, which speaks of the end only: with the queue empty,  *)
(* completeness gives every asset within max_depth, and the order of the   *)
(* queue that the first path found was a shortest one.  StoreInv says what *)
(* is stored meanwhile: the ids the graph knows are all or none, so that   *)
(* what is flushed is a first part of the answer, and the entry awaited is *)
(* the next, or past the end.                                              *)
(*                                                                         *)
(* Playback and the timeline answer in one step; their proofs are about    *)
(* sorting, carrying forward and adding up.  Induction over numbers is by  *)
(* a least counterexample (LeastNatural).                                  *)
(***************************************************************************)
EXTENDS Analysis, FiniteSetTheorems, FunctionTheorems, WellFoundedInduction, TLAPS

-----------------------------------------------------------------------------
(* Numbers and orders. InOrder has a witness for every rank only because   *)
(* its argument is a total order: what is behind an element determines it. *)

\* A set of natural numbers has a least one.
LEMMA LeastNatural ==
  ASSUME NEW numbers \in SUBSET Nat, numbers # {}
  PROVE  \E least \in numbers : \A n \in numbers : least <= n
<1>1. PICK least \in numbers : \A n \in numbers : <<n, least>> \notin OpToRel(<, Nat)
  BY WFMin, NatLessThanWellFounded, Zenon
<1>2. \A n \in numbers : ~(n < least)
  BY <1>1, Zenon DEF OpToRel
<1>. QED
  BY <1>2

\* before holds the pairs of S in one of the two orders, never in both, and
\* is transitive.
TotalOrder(S, before) ==
    /\ \A x, y \in S : x # y => <<x, y>> \in before \/ <<y, x>> \in before
    /\ \A x \in S : <<x, x>> \notin before
    /\ \A x, y, z \in S : <<x, y>> \in before /\ <<y, z>> \in before => <<x, z>> \in before

\* What comes before an element.
Behind(S, before, x) == {y \in S : <<y, x>> \in before}

\* What is behind an element determines it: what is behind two of a total
\* order differs in number, as it does in rank.
LEMMA RankRises ==
  ASSUME NEW S, IsFiniteSet(S), NEW before, TotalOrder(S, before),
         NEW x \in S, NEW y \in S, <<x, y>> \in before
  PROVE  Cardinality(Behind(S, before, x)) < Cardinality(Behind(S, before, y))
<1> DEFINE bx == Behind(S, before, x)
           by == Behind(S, before, y)
<1>1. bx \in SUBSET by /\ x \in by /\ x \notin bx
  BY DEF TotalOrder, Behind
<1>2. by \in SUBSET S
  BY DEF Behind
<1> HIDE DEF bx, by
<1>3. IsFiniteSet(by)
  BY <1>2, FS_Subset, Zenon
<1>4. Cardinality(bx) <= Cardinality(by) /\ (Cardinality(by) = Cardinality(bx) => by = bx)
  BY <1>1, <1>3, FS_Subset, Zenon
<1>5. IsFiniteSet(bx)
  BY <1>1, <1>3, FS_Subset, Zenon
<1>6. Cardinality(bx) \in Nat /\ Cardinality(by) \in Nat
  BY <1>3, <1>5, FS_CardinalityType, Zenon
<1>7. Cardinality(bx) # Cardinality(by)
  BY <1>1, <1>4
<1>. QED
  BY <1>4, <1>6, <1>7 DEF bx, by

\* Every rank is that of one element.
LEMMA Ranks ==
  ASSUME NEW S, IsFiniteSet(S), NEW before, TotalOrder(S, before)
  PROVE  /\ Cardinality(S) \in Nat
         /\ \A x \in S : Cardinality(Behind(S, before, x)) \in 0..(Cardinality(S) - 1)
         /\ \A n \in 0..(Cardinality(S) - 1) : \E x \in S : Cardinality(Behind(S, before, x)) = n
<1> DEFINE size == Cardinality(S)
           rank(x) == Cardinality(Behind(S, before, x))
           ranks == 0..(size - 1)
           f == [x \in S |-> rank(x)]
<1>1. size \in Nat
  BY FS_CardinalityType, Zenon
<1>2. \A x \in S : rank(x) \in ranks
  <2> TAKE x \in S
  <2>1. Behind(S, before, x) \in SUBSET S /\ x \notin Behind(S, before, x)
    BY DEF TotalOrder, Behind
  <2>2. /\ IsFiniteSet(Behind(S, before, x))
        /\ Cardinality(Behind(S, before, x)) <= Cardinality(S)
        /\ (Cardinality(S) = Cardinality(Behind(S, before, x)) => S = Behind(S, before, x))
    BY <2>1, FS_Subset, Zenon
  <2>3. rank(x) \in Nat
    BY <2>2, FS_CardinalityType, Zenon
  <2> HIDE DEF rank, size
  <2>4. rank(x) <= size /\ rank(x) # size
    BY <2>1, <2>2 DEF rank, size
  <2>. QED
    BY <1>1, <2>3, <2>4
<1>3. \A x, y \in S : rank(x) = rank(y) => x = y
  <2> SUFFICES ASSUME NEW x \in S, NEW y \in S, x # y
               PROVE  rank(x) # rank(y)
    OBVIOUS
  <2>0. rank(x) \in Int /\ rank(y) \in Int
    <3> HIDE DEF rank
    <3>. QED BY <1>1, <1>2
  <2>1. <<x, y>> \in before \/ <<y, x>> \in before
    BY DEF TotalOrder
  <2>2. CASE <<x, y>> \in before
    BY <2>0, <2>2, RankRises
  <2>3. CASE <<y, x>> \in before
    BY <2>0, <2>3, RankRises
  <2>. QED
    BY <2>1, <2>2, <2>3
<1> HIDE DEF rank
<1>4. f \in Injection(S, ranks)
  <2>1. f \in [S -> ranks]
    BY <1>2
  <2>2. \A x, y \in S : f[x] = f[y] => x = y
    BY <1>3
  <2> HIDE DEF f, ranks
  <2>. QED
    BY <2>1, <2>2, Fun_IsInj, Zenon
<1>5. IsFiniteSet(ranks) /\ Cardinality(ranks) = size
  <2>1. 0 \in Int /\ size - 1 \in Int /\ ~(0 > size - 1 /\ size # 0)
    BY <1>1
  <2>2. IsFiniteSet(0..(size - 1)) /\ Cardinality(0..(size - 1)) = IF 0 > size - 1 THEN 0 ELSE (size - 1) - 0 + 1
    BY <2>1, FS_Interval, Zenon
  <2>. QED
    BY <1>1, <2>2
<1>6. f \in Surjection(S, ranks)
  <2> HIDE DEF f, ranks
  <2>1. Cardinality(S) = Cardinality(ranks) <=> f \in Surjection(S, ranks)
    BY <1>4, <1>5, FS_Injection, Zenon
  <2>. QED
    BY <1>5, <2>1
<1>7. \A n \in ranks : \E x \in S : rank(x) = n
  <2>1. \A n \in ranks : \E x \in S : f[x] = n
    <3> HIDE DEF f, ranks
    <3>. QED BY <1>6, Fun_SurjectionProperties, Zenon
  <2>. QED
    BY <2>1
<1>. QED
  BY <1>1, <1>2, <1>7 DEF rank

\* A sorted set is a sequence of its elements, each once, in that order.
LEMMA InOrderSorts ==
  ASSUME NEW S, IsFiniteSet(S), NEW before, TotalOrder(S, before)
  PROVE  LET s == InOrder(S, before)
             size == Cardinality(S)
         IN /\ size \in Nat
            /\ s \in [1..size -> S]
            /\ \A x \in S : \E n \in 1..size : s[n] = x
            /\ \A m, n \in 1..size : m < n => <<s[m], s[n]>> \in before
            /\ \A m, n \in 1..size : s[m] = s[n] => m = n
<1> DEFINE size == Cardinality(S)
           rank(x) == Cardinality(Behind(S, before, x))
           s == InOrder(S, before)
<1>1. /\ size \in Nat
      /\ \A x \in S : rank(x) \in 0..(size - 1)
      /\ \A n \in 0..(size - 1) : \E x \in S : rank(x) = n
  BY Ranks
<1>2. s = [n \in 1..size |-> CHOOSE x \in S : rank(x) = n - 1]
  BY DEF InOrder, Behind
<1>3. \A x, y \in S : <<x, y>> \in before => rank(x) < rank(y)
  BY RankRises
<1>4. \A x, y \in S : x # y => <<x, y>> \in before \/ <<y, x>> \in before
  BY DEF TotalOrder
<1> HIDE DEF rank, s, size
<1>5. \A n \in 1..size : s[n] \in S /\ rank(s[n]) = n - 1
  <2> TAKE n \in 1..size
  <2>1. n - 1 \in 0..(size - 1)
    BY <1>1
  <2>2. \E x \in S : rank(x) = n - 1
    BY <1>1, <2>1
  <2>. QED
    BY <1>2, <2>2
<1>6. s \in [1..size -> S]
  BY <1>2, <1>5
<1>7. \A m, n \in 1..size : s[m] = s[n] => m = n
  BY <1>1, <1>5
<1>8. \A m, n \in 1..size : m < n => <<s[m], s[n]>> \in before
  <2> SUFFICES ASSUME NEW m \in 1..size, NEW n \in 1..size, m < n
               PROVE  <<s[m], s[n]>> \in before
    OBVIOUS
  <2>1. s[m] \in S /\ s[n] \in S /\ rank(s[m]) = m - 1 /\ rank(s[n]) = n - 1
    BY <1>5
  <2>2. s[m] # s[n]
    BY <1>7
  <2>3. ~(<<s[n], s[m]>> \in before)
    <3> SUFFICES ASSUME <<s[n], s[m]>> \in before PROVE FALSE
      OBVIOUS
    <3>1. rank(s[n]) < rank(s[m])
      BY <1>3, <2>1
    <3>. QED BY <2>1, <3>1, <1>1
  <2>. QED
    BY <1>4, <2>1, <2>2, <2>3
<1>9. \A x \in S : \E n \in 1..size : s[n] = x
  <2> TAKE x \in S
  <2>1. rank(x) + 1 \in 1..size /\ rank(x) \in Int
    BY <1>1
  <2>2. s[rank(x) + 1] \in S /\ rank(s[rank(x) + 1]) = rank(x)
    BY <1>5, <2>1
  <2>3. s[rank(x) + 1] = x
    <3>1. PICK y \in S : y = s[rank(x) + 1] /\ rank(y) = rank(x)
      BY <2>2
    <3>2. ~(rank(x) < rank(y)) /\ ~(rank(y) < rank(x))
      BY <2>1, <3>1
    <3>3. x = y
      BY <1>3, <1>4, <3>2
    <3>. QED BY <3>1, <3>3
  <2>. QED
    BY <2>1, <2>3
<1>. QED
  BY <1>1, <1>6, <1>7, <1>8, <1>9 DEF s, size

\* "<" is a total order of numbers.
LEMMA LessIsTotal ==
  ASSUME NEW S \in SUBSET Int
  PROVE  TotalOrder(S, {p \in S \X S : p[1] < p[2]})
BY DEF TotalOrder

\* A finite set of numbers has a largest and a smallest.
LEMMA Extremes ==
  ASSUME NEW S \in SUBSET Int, IsFiniteSet(S), S # {}
  PROVE  /\ Max(S) \in S /\ \A x \in S : x <= Max(S)
         /\ Min(S) \in S /\ \A x \in S : Min(S) <= x
<1> DEFINE before == {p \in S \X S : p[1] < p[2]}
           s == InOrder(S, before)
           size == Cardinality(S)
<1>1. TotalOrder(S, before)
  BY LessIsTotal
<1>a. \A x, y : <<x, y>> \in before => x < y
  OBVIOUS
<1> HIDE DEF before
<1>2. /\ size \in Nat
      /\ s \in [1..size -> S]
      /\ \A x \in S : \E n \in 1..size : s[n] = x
      /\ \A m, n \in 1..size : m < n => <<s[m], s[n]>> \in before
  BY <1>1, InOrderSorts
<1> HIDE DEF s, size
<1>3. 1 \in 1..size /\ size \in 1..size
  <2>1. PICK x \in S : TRUE
    OBVIOUS
  <2>2. PICK n \in 1..size : s[n] = x
    BY <1>2
  <2>. QED
    BY <1>2, <2>2
<1>c. \A n \in 1..size : s[n] \in Int
  <2> TAKE n \in 1..size
  <2>1. s[n] \in S
    BY <1>2
  <2>. QED
    BY <2>1
<1>b. \A m, n \in 1..size : m < n => s[m] < s[n]
  BY <1>2, <1>a
<1>4. \A m, n \in 1..size : m <= n => s[m] <= s[n]
  <2> SUFFICES ASSUME NEW m \in 1..size, NEW n \in 1..size, m <= n
               PROVE  s[m] <= s[n]
    OBVIOUS
  <2>1. CASE m = n
    BY <1>c, <2>1
  <2>2. CASE m < n
    BY <1>b, <1>c, <2>2
  <2>. QED
    BY <2>1, <2>2, <1>2
<1>5. s[1] \in S /\ s[size] \in S
  BY <1>2, <1>3
<1>6. \A x \in S : s[1] <= x /\ x <= s[size]
  <2> TAKE x \in S
  <2>1. PICK n \in 1..size : s[n] = x
    BY <1>2
  <2>2. 1 <= n /\ n <= size
    BY <1>2
  <2>. QED
    BY <1>3, <1>4, <2>1, <2>2
<1>7. Max(S) \in S /\ \A x \in S : Max(S) >= x
  BY <1>5, <1>6 DEF Max
<1>8. Min(S) \in S /\ \A x \in S : Min(S) =< x
  BY <1>5, <1>6 DEF Min
<1>. QED
  BY <1>7, <1>8

-----------------------------------------------------------------------------
(* Recursion. A recursive function is defined by what it computes: the     *)
(* values up to n exist, agree, and so are the function's.                 *)

\* The first n values of a recursion over the natural numbers: it begins with
\* v0, and step takes a value and its number to the next.
Begins(n, g, V, v0, step) ==
    /\ g \in [0..n -> V]
    /\ g[0] = v0
    /\ \A i \in 0..(n - 1) : g[i + 1] = step[<<i + 1, g[i]>>]

\* All of them.
Computes(f, V, v0, step) ==
    /\ f \in [Nat -> V]
    /\ f[0] = v0
    /\ \A i \in Nat : f[i + 1] = step[<<i + 1, f[i]>>]

\* Two of them up to m.
Agree(m, g, h) == \A i \in 0..m : g[i] = h[i]

\* Every number of values can be computed.
LEMMA RecursionBegins ==
  ASSUME NEW V, NEW v0 \in V, NEW step \in [Nat \X V -> V], NEW n \in Nat
  PROVE  \E g : Begins(n, g, V, v0, step)
<1> DEFINE bad == {k \in Nat : ~\E g : Begins(k, g, V, v0, step)}
<1>1. SUFFICES ASSUME bad # {} PROVE FALSE
  OBVIOUS
<1>2. PICK k \in bad : \A j \in bad : k <= j
  BY <1>1, LeastNatural
<1>3. k # 0
  <2> DEFINE g == [i \in 0..0 |-> v0]
  <2>1. Begins(0, g, V, v0, step)
    BY DEF Begins
  <2>. QED
    BY <2>1
<1>4. k - 1 \in Nat /\ k - 1 \notin bad
  BY <1>2, <1>3
<1>5. PICK g : Begins(k - 1, g, V, v0, step)
  BY <1>4
<1> DEFINE h == [i \in 0..k |-> IF i = k THEN step[<<k, g[k - 1]>>] ELSE g[i]]
<1>6. g[k - 1] \in V /\ k \in Nat
  BY <1>4, <1>5 DEF Begins
<1>7. step[<<k, g[k - 1]>>] \in V
  BY <1>6
<1>8. h \in [0..k -> V]
  BY <1>4, <1>5, <1>6, <1>7 DEF Begins
<1>9. h[0] = v0
  BY <1>3, <1>5, <1>6 DEF Begins
<1>10. \A i \in 0..(k - 1) : h[i + 1] = step[<<i + 1, h[i]>>]
  <2> TAKE i \in 0..(k - 1)
  <2>1. CASE i = k - 1
    <3>1. i + 1 = k /\ k \in 0..k /\ i \in 0..k /\ i # k
      BY <1>6, <2>1
    <3>2. h[k] = step[<<k, g[k - 1]>>] /\ h[i] = g[i]
      BY <3>1
    <3>. QED
      BY <2>1, <3>1, <3>2
  <2>2. CASE i # k - 1
    <3>1. i \in 0..(k - 1 - 1) /\ i + 1 # k /\ i # k /\ i \in 0..k /\ i + 1 \in 0..k
      BY <1>6, <2>2
    <3>2. g[i + 1] = step[<<i + 1, g[i]>>]
      BY <1>5, <3>1 DEF Begins
    <3>. QED
      BY <3>1, <3>2
  <2>. QED
    BY <2>1, <2>2
<1> HIDE DEF h
<1>11. Begins(k, h, V, v0, step)
  BY <1>8, <1>9, <1>10 DEF Begins
<1>. QED
  BY <1>2, <1>11

\* Two computations agree as far as both go.
LEMMA RecursionAgrees ==
  ASSUME NEW V, NEW v0 \in V, NEW step, NEW m \in Nat, NEW n \in Nat, m <= n,
         NEW g, Begins(m, g, V, v0, step), NEW h, Begins(n, h, V, v0, step)
  PROVE  Agree(m, g, h)
<1> DEFINE bad == {i \in 0..m : g[i] # h[i]}
<1>1. SUFFICES ASSUME bad # {} PROVE FALSE
  BY DEF Agree
<1>2. bad \in SUBSET Nat
  OBVIOUS
<1>3. PICK i \in bad : \A j \in bad : i <= j
  BY <1>1, <1>2, LeastNatural
<1>4. i # 0
  BY <1>3 DEF Begins
<1>5. i - 1 \in 0..(m - 1) /\ i - 1 \in 0..(n - 1) /\ i - 1 \in 0..m /\ i - 1 \notin bad /\ (i - 1) + 1 = i
  BY <1>3, <1>4
<1>6. g[i - 1] = h[i - 1]
  BY <1>5
<1>7. g[(i - 1) + 1] = step[<<(i - 1) + 1, g[i - 1]>>]
  BY <1>5 DEF Begins
<1>8. h[(i - 1) + 1] = step[<<(i - 1) + 1, h[i - 1]>>]
  BY <1>5 DEF Begins
<1>. QED
  BY <1>3, <1>5, <1>6, <1>7, <1>8

\* A recursion over the natural numbers defines a function.
LEMMA Recursion ==
  ASSUME NEW V, NEW v0 \in V, NEW step \in [Nat \X V -> V]
  PROVE  \E f : Computes(f, V, v0, step)
<1> DEFINE G(n) == CHOOSE g : Begins(n, g, V, v0, step)
           f == [n \in Nat |-> G(n)[n]]
<1>1. \A n \in Nat : Begins(n, G(n), V, v0, step)
  BY RecursionBegins
<1> HIDE DEF G
<1>2. f \in [Nat -> V]
  BY <1>1 DEF Begins
<1>3. f[0] = v0
  BY <1>1 DEF Begins
<1>4. \A i \in Nat : f[i + 1] = step[<<i + 1, f[i]>>]
  <2> TAKE i \in Nat
  <2>1. i + 1 \in Nat /\ i <= i + 1 /\ i \in 0..i /\ i \in 0..((i + 1) - 1)
    OBVIOUS
  <2>2. Begins(i, G(i), V, v0, step) /\ Begins(i + 1, G(i + 1), V, v0, step)
    BY <1>1, <2>1
  <2>3. \A j \in 0..i : G(i)[j] = G(i + 1)[j]
    <3> DEFINE m == i
               n == i + 1
               g == G(i)
               h == G(i + 1)
    <3>1. m \in Nat /\ n \in Nat /\ m <= n
      OBVIOUS
    <3>2. Begins(m, g, V, v0, step) /\ Begins(n, h, V, v0, step)
      BY <2>2
    <3> HIDE DEF n, g, h
    <3>3. Agree(m, g, h)
      BY <3>1, <3>2, RecursionAgrees
    <3>. QED
      BY <3>3 DEF n, g, h, Agree
  <2>4. G(i)[i] = G(i + 1)[i]
    BY <2>1, <2>3
  <2>5. G(i + 1)[i + 1] = step[<<i + 1, G(i + 1)[i]>>]
    BY <2>1, <2>2 DEF Begins
  <2>. QED
    BY <2>1, <2>4, <2>5
<1> HIDE DEF f
<1>5. Computes(f, V, v0, step)
  BY <1>2, <1>3, <1>4 DEF Computes
<1>. QED
  BY <1>5

\* A power is a natural number, base times the one before.
LEMMA PowerRecurs ==
  ASSUME NEW base \in Nat
  PROVE  /\ Power(base) \in [Nat -> Nat]
         /\ Power(base)[0] = 1
         /\ \A n \in Nat : Power(base)[n + 1] = base * Power(base)[n]
<1> DEFINE step == [x \in Nat \X Nat |-> base * x[2]]
           Defines(p) == p = [n \in Nat |-> IF n = 0 THEN 1 ELSE base * p[n - 1]]
<1>1. step \in [Nat \X Nat -> Nat]
  OBVIOUS
<1>2. \A i, v \in Nat : step[<<i, v>>] = base * v
  OBVIOUS
<1> DEFINE one == 1
<1>a. one \in Nat
  OBVIOUS
<1> HIDE DEF step, one
<1>3. PICK f : Computes(f, Nat, one, step)
  BY <1>1, <1>a, Recursion
<1>4. \A i \in Nat : f[i + 1] = base * f[i]
  <2> TAKE i \in Nat
  <2>1. i + 1 \in Nat /\ f[i] \in Nat
    BY <1>3 DEF Computes
  <2>2. step[<<i + 1, f[i]>>] = base * f[i]
    BY <1>2, <2>1
  <2>. QED
    BY <1>3, <2>2 DEF Computes
<1>5. \A n \in Nat : f[n] = IF n = 0 THEN 1 ELSE base * f[n - 1]
  <2> TAKE n \in Nat
  <2>1. CASE n # 0
    <3>1. n - 1 \in Nat /\ (n - 1) + 1 = n
      BY <2>1
    <3>2. f[(n - 1) + 1] = base * f[n - 1]
      BY <1>4, <3>1
    <3>. QED
      BY <2>1, <3>1, <3>2
  <2>. QED
    BY <1>3, <2>1 DEF one, Computes
<1>6. Defines(f)
  BY <1>3, <1>5 DEF Computes
<1>7. Power(base) = CHOOSE p : Defines(p)
  BY DEF Power
<1>8. Defines(Power(base))
  <2> HIDE DEF Defines
  <2>. QED BY <1>6, <1>7
<1> DEFINE p == Power(base)
<1> HIDE DEF p
<1>9. p = [n \in Nat |-> IF n = 0 THEN 1 ELSE base * p[n - 1]]
  BY <1>8 DEF p
<1>10. p[0] = 1
  BY <1>9
<1>11. \A n \in Nat : p[n + 1] = base * p[n]
  <2> TAKE n \in Nat
  <2>1. n + 1 \in Nat /\ n + 1 # 0 /\ (n + 1) - 1 = n
    OBVIOUS
  <2>2. p[n + 1] = base * p[(n + 1) - 1]
    BY <1>9, <2>1
  <2>. QED
    BY <2>1, <2>2
<1>12. \A n \in Nat : p[n] \in Nat
  <2> DEFINE bad == {n \in Nat : p[n] \notin Nat}
  <2>1. SUFFICES ASSUME bad # {} PROVE FALSE
    OBVIOUS
  <2>2. PICK n \in bad : \A j \in bad : n <= j
    BY <2>1, LeastNatural
  <2>3. n # 0
    BY <1>10, <2>2
  <2>4. n - 1 \in Nat /\ (n - 1) + 1 = n /\ n - 1 \notin bad
    BY <2>2, <2>3
  <2>5. p[n - 1] \in Nat
    BY <2>4
  <2>6. p[(n - 1) + 1] = base * p[n - 1]
    BY <1>11, <2>4
  <2>. QED
    BY <2>2, <2>4, <2>5, <2>6
<1>13. p \in [Nat -> Nat]
  BY <1>9, <1>12
<1>. QED
  BY <1>10, <1>11, <1>13 DEF p

\* CarryForward shows the latest value that is known, or first.
LEMMA CarryForwardShowsLatest ==
  ASSUME NEW n \in Nat, NEW known, NEW first, DOMAIN known \subseteq 1..n
  PROVE  LET shown == CarryForward(n, known, first)
         IN /\ DOMAIN shown = 1..n
            /\ \A i \in 1..n :
                 /\ (\A j \in DOMAIN known : i < j) => shown[i] = first
                 /\ \A j \in DOMAIN known :
                      (j <= i /\ \A k \in DOMAIN known : k <= i => k <= j) => shown[i] = known[j]
<1> DEFINE K == DOMAIN known
           V == {first} \cup {known[i] : i \in K}
           step == [x \in Nat \X V |-> IF x[1] \in K THEN known[x[1]] ELSE x[2]]
           Defines(s) == s = [i \in 0..n |-> IF i = 0 THEN first
                                             ELSE IF i \in K THEN known[i] ELSE s[i - 1]]
<1>1. first \in V /\ step \in [Nat \X V -> V]
  OBVIOUS
<1>2. \A i \in Nat, v \in V : step[<<i, v>>] = IF i \in K THEN known[i] ELSE v
  OBVIOUS
<1> HIDE DEF step, V
<1>3. PICK f : Computes(f, V, first, step)
  BY <1>1, Recursion
<1>4. \A i \in Nat : f[i + 1] = IF i + 1 \in K THEN known[i + 1] ELSE f[i]
  <2> TAKE i \in Nat
  <2>1. i + 1 \in Nat /\ f[i] \in V
    BY <1>3 DEF Computes
  <2>2. step[<<i + 1, f[i]>>] = IF i + 1 \in K THEN known[i + 1] ELSE f[i]
    BY <1>2, <2>1
  <2>. QED
    BY <1>3, <2>2 DEF Computes
<1> DEFINE g == [i \in 0..n |-> f[i]]
<1>5. \A i \in 0..n : g[i] = IF i = 0 THEN first ELSE IF i \in K THEN known[i] ELSE g[i - 1]
  <2> TAKE i \in 0..n
  <2>1. CASE i # 0
    <3>1. i - 1 \in Nat /\ (i - 1) + 1 = i /\ i - 1 \in 0..n
      BY <2>1
    <3>2. f[i] = IF i \in K THEN known[i] ELSE f[i - 1]
      BY <1>4, <3>1
    <3>. QED
      BY <2>1, <3>1, <3>2
  <2>. QED
    BY <1>3, <2>1 DEF Computes
<1>6. Defines(g)
  <2> DEFINE r == [i \in 0..n |-> IF i = 0 THEN first ELSE IF i \in K THEN known[i] ELSE g[i - 1]]
  <2>1. \A i \in 0..n : r[i] = g[i]
    BY <1>5
  <2>. QED
    BY <2>1
<1> DEFINE s == CHOOSE h : Defines(h)
<1>7. Defines(s)
  <2> HIDE DEF Defines
  <2>. QED BY <1>6
<1>8. CarryForward(n, known, first) = [i \in 1..n |-> s[i]]
  BY DEF CarryForward
<1>9. s = [i \in 0..n |-> IF i = 0 THEN first ELSE IF i \in K THEN known[i] ELSE s[i - 1]]
  BY <1>7
<1> HIDE DEF s, Defines, g
<1>10. s[0] = first /\ \A i \in 1..n : s[i] = IF i \in K THEN known[i] ELSE s[i - 1]
  BY <1>9
<1>11. \A i \in 0..n : (\A j \in K : i < j) => s[i] = first
  <2> DEFINE bad == {i \in 0..n : (\A j \in K : i < j) /\ s[i] # first}
  <2>1. SUFFICES ASSUME bad # {} PROVE FALSE
    OBVIOUS
  <2>2. bad \in SUBSET Nat
    OBVIOUS
  <2>3. PICK i \in bad : \A j \in bad : i <= j
    BY <2>1, <2>2, LeastNatural
  <2>4. i # 0
    BY <1>10, <2>3
  <2>5. i \in 1..n /\ i \notin K /\ i - 1 \in 0..n
    BY <2>3, <2>4
  <2>6. s[i] = s[i - 1]
    BY <1>10, <2>5
  <2>7. \A j \in K : i - 1 < j
    BY <2>3
  <2>. QED
    BY <2>3, <2>5, <2>6, <2>7
<1>12. \A j \in K : \A i \in 1..n :
          (j <= i /\ \A k \in K : k <= i => k <= j) => s[i] = known[j]
  <2> TAKE j \in K
  <2> DEFINE bad == {i \in 1..n : j <= i /\ (\A k \in K : k <= i => k <= j) /\ s[i] # known[j]}
  <2>1. SUFFICES ASSUME bad # {} PROVE FALSE
    OBVIOUS
  <2>2. bad \in SUBSET Nat
    OBVIOUS
  <2>3. PICK i \in bad : \A x \in bad : i <= x
    BY <2>1, <2>2, LeastNatural
  <2>4. j \in 1..n
    OBVIOUS
  <2>5. i # j
    BY <1>10, <2>3, <2>4
  <2>6. i \in 1..n /\ j < i /\ i - 1 \in 1..n /\ j <= i - 1 /\ i \notin K
    BY <2>3, <2>4, <2>5
  <2>7. s[i] = s[i - 1]
    BY <1>10, <2>6
  <2>8. \A k \in K : k <= i - 1 => k <= j
    BY <2>3, <2>6
  <2>. QED
    BY <2>3, <2>6, <2>7, <2>8
<1>. QED
  BY <1>8, <1>11, <1>12

-----------------------------------------------------------------------------
(* The search of a blast radius: its invariant, of a request q and the     *)
(* progress w.                                                             *)

\* What BlastsAssumption says of a request for a blast radius.
BlastCall(q) ==
    /\ IsFiniteSet(DOMAIN q.parent) /\ 0 \notin DOMAIN q.parent
    /\ \A a \in DOMAIN q.parent : q.parent[a] \in DOMAIN q.parent \cup {0}
    /\ q.source \in DOMAIN q.parent
    /\ q.max_depth \in Nat /\ q.severity \in 0..100

\* Model definitions, of a request and a search's progress.
Nodes(q) == DOMAIN q.parent
NextTo(q, a) == {c \in Nodes(q) : q.parent[c] = a} \cup ({q.parent[a]} \ {0})
Joined(q, a, b) == q.parent[a] = b \/ q.parent[b] = a
Origin(q) == [asset |-> q.source, depth |-> 0, path |-> <<q.source>>]
Entries(q) == [asset : Nodes(q), depth : Nat, path : Seq(Nodes(q))]

\* What a visit finds (Visit): the assets next to the head of the queue that no
\* path as short has reached.
Near(q, w) ==
    IF Head(w.queue).depth >= q.max_depth THEN {}
    ELSE {c \in NextTo(q, Head(w.queue).asset) :
            c \notin DOMAIN w.visited \/ w.visited[c] > Head(w.queue).depth + 1}

\* Their entries.
Found(w, new) ==
    [i \in DOMAIN new |-> [asset |-> new[i], depth |-> Head(w.queue).depth + 1,
                           path |-> Append(Head(w.queue).path, new[i])]]

\* What has been found, the source first, and how much of it was looked around.
At(q, w, i) == IF i = 0 THEN Origin(q) ELSE w.impacted[i]
Size(w) == Len(w.impacted)
Handled(w) == Size(w) + 1 - Len(w.queue)

\* The types of the search's state.
SearchTyped(q, w) ==
    /\ w.impacted \in Seq(Entries(q)) /\ w.queue \in Seq(Entries(q))
    /\ w.by_depth \in [0..(q.max_depth + 1) -> Nat]
    /\ w.bc \in [Nodes(q) -> Nat] /\ w.max_bc \in Nat \ {0}

\* A path of the forest from the source.
PathTo(q, e) ==
    /\ Len(e.path) = e.depth + 1
    /\ e.path[1] = q.source /\ e.path[Len(e.path)] = e.asset
    /\ \A k \in 1..e.depth : Joined(q, e.path[k], e.path[k + 1])

\* Every entry is reached, in order of depth, once.
SearchSound(q, w) ==
    /\ \A i \in 0..Size(w) : At(q, w, i).depth <= q.max_depth /\ PathTo(q, At(q, w, i))
    /\ \A i, j \in 0..Size(w) : i < j => At(q, w, i).depth <= At(q, w, j).depth
    /\ \A i, j \in 0..Size(w) : At(q, w, i).asset = At(q, w, j).asset => i = j

\* visited holds their depths.
SearchVisited(q, w) ==
    /\ \A c \in DOMAIN w.visited : \E i \in 0..Size(w) : At(q, w, i).asset = c
    /\ \A i \in 0..Size(w) :
          At(q, w, i).asset \in DOMAIN w.visited /\ w.visited[At(q, w, i).asset] = At(q, w, i).depth

\* The queue is what has not been looked around, and no deeper by more than
\* one than its head.
SearchQueued(q, w) ==
    /\ Len(w.queue) <= Size(w) + 1
    /\ \A k \in 1..Len(w.queue) : w.queue[k] = At(q, w, Handled(w) + k - 1)
    /\ w.queue # <<>> => \A i \in 0..Size(w) : At(q, w, i).depth <= At(q, w, Handled(w)).depth + 1

\* Around what was looked around everything is found.
SearchComplete(q, w) ==
    \A i \in 0..(Handled(w) - 1) : At(q, w, i).depth < q.max_depth =>
        \A c \in NextTo(q, At(q, w, i).asset) :
            c \in DOMAIN w.visited /\ w.visited[c] <= At(q, w, i).depth + 1

\* by_depth counts the entries of each depth.
SearchCounts(q, w) ==
    \A d \in 0..(q.max_depth + 1) :
        w.by_depth[d] = Cardinality({i \in 0..Size(w) : At(q, w, i).depth = d})

\* The invariant of the search.
Search(q, w) ==
    /\ SearchTyped(q, w)
    /\ SearchSound(q, w)
    /\ SearchVisited(q, w)
    /\ SearchQueued(q, w)
    /\ SearchComplete(q, w)
    /\ SearchCounts(q, w)

\* A listing of a set has each of its elements once.
LEMMA SetToSeqsLists ==
  ASSUME NEW S, IsFiniteSet(S), NEW f \in SetToSeqs(S)
  PROVE  /\ f \in Seq(S) /\ Len(f) \in Nat /\ DOMAIN f = 1..Len(f)
         /\ f \in [1..Len(f) -> S]
         /\ \A i, j \in 1..Len(f) : f[i] = f[j] => i = j
         /\ \A x \in S : \E i \in 1..Len(f) : f[i] = x
<1> DEFINE m == Cardinality(S)
           D == 1..m
<1>1. m \in Nat
  BY FS_CardinalityType, Zenon
<1>2. f \in [D -> S] /\ \A i, j \in D : i # j => f[i] # f[j]
  BY DEF SetToSeqs
<1>3. f \in Seq(S) /\ Len(f) = m
  BY <1>1, <1>2
<1>4. IsFiniteSet(D) /\ Cardinality(D) = m
  <2>1. 1 \in Int /\ m \in Int
    BY <1>1
  <2>2. IsFiniteSet(1..m) /\ Cardinality(1..m) = IF 1 > m THEN 0 ELSE m - 1 + 1
    BY <2>1, FS_Interval, Zenon
  <2>. QED
    BY <1>1, <2>2
<1>5. \A x \in S : \E i \in D : f[i] = x
  <2> HIDE DEF D
  <2>1. \A i, j \in D : f[i] = f[j] => i = j
    BY <1>2
  <2>2. f \in Injection(D, S)
    BY <1>2, <2>1, Fun_IsInj, Zenon
  <2>3. Cardinality(D) = Cardinality(S) <=> f \in Surjection(D, S)
    BY <2>2, FS_Injection, Zenon
  <2>4. f \in Surjection(D, S)
    BY <1>4, <2>3
  <2>. QED
    BY <2>4, Fun_SurjectionProperties, Zenon
<1> HIDE DEF m
<1>. QED
  BY <1>1, <1>2, <1>3, <1>5

\* Neighbours are assets, joined to it, and no others are.
LEMMA NextToIsJoined ==
  ASSUME NEW q, BlastCall(q), NEW a \in Nodes(q)
  PROVE  /\ NextTo(q, a) \subseteq Nodes(q)
         /\ \A c \in NextTo(q, a) : Joined(q, a, c)
         /\ \A c \in Nodes(q) : Joined(q, a, c) => c \in NextTo(q, a)
BY DEF NextTo, Joined, BlastCall, Nodes

-----------------------------------------------------------------------------
(* A visit keeps the invariant.                                            *)

\* What a visit does to the search.
Visited(q, w, new, v) ==
    /\ v.queue = Tail(w.queue) \o Found(w, new)
    /\ v.impacted = w.impacted \o Found(w, new)
    /\ v.visited = [c \in DOMAIN w.visited \cup Near(q, w) |->
                      IF c \in Near(q, w) THEN Head(w.queue).depth + 1 ELSE w.visited[c]]
    /\ v.by_depth = [w.by_depth EXCEPT ![Head(w.queue).depth + 1] = @ + Len(new)]
    /\ v.bc = w.bc /\ v.max_bc = w.max_bc

\* What two sequences put together hold.
LEMMA Concatenates ==
  ASSUME NEW S, NEW s \in Seq(S), NEW t \in Seq(S)
  PROVE  /\ s \o t \in Seq(S) /\ Len(s) \in Nat /\ Len(t) \in Nat
         /\ Len(s \o t) = Len(s) + Len(t)
         /\ \A i \in 1..Len(s) : (s \o t)[i] = s[i]
         /\ \A i \in 1..Len(t) : (s \o t)[Len(s) + i] = t[i]
<1>1. \A i \in 1..Len(t) : (s \o t)[Len(s) + i] = t[i]
  <2> TAKE i \in 1..Len(t)
  <2>1. Len(s) + i \in 1..(Len(s) + Len(t)) /\ ~(Len(s) + i <= Len(s)) /\ Len(s) + i - Len(s) = i
    OBVIOUS
  <2>. QED
    BY <2>1
<1>. QED
  BY <1>1

\* The second of two sequences put together, one element.
LEMMA SecondOfTwo ==
  ASSUME NEW S, NEW s \in Seq(S), NEW t \in Seq(S), NEW i \in 1..Len(t)
  PROVE  (s \o t)[Len(s) + i] = t[i]
BY Concatenates

\* The head of the queue is the first entry that was not handled; what is near
\* it was not visited.
LEMMA HeadIsNext ==
  ASSUME NEW q, BlastCall(q), NEW w, Search(q, w), w.queue # <<>>
  PROVE  /\ Size(w) \in Nat /\ Handled(w) \in 0..Size(w)
         /\ Len(w.queue) \in Nat \ {0} /\ Len(w.queue) = Size(w) + 1 - Handled(w)
         /\ Head(w.queue) = At(q, w, Handled(w))
         /\ Head(w.queue) \in Entries(q)
         /\ Head(w.queue).depth <= q.max_depth
         /\ \A i \in 0..Size(w) : At(q, w, i) \in Entries(q)
<1>1. w.impacted \in Seq(Entries(q)) /\ w.queue \in Seq(Entries(q)) /\ Size(w) \in Nat
  BY DEF Search, SearchTyped, Size
<1>2. Len(w.queue) \in Nat \ {0} /\ Head(w.queue) = w.queue[1] /\ w.queue[1] \in Entries(q)
  BY <1>1
<1>3. Len(w.queue) <= Size(w) + 1
  BY DEF Search, SearchQueued
<1>4. Handled(w) \in 0..Size(w) /\ Len(w.queue) = Size(w) + 1 - Handled(w)
  <2> DEFINE n == Size(w)
             l == Len(w.queue)
  <2>1. n \in Nat /\ l \in Nat \ {0} /\ l <= n + 1
    BY <1>1, <1>2, <1>3
  <2>2. Handled(w) = n + 1 - l
    BY DEF Handled
  <2> HIDE DEF n, l
  <2>3. Handled(w) \in 0..n /\ l = n + 1 - Handled(w)
    BY <2>1, <2>2
  <2>. QED
    BY <2>3 DEF n, l
<1>5. w.queue[1] = At(q, w, Handled(w) + 1 - 1)
  BY <1>2 DEF Search, SearchQueued
<1>6. Handled(w) + 1 - 1 = Handled(w)
  BY <1>4
<1>7. At(q, w, Handled(w)).depth <= q.max_depth
  BY <1>4 DEF Search, SearchSound
<1>8. Origin(q) \in Entries(q)
  <2>1. q.source \in Nodes(q)
    BY DEF BlastCall, Nodes
  <2>2. <<q.source>> \in Seq(Nodes(q))
    BY <2>1
  <2>. QED
    BY <2>1, <2>2 DEF Origin, Entries
<1>9. \A i \in 0..Size(w) : At(q, w, i) \in Entries(q)
  <2> TAKE i \in 0..Size(w)
  <2>1. CASE i = 0
    BY <1>8, <2>1 DEF At
  <2>2. CASE i # 0
    <3>1. i \in 1..Len(w.impacted)
      BY <1>1, <2>2 DEF Size
    <3>. QED
      BY <1>1, <2>2, <3>1 DEF At
  <2>. QED
    BY <2>1, <2>2
<1>. QED
  BY <1>1, <1>2, <1>4, <1>5, <1>6, <1>7, <1>9

\* What a visit finds is new and joined to the head; what it does not find was
\* reached before by a path as short.
LEMMA NearIsNew ==
  ASSUME NEW q, BlastCall(q), NEW w, Search(q, w), w.queue # <<>>
  PROVE  LET at == Head(w.queue)
         IN /\ IsFiniteSet(Near(q, w))
            /\ Near(q, w) \subseteq Nodes(q)
            /\ \A c \in Near(q, w) : c \notin DOMAIN w.visited /\ Joined(q, at.asset, c)
            /\ Near(q, w) # {} => at.depth + 1 <= q.max_depth
            /\ at.depth < q.max_depth =>
                  \A c \in NextTo(q, at.asset) :
                     c \in Near(q, w) \/ (c \in DOMAIN w.visited /\ w.visited[c] <= at.depth + 1)
<1> DEFINE at == Head(w.queue)
<1>1. /\ Size(w) \in Nat /\ Handled(w) \in 0..Size(w)
      /\ at = At(q, w, Handled(w)) /\ at \in Entries(q) /\ at.depth <= q.max_depth
      /\ \A i \in 0..Size(w) : At(q, w, i) \in Entries(q)
  BY HeadIsNext
<1>2. at.asset \in Nodes(q) /\ at.depth \in Nat /\ q.max_depth \in Nat
  BY <1>1 DEF Entries, BlastCall
<1>3. \A c \in DOMAIN w.visited : w.visited[c] \in Nat /\ w.visited[c] <= at.depth + 1
  <2> TAKE c \in DOMAIN w.visited
  <2>1. PICK i \in 0..Size(w) : At(q, w, i).asset = c
    BY DEF Search, SearchVisited
  <2>2. w.visited[c] = At(q, w, i).depth
    BY <2>1 DEF Search, SearchVisited
  <2>3. At(q, w, i).depth <= At(q, w, Handled(w)).depth + 1
    BY DEF Search, SearchQueued
  <2>4. At(q, w, i).depth \in Nat
    BY <1>1 DEF Entries
  <2>. QED
    BY <1>1, <2>2, <2>3, <2>4
<1>4. /\ NextTo(q, at.asset) \subseteq Nodes(q)
      /\ \A c \in NextTo(q, at.asset) : Joined(q, at.asset, c)
  BY <1>2, NextToIsJoined
<1> HIDE DEF at
<1>5. CASE at.depth >= q.max_depth
  <2>1. Near(q, w) = {}
    BY <1>5 DEF Near, at
  <2>2. ~(at.depth < q.max_depth)
    BY <1>2, <1>5
  <2>. QED
    BY <2>1, <2>2, FS_EmptySet DEF at
<1>6. CASE at.depth < q.max_depth
  <2>1. Near(q, w) = {c \in NextTo(q, at.asset) : c \notin DOMAIN w.visited \/ w.visited[c] > at.depth + 1}
    BY <1>2, <1>6 DEF Near, at
  <2>2. Near(q, w) \subseteq Nodes(q) /\ \A c \in Near(q, w) : c \notin DOMAIN w.visited /\ Joined(q, at.asset, c)
    BY <1>2, <1>3, <1>4, <2>1
  <2>3. IsFiniteSet(Near(q, w))
    <3>1. IsFiniteSet(Nodes(q)) /\ Near(q, w) \in SUBSET Nodes(q)
      BY <2>2 DEF BlastCall, Nodes
    <3>. QED
      BY <3>1, FS_Subset, Zenon
  <2>4. at.depth + 1 <= q.max_depth
    BY <1>2, <1>6
  <2>5. \A c \in NextTo(q, at.asset) : c \in Near(q, w) \/ (c \in DOMAIN w.visited /\ w.visited[c] <= at.depth + 1)
    BY <1>3, <2>1
  <2>. QED
    BY <2>2, <2>3, <2>4, <2>5 DEF at
<1>. QED
  BY <1>2, <1>5, <1>6

\* After a visit the entries are the old ones and one for each asset found.
LEMMA VisitFinds ==
  ASSUME NEW q, BlastCall(q), NEW w, Search(q, w), w.queue # <<>>,
         NEW new \in SetToSeqs(Near(q, w)), NEW v, Visited(q, w, new, v)
  PROVE  /\ Len(new) \in Nat
         /\ v.impacted \in Seq(Entries(q)) /\ v.queue \in Seq(Entries(q))
         /\ Size(v) = Size(w) + Len(new) /\ Handled(v) = Handled(w) + 1
         /\ Len(v.queue) = Len(w.queue) - 1 + Len(new)
         /\ \A i \in 0..Size(w) : At(q, v, i) = At(q, w, i)
         /\ \A i \in 1..Len(new) :
               At(q, v, Size(w) + i) =
                 [asset |-> new[i], depth |-> Head(w.queue).depth + 1,
                  path |-> Append(Head(w.queue).path, new[i])]
         /\ \A k \in 1..Len(v.queue) : v.queue[k] = At(q, v, Handled(v) + k - 1)
<1> DEFINE at == Head(w.queue)
           found == Found(w, new)
           m == Len(new)
           n == Size(w)
           h == Handled(w)
<1>1. /\ n \in Nat /\ h \in 0..n /\ Len(w.queue) \in Nat \ {0} /\ Len(w.queue) = n + 1 - h
      /\ at \in Entries(q)
  BY HeadIsNext
<1>2. IsFiniteSet(Near(q, w)) /\ Near(q, w) \subseteq Nodes(q)
  BY NearIsNew
<1>3. /\ m \in Nat /\ DOMAIN new = 1..m /\ \A i \in 1..m : new[i] \in Nodes(q)
  <2>1. /\ Len(new) \in Nat /\ DOMAIN new = 1..Len(new) /\ new \in [1..Len(new) -> Near(q, w)]
    BY <1>2, SetToSeqsLists
  <2>. QED
    BY <1>2, <2>1
<1> HIDE DEF at, m, n, h
<1>4. \A i \in 1..m : found[i] = [asset |-> new[i], depth |-> at.depth + 1, path |-> Append(at.path, new[i])]
  BY <1>3 DEF Found, at
<1>5. \A i \in 1..m : found[i] \in Entries(q)
  <2> TAKE i \in 1..m
  <2>1. Append(at.path, new[i]) \in Seq(Nodes(q)) /\ at.depth + 1 \in Nat
    BY <1>1, <1>3 DEF Entries
  <2>2. new[i] \in Nodes(q)
    BY <1>3
  <2>3. [asset |-> new[i], depth |-> at.depth + 1, path |-> Append(at.path, new[i])] \in Entries(q)
    BY <2>1, <2>2 DEF Entries
  <2>. QED
    BY <1>4, <2>3
<1>6. DOMAIN found = 1..m
  BY <1>3 DEF Found
<1>7. found \in Seq(Entries(q)) /\ Len(found) = m
  <2>1. found = [i \in 1..m |-> found[i]]
    BY <1>6 DEF Found
  <2> HIDE DEF found
  <2>. QED
    BY <1>3, <1>5, <2>1
<1> HIDE DEF found
<1>8. w.impacted \in Seq(Entries(q)) /\ w.queue \in Seq(Entries(q)) /\ Len(w.impacted) = n
  BY DEF Search, SearchTyped, n, Size
<1>9. v.impacted = w.impacted \o found /\ v.queue = Tail(w.queue) \o found
  BY DEF Visited, found
<1>10. Tail(w.queue) \in Seq(Entries(q)) /\ Len(Tail(w.queue)) = Len(w.queue) - 1
  BY <1>1, <1>8
<1>11. v.impacted \in Seq(Entries(q)) /\ v.queue \in Seq(Entries(q)) /\ Len(v.impacted) = n + m
       /\ Len(v.queue) = Len(w.queue) - 1 + m
  <2> DEFINE tail == Tail(w.queue)
             E == Entries(q)
  <2> HIDE DEF tail, E
  <2>1. tail \in Seq(E) /\ found \in Seq(E) /\ w.impacted \in Seq(E)
    BY <1>7, <1>8, <1>10 DEF tail, E
  <2>2. w.impacted \o found \in Seq(E) /\ Len(w.impacted \o found) = Len(w.impacted) + Len(found)
    BY <2>1, Concatenates, Zenon
  <2>3. tail \o found \in Seq(E) /\ Len(tail \o found) = Len(tail) + Len(found)
    BY <2>1, Concatenates, Zenon
  <2>4. v.impacted \in Seq(E) /\ v.queue \in Seq(E) /\ Len(v.impacted) = n + m
    BY <1>7, <1>8, <1>9, <2>2, <2>3 DEF tail
  <2>5. Len(v.queue) = Len(tail) + m
    BY <1>7, <1>9, <2>3 DEF tail
  <2>. QED
    BY <1>10, <2>4, <2>5 DEF tail, E
<1>12. Size(v) = n + m /\ Handled(v) = h + 1
  BY <1>1, <1>3, <1>11 DEF Size, Handled
<1>13. \A i \in 0..n : At(q, v, i) = At(q, w, i)
  BY <1>1, <1>7, <1>8, <1>9 DEF At
<1>14. \A i \in 1..m : At(q, v, n + i) = found[i]
  <2> TAKE i \in 1..m
  <2>1. n + i # 0 /\ n + i \in 1..(n + m)
    BY <1>1, <1>3
  <2>2. (w.impacted \o found)[Len(w.impacted) + i] = found[i]
    <3>1. i \in 1..Len(found)
      BY <1>7
    <3>. QED
      BY <1>7, <1>8, <3>1, SecondOfTwo, Zenon
  <2>3. v.impacted[n + i] = found[i]
    BY <1>7, <1>8, <1>9, <2>2
  <2>. QED
    BY <2>1, <2>3 DEF At
<1>15. \A k \in 1..Len(w.queue) : w.queue[k] = At(q, w, h + k - 1)
  BY DEF Search, SearchQueued, h
<1>16. \A k \in 1..Len(v.queue) : v.queue[k] = At(q, v, Handled(v) + k - 1)
  <2> TAKE k \in 1..Len(v.queue)
  <2>1. CASE k <= Len(w.queue) - 1
    <3>1. k \in 1..(Len(w.queue) - 1) /\ k + 1 \in 1..Len(w.queue)
      BY <1>1, <2>1
    <3>2. v.queue[k] = w.queue[k + 1]
      BY <1>1, <1>7, <1>8, <1>9, <1>10, <3>1
    <3>3. h + (k + 1) - 1 \in 0..n /\ h + (k + 1) - 1 = h + 1 + k - 1
      BY <1>1, <3>1
    <3>4. w.queue[k + 1] = At(q, w, h + (k + 1) - 1)
      BY <1>15, <3>1
    <3>. QED
      BY <1>12, <1>13, <3>2, <3>3, <3>4
  <2>2. CASE k > Len(w.queue) - 1
    <3> DEFINE i == k - (Len(w.queue) - 1)
    <3>1. i \in 1..m /\ h + 1 + k - 1 = n + i
      BY <1>1, <1>3, <1>11, <2>2
    <3> DEFINE tail == Tail(w.queue)
    <3> HIDE DEF tail
    <3>3. Len(tail) = Len(w.queue) - 1
      BY <1>10 DEF tail
    <3>4. k = Len(tail) + i /\ i \in 1..Len(found)
      BY <1>1, <1>7, <3>1, <3>3
    <3> HIDE DEF i
    <3>5. (tail \o found)[Len(tail) + i] = found[i]
      BY <1>7, <1>10, <3>4, SecondOfTwo, Zenon DEF tail
    <3>2. v.queue[k] = found[i]
      BY <1>9, <3>4, <3>5 DEF tail
    <3>. QED
      BY <1>12, <1>14, <3>1, <3>2
  <2>. QED
    BY <1>1, <2>1, <2>2
<1>. QED
  BY <1>1, <1>3, <1>4, <1>11, <1>12, <1>13, <1>14, <1>16 DEF at, m, n, h

\* An entry after a visit is an old one, or one of those found, a step beyond
\* the head.
LEMMA OldOrFound ==
  ASSUME NEW q, BlastCall(q), NEW w, Search(q, w), w.queue # <<>>,
         NEW new \in SetToSeqs(Near(q, w)), NEW v, Visited(q, w, new, v),
         NEW i \in 0..Size(v)
  PROVE  \/ i \in 0..Size(w) /\ At(q, v, i) = At(q, w, i)
         \/ /\ i > Size(w) /\ i - Size(w) \in 1..Len(new)
            /\ At(q, v, i).asset = new[i - Size(w)]
            /\ At(q, v, i).depth = Head(w.queue).depth + 1
            /\ At(q, v, i).path = Append(Head(w.queue).path, new[i - Size(w)])
<1>1. Size(w) \in Nat
  BY HeadIsNext
<1>2. /\ Len(new) \in Nat /\ Size(v) = Size(w) + Len(new)
      /\ \A j \in 0..Size(w) : At(q, v, j) = At(q, w, j)
      /\ \A j \in 1..Len(new) :
            At(q, v, Size(w) + j) =
              [asset |-> new[j], depth |-> Head(w.queue).depth + 1,
               path |-> Append(Head(w.queue).path, new[j])]
  BY VisitFinds
<1>3. CASE i <= Size(w)
  BY <1>1, <1>2, <1>3
<1>4. CASE i > Size(w)
  <2> DEFINE j == i - Size(w)
  <2>1. j \in 1..Len(new) /\ Size(w) + j = i
    BY <1>1, <1>2, <1>4
  <2>2. At(q, v, Size(w) + j) =
              [asset |-> new[j], depth |-> Head(w.queue).depth + 1,
               path |-> Append(Head(w.queue).path, new[j])]
    BY <1>2, <2>1
  <2>. QED
    BY <1>4, <2>1, <2>2
<1>. QED
  BY <1>1, <1>2, <1>3, <1>4

\* What is found lies on a path of the forest.
LEMMA PathGrows ==
  ASSUME NEW q, NEW at \in Entries(q), PathTo(q, at), NEW c \in Nodes(q), Joined(q, at.asset, c),
         NEW e, e.asset = c, e.depth = at.depth + 1, e.path = Append(at.path, c)
  PROVE  PathTo(q, e)
<1> DEFINE p == at.path
           d == at.depth
<1>1. p \in Seq(Nodes(q)) /\ d \in Nat /\ Len(p) = d + 1 /\ p[1] = q.source /\ p[Len(p)] = at.asset
      /\ \A k \in 1..d : Joined(q, p[k], p[k + 1])
  BY DEF Entries, PathTo
<1> HIDE DEF p, d
<1>2. e.path = Append(p, c) /\ e.depth = d + 1
  BY DEF p, d
<1>3. Len(e.path) = d + 2 /\ e.path[d + 2] = c /\ \A k \in 1..(d + 1) : e.path[k] = p[k]
  BY <1>1, <1>2
<1>4. \A k \in 1..(d + 1) : Joined(q, e.path[k], e.path[k + 1])
  <2> TAKE k \in 1..(d + 1)
  <2>1. CASE k = d + 1
    <3>1. e.path[k] = at.asset /\ e.path[k + 1] = c
      BY <1>1, <1>3, <2>1
    <3>. QED
      BY <3>1
  <2>2. CASE k # d + 1
    <3>1. k \in 1..d /\ k + 1 \in 1..(d + 1) /\ k \in 1..(d + 1)
      BY <1>1, <2>2
    <3>2. e.path[k] = p[k] /\ e.path[k + 1] = p[k + 1]
      BY <1>3, <3>1
    <3>. QED
      BY <1>1, <3>1, <3>2
  <2>. QED
    BY <2>1, <2>2
<1>5. e.path[1] = q.source
  BY <1>1, <1>3
<1>6. Len(e.path) = e.depth + 1 /\ e.path[Len(e.path)] = e.asset
  BY <1>1, <1>2, <1>3
<1>. QED
  BY <1>2, <1>4, <1>5, <1>6 DEF PathTo

\* A visit keeps the entries on paths of the forest, in order of depth, each
\* asset once.
LEMMA VisitSound ==
  ASSUME NEW q, BlastCall(q), NEW w, Search(q, w), w.queue # <<>>,
         NEW new \in SetToSeqs(Near(q, w)), NEW v, Visited(q, w, new, v)
  PROVE  SearchSound(q, v)
<1> DEFINE at == Head(w.queue)
           d == at.depth
           n == Size(w)
<1>1. /\ n \in Nat /\ Handled(w) \in 0..n /\ at = At(q, w, Handled(w)) /\ at \in Entries(q) /\ d \in Nat
      /\ \A i \in 0..n : At(q, w, i) \in Entries(q) /\ At(q, w, i).depth \in Nat
  BY HeadIsNext DEF Entries
<1>2. /\ Near(q, w) \subseteq Nodes(q) /\ IsFiniteSet(Near(q, w))
      /\ \A c \in Near(q, w) : c \notin DOMAIN w.visited /\ Joined(q, at.asset, c)
      /\ Near(q, w) # {} => d + 1 <= q.max_depth
  BY NearIsNew
<1>3. /\ Len(new) \in Nat /\ \A i \in 1..Len(new) : new[i] \in Near(q, w)
      /\ \A i, j \in 1..Len(new) : new[i] = new[j] => i = j
  BY <1>2, SetToSeqsLists
<1>4. Size(v) = n + Len(new)
  BY VisitFinds
<1>5. \A i \in 0..Size(v) :
         \/ i \in 0..n /\ At(q, v, i) = At(q, w, i)
         \/ /\ i > n /\ i - n \in 1..Len(new)
            /\ At(q, v, i).asset = new[i - n]
            /\ At(q, v, i).depth = d + 1
            /\ At(q, v, i).path = Append(at.path, new[i - n])
  BY OldOrFound
<1>6. /\ \A i \in 0..n : At(q, w, i).depth <= q.max_depth /\ PathTo(q, At(q, w, i))
      /\ \A i, j \in 0..n : i < j => At(q, w, i).depth <= At(q, w, j).depth
      /\ \A i, j \in 0..n : At(q, w, i).asset = At(q, w, j).asset => i = j
  BY DEF Search, SearchSound
<1>7. \A i \in 0..n : At(q, w, i).depth <= d + 1
  BY <1>1 DEF Search, SearchQueued
<1>8. \A i \in 0..n : At(q, w, i).asset \in DOMAIN w.visited
  BY DEF Search, SearchVisited
<1>9. PathTo(q, at)
  BY <1>1, <1>6
<1> HIDE DEF at, d, n
<1>10. \A i \in 0..Size(v) : At(q, v, i).depth <= q.max_depth /\ PathTo(q, At(q, v, i))
  <2> TAKE i \in 0..Size(v)
  <2>1. CASE i \in 0..n /\ At(q, v, i) = At(q, w, i)
    BY <1>6, <2>1
  <2>2. CASE /\ i > n /\ i - n \in 1..Len(new)
             /\ At(q, v, i).asset = new[i - n]
             /\ At(q, v, i).depth = d + 1
             /\ At(q, v, i).path = Append(at.path, new[i - n])
    <3> DEFINE c == new[i - n]
               e == At(q, v, i)
    <3>1. c \in Near(q, w)
      BY <1>3, <2>2
    <3>2. c \in Nodes(q) /\ Joined(q, at.asset, c) /\ d + 1 <= q.max_depth
      BY <1>2, <3>1
    <3>3. e.asset = c /\ e.depth = at.depth + 1 /\ e.path = Append(at.path, c)
      BY <2>2 DEF d
    <3> HIDE DEF c, e
    <3>4. PathTo(q, e)
      BY <1>1, <1>9, <3>2, <3>3, PathGrows, Zenon
    <3>. QED
      BY <2>2, <3>2, <3>4 DEF e
  <2>. QED
    BY <1>5, <2>1, <2>2
<1>11. \A i, j \in 0..Size(v) : i < j => At(q, v, i).depth <= At(q, v, j).depth
  <2> SUFFICES ASSUME NEW i \in 0..Size(v), NEW j \in 0..Size(v), i < j
               PROVE  At(q, v, i).depth <= At(q, v, j).depth
    OBVIOUS
  <2>1. CASE j \in 0..n
    <3>1. i \in 0..n /\ ~(i > n) /\ ~(j > n)
      BY <1>1, <1>4, <1>3, <2>1
    <3>2. At(q, v, i) = At(q, w, i) /\ At(q, v, j) = At(q, w, j)
      BY <1>5, <3>1
    <3>. QED
      BY <1>6, <2>1, <3>1, <3>2
  <2>2. CASE j \notin 0..n
    <3>1. At(q, v, j).depth = d + 1
      BY <1>5, <2>2
    <3>2. At(q, v, i).depth <= d + 1
      BY <1>1, <1>5, <1>7
    <3>. QED
      BY <3>1, <3>2
  <2>. QED
    BY <2>1, <2>2
<1>12. \A i, j \in 0..Size(v) : At(q, v, i).asset = At(q, v, j).asset => i = j
  <2> SUFFICES ASSUME NEW i \in 0..Size(v), NEW j \in 0..Size(v), At(q, v, i).asset = At(q, v, j).asset
               PROVE  i = j
    OBVIOUS
  <2>0. \A k \in 0..Size(v) : k \notin 0..n => At(q, v, k).asset \in Near(q, w)
    BY <1>3, <1>5
  <2>1. CASE i \in 0..n /\ j \in 0..n
    <3>1. At(q, v, i) = At(q, w, i) /\ At(q, v, j) = At(q, w, j)
      BY <1>1, <1>5, <2>1
    <3>. QED
      BY <1>6, <2>1, <3>1
  <2>2. CASE i \in 0..n /\ j \notin 0..n
    <3>1. At(q, v, i).asset \in DOMAIN w.visited
      BY <1>1, <1>5, <1>8, <2>2
    <3>. QED
      BY <1>2, <2>0, <2>2, <3>1
  <2>3. CASE i \notin 0..n /\ j \in 0..n
    <3>1. At(q, v, j).asset \in DOMAIN w.visited
      BY <1>1, <1>5, <1>8, <2>3
    <3>. QED
      BY <1>2, <2>0, <2>3, <3>1
  <2>4. CASE i \notin 0..n /\ j \notin 0..n
    <3>1. i - n \in 1..Len(new) /\ j - n \in 1..Len(new) /\ new[i - n] = new[j - n]
      BY <1>5, <2>4
    <3>2. i - n = j - n
      BY <1>3, <3>1
    <3>. QED
      BY <1>1, <3>2
  <2>. QED
    BY <2>1, <2>2, <2>3, <2>4
<1>. QED
  BY <1>10, <1>11, <1>12 DEF SearchSound

\* A visit keeps visited the depths of the entries.
LEMMA VisitVisited ==
  ASSUME NEW q, BlastCall(q), NEW w, Search(q, w), w.queue # <<>>,
         NEW new \in SetToSeqs(Near(q, w)), NEW v, Visited(q, w, new, v)
  PROVE  SearchVisited(q, v)
<1> DEFINE d == Head(w.queue).depth
           n == Size(w)
           near == Near(q, w)
<1>1. n \in Nat
  BY HeadIsNext
<1>2. near \subseteq Nodes(q) /\ IsFiniteSet(near) /\ \A c \in near : c \notin DOMAIN w.visited
  BY NearIsNew
<1>3. /\ Len(new) \in Nat /\ \A i \in 1..Len(new) : new[i] \in near
      /\ \A c \in near : \E i \in 1..Len(new) : new[i] = c
  BY <1>2, SetToSeqsLists
<1>4. Size(v) = n + Len(new)
  BY VisitFinds
<1>5. \A i \in 0..Size(v) :
         \/ i \in 0..n /\ At(q, v, i) = At(q, w, i)
         \/ /\ i > n /\ i - n \in 1..Len(new)
            /\ At(q, v, i).asset = new[i - n]
            /\ At(q, v, i).depth = d + 1
  BY OldOrFound
<1>6. /\ \A c \in DOMAIN w.visited : \E i \in 0..n : At(q, w, i).asset = c
      /\ \A i \in 0..n : At(q, w, i).asset \in DOMAIN w.visited
                         /\ w.visited[At(q, w, i).asset] = At(q, w, i).depth
  BY DEF Search, SearchVisited
<1>7. v.visited = [c \in DOMAIN w.visited \cup near |-> IF c \in near THEN d + 1 ELSE w.visited[c]]
  BY DEF Visited
<1> HIDE DEF d, n, near
<1>8. \A c \in DOMAIN v.visited : \E i \in 0..Size(v) : At(q, v, i).asset = c
  <2> TAKE c \in DOMAIN v.visited
  <2>1. CASE c \in DOMAIN w.visited
    <3>1. PICK i \in 0..n : At(q, w, i).asset = c
      BY <1>6, <2>1
    <3>2. i \in 0..Size(v) /\ ~(i > n)
      BY <1>1, <1>3, <1>4
    <3>. QED
      BY <1>5, <3>1, <3>2
  <2>2. CASE c \in near
    <3>1. PICK j \in 1..Len(new) : new[j] = c
      BY <1>3, <2>2
    <3> DEFINE k == n + j
    <3>2. k \in 0..Size(v) /\ k - n = j /\ k \notin 0..n
      BY <1>1, <1>3, <1>4
    <3> HIDE DEF k
    <3>3. At(q, v, k).asset = new[k - n]
      BY <1>5, <3>2
    <3>. QED
      BY <3>1, <3>2, <3>3
  <2>. QED
    BY <1>7, <2>1, <2>2
<1>9. \A i \in 0..Size(v) :
         At(q, v, i).asset \in DOMAIN v.visited /\ v.visited[At(q, v, i).asset] = At(q, v, i).depth
  <2> TAKE i \in 0..Size(v)
  <2>1. CASE i \in 0..n /\ At(q, v, i) = At(q, w, i)
    BY <1>2, <1>6, <1>7, <2>1
  <2>2. CASE /\ i > n /\ i - n \in 1..Len(new)
             /\ At(q, v, i).asset = new[i - n]
             /\ At(q, v, i).depth = d + 1
    <3>1. new[i - n] \in near
      BY <1>3, <2>2
    <3>. QED
      BY <1>7, <2>2, <3>1
  <2>. QED
    BY <1>5, <2>1, <2>2
<1>. QED
  BY <1>8, <1>9 DEF SearchVisited

\* A visit keeps in the queue what has not been looked around, no deeper by
\* more than one than its head.
LEMMA VisitQueued ==
  ASSUME NEW q, BlastCall(q), NEW w, Search(q, w), w.queue # <<>>,
         NEW new \in SetToSeqs(Near(q, w)), NEW v, Visited(q, w, new, v)
  PROVE  SearchQueued(q, v)
<1> DEFINE d == Head(w.queue).depth
           n == Size(w)
           h == Handled(w)
<1>1. /\ n \in Nat /\ h \in 0..n /\ d \in Nat /\ d = At(q, w, h).depth
      /\ Len(w.queue) \in Nat \ {0} /\ Len(w.queue) = n + 1 - h
      /\ \A i \in 0..n : At(q, w, i).depth \in Nat
  BY HeadIsNext DEF Entries
<1>2. /\ Len(new) \in Nat
      /\ Size(v) = n + Len(new) /\ Handled(v) = h + 1 /\ Len(v.queue) = Len(w.queue) - 1 + Len(new)
      /\ \A k \in 1..Len(v.queue) : v.queue[k] = At(q, v, Handled(v) + k - 1)
      /\ v.queue \in Seq(Entries(q))
  BY VisitFinds
<1>3. \A i \in 0..Size(v) :
         \/ i \in 0..n /\ At(q, v, i) = At(q, w, i)
         \/ i > n /\ At(q, v, i).depth = d + 1
  BY OldOrFound
<1>4. /\ \A i \in 0..n : At(q, w, i).depth <= d + 1
  BY <1>1 DEF Search, SearchQueued
<1>5. \A i, j \in 0..n : i < j => At(q, w, i).depth <= At(q, w, j).depth
  BY DEF Search, SearchSound
<1> HIDE DEF d, n, h
<1>6. Len(v.queue) <= Size(v) + 1
  BY <1>1, <1>2
<1>7. ASSUME v.queue # <<>>, NEW i \in 0..Size(v)
      PROVE  At(q, v, i).depth <= At(q, v, h + 1).depth + 1
  <2>1. Len(v.queue) # 0
    BY <1>2, <1>7
  <2>2. h + 1 \in 0..Size(v)
    BY <1>1, <1>2, <2>1
  <2>3. At(q, v, h + 1).depth \in Nat /\ d <= At(q, v, h + 1).depth
    <3>1. CASE h + 1 \in 0..n
      <4>1. At(q, v, h + 1) = At(q, w, h + 1)
        BY <1>1, <1>3, <2>2, <3>1
      <4>2. At(q, w, h).depth <= At(q, w, h + 1).depth
        BY <1>1, <1>5, <3>1
      <4>. QED
        BY <1>1, <3>1, <4>1, <4>2
    <3>2. CASE h + 1 \notin 0..n
      <4>1. At(q, v, h + 1).depth = d + 1
        BY <1>3, <2>2, <3>2
      <4>. QED
        BY <1>1, <4>1
    <3>. QED
      BY <3>1, <3>2
  <2>4. At(q, v, i).depth \in Nat /\ At(q, v, i).depth <= d + 1
    BY <1>1, <1>3, <1>4
  <2>. QED
    BY <1>1, <2>3, <2>4
<1>. QED
  BY <1>2, <1>6, <1>7 DEF SearchQueued

\* After a visit everything next to what was looked around has an entry.
LEMMA VisitComplete ==
  ASSUME NEW q, BlastCall(q), NEW w, Search(q, w), w.queue # <<>>,
         NEW new \in SetToSeqs(Near(q, w)), NEW v, Visited(q, w, new, v)
  PROVE  SearchComplete(q, v)
<1> DEFINE at == Head(w.queue)
           d == at.depth
           n == Size(w)
           h == Handled(w)
           near == Near(q, w)
<1>1. /\ n \in Nat /\ h \in 0..n /\ d \in Nat /\ at = At(q, w, h)
  BY HeadIsNext DEF Entries
<1>2. /\ Handled(v) = h + 1
      /\ \A i \in 0..n : At(q, v, i) = At(q, w, i)
  BY VisitFinds
<1>3. /\ \A c \in near : c \notin DOMAIN w.visited
      /\ d < q.max_depth =>
           \A c \in NextTo(q, at.asset) :
              c \in near \/ (c \in DOMAIN w.visited /\ w.visited[c] <= d + 1)
  BY NearIsNew
<1>4. v.visited = [c \in DOMAIN w.visited \cup near |-> IF c \in near THEN d + 1 ELSE w.visited[c]]
  BY DEF Visited
<1>5. \A i \in 0..(h - 1) : At(q, w, i).depth < q.max_depth =>
        \A c \in NextTo(q, At(q, w, i).asset) :
            c \in DOMAIN w.visited /\ w.visited[c] <= At(q, w, i).depth + 1
  BY DEF Search, SearchComplete
<1> HIDE DEF at, d, n, h, near
<1>6. ASSUME NEW i \in 0..h, At(q, v, i).depth < q.max_depth, NEW c \in NextTo(q, At(q, v, i).asset)
      PROVE  c \in DOMAIN v.visited /\ v.visited[c] <= At(q, v, i).depth + 1
  <2>1. CASE i = h
    <3>1. At(q, v, i) = at
      BY <1>1, <1>2, <2>1
    <3>2. d < q.max_depth /\ c \in NextTo(q, at.asset)
      BY <1>6, <3>1 DEF d
    <3>3. c \in near \/ (c \in DOMAIN w.visited /\ w.visited[c] <= d + 1)
      BY <1>3, <3>2
    <3>4. c \in DOMAIN v.visited /\ v.visited[c] <= d + 1
      BY <1>1, <1>3, <1>4, <3>3
    <3>. QED
      BY <3>1, <3>4 DEF d
  <2>2. CASE i # h
    <3>1. i \in 0..(h - 1) /\ i \in 0..n
      BY <1>1, <2>2
    <3>2. At(q, v, i) = At(q, w, i)
      BY <1>2, <3>1
    <3>3. c \in DOMAIN w.visited /\ w.visited[c] <= At(q, w, i).depth + 1
      BY <1>5, <1>6, <3>1, <3>2
    <3>4. c \in DOMAIN v.visited /\ v.visited[c] = w.visited[c]
      BY <1>3, <1>4, <3>3
    <3>. QED
      BY <3>2, <3>3, <3>4
  <2>. QED
    BY <2>1, <2>2
<1>7. Handled(v) - 1 = h
  BY <1>1, <1>2
<1>. QED
  BY <1>6, <1>7 DEF SearchComplete

\* A visit keeps the counts by depth.
LEMMA VisitCounts ==
  ASSUME NEW q, BlastCall(q), NEW w, Search(q, w), w.queue # <<>>,
         NEW new \in SetToSeqs(Near(q, w)), NEW v, Visited(q, w, new, v)
  PROVE  SearchCounts(q, v) /\ v.by_depth \in [0..(q.max_depth + 1) -> Nat]
<1> DEFINE nd == Head(w.queue).depth + 1
           n == Size(w)
           m == Len(new)
           D == 0..(q.max_depth + 1)
           old(x) == {i \in 0..n : At(q, w, i).depth = x}
           all(x) == {i \in 0..Size(v) : At(q, v, i).depth = x}
           added == (n + 1)..(n + m)
<1>1. n \in Nat /\ nd \in D /\ Head(w.queue).depth \in Nat /\ q.max_depth \in Nat
  <2>1. n \in Nat /\ Head(w.queue) \in Entries(q) /\ Head(w.queue).depth <= q.max_depth
    BY HeadIsNext
  <2>2. Head(w.queue).depth \in Nat /\ q.max_depth \in Nat
    BY <2>1 DEF Entries, BlastCall
  <2>. QED
    BY <2>1, <2>2
<1>2. m \in Nat /\ Size(v) = n + m
  BY VisitFinds
<1>3. \A i \in 0..Size(v) :
         \/ i \in 0..n /\ At(q, v, i) = At(q, w, i)
         \/ i > n /\ At(q, v, i).depth = nd
  BY OldOrFound
<1>4. /\ w.by_depth \in [D -> Nat]
      /\ \A x \in D : w.by_depth[x] = Cardinality(old(x))
  BY DEF Search, SearchTyped, SearchCounts
<1>5. v.by_depth = [w.by_depth EXCEPT ![nd] = @ + m]
  BY DEF Visited
<1> HIDE DEF nd, n, m, D
<1>6. v.by_depth \in [D -> Nat] /\ \A x \in D : v.by_depth[x] = IF x = nd THEN w.by_depth[x] + m ELSE w.by_depth[x]
  BY <1>1, <1>2, <1>4, <1>5
<1>7. \A x \in D : x # nd => all(x) = old(x)
  BY <1>1, <1>2, <1>3
<1>8. all(nd) = old(nd) \cup added /\ old(nd) \cap added = {}
  BY <1>1, <1>2, <1>3
<1>9. IsFiniteSet(old(nd)) /\ IsFiniteSet(added) /\ Cardinality(added) = m
  <2>1. n + 1 \in Int /\ n + m \in Int /\ 0 \in Int /\ n \in Int
    BY <1>1, <1>2
  <2>2. IsFiniteSet((n + 1)..(n + m)) /\ Cardinality((n + 1)..(n + m)) = IF n + 1 > n + m THEN 0 ELSE (n + m) - (n + 1) + 1
    BY <2>1, FS_Interval, Zenon
  <2>3. Cardinality(added) = m
    BY <1>1, <1>2, <2>2
  <2>4. IsFiniteSet(0..n)
    BY <2>1, FS_Interval, Zenon
  <2> DEFINE I == 0..n
  <2>5. IsFiniteSet(I) /\ old(nd) \in SUBSET I
    BY <2>4
  <2> HIDE DEF I
  <2>6. IsFiniteSet(old(nd))
    BY <2>5, FS_Subset, Zenon
  <2>. QED
    BY <2>2, <2>3, <2>6
<1> HIDE DEF old, added, all
<1>10. Cardinality(all(nd)) = Cardinality(old(nd)) + m
  <2>1. Cardinality(old(nd) \cup added) = Cardinality(old(nd)) + Cardinality(added) - Cardinality(old(nd) \cap added)
    BY <1>9, FS_Union, Zenon
  <2>2. Cardinality(old(nd) \cap added) = 0
    BY <1>8, FS_EmptySet, Zenon
  <2>3. Cardinality(old(nd)) \in Nat
    BY <1>9, FS_CardinalityType, Zenon
  <2>. QED
    BY <1>2, <1>8, <1>9, <2>1, <2>2, <2>3
<1>11. \A x \in D : v.by_depth[x] = Cardinality(all(x))
  BY <1>4, <1>6, <1>7, <1>10
<1>. QED
  BY <1>6, <1>11 DEF SearchCounts, D, all

\* A visit keeps the invariant of the search.
LEMMA VisitKeepsSearch ==
  ASSUME NEW q, BlastCall(q), NEW w, Search(q, w), w.queue # <<>>,
         NEW new \in SetToSeqs(Near(q, w)), NEW v, Visited(q, w, new, v)
  PROVE  Search(q, v)
<1>1. v.impacted \in Seq(Entries(q)) /\ v.queue \in Seq(Entries(q))
  BY VisitFinds
<1>2. v.by_depth \in [0..(q.max_depth + 1) -> Nat] /\ SearchCounts(q, v)
  BY VisitCounts
<1>3. v.bc \in [Nodes(q) -> Nat] /\ v.max_bc \in Nat \ {0}
  BY DEF Search, SearchTyped, Visited
<1>4. SearchTyped(q, v)
  BY <1>1, <1>2, <1>3 DEF SearchTyped
<1>. QED
  BY <1>2, <1>4, VisitSound, VisitVisited, VisitQueued, VisitComplete DEF Search

-----------------------------------------------------------------------------
(* When the queue is empty, the entries are the assets within max_depth.   *)

\* Before the first visit only the source is there.
LEMMA SearchBegins ==
  ASSUME NEW q, BlastCall(q), NEW w,
         w.queue = <<Origin(q)>>, w.impacted = <<>>,
         w.visited = [a \in {q.source} |-> 0],
         w.by_depth = [d \in 0..(q.max_depth + 1) |-> IF d = 0 THEN 1 ELSE 0],
         w.bc \in [Nodes(q) -> Nat], w.max_bc \in Nat \ {0}
  PROVE  Search(q, w)
<1>1. q.source \in Nodes(q) /\ q.max_depth \in Nat
  BY DEF BlastCall, Nodes
<1>2. <<q.source>> \in Seq(Nodes(q))
  BY <1>1
<1>3. Origin(q) \in Entries(q)
  BY <1>1, <1>2 DEF Origin, Entries
<1>4. /\ Origin(q).asset = q.source /\ Origin(q).depth = 0 /\ Origin(q).path = <<q.source>>
  BY DEF Origin
<1>5. Size(w) = 0 /\ Len(w.queue) = 1 /\ Handled(w) = 0 /\ w.queue[1] = Origin(q)
  BY DEF Size, Handled
<1>6. \A i \in 0..Size(w) : i = 0 /\ At(q, w, i) = Origin(q)
  BY <1>5 DEF At
<1>7. SearchTyped(q, w)
  <2>1. w.impacted \in Seq(Entries(q)) /\ w.queue \in Seq(Entries(q))
    BY <1>3
  <2>2. w.by_depth \in [0..(q.max_depth + 1) -> Nat]
    OBVIOUS
  <2>. QED
    BY <2>1, <2>2 DEF SearchTyped
<1>8. PathTo(q, Origin(q))
  BY <1>4 DEF PathTo
<1>9. SearchSound(q, w)
  BY <1>1, <1>4, <1>6, <1>8 DEF SearchSound
<1>10. SearchVisited(q, w)
  <2>1. 0 \in 0..Size(w)
    BY <1>5
  <2>. QED
    BY <1>4, <1>6, <2>1 DEF SearchVisited
<1>11. SearchQueued(q, w)
  <2>1. At(q, w, 0) = Origin(q)
    BY DEF At
  <2>2. \A k \in 1..Len(w.queue) : w.queue[k] = At(q, w, Handled(w) + k - 1)
    BY <1>5, <2>1
  <2>3. \A i \in 0..Size(w) : At(q, w, i).depth <= At(q, w, Handled(w)).depth + 1
    BY <1>4, <1>5, <1>6, <2>1
  <2>. QED
    BY <1>5, <2>2, <2>3 DEF SearchQueued
<1>12. SearchComplete(q, w)
  BY <1>5 DEF SearchComplete
<1>13. SearchCounts(q, w)
  <2> SUFFICES ASSUME NEW d \in 0..(q.max_depth + 1)
               PROVE  w.by_depth[d] = Cardinality({i \in 0..Size(w) : At(q, w, i).depth = d})
    BY DEF SearchCounts
  <2> DEFINE S == {i \in 0..Size(w) : At(q, w, i).depth = d}
  <2>1. CASE d = 0
    <3>1. S = {0}
      BY <1>4, <1>5, <1>6, <2>1
    <3>2. Cardinality(S) = 1
      BY <3>1, FS_Singleton
    <3>. QED
      BY <2>1, <3>2
  <2>2. CASE d # 0
    <3>1. S = {}
      BY <1>4, <1>6, <2>2
    <3>2. Cardinality(S) = 0
      BY <3>1, FS_EmptySet
    <3>. QED
      BY <2>2, <3>2
  <2>. QED
    BY <2>1, <2>2
<1>. QED
  BY <1>7, <1>9, <1>10, <1>11, <1>12, <1>13 DEF Search

-----------------------------------------------------------------------------

\* Reached, Within and Ring of a request.
ReachedBy(q, n, b) ==
    \E p \in [0..n -> Nodes(q)] :
        /\ p[0] = q.source /\ p[n] = b
        /\ \A i \in 0..(n - 1) : Joined(q, p[i], p[i + 1])
WithinOf(q, k) == {b \in Nodes(q) : \E n \in 0..k : ReachedBy(q, n, b)}
RingOf(q, d) == {b \in WithinOf(q, d) : \A n \in 0..(d - 1) : b \notin WithinOf(q, n)}

\* When nothing is left to look around, whatever a path of at most max_depth
\* edges leads to was visited at no greater depth: the first place on the path
\* of which this does not hold has a neighbour that was looked around.
LEMMA ReachedIsVisited ==
  ASSUME NEW q, BlastCall(q), NEW w, Search(q, w), w.queue = <<>>,
         NEW n \in 0..q.max_depth, NEW b, ReachedBy(q, n, b)
  PROVE  b \in DOMAIN w.visited /\ w.visited[b] <= n
<1>1. PICK p \in [0..n -> Nodes(q)] :
        /\ p[0] = q.source /\ p[n] = b
        /\ \A i \in 0..(n - 1) : Joined(q, p[i], p[i + 1])
  BY DEF ReachedBy
<1>2. n \in Nat /\ n <= q.max_depth /\ q.max_depth \in Nat
  BY DEF BlastCall
<1> DEFINE bad == {i \in 0..n : ~(p[i] \in DOMAIN w.visited /\ w.visited[p[i]] <= i)}
<1>3. SUFFICES ASSUME bad # {} PROVE FALSE
  <2>1. n \notin bad /\ n \in 0..n
    BY <1>2, <1>3
  <2>. QED
    BY <1>1, <2>1
<1>4. bad \in SUBSET Nat
  OBVIOUS
<1>5. PICK i \in bad : \A j \in bad : i <= j
  BY <1>3, <1>4, LeastNatural
<1> HIDE DEF bad
<1>6. i \in 0..n /\ ~(p[i] \in DOMAIN w.visited /\ w.visited[p[i]] <= i)
  BY <1>5 DEF bad
<1>7. Size(w) \in Nat /\ Handled(w) - 1 = Size(w)
  <2>1. w.impacted \in Seq(Entries(q))
    BY DEF Search, SearchTyped
  <2>2. Size(w) \in Nat
    BY <2>1 DEF Size
  <2>3. Len(w.queue) = 0
    OBVIOUS
  <2>. QED
    BY <2>2, <2>3 DEF Handled
<1>8. \A x \in 0..Size(w) :
         At(q, w, x).asset \in DOMAIN w.visited /\ w.visited[At(q, w, x).asset] = At(q, w, x).depth
  BY DEF Search, SearchVisited
<1>9. i # 0
  <2>1. 0 \in 0..Size(w) /\ At(q, w, 0) = Origin(q)
    BY <1>7 DEF At
  <2>2. q.source \in DOMAIN w.visited /\ w.visited[q.source] = 0
    BY <1>8, <2>1 DEF Origin
  <2>. QED
    BY <1>1, <1>6, <2>2
<1> DEFINE j == i - 1
<1>10. j \in 0..n /\ j \in 0..(n - 1) /\ j + 1 = i /\ j < i /\ j < q.max_depth /\ j \in Nat
  BY <1>2, <1>6, <1>9
<1>11. j \notin bad
  BY <1>5, <1>6, <1>10
<1> HIDE DEF j
<1>12. p[j] \in DOMAIN w.visited /\ w.visited[p[j]] <= j
  BY <1>10, <1>11 DEF bad
<1>13. PICK x \in 0..Size(w) : At(q, w, x).asset = p[j]
  BY <1>12 DEF Search, SearchVisited
<1>14. At(q, w, x).depth <= j
  BY <1>8, <1>12, <1>13
<1>15. At(q, w, x).depth \in Nat
  <2>1. CASE x = 0
    BY <2>1 DEF At, Origin
  <2>2. CASE x # 0
    <3>1. x \in 1..Len(w.impacted)
      BY <1>7, <2>2 DEF Size
    <3>2. w.impacted[x] \in Entries(q)
      BY <3>1 DEF Search, SearchTyped
    <3>. QED
      BY <2>2, <3>2 DEF At, Entries
  <2>. QED
    BY <2>1, <2>2
<1>16. At(q, w, x).depth < q.max_depth
  BY <1>2, <1>10, <1>14, <1>15
<1>17. p[j] \in Nodes(q) /\ p[i] \in Nodes(q) /\ Joined(q, p[j], p[i])
  BY <1>1, <1>6, <1>10
<1>18. p[i] \in NextTo(q, p[j])
  BY <1>17, NextToIsJoined
<1>19. p[i] \in DOMAIN w.visited /\ w.visited[p[i]] <= At(q, w, x).depth + 1
  BY <1>7, <1>13, <1>16, <1>18 DEF Search, SearchComplete
<1>20. w.visited[p[i]] \in Nat
  <2>1. PICK y \in 0..Size(w) : At(q, w, y).asset = p[i]
    BY <1>19 DEF Search, SearchVisited
  <2>2. w.visited[p[i]] = At(q, w, y).depth
    BY <1>8, <2>1
  <2>3. CASE y = 0
    BY <2>2, <2>3 DEF At, Origin
  <2>4. CASE y # 0
    <3>1. y \in 1..Len(w.impacted)
      BY <1>7, <2>4 DEF Size
    <3>2. w.impacted[y] \in Entries(q)
      BY <3>1 DEF Search, SearchTyped
    <3>. QED
      BY <2>2, <2>4, <3>2 DEF At, Entries
  <2>. QED
    BY <2>3, <2>4
<1>. QED
  BY <1>6, <1>10, <1>14, <1>15, <1>19, <1>20

\* An entry is of an asset, at a depth no greater than max_depth.
LEMMA EntriesTyped ==
  ASSUME NEW q, BlastCall(q), NEW w, Search(q, w)
  PROVE  /\ Size(w) \in Nat /\ q.max_depth \in Nat /\ w.impacted \in Seq(Entries(q))
         /\ \A i \in 0..Size(w) : At(q, w, i) \in Entries(q)
         /\ \A i \in 0..Size(w) : At(q, w, i).depth \in 0..q.max_depth /\ At(q, w, i).asset \in Nodes(q)
<1>1. Size(w) \in Nat /\ w.impacted \in Seq(Entries(q)) /\ q.max_depth \in Nat
  BY DEF Search, SearchTyped, BlastCall, Size
<1>2. Origin(q) \in Entries(q)
  <2>1. q.source \in Nodes(q)
    BY DEF BlastCall, Nodes
  <2>2. <<q.source>> \in Seq(Nodes(q))
    BY <2>1
  <2>. QED
    BY <2>1, <2>2 DEF Origin, Entries
<1>3. \A i \in 0..Size(w) : At(q, w, i) \in Entries(q)
  <2> TAKE i \in 0..Size(w)
  <2>1. CASE i = 0
    BY <1>2, <2>1 DEF At
  <2>2. CASE i # 0
    <3>1. i \in 1..Len(w.impacted)
      BY <1>1, <2>2 DEF Size
    <3>. QED
      BY <1>1, <2>2, <3>1 DEF At
  <2>. QED
    BY <2>1, <2>2
<1>4. \A i \in 0..Size(w) : At(q, w, i).depth <= q.max_depth
  BY DEF Search, SearchSound
<1>5. \A i \in 0..Size(w) : At(q, w, i).depth \in 0..q.max_depth /\ At(q, w, i).asset \in Nodes(q)
  BY <1>1, <1>3, <1>4 DEF Entries
<1>. QED
  BY <1>1, <1>3, <1>5

\* Each entry is at the distance of its asset.
LEMMA EntryInRing ==
  ASSUME NEW q, BlastCall(q), NEW w, Search(q, w), w.queue = <<>>,
         NEW i \in 0..Size(w)
  PROVE  At(q, w, i).asset \in RingOf(q, At(q, w, i).depth)
<1> DEFINE e == At(q, w, i)
           d == e.depth
           p == [k \in 0..d |-> e.path[k + 1]]
<1>1. e \in Entries(q) /\ d \in 0..q.max_depth /\ q.max_depth \in Nat /\ d \in Nat
  BY EntriesTyped
<1>2. PathTo(q, e)
  BY DEF Search, SearchSound
<1>3. e.path \in Seq(Nodes(q)) /\ e.asset \in Nodes(q)
  BY <1>1 DEF Entries
<1>4. e.asset \in DOMAIN w.visited /\ w.visited[e.asset] = d
  BY DEF Search, SearchVisited
<1> HIDE DEF e
<1>5. ReachedBy(q, d, e.asset)
  <2>1. Len(e.path) = d + 1 /\ e.path[1] = q.source /\ e.path[d + 1] = e.asset
        /\ \A k \in 1..d : Joined(q, e.path[k], e.path[k + 1])
    BY <1>2 DEF PathTo
  <2>2. p \in [0..d -> Nodes(q)]
    BY <1>1, <1>3, <2>1
  <2>3. p[0] = q.source /\ p[d] = e.asset
    BY <1>1, <2>1
  <2>4. \A k \in 0..(d - 1) : Joined(q, p[k], p[k + 1])
    <3> TAKE k \in 0..(d - 1)
    <3>1. k + 1 \in 1..d /\ k \in 0..d /\ k + 1 \in 0..d
      BY <1>1
    <3>2. Joined(q, e.path[k + 1], e.path[(k + 1) + 1])
      BY <2>1, <3>1
    <3>3. p[k] = e.path[k + 1] /\ p[k + 1] = e.path[(k + 1) + 1]
      BY <3>1
    <3>. QED
      BY <3>2, <3>3
  <2> HIDE DEF p
  <2>. QED
    BY <2>2, <2>3, <2>4 DEF ReachedBy
<1> HIDE DEF d
<1>6. e.asset \in WithinOf(q, d)
  BY <1>1, <1>3, <1>5 DEF WithinOf
<1>7. \A n \in 0..(d - 1) : e.asset \notin WithinOf(q, n)
  <2> SUFFICES ASSUME NEW n \in 0..(d - 1), e.asset \in WithinOf(q, n)
               PROVE  FALSE
    OBVIOUS
  <2>1. PICK k \in 0..n : ReachedBy(q, k, e.asset)
    BY DEF WithinOf
  <2>2. k \in 0..q.max_depth /\ k < d
    BY <1>1
  <2>3. w.visited[e.asset] <= k
    BY <2>1, <2>2, ReachedIsVisited
  <2>. QED
    BY <1>1, <1>4, <2>2, <2>3
<1>. QED
  BY <1>6, <1>7 DEF RingOf, e, d

\* Every asset at a distance within max_depth has an entry.
LEMMA RingHasEntry ==
  ASSUME NEW q, BlastCall(q), NEW w, Search(q, w), w.queue = <<>>,
         NEW d \in 0..q.max_depth, NEW b \in WithinOf(q, d)
  PROVE  \E i \in 0..Size(w) :
            /\ At(q, w, i).asset = b /\ At(q, w, i).depth <= d
            /\ b \in RingOf(q, d) => At(q, w, i).depth = d
<1>1. PICK k \in 0..d : ReachedBy(q, k, b)
  BY DEF WithinOf
<1>2. k \in 0..q.max_depth /\ d \in Nat /\ k <= d /\ k \in Nat
  BY DEF BlastCall
<1>3. b \in DOMAIN w.visited /\ w.visited[b] <= k
  BY <1>1, <1>2, ReachedIsVisited
<1>4. PICK i \in 0..Size(w) : At(q, w, i).asset = b
  BY <1>3 DEF Search, SearchVisited
<1>5. w.visited[b] = At(q, w, i).depth
  BY <1>4 DEF Search, SearchVisited
<1>6. At(q, w, i).depth \in Nat
  BY EntriesTyped
<1>7. At(q, w, i).depth <= d
  BY <1>2, <1>3, <1>5, <1>6
<1>8. b \in RingOf(q, d) => At(q, w, i).depth = d
  <2> SUFFICES ASSUME b \in RingOf(q, d), At(q, w, i).depth # d
               PROVE  FALSE
    OBVIOUS
  <2>1. At(q, w, i).depth \in 0..(d - 1)
    BY <1>2, <1>6, <1>7
  <2>2. b \in RingOf(q, At(q, w, i).depth)
    BY <1>4, EntryInRing
  <2>. QED
    BY <2>1, <2>2 DEF RingOf
<1>. QED
  BY <1>4, <1>7, <1>8

\* The counts by depth are the numbers of assets at each distance.
LEMMA CountsAreRings ==
  ASSUME NEW q, BlastCall(q), NEW w, Search(q, w), w.queue = <<>>,
         NEW d \in 0..q.max_depth
  PROVE  w.by_depth[d] = Cardinality(RingOf(q, d))
<1> DEFINE I == {i \in 0..Size(w) : At(q, w, i).depth = d}
           f == [i \in I |-> At(q, w, i).asset]
           R == RingOf(q, d)
<1>1. w.by_depth[d] = Cardinality(I)
  <2>1. d \in 0..(q.max_depth + 1)
    BY EntriesTyped
  <2>. QED
    BY <2>1 DEF Search, SearchCounts
<1>2. IsFiniteSet(I)
  <2>1. Size(w) \in Nat
    BY EntriesTyped
  <2> DEFINE J == 0..Size(w)
  <2>2. IsFiniteSet(J) /\ I \in SUBSET J
    <3>1. 0 \in Int /\ Size(w) \in Int
      BY <2>1
    <3>2. IsFiniteSet(0..Size(w))
      BY <3>1, FS_Interval, Zenon
    <3>. QED
      BY <3>2
  <2> HIDE DEF I, J
  <2>. QED
    BY <2>2, FS_Subset, Zenon
<1>3. \A i \in I : f[i] \in R
  BY EntryInRing
<1>4. \A i, j \in I : f[i] = f[j] => i = j
  BY DEF Search, SearchSound
<1>5. \A b \in R : \E i \in I : f[i] = b
  <2> TAKE b \in R
  <2>1. b \in WithinOf(q, d)
    BY DEF RingOf
  <2>2. PICK i \in 0..Size(w) : At(q, w, i).asset = b /\ At(q, w, i).depth = d
    BY <2>1, RingHasEntry
  <2>. QED
    BY <2>2
<1>6. f \in [I -> R]
  BY <1>3
<1> HIDE DEF I, f, R
<1>7. f \in Bijection(I, R)
  BY <1>4, <1>5, <1>6, Fun_IsBij, Zenon
<1>8. ExistsBijection(I, R)
  BY <1>7 DEF ExistsBijection
<1>9. Cardinality(R) = Cardinality(I)
  BY <1>2, <1>8, FS_Bijection, Zenon
<1>. QED
  BY <1>1, <1>9 DEF R

-----------------------------------------------------------------------------
(* The impact falls with depth and rises with centrality, and so the       *)
(* answer is sorted.                                                       *)

\* Products of natural numbers rise with their factors.
LEMMA ProductRises ==
  ASSUME NEW a \in Nat, NEW b \in Nat, NEW c \in Nat, NEW d \in Nat, a <= c, b <= d
  PROVE  a * b \in Nat /\ a * b <= c * d
<1>1. PICK x \in Nat : c = a + x
  <2>1. c - a \in Nat /\ c = a + (c - a)
    OBVIOUS
  <2>. QED
    BY <2>1
<1>2. PICK y \in Nat : d = b + y
  <2>1. d - b \in Nat /\ d = b + (d - b)
    OBVIOUS
  <2>. QED
    BY <2>1
<1>3. (a + x) * (b + y) = a * b + (a * y + x * b + x * y)
  OBVIOUS
<1>4. a * b \in Nat /\ a * y \in Nat /\ x * b \in Nat /\ x * y \in Nat
  OBVIOUS
<1> DEFINE p == a * b
           r == a * y + x * b + x * y
<1>5. p \in Nat /\ r \in Nat
  BY <1>4
<1>6. c * d = p + r
  BY <1>1, <1>2, <1>3
<1> HIDE DEF p, r
<1>7. p <= c * d
  BY <1>5, <1>6
<1>. QED
  BY <1>5, <1>7 DEF p

\* A quotient rises with the dividend.
LEMMA QuotientRises ==
  ASSUME NEW s \in Nat \ {0}, NEW t \in Int, NEW u \in Int, t <= u
  PROVE  t \div s \in Int /\ u \div s \in Int /\ t \div s <= u \div s /\ (t \in Nat => t \div s \in Nat)
<1>1. PICK a \in Int : a = t \div s
  OBVIOUS
<1>2. PICK b \in Int : b = u \div s
  OBVIOUS
<1>3. s * a <= t /\ t < s * (a + 1)
  BY <1>1
<1>4. s * b <= u /\ u < s * (b + 1)
  BY <1>2
<1>5. s * a < s * (b + 1)
  BY <1>3, <1>4
<1>6. a < b + 1
  <2> SUFFICES ASSUME b + 1 <= a PROVE FALSE
    OBVIOUS
  <2>1. PICK x \in Nat : a = (b + 1) + x
    <3>1. a - (b + 1) \in Nat
      OBVIOUS
    <3>. QED
      BY <3>1
  <2>2. s * a = s * (b + 1) + s * x
    BY <2>1
  <2>3. s * x \in Nat
    BY <2>1
  <2>. QED
    BY <1>5, <2>2, <2>3
<1>7. t \in Nat => a >= 0
  <2> SUFFICES ASSUME t \in Nat, a <= -1 PROVE FALSE
    OBVIOUS
  <2>1. PICK x \in Nat : a + 1 = -x
    <3>1. -(a + 1) \in Nat
      OBVIOUS
    <3>. QED
      BY <3>1
  <2>2. s * (a + 1) = -(s * x) /\ s * x \in Nat
    BY <2>1
  <2>. QED
    BY <1>3, <2>2
<1>. QED
  BY <1>1, <1>2, <1>6, <1>7

\* So does what is rounded.
LEMMA RoundedRises ==
  ASSUME NEW x \in Nat, NEW y \in Nat, x <= y, NEW z \in Nat \ {0}
  PROVE  Rounded(x, z) \in Nat /\ Rounded(y, z) \in Nat /\ Rounded(x, z) <= Rounded(y, z)
<1> DEFINE s == 2 * z
           t == 2 * x + z
           u == 2 * y + z
<1>1. s \in Nat \ {0} /\ t \in Nat /\ u \in Nat /\ t <= u
  OBVIOUS
<1>2. Rounded(x, z) = t \div s /\ Rounded(y, z) = u \div s
  BY DEF Rounded
<1> HIDE DEF s, t, u
<1>3. t \in Int /\ u \in Int
  BY <1>1
<1>4. t \div s \in Int /\ u \div s \in Int /\ t \div s <= u \div s /\ t \div s \in Nat
  BY <1>1, <1>3, QuotientRises
<1>5. u \div s \in Nat
  BY <1>1, <1>4
<1>. QED
  BY <1>2, <1>4, <1>5

\* How much an impact decays with its depth.
Decay(q, depth) == Power(7)[depth - 1] * Power(10)[q.max_depth - depth]

\* Impact, of a request and a search's progress.
UnroundedOf(q, w, a, depth) ==
    q.severity * Decay(q, depth) * (7 * w.max_bc + 3 * w.bc[a])
ScaleOf(q, w) == w.max_bc * Power(10)[q.max_depth]
ImpactOf(q, w, a, depth) == Rounded(ScoreUnit * UnroundedOf(q, w, a, depth), ScaleOf(q, w))

\* The deeper an asset, the smaller its factor.
LEMMA DecayFalls ==
  ASSUME NEW q, BlastCall(q), NEW c \in 1..q.max_depth, NEW d \in 1..q.max_depth, c <= d
  PROVE  Decay(q, c) \in Nat /\ Decay(q, d) \in Nat /\ Decay(q, d) <= Decay(q, c)
<1> DEFINE seven == Power(7)
           ten == Power(10)
           M == q.max_depth
<1>1. M \in Nat
  BY DEF BlastCall
<1>2. seven \in [Nat -> Nat] /\ \A n \in Nat : seven[n + 1] = 7 * seven[n]
  <2>1. 7 \in Nat
    OBVIOUS
  <2>. QED
    BY <2>1, PowerRecurs
<1>3. ten \in [Nat -> Nat] /\ \A n \in Nat : ten[n + 1] = 10 * ten[n]
  <2>1. 10 \in Nat
    OBVIOUS
  <2>. QED
    BY <2>1, PowerRecurs
<1>4. \A n \in 1..M : Decay(q, n) = seven[n - 1] * ten[M - n]
  BY DEF Decay
<1> HIDE DEF seven, ten, M
<1>5. \A n \in 1..M : Decay(q, n) \in Nat
  <2> TAKE n \in 1..M
  <2>1. n - 1 \in Nat /\ M - n \in Nat
    BY <1>1
  <2>2. seven[n - 1] \in Nat /\ ten[M - n] \in Nat
    BY <1>2, <1>3, <2>1
  <2>3. seven[n - 1] * ten[M - n] \in Nat
    BY <2>2, ProductRises
  <2>. QED
    BY <1>4, <2>3
<1>6. \A n \in 1..M : n + 1 \in 1..M => Decay(q, n + 1) <= Decay(q, n)
  <2> SUFFICES ASSUME NEW n \in 1..M, n + 1 \in 1..M
               PROVE  Decay(q, n + 1) <= Decay(q, n)
    OBVIOUS
  <2>1. n - 1 \in Nat /\ M - (n + 1) \in Nat /\ (n - 1) + 1 = n /\ (M - (n + 1)) + 1 = M - n /\ (n + 1) - 1 = n
    BY <1>1
  <2>2. PICK s \in Nat : s = seven[n - 1]
    BY <1>2, <2>1
  <2>3. PICK t \in Nat : t = ten[M - (n + 1)]
    BY <1>3, <2>1
  <2>4. seven[n] = 7 * s
    BY <1>2, <2>1, <2>2
  <2>5. ten[M - n] = 10 * t
    BY <1>3, <2>1, <2>3
  <2>6. Decay(q, n + 1) = (7 * s) * t
    BY <1>4, <2>1, <2>3, <2>4
  <2>7. Decay(q, n) = s * (10 * t)
    BY <1>4, <2>2, <2>5
  <2>8. PICK p \in Nat : p = s * t
    BY ProductRises
  <2>9. (7 * s) * t = 7 * p /\ s * (10 * t) = 10 * p
    BY <2>8
  <2>. QED
    BY <2>6, <2>7, <2>8, <2>9
<1> DEFINE bad == {n \in Nat : c + n \in 1..M /\ ~(Decay(q, c + n) <= Decay(q, c))}
<1>7. bad = {}
  <2> SUFFICES ASSUME bad # {} PROVE FALSE
    OBVIOUS
  <2>1. PICK n \in bad : \A j \in bad : n <= j
    BY LeastNatural
  <2>2. n # 0
    <3>1. c \in 1..M /\ c + 0 = c /\ Decay(q, c) \in Nat
      BY <1>5 DEF M
    <3>. QED
      BY <2>1, <3>1
  <2> DEFINE m == n - 1
  <2>3. m \in Nat /\ m < n /\ c + m \in 1..M /\ (c + m) + 1 = c + n /\ c + n \in 1..M
    BY <1>1, <2>1, <2>2 DEF M
  <2>4. m \notin bad
    BY <2>1, <2>3
  <2> HIDE DEF m
  <2>5. Decay(q, c + m) <= Decay(q, c)
    BY <2>3, <2>4
  <2>6. Decay(q, c + n) <= Decay(q, c + m)
    BY <1>6, <2>3
  <2>7. Decay(q, c + m) \in Nat /\ Decay(q, c) \in Nat /\ Decay(q, c + n) \in Nat
    BY <1>5, <2>3 DEF M
  <2>. QED
    BY <2>1, <2>5, <2>6, <2>7
<1> HIDE DEF bad
<1>8. d - c \in Nat /\ c + (d - c) = d
  OBVIOUS
<1>9. d - c \notin bad
  BY <1>7
<1>10. Decay(q, d) <= Decay(q, c)
  BY <1>8, <1>9 DEF bad, M
<1>. QED
  BY <1>5, <1>10 DEF M

\* Nearer and more central has no less before the rounding.
LEMMA UnroundedMonotone ==
  ASSUME NEW q, BlastCall(q), NEW w, w.bc \in [Nodes(q) -> Nat], w.max_bc \in Nat \ {0},
         NEW a \in Nodes(q), NEW b \in Nodes(q), w.bc[a] <= w.bc[b],
         NEW c \in 1..q.max_depth, NEW d \in 1..q.max_depth, c <= d
  PROVE  /\ UnroundedOf(q, w, a, d) \in Nat /\ UnroundedOf(q, w, b, c) \in Nat
         /\ UnroundedOf(q, w, a, d) <= UnroundedOf(q, w, b, c)
<1>1. PICK s \in Nat : s = q.severity
  <2>1. q.severity \in Nat
    BY DEF BlastCall
  <2>. QED
    BY <2>1
<1>2. PICK u \in Nat, v \in Nat : u = Decay(q, d) /\ v = Decay(q, c) /\ u <= v
  BY DecayFalls
<1>3. w.bc[a] \in Nat /\ w.bc[b] \in Nat
  OBVIOUS
<1>4. PICK x \in Nat, y \in Nat : x = 7 * w.max_bc + 3 * w.bc[a] /\ y = 7 * w.max_bc + 3 * w.bc[b] /\ x <= y
  <2>1. PICK f \in Nat, g \in Nat, h \in Nat : f = w.bc[a] /\ g = w.bc[b] /\ h = w.max_bc
    BY <1>3
  <2>2. 7 * h + 3 * f \in Nat /\ 7 * h + 3 * g \in Nat /\ 7 * h + 3 * f <= 7 * h + 3 * g
    BY <2>1
  <2>. QED
    BY <2>1, <2>2
<1>5. UnroundedOf(q, w, a, d) = s * u * x /\ UnroundedOf(q, w, b, c) = s * v * y
  BY <1>1, <1>2, <1>4 DEF UnroundedOf
<1>6. s * u \in Nat /\ s * v \in Nat /\ s * u <= s * v
  <2>1. s <= s
    OBVIOUS
  <2>. QED
    BY <1>2, <2>1, ProductRises
<1>7. (s * u) * x \in Nat /\ (s * v) * y \in Nat /\ (s * u) * x <= (s * v) * y
  <2> DEFINE f == s * u
             g == s * v
  <2>1. f \in Nat /\ g \in Nat /\ f <= g
    BY <1>6
  <2> HIDE DEF f, g
  <2>2. y <= y /\ g <= g
    BY <2>1
  <2>3. f * x \in Nat /\ g * y \in Nat /\ f * x <= g * y
    BY <1>4, <2>1, <2>2, ProductRises
  <2>. QED
    BY <2>3 DEF f, g
<1>. QED
  BY <1>5, <1>7

\* What a score is divided by is a number.
LEMMA ScaleType ==
  ASSUME NEW q, BlastCall(q), NEW w, w.max_bc \in Nat \ {0}
  PROVE  ScaleOf(q, w) \in Nat \ {0}
<1> DEFINE ten == Power(10)
           M == q.max_depth
<1>1. M \in Nat
  BY DEF BlastCall
<1>2. ten \in [Nat -> Nat] /\ ten[0] = 1 /\ \A n \in Nat : ten[n + 1] = 10 * ten[n]
  <2>1. 10 \in Nat
    OBVIOUS
  <2>. QED
    BY <2>1, PowerRecurs
<1>3. ScaleOf(q, w) = w.max_bc * ten[M]
  BY DEF ScaleOf
<1> HIDE DEF ten, M
<1> DEFINE bad == {n \in Nat : ten[n] = 0}
<1>4. bad = {}
  <2> SUFFICES ASSUME bad # {} PROVE FALSE
    OBVIOUS
  <2>1. PICK n \in bad : \A j \in bad : n <= j
    BY LeastNatural
  <2>2. n # 0
    BY <1>2, <2>1
  <2>3. n - 1 \in Nat /\ (n - 1) + 1 = n /\ n - 1 \notin bad
    BY <2>1, <2>2
  <2>4. ten[n - 1] \in Nat \ {0}
    BY <1>2, <2>3
  <2>5. ten[(n - 1) + 1] = 10 * ten[n - 1]
    BY <1>2, <2>3
  <2>. QED
    BY <2>1, <2>3, <2>4, <2>5
<1>5. PICK t \in Nat \ {0} : t = ten[M]
  BY <1>1, <1>2, <1>4
<1>6. PICK m \in Nat \ {0} : m = w.max_bc
  OBVIOUS
<1>7. m * t \in Nat \ {0}
  <2>1. PICK x \in Nat, y \in Nat : m = x + 1 /\ t = y + 1
    <3>1. m - 1 \in Nat /\ m = (m - 1) + 1 /\ t - 1 \in Nat /\ t = (t - 1) + 1
      OBVIOUS
    <3>. QED
      BY <3>1
  <2>2. (x + 1) * (y + 1) = x * y + (x + y + 1)
    OBVIOUS
  <2>3. x <= x /\ y <= y
    OBVIOUS
  <2>4. x * y \in Nat
    BY <2>3, ProductRises
  <2> DEFINE p == x * y
  <2>5. p \in Nat
    BY <2>4
  <2>6. m * t = p + (x + y + 1)
    BY <2>1, <2>2
  <2> HIDE DEF p
  <2>7. p + (x + y + 1) \in Nat \ {0}
    BY <2>5
  <2>. QED
    BY <2>6, <2>7
<1>. QED
  BY <1>3, <1>5, <1>6, <1>7

\* Nearer and more central is hit no less: rounding keeps the order.
LEMMA ImpactMonotone ==
  ASSUME NEW q, BlastCall(q), NEW w, w.bc \in [Nodes(q) -> Nat], w.max_bc \in Nat \ {0},
         NEW a \in Nodes(q), NEW b \in Nodes(q), w.bc[a] <= w.bc[b],
         NEW c \in 1..q.max_depth, NEW d \in 1..q.max_depth, c <= d
  PROVE  /\ ImpactOf(q, w, a, d) \in Nat /\ ImpactOf(q, w, b, c) \in Nat
         /\ ImpactOf(q, w, a, d) <= ImpactOf(q, w, b, c)
<1> DEFINE x == UnroundedOf(q, w, a, d)
           y == UnroundedOf(q, w, b, c)
           z == ScaleOf(q, w)
<1>1. x \in Nat /\ y \in Nat /\ x <= y
  BY UnroundedMonotone
<1>2. z \in Nat \ {0}
  BY ScaleType
<1>3. ImpactOf(q, w, a, d) = Rounded(ScoreUnit * x, z) /\ ImpactOf(q, w, b, c) = Rounded(ScoreUnit * y, z)
  BY DEF ImpactOf
<1> HIDE DEF x, y, z
<1>4. ScoreUnit \in Nat /\ ScoreUnit <= ScoreUnit
  BY UnitsAssumption
<1> DEFINE f == ScoreUnit * x
           g == ScoreUnit * y
<1>5. f \in Nat /\ f <= g
  BY <1>1, <1>4, ProductRises
<1>6. g \in Nat
  <2>1. y <= y
    BY <1>1
  <2>. QED
    BY <1>1, <1>4, <2>1, ProductRises
<1>7. ImpactOf(q, w, a, d) = Rounded(f, z) /\ ImpactOf(q, w, b, c) = Rounded(g, z)
  BY <1>3
<1> HIDE DEF f, g
<1>. QED
  BY <1>2, <1>5, <1>6, <1>7, RoundedRises

\* The scores of what was found.
ScoreOf(q, w) == [i \in DOMAIN w.impacted |-> ImpactOf(q, w, w.impacted[i].asset, w.impacted[i].depth)]

\* The higher score first, then the one found first.
HigherFirst(found, score) ==
    {p \in found \X found :
        \/ score[p[1]] > score[p[2]]
        \/ score[p[1]] = score[p[2]] /\ p[1] < p[2]}

\* Nothing is found at the source's depth.
LEMMA FoundIsDeeper ==
  ASSUME NEW q, BlastCall(q), NEW w, Search(q, w)
  PROVE  /\ Size(w) \in Nat /\ DOMAIN w.impacted = 1..Size(w)
         /\ \A i \in 1..Size(w) :
              /\ i \in 0..Size(w) /\ w.impacted[i] = At(q, w, i)
              /\ w.impacted[i] \in Entries(q)
              /\ w.impacted[i].depth \in 1..q.max_depth
              /\ w.impacted[i].asset \in Nodes(q) \ {q.source}
<1>1. /\ Size(w) \in Nat /\ w.impacted \in Seq(Entries(q))
      /\ \A i \in 0..Size(w) : At(q, w, i) \in Entries(q)
      /\ \A i \in 0..Size(w) : At(q, w, i).depth \in 0..q.max_depth /\ At(q, w, i).asset \in Nodes(q)
  BY EntriesTyped
<1>2. DOMAIN w.impacted = 1..Size(w)
  BY <1>1 DEF Size
<1>3. \A i \in 1..Size(w) : i \in 0..Size(w) /\ w.impacted[i] = At(q, w, i)
  BY <1>1 DEF At
<1>4. \A i \in 1..Size(w) : At(q, w, i).asset # q.source
  <2> TAKE i \in 1..Size(w)
  <2>1. 0 \in 0..Size(w) /\ i \in 0..Size(w) /\ i # 0
    BY <1>1
  <2>2. At(q, w, 0).asset = q.source
    BY DEF At, Origin
  <2>. QED
    BY <2>1, <2>2 DEF Search, SearchSound
<1>5. \A i \in 1..Size(w) : At(q, w, i).depth # 0
  <2> SUFFICES ASSUME NEW i \in 1..Size(w), At(q, w, i).depth = 0
               PROVE  FALSE
    OBVIOUS
  <2>1. PathTo(q, At(q, w, i))
    BY <1>3 DEF Search, SearchSound
  <2>. QED
    BY <1>4, <2>1 DEF PathTo
<1>6. \A i \in 1..Size(w) : At(q, w, i).depth \in 1..q.max_depth
  <2> TAKE i \in 1..Size(w)
  <2>1. At(q, w, i).depth \in 0..q.max_depth /\ At(q, w, i).depth # 0
    BY <1>1, <1>3, <1>5
  <2>2. q.max_depth \in Nat
    BY DEF BlastCall
  <2>. QED
    BY <2>1, <2>2
<1>. QED
  BY <1>1, <1>2, <1>3, <1>4, <1>6

\* order numbers the entries of S, the higher score first.
Sorts(S, order, score) ==
    /\ DOMAIN score = S /\ \A i \in S : score[i] \in Nat
    /\ order \in [S -> S]
    /\ \A i \in S : \E k \in S : order[k] = i
    /\ \A k, l \in S : order[k] = order[l] => k = l
    /\ \A k, l \in S : k < l => score[order[k]] >= score[order[l]]

\* The sort of the answer keeps every entry and puts a higher score first.
LEMMA AnswerSorted ==
  ASSUME NEW q, BlastCall(q), NEW w, Search(q, w),
         NEW score, score = ScoreOf(q, w),
         NEW order, order = InOrder(DOMAIN score, HigherFirst(DOMAIN score, score))
  PROVE  Sorts(1..Size(w), order, score)
<1> DEFINE n == Size(w)
           S == 1..n
           before == HigherFirst(S, score)
<1>1. /\ n \in Nat /\ DOMAIN w.impacted = S
      /\ \A i \in S : w.impacted[i].depth \in 1..q.max_depth /\ w.impacted[i].asset \in Nodes(q)
  BY FoundIsDeeper
<1>2. w.bc \in [Nodes(q) -> Nat] /\ w.max_bc \in Nat \ {0}
  BY DEF Search, SearchTyped
<1>3. DOMAIN score = S /\ \A i \in S : score[i] \in Nat
  <2>1. DOMAIN score = S /\ \A i \in S : score[i] = ImpactOf(q, w, w.impacted[i].asset, w.impacted[i].depth)
    BY <1>1 DEF ScoreOf
  <2>2. ASSUME NEW i \in S PROVE ImpactOf(q, w, w.impacted[i].asset, w.impacted[i].depth) \in Nat
    <3> DEFINE a == w.impacted[i].asset
               d == w.impacted[i].depth
    <3>1. a \in Nodes(q) /\ d \in 1..q.max_depth /\ d <= d /\ w.bc[a] <= w.bc[a]
      BY <1>1, <1>2
    <3> HIDE DEF a, d
    <3>2. ImpactOf(q, w, a, d) \in Nat
      BY <1>2, <3>1, ImpactMonotone
    <3>. QED
      BY <3>2 DEF a, d
  <2>. QED
    BY <2>1, <2>2
<1> HIDE DEF n
<1>4. IsFiniteSet(S) /\ Cardinality(S) = n
  <2>1. 1 \in Int /\ n \in Int
    BY <1>1
  <2>2. IsFiniteSet(1..n) /\ Cardinality(1..n) = IF 1 > n THEN 0 ELSE n - 1 + 1
    BY <2>1, FS_Interval, Zenon
  <2>. QED
    BY <1>1, <2>2
<1>5. \A i, j \in S : <<i, j>> \in before <=> score[i] > score[j] \/ (score[i] = score[j] /\ i < j)
  <2> TAKE i \in S, j \in S
  <2> DEFINE p == <<i, j>>
  <2>1. p \in S \X S /\ p[1] = i /\ p[2] = j
    OBVIOUS
  <2> HIDE DEF p, S
  <2>2. p \in before <=> score[p[1]] > score[p[2]] \/ (score[p[1]] = score[p[2]] /\ p[1] < p[2])
    BY <2>1 DEF HigherFirst
  <2>. QED
    BY <2>1, <2>2 DEF p
<1>6. \A i \in S : i \in Int /\ score[i] \in Int
  BY <1>1, <1>3
<1> HIDE DEF before, S
<1>7. TotalOrder(S, before)
  BY <1>5, <1>6 DEF TotalOrder
<1>8. order = InOrder(S, before)
  BY <1>3 DEF before
<1> DEFINE size == Cardinality(S)
<1>9. /\ order \in [1..size -> S]
      /\ \A x \in S : \E k \in 1..size : order[k] = x
      /\ \A k, l \in 1..size : k < l => <<order[k], order[l]>> \in before
      /\ \A k, l \in 1..size : order[k] = order[l] => k = l
  BY <1>4, <1>7, <1>8, InOrderSorts
<1>10. 1..size = S
  BY <1>4 DEF S
<1> HIDE DEF size
<1>11. \A k, l \in S : k < l => score[order[k]] >= score[order[l]]
  <2> SUFFICES ASSUME NEW k \in S, NEW l \in S, k < l
               PROVE  score[order[k]] >= score[order[l]]
    OBVIOUS
  <2>1. <<order[k], order[l]>> \in before
    BY <1>9, <1>10
  <2>2. order[k] \in S /\ order[l] \in S
    BY <1>9, <1>10
  <2>. QED
    BY <1>5, <1>6, <2>1, <2>2
<1>. QED
  BY <1>3, <1>9, <1>10, <1>11 DEF S, n, Sorts

\* What an answer says, put in order.
AnswerOf(w, order) == [k \in DOMAIN order |-> w.impacted[order[k]]]

\* An answer lists exactly what was found.
LEMMA AnswerListsFound ==
  ASSUME NEW q, BlastCall(q), NEW w, Search(q, w),
         NEW score, score = ScoreOf(q, w),
         NEW order, order = InOrder(DOMAIN score, HigherFirst(DOMAIN score, score)),
         NEW list, list = AnswerOf(w, order)
  PROVE  /\ DOMAIN list = 1..Size(w)
         /\ \A k \in 1..Size(w) : order[k] \in 1..Size(w) /\ list[k] = At(q, w, order[k])
         /\ Range(list) = {At(q, w, i) : i \in 1..Size(w)}
         /\ Range(list) = Range(w.impacted)
<1> DEFINE S == 1..Size(w)
<1>1. /\ DOMAIN w.impacted = S
      /\ \A i \in S : w.impacted[i] = At(q, w, i)
  BY FoundIsDeeper
<1>2. order \in [S -> S] /\ \A i \in S : \E k \in S : order[k] = i
  BY AnswerSorted DEF Sorts
<1>3. DOMAIN list = S /\ \A k \in S : list[k] = w.impacted[order[k]]
  BY <1>2 DEF AnswerOf
<1> HIDE DEF S
<1>4. \A k \in S : order[k] \in S /\ list[k] = At(q, w, order[k])
  BY <1>1, <1>2, <1>3
<1>5. Range(list) = {At(q, w, i) : i \in S}
  BY <1>2, <1>3, <1>4 DEF Range
<1>6. Range(w.impacted) = {At(q, w, i) : i \in S}
  BY <1>1 DEF Range
<1>. QED
  BY <1>3, <1>4, <1>5, <1>6 DEF S

\* The answer is exact.
LEMMA AnswerExact ==
  ASSUME NEW q, BlastCall(q), NEW w, Search(q, w), w.queue = <<>>,
         NEW score, score = ScoreOf(q, w),
         NEW order, order = InOrder(DOMAIN score, HigherFirst(DOMAIN score, score)),
         NEW list, list = AnswerOf(w, order)
  PROVE  /\ {e.asset : e \in Range(list)} = WithinOf(q, q.max_depth) \ {q.source}
         /\ \A k, l \in DOMAIN list : list[k].asset = list[l].asset => k = l
         /\ \A e \in Range(list) : e.asset \in RingOf(q, e.depth) /\ PathTo(q, e)
         /\ \A k, l \in DOMAIN list :
               (k < l /\ list[l].depth <= list[k].depth /\ w.bc[list[l].asset] >= w.bc[list[k].asset])
               => ImpactOf(q, w, list[k].asset, list[k].depth) = ImpactOf(q, w, list[l].asset, list[l].depth)
<1> DEFINE S == 1..Size(w)
<1>1. /\ Size(w) \in Nat
      /\ \A i \in S : /\ i \in 0..Size(w) /\ w.impacted[i] = At(q, w, i)
                      /\ At(q, w, i).depth \in 1..q.max_depth
                      /\ At(q, w, i).asset \in Nodes(q) \ {q.source}
  BY FoundIsDeeper
<1>2. /\ DOMAIN list = S
      /\ \A k \in S : order[k] \in S /\ list[k] = At(q, w, order[k])
      /\ Range(list) = {At(q, w, i) : i \in S}
  BY AnswerListsFound
<1>3. /\ DOMAIN score = S /\ \A i \in S : score[i] \in Nat
      /\ \A k, l \in S : order[k] = order[l] => k = l
      /\ \A k, l \in S : k < l => score[order[k]] >= score[order[l]]
  <2>1. Sorts(S, order, score)
    BY AnswerSorted
  <2> HIDE DEF S
  <2>. QED
    BY <2>1 DEF Sorts
<1>4. \A e \in Range(list) : e.asset \in RingOf(q, e.depth) /\ PathTo(q, e)
  <2> SUFFICES ASSUME NEW i \in S
               PROVE  At(q, w, i).asset \in RingOf(q, At(q, w, i).depth) /\ PathTo(q, At(q, w, i))
    BY <1>2
  <2>1. i \in 0..Size(w)
    BY <1>1
  <2>. QED
    BY <2>1, EntryInRing DEF Search, SearchSound
<1>5. \A k, l \in S : list[k].asset = list[l].asset => k = l
  <2> SUFFICES ASSUME NEW k \in S, NEW l \in S, list[k].asset = list[l].asset
               PROVE  k = l
    OBVIOUS
  <2>1. order[k] \in 0..Size(w) /\ order[l] \in 0..Size(w)
    BY <1>1, <1>2
  <2>2. order[k] = order[l]
    BY <1>2, <2>1 DEF Search, SearchSound
  <2>. QED
    BY <1>3, <2>2
<1>6. {e.asset : e \in Range(list)} = WithinOf(q, q.max_depth) \ {q.source}
  <2>0. q.max_depth \in Nat
    BY DEF BlastCall
  <2>1. ASSUME NEW i \in S
        PROVE  At(q, w, i).asset \in WithinOf(q, q.max_depth) \ {q.source}
    <3> DEFINE d == At(q, w, i).depth
               a == At(q, w, i).asset
    <3>1. a \in RingOf(q, d) /\ d \in 1..q.max_depth /\ a # q.source
      BY <1>1, EntryInRing
    <3>2. PICK n \in 0..d : ReachedBy(q, n, a)
      BY <3>1 DEF RingOf, WithinOf
    <3>3. n \in 0..q.max_depth /\ a \in Nodes(q)
      BY <1>1, <2>0, <3>1
    <3> HIDE DEF a, d
    <3>4. a \in WithinOf(q, q.max_depth)
      BY <3>2, <3>3 DEF WithinOf
    <3>. QED
      BY <3>1, <3>4 DEF a
  <2>2. ASSUME NEW b \in WithinOf(q, q.max_depth) \ {q.source}
        PROVE  \E i \in S : At(q, w, i).asset = b
    <3>1. q.max_depth \in 0..q.max_depth
      BY <2>0
    <3>2. PICK i \in 0..Size(w) : At(q, w, i).asset = b
      BY <3>1, RingHasEntry
    <3>3. i # 0
      BY <3>2 DEF At, Origin
    <3>4. i \in S
      BY <1>1, <3>3
    <3>. QED
      BY <3>2, <3>4
  <2> DEFINE hit == {e.asset : e \in Range(list)}
             want == WithinOf(q, q.max_depth) \ {q.source}
  <2>3. \A x \in hit : x \in want
    BY <1>2, <2>1
  <2>4. \A x \in want : x \in hit
    BY <1>2, <2>2
  <2> HIDE DEF hit, want
  <2>5. hit = want
    BY <2>3, <2>4
  <2>. QED
    BY <2>5 DEF hit, want
<1>7. ASSUME NEW k \in S, NEW l \in S, k < l,
             list[l].depth <= list[k].depth, w.bc[list[l].asset] >= w.bc[list[k].asset]
      PROVE  ImpactOf(q, w, list[k].asset, list[k].depth) = ImpactOf(q, w, list[l].asset, list[l].depth)
  <2> DEFINE a == list[k].asset
             b == list[l].asset
             c == list[l].depth
             d == list[k].depth
  <2>1. /\ a \in Nodes(q) /\ b \in Nodes(q) /\ c \in 1..q.max_depth /\ d \in 1..q.max_depth
    BY <1>1, <1>2
  <2>2. w.bc \in [Nodes(q) -> Nat] /\ w.max_bc \in Nat \ {0}
    BY DEF Search, SearchTyped
  <2>3. w.bc[a] <= w.bc[b] /\ c <= d
    BY <1>7, <2>1, <2>2
  <2>4. score[order[k]] = ImpactOf(q, w, a, d) /\ score[order[l]] = ImpactOf(q, w, b, c)
    <3>1. \A i \in S : score[i] = ImpactOf(q, w, At(q, w, i).asset, At(q, w, i).depth)
      BY <1>1, <1>3 DEF ScoreOf
    <3>. QED
      BY <1>2, <3>1
  <2>5. score[order[k]] >= score[order[l]]
    BY <1>3, <1>7
  <2> HIDE DEF a, b, c, d
  <2>6. /\ ImpactOf(q, w, a, d) \in Nat /\ ImpactOf(q, w, b, c) \in Nat
        /\ ImpactOf(q, w, a, d) <= ImpactOf(q, w, b, c)
    BY <2>1, <2>2, <2>3, ImpactMonotone
  <2>7. ImpactOf(q, w, a, d) = ImpactOf(q, w, b, c)
    BY <2>4, <2>5, <2>6
  <2>. QED
    BY <2>7 DEF a, b, c, d
<1>8. \A k, l \in S :
         (k < l /\ list[l].depth <= list[k].depth /\ w.bc[list[l].asset] >= w.bc[list[k].asset])
         => ImpactOf(q, w, list[k].asset, list[k].depth) = ImpactOf(q, w, list[l].asset, list[l].depth)
  BY <1>7
<1> DEFINE D == DOMAIN list
<1>9. S = D
  BY <1>2
<1> HIDE DEF S, D
<1>10. /\ \A k, l \in D : list[k].asset = list[l].asset => k = l
       /\ \A k, l \in D :
            (k < l /\ list[l].depth <= list[k].depth /\ w.bc[list[l].asset] >= w.bc[list[k].asset])
            => ImpactOf(q, w, list[k].asset, list[k].depth) = ImpactOf(q, w, list[l].asset, list[l].depth)
  BY <1>5, <1>8, <1>9, Zenon
<1>. QED
  BY <1>4, <1>6, <1>10, Zenon DEF D

-----------------------------------------------------------------------------
(* The actions of the search.                                              *)

\* What a function makes of finitely many is finitely many.
LEMMA ImageFinite ==
  ASSUME NEW S, IsFiniteSet(S), NEW T, NEW f \in [S -> T],
         NEW image, image = {f[x] : x \in S}
  PROVE  IsFiniteSet(image)
<1>1. f \in [S -> image] /\ \A y \in image : \E x \in S : f[x] = y
  OBVIOUS
<1>2. f \in Surjection(S, image)
  BY <1>1, Fun_IsSurj, Zenon
<1>. QED
  BY <1>2, FS_Surjection, Zenon

\* The invariant of the search, of the state.
BlastInv == request.kind = "blast" => Search(request, work)

\* What the assumption says of the request of a search.
LEMMA BlastRequest ==
  ASSUME request \in Requests, request.kind = "blast"
  PROVE  BlastCall(request)
BY BlastsAssumption DEF BlastCall

\* How many assets lie between others is a number.
LEMMA CentralityType ==
  ASSUME request \in Requests, request.kind = "blast"
  PROVE  /\ betweenness_centrality \in [Nodes(request) -> Nat]
         /\ MaxCentrality(betweenness_centrality) \in Nat \ {0}
<1> DEFINE A == Nodes(request)
           bc == betweenness_centrality
           between(a) == Cardinality(ancestors(a)) * Cardinality(descendants(a))
<1>1. IsFiniteSet(A) /\ A = Assets /\ request.source \in A
  BY BlastRequest DEF BlastCall, Nodes, Assets
<1> HIDE DEF A
<1>2. ASSUME NEW S \in SUBSET A PROVE Cardinality(S) \in Nat
  <2>1. IsFiniteSet(S)
    BY <1>1, FS_Subset, Zenon
  <2>. QED
    BY <2>1, FS_CardinalityType, Zenon
<1>3. \A a \in A : ancestors(a) \in SUBSET A /\ descendants(a) \in SUBSET A
  BY <1>1 DEF ancestors, descendants
<1>4. bc = [a \in A |-> Rounded(CentralityUnit * between(a), Pairs)]
  BY <1>1 DEF betweenness_centrality
<1>5. \A a \in A : between(a) \in Nat
  <2> TAKE a \in A
  <2> DEFINE x == Cardinality(ancestors(a))
             y == Cardinality(descendants(a))
  <2>1. x \in Nat /\ y \in Nat
    BY <1>2, <1>3
  <2>2. between(a) = x * y
    OBVIOUS
  <2> HIDE DEF x, y, between
  <2>3. x * y \in Nat
    BY <2>1
  <2>. QED
    BY <2>2, <2>3
<1> HIDE DEF between
<1>a. Pairs \in Nat \ {0}
  <2> DEFINE n == Cardinality(Assets)
  <2>1. n \in Nat
    BY <1>1, <1>2
  <2>2. Pairs = IF n <= 2 THEN 1 ELSE (n - 1) * (n - 2)
    BY DEF Pairs
  <2> HIDE DEF n
  <2>3. CASE n <= 2
    BY <2>2, <2>3
  <2>4. CASE ~(n <= 2)
    <3>1. PICK x \in Nat : n = x + 3
      <4>1. n - 3 \in Nat /\ n = (n - 3) + 3
        BY <2>1, <2>4
      <4>. QED
        BY <4>1
    <3>2. n - 1 = x + 2 /\ n - 2 = x + 1
      BY <3>1
    <3>3. Pairs = (x + 2) * (x + 1)
      BY <2>2, <2>4, <3>2
    <3>4. (x + 2) * (x + 1) = x * x + (3 * x + 2)
      OBVIOUS
    <3>5. PICK y \in Nat : y = x * x
      <4>1. x <= x
        OBVIOUS
      <4>. QED
        BY <4>1, ProductRises
    <3>. QED
      BY <3>3, <3>4, <3>5
  <2>. QED
    BY <2>3, <2>4
<1>b. \A a \in A : Rounded(CentralityUnit * between(a), Pairs) \in Nat
  <2> TAKE a \in A
  <2> DEFINE x == CentralityUnit * between(a)
  <2>1. CentralityUnit \in Nat /\ CentralityUnit <= CentralityUnit
    BY UnitsAssumption
  <2>2. between(a) \in Nat /\ between(a) <= between(a)
    BY <1>5
  <2>3. x \in Nat
    BY <2>1, <2>2, ProductRises
  <2> HIDE DEF x
  <2>4. x <= x
    BY <2>3
  <2>5. Rounded(x, Pairs) \in Nat
    BY <1>a, <2>3, <2>4, RoundedRises
  <2>. QED
    BY <2>5 DEF x
<1>6. bc \in [A -> Nat]
  BY <1>4, <1>b
<1> HIDE DEF bc
<1> DEFINE values == {bc[a] : a \in A}
<1>7. values \in SUBSET Int /\ values \in SUBSET Nat /\ values # {}
  BY <1>1, <1>6
<1>8. IsFiniteSet(values)
  <2> DEFINE v == values
  <2>1. v = {bc[x] : x \in A}
    OBVIOUS
  <2> HIDE DEF v
  <2>3. IsFiniteSet(A) /\ bc \in [A -> Nat]
    BY <1>1, <1>6
  <2>4. \A S, T, image : \A f \in [S -> T] :
           IsFiniteSet(S) /\ image = {f[x] : x \in S} => IsFiniteSet(image)
    BY ImageFinite
  <2>2. IsFiniteSet(v)
    BY <2>1, <2>3, <2>4, Zenon
  <2>. QED
    BY <2>2 DEF v
<1>9. MaxCentrality(bc) = IF Max(values) > 0 THEN Max(values) ELSE CentralityUnit
  BY <1>1 DEF MaxCentrality
<1> HIDE DEF values
<1>10. Max(values) \in values
  BY <1>7, <1>8, Extremes
<1>11. MaxCentrality(bc) \in Nat \ {0}
  <2>1. PICK m \in Nat : m = Max(values)
    BY <1>7, <1>10
  <2>2. MaxCentrality(bc) = IF m > 0 THEN m ELSE CentralityUnit
    BY <1>9, <2>1
  <2>3. CentralityUnit \in Nat \ {0}
    BY UnitsAssumption
  <2>. QED
    BY <2>2, <2>3
<1>. QED
  BY <1>6, <1>11 DEF bc, A

\* The search begins with its invariant.
LEMMA BlastInit ==
  ASSUME Init PROVE BlastInv
<1> SUFFICES ASSUME request.kind = "blast"
             PROVE  Search(request, work)
  BY DEF BlastInv
<1>1. request \in Requests
  BY DEF Init
<1>2. work = [queue |-> <<Source>>, visited |-> [a \in {request.source} |-> 0],
              impacted |-> <<>>,
              by_depth |-> [d \in 0..(request.max_depth + 1) |-> IF d = 0 THEN 1 ELSE 0],
              bc |-> betweenness_centrality, max_bc |-> MaxCentrality(betweenness_centrality)]
  BY DEF Init
<1>3. Source = Origin(request)
  BY DEF Source, Origin
<1>4. /\ work.queue = <<Origin(request)>> /\ work.impacted = <<>>
      /\ work.visited = [a \in {request.source} |-> 0]
      /\ work.by_depth = [d \in 0..(request.max_depth + 1) |-> IF d = 0 THEN 1 ELSE 0]
      /\ work.bc = betweenness_centrality /\ work.max_bc = MaxCentrality(betweenness_centrality)
  BY <1>2, <1>3
<1>5. work.bc \in [Nodes(request) -> Nat] /\ work.max_bc \in Nat \ {0}
  BY <1>1, <1>4, CentralityType
<1>6. BlastCall(request)
  BY <1>1, BlastRequest
<1> DEFINE q == request
           w == work
<1>7. /\ BlastCall(q) /\ w.queue = <<Origin(q)>> /\ w.impacted = <<>>
      /\ w.visited = [a \in {q.source} |-> 0]
      /\ w.by_depth = [d \in 0..(q.max_depth + 1) |-> IF d = 0 THEN 1 ELSE 0]
      /\ w.bc \in [Nodes(q) -> Nat] /\ w.max_bc \in Nat \ {0}
  BY <1>4, <1>5, <1>6
<1> HIDE DEF q, w
<1>8. Search(q, w)
  BY <1>7, SearchBegins
<1>. QED
  BY <1>8 DEF q, w

\* Neighbors is the NextTo of the request.
LEMMA NeighborsAreNext ==
  \A a : Neighbors(a) = NextTo(request, a)
BY DEF Neighbors, direct_children, direct_parents, NextTo, Nodes, Assets, parent

\* The action Visit is a visit of the search.
LEMMA VisitIsVisited ==
  ASSUME Visit
  PROVE  \E new \in SetToSeqs(Near(request, work)) : Visited(request, work, new, work')
<1> DEFINE at == Head(work.queue)
           nd == at.depth + 1
           near == IF at.depth >= request.max_depth THEN {}
                   ELSE {c \in Neighbors(at.asset) :
                           c \notin DOMAIN work.visited \/ work.visited[c] > nd}
           found(new) == [i \in DOMAIN new |->
                            [asset |-> new[i], depth |-> nd, path |-> Append(at.path, new[i])]]
<1>1. PICK new \in SetToSeqs(near) :
        work' = [queue |-> Tail(work.queue) \o found(new),
                 visited |-> [c \in DOMAIN work.visited \cup near |->
                                IF c \in near THEN nd ELSE work.visited[c]],
                 by_depth |-> [work.by_depth EXCEPT ![nd] = @ + Len(new)],
                 impacted |-> work.impacted \o found(new),
                 bc |-> work.bc, max_bc |-> work.max_bc]
  BY DEF Visit
<1>2. near = Near(request, work)
  BY NeighborsAreNext DEF Near
<1>3. found(new) = Found(work, new)
  BY DEF Found
<1> HIDE DEF near, found
<1>4. Visited(request, work, new, work')
  BY <1>1, <1>2, <1>3 DEF Visited
<1>. QED
  BY <1>1, <1>2, <1>4

\* Storing leaves alone what was asked and answered.
StoreStep == StoreRow \/ Commit \/ RollBack \/ ClearIds \/ FillIds
LEMMA StoringKeepsAnswer ==
  ASSUME StoreStep
  PROVE  request' = request /\ work' = work /\ answer' = answer
BY DEF StoreStep, StoreRow, Commit, RollBack, ClearIds, FillIds

\* The request remains.
LEMMA OneRequest ==
  ASSUME [Next]_vars
  PROVE  request' = request
<1>1. CASE StoreStep
  BY <1>1, StoringKeepsAnswer
<1>2. CASE Visit \/ Answer \/ Timeline \/ Playback
  BY <1>2 DEF Visit, Answer, Timeline, Playback
<1>3. CASE UNCHANGED vars
  BY <1>3 DEF vars
<1>. QED
  BY <1>1, <1>2, <1>3 DEF Next, StoreStep

\* Every step keeps the invariant of the search.
LEMMA BlastStep ==
  ASSUME request \in Requests, BlastInv, [Next]_vars
  PROVE  BlastInv'
<1>1. request' = request
  BY OneRequest
<1> SUFFICES ASSUME request.kind = "blast"
             PROVE  Search(request, work')
  BY <1>1 DEF BlastInv
<1>2. Search(request, work)
  BY DEF BlastInv
<1>3. BlastCall(request)
  BY BlastRequest
<1>4. CASE Visit
  <2>1. work.queue # <<>>
    BY <1>4 DEF Visit
  <2>2. PICK new \in SetToSeqs(Near(request, work)) : Visited(request, work, new, work')
    BY <1>4, VisitIsVisited
  <2> DEFINE q == request
             w == work
             v == work'
  <2>3. /\ BlastCall(q) /\ Search(q, w) /\ w.queue # <<>>
        /\ new \in SetToSeqs(Near(q, w)) /\ Visited(q, w, new, v)
    BY <1>2, <1>3, <2>1, <2>2
  <2> HIDE DEF q, w, v
  <2>4. Search(q, v)
    BY <2>3, VisitKeepsSearch
  <2>. QED
    BY <2>4 DEF q, v
<1>5. CASE StoreStep
  <2>1. work' = work
    BY <1>5, StoringKeepsAnswer
  <2>. QED
    BY <1>2, <2>1
<1>6. CASE UNCHANGED vars
  BY <1>2, <1>6 DEF vars
<1>7. CASE Answer \/ Timeline \/ Playback
  BY <1>2, <1>7 DEF Answer, Timeline, Playback
<1>. QED
  BY <1>4, <1>5, <1>6, <1>7 DEF Next, StoreStep

-----------------------------------------------------------------------------

\* After an answer the definitions speak of the same request.
LEMMA RequestRemains ==
  ASSUME request' = request
  PROVE  /\ \A k : Within(k)' = WithinOf(request, k)
         /\ \A d : Ring(d)' = RingOf(request, d)
         /\ \A a, b : Linked(a, b)' <=> Joined(request, a, b)
<1>1. \A a, b : Linked(a, b)' <=> Joined(request, a, b)
  BY DEF Linked, Joined, parent
<1>2. Assets' = Nodes(request)
  BY DEF Assets, Nodes
<1>3. \A n, b : Reached(n, b)' <=> ReachedBy(request, n, b)
  BY <1>1, <1>2 DEF Reached, ReachedBy
<1>4. \A k : Within(k)' = WithinOf(request, k)
  BY <1>2, <1>3 DEF Within, WithinOf
<1>5. \A d : Ring(d)' = RingOf(request, d)
  BY <1>4 DEF Ring, RingOf
<1>. QED
  BY <1>1, <1>4, <1>5

\* Impact is the ImpactOf of the state.
LEMMA ImpactIsImpactOf ==
  /\ \A a, d : Impact(a, d) = ImpactOf(request, work, a, d)
  /\ request' = request /\ work' = work =>
        \A a, d : Impact(a, d)' = ImpactOf(request, work, a, d)
BY DEF Impact, Unrounded, Scale, ImpactOf, UnroundedOf, ScaleOf, Decay

\* The answer is what was found, in the order of ScoreOf, and opens the
\* transaction of a request that stores it.
LEMMA AnswerSays ==
  ASSUME Answer,
         NEW score, score = ScoreOf(request, work),
         NEW order, order = InOrder(DOMAIN score, HigherFirst(DOMAIN score, score)),
         NEW list, list = AnswerOf(work, order)
  PROVE  /\ answer'.impacted = list /\ answer'.by_depth = work.by_depth
         /\ storing' = IF request.persist
                       THEN [state |-> "open", at |-> FirstKnown(list, 1), flushed |-> {}]
                       ELSE [storing EXCEPT !.state = "answered"]
<1> DEFINE sc == [i \in DOMAIN work.impacted |->
                    Impact(work.impacted[i].asset, work.impacted[i].depth)]
           fo == DOMAIN sc
           or == InOrder(fo, {p \in fo \X fo :
                         \/ sc[p[1]] > sc[p[2]]
                         \/ sc[p[1]] = sc[p[2]] /\ p[1] < p[2]})
           li == [n \in DOMAIN or |-> work.impacted[or[n]]]
<1>1. sc = score
  BY ImpactIsImpactOf DEF ScoreOf
<1>2. or = order
  BY <1>1 DEF HigherFirst
<1>3. li = list
  BY <1>2 DEF AnswerOf
<1> DEFINE total == MapThenSumSet(LAMBDA i : sc[i], fo)
           critical == {work.impacted[i].asset : i \in {j \in fo : sc[j] >= 50 * ScoreUnit}}
<1>4. /\ answer' = [impacted |-> li, by_depth |-> work.by_depth,
                    total_impact |-> total, critical_assets |-> critical]
      /\ storing' = IF request.persist
                    THEN [state |-> "open", at |-> FirstKnown(li, 1), flushed |-> {}]
                    ELSE [storing EXCEPT !.state = "answered"]
  BY DEF Answer
<1> HIDE DEF li, total, critical
<1>5. answer'.impacted = li /\ answer'.by_depth = work.by_depth
  BY <1>4
<1>. QED
  BY <1>3, <1>4, <1>5

\* What Answer answers is the exact blast radius: the search has ended, so its
\* invariant leaves nothing to be found.
LEMMA AnswerIsExact ==
  ASSUME request \in Requests, BlastInv, Answer
  PROVE  SpreadExact'
<1>1. /\ request.kind = "blast" /\ work.queue = <<>> /\ request' = request /\ work' = work
  BY DEF Answer
<1>2. Search(request, work) /\ BlastCall(request)
  BY <1>1, BlastRequest DEF BlastInv
<1> DEFINE score == ScoreOf(request, work)
           found == DOMAIN score
           order == InOrder(found, HigherFirst(found, score))
           list == AnswerOf(work, order)
<1>3. answer'.impacted = list /\ answer'.by_depth = work.by_depth
  BY AnswerSays
<1> DEFINE q == request
           w == work
<1> HIDE DEF score, order, list
<1>4. /\ BlastCall(q) /\ Search(q, w) /\ w.queue = <<>> /\ score = ScoreOf(q, w)
      /\ order = InOrder(DOMAIN score, HigherFirst(DOMAIN score, score))
      /\ list = AnswerOf(w, order)
  BY <1>1, <1>2 DEF score, order, list
<1> HIDE DEF q, w
<1>5. /\ {e.asset : e \in Range(list)} = WithinOf(q, q.max_depth) \ {q.source}
      /\ \A k, l \in DOMAIN list : list[k].asset = list[l].asset => k = l
      /\ \A e \in Range(list) : e.asset \in RingOf(q, e.depth) /\ PathTo(q, e)
      /\ \A k, l \in DOMAIN list :
            (k < l /\ list[l].depth <= list[k].depth /\ w.bc[list[l].asset] >= w.bc[list[k].asset])
            => ImpactOf(q, w, list[k].asset, list[k].depth) = ImpactOf(q, w, list[l].asset, list[l].depth)
  BY <1>4, AnswerExact
<1>6. \A d \in 0..q.max_depth : w.by_depth[d] = Cardinality(RingOf(q, d))
  BY <1>4, CountsAreRings
<1>8. /\ \A k : Within(k)' = WithinOf(q, k)
      /\ \A d : Ring(d)' = RingOf(q, d)
      /\ \A a, b : Linked(a, b)' <=> Joined(q, a, b)
      /\ \A a, d : Impact(a, d)' = ImpactOf(q, w, a, d)
  BY <1>1, RequestRemains, ImpactIsImpactOf DEF q, w
<1>9. \A e \in Range(list) :
        /\ e.asset \in Ring(e.depth)'
        /\ Len(e.path) = e.depth + 1 /\ e.path[1] = q.source
        /\ e.path[Len(e.path)] = e.asset
        /\ \A k \in 1..e.depth : Linked(e.path[k], e.path[k + 1])'
  BY <1>5, <1>8 DEF PathTo
<1>11. answer'.impacted = list /\ answer'.by_depth = w.by_depth /\ request' = q /\ work' = w
  BY <1>1, <1>3 DEF q, w
<1>. QED
  BY <1>5, <1>6, <1>8, <1>9, <1>11 DEF SpreadExact

-----------------------------------------------------------------------------
(* Playback: frames and trucks.                                            *)

\* The larger and the smaller of two numbers.
LEMMA TwoNumbers ==
  ASSUME NEW a \in Int, NEW b \in Int
  PROVE  /\ Max({a, b}) \in {a, b} /\ Max({a, b}) >= a /\ Max({a, b}) >= b
         /\ Min({a, b}) \in {a, b} /\ Min({a, b}) <= a /\ Min({a, b}) <= b
<1> DEFINE S == {a, b}
<1>1. S \in SUBSET Int /\ S # {} /\ a \in S /\ b \in S
  OBVIOUS
<1>2. IsFiniteSet(S)
  <2>1. IsFiniteSet({a}) /\ S = {a} \cup {b}
    BY FS_Singleton
  <2>. QED
    BY <2>1, FS_AddElement, Zenon
<1> HIDE DEF S
<1>3. Max(S) \in S /\ (\A x \in S : x <= Max(S)) /\ Min(S) \in S /\ \A x \in S : Min(S) <= x
  BY <1>1, <1>2, Extremes
<1>4. Max(S) \in Int /\ Min(S) \in Int
  BY <1>1, <1>3
<1>5. Max(S) >= a /\ Max(S) >= b /\ Min(S) <= a /\ Min(S) <= b
  BY <1>1, <1>3, <1>4
<1>. QED
  BY <1>3, <1>5 DEF S

\* The larger of two numbers is one of them.
LEMMA LargerOfTwo ==
  \A a, b \in Int : Larger(a, b) \in Int /\ Larger(a, b) >= a /\ Larger(a, b) >= b
<1> TAKE a \in Int, b \in Int
<1> DEFINE m == Max({a, b})
<1>1. m \in {a, b} /\ m >= a /\ m >= b
  BY TwoNumbers
<1>2. m = Larger(a, b)
  BY DEF Larger
<1> HIDE DEF m
<1>3. m \in Int /\ m >= a /\ m >= b
  BY <1>1
<1>. QED
  BY <1>2, <1>3

\* A call of playback.
PlaybackCall == request \in Requests /\ request.kind = "playback"

\* The same, for all at once.
LEMMA ImagesFinite ==
  \A S, T, image : \A f \in [S -> T] :
      IsFiniteSet(S) /\ image = {f[x] : x \in S} => IsFiniteSet(image)
BY ImageFinite

\* There are finitely many reports, and their times are numbers.
LEMMA ReportsFinite ==
  ASSUME PlaybackCall
  PROVE  /\ IsFiniteSet(Reports) /\ \A r \in Reports : r.t \in Nat
         /\ IsFiniteSet(Times) /\ Times \in SUBSET Nat
         /\ IsFiniteSet(Trucks)
         /\ \A truck \in Trucks :
               /\ IsFiniteSet(OfTruck(truck)) /\ OfTruck(truck) # {}
               /\ OfTruck(truck) \in SUBSET Times
         /\ \A t \in Times : \E truck \in Trucks : t \in OfTruck(truck)
<1>1. IsFiniteSet(request.reports) /\ \A r \in request.reports : r.t \in Nat
  BY PlaybacksAssumption DEF PlaybackCall
<1>2. Reports \in SUBSET request.reports
  BY DEF Reports
<1>3. IsFiniteSet(Reports) /\ \A r \in Reports : r.t \in Nat
  <2>1. IsFiniteSet(Reports)
    BY <1>1, <1>2, FS_Subset, Zenon
  <2>. QED
    BY <1>1, <1>2, <2>1
<1>4. \A S, T, image : \A f \in [S -> T] :
         IsFiniteSet(S) /\ image = {f[x] : x \in S} => IsFiniteSet(image)
  BY ImageFinite
<1>5. IsFiniteSet(Times) /\ Times \in SUBSET Nat
  <2> DEFINE f == [r \in Reports |-> r.t]
  <2>1. f \in [Reports -> Nat] /\ Times = {f[x] : x \in Reports}
    BY <1>3 DEF Times
  <2> HIDE DEF f
  <2>2. IsFiniteSet(Times)
    BY <1>3, <1>4, <2>1, Zenon
  <2>. QED
    BY <1>3, <2>2 DEF Times
<1>6. IsFiniteSet(Trucks)
  <2> DEFINE f == [r \in Reports |-> r.truck]
  <2>1. f \in [Reports -> Trucks] /\ Trucks = {f[x] : x \in Reports}
    BY DEF Trucks
  <2> HIDE DEF f
  <2>. QED
    BY <1>3, <1>4, <2>1, Zenon
<1>7. \A truck \in Trucks : OfTruck(truck) # {} /\ OfTruck(truck) \in SUBSET Times
  BY DEF Trucks, OfTruck, Times
<1>8. \A truck \in Trucks : IsFiniteSet(OfTruck(truck))
  BY <1>5, <1>7, FS_Subset, Zenon
<1>9. \A t \in Times : \E truck \in Trucks : t \in OfTruck(truck)
  BY DEF Trucks, OfTruck, Times
<1>. QED
  BY <1>3, <1>5, <1>6, <1>7, <1>8, <1>9

\* A bucket lasts at least a second.
LEMMA StepType ==
  ASSUME PlaybackCall, Reports # {}
  PROVE  step_sec \in Nat \ {0}
<1>1. Times \in SUBSET Int /\ IsFiniteSet(Times) /\ Times # {}
  <2>1. Times # {}
    BY DEF Times
  <2>2. Times \in SUBSET Nat /\ IsFiniteSet(Times)
    BY ReportsFinite
  <2>. QED
    BY <2>1, <2>2
<1>2. Max(Times) \in Int /\ Min(Times) \in Int
  BY <1>1, Extremes
<1> DEFINE span == Larger(1, Max(Times) - Min(Times))
           x == span \div TargetFrames
           y == Larger(2, x)
           z == Min({request.interval, y})
<1>3. Max(Times) - Min(Times) \in Int
  BY <1>2
<1>4. span \in Int
  <2> DEFINE d == Max(Times) - Min(Times)
  <2>1. d \in Int
    BY <1>3
  <2> HIDE DEF d
  <2>2. Larger(1, d) \in Int
    BY <2>1, LargerOfTwo
  <2>. QED
    BY <2>2 DEF d
<1> HIDE DEF span
<1>5. x \in Int
  BY <1>4, FramesAssumption, QuotientRises
<1> HIDE DEF x
<1>6. y \in Int
  BY <1>5, LargerOfTwo
<1> HIDE DEF y
<1>7. request.interval \in Int
  BY PlaybacksAssumption DEF PlaybackCall
<1>8. z \in Int
  BY <1>6, <1>7, TwoNumbers
<1> HIDE DEF z
<1>9. Max({2, z}) \in {2, z} /\ Max({2, z}) >= 2
  BY <1>8, TwoNumbers
<1>10. step_sec = Max({2, z})
  BY DEF step_sec, Larger, z, y, x, span
<1>. QED
  BY <1>8, <1>9, <1>10

\* Buckets follow the times.
LEMMA BucketRises ==
  ASSUME PlaybackCall, Reports # {}, NEW t \in Times, NEW u \in Times, t <= u
  PROVE  Bucket(t) \in Nat /\ Bucket(u) \in Nat /\ Bucket(t) <= Bucket(u)
<1>1. t \in Nat /\ u \in Nat /\ step_sec \in Nat \ {0}
  BY ReportsFinite, StepType
<1> DEFINE s == step_sec
<1>2. t \in Int /\ u \in Int /\ s \in Nat \ {0}
  BY <1>1
<1> HIDE DEF s
<1>3. t \div s \in Int /\ u \div s \in Int /\ t \div s <= u \div s /\ t \div s \in Nat
  BY <1>1, <1>2, QuotientRises
<1>. QED
  BY <1>3 DEF Bucket, s

\* sorted_keys holds every bucket with a report, in order.
LEMMA KeysSorted ==
  ASSUME PlaybackCall, Reports # {}
  PROVE  LET n == Cardinality(Keys)
         IN /\ n \in Nat /\ Len(sorted_keys) = n /\ DOMAIN sorted_keys = 1..n
            /\ Keys \in SUBSET Nat
            /\ \A i \in 1..n : sorted_keys[i] \in Keys
            /\ \A k \in Keys : \E i \in 1..n : sorted_keys[i] = k
            /\ \A i, j \in 1..n : i < j => sorted_keys[i] < sorted_keys[j]
<1>1. \A t \in Times : Bucket(t) \in Nat
  <2> TAKE t \in Times
  <2>1. t <= t
    BY ReportsFinite
  <2>. QED
    BY <2>1, BucketRises
<1>2. Keys \in SUBSET Nat /\ Keys \in SUBSET Int
  BY <1>1 DEF Keys
<1>3. IsFiniteSet(Keys)
  <2> DEFINE f == [t \in Times |-> Bucket(t)]
  <2>1. f \in [Times -> Nat] /\ Keys = {f[x] : x \in Times}
    BY <1>1 DEF Keys
  <2>2. \A S, T, image : \A g \in [S -> T] :
           IsFiniteSet(S) /\ image = {g[x] : x \in S} => IsFiniteSet(image)
    BY ImagesFinite, Zenon
  <2>3. IsFiniteSet(Times)
    BY ReportsFinite
  <2> HIDE DEF f
  <2>. QED
    BY <2>1, <2>2, <2>3, Zenon
<1> DEFINE before == {p \in Keys \X Keys : p[1] < p[2]}
           n == Cardinality(Keys)
           s == InOrder(Keys, before)
<1>4. TotalOrder(Keys, before)
  BY <1>2, LessIsTotal
<1>5. \A i, j : <<i, j>> \in before => i < j
  OBVIOUS
<1>6. s = sorted_keys
  BY DEF sorted_keys
<1> HIDE DEF before
<1>7. /\ n \in Nat
      /\ s \in [1..n -> Keys]
      /\ \A x \in Keys : \E i \in 1..n : s[i] = x
      /\ \A i, j \in 1..n : i < j => <<s[i], s[j]>> \in before
  BY <1>3, <1>4, InOrderSorts
<1> HIDE DEF s, n
<1>8. Len(s) = n
  BY <1>7
<1>. QED
  BY <1>2, <1>5, <1>6, <1>7, <1>8 DEF n

\* A truck's last report in a bucket.
LEMMA LastOfBucketIsLast ==
  ASSUME PlaybackCall, Reports # {}, NEW truck \in Trucks, NEW k,
         NEW t \in OfTruck(truck), Bucket(t) = k
  PROVE  /\ LastOfBucket(truck, k) \in OfTruck(truck)
         /\ Bucket(LastOfBucket(truck, k)) = k
         /\ \A u \in OfTruck(truck) : Bucket(u) = k => u <= LastOfBucket(truck, k)
<1> DEFINE S == {u \in OfTruck(truck) : Bucket(u) = k}
<1>1. OfTruck(truck) \in SUBSET Times /\ Times \in SUBSET Nat /\ IsFiniteSet(OfTruck(truck))
  BY ReportsFinite
<1>2. S \in SUBSET Int /\ S # {} /\ S \in SUBSET OfTruck(truck)
  <2>1. S \in SUBSET OfTruck(truck)
    OBVIOUS
  <2>2. OfTruck(truck) \in SUBSET Int
    <3> SUFFICES ASSUME NEW u \in OfTruck(truck) PROVE u \in Int
      OBVIOUS
    <3>1. u \in Times /\ \A x \in Times : x \in Nat
      BY <1>1
    <3>. QED
      BY <3>1
  <2>3. t \in S
    OBVIOUS
  <2> HIDE DEF S
  <2>. QED
    BY <2>1, <2>2, <2>3
<1>3. LastOfBucket(truck, k) = Max(S)
  BY DEF LastOfBucket
<1>a. \A u \in S : u \in OfTruck(truck) /\ Bucket(u) = k
  OBVIOUS
<1>b. \A u \in OfTruck(truck) : Bucket(u) = k => u \in S
  OBVIOUS
<1> HIDE DEF S
<1>4. IsFiniteSet(S)
  BY <1>1, <1>2, FS_Subset, Zenon
<1>5. Max(S) \in S /\ \A x \in S : x <= Max(S)
  BY <1>2, <1>4, Extremes
<1>. QED
  BY <1>3, <1>5, <1>a, <1>b

\* The time of a frame lies in its bucket.
LEMMA FrameTimeInBucket ==
  ASSUME PlaybackCall, Reports # {}, NEW k \in Keys
  PROVE  FrameTime(k) \in Times /\ Bucket(FrameTime(k)) = k
<1> DEFINE inIt == {truck \in Trucks : \E t \in OfTruck(truck) : Bucket(t) = k}
           first == [truck \in inIt |-> Min(OfTruck(truck))]
           firsts == {first[truck] : truck \in inIt}
<1>1. inIt # {} /\ inIt \in SUBSET Trucks
  <2>1. PICK t \in Times : Bucket(t) = k
    BY DEF Keys
  <2>2. PICK truck \in Trucks : t \in OfTruck(truck)
    BY ReportsFinite
  <2>. QED
    BY <2>1, <2>2
<1>2. \A truck \in inIt : \E t \in OfTruck(truck) : Bucket(t) = k
  OBVIOUS
<1>3. \A truck \in inIt : Min(OfTruck(truck)) \in Int
  <2> SUFFICES ASSUME NEW truck \in Trucks PROVE Min(OfTruck(truck)) \in Int
    OBVIOUS
  <2> DEFINE S == OfTruck(truck)
  <2>1. S \in SUBSET Int /\ S # {} /\ IsFiniteSet(S)
    BY ReportsFinite
  <2> HIDE DEF S
  <2>2. Min(S) \in S
    BY <2>1, Extremes
  <2>. QED
    BY <2>1, <2>2 DEF S
<1>4. FrameTime(k) = LastOfBucket(CHOOSE truck \in inIt : \A o \in inIt : Min(OfTruck(o)) <= Min(OfTruck(truck)), k)
  BY DEF FrameTime
<1> HIDE DEF inIt
<1>5. first \in [inIt -> Int] /\ \A truck \in inIt : first[truck] = Min(OfTruck(truck))
  BY <1>3
<1>6. firsts \in SUBSET Int /\ firsts # {}
  BY <1>1, <1>5
<1>7. IsFiniteSet(firsts)
  <2>1. \A S, T, image : \A g \in [S -> T] :
           IsFiniteSet(S) /\ image = {g[x] : x \in S} => IsFiniteSet(image)
    BY ImagesFinite, Zenon
  <2>2. IsFiniteSet(Trucks)
    BY ReportsFinite
  <2>3. IsFiniteSet(inIt)
    BY <1>1, <2>2, FS_Subset, Zenon
  <2> DEFINE image == firsts
  <2>4. image = {first[x] : x \in inIt}
    OBVIOUS
  <2> HIDE DEF first, image
  <2>5. IsFiniteSet(image)
    BY <1>5, <2>1, <2>3, <2>4, Zenon
  <2>. QED
    BY <2>5 DEF image
<1> HIDE DEF first
<1>8. PICK truck \in inIt : \A o \in inIt : first[o] <= first[truck]
  <2>1. PICK m \in firsts : \A x \in firsts : x <= m
    BY <1>6, <1>7, Extremes
  <2>. QED
    BY <2>1
<1>9. \E last \in inIt : \A o \in inIt : Min(OfTruck(o)) <= Min(OfTruck(last))
  BY <1>5, <1>8
<1>10. PICK last \in inIt : FrameTime(k) = LastOfBucket(last, k)
  BY <1>4, <1>9
<1>11. PICK t \in OfTruck(last) : Bucket(t) = k
  BY <1>2
<1>12. last \in Trucks
  BY <1>1
<1>13. /\ LastOfBucket(last, k) \in OfTruck(last)
       /\ Bucket(LastOfBucket(last, k)) = k
  BY <1>11, <1>12, LastOfBucketIsLast
<1>14. OfTruck(last) \in SUBSET Times
  BY <1>12, ReportsFinite
<1>. QED
  BY <1>10, <1>13, <1>14

\* The last report of a truck until a bucket, or its first report.
UntilBucket(truck, k) == {t \in OfTruck(truck) : Bucket(t) <= k}

\* Where frame i shows a truck.
ShownAt(truck, k) ==
    IF UntilBucket(truck, k) = {} THEN Min(OfTruck(truck)) ELSE Max(UntilBucket(truck, k))

\* The frames of a truck carry its last report forward.
LEMMA AlignedShowsLatest ==
  ASSUME PlaybackCall, Reports # {}, NEW truck \in Trucks, NEW i \in DOMAIN sorted_keys
  PROVE  Aligned(truck)[i] = ShownAt(truck, sorted_keys[i])
<1> DEFINE n == Cardinality(Keys)
           s == sorted_keys
           all == OfTruck(truck)
           mine == {Bucket(t) : t \in all}
           K == {j \in DOMAIN s : s[j] \in mine}
           known == [j \in K |-> LastOfBucket(truck, s[j])]
           first == Min(all)
           shown == CarryForward(n, known, first)
           until == {t \in all : Bucket(t) <= s[i]}
<1>1. /\ n \in Nat /\ Len(s) = n /\ DOMAIN s = 1..n
      /\ Keys \in SUBSET Nat
      /\ \A j \in 1..n : s[j] \in Keys
      /\ \A k \in Keys : \E j \in 1..n : s[j] = k
      /\ \A j, k \in 1..n : j < k => s[j] < s[k]
  BY KeysSorted
<1>2. Aligned(truck) = shown
  BY <1>1 DEF Aligned
<1>3. IsFiniteSet(all) /\ (\A t \in all : t \in Times) /\ \A t \in Times : t \in Nat
  BY ReportsFinite
<1>4. \A t, u \in all : t <= u => Bucket(t) <= Bucket(u)
  BY <1>3, BucketRises
<1>5. \A t \in all : Bucket(t) \in Keys
  BY <1>3 DEF Keys
<1>6. \A j \in K : LastOfBucket(truck, s[j]) \in all /\ Bucket(LastOfBucket(truck, s[j])) = s[j]
                   /\ \A u \in all : Bucket(u) = s[j] => u <= LastOfBucket(truck, s[j])
  <2> TAKE j \in K
  <2>1. PICK t \in all : Bucket(t) = s[j]
    OBVIOUS
  <2> DEFINE k == s[j]
  <2>2. Bucket(t) = k
    BY <2>1
  <2> HIDE DEF k
  <2>3. /\ LastOfBucket(truck, k) \in OfTruck(truck)
        /\ Bucket(LastOfBucket(truck, k)) = k
        /\ \A u \in OfTruck(truck) : Bucket(u) = k => u <= LastOfBucket(truck, k)
    BY <2>2, LastOfBucketIsLast
  <2>. QED
    BY <2>3 DEF k
<1>7. K \in SUBSET (1..n) /\ DOMAIN known = K /\ \A j \in K : known[j] = LastOfBucket(truck, s[j])
  BY <1>1
<1>8. \A j \in K : s[j] \in mine
  OBVIOUS
<1>9. \A j \in 1..n : s[j] \in mine => j \in K
  BY <1>1
<1>10. ShownAt(truck, s[i]) = IF until = {} THEN Min(all) ELSE Max(until)
  BY DEF ShownAt, UntilBucket
<1>11. i \in 1..n
  BY <1>1
<1> HIDE DEF n, s, K, known, first
<1>a. \A j \in K : j \in 1..n
  BY <1>7
<1>b. \A j \in 1..n : s[j] \in Nat
  BY <1>1
<1>c. \A j, k \in 1..n : j <= k => s[j] <= s[k]
  <2> TAKE j \in 1..n, k \in 1..n
  <2>1. j < k => s[j] < s[k]
    BY <1>1
  <2>. QED
    BY <1>1, <1>b, <2>1
<1>12. /\ (\A j \in DOMAIN known : i < j) => shown[i] = first
       /\ \A j \in DOMAIN known :
            (j <= i /\ \A k \in DOMAIN known : k <= i => k <= j) => shown[i] = known[j]
  <2>1. n \in Nat /\ DOMAIN known \subseteq 1..n
    BY <1>1, <1>7
  <2>2. LET sh == CarryForward(n, known, first)
        IN \A l \in 1..n :
             /\ (\A j \in DOMAIN known : l < j) => sh[l] = first
             /\ \A j \in DOMAIN known :
                  (j <= l /\ \A k \in DOMAIN known : k <= l => k <= j) => sh[l] = known[j]
    BY <2>1, CarryForwardShowsLatest
  <2>. QED
    BY <1>11, <2>2
<1> HIDE DEF shown
<1>13. CASE until = {}
  <2>1. \A j \in K : i < j
    <3> SUFFICES ASSUME NEW j \in K, j <= i PROVE FALSE
      BY <1>1, <1>7, <1>11
    <3>1. PICK t \in all : Bucket(t) = s[j]
      BY <1>8
    <3>2. s[j] <= s[i]
      BY <1>a, <1>c, <1>11
    <3>. QED
      BY <3>1, <3>2, <1>13
  <2>. QED
    BY <1>2, <1>7, <1>10, <1>12, <1>13, <2>1 DEF first, s
<1>14. CASE until # {}
  <2> DEFINE m == Max(until)
  <2>1. until \in SUBSET Int /\ until \in SUBSET all
    BY <1>3
  <2>2. IsFiniteSet(until)
    BY <1>3, <2>1, FS_Subset, Zenon
  <2>3. m \in until /\ \A t \in until : t <= m
    <3> HIDE DEF until
    <3>. QED
      BY <1>14, <2>1, <2>2, Extremes
  <2> HIDE DEF m
  <2>4. m \in all /\ Bucket(m) <= s[i]
    BY <2>3
  <2>5. PICK j \in 1..n : s[j] = Bucket(m)
    BY <1>1, <1>5, <2>4
  <2>6. j \in K
    BY <1>9, <2>4, <2>5
  <2>7. j <= i
    <3> SUFFICES ASSUME i < j PROVE FALSE
      BY <1>11
    <3>1. s[i] < s[j] /\ s[i] \in Nat /\ s[j] \in Nat
      BY <1>1, <1>11
    <3>. QED
      BY <3>1, <2>4, <2>5
  <2>8. \A k \in K : k <= i => k <= j
    <3> SUFFICES ASSUME NEW k \in K, k <= i, j < k PROVE FALSE
      BY <1>1, <1>7
    <3>1. PICK t \in all : Bucket(t) = s[k]
      BY <1>8
    <3>2. s[k] <= s[i] /\ s[j] < s[k] /\ s[j] \in Nat /\ s[k] \in Nat
      <4>1. k \in 1..n
        BY <1>a
      <4>2. s[k] <= s[i]
        BY <1>c, <1>11, <4>1
      <4>3. s[j] < s[k]
        BY <1>1, <4>1
      <4>. QED
        BY <1>b, <4>1, <4>2, <4>3
    <3>3. t \in until
      BY <3>1, <3>2
    <3>4. Bucket(t) <= Bucket(m)
      BY <1>4, <2>3, <2>4, <3>3
    <3>. QED
      BY <2>5, <3>1, <3>2, <3>4
  <2>9. shown[i] = LastOfBucket(truck, s[j])
    BY <1>7, <1>12, <2>6, <2>7, <2>8
  <2> DEFINE l == LastOfBucket(truck, s[j])
  <2>10. l \in all /\ Bucket(l) = Bucket(m) /\ m <= l
    BY <1>6, <2>4, <2>5, <2>6
  <2> HIDE DEF l
  <2>11. l \in until
    BY <2>4, <2>10
  <2>12. l <= m /\ l \in Int /\ m \in Int
    BY <2>1, <2>3, <2>11
  <2>13. l = m
    BY <2>10, <2>12
  <2>. QED
    BY <1>2, <1>10, <1>14, <2>9, <2>13 DEF l, m, s
<1>. QED
  BY <1>13, <1>14

\* While the call remains, so do its reports, buckets and trucks.
LEMMA PlaybackRemains ==
  ASSUME request' = request
  PROVE  /\ Reports' = Reports /\ Times' = Times /\ Trucks' = Trucks
         /\ \A truck : OfTruck(truck)' = OfTruck(truck)
         /\ \A t : Bucket(t)' = Bucket(t)
<1>1. Reports' = Reports
  BY DEF Reports
<1>2. Times' = Times /\ Trucks' = Trucks
  BY <1>1 DEF Times, Trucks
<1>3. \A truck : OfTruck(truck)' = OfTruck(truck)
  BY <1>1 DEF OfTruck
<1>4. step_sec' = step_sec
  BY <1>2 DEF step_sec
<1>5. \A t : Bucket(t)' = Bucket(t)
  BY <1>4 DEF Bucket
<1>. QED
  BY <1>1, <1>2, <1>3, <1>5

\* The answer of playback has its frames in order and shows every truck.
LEMMA PlaybackShowsLatest ==
  ASSUME request \in Requests, Playback
  PROVE  FramesShowLatest'
<1>1. PlaybackCall /\ request' = request
  BY DEF Playback, PlaybackCall
<1>2. /\ answer'.timestamps = IF Reports = {} THEN <<>>
                              ELSE [i \in DOMAIN sorted_keys |-> FrameTime(sorted_keys[i])]
      /\ answer'.trucks = [truck \in Trucks |-> Aligned(truck)]
  BY DEF Playback
<1> DEFINE stamps == answer'.timestamps
           Goal == /\ \A t \in Times : \E f \in Range(stamps) : Bucket(f) = Bucket(t)
                   /\ \A i, j \in DOMAIN stamps : i < j => Bucket(stamps[i]) < Bucket(stamps[j])
                   /\ \A truck \in Trucks, i \in DOMAIN stamps :
                        answer'.trucks[truck][i] = ShownAt(truck, Bucket(stamps[i]))
<1>3. Goal => FramesShowLatest'
  <2>1. /\ Times' = Times /\ Trucks' = Trucks
        /\ \A truck : OfTruck(truck)' = OfTruck(truck)
        /\ \A t : Bucket(t)' = Bucket(t)
    BY <1>1, PlaybackRemains
  <2>. QED
    BY <2>1 DEF FramesShowLatest, ShownAt, UntilBucket
<1>4. CASE Reports = {}
  <2>1. Times = {} /\ Trucks = {} /\ stamps = <<>>
    BY <1>2, <1>4 DEF Times, Trucks
  <2>2. DOMAIN stamps = {}
    BY <2>1
  <2> HIDE DEF stamps
  <2>3. Goal
    BY <2>1, <2>2
  <2>. QED
    BY <1>3, <2>3 DEF stamps
<1>5. CASE Reports # {}
  <2> DEFINE s == sorted_keys
             n == Cardinality(Keys)
  <2>1. /\ n \in Nat /\ DOMAIN s = 1..n /\ Keys \in SUBSET Nat
        /\ \A j \in 1..n : s[j] \in Keys
        /\ \A k \in Keys : \E j \in 1..n : s[j] = k
        /\ \A j, k \in 1..n : j < k => s[j] < s[k]
    BY <1>1, <1>5, KeysSorted
  <2>2. DOMAIN stamps = 1..n /\ \A i \in 1..n : stamps[i] = FrameTime(s[i])
    BY <1>2, <1>5, <2>1
  <2>3. \A k \in Keys : Bucket(FrameTime(k)) = k
    BY <1>1, <1>5, FrameTimeInBucket
  <2>4. \A truck \in Trucks, i \in DOMAIN s : Aligned(truck)[i] = ShownAt(truck, s[i])
    BY <1>1, <1>5, AlignedShowsLatest
  <2>5. \A truck \in Trucks : answer'.trucks[truck] = Aligned(truck)
    BY <1>2
  <2> HIDE DEF stamps, s
  <2>6. \A i \in 1..n : Bucket(stamps[i]) = s[i]
    BY <2>1, <2>2, <2>3
  <2>7. \A t \in Times : \E f \in Range(stamps) : Bucket(f) = Bucket(t)
    <3> SUFFICES ASSUME NEW t \in Times PROVE \E f \in Range(stamps) : Bucket(f) = Bucket(t)
      OBVIOUS
    <3>1. Bucket(t) \in Keys
      BY DEF Keys
    <3>2. PICK i \in 1..n : s[i] = Bucket(t)
      BY <2>1, <3>1
    <3>. QED
      BY <2>2, <2>6, <3>2 DEF Range
  <2>8. \A i, j \in DOMAIN stamps : i < j => Bucket(stamps[i]) < Bucket(stamps[j])
    BY <2>1, <2>2, <2>6
  <2>9. \A truck \in Trucks, i \in DOMAIN stamps :
           answer'.trucks[truck][i] = ShownAt(truck, Bucket(stamps[i]))
    BY <2>1, <2>2, <2>4, <2>5, <2>6
  <2>. QED
    BY <1>3, <2>7, <2>8, <2>9 DEF stamps
<1>. QED
  BY <1>4, <1>5

-----------------------------------------------------------------------------
(* Playback: what happened.                                                *)

\* A finite set in a total order has a first element.
LEMMA FirstOf ==
  ASSUME NEW S, IsFiniteSet(S), S # {}, NEW before, TotalOrder(S, before)
  PROVE  \E x \in S : \A y \in S : y = x \/ <<x, y>> \in before
<1> DEFINE s == InOrder(S, before)
           size == Cardinality(S)
<1>1. /\ size \in Nat
      /\ s \in [1..size -> S]
      /\ \A x \in S : \E n \in 1..size : s[n] = x
      /\ \A m, n \in 1..size : m < n => <<s[m], s[n]>> \in before
  BY InOrderSorts
<1> HIDE DEF s, size
<1>2. 1 \in 1..size
  BY <1>1
<1>3. \A y \in S : y = s[1] \/ <<s[1], y>> \in before
  <2> TAKE y \in S
  <2>1. PICK n \in 1..size : s[n] = y
    BY <1>1
  <2>2. n = 1 \/ 1 < n
    BY <1>1
  <2>. QED
    BY <1>1, <1>2, <2>1, <2>2
<1>4. s[1] \in S
  BY <1>1, <1>2
<1>. QED
  BY <1>3, <1>4

\* The rows of the log are of one of three kinds and finitely many.
LEMMA LogType ==
  ASSUME PlaybackCall
  PROVE  /\ IsFiniteSet(DOMAIN request.log) /\ DOMAIN request.log \in SUBSET Nat
         /\ \A i \in DOMAIN request.log :
               /\ request.log[i].t \in Nat /\ request.log[i].score \in Nat
               /\ request.log[i].kind \in {"event", "detection", "risk"}
<1> DEFINE log == request.log
           Row == [kind : {"event", "detection", "risk"}, asset : Int, t : Nat, score : Nat]
           n == Len(log)
<1>1. log \in Seq(Row)
  BY PlaybacksAssumption DEF PlaybackCall
<1>2. n \in Nat /\ DOMAIN log = 1..n /\ \A i \in 1..n : log[i] \in Row
  <2> HIDE DEF log, Row
  <2>. QED
    BY <1>1
<1>3. IsFiniteSet(1..n)
  <2>1. 1 \in Int /\ n \in Int
    BY <1>2
  <2> HIDE DEF n
  <2> DEFINE one == 1
  <2>2. one \in Int
    OBVIOUS
  <2> HIDE DEF one
  <2>3. IsFiniteSet(one..n)
    BY <2>1, <2>2, FS_Interval, Zenon
  <2>. QED
    BY <2>3 DEF one
<1>. QED
  BY <1>2, <1>3

\* The order in which the database returns the scores.
LEMMA EarlierIsTotal ==
  ASSUME PlaybackCall, NEW S \in SUBSET DOMAIN request.log
  PROVE  TotalOrder(S, {p \in S \X S : Earlier(p[1], p[2])})
<1> DEFINE before == {p \in S \X S : Earlier(p[1], p[2])}
<1>1. \A i \in S : i \in Nat /\ request.log[i].t \in Nat
  BY LogType
<1>2. \A i, j \in S : <<i, j>> \in before <=> Earlier(i, j)
  OBVIOUS
<1>3. \A i, j \in S : i # j => Earlier(i, j) \/ Earlier(j, i)
  BY <1>1 DEF Earlier
<1>4. \A i \in S : ~Earlier(i, i)
  BY <1>1 DEF Earlier
<1>5. \A i, j, k \in S : Earlier(i, j) /\ Earlier(j, k) => Earlier(i, k)
  BY <1>1 DEF Earlier
<1> HIDE DEF before
<1>6. TotalOrder(S, before)
  BY <1>2, <1>3, <1>4, <1>5 DEF TotalOrder
<1>. QED
  BY <1>6 DEF before

\* The order in which playback shows what happened.
LEMMA ShownBeforeIsTotal ==
  ASSUME PlaybackCall, NEW S \in SUBSET DOMAIN request.log
  PROVE  TotalOrder(S, {p \in S \X S : ShownBefore(p[1], p[2])})
<1> DEFINE before == {p \in S \X S : ShownBefore(p[1], p[2])}
           rank(i) == Rank[request.log[i].kind]
           t(i) == request.log[i].t
<1>1. \A i \in S : i \in Nat /\ t(i) \in Nat /\ rank(i) \in Nat
  <2> TAKE i \in S
  <2>1. i \in Nat /\ t(i) \in Nat /\ request.log[i].kind \in {"event", "detection", "risk"}
    BY LogType
  <2>2. \A k \in {"event", "detection", "risk"} : Rank[k] \in Nat
    BY DEF Rank
  <2>. QED
    BY <2>1, <2>2
<1>2. \A i, j \in S : <<i, j>> \in before <=> ShownBefore(i, j)
  OBVIOUS
<1>3. \A i, j \in S : request.log[i].kind = request.log[j].kind <=> rank(i) = rank(j)
  <2> TAKE i \in S, j \in S
  <2>1. /\ request.log[i].kind \in {"event", "detection", "risk"}
        /\ request.log[j].kind \in {"event", "detection", "risk"}
    BY LogType
  <2>2. \A k, l \in {"event", "detection", "risk"} : Rank[k] = Rank[l] => k = l
    BY DEF Rank
  <2>. QED
    BY <2>1, <2>2
<1>4. \A i, j \in S :
         ShownBefore(i, j) <=> \/ t(i) < t(j)
                               \/ t(i) = t(j) /\ rank(i) < rank(j)
                               \/ t(i) = t(j) /\ rank(i) = rank(j) /\ i < j
  BY <1>3 DEF ShownBefore
<1> HIDE DEF before, rank, t
<1>5. \A i, j \in S : i # j => ShownBefore(i, j) \/ ShownBefore(j, i)
  BY <1>1, <1>4
<1>6. \A i \in S : ~ShownBefore(i, i)
  BY <1>1, <1>4
<1>7. \A i, j, k \in S : ShownBefore(i, j) /\ ShownBefore(j, k) => ShownBefore(i, k)
  BY <1>1, <1>4
<1>8. TotalOrder(S, before)
  BY <1>2, <1>5, <1>6, <1>7 DEF TotalOrder
<1>. QED
  BY <1>8 DEF before

\* High scores are rows of the log; finitely many.
LEMMA HighType ==
  ASSUME PlaybackCall
  PROVE  High \in SUBSET DOMAIN request.log /\ IsFiniteSet(High)
<1>1. High \in SUBSET DOMAIN request.log
  BY DEF High, Recent
<1>2. IsFiniteSet(DOMAIN request.log)
  BY LogType
<1>. QED
  BY <1>1, <1>2, FS_Subset, Zenon

\* A high score that is not read has RiskLimit others before it.
LEMMA ReadScoresAreOldest ==
  ASSUME PlaybackCall
  PROVE  /\ ReadScores \in SUBSET High
         /\ \A r \in High \ ReadScores :
               Cardinality({o \in High \ {r} : request.log[o].t <= request.log[r].t}) >= RiskLimit
<1> DEFINE before == {p \in High \X High : Earlier(p[1], p[2])}
           high == InOrder(High, before)
           n == Cardinality(High)
           m == Min({RiskLimit, n})
<1>1. TotalOrder(High, before) /\ High \in SUBSET DOMAIN request.log /\ IsFiniteSet(High)
  BY HighType, EarlierIsTotal
<1>2. ReadScores = {high[k] : k \in 1..m}
  BY DEF ReadScores
<1>3. \A i, j : <<i, j>> \in before => Earlier(i, j)
  OBVIOUS
<1> HIDE DEF before
<1>4. /\ n \in Nat
      /\ high \in [1..n -> High]
      /\ \A x \in High : \E k \in 1..n : high[k] = x
      /\ \A k, l \in 1..n : k < l => <<high[k], high[l]>> \in before
      /\ \A k, l \in 1..n : high[k] = high[l] => k = l
  BY <1>1, InOrderSorts
<1> HIDE DEF high, n
<1>5. m \in {RiskLimit, n} /\ m <= n /\ RiskLimit \in Nat /\ m \in Nat
  <2>1. RiskLimit \in Nat
    BY FramesAssumption
  <2>2. RiskLimit \in Int /\ n \in Int
    BY <2>1, <1>4
  <2>3. m \in {RiskLimit, n} /\ m <= n
    BY <2>2, TwoNumbers
  <2> HIDE DEF m
  <2>. QED
    BY <2>1, <2>3, <1>4
<1> HIDE DEF m
<1>6. ReadScores \in SUBSET High
  BY <1>2, <1>4, <1>5
<1>7. ASSUME NEW r \in High \ ReadScores
      PROVE  Cardinality({o \in High \ {r} : request.log[o].t <= request.log[r].t}) >= RiskLimit
  <2> DEFINE O == {o \in High \ {r} : request.log[o].t <= request.log[r].t}
             first == 1..RiskLimit
             f == [k \in first |-> high[k]]
  <2>1. PICK x \in 1..n : high[x] = r
    BY <1>4
  <2>2. m < x
    BY <1>2, <1>4, <1>5, <2>1
  <2>3. m = RiskLimit
    BY <1>4, <1>5, <2>2
  <2>4. \A k \in first : k \in 1..n /\ k < x
    BY <1>4, <1>5, <2>2, <2>3
  <2>5. \A k \in first : high[k] \in O
    <3> TAKE k \in first
    <3>1. Earlier(high[k], r) /\ high[k] \in High /\ high[k] # r
      <4>1. k \in 1..n /\ k < x /\ k # x
        BY <1>4, <2>4
      <4>2. <<high[k], high[x]>> \in before
        BY <1>4, <4>1
      <4>3. high[k] \in High /\ high[k] # high[x]
        BY <1>4, <4>1
      <4>. QED
        BY <1>3, <2>1, <4>2, <4>3
    <3>2. request.log[high[k]].t \in Nat /\ request.log[r].t \in Nat
      BY <1>1, <3>1, LogType
    <3>3. request.log[high[k]].t <= request.log[r].t
      BY <3>1, <3>2 DEF Earlier
    <3>. QED
      BY <3>1, <3>3
  <2>6. IsFiniteSet(O)
    <3>1. O \in SUBSET High
      OBVIOUS
    <3>. QED
      BY <1>1, <3>1, FS_Subset, Zenon
  <2>7. f \in [first -> O] /\ \A k, l \in first : f[k] = f[l] => k = l
    BY <1>4, <2>4, <2>5
  <2> HIDE DEF f, O
  <2>8. f \in Injection(first, O)
    BY <2>7, Fun_IsInj, Zenon
  <2>9. IsFiniteSet(first) /\ Cardinality(first) <= Cardinality(O)
    BY <2>6, <2>8, FS_Injection, Zenon
  <2>10. Cardinality(first) = RiskLimit /\ Cardinality(O) \in Nat
    <3> DEFINE a == 1
    <3>1. a \in Int /\ RiskLimit \in Int
      BY <1>5
    <3> HIDE DEF a
    <3>2. Cardinality(a..RiskLimit) = IF a > RiskLimit THEN 0 ELSE RiskLimit - a + 1
      BY <3>1, FS_Interval, Zenon
    <3>3. Cardinality(O) \in Nat
      BY <2>6, FS_CardinalityType, Zenon
    <3>. QED
      BY <1>5, <3>2, <3>3 DEF a
  <2>. QED
    BY <1>5, <2>9, <2>10 DEF O
<1>. QED
  BY <1>6, <1>7

\* One of an asset's scores of a minute is a jump: the first that is read.
LEMMA JumpsAreFirst ==
  ASSUME PlaybackCall
  PROVE  /\ Jumps \in SUBSET High
         /\ \A i, j \in Jumps : SameMinute(i, j) => i = j
         /\ \A r \in ReadScores :
               request.log[r].asset \in Assets =>
                 \E e \in Jumps : SameMinute(e, r) /\ request.log[e].t <= request.log[r].t
<1> DEFINE log == request.log
<1>1. ReadScores \in SUBSET High /\ High \in SUBSET DOMAIN log /\ IsFiniteSet(High)
  BY ReadScoresAreOldest, HighType
<1>2. \A i \in ReadScores : i \in Nat /\ log[i].t \in Nat
  BY <1>1, LogType
<1>3. Jumps \in SUBSET ReadScores
  BY DEF Jumps
<1>4. ASSUME NEW i \in Jumps, NEW j \in Jumps, SameMinute(i, j)
      PROVE  i = j
  <2>1. i \in ReadScores /\ j \in ReadScores /\ SameMinute(j, i)
    BY <1>3, <1>4 DEF SameMinute
  <2>2. ~Earlier(i, j) /\ ~Earlier(j, i)
    BY <1>4, <2>1 DEF Jumps
  <2>. QED
    BY <1>2, <2>1, <2>2 DEF Earlier
<1>5. ASSUME NEW r \in ReadScores, log[r].asset \in Assets
      PROVE  \E e \in Jumps : SameMinute(e, r) /\ log[e].t <= log[r].t
  <2> DEFINE M == {j \in ReadScores : SameMinute(j, r)}
             before == {p \in M \X M : Earlier(p[1], p[2])}
  <2>1. M \in SUBSET DOMAIN log /\ M \in SUBSET High /\ M \in SUBSET ReadScores
    BY <1>1
  <2>2. TotalOrder(M, before)
    BY <2>1, EarlierIsTotal
  <2>3. r \in M
    BY DEF SameMinute
  <2>4. \A i, j : <<i, j>> \in before => Earlier(i, j)
    OBVIOUS
  <2>5. \A j \in ReadScores : j \in M <=> SameMinute(j, r)
    OBVIOUS
  <2> HIDE DEF M, before
  <2>6. IsFiniteSet(M)
    BY <1>1, <2>1, FS_Subset, Zenon
  <2>7. PICK e \in M : \A y \in M : y = e \/ <<e, y>> \in before
    BY <2>2, <2>3, <2>6, FirstOf
  <2>8. e \in ReadScores /\ SameMinute(e, r)
    BY <2>1, <2>5
  <2>9. log[e].t <= log[r].t
    <3>1. r = e \/ Earlier(e, r)
      BY <2>3, <2>4, <2>7
    <3>2. log[e].t \in Nat /\ log[r].t \in Nat
      BY <1>2, <2>8
    <3>. QED
      BY <3>1, <3>2 DEF Earlier
  <2>10. log[e].asset \in Assets
    BY <1>5, <2>8 DEF SameMinute
  <2>11. \A j \in ReadScores : Earlier(j, e) => ~SameMinute(j, e)
    <3> SUFFICES ASSUME NEW j \in ReadScores, Earlier(j, e), SameMinute(j, e) PROVE FALSE
      OBVIOUS
    <3>1. j \in M
      BY <2>5, <2>8 DEF SameMinute
    <3>2. j = e \/ Earlier(e, j)
      BY <2>4, <2>7, <3>1
    <3>3. j \in Nat /\ e \in Nat /\ log[j].t \in Nat /\ log[e].t \in Nat
      BY <1>2, <2>8
    <3>. QED
      BY <3>2, <3>3 DEF Earlier
  <2>12. e \in Jumps
    BY <2>8, <2>10, <2>11 DEF Jumps
  <2>. QED
    BY <2>8, <2>9, <2>12
<1>. QED
  BY <1>1, <1>3, <1>4, <1>5

\* What playback shows as having happened.
ShownRows == Recent("event") \cup Recent("detection") \cup Jumps

\* It is shown in order, each once.
LEMMA HappeningsInOrder ==
  ASSUME PlaybackCall
  PROVE  LET n == Cardinality(ShownRows)
         IN /\ DOMAIN Happenings = 1..n
            /\ {e.id : e \in Range(Happenings)} = ShownRows
            /\ \A i, j \in 1..n : Happenings[i].id = Happenings[j].id => i = j
            /\ \A i, j \in 1..n :
                  i < j => request.log[Happenings[i].id].t <= request.log[Happenings[j].id].t
<1> DEFINE S == ShownRows
           log == request.log
           before == {p \in S \X S : ShownBefore(p[1], p[2])}
           ordered == InOrder(S, before)
           n == Cardinality(S)
<1>1. S \in SUBSET DOMAIN log /\ IsFiniteSet(S)
  <2>1. Jumps \in SUBSET DOMAIN log
    BY JumpsAreFirst, HighType
  <2>2. S \in SUBSET DOMAIN log
    BY <2>1 DEF ShownRows, Recent
  <2>3. IsFiniteSet(DOMAIN log)
    BY LogType
  <2> HIDE DEF S
  <2>. QED
    BY <2>2, <2>3, FS_Subset, Zenon
<1>2. Happenings = [k \in DOMAIN ordered |->
                      [id |-> ordered[k], truck |-> parent_truck(log[ordered[k]].asset)]]
  BY DEF Happenings, ShownRows
<1> HIDE DEF S
<1>3. TotalOrder(S, before)
  BY <1>1, ShownBeforeIsTotal
<1>4. \A i, j : <<i, j>> \in before => ShownBefore(i, j)
  OBVIOUS
<1> HIDE DEF before
<1>5. /\ n \in Nat
      /\ ordered \in [1..n -> S]
      /\ \A x \in S : \E k \in 1..n : ordered[k] = x
      /\ \A k, l \in 1..n : k < l => <<ordered[k], ordered[l]>> \in before
      /\ \A k, l \in 1..n : ordered[k] = ordered[l] => k = l
  BY <1>1, <1>3, InOrderSorts
<1> HIDE DEF ordered, n
<1>6. DOMAIN Happenings = 1..n /\ \A k \in 1..n : Happenings[k].id = ordered[k]
  BY <1>2, <1>5
<1>7. {e.id : e \in Range(Happenings)} = S
  BY <1>5, <1>6 DEF Range
<1>8. \A i, j \in 1..n : i < j => log[ordered[i]].t <= log[ordered[j]].t
  <2> SUFFICES ASSUME NEW i \in 1..n, NEW j \in 1..n, i < j
               PROVE  log[ordered[i]].t <= log[ordered[j]].t
    OBVIOUS
  <2>1. ShownBefore(ordered[i], ordered[j])
    BY <1>4, <1>5
  <2>2. ordered[i] \in DOMAIN log /\ ordered[j] \in DOMAIN log
    BY <1>1, <1>5
  <2>3. log[ordered[i]].t \in Nat /\ log[ordered[j]].t \in Nat
    BY <2>2, LogType
  <2>. QED
    BY <2>1, <2>3 DEF ShownBefore
<1>. QED
  BY <1>5, <1>6, <1>7, <1>8 DEF n, S

\* The answer of playback tells what happened, each thing once.
LEMMA PlaybackTellsAll ==
  ASSUME request \in Requests, Playback
  PROVE  EventsComplete'
<1>1. PlaybackCall /\ request' = request
  BY DEF Playback, PlaybackCall
<1>2. answer'.events = Happenings
  BY DEF Playback
<1> DEFINE log == request.log
           events == Happenings
           shown == {e.id : e \in Range(events)}
           Goal == /\ \A i, j \in DOMAIN events :
                        /\ events[i].id = events[j].id => i = j
                        /\ i < j => log[events[i].id].t <= log[events[j].id].t
                   /\ Recent("event") \cup Recent("detection") \subseteq shown
                   /\ shown \ High \subseteq Recent("event") \cup Recent("detection")
                   /\ \A i, j \in shown \cap High : SameMinute(i, j) => i = j
                   /\ \A r \in High :
                        \/ \E e \in shown \cap High : SameMinute(e, r) /\ log[e].t <= log[r].t
                        \/ log[r].asset \notin Assets
                        \/ Cardinality({o \in High \ {r} : log[o].t <= log[r].t}) >= RiskLimit
<1>3. /\ \A kind : Recent(kind)' = Recent(kind)
      /\ High' = High /\ Assets' = Assets
      /\ \A i, j : SameMinute(i, j)' <=> SameMinute(i, j)
  BY <1>1 DEF Recent, High, Assets, SameMinute
<1>4. Goal => EventsComplete'
  BY <1>1, <1>2, <1>3 DEF EventsComplete
<1>5. shown = ShownRows
  BY <1>1, HappeningsInOrder
<1>6. \A i, j \in DOMAIN events :
         /\ events[i].id = events[j].id => i = j
         /\ i < j => log[events[i].id].t <= log[events[j].id].t
  BY <1>1, HappeningsInOrder
<1> HIDE DEF events, shown
<1>7. shown = Recent("event") \cup Recent("detection") \cup Jumps
  BY <1>5 DEF ShownRows
<1>8. Jumps \in SUBSET High
  BY <1>1, JumpsAreFirst
<1>9. shown \cap High = Jumps
  <2>1. \A i \in High : request.log[i].kind = "risk"
    BY DEF High, Recent
  <2>2. \A i \in Recent("event") \cup Recent("detection") : request.log[i].kind # "risk"
    BY DEF Recent
  <2>. QED
    BY <1>7, <1>8, <2>1, <2>2
<1>10. \A i, j \in shown \cap High : SameMinute(i, j) => i = j
  BY <1>1, <1>9, JumpsAreFirst
<1>11. ASSUME NEW r \in High
       PROVE  \/ \E e \in shown \cap High : SameMinute(e, r) /\ log[e].t <= log[r].t
              \/ log[r].asset \notin Assets
              \/ Cardinality({o \in High \ {r} : log[o].t <= log[r].t}) >= RiskLimit
  <2>1. CASE r \in ReadScores
    BY <1>1, <1>9, <2>1, JumpsAreFirst
  <2>2. CASE r \notin ReadScores
    BY <1>1, <2>2, ReadScoresAreOldest
  <2>. QED
    BY <2>1, <2>2
<1>12. Goal
  BY <1>6, <1>7, <1>8, <1>10, <1>11
<1>. QED
  BY <1>4, <1>12

-----------------------------------------------------------------------------
(* The timeline: risk.                                                     *)

\* A call of the timeline.
TimelineCall == request \in Requests /\ request.kind = "timeline"

\* The minute a timeline begins in.
FirstMinute == MinuteOf(Cutoff)

\* The minutes of a timeline follow one another, the one of the call last.
LEMMA MinutesFollow ==
  ASSUME TimelineCall
  PROVE  /\ Cutoff \in Int /\ FirstMinute \in Int /\ MinuteOf(request.now) \in Int
         /\ FirstMinute <= MinuteOf(request.now)
         /\ Minutes = FirstMinute .. MinuteOf(request.now)
         /\ Cardinality(Minutes) = MinuteOf(request.now) - FirstMinute + 1
         /\ Cardinality(Minutes) \in Nat
<1> DEFINE lo == FirstMinute
           hi == MinuteOf(request.now)
           cut == Cutoff
           w == Minute
<1>1. request.now \in Nat /\ request.window \in Nat /\ w \in Nat \ {0}
  BY TimelinesAssumption, FramesAssumption DEF TimelineCall
<1>2. cut \in Int /\ cut <= request.now
  <2>1. PICK x \in Nat : x = w * request.window
    BY <1>1
  <2>2. cut = request.now - x
    BY <2>1 DEF Cutoff
  <2> HIDE DEF cut
  <2>. QED
    BY <1>1, <2>1, <2>2
<1>3. lo = cut \div w /\ hi = request.now \div w
  BY DEF FirstMinute, MinuteOf
<1> HIDE DEF cut, lo, hi, w
<1>4. lo \in Int /\ hi \in Int /\ lo <= hi
  <2>1. request.now \in Int
    BY <1>1
  <2> DEFINE now == request.now
  <2>2. now \in Int /\ cut <= now
    BY <1>2, <2>1
  <2> HIDE DEF now
  <2>3. cut \div w \in Int /\ now \div w \in Int /\ cut \div w <= now \div w
    BY <1>1, <1>2, <2>2, QuotientRises
  <2>. QED
    BY <1>3, <2>3 DEF now
<1>5. Cardinality(lo..hi) = IF lo > hi THEN 0 ELSE hi - lo + 1
  BY <1>4, FS_Interval, Zenon
<1>6. Minutes = lo..hi
  BY DEF Minutes, lo, hi, FirstMinute
<1>7. Cardinality(Minutes) = hi - lo + 1 /\ hi - lo + 1 \in Nat
  BY <1>4, <1>5, <1>6
<1>. QED
  BY <1>2, <1>4, <1>6, <1>7 DEF cut, lo, hi

\* What a timeline shows of an asset's risk in a minute.
ShownRisk(a, minute) ==
    LET until == {m \in FirstMinute..minute : Average(a, m) > 0}
    IN IF until = {} THEN 0 ELSE Average(a, Max(until))

\* The series of an asset carries its last average forward.
LEMMA SeriesIsShownRisk ==
  ASSUME TimelineCall, NEW a
  PROVE  /\ DOMAIN Series(a) = 1..Cardinality(Minutes)
         /\ \A i \in 1..Cardinality(Minutes) :
               Series(a)[i] = ShownRisk(a, FirstMinute + i - 1)
<1> DEFINE n == Cardinality(Minutes)
           lo == FirstMinute
           at(j) == Average(a, lo + j - 1)
           K == {j \in 1..n : at(j) > 0}
           known == [j \in K |-> at(j)]
           shown == CarryForward(n, known, 0)
<1>1. n \in Nat /\ lo \in Int
  BY MinutesFollow
<1>2. Series(a) = shown
  BY DEF Series, FirstMinute
<1>3. K \in SUBSET (1..n) /\ DOMAIN known = K /\ \A j \in K : known[j] = at(j) /\ at(j) > 0
  OBVIOUS
<1>4. \A j \in 1..n : at(j) > 0 => j \in K
  OBVIOUS
<1> HIDE DEF n, lo, K, known, at
<1> DEFINE zero == 0
           carried == CarryForward(n, known, zero)
<1> HIDE DEF zero
<1>5. /\ DOMAIN carried = 1..n
      /\ \A i \in 1..n :
           /\ (\A j \in DOMAIN known : i < j) => carried[i] = zero
           /\ \A j \in DOMAIN known :
                (j <= i /\ \A k \in DOMAIN known : k <= i => k <= j) => carried[i] = known[j]
  <2>1. DOMAIN known \subseteq 1..n
    BY <1>3
  <2>. QED
    BY <1>1, <2>1, CarryForwardShowsLatest
<1>6. shown = carried
  BY DEF zero
<1> HIDE DEF carried, shown
<1>a. \A j \in K : j \in 1..n
  BY <1>3
<1>7. ASSUME NEW i \in 1..n PROVE shown[i] = ShownRisk(a, lo + i - 1)
  <2> DEFINE until == {m \in lo..(lo + i - 1) : Average(a, m) > 0}
  <2>1. ShownRisk(a, lo + i - 1) = IF until = {} THEN 0 ELSE Average(a, Max(until))
    BY DEF ShownRisk, lo
  <2>2. \A j \in K : j <= i => lo + j - 1 \in until
    <3> SUFFICES ASSUME NEW j \in K, j <= i PROVE lo + j - 1 \in until
      OBVIOUS
    <3>1. j \in 1..n /\ Average(a, lo + j - 1) > 0
      BY <1>3 DEF at
    <3>2. lo + j - 1 \in lo..(lo + i - 1)
      BY <1>1, <3>1
    <3>. QED
      BY <3>1, <3>2
  <2>3. CASE until = {}
    <3>1. \A j \in K : i < j
      BY <1>1, <1>a, <2>2, <2>3
    <3>2. carried[i] = zero
      BY <1>3, <1>5, <3>1
    <3>. QED
      BY <1>6, <2>1, <2>3, <3>2 DEF zero
  <2>4. CASE until # {}
    <3> DEFINE m == Max(until)
    <3>1. until \in SUBSET Int
      BY <1>1
    <3>2. IsFiniteSet(until)
      <4> DEFINE hi == lo + i - 1
                 span == lo..hi
      <4>1. hi \in Int
        BY <1>1
      <4>2. until \in SUBSET span
        OBVIOUS
      <4> HIDE DEF hi, until
      <4>3. IsFiniteSet(span)
        BY <1>1, <4>1, FS_Interval, Zenon
      <4> HIDE DEF span
      <4>. QED
        BY <4>2, <4>3, FS_Subset, Zenon
    <3>3. m \in until /\ \A x \in until : x <= m
      <4> HIDE DEF until
      <4>. QED
        BY <2>4, <3>1, <3>2, Extremes
    <3> HIDE DEF m
    <3>4. m \in lo..(lo + i - 1) /\ Average(a, m) > 0 /\ m \in Int
      BY <1>1, <3>3
    <3> DEFINE j == m - lo + 1
    <3>5. j \in 1..n /\ j <= i /\ lo + j - 1 = m
      BY <1>1, <3>4
    <3> HIDE DEF j
    <3>6. at(j) = Average(a, m)
      BY <3>5 DEF at
    <3>7. j \in K
      BY <1>4, <3>4, <3>5, <3>6
    <3>8. \A k \in K : k <= i => k <= j
      <4> SUFFICES ASSUME NEW k \in K, k <= i PROVE k <= j
        OBVIOUS
      <4>1. lo + k - 1 <= m
        BY <2>2, <3>3
      <4>. QED
        BY <1>1, <1>a, <3>4, <3>5, <4>1
    <3>9. carried[i] = known[j]
      BY <1>3, <1>5, <3>5, <3>7, <3>8
    <3>10. carried[i] = Average(a, m)
      BY <1>3, <3>6, <3>7, <3>9
    <3>. QED
      BY <1>6, <2>1, <2>4, <3>10 DEF m
  <2>. QED
    BY <2>3, <2>4
<1>8. DOMAIN shown = 1..n
  BY <1>5, <1>6
<1>. QED
  BY <1>2, <1>7, <1>8 DEF lo, n

\* While the call remains, so do its minutes and what they count.
LEMMA TimelineRemains ==
  ASSUME request' = request
  PROVE  /\ Cutoff' = Cutoff /\ FirstMinute' = FirstMinute /\ Minutes' = Minutes
         /\ \A t : MinuteOf(t)' = MinuteOf(t)
         /\ MinuteOf(request.now)' = MinuteOf(request.now)
         /\ \A a, minute : Average(a, minute)' = Average(a, minute)
         /\ Scored' = Scored
         /\ \A a : LatestScore(a)' = LatestScore(a)
         /\ \A r, kind : Wanted(r, kind)' <=> Wanted(r, kind)
<1>1. Cutoff' = Cutoff
  BY DEF Cutoff
<1>2. \A t : MinuteOf(t)' = MinuteOf(t)
  BY DEF MinuteOf
<1>3. FirstMinute' = FirstMinute /\ MinuteOf(request.now)' = MinuteOf(request.now)
  BY <1>1 DEF FirstMinute, MinuteOf
<1>4. Minutes' = Minutes
  BY <1>1, <1>3 DEF Minutes, FirstMinute
<1>5. \A a, minute : Average(a, minute)' = Average(a, minute)
  BY <1>1, <1>2 DEF Average
<1>6. Scored' = Scored
  BY DEF Scored, Passes
<1>7. \A a : LatestScore(a)' = LatestScore(a)
  BY DEF LatestScore
<1>8. \A r, kind : Wanted(r, kind)' <=> Wanted(r, kind)
  BY <1>1 DEF Wanted, Passes
<1>. QED
  BY <1>1, <1>2, <1>3, <1>4, <1>5, <1>6, <1>7, <1>8

\* The answer of the timeline shows what is known, of the right assets.
LEMMA TimelineShowsLatest ==
  ASSUME request \in Requests, Timeline
  PROVE  SeriesShowLatest'
<1>1. TimelineCall /\ request' = request
  BY DEF Timeline, TimelineCall
<1>2. PICK top \in top_assets : answer'.series = [a \in top |-> Series(a)]
  BY DEF Timeline
<1>3. /\ Cutoff' = Cutoff /\ FirstMinute' = FirstMinute
      /\ \A a, minute : Average(a, minute)' = Average(a, minute)
      /\ Scored' = Scored
      /\ \A a : LatestScore(a)' = LatestScore(a)
  BY <1>1, TimelineRemains
<1>4. \A a \in top : answer'.series[a] = Series(a)
  BY <1>2
<1>5. DOMAIN answer'.series = top
  BY <1>2
<1>6. \A a \in top : \A i \in DOMAIN Series(a) : Series(a)[i] = ShownRisk(a, FirstMinute + i - 1)
  BY <1>1, SeriesIsShownRisk
<1>7. \A a \in Scored \ top, b \in top : LatestScore(a).score <= LatestScore(b).score
  BY DEF top_assets
<1>8. \A a \in DOMAIN answer'.series : \A i \in DOMAIN answer'.series[a] :
        answer'.series[a][i] = ShownRisk(a, FirstMinute + i - 1)
  BY <1>4, <1>5, <1>6
<1>9. \A a, hi : {m \in FirstMinute..hi : Average(a, m)' > 0} = {m \in FirstMinute..hi : Average(a, m) > 0}
  BY <1>3
<1>10. \A a, i : ShownRisk(a, FirstMinute + i - 1)' = ShownRisk(a, FirstMinute + i - 1)
  BY <1>3, <1>9 DEF ShownRisk
<1>11. SeriesShowLatest' <=>
         (request'.kind = "timeline" /\ answer' # None =>
           /\ \A a \in DOMAIN answer'.series : \A i \in DOMAIN answer'.series[a] :
                answer'.series[a][i] = ShownRisk(a, FirstMinute + i - 1)'
           /\ \A a \in Scored' \ DOMAIN answer'.series, b \in DOMAIN answer'.series :
                LatestScore(a)'.score <= LatestScore(b)'.score)
  BY DEF SeriesShowLatest, ShownRisk, FirstMinute
<1>12. \A a \in DOMAIN answer'.series : \A i \in DOMAIN answer'.series[a] :
          answer'.series[a][i] = ShownRisk(a, FirstMinute + i - 1)'
  BY <1>8, <1>10
<1>13. \A a \in Scored' \ DOMAIN answer'.series, b \in DOMAIN answer'.series :
          LatestScore(a)'.score <= LatestScore(b)'.score
  BY <1>3, <1>5, <1>7
<1>. QED
  BY <1>11, <1>12, <1>13

-----------------------------------------------------------------------------
(* The timeline: counts.                                                   *)

\* A running total.
LEMMA RunningTotal ==
  ASSUME NEW n \in Nat, NEW c \in [1..n -> Nat]
  PROVE  \E s : s = [i \in 0..n |-> IF i = 0 THEN 0 ELSE s[i - 1] + c[i]]
<1> DEFINE V == Nat
           step == [x \in Nat \X V |-> IF x[1] \in 1..n THEN x[2] + c[x[1]] ELSE x[2]]
<1>1. 0 \in V /\ step \in [Nat \X V -> V]
  OBVIOUS
<1>2. \A i \in 1..n, v \in V : step[<<i, v>>] = v + c[i]
  OBVIOUS
<1> DEFINE zero == 0
<1>3. zero \in V
  BY <1>1
<1> HIDE DEF step, V, zero
<1>4. PICK f : Computes(f, V, zero, step)
  BY <1>1, <1>3, Recursion
<1> DEFINE g == [i \in 0..n |-> f[i]]
<1>5. \A i \in 0..n : g[i] = IF i = 0 THEN 0 ELSE g[i - 1] + c[i]
  <2> TAKE i \in 0..n
  <2>1. CASE i # 0
    <3>1. i - 1 \in Nat /\ (i - 1) + 1 = i /\ i - 1 \in 0..n /\ i \in 1..n
      BY <2>1
    <3>2. f[i - 1] \in V /\ f[i] = step[<<i, f[i - 1]>>]
      BY <1>4, <3>1 DEF Computes
    <3>3. f[i] = f[i - 1] + c[i]
      BY <1>2, <3>1, <3>2
    <3>. QED
      BY <2>1, <3>1, <3>3
  <2>2. CASE i = 0
    BY <1>4, <2>2 DEF Computes, zero
  <2>. QED
    BY <2>1, <2>2
<1>6. g = [i \in 0..n |-> IF i = 0 THEN 0 ELSE g[i - 1] + c[i]]
  <2> DEFINE r == [i \in 0..n |-> IF i = 0 THEN 0 ELSE g[i - 1] + c[i]]
  <2>1. \A i \in 0..n : r[i] = g[i]
    BY <1>5
  <2>. QED
    BY <2>1
<1>. QED
  BY <1>6

\* The rows of a kind that the filters let through, before a minute.
RowsBefore(kind, minute) ==
    {r \in request.rows : Wanted(r, kind) /\ MinuteOf(r.t) < minute}

\* A minute adds its own rows to those before it.
LEMMA MinuteAddsItsRows ==
  ASSUME TimelineCall, NEW kind, NEW minute \in Int
  PROVE  /\ Counted(kind, minute) \in Nat
         /\ Cardinality(RowsBefore(kind, minute)) \in Nat
         /\ Cardinality(RowsBefore(kind, minute + 1)) =
              Cardinality(RowsBefore(kind, minute)) + Counted(kind, minute)
<1> DEFINE A == RowsBefore(kind, minute)
           B == {r \in request.rows : Wanted(r, kind) /\ MinuteOf(r.t) = minute}
           C == RowsBefore(kind, minute + 1)
           all == request.rows
<1>1. IsFiniteSet(all) /\ \A r \in all : r.t \in Nat
  BY TimelinesAssumption DEF TimelineCall
<1>2. \A r \in all : MinuteOf(r.t) \in Int
  <2> TAKE r \in all
  <2>1. r.t \in Int /\ Minute \in Nat \ {0}
    BY <1>1, FramesAssumption
  <2>. QED
    BY <2>1 DEF MinuteOf
<1>3. A \in SUBSET all /\ B \in SUBSET all
  BY DEF RowsBefore
<1>4. C = A \cup B
  BY <1>2 DEF RowsBefore
<1>5. A \cap B = {}
  BY <1>2 DEF RowsBefore
<1>6. Counted(kind, minute) = Cardinality(B)
  BY DEF Counted
<1> HIDE DEF A, B, C, all
<1>7. IsFiniteSet(A) /\ IsFiniteSet(B)
  BY <1>1, <1>3, FS_Subset, Zenon
<1>8. Cardinality(A \cup B) = Cardinality(A) + Cardinality(B) - Cardinality(A \cap B)
  BY <1>7, FS_Union, Zenon
<1>9. Cardinality(A) \in Nat /\ Cardinality(B) \in Nat
  BY <1>7, FS_CardinalityType, Zenon
<1>10. Cardinality(A \cap B) = 0
  <2>1. Cardinality({}) = 0
    BY FS_EmptySet
  <2>. QED
    BY <1>5, <2>1
<1>11. Cardinality(C) = Cardinality(A) + Cardinality(B)
  BY <1>4, <1>8, <1>9, <1>10
<1>. QED
  BY <1>6, <1>9, <1>11 DEF A, C

\* No row is before the first minute; by the last minute all are counted.
LEMMA RowsWithin ==
  ASSUME TimelineCall, NEW kind
  PROVE  /\ RowsBefore(kind, FirstMinute) = {}
         /\ RowsBefore(kind, FirstMinute + Cardinality(Minutes)) =
              {r \in request.rows : Wanted(r, kind) /\ MinuteOf(r.t) <= MinuteOf(request.now)}
<1> DEFINE lo == FirstMinute
           hi == MinuteOf(request.now)
<1>1. \A r \in request.rows : r.t \in Nat
  BY TimelinesAssumption DEF TimelineCall
<1>2. Minute \in Nat \ {0}
  BY FramesAssumption
<1>3. /\ Cutoff \in Int /\ lo \in Int /\ hi \in Int
      /\ Cardinality(Minutes) = hi - lo + 1
  BY MinutesFollow
<1>4. \A r \in request.rows : MinuteOf(r.t) \in Int /\ (r.t >= Cutoff => lo <= MinuteOf(r.t))
  <2> SUFFICES ASSUME NEW r \in request.rows
               PROVE  MinuteOf(r.t) \in Int /\ (r.t >= Cutoff => lo <= MinuteOf(r.t))
    OBVIOUS
  <2> DEFINE t == r.t
             cut == Cutoff
             w == Minute
  <2>1. t \in Int /\ cut \in Int /\ w \in Nat \ {0}
    BY <1>1, <1>2, <1>3
  <2> HIDE DEF t, cut, w
  <2>2. t \div w \in Int
    BY <2>1
  <2>3. cut <= t => cut \div w <= t \div w
    BY <2>1, QuotientRises
  <2>4. MinuteOf(r.t) = t \div w /\ lo = cut \div w
    BY DEF FirstMinute, MinuteOf, t, cut, w
  <2>5. r.t >= Cutoff => cut <= t
    BY <2>1 DEF t, cut
  <2>. QED
    BY <2>2, <2>3, <2>4, <2>5
<1>5. \A r \in request.rows : Wanted(r, kind) => lo <= MinuteOf(r.t)
  BY <1>4 DEF Wanted
<1> HIDE DEF lo, hi
<1>6. RowsBefore(kind, lo) = {}
  BY <1>3, <1>4, <1>5 DEF RowsBefore
<1>7. lo + Cardinality(Minutes) = hi + 1
  BY <1>3
<1>8. RowsBefore(kind, hi + 1) = {r \in request.rows : Wanted(r, kind) /\ MinuteOf(r.t) <= hi}
  BY <1>3, <1>4 DEF RowsBefore
<1>. QED
  BY <1>6, <1>7, <1>8 DEF lo, hi

\* What a running total of a kind's counts comes to.
LEMMA CountsAddUp ==
  ASSUME TimelineCall, NEW kind,
         NEW s, s = [i \in 0..Cardinality(Minutes) |->
                       IF i = 0 THEN 0 ELSE s[i - 1] + Counted(kind, FirstMinute + i - 1)]
  PROVE  s[Cardinality(Minutes)] =
           Cardinality({r \in request.rows : Wanted(r, kind) /\ MinuteOf(r.t) <= MinuteOf(request.now)})
<1> DEFINE n == Cardinality(Minutes)
           lo == FirstMinute
           before(i) == Cardinality(RowsBefore(kind, lo + i))
           bad == {i \in 0..n : s[i] # before(i)}
<1>1. n \in Nat /\ lo \in Int
  BY MinutesFollow
<1>2. s[0] = 0 /\ \A i \in 1..n : s[i] = s[i - 1] + Counted(kind, lo + i - 1)
  BY <1>1
<1>3. before(0) = 0
  <2>1. RowsBefore(kind, lo) = {} /\ lo + 0 = lo
    BY <1>1, RowsWithin
  <2>2. Cardinality({}) = 0
    BY FS_EmptySet
  <2>. QED
    BY <2>1, <2>2
<1>4. \A i \in 1..n : before(i) = before(i - 1) + Counted(kind, lo + i - 1)
  <2> TAKE i \in 1..n
  <2> DEFINE m == lo + i - 1
  <2>1. m \in Int /\ m + 1 = lo + i /\ lo + (i - 1) = m
    BY <1>1
  <2> HIDE DEF m, lo
  <2>2. Cardinality(RowsBefore(kind, m + 1)) = Cardinality(RowsBefore(kind, m)) + Counted(kind, m)
    BY <2>1, MinuteAddsItsRows
  <2>3. Counted(kind, m) = Counted(kind, lo + i - 1)
    BY DEF m
  <2>. QED
    BY <2>1, <2>2, <2>3
<1> HIDE DEF before, n, lo
<1>5. bad = {}
  <2> SUFFICES ASSUME bad # {} PROVE FALSE
    OBVIOUS
  <2>1. PICK i \in bad : \A j \in bad : i <= j
    <3>1. bad \in SUBSET Nat
      BY <1>1
    <3>. QED
      BY <3>1, LeastNatural
  <2>2. i # 0
    BY <1>2, <1>3, <2>1
  <2>3. i \in 1..n /\ i - 1 \in 0..n /\ ~(i <= i - 1)
    BY <1>1, <2>1, <2>2
  <2>4. s[i - 1] = before(i - 1)
    BY <2>1, <2>3
  <2>5. s[i] = before(i)
    BY <1>2, <1>4, <2>3, <2>4
  <2>. QED
    BY <2>1, <2>5
<1>6. s[n] = before(n)
  <2>1. n \in 0..n /\ n \notin bad
    BY <1>1, <1>5
  <2>. QED
    BY <2>1
<1>7. before(n) =
        Cardinality({r \in request.rows : Wanted(r, kind) /\ MinuteOf(r.t) <= MinuteOf(request.now)})
  BY RowsWithin DEF before, n, lo
<1>. QED
  BY <1>6, <1>7 DEF n

\* The answer of the timeline counts every row once.
LEMMA TimelineCountsOnce ==
  ASSUME request \in Requests, Timeline
  PROVE  RowsCountOnce'
<1>1. TimelineCall /\ request' = request
  BY DEF Timeline, TimelineCall
<1>2. answer'.counts = [kind \in RowKinds |-> [minute \in Minutes |-> Counted(kind, minute)]]
  BY DEF Timeline
<1>3. /\ FirstMinute' = FirstMinute /\ Minutes' = Minutes
      /\ \A t : MinuteOf(t)' = MinuteOf(t)
      /\ MinuteOf(request.now)' = MinuteOf(request.now)
      /\ \A r, kind : Wanted(r, kind)' <=> Wanted(r, kind)
  BY <1>1, TimelineRemains
<1>a. PICK n \in Nat : n = Cardinality(Minutes)
  BY <1>1, MinutesFollow
<1>4. n \in Nat /\ FirstMinute \in Int /\ Minutes = FirstMinute .. MinuteOf(request.now)
      /\ n = MinuteOf(request.now) - FirstMinute + 1 /\ MinuteOf(request.now) \in Int
  BY <1>1, <1>a, MinutesFollow
<1>5. ASSUME NEW kind \in RowKinds
      PROVE  CountedUntil(kind, n)' =
               Cardinality({r \in request.rows : Wanted(r, kind) /\ MinuteOf(r.t) <= MinuteOf(request.now)})
  <2> DEFINE c(i) == answer'.counts[kind][FirstMinute + i - 1]
             Totals(s) == s = [i \in 0..n |-> IF i = 0 THEN 0 ELSE s[i - 1] + c(i)]
             s == CHOOSE t : Totals(t)
  <2>1. \A i \in 1..n : c(i) = Counted(kind, FirstMinute + i - 1) /\ c(i) \in Nat
    <3> TAKE i \in 1..n
    <3> DEFINE m == FirstMinute + i - 1
    <3>1. m \in Minutes /\ m \in Int
      BY <1>4
    <3> HIDE DEF m
    <3>2. answer'.counts[kind][m] = Counted(kind, m)
      BY <1>2, <3>1
    <3>3. Counted(kind, m) \in Nat
      BY <1>1, <3>1, MinuteAddsItsRows
    <3>. QED
      BY <3>2, <3>3 DEF m
  <2>2. CountedUntil(kind, n)' = s[n]
    BY <1>3 DEF CountedUntil, FirstMinute
  <2> DEFINE counts == [i \in 1..n |-> c(i)]
  <2>3. counts \in [1..n -> Nat] /\ \A i \in 1..n : counts[i] = c(i)
    BY <2>1
  <2> HIDE DEF counts, c
  <2>4. PICK t : t = [i \in 0..n |-> IF i = 0 THEN 0 ELSE t[i - 1] + counts[i]]
    BY <1>4, <2>3, RunningTotal
  <2>5. Totals(t)
    <3>1. [i \in 0..n |-> IF i = 0 THEN 0 ELSE t[i - 1] + counts[i]] =
          [i \in 0..n |-> IF i = 0 THEN 0 ELSE t[i - 1] + c(i)]
      BY <1>4, <2>3
    <3>. QED
      BY <2>4, <3>1
  <2>6. Totals(s)
    <3> HIDE DEF Totals
    <3>. QED
      BY <2>5
  <2>7. s = [i \in 0..n |-> IF i = 0 THEN 0 ELSE s[i - 1] + c(i)]
    BY <2>6
  <2> HIDE DEF s, Totals
  <2>8. [i \in 0..n |-> IF i = 0 THEN 0 ELSE s[i - 1] + c(i)] =
        [i \in 0..n |-> IF i = 0 THEN 0 ELSE s[i - 1] + Counted(kind, FirstMinute + i - 1)]
    BY <1>4, <2>1
  <2>9. s = [i \in 0..Cardinality(Minutes) |->
               IF i = 0 THEN 0 ELSE s[i - 1] + Counted(kind, FirstMinute + i - 1)]
    BY <1>a, <2>7, <2>8
  <2>10. s[Cardinality(Minutes)] =
           Cardinality({r \in request.rows : Wanted(r, kind) /\ MinuteOf(r.t) <= MinuteOf(request.now)})
    BY <1>1, <2>9, CountsAddUp
  <2>. QED
    BY <1>a, <2>2, <2>10
<1>6. \A kind \in RowKinds :
        CountedUntil(kind, Cardinality(Minutes))' =
          Cardinality({r \in request.rows : Wanted(r, kind) /\ MinuteOf(r.t) <= MinuteOf(request.now)})'
  BY <1>1, <1>3, <1>5, <1>a DEF CountedUntil
<1>. QED
  BY <1>6 DEF RowsCountOnce

-----------------------------------------------------------------------------
(* An answer that is left alone remains exact.                             *)

\* A step that leaves request and answer alone changes no answer.
LEMMA FramesRemain ==
  ASSUME UNCHANGED <<request, work, answer>>, FramesShowLatest
  PROVE  FramesShowLatest'
<1>1. request' = request /\ answer' = answer
  OBVIOUS
<1>2. /\ Times' = Times /\ Trucks' = Trucks
      /\ \A truck : OfTruck(truck)' = OfTruck(truck)
      /\ \A t : Bucket(t)' = Bucket(t)
  BY <1>1, PlaybackRemains
<1> DEFINE stamps == answer.timestamps
           shows == answer.trucks
           called == request.kind = "playback" /\ answer # None
<1>3. FramesShowLatest <=>
        (called =>
           /\ \A t \in Times : \E f \in Range(stamps) : Bucket(f) = Bucket(t)
           /\ \A i, j \in DOMAIN stamps : i < j => Bucket(stamps[i]) < Bucket(stamps[j])
           /\ \A truck \in Trucks, i \in DOMAIN stamps :
                shows[truck][i] = ShownAt(truck, Bucket(stamps[i])))
  BY DEF FramesShowLatest, ShownAt, UntilBucket
<1>4. FramesShowLatest' <=>
        (called =>
           /\ \A t \in Times : \E f \in Range(stamps) : Bucket(f) = Bucket(t)
           /\ \A i, j \in DOMAIN stamps : i < j => Bucket(stamps[i]) < Bucket(stamps[j])
           /\ \A truck \in Trucks, i \in DOMAIN stamps :
                shows[truck][i] = ShownAt(truck, Bucket(stamps[i])))
  BY <1>1, <1>2 DEF FramesShowLatest, ShownAt, UntilBucket
<1>. QED
  BY <1>3, <1>4

\* Nor the events of playback.
LEMMA EventsRemain ==
  ASSUME UNCHANGED <<request, work, answer>>, EventsComplete
  PROVE  EventsComplete'
<1>1. request' = request /\ answer' = answer
  OBVIOUS
<1>2. /\ \A kind : Recent(kind)' = Recent(kind)
      /\ High' = High /\ Assets' = Assets
      /\ \A i, j : SameMinute(i, j)' <=> SameMinute(i, j)
  BY <1>1 DEF Recent, High, Assets, SameMinute
<1>. QED
  BY <1>1, <1>2 DEF EventsComplete

\* Nor the series of the timeline.
LEMMA SeriesRemain ==
  ASSUME UNCHANGED <<request, work, answer>>, SeriesShowLatest
  PROVE  SeriesShowLatest'
<1>1. request' = request /\ answer' = answer
  OBVIOUS
<1>2. /\ Cutoff' = Cutoff
      /\ \A t : MinuteOf(t)' = MinuteOf(t)
      /\ \A a, minute : Average(a, minute)' = Average(a, minute)
      /\ Scored' = Scored
      /\ \A a : LatestScore(a)' = LatestScore(a)
  BY <1>1, TimelineRemains
<1>3. MinuteOf(Cutoff)' = MinuteOf(Cutoff)
  BY <1>2 DEF MinuteOf
<1>. QED
  BY <1>1, <1>2, <1>3 DEF SeriesShowLatest

\* Nor the counts of the timeline.
LEMMA RowsRemain ==
  ASSUME UNCHANGED <<request, work, answer>>, RowsCountOnce
  PROVE  RowsCountOnce'
<1>1. request' = request /\ answer' = answer
  OBVIOUS
<1>2. /\ FirstMinute' = FirstMinute /\ Minutes' = Minutes
      /\ \A t : MinuteOf(t)' = MinuteOf(t)
      /\ MinuteOf(request.now)' = MinuteOf(request.now)
      /\ \A r, kind : Wanted(r, kind)' <=> Wanted(r, kind)
  BY <1>1, TimelineRemains
<1>3. \A kind : CountedUntil(kind, Cardinality(Minutes))' = CountedUntil(kind, Cardinality(Minutes))
  BY <1>1, <1>2 DEF CountedUntil, FirstMinute
<1>. QED
  BY <1>1, <1>2, <1>3 DEF RowsCountOnce

\* Nor a blast radius.
LEMMA BlastRemains ==
  ASSUME UNCHANGED <<request, work, answer>>, SpreadExact
  PROVE  SpreadExact'
<1>1. request' = request /\ answer' = answer /\ work' = work
  OBVIOUS
<1>2. /\ \A k : Within(k)' = WithinOf(request, k)
      /\ \A d : Ring(d)' = RingOf(request, d)
      /\ \A a, b : Linked(a, b)' <=> Joined(request, a, b)
  BY <1>1, RequestRemains
<1>3. /\ \A k : Within(k) = WithinOf(request, k)
      /\ \A d : Ring(d) = RingOf(request, d)
      /\ \A a, b : Linked(a, b) <=> Joined(request, a, b)
  BY DEF Within, WithinOf, Ring, RingOf, Linked, Joined, parent, Reached, ReachedBy, Assets, Nodes
<1>4. /\ \A k : Within(k)' = Within(k)
      /\ \A d : Ring(d)' = Ring(d)
      /\ \A a, b : Linked(a, b)' <=> Linked(a, b)
  BY <1>2, <1>3
<1>5. \A a, d : Impact(a, d)' = Impact(a, d)
  BY <1>1 DEF Impact, Unrounded, Scale
<1>. QED
  BY <1>1, <1>4, <1>5 DEF SpreadExact

-----------------------------------------------------------------------------
(* Storing the answer.                                                     *)

\* What is flushed is the first m entries; while an entry is awaited it is the
\* next, and only a reload ends it early, after the first.
Flushed(m) ==
    /\ storing.flushed = First(m)
    /\ storing.at <= Len(answer.impacted) => m = storing.at - 1
    /\ m = 0 => storing.at = 1
    /\ reloads = 0 => m = storing.at - 1

\* The answer is a list of entries; the ids the graph knows are all or none,
\* and all before the first reload.
StoreInv ==
    request.kind = "blast" =>
        /\ storing = [state |-> storing.state, at |-> storing.at, flushed |-> storing.flushed]
        /\ storing.state # "computing" => answer.impacted \in Seq(Entries(request))
        /\ storing.state = "computing" => reloads = 0
        /\ ids \in {{}, Nodes(request)} /\ reloads \in Nat
        /\ reloads = 0 => ids = Nodes(request)
        /\ storing.state = "open" =>
              /\ storing.at \in 1..(Len(answer.impacted) + 1)
              /\ \E m \in 0..Len(answer.impacted) : Flushed(m)

\* The next entry if the ids are known, else the end.
LEMMA FirstKnownIs ==
  ASSUME NEW list \in Seq(Entries(request)), NEW n \in 1..(Len(list) + 1)
  PROVE  /\ FirstKnown(list, n) \in 1..(Len(list) + 1)
         /\ ids = Nodes(request) => FirstKnown(list, n) = n
         /\ ids = {} => FirstKnown(list, n) = Len(list) + 1
<1> DEFINE end == Len(list) + 1
           known == {k \in n..Len(list) : list[k].asset \in ids}
           S == known \cup {end}
<1>1. end \in Nat /\ Len(list) \in Nat /\ n \in Nat /\ n <= end
  OBVIOUS
<1>2. S \in SUBSET (n..end) /\ S # {} /\ end \in S
  BY <1>1
<1>3. IsFiniteSet(S)
  <2>1. IsFiniteSet(n..end)
    BY <1>1, FS_Interval
  <2>. QED
    BY <1>2, <2>1, FS_Subset, Zenon
<1>4. FirstKnown(list, n) = Min(S)
  BY DEF FirstKnown
<1>5. ids = Nodes(request) => n \in S
  <2> SUFFICES ASSUME ids = Nodes(request), n # end PROVE n \in known
    BY <1>1
  <2>1. n \in 1..Len(list) /\ n \in n..Len(list)
    BY <1>1
  <2>2. list[n] \in Entries(request)
    BY <2>1
  <2>3. list[n].asset \in Nodes(request)
    BY <2>2 DEF Entries
  <2>. QED
    BY <2>1, <2>3
<1>6. ids = {} => S = {end}
  OBVIOUS
<1> HIDE DEF S, known, end
<1>7. S \in SUBSET Int
  BY <1>1, <1>2
<1>8. Min(S) \in S /\ \A x \in S : Min(S) <= x
  BY <1>2, <1>3, <1>7, Extremes
<1>9. Min(S) \in n..end
  BY <1>2, <1>8
<1>10. ids = Nodes(request) => Min(S) = n
  BY <1>1, <1>5, <1>8, <1>9
<1>11. ids = {} => Min(S) = end
  BY <1>6, <1>8
<1>12. Min(S) \in 1..end
  BY <1>1, <1>9
<1>. QED
  BY <1>4, <1>10, <1>11, <1>12 DEF end

\* First speaks of the answer alone.
LEMMA FirstRemains ==
  ASSUME answer' = answer
  PROVE  \A n : First(n)' = First(n)
BY DEF First

\* One more entry.
LEMMA FirstGrows ==
  ASSUME NEW n \in Nat
  PROVE  First(n) \cup {answer.impacted[n + 1]} = First(n + 1)
<1>1. 1..(n + 1) = (1..n) \cup {n + 1}
  OBVIOUS
<1>. QED
  BY <1>1 DEF First

\* Nothing is stored yet when the call begins.
LEMMA StoreInit ==
  ASSUME Init PROVE StoreInv /\ RowsAreHardestHit
<1>1. /\ storing = [state |-> "computing", at |-> 0, flushed |-> {}]
      /\ reloads = 0 /\ rows = {}
      /\ ids = IF request.kind = "blast" THEN Assets ELSE {}
  BY DEF Init
<1>2. Assets = Nodes(request)
  BY DEF Assets, Nodes
<1>. QED
  BY <1>1, <1>2 DEF StoreInv, RowsAreHardestHit

\* The answer is a list of entries, and the first is awaited.
LEMMA AnswerStores ==
  ASSUME request \in Requests, BlastInv, StoreInv, RowsAreHardestHit, Answer
  PROVE  StoreInv' /\ RowsAreHardestHit'
<1>1. /\ request.kind = "blast" /\ request' = request /\ storing.state = "computing"
      /\ rows' = rows /\ ids' = ids /\ reloads' = reloads
  BY DEF Answer
<1>2. Search(request, work) /\ BlastCall(request)
  BY <1>1, BlastRequest DEF BlastInv
<1>3. /\ reloads = 0 /\ ids = Nodes(request) /\ rows = {}
      /\ storing = [state |-> storing.state, at |-> storing.at, flushed |-> storing.flushed]
  BY <1>1 DEF StoreInv, RowsAreHardestHit
<1> DEFINE score == ScoreOf(request, work)
           order == InOrder(DOMAIN score, HigherFirst(DOMAIN score, score))
           list == AnswerOf(work, order)
           q == request
           w == work
<1>4. /\ answer'.impacted = list
      /\ storing' = IF request.persist
                    THEN [state |-> "open", at |-> FirstKnown(list, 1), flushed |-> {}]
                    ELSE [storing EXCEPT !.state = "answered"]
  BY AnswerSays
<1> HIDE DEF score, order, list, q, w
<1>5. list \in Seq(Entries(request))
  <2>1. /\ BlastCall(q) /\ Search(q, w) /\ score = ScoreOf(q, w)
        /\ order = InOrder(DOMAIN score, HigherFirst(DOMAIN score, score))
        /\ list = AnswerOf(w, order)
    BY <1>2 DEF score, order, list, q, w
  <2>2. /\ DOMAIN list = 1..Size(w)
        /\ \A k \in 1..Size(w) : order[k] \in 1..Size(w) /\ list[k] = At(q, w, order[k])
    BY <2>1, AnswerListsFound
  <2>3. /\ Size(w) \in Nat
        /\ \A i \in 1..Size(w) : w.impacted[i] = At(q, w, i) /\ w.impacted[i] \in Entries(q)
    BY <2>1, FoundIsDeeper
  <2>4. \A k \in 1..Size(w) : list[k] \in Entries(q)
    BY <2>2, <2>3
  <2>5. list = [k \in 1..Size(w) |-> list[k]]
    <3>1. list = [k \in DOMAIN order |-> w.impacted[order[k]]]
      BY <2>1 DEF AnswerOf
    <3>. QED
      BY <2>2, <3>1
  <2>6. list \in [1..Size(w) -> Entries(q)]
    BY <2>4, <2>5
  <2>. QED
    BY <2>3, <2>6 DEF q
<1>6. storing'.state \in {"open", "answered"}
  BY <1>3, <1>4
<1>7. RowsAreHardestHit'
  BY <1>1, <1>3, <1>6 DEF RowsAreHardestHit
<1>8. storing'.state = "open" => storing'.at = 1 /\ storing'.flushed = {}
  <2>1. 1 \in 1..(Len(list) + 1)
    BY <1>5
  <2>2. FirstKnown(list, 1) = 1
    BY <1>3, <1>5, <2>1, FirstKnownIs
  <2>. QED
    BY <1>3, <1>4, <2>2
<1>9. First(0)' = {}
  BY DEF First
<1>10. storing'.state = "open" => Flushed(0)'
  <2> SUFFICES ASSUME storing'.state = "open" PROVE Flushed(0)'
    OBVIOUS
  <2>1. storing'.at = 1 /\ storing'.flushed = First(0)'
    BY <1>8, <1>9
  <2>. QED
    BY <2>1 DEF Flushed
<1>11. 0 \in 0..Len(list) /\ 1 \in 1..(Len(list) + 1)
  BY <1>5
<1>12. storing'.state = "open" =>
          /\ storing'.at \in 1..(Len(answer'.impacted) + 1)
          /\ \E m \in 0..Len(answer'.impacted) : Flushed(m)'
  BY <1>4, <1>8, <1>10, <1>11
<1>13. StoreInv'
  <2>1. answer'.impacted \in Seq(Entries(request'))
    BY <1>1, <1>4, <1>5
  <2>2. ids' = Nodes(request') /\ reloads' = 0
    BY <1>1, <1>3
  <2>. QED
    BY <1>1, <1>3, <1>4, <1>6, <1>12, <2>1, <2>2 DEF StoreInv
<1>. QED
  BY <1>7, <1>13

\* The next row: the ids are all or none, so the entry awaited after it is the
\* next or the end.
LEMMA StoreRowStores ==
  ASSUME request.kind = "blast", StoreInv, RowsAreHardestHit, StoreRow
  PROVE  StoreInv' /\ RowsAreHardestHit'
<1> DEFINE list == answer.impacted
<1>0. PICK at, next : at = storing.at /\ next = FirstKnown(list, at + 1)
  OBVIOUS
<1>1. /\ storing.state = "open" /\ at \in DOMAIN list
      /\ storing' = [storing EXCEPT !.flushed = @ \cup {list[at]}, !.at = next]
      /\ request' = request /\ answer' = answer /\ rows' = rows
      /\ ids' = ids /\ reloads' = reloads
  BY <1>0 DEF StoreRow, storesAnswer
<1>2. /\ list \in Seq(Entries(request))
      /\ ids \in {{}, Nodes(request)} /\ reloads \in Nat
      /\ reloads = 0 => ids = Nodes(request)
      /\ rows = {}
      /\ storing = [state |-> storing.state, at |-> storing.at, flushed |-> storing.flushed]
  BY <1>1 DEF StoreInv, RowsAreHardestHit
<1>3. PICK m \in 0..Len(list) : Flushed(m)
  BY <1>1 DEF StoreInv
<1>4. Len(list) \in Nat /\ at \in 1..Len(list) /\ at + 1 \in 1..(Len(list) + 1)
  BY <1>1, <1>2
<1>5. m = at - 1 /\ storing.flushed = First(m) /\ m \in Nat /\ m + 1 = at
  BY <1>0, <1>3, <1>4 DEF Flushed
<1>6. /\ next \in 1..(Len(list) + 1)
      /\ ids = Nodes(request) => next = at + 1
      /\ ids = {} => next = Len(list) + 1
  BY <1>0, <1>2, <1>4, FirstKnownIs
<1>7. storing.flushed \cup {list[at]} = First(at)
  BY <1>5, FirstGrows
<1>8. storing' = [state |-> "open", at |-> next, flushed |-> First(at)]
  <2>1. storing' = [state |-> storing.state, at |-> next, flushed |-> storing.flushed \cup {list[at]}]
    BY <1>0, <1>1, <1>2
  <2>. QED
    BY <1>1, <1>7, <2>1
<1>9. First(at)' = First(at)
  BY <1>1, FirstRemains
<1>10. /\ next <= Len(list) => at = next - 1
       /\ at # 0
       /\ reloads = 0 => at = next - 1
  BY <1>2, <1>4, <1>6
<1>11. Flushed(at)'
  <2>1. storing'.at = next /\ storing'.flushed = First(at)'
    BY <1>8, <1>9
  <2>. QED
    BY <1>1, <1>10, <2>1 DEF Flushed
<1>12. \E k \in 0..Len(answer'.impacted) : Flushed(k)'
  <2>1. at \in 0..Len(answer'.impacted)
    BY <1>1, <1>4
  <2>. QED
    BY <1>11, <2>1
<1>13. storing'.state = "open" /\ storing'.at = next /\ answer'.impacted = list
  BY <1>1, <1>8
<1>14. RowsAreHardestHit'
  BY <1>1, <1>2, <1>13 DEF RowsAreHardestHit
<1>15. StoreInv'
  BY <1>1, <1>2, <1>6, <1>8, <1>12, <1>13 DEF StoreInv
<1>. QED
  BY <1>14, <1>15

\* The commit: what was flushed up to the end.
LEMMA CommitStores ==
  ASSUME request.kind = "blast", StoreInv, Commit
  PROVE  StoreInv' /\ RowsAreHardestHit'
<1> DEFINE list == answer.impacted
<1>1. /\ storing.state = "open" /\ storing.at \notin DOMAIN list
      /\ storing' = [storing EXCEPT !.state = "committed"] /\ rows' = storing.flushed
      /\ request' = request /\ answer' = answer /\ ids' = ids /\ reloads' = reloads
  BY DEF Commit, storesAnswer
<1>2. /\ list \in Seq(Entries(request))
      /\ storing.at \in 1..(Len(list) + 1)
      /\ storing = [state |-> storing.state, at |-> storing.at, flushed |-> storing.flushed]
  BY <1>1 DEF StoreInv
<1>3. PICK m \in 0..Len(list) : Flushed(m)
  BY <1>1 DEF StoreInv
<1>4. storing.at = Len(list) + 1 /\ Len(list) \in Nat /\ m \in Nat
  BY <1>1, <1>2
<1>5. rows' = First(m) /\ (m = 0 => Len(list) = 0) /\ (reloads = 0 => m = Len(list))
  BY <1>1, <1>3, <1>4 DEF Flushed
<1>6. storing'.state = "committed" /\ storing' = [state |-> "committed", at |-> storing.at, flushed |-> storing.flushed]
  BY <1>1, <1>2
<1>7. First(m)' = First(m)
  BY <1>1, FirstRemains
<1>8. RowsAreHardestHit'
  BY <1>1, <1>5, <1>6, <1>7 DEF RowsAreHardestHit
<1>9. StoreInv'
  BY <1>1, <1>2, <1>6 DEF StoreInv
<1>. QED
  BY <1>8, <1>9

\* A rollback and a reload of the graph store nothing; after the reload has
\* begun the entry awaited may be followed by none.
LEMMA OthersStoreNothing ==
  ASSUME request.kind = "blast", StoreInv, RowsAreHardestHit,
         RollBack \/ ClearIds \/ FillIds
  PROVE  StoreInv' /\ RowsAreHardestHit'
<1>1. /\ storing.state = "open" /\ rows' = rows
      /\ request' = request /\ answer' = answer
  BY DEF RollBack, ClearIds, FillIds, storesAnswer
<1>2. /\ rows = {} /\ answer.impacted \in Seq(Entries(request))
      /\ ids \in {{}, Nodes(request)} /\ reloads \in Nat
      /\ storing = [state |-> storing.state, at |-> storing.at, flushed |-> storing.flushed]
  BY <1>1 DEF StoreInv, RowsAreHardestHit
<1>3. CASE RollBack
  <2>1. /\ storing' = [storing EXCEPT !.state = "rolled back"] /\ ids' = ids /\ reloads' = reloads
    BY <1>3 DEF RollBack
  <2>2. storing' = [state |-> "rolled back", at |-> storing.at, flushed |-> storing.flushed]
    BY <1>2, <2>1
  <2>. QED
    BY <1>1, <1>2, <2>1, <2>2 DEF StoreInv, RowsAreHardestHit
<1>4. CASE ClearIds \/ FillIds
  <2>1. /\ storing' = storing /\ ids' \in {{}, Nodes(request)} /\ reloads' \in Nat
        /\ reloads' = 0 => reloads = 0 /\ (ids = Nodes(request) => ids' = Nodes(request))
    BY <1>2, <1>4 DEF ClearIds, FillIds, Assets, Nodes
  <2>2. \A m : Flushed(m) => Flushed(m)'
    <3>1. \A m : First(m)' = First(m)
      BY <1>1, FirstRemains
    <3>. QED
      BY <1>1, <2>1, <3>1 DEF Flushed
  <2>3. \E m \in 0..Len(answer'.impacted) : Flushed(m)'
    <3>1. PICK m \in 0..Len(answer.impacted) : Flushed(m)
      BY <1>1 DEF StoreInv
    <3>. QED
      BY <1>1, <2>2, <3>1
  <2>4. StoreInv'
    BY <1>1, <1>2, <2>1, <2>3 DEF StoreInv
  <2>5. RowsAreHardestHit'
    BY <1>1, <1>2, <2>1 DEF RowsAreHardestHit
  <2>. QED
    BY <2>4, <2>5
<1>. QED
  BY <1>3, <1>4

\* Every step keeps what is said of the storing.
LEMMA StoringStep ==
  ASSUME request \in Requests, BlastInv, StoreInv, RowsAreHardestHit, [Next]_vars
  PROVE  StoreInv' /\ RowsAreHardestHit'
<1>1. request' = request
  BY OneRequest
<1>2. CASE request.kind # "blast"
  BY <1>1, <1>2 DEF StoreInv, RowsAreHardestHit
<1>3. CASE request.kind = "blast"
  <2>1. CASE Answer
    BY <2>1, AnswerStores
  <2>2. CASE StoreRow
    BY <1>3, <2>2, StoreRowStores
  <2>3. CASE Commit
    BY <1>3, <2>3, CommitStores
  <2>4. CASE RollBack \/ ClearIds \/ FillIds
    BY <1>3, <2>4, OthersStoreNothing
  <2>5. CASE Visit \/ UNCHANGED vars
    <3>1. answer' = answer /\ UNCHANGED storeVars
      BY <2>5 DEF Visit, vars
    <3>2. \A m : Flushed(m)' <=> Flushed(m)
      BY <3>1 DEF Flushed, First, storeVars
    <3>. QED
      BY <1>1, <3>1, <3>2 DEF StoreInv, RowsAreHardestHit, First, storeVars
  <2>6. ~Timeline /\ ~Playback
    BY <1>3 DEF Timeline, Playback
  <2>. QED
    BY <2>1, <2>2, <2>3, <2>4, <2>5, <2>6 DEF Next
<1>. QED
  BY <1>2, <1>3

-----------------------------------------------------------------------------
(* The invariant and the theorems.                                         *)

\* The invariant.
IInv ==
    /\ request \in Requests
    /\ BlastInv
    /\ StoreInv
    /\ RowsAreHardestHit
    /\ SpreadExact
    /\ DashboardExact

\* A call that is not answered is not answered wrongly.
LEMMA NoAnswerYet ==
  ASSUME answer = None
  PROVE  SpreadExact /\ DashboardExact
BY DEF SpreadExact, DashboardExact, FramesShowLatest, EventsComplete, SeriesShowLatest,
       RowsCountOnce

\* The invariant holds of every call before it is answered.
LEMMA IInvInit == Init => IInv
<1> SUFFICES ASSUME Init PROVE IInv
  OBVIOUS
<1>1. request \in Requests /\ answer = None
  BY DEF Init
<1>2. BlastInv /\ StoreInv /\ RowsAreHardestHit
  BY BlastInit, StoreInit
<1>. QED
  BY <1>1, <1>2, NoAnswerYet DEF IInv

\* Every step keeps the answers exact: each of the three answering actions
\* answers exactly, and the others leave the answer alone.
LEMMA AnswersStep ==
  ASSUME IInv, [Next]_vars
  PROVE  SpreadExact' /\ DashboardExact'
<1>1. request \in Requests /\ BlastInv /\ SpreadExact /\ DashboardExact
  BY DEF IInv
<1>2. request' = request
  BY OneRequest
<1>3. CASE Visit
  <2>1. answer' = None
    BY <1>3 DEF Visit
  <2>. QED
    BY <2>1 DEF SpreadExact, DashboardExact, FramesShowLatest, EventsComplete,
                SeriesShowLatest, RowsCountOnce
<1>4. CASE Answer
  <2>1. SpreadExact'
    BY <1>1, <1>4, AnswerIsExact
  <2>2. request'.kind = "blast"
    BY <1>2, <1>4 DEF Answer
  <2>. QED
    BY <2>1, <2>2 DEF DashboardExact, FramesShowLatest, EventsComplete, SeriesShowLatest, RowsCountOnce
<1>5. CASE Timeline
  <2>1. SeriesShowLatest' /\ RowsCountOnce'
    BY <1>1, <1>5, TimelineShowsLatest, TimelineCountsOnce
  <2>2. request'.kind = "timeline"
    BY <1>2, <1>5 DEF Timeline
  <2>3. FramesShowLatest' /\ EventsComplete' /\ SpreadExact'
    BY <2>2 DEF FramesShowLatest, EventsComplete, SpreadExact
  <2>. QED
    BY <2>1, <2>3 DEF DashboardExact
<1>6. CASE Playback
  <2>1. FramesShowLatest' /\ EventsComplete'
    BY <1>1, <1>6, PlaybackShowsLatest, PlaybackTellsAll
  <2>2. request'.kind = "playback"
    BY <1>2, <1>6 DEF Playback
  <2>3. SeriesShowLatest' /\ RowsCountOnce' /\ SpreadExact'
    BY <2>2 DEF SeriesShowLatest, RowsCountOnce, SpreadExact
  <2>. QED
    BY <2>1, <2>3 DEF DashboardExact
<1>7. CASE StoreStep \/ UNCHANGED vars
  <2>0. UNCHANGED <<request, work, answer>>
    BY <1>7, StoringKeepsAnswer DEF vars
  <2>1. FramesShowLatest /\ EventsComplete /\ SeriesShowLatest /\ RowsCountOnce
    BY <1>1 DEF DashboardExact
  <2>2. FramesShowLatest' /\ EventsComplete'
    BY <2>0, <2>1, FramesRemain, EventsRemain
  <2>3. SeriesShowLatest' /\ RowsCountOnce'
    BY <2>0, <2>1, SeriesRemain, RowsRemain
  <2>4. SpreadExact'
    BY <1>1, <2>0, BlastRemains
  <2>. QED
    BY <2>2, <2>3, <2>4 DEF DashboardExact
<1>. QED
  BY <1>3, <1>4, <1>5, <1>6, <1>7 DEF Next, StoreStep

\* Every step keeps the invariant.
LEMMA IInvStep == IInv /\ [Next]_vars => IInv'
<1> SUFFICES ASSUME IInv, [Next]_vars PROVE IInv'
  OBVIOUS
<1>1. request \in Requests /\ BlastInv /\ StoreInv /\ RowsAreHardestHit
  BY DEF IInv
<1>2. request' \in Requests
  BY <1>1, OneRequest
<1>3. BlastInv'
  BY <1>1, BlastStep
<1>4. StoreInv' /\ RowsAreHardestHit'
  BY <1>1, StoringStep
<1>5. SpreadExact' /\ DashboardExact'
  BY AnswersStep
<1>. QED
  BY <1>2, <1>3, <1>4, <1>5 DEF IInv

\* What a blast radius answers is exact, and what is stored of it is a first
\* part of the sorted answer, all of it unless the graph was loaded meanwhile.
THEOREM BlastRadiusIsExact == Spec => []BlastRadiusExact
<1>1. IInv => BlastRadiusExact
  BY DEF IInv, BlastRadiusExact
<1>. QED
  BY IInvInit, IInvStep, <1>1, PTL DEF Spec

\* What playback and the timeline show is what happened.
THEOREM DashboardIsExact == Spec => []DashboardExact
<1>1. IInv => DashboardExact
  BY DEF IInv
<1>. QED
  BY IInvInit, IInvStep, <1>1, PTL DEF Spec
=============================================================================
