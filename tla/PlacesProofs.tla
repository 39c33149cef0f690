---------------------------- MODULE PlacesProofs ----------------------------
(***************************************************************************)
(* Lemmas about sets of places and their order, for sets of any size.      *)
(***************************************************************************)
EXTENDS Places, Sequences, SequenceTheorems, FiniteSetTheorems, WellFoundedInduction, TLAPS

(* A set of the first numbers is finite.                                   *)
LEMMA PlacesOf ==
    ASSUME NEW n \in Nat, NEW S \in SUBSET (1..n)
    PROVE  IsFiniteSet(S) /\ Cardinality(S) \in Nat
  <1>1. IsFiniteSet(1..n)
    BY FS_Interval
  <1>2. IsFiniteSet(S)
    BY <1>1, FS_Subset
  <1> QED BY <1>2, FS_CardinalityType

(* Ranks, when a place behind all others is added.                         *)
LEMMA RankAdded ==
    ASSUME NEW n \in Nat, NEW S \in SUBSET (1..n)
    PROVE  /\ Cardinality(S \cup {n + 1}) = Cardinality(S) + 1
           /\ RankIn(S \cup {n + 1}, n + 1) = Cardinality(S) + 1
           /\ \A i \in S : RankIn(S \cup {n + 1}, i) = RankIn(S, i)
           /\ \A i \in S : RankIn(S, i) \in 1..Cardinality(S)
  <1>1. Cardinality(S \cup {n + 1}) = Cardinality(S) + 1
    BY PlacesOf, FS_AddElement
  <1> \A j \in S : j \in Nat /\ j <= n
    OBVIOUS
  <1>2. {j \in S \cup {n + 1} : j <= n + 1} = S \cup {n + 1}
    <2>1. \A j \in S \cup {n + 1} : j <= n + 1
      OBVIOUS
    <2> QED BY <2>1, Zenon
  <1>3. ASSUME NEW i \in S PROVE {j \in S \cup {n + 1} : j <= i} = {j \in S : j <= i}
    OBVIOUS
  <1>4. ASSUME NEW i \in S PROVE RankIn(S, i) \in 1..Cardinality(S)
    <2> DEFINE T == {j \in S : j <= i}
    <2>1. T \in SUBSET S /\ i \in T /\ T \in SUBSET (1..n)
      <3>1. i <= i
        OBVIOUS
      <3> QED BY <3>1
    <2>2. Cardinality(T) <= Cardinality(S)
      BY <2>1, PlacesOf, FS_Subset
    <2>3. Cardinality(T) \in Nat /\ Cardinality(T) # 0 /\ Cardinality(S) \in Nat
      BY <2>1, PlacesOf, FS_EmptySet
    <2> QED BY <2>2, <2>3 DEF RankIn
  <1> QED BY <1>1, <1>2, <1>3, <1>4 DEF RankIn

LessThan == {xy \in Nat \X Nat : xy[1] < xy[2]}

(* Every nonempty set of naturals has a least element.                     *)
LEMMA LeastOf ==
    ASSUME NEW S, S \subseteq Nat, S # {}
    PROVE  \E x \in S : \A y \in S : x <= y
  <1>1. IsWellFoundedOn(LessThan, Nat)
    BY NatLessThanWellFounded DEF OpToRel, LessThan
  <1>2. PICK x \in S : \A y \in S : ~ (<<y, x>> \in LessThan)
    BY <1>1, WFMin
  <1>3. \A y \in S : ~ (y < x)
    BY <1>2 DEF LessThan
  <1> QED BY <1>3

(* The values of f come from a, each from the one before it by G.           *)
Iterates(f, n, S, a, G) ==
    f \in [0..n -> S] /\ f[0] = a /\ \A i \in 1..n : f[i] = G[<<f[i - 1], i>>]

(* There are such values, however many.                                     *)
LEMMA RecursiveExists ==
    ASSUME NEW n \in Nat, NEW S, NEW a \in S, NEW G \in [S \X (1..n) -> S]
    PROVE  \E f : Iterates(f, n, S, a, G)
  <1> DEFINE Goes(k, f) == f \in [0..k -> S] /\ f[0] = a /\ \A i \in 1..k : f[i] = G[<<f[i - 1], i>>]
             Bad == {k \in 0..n : ~ \E f : Goes(k, f)}
  <1>1. SUFFICES Bad = {}
    BY DEF Iterates
  <1>2. SUFFICES ASSUME Bad # {} PROVE FALSE
    OBVIOUS
  <1>3. PICK m \in Bad : \A k \in Bad : m <= k
    <2>1. Bad \subseteq Nat
      OBVIOUS
    <2> HIDE DEF Bad
    <2> QED BY <1>2, <2>1, LeastOf
  <1>4. m # 0
    <2> DEFINE f == [i \in 0..0 |-> a]
    <2>1. Goes(0, f)
      OBVIOUS
    <2> QED BY <1>3, <2>1
  <1>5. m \in 1..n /\ m - 1 \in 0..n /\ m - 1 \notin Bad
    BY <1>3, <1>4
  <1>6. PICK f : Goes(m - 1, f)
    BY <1>5
  <1> DEFINE g == [i \in 0..m |-> IF i = m THEN G[<<f[m - 1], m>>] ELSE f[i]]
  <1>7. Goes(m, g)
    <2>1. f[m - 1] \in S /\ G[<<f[m - 1], m>>] \in S
      BY <1>5, <1>6
    <2>2. ASSUME NEW i \in 0..m PROVE g[i] \in S
      <3>1. i = m \/ i \in 0..m - 1
        BY <1>5
      <3> QED BY <1>6, <2>1, <3>1
    <2>3. g[0] = a
      BY <1>5, <1>6
    <2>4. ASSUME NEW i \in 1..m PROVE g[i] = G[<<g[i - 1], i>>]
      <3>1. i - 1 \in 0..m /\ i - 1 # m /\ i \in 0..m /\ g[i - 1] = f[i - 1]
        BY <1>5
      <3>2. i = m \/ (i # m /\ i \in 1..m - 1)
        BY <1>5
      <3>3. i \in 1..m - 1 => f[i] = G[<<f[i - 1], i>>]
        BY <1>6
      <3> QED BY <3>1, <3>2, <3>3
    <2>5. g \in [0..m -> S]
      BY <2>2
    <2> HIDE DEF g
    <2> QED BY <2>3, <2>4, <2>5
  <1> QED BY <1>3, <1>7

(* Every nonempty set of the first numbers has a greatest element.         *)
LEMMA GreatestOf ==
    ASSUME NEW n \in Nat, NEW S \in SUBSET (1..n), S # {}
    PROVE  \E x \in S : \A y \in S : y <= x
  <1> DEFINE T == {n - x : x \in S}
  <1>1. T \subseteq Nat /\ T # {}
    <2>1. \A x \in S : x \in Nat /\ n - x \in Nat
      OBVIOUS
    <2> QED BY <2>1
  <1>2. PICK t \in T : \A u \in T : t <= u
    BY <1>1, LeastOf
  <1>3. PICK x \in S : t = n - x
    BY <1>2
  <1>4. \A y \in S : n - x <= n - y
    BY <1>2, <1>3
  <1>5. \A y \in S : y <= x
    BY <1>4
  <1> QED BY <1>5

IsTuple(n, u) == u = [k \in 1..n |-> u[k]]

(* A list with one element more at its end.                                *)
LEMMA OneMoreAtEnd ==
    ASSUME NEW n \in Nat, NEW u, IsTuple(n, u), NEW x, NEW v, IsTuple(n + 1, v),
           \A k \in 1..n : v[k] = u[k], v[n + 1] = x
    PROVE  v = Append(u, x)
  <1> DEFINE S == {u[k] : k \in 1..n} \cup {x}
  <1>1. u \in Seq(S) /\ Len(u) = n /\ x \in S
    BY DEF IsTuple
  <1>2. v \in Seq(S) /\ Len(v) = n + 1
    <2>1. \A k \in 1..n + 1 : k \in 1..n \/ k = n + 1
      OBVIOUS
    <2>2. \A k \in 1..n + 1 : v[k] \in S
      BY <2>1
    <2> QED BY <2>2 DEF IsTuple
  <1>3. Append(u, x) \in Seq(S) /\ Len(Append(u, x)) = n + 1
    BY <1>1
  <1>4. ASSUME NEW k \in 1..n + 1 PROVE v[k] = Append(u, x)[k]
    <2>1. CASE k \in 1..n
      BY <1>1, <2>1
    <2>2. CASE k = n + 1
      BY <1>1, <2>2
    <2>3. k \in 1..n \/ k = n + 1
      BY <1>4
    <2> QED BY <2>1, <2>2, <2>3
  <1> HIDE DEF S
  <1> QED BY <1>2, <1>3, <1>4, SeqEqual

Ranked(S) == \A k \in 1..Cardinality(S) : \E i \in S : RankIn(S, i) = k

(* Every rank is one of a place: the least bound for which it were not so  *)
(* would have a smaller one.                                               *)
LEMMA EveryRank ==
    ASSUME NEW n \in Nat, NEW S \in SUBSET (1..n)
    PROVE  Ranked(S)
  <1> DEFINE Bad == {m \in Nat : \E T \in SUBSET (1..m) : ~Ranked(T)}
  <1>1. SUFFICES ASSUME Bad # {} PROVE FALSE
    OBVIOUS
  <1>2. PICK m \in Bad : \A y \in Bad : m <= y
    BY <1>1, LeastOf
  <1>3. PICK T \in SUBSET (1..m) : ~Ranked(T)
    BY <1>2
  <1>4. m \in Nat /\ m # 0
    <2>1. m = 0 => T = {}
      BY <1>3
    <2>2. Ranked({})
      BY FS_EmptySet DEF Ranked
    <2> QED BY <1>3, <2>1, <2>2
  <1>5. m - 1 \in Nat /\ m - 1 \notin Bad
    <2>1. m - 1 \in Nat /\ ~(m <= m - 1)
      BY <1>4
    <2> QED BY <1>2, <2>1
  <1>6. \A U \in SUBSET (1..m - 1) : Ranked(U)
    BY <1>5
  <1>7. m \in T
    <2>1. m \notin T => T \in SUBSET (1..m - 1)
      BY <1>2, <1>3
    <2> QED BY <1>3, <1>6, <2>1
  <1> DEFINE U == T \ {m}
  <1>8. U \in SUBSET (1..m - 1) /\ T = U \cup {m - 1 + 1}
    BY <1>2, <1>3, <1>7
  <1>9. /\ Cardinality(T) = Cardinality(U) + 1 /\ RankIn(T, m) = Cardinality(U) + 1
        /\ \A i \in U : RankIn(T, i) = RankIn(U, i)
    <2>1. m - 1 + 1 = m
      BY <1>4
    <2>2. ASSUME NEW V \in SUBSET (1..m - 1)
          PROVE  LET W == V \cup {m - 1 + 1}
                 IN  /\ Cardinality(W) = Cardinality(V) + 1
                     /\ RankIn(W, m - 1 + 1) = Cardinality(V) + 1
                     /\ \A i \in V : RankIn(W, i) = RankIn(V, i)
      BY <1>5, RankAdded
    <2> QED BY <1>8, <2>1, <2>2
  <1>10. Cardinality(U) \in Nat /\ Ranked(U)
    BY <1>5, <1>6, <1>8, PlacesOf
  <1>11. ASSUME NEW k \in 1..Cardinality(T) PROVE \E i \in T : RankIn(T, i) = k
    <2>1. k \in 1..Cardinality(U) \/ k = Cardinality(U) + 1
      BY <1>9, <1>10
    <2>2. k \in 1..Cardinality(U) => \E i \in U : RankIn(U, i) = k
      BY <1>10 DEF Ranked
    <2> QED BY <1>7, <1>8, <1>9, <2>1, <2>2
  <1> QED BY <1>3, <1>11 DEF Ranked

(* A place behind all others comes last, and the others stay in order.     *)
LEMMA NthAdded ==
    ASSUME NEW n \in Nat, NEW S \in SUBSET (1..n)
    PROVE  /\ \A k \in 1..Cardinality(S) : /\ Nth(S, k) \in S
                                         /\ Nth(S \cup {n + 1}, k) = Nth(S, k)
           /\ Nth(S \cup {n + 1}, Cardinality(S) + 1) = n + 1
  <1> DEFINE T == S \cup {n + 1}
  <1>1. /\ RankIn(T, n + 1) = Cardinality(S) + 1 /\ Cardinality(S) \in Nat
        /\ \A i \in S : RankIn(T, i) = RankIn(S, i) /\ RankIn(S, i) \in 1..Cardinality(S)
    BY RankAdded, PlacesOf
  <1>2. ASSUME NEW k \in 1..Cardinality(S)
        PROVE  Nth(S, k) \in S /\ Nth(T, k) = Nth(S, k)
    <2>1. \E i \in S : RankIn(S, i) = k
      BY EveryRank DEF Ranked
    <2>2. Nth(S, k) \in S
      BY <2>1 DEF Nth
    <2>3. \A i : i \in T /\ RankIn(T, i) = k <=> i \in S /\ RankIn(S, i) = k
      <3>1. RankIn(T, n + 1) # k
        BY <1>1
      <3>2. \A i : i \in T <=> i \in S \/ i = n + 1
        OBVIOUS
      <3>3. n + 1 \notin S
        OBVIOUS
      <3> HIDE DEF T
      <3> QED BY <1>1, <3>1, <3>2, <3>3
    <2>4. (CHOOSE i : i \in T /\ RankIn(T, i) = k) = (CHOOSE i : i \in S /\ RankIn(S, i) = k)
      BY <2>3
    <2> QED BY <2>2, <2>4 DEF Nth
  <1>3. \A i \in T : RankIn(T, i) = Cardinality(S) + 1 => i = n + 1
    BY <1>1
  <1>4. Nth(T, Cardinality(S) + 1) = n + 1
    BY <1>1, <1>3 DEF Nth
  <1> QED BY <1>2, <1>4
(* The places of S in order are places of S, as many as S has.             *)
LEMMA OrderedType ==
    ASSUME NEW n \in Nat, NEW S \in SUBSET (1..n)
    PROVE  InOrderOf(S) \in Seq(1..n) /\ Len(InOrderOf(S)) = Cardinality(S)
  <1>1. Cardinality(S) \in Nat /\ \A k \in 1..Cardinality(S) : Nth(S, k) \in 1..n
    BY PlacesOf, NthAdded
  <1> QED BY <1>1 DEF InOrderOf

(* The first m + 1 of them are the first m and the next one.               *)
LEMMA OneMoreOf ==
    ASSUME NEW n \in Nat, NEW S \in SUBSET (1..n), NEW m \in Nat
    PROVE  [k \in 1..m + 1 |-> Nth(S, k)] = Append([k \in 1..m |-> Nth(S, k)], Nth(S, m + 1))
  <1> DEFINE u == [k \in 1..m |-> Nth(S, k)]
             v == [k \in 1..m + 1 |-> Nth(S, k)]
  <1>1. IsTuple(m, u) /\ IsTuple(m + 1, v) /\ m + 1 \in 1..m + 1
    BY DEF IsTuple
  <1>2. \A k \in 1..m : k \in 1..m + 1 /\ v[k] = u[k]
    OBVIOUS
  <1>3. v[m + 1] = Nth(S, m + 1)
    BY <1>1
  <1> HIDE DEF u, v
  <1>4. v = Append(u, Nth(S, m + 1))
    BY <1>1, <1>2, <1>3, OneMoreAtEnd
  <1> QED BY <1>4 DEF u, v

(* A place behind all others comes last.                                   *)
LEMMA OrderedAdded ==
    ASSUME NEW n \in Nat, NEW S \in SUBSET (1..n)
    PROVE  InOrderOf(S \cup {n + 1}) = Append(InOrderOf(S), n + 1)
  <1> DEFINE m == Cardinality(S)
             T == S \cup {n + 1}
  <1>1. m \in Nat /\ Cardinality(T) = m + 1 /\ n + 1 \in Nat /\ T \in SUBSET (1..n + 1)
    <2>1. m \in Nat /\ n + 1 \in Nat
      BY PlacesOf
    <2>2. Cardinality(T) = m + 1
      BY RankAdded
    <2>3. \A i \in T : i \in 1..n + 1
      OBVIOUS
    <2> QED BY <2>1, <2>2, <2>3
  <1>2. Nth(T, m + 1) = n + 1 /\ \A k \in 1..m : Nth(T, k) = Nth(S, k)
    BY NthAdded
  <1> HIDE DEF m, T
  <1>3. [k \in 1..m + 1 |-> Nth(T, k)] = Append([k \in 1..m |-> Nth(T, k)], n + 1)
    BY <1>1, <1>2, OneMoreOf
  <1>4. [k \in 1..m |-> Nth(T, k)] = [k \in 1..m |-> Nth(S, k)]
    BY <1>2
  <1> QED BY <1>1, <1>3, <1>4 DEF InOrderOf, m, T

=============================================================================
