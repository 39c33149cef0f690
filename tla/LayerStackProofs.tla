-------------------------- MODULE LayerStackProofs --------------------------
(***************************************************************************)
(* LinkLayer links what the text says, for every text that is not nested   *)
(* deeper than the stack of layers is high.                                *)
(***************************************************************************)
EXTENDS LayerStack, PlacesProofs

-----------------------------------------------------------------------------
(* Places in a text.                                                       *)

Tokens == Names \cup Items

(* The places of a token are among the first Len(s) numbers.               *)
LEMMA PlacesFinite ==
    ASSUME NEW s \in Seq(Tokens), NEW token
    PROVE  IsFiniteSet(At(s, token)) /\ Cardinality(At(s, token)) \in Nat
  <1>1. Len(s) \in Nat /\ At(s, token) \in SUBSET (1..Len(s))
    BY DEF At
  <1>2. IsFiniteSet(1..Len(s))
    BY <1>1, FS_Interval
  <1>3. IsFiniteSet(At(s, token))
    BY <1>1, <1>2, FS_Subset
  <1> QED BY <1>3, FS_CardinalityType

(* One token more is in one place more.                                    *)
LEMMA PlacesAppended ==
    ASSUME NEW s \in Seq(Tokens), NEW token \in Tokens, NEW t
    PROVE  Cardinality(At(Append(s, token), t)) =
               Cardinality(At(s, t)) + (IF t = token THEN 1 ELSE 0)
  <1>1. CASE t = token
    <2>1. At(Append(s, token), t) = At(s, t) \cup {Len(s) + 1}
      BY <1>1 DEF At
    <2>2. Len(s) + 1 \notin At(s, t)
      BY DEF At
    <2> QED BY <1>1, <2>1, <2>2, PlacesFinite, FS_AddElement
  <1>2. CASE t # token
    <2>1. At(Append(s, token), t) = At(s, t)
      BY <1>2 DEF At
    <2> QED BY <1>2, <2>1, PlacesFinite
  <1> QED BY <1>1, <1>2

(* A parenthesis leads further in or out, a name does neither.             *)
LEMMA DepthAppended ==
    ASSUME NEW s \in Seq(Tokens), NEW token \in Tokens
    PROVE  /\ Depth(s) \in Int
           /\ token = "(" => Depth(Append(s, token)) = Depth(s) + 1
           /\ token = ")" => Depth(Append(s, token)) = Depth(s) - 1
           /\ token \in Names => Depth(Append(s, token)) = Depth(s)
  <1>1. Cardinality(At(s, "(")) \in Nat /\ Cardinality(At(s, ")")) \in Nat
    BY PlacesFinite
  <1>2. /\ Cardinality(At(Append(s, token), "(")) =
             Cardinality(At(s, "(")) + (IF "(" = token THEN 1 ELSE 0)
        /\ Cardinality(At(Append(s, token), ")")) =
             Cardinality(At(s, ")")) + (IF ")" = token THEN 1 ELSE 0)
    BY PlacesAppended
  <1>3. token \in Names => token # "(" /\ token # ")"
    BY LayerStackAssumption
  <1> QED BY <1>1, <1>2, <1>3 DEF Depth

(* How deep the places of a text are does not change as it goes on.        *)
LEMMA DepthsStay ==
    ASSUME NEW s \in Seq(Tokens), NEW token \in Tokens
    PROVE  /\ \A i \in DOMAIN s : DepthAt(Append(s, token), i) = DepthAt(s, i)
           /\ DepthAt(Append(s, token), Len(s) + 1) = Depth(Append(s, token))
           /\ s # <<>> => DepthAt(s, Len(s)) = Depth(s)
  <1>1. ASSUME NEW i \in DOMAIN s PROVE SubSeq(Append(s, token), 1, i) = SubSeq(s, 1, i)
    OBVIOUS
  <1>2. SubSeq(Append(s, token), 1, Len(s) + 1) = Append(s, token)
    OBVIOUS
  <1>3. SubSeq(s, 1, Len(s)) = s
    OBVIOUS
  <1> QED BY <1>1, <1>2, <1>3 DEF DepthAt

(* Depths are numbers.                                                     *)
LEMMA DepthType ==
    ASSUME NEW s \in Seq(Tokens)
    PROVE  Depth(s) \in Int /\ \A i \in DOMAIN s : DepthAt(s, i) \in Int
  <1>1. ASSUME NEW r \in Seq(Tokens) PROVE Depth(r) \in Int
    BY PlacesFinite DEF Depth
  <1>2. ASSUME NEW i \in DOMAIN s PROVE SubSeq(s, 1, i) \in Seq(Tokens)
    OBVIOUS
  <1> QED BY <1>1, <1>2 DEF DepthAt

-----------------------------------------------------------------------------
(* A text and the same text with one token more.                           *)

LastAt(s, d, j) ==
    /\ j \in Named(s) /\ DepthAt(s, j) = d
    /\ \A k \in Named(s) : DepthAt(s, k) = d => k <= j

(* Every name in parentheses has a name they belong to.                    *)
Placed(s) == \A i \in Named(s) : DepthAt(s, i) > 0 => Outer(s, i) \in OuterOf(s, i)

Inside(s, n) == {i \in Named(s) : DepthAt(s, i) > 0 /\ s[Outer(s, i)] = n}
Situated(s, n) == {i \in Named(s) : DepthAt(s, i) > 0 /\ s[i] = n}

(* The names of the longer text.                                           *)
LEMMA NamedAppended ==
    ASSUME NEW s \in Seq(Tokens), NEW token \in Tokens
    PROVE  /\ Named(s) \in SUBSET (1..Len(s)) /\ Len(s) \in Nat
           /\ token \in Names => Named(Append(s, token)) = Named(s) \cup {Len(s) + 1}
           /\ token \notin Names => Named(Append(s, token)) = Named(s)
           /\ \A i \in DOMAIN s : Append(s, token)[i] = s[i]
           /\ Append(s, token)[Len(s) + 1] = token
  BY DEF Named

(* The last name of a depth: a name that is added is the last of its own   *)
(* depth, and no other changes.                                            *)
LEMMA LastAppended ==
    ASSUME NEW s \in Seq(Tokens), NEW token \in Tokens, NEW d \in Int, NEW j,
           LastAt(s, d, j), token \in Names => Depth(Append(s, token)) # d
    PROVE  /\ LastAt(Append(s, token), d, j)
           /\ \A k : LastAt(Append(s, token), d, k) => k = j
  <1> DEFINE r == Append(s, token)
  <1>1. /\ \A i \in Named(s) : DepthAt(r, i) = DepthAt(s, i) /\ i \in 1..Len(s)
        /\ DepthAt(r, Len(s) + 1) = Depth(r)
    BY DepthsStay, NamedAppended
  <1>2. Named(r) = Named(s) \/ (token \in Names /\ Named(r) = Named(s) \cup {Len(s) + 1})
    BY NamedAppended
  <1>3. LastAt(r, d, j)
    BY <1>1, <1>2 DEF LastAt
  <1>4. Named(r) \subseteq Int
    BY <1>1, <1>2, NamedAppended
  <1>5. ASSUME NEW k, LastAt(r, d, k) PROVE k = j
    BY <1>3, <1>4, <1>5 DEF LastAt
  <1> QED BY <1>3, <1>5

(* Where the names of the text so far stand does not change.               *)
LEMMA OutersStay ==
    ASSUME NEW s \in Seq(Tokens), NEW token \in Tokens, NEW i \in Named(s)
    PROVE  OuterOf(Append(s, token), i) = OuterOf(s, i) /\ Outer(Append(s, token), i) = Outer(s, i)
  <1> DEFINE r == Append(s, token)
  <1>1. \A j \in Named(s) : DepthAt(r, j) = DepthAt(s, j) /\ j \in 1..Len(s)
    BY DepthsStay, NamedAppended
  <1>2. \A j : j \in Named(r) /\ j < i <=> j \in Named(s) /\ j < i
    BY <1>1, NamedAppended
  <1>3. OuterOf(r, i) = OuterOf(s, i)
    BY <1>1, <1>2 DEF OuterOf
  <1> QED BY <1>3 DEF Outer

(* A name that is added stands above the last name one level further out.  *)
LEMMA OuterOfNew ==
    ASSUME NEW s \in Seq(Tokens), NEW token \in Names, NEW j,
           LastAt(s, Depth(Append(s, token)) - 1, j)
    PROVE  /\ Outer(Append(s, token), Len(s) + 1) = j
           /\ j \in OuterOf(Append(s, token), Len(s) + 1)
  <1> DEFINE r == Append(s, token)
             n == Len(s) + 1
  <1> token \in Tokens
    BY DEF Tokens
  <1>1. /\ \A i \in Named(s) : DepthAt(r, i) = DepthAt(s, i) /\ i \in 1..Len(s)
        /\ DepthAt(r, n) = Depth(r) /\ Named(r) = Named(s) \cup {n} /\ Len(s) \in Nat
    BY DepthsStay, NamedAppended
  <1>2. \A i : i \in OuterOf(r, n) <=> i \in Named(s) /\ DepthAt(s, i) = Depth(r) - 1
    BY <1>1 DEF OuterOf
  <1>3. j \in OuterOf(r, n) /\ \A k \in OuterOf(r, n) : k <= j
    BY <1>2 DEF LastAt
  <1>4. OuterOf(r, n) \subseteq Int
    BY <1>1, <1>2
  <1>5. \A i \in OuterOf(r, n) : (\A k \in OuterOf(r, n) : k <= i) => i = j
    BY <1>3, <1>4
  <1>6. Outer(r, n) = j
    BY <1>3, <1>5 DEF Outer
  <1> QED BY <1>3, <1>6

(* The names in a layer's parentheses are in order.                        *)
LEMMA UpperInOrder ==
    ASSUME NEW s, NEW n
    PROVE  UpperInText(s, n) =
               [k \in 1..Cardinality(Inside(s, n)) |-> s[Nth(Inside(s, n), k)]]
  BY DEF UpperInText, Inside, Nth, RankIn

(* Where a layer stands last.                                              *)
LEMMA UnderLast ==
    ASSUME NEW s, NEW n
    PROVE  UnderInText(s, n) =
               IF Situated(s, n) = {} THEN NoLayer
               ELSE s[Outer(s, CHOOSE i \in Situated(s, n) : \A j \in Situated(s, n) : j <= i)]
  BY DEF UnderInText, Situated

(* A token that is no name in parentheses links nothing.                   *)
LEMMA NothingLinked ==
    ASSUME NEW s \in Seq(Tokens), NEW token \in Tokens, Placed(s),
           token \in Names => Depth(Append(s, token)) <= 0
    PROVE  /\ Placed(Append(s, token))
           /\ \A n : UpperInText(Append(s, token), n) = UpperInText(s, n)
           /\ \A n : UnderInText(Append(s, token), n) = UnderInText(s, n)
  <1> DEFINE r == Append(s, token)
  <1>1. \A i \in Named(s) : /\ DepthAt(r, i) = DepthAt(s, i) /\ i \in 1..Len(s) /\ r[i] = s[i]
                           /\ OuterOf(r, i) = OuterOf(s, i) /\ Outer(r, i) = Outer(s, i)
    BY DepthsStay, NamedAppended, OutersStay
  <1>2. \A i : i \in Named(r) /\ DepthAt(r, i) > 0 <=> i \in Named(s) /\ DepthAt(s, i) > 0
    <2>1. \A i : i \in Named(r) => i \in Named(s) \/ (token \in Names /\ i = Len(s) + 1)
      BY NamedAppended
    <2>2. \A i : i \in Named(s) => i \in Named(r)
      BY NamedAppended
    <2>3. token \in Names => ~(DepthAt(r, Len(s) + 1) > 0)
      <3>1. DepthAt(r, Len(s) + 1) = Depth(r) /\ r \in Seq(Tokens)
        BY DepthsStay
      <3>2. Depth(r) \in Int
        BY <3>1, DepthType
      <3> QED BY <3>1, <3>2
    <2> QED BY <1>1, <2>1, <2>2, <2>3
  <1>3. \A i \in Named(s) : DepthAt(s, i) > 0 => Outer(s, i) \in DOMAIN s
    BY DEF Placed, OuterOf, Named
  <1>4. Placed(r)
    BY <1>1, <1>2 DEF Placed
  <1>5. ASSUME NEW n PROVE Inside(r, n) = Inside(s, n) /\ Situated(r, n) = Situated(s, n)
    <2>1. \A i \in Named(s) : DepthAt(s, i) > 0 => r[Outer(r, i)] = s[Outer(s, i)]
      BY <1>1, <1>3, NamedAppended
    <2> QED BY <1>1, <1>2, <2>1 DEF Inside, Situated
  <1>6. ASSUME NEW n PROVE UpperInText(r, n) = UpperInText(s, n)
    <2>1. Inside(s, n) \in SUBSET (1..Len(s)) /\ Len(s) \in Nat
      BY NamedAppended DEF Inside
    <2>2. \A k \in 1..Cardinality(Inside(s, n)) : Nth(Inside(s, n), k) \in Inside(s, n)
      BY <2>1, NthAdded
    <2>3. \A k \in 1..Cardinality(Inside(s, n)) : r[Nth(Inside(s, n), k)] = s[Nth(Inside(s, n), k)]
      BY <2>1, <2>2, NamedAppended
    <2>4. UpperInText(s, n) = [k \in 1..Cardinality(Inside(s, n)) |-> s[Nth(Inside(s, n), k)]]
      BY UpperInOrder
    <2>5. UpperInText(r, n) = [k \in 1..Cardinality(Inside(s, n)) |-> r[Nth(Inside(s, n), k)]]
      <3>1. Inside(r, n) = Inside(s, n)
        BY <1>5
      <3>2. UpperInText(r, n) = [k \in 1..Cardinality(Inside(r, n)) |-> r[Nth(Inside(r, n), k)]]
        BY UpperInOrder
      <3> HIDE DEF r
      <3> QED BY <3>1, <3>2
    <2> QED BY <2>3, <2>4, <2>5
  <1>7. ASSUME NEW n PROVE UnderInText(r, n) = UnderInText(s, n)
    <2> DEFINE P(S, i) == i \in S /\ \A j \in S : j <= i
               last == CHOOSE i \in Situated(s, n) : \A j \in Situated(s, n) : j <= i
    <2>1. CASE Situated(s, n) = {}
      BY <1>5, <2>1, UnderLast
    <2>2. CASE Situated(s, n) # {}
      <3>1. Situated(s, n) \in SUBSET (1..Len(s)) /\ Len(s) \in Nat
        BY NamedAppended DEF Situated
      <3>2. \E i \in Situated(s, n) : \A j \in Situated(s, n) : j <= i
        BY <2>2, <3>1, GreatestOf
      <3>3. last \in Situated(s, n)
        BY <3>2
      <3>4. Outer(r, last) = Outer(s, last) /\ Outer(s, last) \in DOMAIN s
        BY <1>1, <1>3, <3>3 DEF Situated
      <3>5. r[Outer(r, last)] = s[Outer(s, last)]
        BY <3>4, NamedAppended
      <3> QED BY <1>5, <2>2, <3>5, UnderLast
    <2> QED BY <2>1, <2>2
  <1> QED BY <1>4, <1>6, <1>7

(* A name in parentheses is linked with the last name one level out.       *)
LEMMA NameLinked ==
    ASSUME NEW s \in Seq(Tokens), NEW token \in Names, Placed(s), Depth(Append(s, token)) > 0,
           NEW j, LastAt(s, Depth(Append(s, token)) - 1, j)
    PROVE  /\ Placed(Append(s, token))
           /\ \A n : UpperInText(Append(s, token), n) =
                         IF s[j] = n THEN Append(UpperInText(s, n), token) ELSE UpperInText(s, n)
           /\ \A n : UnderInText(Append(s, token), n) =
                         IF token = n THEN s[j] ELSE UnderInText(s, n)
  <1> DEFINE r == Append(s, token)
             e == Len(s) + 1
  <1> token \in Tokens
    BY DEF Tokens
  <1>1. \A i \in Named(s) : /\ DepthAt(r, i) = DepthAt(s, i) /\ i \in 1..Len(s) /\ r[i] = s[i]
                           /\ OuterOf(r, i) = OuterOf(s, i) /\ Outer(r, i) = Outer(s, i)
    BY DepthsStay, NamedAppended, OutersStay
  <1>2. /\ Named(r) = Named(s) \cup {e} /\ Len(s) \in Nat /\ e \notin Named(s)
        /\ DepthAt(r, e) > 0 /\ r[e] = token
    BY DepthsStay, NamedAppended
  <1>3. Outer(r, e) = j /\ j \in OuterOf(r, e) /\ j \in 1..Len(s) /\ r[j] = s[j]
    BY <1>1, OuterOfNew DEF LastAt
  <1>4. \A i \in Named(s) : DepthAt(s, i) > 0 => Outer(s, i) \in DOMAIN s
    BY DEF Placed, OuterOf, Named
  <1>5. Placed(r)
    BY <1>1, <1>2, <1>3 DEF Placed
  <1>6. \A i \in Named(s) : DepthAt(s, i) > 0 => r[Outer(r, i)] = s[Outer(s, i)]
    BY <1>1, <1>4, NamedAppended
  <1>7. ASSUME NEW n
        PROVE  UpperInText(r, n) =
                 IF s[j] = n THEN Append(UpperInText(s, n), token) ELSE UpperInText(s, n)
    <2> DEFINE S == Inside(s, n)
    <2>1. S \in SUBSET (1..Len(s)) /\ Cardinality(S) \in Nat
      <3>1. S \in SUBSET (1..Len(s))
        BY NamedAppended DEF Inside
      <3> QED BY <1>2, <3>1, PlacesOf
    <2>2. \A i : i \in Inside(r, n) <=> i \in S \/ (i = e /\ s[j] = n)
      BY <1>1, <1>2, <1>3, <1>6 DEF Inside
    <2>3. /\ \A k \in 1..Cardinality(S) : Nth(S, k) \in S /\ Nth(S \cup {e}, k) = Nth(S, k)
          /\ Nth(S \cup {e}, Cardinality(S) + 1) = e /\ Cardinality(S \cup {e}) = Cardinality(S) + 1
      BY <1>2, <2>1, NthAdded, RankAdded
    <2>4. \A k \in 1..Cardinality(S) : r[Nth(S, k)] = s[Nth(S, k)]
      BY <2>1, <2>3, NamedAppended
    <2>5. UpperInText(s, n) = [k \in 1..Cardinality(S) |-> s[Nth(S, k)]]
      BY UpperInOrder
    <2>6. CASE s[j] = n
      <3>1. Inside(r, n) = S \cup {e}
        BY <2>2, <2>6
      <3>2. UpperInText(r, n) = [k \in 1..Cardinality(S) + 1 |-> r[Nth(S \cup {e}, k)]]
        BY <2>3, <3>1, UpperInOrder
      <3> DEFINE u == UpperInText(s, n)
                 v == UpperInText(r, n)
                 c == Cardinality(S)
      <3>3. IsTuple(c, u) /\ IsTuple(c + 1, v) /\ c \in Nat
        BY <2>1, <2>5, <3>2 DEF IsTuple
      <3>4. ASSUME NEW k \in 1..c PROVE v[k] = u[k]
        <4>1. k \in 1..c + 1
          BY <3>3
        <4> QED BY <2>3, <2>4, <2>5, <3>2, <4>1
      <3>5. v[c + 1] = token
        <4>1. c + 1 \in 1..c + 1
          BY <3>3
        <4> QED BY <1>2, <2>3, <3>2, <4>1
      <3> HIDE DEF u, v, c
      <3>6. v = Append(u, token)
        BY <3>3, <3>4, <3>5, OneMoreAtEnd
      <3> QED BY <2>6, <3>6 DEF u, v
    <2>7. CASE s[j] # n
      <3>1. Inside(r, n) = S
        BY <2>2, <2>7
      <3> QED BY <2>4, <2>5, <2>7, <3>1, UpperInOrder
    <2> QED BY <2>6, <2>7
  <1>8. ASSUME NEW n
        PROVE  UnderInText(r, n) = IF token = n THEN s[j] ELSE UnderInText(s, n)
    <2> DEFINE S == Situated(s, n)
    <2>1. S \in SUBSET (1..Len(s))
      BY NamedAppended DEF Situated
    <2>2. \A i : i \in Situated(r, n) <=> i \in S \/ (i = e /\ token = n)
      BY <1>1, <1>2 DEF Situated
    <2>3. CASE token = n
      <3>1. Situated(r, n) = S \cup {e}
        BY <2>2, <2>3
      <3>2. e \in S \cup {e} /\ \A i \in S \cup {e} : i <= e
        BY <1>2, <2>1
      <3>3. \A i \in S \cup {e} : (\A k \in S \cup {e} : k <= i) => i = e
        BY <1>2, <2>1, <3>2
      <3>4. (CHOOSE i \in S \cup {e} : \A k \in S \cup {e} : k <= i) = e
        BY <3>2, <3>3
      <3> QED BY <1>3, <2>3, <3>1, <3>4, UnderLast
    <2>4. CASE token # n
      <3>1. Situated(r, n) = S
        BY <2>2, <2>4
      <3>2. CASE S = {}
        BY <2>4, <3>1, <3>2, UnderLast
      <3>3. CASE S # {}
        <4> DEFINE last == CHOOSE i \in S : \A k \in S : k <= i
        <4>1. \E i \in S : \A k \in S : k <= i
          BY <1>2, <2>1, <3>3, GreatestOf
        <4>2. last \in S
          BY <4>1
        <4>3. r[Outer(r, last)] = s[Outer(s, last)]
          BY <1>6, <4>2 DEF Situated
        <4> QED BY <2>4, <3>1, <3>3, <4>3, UnderLast
      <3> QED BY <3>2, <3>3
    <2> QED BY <2>3, <2>4
  <1> QED BY <1>5, <1>7, <1>8

-----------------------------------------------------------------------------
(* The text up to its first unknown name.                                  *)

AllKnown(s) == \A i \in Named(s) : s[i] \in mp_aLayers
Unknown(s)  == {i \in Named(s) : s[i] \notin mp_aLayers}

(* As long as all names are known, it is the whole text.                   *)
LEMMA KnownText == \A s : AllKnown(s) => Known(s) = s
  <1>1. \A s : AllKnown(s) => {i \in Named(s) : s[i] \notin mp_aLayers} = {}
    BY DEF AllKnown
  <1> QED BY <1>1 DEF Known

(* The text ends before its first unknown name.                            *)
LEMMA KnownUpTo ==
    ASSUME NEW s, NEW b \in Unknown(s), \A i \in Unknown(s) : i \in Int /\ b <= i
    PROVE  Known(s) = SubSeq(s, 1, b - 1)
  <1> DEFINE bad == {i \in Named(s) : s[i] \notin mp_aLayers}
  <1>1. bad = Unknown(s) /\ bad # {}
    BY DEF Unknown
  <1>2. \A i \in bad : (\A j \in bad : i <= j) => i = b
    BY <1>1
  <1>3. (CHOOSE i \in bad : \A j \in bad : i <= j) = b
    BY <1>1, <1>2
  <1> QED BY <1>1, <1>3 DEF Known

(* What follows an unknown name adds nothing to it.                        *)
LEMMA KnownStays ==
    ASSUME NEW s \in Seq(Tokens), NEW token \in Tokens, ~AllKnown(s)
    PROVE  Known(Append(s, token)) = Known(s) /\ ~AllKnown(Append(s, token))
  <1> DEFINE r == Append(s, token)
  <1>1. Unknown(s) # {} /\ Unknown(s) \subseteq Nat
    BY NamedAppended DEF AllKnown, Unknown
  <1>2. PICK b \in Unknown(s) : \A i \in Unknown(s) : b <= i
    BY <1>1, LeastOf
  <1>3. b \in 1..Len(s) /\ Len(s) \in Nat /\ \A i \in Unknown(s) : i \in 1..Len(s)
    BY NamedAppended DEF Unknown
  <1>4. b \in Unknown(r) /\ \A i \in Unknown(r) : i \in Unknown(s) \/ i = Len(s) + 1
    BY <1>3, NamedAppended DEF Unknown
  <1>5. \A i \in Unknown(r) : i \in Int /\ b <= i
    BY <1>2, <1>3, <1>4
  <1>6. Known(r) = SubSeq(r, 1, b - 1) /\ Known(s) = SubSeq(s, 1, b - 1)
    <2>1. Known(r) = SubSeq(r, 1, b - 1)
      BY <1>4, <1>5, KnownUpTo
    <2>2. \A i \in Unknown(s) : i \in Int /\ b <= i
      BY <1>2, <1>3
    <2>3. Known(s) = SubSeq(s, 1, b - 1)
      BY <2>2, KnownUpTo
    <2> QED BY <2>1, <2>3
  <1>7. SubSeq(r, 1, b - 1) = SubSeq(s, 1, b - 1)
    BY <1>3
  <1>8. ~AllKnown(r)
    BY <1>4 DEF AllKnown, Unknown
  <1> QED BY <1>6, <1>7, <1>8

(* A name that is unknown ends the text.                                   *)
LEMMA KnownEnds ==
    ASSUME NEW s \in Seq(Tokens), NEW token \in Names, AllKnown(s), token \notin mp_aLayers
    PROVE  Known(Append(s, token)) = s /\ ~AllKnown(Append(s, token))
  <1> DEFINE r == Append(s, token)
  <1> token \in Tokens
    BY DEF Tokens
  <1>1. \A i : i \in Unknown(r) <=> i = Len(s) + 1
    BY NamedAppended DEF Unknown, AllKnown
  <1>2. Known(r) = SubSeq(r, 1, Len(s) + 1 - 1)
    <2>1. Len(s) + 1 \in Unknown(r)
      BY <1>1
    <2>2. \A i \in Unknown(r) : i \in Int /\ Len(s) + 1 <= i
      BY <1>1
    <2> DEFINE e == Len(s) + 1
    <2> HIDE DEF e, r
    <2>3. e \in Unknown(r) /\ \A i \in Unknown(r) : i \in Int /\ e <= i
      BY <2>1, <2>2 DEF e
    <2>4. Known(r) = SubSeq(r, 1, e - 1)
      BY <2>3, KnownUpTo
    <2> QED BY <2>4 DEF e
  <1>3. SubSeq(r, 1, Len(s) + 1 - 1) = s
    OBVIOUS
  <1> QED BY <1>1, <1>2, <1>3 DEF AllKnown, Unknown

(* A token that is no unknown name leaves all names known.                 *)
LEMMA KnownGrows ==
    ASSUME NEW s \in Seq(Tokens), NEW token \in Tokens, AllKnown(s),
           token \in Names => token \in mp_aLayers
    PROVE  AllKnown(Append(s, token)) /\ Known(Append(s, token)) = Append(s, token)
  <1>1. AllKnown(Append(s, token))
    BY NamedAppended DEF AllKnown
  <1> QED BY <1>1, KnownText

-----------------------------------------------------------------------------
(* The invariant.                                                          *)

Shallow == \A i \in DOMAIN list : DepthAt(list, i) <= StackSize + 1

TypeInv ==
    /\ list \in Seq(Tokens) /\ mp_aLayers \subseteq Names /\ pLayer \in mp_aLayers \cup {NoLayer}
    /\ mp_Stack \in Seq(Names) /\ upper \in [Names -> Seq(Names)]
    /\ under \in [Names -> Names \cup {NoLayer}]
    /\ phase \in {"adding", "linking"} /\ (phase = "adding" => list = <<>>)

(* Of the parentheses that are open, each has a name it belongs to.        *)
TextInv ==
    /\ Depth(list) >= 0 /\ Placed(list)
    /\ \A d \in 0..Depth(list) - 1 : \E j \in Named(list) : LastAt(list, d, j)
    /\ list # <<>> /\ Last(list) \in Names => LastAt(list, Depth(list), Len(list))

(* LinkLayer has a layer as long as the names are known, the last of them. *)
LayerInv ==
    /\ AllKnown(list) /\ list # <<>> =>
          pLayer # NoLayer /\ (Last(list) \in Names => pLayer = Last(list))
    /\ ~AllKnown(list) => pLayer = NoLayer

(* The stack holds the layers whose parentheses are open.                  *)
StackInv ==
    Shallow /\ AllKnown(list) =>
        /\ Len(mp_Stack) = Depth(list)
        /\ \A d \in 1..Depth(list) : \A j \in Named(list) : LastAt(list, d - 1, j) => mp_Stack[d] = list[j]

LinkInv == Shallow => NeverDown /\ LinkedAsWritten

Inv == TypeInv /\ TextInv /\ LayerInv /\ StackInv /\ LinkInv

(* Before a layer is added all lists are empty.                            *)
LEMMA InitInv == Init => Inv
  <1> SUFFICES ASSUME Init PROVE Inv
    OBVIOUS
  <1>1. list = <<>> /\ list \in Seq(Tokens) /\ Named(list) = {} /\ mp_Stack = <<>>
    BY DEF Init, Named
  <1>2. At(list, "(") = {} /\ At(list, ")") = {}
    BY <1>1 DEF At
  <1>3. Depth(list) = 0
    BY <1>2, FS_EmptySet DEF Depth
  <1>4. TypeInv
    BY <1>1 DEF Init, TypeInv
  <1>5. TextInv
    BY <1>1, <1>3 DEF TextInv, Placed
  <1>6. AllKnown(list) /\ LayerInv
    BY <1>1 DEF AllKnown, LayerInv
  <1>7. StackInv
    BY <1>1, <1>3 DEF StackInv
  <1>8. LinkInv
    <2>1. \A n : Inside(list, n) = {} /\ Situated(list, n) = {}
      BY <1>1 DEF Inside, Situated
    <2>2. \A n : UpperInText(list, n) = <<>>
      BY <2>1, UpperInOrder, FS_EmptySet
    <2>3. \A n : UnderInText(list, n) = NoLayer
      BY <2>1, UnderLast
    <2> QED BY <1>6, <2>2, <2>3, KnownText DEF Init, LinkInv, LinkedAsWritten, NeverDown
  <1> QED BY <1>4, <1>5, <1>6, <1>7, <1>8 DEF Inv

(* Registering layers, and ending that, comes before the text.             *)
LEMMA NoTextYet ==
    ASSUME Inv, (\E n \in Names : AddLayer(n)) \/ ConnectLayers
    PROVE  Inv'
  <1>1. /\ list = <<>> /\ UNCHANGED <<list, pLayer, mp_Stack, upper, under, down>>
        /\ mp_aLayers \subseteq mp_aLayers' /\ mp_aLayers' \subseteq Names
        /\ phase' \in {"adding", "linking"}
    BY DEF Inv, TypeInv, AddLayer, ConnectLayers
  <1>2. Named(list) = {} /\ Named(list)' = {}
    BY <1>1 DEF Named
  <1>3. TypeInv'
    BY <1>1 DEF Inv, TypeInv
  <1>4. Depth(list)' = Depth(list) /\ Placed(list)' /\ Shallow' = Shallow
    BY <1>1, <1>2 DEF Placed, Shallow
  <1>5. TextInv'
    BY <1>1, <1>2, <1>4 DEF Inv, TextInv
  <1>6. AllKnown(list) /\ AllKnown(list)'
    BY <1>2 DEF AllKnown
  <1>7. LayerInv' /\ StackInv'
    BY <1>1, <1>2, <1>4, <1>6 DEF Inv, LayerInv, StackInv
  <1>8. Known(list) = list /\ Known(list)' = list
    <2>1. Unknown(list) = {} /\ Unknown(list)' = {}
      BY <1>2 DEF Unknown
    <2> QED BY <1>1, <2>1 DEF Known, Unknown
  <1>9. LinkInv'
    BY <1>1, <1>4, <1>8 DEF Inv, LinkInv, LinkedAsWritten, NeverDown
  <1> QED BY <1>3, <1>5, <1>7, <1>9 DEF Inv

(* A text that grows was no deeper before.                                 *)
LEMMA ShallowBefore ==
    ASSUME list \in Seq(Tokens), NEW token \in Tokens, list' = Append(list, token), Shallow'
    PROVE  Shallow /\ Depth(list)' <= StackSize + 1
  <1>1. \A i \in DOMAIN list' : DepthAt(list', i) <= StackSize + 1
    BY DEF Shallow
  <1>2. /\ \A i \in DOMAIN list : i \in DOMAIN list' /\ DepthAt(list', i) = DepthAt(list, i)
        /\ Len(list) + 1 \in DOMAIN list' /\ DepthAt(list', Len(list) + 1) = Depth(list')
    BY DepthsStay
  <1> QED BY <1>1, <1>2 DEF Shallow

-----------------------------------------------------------------------------
(* A token is read.                                                        *)

(* What may come next in a text.                                           *)
LEMMA Shapes ==
    ASSUME Inv, NEW token \in Names \cup Items, LinkLayer(token)
    PROVE  /\ token \in Tokens /\ list' = Append(list, token) /\ list \in Seq(Tokens)
           /\ Depth(list) \in Nat
           /\ list = <<>> => Depth(list) = 0
           /\ token = "(" => list # <<>> /\ Last(list) \in Names
           /\ token = ")" => Depth(list) > 0
           /\ token \in Names => list = <<>> \/ Depth(list) > 0
           /\ token \in Names <=> token \notin Items
           /\ UNCHANGED <<mp_aLayers, phase>>
  <1>1. list \in Seq(Tokens) /\ token \in Tokens /\ list' = Append(list, token)
    BY DEF Inv, TypeInv, LinkLayer, Tokens
  <1>2. Depth(list) \in Nat
    BY <1>1, DepthType DEF Inv, TextInv
  <1>3. list = <<>> => Depth(list) = 0
    <2>1. list = <<>> => At(list, "(") = {} /\ At(list, ")") = {}
      BY DEF At
    <2> QED BY <2>1, FS_EmptySet DEF Depth
  <1>4. token \in Names <=> token \notin Items
    BY LayerStackAssumption DEF Items
  <1>5. /\ token = "(" => list # <<>> /\ Last(list) \in Names
        /\ token = ")" => Depth(list) > 0
        /\ token \notin {"(", ")"} => list = <<>> \/ Depth(list) > 0
    BY DEF LinkLayer, MayFollow
  <1> QED BY <1>1, <1>2, <1>3, <1>4, <1>5 DEF LinkLayer, Items

(* The parentheses that are open have their names, one token on.           *)
LEMMA TextKept ==
    ASSUME Inv, NEW token \in Names \cup Items, LinkLayer(token)
    PROVE  TextInv'
  <1>1. /\ token \in Tokens /\ list' = Append(list, token) /\ list \in Seq(Tokens)
        /\ Depth(list) \in Nat /\ Placed(list)
    <2>1. Placed(list)
      BY DEF Inv, TextInv
    <2>2. /\ token \in Tokens /\ list' = Append(list, token) /\ list \in Seq(Tokens)
          /\ Depth(list) \in Nat
      BY Shapes
    <2> QED BY <2>1, <2>2
  <1>2. /\ token = "(" => Depth(list') = Depth(list) + 1
        /\ token = ")" => Depth(list') = Depth(list) - 1
        /\ token \in Names => Depth(list') = Depth(list)
    BY <1>1, DepthAppended
  <1>3. Len(list') = Len(list) + 1 /\ Last(list') = token /\ Len(list) \in Nat
    BY <1>1 DEF Last
  <1>4. ASSUME NEW d \in 0..Depth(list) - 1, token \in Names => Depth(list') # d
        PROVE  \E j \in Named(list') : LastAt(list', d, j)
    <2>1. PICK j : LastAt(list, d, j)
      BY <1>4 DEF Inv, TextInv
    <2>2. LastAt(list', d, j)
      BY <1>1, <1>4, <2>1, LastAppended
    <2> QED BY <2>2 DEF LastAt
  <1>5. CASE token = "("
    <2>1. token \notin Names /\ LastAt(list, Depth(list), Len(list))
      BY <1>5, Shapes DEF Inv, TextInv, Items
    <2>2. LastAt(list', Depth(list), Len(list))
      BY <1>1, <2>1, LastAppended
    <2>3. \A d \in 0..Depth(list') - 1 : \E j \in Named(list') : LastAt(list', d, j)
      <3>1. \A d \in 0..Depth(list') - 1 : d \in 0..Depth(list) - 1 \/ d = Depth(list)
        BY <1>1, <1>2, <1>5
      <3> QED BY <1>4, <2>1, <2>2, <3>1 DEF LastAt
    <2>4. Placed(list')
      BY <1>1, <2>1, NothingLinked
    <2> QED BY <1>1, <1>2, <1>3, <1>5, <2>1, <2>3, <2>4 DEF TextInv
  <1>6. CASE token = ")"
    <2>1. token \notin Names /\ Depth(list) > 0
      BY <1>6, Shapes DEF Items
    <2>2. \A d \in 0..Depth(list') - 1 : \E j \in Named(list') : LastAt(list', d, j)
      <3>1. \A d \in 0..Depth(list') - 1 : d \in 0..Depth(list) - 1
        BY <1>1, <1>2, <1>6
      <3> QED BY <1>4, <2>1, <3>1
    <2>3. Placed(list')
      BY <1>1, <2>1, NothingLinked
    <2> QED BY <1>1, <1>2, <1>3, <1>6, <2>1, <2>2, <2>3 DEF TextInv
  <1>7. CASE token \in Names
    <2>1. \A d \in 0..Depth(list') - 1 : \E j \in Named(list') : LastAt(list', d, j)
      <3>1. \A d \in 0..Depth(list') - 1 : d \in 0..Depth(list) - 1 /\ Depth(list') # d
        BY <1>1, <1>2, <1>7
      <3> QED BY <1>4, <3>1
    <2>2. LastAt(list', Depth(list'), Len(list'))
      <3>1. Named(list') = Named(list) \cup {Len(list) + 1} /\ Named(list) \in SUBSET (1..Len(list))
        BY <1>1, <1>7, NamedAppended
      <3>2. DepthAt(list', Len(list) + 1) = Depth(list')
        BY <1>1, DepthsStay
      <3>3. \A k \in Named(list') : k <= Len(list) + 1
        BY <1>3, <3>1
      <3> QED BY <1>3, <3>1, <3>2, <3>3 DEF LastAt
    <2>3. Placed(list')
      <3>1. CASE list = <<>>
        <4>1. Depth(list') <= 0
          BY <1>2, <1>7, <3>1, Shapes
        <4> QED BY <1>1, <4>1, NothingLinked
      <3>2. CASE list # <<>>
        <4>1. Depth(list) > 0 /\ Depth(list') - 1 \in 0..Depth(list) - 1
          BY <1>1, <1>2, <1>7, <3>2, Shapes
        <4>2. PICK j : LastAt(list, Depth(list') - 1, j)
          BY <4>1 DEF Inv, TextInv
        <4> QED BY <1>1, <1>2, <1>7, <4>1, <4>2, NameLinked
      <3> QED BY <3>1, <3>2
    <2> QED BY <1>1, <1>2, <1>7, <2>1, <2>2, <2>3 DEF TextInv
  <1> QED BY <1>1, <1>5, <1>6, <1>7 DEF Tokens, Items

(* What reading a token does to LinkLayer's variables.                     *)
LEMMA Reads ==
    ASSUME Inv, NEW token \in Names \cup Items, LinkLayer(token)
    PROVE  /\ token \in Names => LinkName(token)
           /\ token = "(" => LinkOpen(token)
           /\ token = ")" => LinkClose(token)
  <1>1. LinkName(token) \/ LinkOpen(token) \/ LinkClose(token)
    BY DEF LinkLayer
  <1>2. token \in Names => token # "(" /\ token # ")"
    BY LayerStackAssumption
  <1> QED BY <1>1, <1>2 DEF LinkName, LinkOpen, LinkClose

(* When a name was unknown nothing is linked any more.                     *)
LEMMA NothingAfterUnknown ==
    ASSUME Inv, NEW token \in Names \cup Items, LinkLayer(token), ~AllKnown(list)
    PROVE  ~AllKnown(list)' /\ UNCHANGED <<pLayer, mp_Stack, upper, under, down>>
  <1>1. pLayer = NoLayer /\ list # <<>>
    <2>1. list # <<>>
      BY DEF AllKnown, Named
    <2> QED BY <2>1 DEF Inv, LayerInv
  <1>2. ~AllKnown(list)'
    <2>1. token \in Tokens /\ list' = Append(list, token) /\ list \in Seq(Tokens)
          /\ UNCHANGED mp_aLayers
      BY Shapes
    <2>2. ~AllKnown(Append(list, token))
      BY <2>1, KnownStays
    <2> QED BY <2>1, <2>2 DEF AllKnown
  <1> QED BY <1>1, <1>2 DEF LinkLayer, LinkName, LinkOpen, LinkClose

(* While all names are known, a token is read with a layer at hand.        *)
LEMMA ReadsKnown ==
    ASSUME Inv, NEW token \in Names \cup Items, LinkLayer(token), AllKnown(list)
    PROVE  /\ list # <<>> => pLayer # NoLayer
           /\ token \in Names => /\ pLayer' = GetLayer(token) /\ UNCHANGED mp_Stack
                                /\ IF list = <<>> THEN UNCHANGED <<upper, under, down>>
                                   ELSE SetUpperUnderLayer(Top, GetLayer(token))
           /\ token \notin Names => UNCHANGED <<pLayer, upper, under, down>> /\ list # <<>>
           /\ token = "(" => Push(pLayer) /\ pLayer = Last(list)
           /\ token = ")" => Pop
           /\ AllKnown(list') <=> (token \in Names => token \in mp_aLayers)
  <1>1. list # <<>> => pLayer # NoLayer /\ (Last(list) \in Names => pLayer = Last(list))
    BY DEF Inv, LayerInv
  <1>2. /\ token \in Tokens /\ list' = Append(list, token) /\ list \in Seq(Tokens)
        /\ token = "(" => list # <<>> /\ Last(list) \in Names
        /\ token = ")" => list # <<>>
        /\ token \in Names <=> token \notin Items
    BY Shapes
  <1>3. AllKnown(list') <=> (token \in Names => token \in mp_aLayers)
    BY <1>2, KnownGrows, KnownEnds
  <1>4. token \in Names => /\ pLayer' = GetLayer(token) /\ UNCHANGED mp_Stack
                          /\ IF list = <<>> THEN UNCHANGED <<upper, under, down>>
                             ELSE SetUpperUnderLayer(Top, GetLayer(token))
    BY <1>1, Reads DEF LinkName
  <1>5. token = "(" => Push(pLayer) /\ UNCHANGED <<pLayer, upper, under, down>>
    BY <1>1, <1>2, Reads DEF LinkOpen
  <1>6. token = ")" => Pop /\ UNCHANGED <<pLayer, upper, under, down>>
    BY <1>1, <1>2, Reads DEF LinkClose
  <1>7. token \notin Names => token = "(" \/ token = ")"
    BY DEF Items
  <1> QED BY <1>1, <1>2, <1>3, <1>4, <1>5, <1>6, <1>7

(* The layer at hand is that of the last name.                             *)
LEMMA LayerKept ==
    ASSUME Inv, NEW token \in Names \cup Items, LinkLayer(token)
    PROVE  LayerInv'
  <1>1. /\ list' = Append(list, token) /\ UNCHANGED mp_aLayers /\ list' # <<>>
        /\ Last(list') = token
    BY Shapes DEF Last
  <1>2. AllKnown(list)' <=> AllKnown(list')
    BY <1>1 DEF AllKnown
  <1>3. CASE ~AllKnown(list)
    BY <1>1, <1>3, NothingAfterUnknown DEF LayerInv, Inv
  <1>4. CASE AllKnown(list)
    <2>1. CASE token \in Names
      <3>1. pLayer' = (IF token \in mp_aLayers THEN token ELSE NoLayer)
        BY <1>4, <2>1, ReadsKnown DEF GetLayer
      <3>2. AllKnown(list') <=> token \in mp_aLayers
        BY <1>4, <2>1, ReadsKnown
      <3>3. token # NoLayer
        BY <2>1, LayerStackAssumption
      <3> QED BY <1>1, <1>2, <3>1, <3>2, <3>3 DEF LayerInv
    <2>2. CASE token \notin Names
      <3>1. pLayer' = pLayer /\ pLayer # NoLayer /\ AllKnown(list')
        BY <1>4, <2>2, ReadsKnown
      <3> QED BY <1>1, <1>2, <2>2, <3>1 DEF LayerInv
    <2> QED BY <2>1, <2>2
  <1> QED BY <1>3, <1>4

(* The types.                                                              *)
LEMMA TypesKept ==
    ASSUME Inv, NEW token \in Names \cup Items, LinkLayer(token)
    PROVE  TypeInv'
  <1>1. /\ token \in Tokens /\ list' = Append(list, token) /\ list \in Seq(Tokens)
        /\ UNCHANGED <<mp_aLayers, phase>>
    BY Shapes
  <1>2. list' \in Seq(Tokens) /\ phase = "linking"
    BY <1>1 DEF LinkLayer
  <1>3. TypeInv
    BY DEF Inv
  <1>4. pLayer' \in mp_aLayers \cup {NoLayer} /\ mp_Stack' \in Seq(Names)
    <2>1. CASE ~AllKnown(list)
      BY <1>3, <2>1, NothingAfterUnknown DEF TypeInv
    <2>2. CASE AllKnown(list) /\ token \in Names
      <3>1. GetLayer(token) \in mp_aLayers \cup {NoLayer}
        BY DEF GetLayer
      <3> QED BY <1>3, <2>2, <3>1, ReadsKnown DEF TypeInv
    <2>3. CASE AllKnown(list) /\ token = "("
      <3>1. pLayer' = pLayer /\ pLayer \in Names /\ Push(pLayer)
        <4>1. token \notin Names
          BY <2>3, LayerStackAssumption
        <4>2. pLayer' = pLayer /\ pLayer # NoLayer /\ Push(pLayer)
          BY <2>3, <4>1, ReadsKnown
        <4> QED BY <1>3, <4>2 DEF TypeInv
      <3> QED BY <1>3, <3>1 DEF TypeInv, Push
    <2>4. CASE AllKnown(list) /\ token = ")"
      <3>1. token \notin Names
        BY <2>4, LayerStackAssumption
      <3>2. pLayer' = pLayer /\ Pop
        BY <2>4, <3>1, ReadsKnown
      <3> QED BY <1>3, <3>2 DEF TypeInv, Pop, Front
    <2> QED BY <2>1, <2>2, <2>3, <2>4 DEF Items
  <1>5. upper' \in [Names -> Seq(Names)] /\ under' \in [Names -> Names \cup {NoLayer}]
    <2>1. CASE UNCHANGED <<upper, under>>
      BY <1>3, <2>1 DEF TypeInv
    <2>2. CASE \E low, up : /\ low # NoLayer /\ up # NoLayer /\ low = Top /\ up = GetLayer(token)
                           /\ SetUpperUnderLayer(low, up)
      <3>1. PICK low, up : /\ low # NoLayer /\ up # NoLayer /\ low = Top /\ up = GetLayer(token)
                           /\ SetUpperUnderLayer(low, up)
        BY <2>2
      <3>2. up \in Names
        BY <1>3, <3>1 DEF GetLayer, TypeInv
      <3>3. low \in Names
        BY <1>3, <3>1 DEF Top, Last, TypeInv
      <3>4. /\ upper' = [upper EXCEPT ![low] = Append(@, up)]
            /\ under' = [under EXCEPT ![up] = low]
        BY <3>1 DEF SetUpperUnderLayer
      <3> QED BY <1>3, <3>2, <3>3, <3>4 DEF TypeInv
    <2>3. UNCHANGED <<upper, under>> \/ SetUpperUnderLayer(Top, GetLayer(token))
      BY NothingAfterUnknown, ReadsKnown
    <2> QED BY <2>1, <2>2, <2>3 DEF SetUpperUnderLayer
  <1> QED BY <1>1, <1>2, <1>3, <1>4, <1>5 DEF TypeInv

(* The stack follows the parentheses.                                      *)
LEMMA StackKept ==
    ASSUME Inv, NEW token \in Names \cup Items, LinkLayer(token)
    PROVE  StackInv'
  <1> SUFFICES ASSUME Shallow', AllKnown(list)'
               PROVE  /\ Len(mp_Stack') = Depth(list')
                      /\ \A d \in 1..Depth(list') : \A j \in Named(list') :
                            LastAt(list', d - 1, j) => mp_Stack'[d] = list'[j]
    BY DEF StackInv
  <1>1. /\ token \in Tokens /\ list' = Append(list, token) /\ list \in Seq(Tokens)
        /\ Depth(list) \in Nat /\ UNCHANGED mp_aLayers
    BY Shapes
  <1>2. AllKnown(list)
    BY NothingAfterUnknown
  <1>3. Shallow /\ Depth(list') <= StackSize + 1
    BY <1>1, ShallowBefore
  <1>4. /\ Len(mp_Stack) = Depth(list)
        /\ \A d \in 1..Depth(list) : \A j \in Named(list) :
              LastAt(list, d - 1, j) => mp_Stack[d] = list[j]
    BY <1>2, <1>3 DEF Inv, StackInv
  <1>5. /\ token = "(" => Depth(list') = Depth(list) + 1
        /\ token = ")" => Depth(list') = Depth(list) - 1
        /\ token \in Names => Depth(list') = Depth(list)
        /\ token \in Names => token # "(" /\ token # ")"
    BY <1>1, DepthAppended, LayerStackAssumption
  <1>6. ASSUME NEW d \in 1..Depth(list), token \in Names => Depth(list') # d - 1,
               NEW j, LastAt(list', d - 1, j)
        PROVE  mp_Stack[d] = list'[j] /\ d \in 1..Len(mp_Stack)
    <2>1. PICK i : LastAt(list, d - 1, i)
      <3>1. d - 1 \in 0..Depth(list) - 1
        BY <1>1
      <3> QED BY <3>1 DEF Inv, TextInv
    <2>2. i = j
      <3>1. d - 1 \in Int
        BY <1>1
      <3> QED BY <1>1, <1>6, <2>1, <3>1, LastAppended
    <2>3. i \in Named(list) /\ mp_Stack[d] = list[i]
      BY <1>4, <2>1 DEF LastAt
    <2>4. list'[i] = list[i]
      BY <1>1, <2>3, NamedAppended
    <2> QED BY <1>4, <2>2, <2>3, <2>4
  <1>7. mp_Stack \in Seq(Names)
    BY DEF Inv, TypeInv
  <1>8. CASE token = "("
    <2>1. token \notin Names /\ Depth(list') = Depth(list) + 1
      BY <1>5, <1>8
    <2>2. Push(pLayer) /\ pLayer = list[Len(list)] /\ LastAt(list, Depth(list), Len(list))
      <3>1. Push(pLayer) /\ pLayer = Last(list)
        BY <1>2, <1>8, ReadsKnown
      <3>2. list # <<>> /\ Last(list) \in Names
        BY <1>8, Shapes
      <3>3. LastAt(list, Depth(list), Len(list))
        BY <3>2 DEF Inv, TextInv
      <3> QED BY <3>1, <3>3 DEF Last
    <2>3. mp_Stack' = Append(mp_Stack, pLayer)
      <3>1. ~(Len(mp_Stack) - 1 >= StackSize)
        BY <1>1, <1>3, <1>4, <2>1, LayerStackAssumption
      <3> QED BY <2>2, <3>1 DEF Push
    <2>4. /\ Len(mp_Stack') = Depth(list) + 1 /\ mp_Stack'[Depth(list) + 1] = pLayer
          /\ \A d \in 1..Depth(list) : mp_Stack'[d] = mp_Stack[d]
      BY <1>4, <1>7, <2>3
    <2>5. ASSUME NEW j, LastAt(list', Depth(list), j) PROVE list'[j] = pLayer
      <3>1. j = Len(list)
        BY <1>1, <2>1, <2>2, <2>5, LastAppended
      <3>2. Len(list) \in Named(list)
        BY <2>2 DEF LastAt
      <3>3. list'[Len(list)] = list[Len(list)]
        BY <1>1, <3>2, NamedAppended
      <3> QED BY <2>2, <3>1, <3>3
    <2>6. ASSUME NEW d \in 1..Depth(list'), NEW j \in Named(list'), LastAt(list', d - 1, j)
          PROVE  mp_Stack'[d] = list'[j]
      <3>1. CASE d \in 1..Depth(list)
        BY <1>6, <2>1, <2>4, <2>6, <3>1
      <3>2. CASE d = Depth(list) + 1
        <4>1. d - 1 = Depth(list)
          BY <1>1, <3>2
        <4> QED BY <2>4, <2>5, <2>6, <3>2, <4>1
      <3>3. d \in 1..Depth(list) \/ d = Depth(list) + 1
        BY <1>1, <2>1
      <3> QED BY <3>1, <3>2, <3>3
    <2> QED BY <2>1, <2>4, <2>6
  <1>9. CASE token = ")"
    <2>1. token \notin Names /\ Depth(list') = Depth(list) - 1 /\ Depth(list) > 0
      BY <1>5, <1>9, Shapes
    <2>2. mp_Stack' = SubSeq(mp_Stack, 1, Len(mp_Stack) - 1)
      <3>1. Pop /\ mp_Stack # <<>>
        BY <1>2, <1>4, <1>9, <2>1, ReadsKnown
      <3> QED BY <3>1 DEF Pop, Front
    <2>3. /\ Len(mp_Stack') = Depth(list) - 1
          /\ \A d \in 1..Depth(list) - 1 : mp_Stack'[d] = mp_Stack[d]
      BY <1>1, <1>4, <1>7, <2>1, <2>2
    <2>4. ASSUME NEW d \in 1..Depth(list'), NEW j \in Named(list'), LastAt(list', d - 1, j)
          PROVE  mp_Stack'[d] = list'[j]
      <3>1. d \in 1..Depth(list) /\ d \in 1..Depth(list) - 1
        BY <1>1, <2>1
      <3> QED BY <1>6, <2>1, <2>3, <2>4, <3>1
    <2> QED BY <2>1, <2>3, <2>4
  <1>10. CASE token \in Names
    <2>1. Depth(list') = Depth(list) /\ mp_Stack' = mp_Stack
      BY <1>2, <1>5, <1>10, ReadsKnown
    <2>2. ASSUME NEW d \in 1..Depth(list'), NEW j \in Named(list'), LastAt(list', d - 1, j)
          PROVE  mp_Stack'[d] = list'[j]
      <3>1. d \in 1..Depth(list) /\ Depth(list') # d - 1
        BY <1>1, <2>1
      <3> QED BY <1>6, <2>1, <2>2, <3>1
    <2> QED BY <1>4, <2>1, <2>2
  <1> QED BY <1>8, <1>9, <1>10 DEF Items

(* The pointers follow the text.                                           *)
LEMMA LinksKept ==
    ASSUME Inv, NEW token \in Names \cup Items, LinkLayer(token)
    PROVE  LinkInv'
  <1> SUFFICES ASSUME Shallow'
               PROVE  ~down' /\ LinkedAsWritten'
    BY DEF LinkInv, NeverDown
  <1>1. /\ token \in Tokens /\ list' = Append(list, token) /\ list \in Seq(Tokens)
        /\ Depth(list) \in Nat /\ UNCHANGED mp_aLayers /\ (list = <<>> => Depth(list) = 0)
    BY Shapes
  <1>2. Shallow /\ Placed(list)
    <2>1. Shallow
      BY <1>1, ShallowBefore
    <2> QED BY <2>1 DEF Inv, TextInv
  <1>3. ~down /\ LinkedAsWritten
    BY <1>2 DEF Inv, LinkInv, NeverDown
  <1>4. Known(list)' = Known(list')
    BY <1>1 DEF Known
  <1>5. SUFFICES /\ ~down'
                 /\ \A n \in Names : /\ upper'[n] = UpperInText(Known(list'), n)
                                     /\ under'[n] = UnderInText(Known(list'), n)
    BY <1>4 DEF LinkedAsWritten
  <1>6. \A n \in Names : /\ upper[n] = UpperInText(Known(list), n)
                         /\ under[n] = UnderInText(Known(list), n)
    BY <1>3 DEF LinkedAsWritten
  <1>7. CASE ~AllKnown(list)
    <2>1. Known(list') = Known(list)
      BY <1>1, <1>7, KnownStays
    <2> QED BY <1>3, <1>6, <1>7, <2>1, NothingAfterUnknown
  <1>8. CASE AllKnown(list)
    <2>1. Known(list) = list
      BY <1>8, KnownText
    <2>2. CASE token \notin Names
      <3>1. Known(list') = list' /\ UNCHANGED <<upper, under, down>>
        BY <1>1, <1>8, <2>2, KnownGrows, ReadsKnown
      <3>2. \A n : /\ UpperInText(list', n) = UpperInText(list, n)
                  /\ UnderInText(list', n) = UnderInText(list, n)
        BY <1>1, <1>2, <2>2, NothingLinked
      <3> QED BY <1>3, <1>6, <2>1, <3>1, <3>2
    <2>3. CASE token \in Names /\ token \notin mp_aLayers
      <3>1. Known(list') = list
        BY <1>1, <1>8, <2>3, KnownEnds
      <3>2. UNCHANGED <<upper, under, down>>
        <4>1. GetLayer(token) = NoLayer
          BY <2>3 DEF GetLayer
        <4>2. UNCHANGED <<upper, under, down>> \/ SetUpperUnderLayer(Top, GetLayer(token))
          BY <1>8, <2>3, ReadsKnown
        <4> QED BY <4>1, <4>2 DEF SetUpperUnderLayer
      <3> QED BY <1>3, <1>6, <2>1, <3>1, <3>2
    <2>4. CASE token \in Names /\ token \in mp_aLayers /\ list = <<>>
      <3>1. Known(list') = list' /\ UNCHANGED <<upper, under, down>>
        BY <1>1, <1>8, <2>4, KnownGrows, ReadsKnown
      <3>2. Depth(list') <= 0
        <4>1. Depth(list') = Depth(list) /\ Depth(list) = 0
          BY <1>1, <2>4, DepthAppended
        <4> QED BY <4>1
      <3>3. \A n : /\ UpperInText(list', n) = UpperInText(list, n)
                  /\ UnderInText(list', n) = UnderInText(list, n)
        BY <1>1, <1>2, <3>2, NothingLinked
      <3> QED BY <1>3, <1>6, <2>1, <3>1, <3>3
    <2>5. CASE token \in Names /\ token \in mp_aLayers /\ list # <<>>
      <3>1. Known(list') = list' /\ SetUpperUnderLayer(Top, GetLayer(token))
        BY <1>1, <1>8, <2>5, KnownGrows, ReadsKnown
      <3>2. GetLayer(token) = token /\ token # NoLayer
        BY <2>5, LayerStackAssumption DEF GetLayer
      <3>3. Depth(list) > 0 /\ Depth(list') = Depth(list)
        <4>1. Depth(list) > 0
          BY <2>5, Shapes
        <4> QED BY <1>1, <2>5, <4>1, DepthAppended
      <3>4. PICK j \in Named(list) : LastAt(list, Depth(list) - 1, j)
        <4>1. Depth(list) - 1 \in 0..Depth(list) - 1
          BY <1>1, <3>3
        <4> QED BY <4>1 DEF Inv, TextInv
      <3>5. Top = list[j]
        <4>1. Len(mp_Stack) = Depth(list) /\ mp_Stack[Depth(list)] = list[j]
          <5>1. Depth(list) \in 1..Depth(list)
            BY <1>1, <3>3
          <5>2. StackInv
            BY DEF Inv
          <5> QED BY <1>2, <1>8, <3>4, <5>1, <5>2 DEF StackInv
        <4>2. mp_Stack # <<>>
          BY <3>3, <4>1
        <4> QED BY <4>1, <4>2 DEF Top, Last
      <3>6. list[j] \in Names /\ list[j] # NoLayer
        BY LayerStackAssumption DEF Named
      <3>7. /\ upper' = [upper EXCEPT ![list[j]] = Append(@, token)]
            /\ under' = [under EXCEPT ![token] = list[j]] /\ down' = down
        BY <3>1, <3>2, <3>5, <3>6 DEF SetUpperUnderLayer
      <3>8. \A n : /\ UpperInText(list', n) =
                         IF list[j] = n THEN Append(UpperInText(list, n), token)
                         ELSE UpperInText(list, n)
                  /\ UnderInText(list', n) = IF token = n THEN list[j] ELSE UnderInText(list, n)
        BY <1>1, <1>2, <2>5, <3>3, <3>4, NameLinked
      <3>9. DOMAIN upper = Names /\ DOMAIN under = Names
        BY DEF Inv, TypeInv
      <3>10. ASSUME NEW n \in Names
             PROVE  /\ upper'[n] = IF list[j] = n THEN Append(upper[n], token) ELSE upper[n]
                    /\ under'[n] = IF token = n THEN list[j] ELSE under[n]
        BY <3>7, <3>9
      <3>11. ASSUME NEW n \in Names
             PROVE  /\ upper'[n] = UpperInText(list', n) /\ under'[n] = UnderInText(list', n)
        <4>1. upper[n] = UpperInText(list, n) /\ under[n] = UnderInText(list, n)
          BY <1>6, <2>1
        <4>2. UpperInText(list', n) = IF list[j] = n THEN Append(UpperInText(list, n), token)
                                      ELSE UpperInText(list, n)
          BY <3>8
        <4>3. UnderInText(list', n) = IF token = n THEN list[j] ELSE UnderInText(list, n)
          BY <3>8
        <4> QED BY <3>10, <4>1, <4>2, <4>3
      <3> QED BY <1>3, <3>1, <3>7, <3>11
    <2> QED BY <2>2, <2>3, <2>4, <2>5
  <1> QED BY <1>7, <1>8

(* No step disturbs the invariant.                                         *)
LEMMA InvKept == Inv /\ [Next]_vars => Inv'
  <1> SUFFICES ASSUME Inv, [Next]_vars PROVE Inv'
    OBVIOUS
  <1>1. CASE (\E n \in Names : AddLayer(n)) \/ ConnectLayers
    BY <1>1, NoTextYet
  <1>2. ASSUME NEW token \in Names \cup Items, LinkLayer(token) PROVE Inv'
    BY <1>2, TypesKept, TextKept, LayerKept, StackKept, LinksKept DEF Inv
  <1>3. CASE UNCHANGED vars
    BY <1>3 DEF vars, Inv, TypeInv, TextInv, LayerInv, StackInv, LinkInv, Shallow, AllKnown,
                LinkedAsWritten, Known, NeverDown
  <1> QED BY <1>1, <1>2, <1>3 DEF Next

(* The invariant holds throughout.                                         *)
LEMMA AlwaysInv == Spec => []Inv
  BY InitInv, InvKept, PTL DEF Spec

(* For every text that is not nested deeper than the stack is high, of any *)
(* length and with any names: LinkLayer calls nothing through a null       *)
(* pointer, and the pointers it sets are those the text says.              *)
THEOREM LinksWhatIsWritten == Spec => [](Shallow => NeverDown /\ LinkedAsWritten)
  <1>1. Inv => (Shallow => NeverDown /\ LinkedAsWritten)
    BY DEF Inv, LinkInv
  <1> QED BY <1>1, AlwaysInv, PTL

-----------------------------------------------------------------------------
(* Texts that are too short to be nested deep.                             *)

(* Each level takes a name and a parenthesis.                              *)
LengthInv ==
    /\ Len(list) <= MaxTokens
    /\ \A i \in DOMAIN list : 2 * DepthAt(list, i) <= i
    /\ list # <<>> /\ Last(list) \in Names => 2 * Depth(list) < Len(list)

(* It stays so as a token is read.                                         *)
LEMMA LengthKept ==
    ASSUME Inv, LengthInv, NEW token \in Names \cup Items, LinkLayer(token)
    PROVE  LengthInv'
  <1>1. /\ token \in Tokens /\ list' = Append(list, token) /\ list \in Seq(Tokens)
        /\ Depth(list) \in Nat /\ (list = <<>> => Depth(list) = 0)
        /\ (token = "(" => list # <<>> /\ Last(list) \in Names)
    BY Shapes
  <1>2. /\ Len(list) \in Nat /\ Len(list') = Len(list) + 1 /\ Last(list') = token
        /\ Len(list) < MaxTokens /\ MaxTokens \in Nat
    BY <1>1, LayerStackAssumption DEF Last, LinkLayer, MayFollow
  <1>3. /\ token = "(" => Depth(list') = Depth(list) + 1
        /\ token = ")" => Depth(list') = Depth(list) - 1
        /\ token \in Names => Depth(list') = Depth(list)
    BY <1>1, DepthAppended
  <1>4. /\ \A i \in DOMAIN list : DepthAt(list', i) = DepthAt(list, i)
        /\ DepthAt(list', Len(list) + 1) = Depth(list')
        /\ list # <<>> => DepthAt(list, Len(list)) = Depth(list)
    BY <1>1, DepthsStay
  <1>5. 2 * Depth(list) <= Len(list)
    <2>1. CASE list = <<>>
      BY <1>1, <1>2, <2>1
    <2>2. CASE list # <<>>
      <3>1. Len(list) \in DOMAIN list
        BY <1>1, <2>2
      <3> QED BY <1>4, <2>2, <3>1 DEF LengthInv
    <2> QED BY <2>1, <2>2
  <1>6. /\ 2 * Depth(list') <= Len(list) + 1
        /\ token \in Names => 2 * Depth(list') < Len(list) + 1
    <2>1. CASE token = "("
      <3>1. 2 * Depth(list) < Len(list)
        BY <1>1, <2>1 DEF LengthInv
      <3>2. token \notin Names
        BY <2>1, LayerStackAssumption
      <3> QED BY <1>1, <1>2, <1>3, <2>1, <3>1, <3>2
    <2>2. CASE token = ")"
      <3>1. token \notin Names
        BY <2>2, LayerStackAssumption
      <3> QED BY <1>1, <1>2, <1>3, <1>5, <2>2, <3>1
    <2>3. CASE token \in Names
      BY <1>1, <1>2, <1>3, <1>5, <2>3
    <2> QED BY <2>1, <2>2, <2>3 DEF Items
  <1>7. \A i \in DOMAIN list' : 2 * DepthAt(list', i) <= i
    <2>1. \A i \in DOMAIN list' : i \in DOMAIN list \/ i = Len(list) + 1
      BY <1>1, <1>2
    <2>2. \A i \in DOMAIN list : 2 * DepthAt(list', i) <= i
      BY <1>4 DEF LengthInv
    <2> QED BY <1>4, <1>6, <2>1, <2>2
  <1> QED BY <1>2, <1>6, <1>7 DEF LengthInv

(* So a text of at most two tokens for each place of the stack is shallow. *)
LEMMA ShortIsShallow ==
    ASSUME MaxTokens <= 2 * StackSize + 2
    PROVE  Spec => []Shallow
  <1>1. Init => LengthInv
    BY LayerStackAssumption DEF Init, LengthInv
  <1>2. Inv /\ LengthInv /\ [Next]_vars => LengthInv'
    <2> SUFFICES ASSUME Inv, LengthInv, [Next]_vars PROVE LengthInv'
      OBVIOUS
    <2>1. CASE \E token \in Names \cup Items : LinkLayer(token)
      BY <2>1, LengthKept
    <2>2. CASE UNCHANGED list
      BY <2>2 DEF LengthInv
    <2> QED BY <2>1, <2>2 DEF Next, AddLayer, ConnectLayers, vars
  <1>3. Inv /\ LengthInv => Shallow
    <2> SUFFICES ASSUME Inv, LengthInv, NEW i \in DOMAIN list
                 PROVE  DepthAt(list, i) <= StackSize + 1
      BY DEF Shallow
    <2>1. list \in Seq(Tokens) /\ StackSize \in Nat /\ MaxTokens \in Nat
      BY LayerStackAssumption DEF Inv, TypeInv
    <2>2. DepthAt(list, i) \in Int /\ i \in Nat /\ i <= Len(list) /\ Len(list) \in Nat
      BY <2>1, DepthType
    <2>3. 2 * DepthAt(list, i) <= i /\ Len(list) <= MaxTokens
      BY DEF LengthInv
    <2> QED BY <2>1, <2>2, <2>3
  <1> QED BY <1>1, <1>2, <1>3, AlwaysInv, PTL DEF Spec

(* LinkLayer sets the pointers a text says, for every text that is short   *)
(* enough for the stack.                                                   *)
THEOREM LinksTexts ==
    ASSUME MaxTokens <= 2 * StackSize + 2
    PROVE  Spec => []LinkedAsWritten
  BY ShortIsShallow, LinksWhatIsWritten, PTL

(* And it calls nothing through a null pointer.                            *)
THEOREM NeverCallsNull ==
    ASSUME MaxTokens <= 2 * StackSize + 2
    PROVE  Spec => []NeverDown
  BY ShortIsShallow, LinksWhatIsWritten, PTL

=============================================================================
