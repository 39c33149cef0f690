----------------------------- MODULE BytesProofs -----------------------------
(***************************************************************************)
(* What the byte operations of module Bytes return, for every buffer: the  *)
(* lemmas the proofs about the layers cite.                                *)
(***************************************************************************)
EXTENDS Bytes, SequenceTheorems, WellFoundedInduction, TLAPS

(* Min and Max of two integers, as the code's conditional expressions.      *)
LEMMA MinOfTwo ==
    ASSUME NEW a \in Int, NEW b \in Int
    PROVE  Min({a, b}) = IF a <= b THEN a ELSE b
  <1> DEFINE m == IF a <= b THEN a ELSE b
  <1>1. m \in {a, b} /\ \A y \in {a, b} : m =< y
    OBVIOUS
  <1>2. \A x \in {a, b} : (\A y \in {a, b} : x =< y) => x = m
    OBVIOUS
  <1> QED BY <1>1, <1>2 DEF Min

(* The greater of two integers.                                             *)
LEMMA MaxOfTwo ==
    ASSUME NEW a \in Int, NEW b \in Int
    PROVE  Max({a, b}) = IF a >= b THEN a ELSE b
  <1> DEFINE m == IF a >= b THEN a ELSE b
  <1>1. m \in {a, b} /\ \A y \in {a, b} : m >= y
    OBVIOUS
  <1>2. \A x \in {a, b} : (\A y \in {a, b} : x >= y) => x = m
    OBVIOUS
  <1> QED BY <1>1, <1>2 DEF Max

(* A set of natural numbers has its minimum in it.                          *)
LessThan == {ss \in Nat \X Nat : ss[1] < ss[2]}

(* Membership in the order < on the naturals.                               *)
LEMMA LessThanPair ==
    ASSUME NEW x \in Nat, NEW y \in Nat, y < x
    PROVE  <<y, x>> \in LessThan
  BY DEF LessThan

(* Every nonempty set of naturals has a least element.                      *)
LEMMA MinOfNats ==
    ASSUME NEW S, S \subseteq Nat, S # {}
    PROVE  Min(S) \in S /\ \A x \in S : Min(S) <= x
  <1>1. IsWellFoundedOn(LessThan, Nat)
    BY NatLessThanWellFounded DEF OpToRel, LessThan
  <1>2. PICK x \in S : \A y \in S : ~ (<<y, x>> \in LessThan)
    BY <1>1, WFMin
  <1>3. \A y \in S : ~ (y < x)
    BY <1>2, LessThanPair
  <1>4. \A y \in S : x =< y
    BY <1>3
  <1> QED BY <1>4 DEF Min

(* memcpy changes the bytes of its target and never its size.               *)
LEMMA MemcpyType ==
    ASSUME NEW B, NEW k \in Nat, NEW dst \in [1..k -> B], NEW src, NEW n \in Int,
           \A i \in 1..k : i <= n => src[i] \in B
    PROVE  /\ Memcpy(dst, src, n) \in [1..k -> B]
           /\ \A i \in 1..k : Memcpy(dst, src, n)[i] = IF i <= n THEN src[i] ELSE dst[i]
  <1>1. dst \in Seq(B) /\ Len(dst) = k
    OBVIOUS
  <1> QED BY <1>1 DEF Memcpy

(* n bytes read are n bytes, those of the buffer as far as it goes.         *)
LEMMA ReadBytesType ==
    ASSUME NEW B, NEW buf \in Seq(B), Junk \in B, NEW n \in Nat
    PROVE  /\ ReadBytes(buf, n) \in Seq(B)
           /\ ReadBytes(buf, n) \in [1..n -> B]
           /\ Len(ReadBytes(buf, n)) = n
           /\ \A i \in 1..n : ReadBytes(buf, n)[i] = IF i <= Len(buf) THEN buf[i] ELSE Junk
  <1>1. ReadBytes(buf, n) \in [1..n -> B]
    BY ElementOfSeq DEF ReadBytes
  <1> QED BY <1>1 DEF ReadBytes

(* A C string is read up to its first NUL.                                  *)
LEMMA FirstNul ==
    ASSUME NEW buf, Nuls(buf) # {}
    PROVE  Min(Nuls(buf)) \in Nuls(buf) /\ \A i \in Nuls(buf) : Min(Nuls(buf)) <= i
  <1>1. Nuls(buf) \subseteq Nat
    BY DEF Nuls
  <1> QED BY <1>1, MinOfNats

(* A conversion with %s yields bytes of the buffer it reads, or junk.       *)
LEMMA CStringType ==
    ASSUME NEW B, NEW buf \in Seq(B), Junk \in B
    PROVE  CString(buf) \in Seq(B)
  <1>1. CASE Nuls(buf) = {}
    BY <1>1, AppendProperties DEF CString
  <1>2. CASE Nuls(buf) # {}
    <2>1. Min(Nuls(buf)) \in 1..Len(buf)
      BY <1>2, FirstNul DEF Nuls
    <2>2. \A i \in 1..Min(Nuls(buf)) - 1 : buf[i] \in B
      BY <2>1, ElementOfSeq
    <2>3. SubSeq(buf, 1, Min(Nuls(buf)) - 1) \in Seq(B)
      BY <2>1, <2>2, SubSeqProperties
    <2> QED BY <1>2, <2>3 DEF CString
  <1> QED BY <1>1, <1>2

(* A name that is followed by a NUL in its buffer is read back as it is.    *)
LEMMA CStringOfName ==
    ASSUME NEW B, NEW name \in Seq(B), NEW buf \in Seq(B), Len(buf) > Len(name),
           \A i \in 1..Len(name) : buf[i] = name[i] /\ name[i] # NUL,
           buf[Len(name) + 1] = NUL
    PROVE  CString(buf) = name
  <1>1. Len(name) + 1 \in Nuls(buf)
    BY DEF Nuls
  <1>2. \A i \in Nuls(buf) : i > Len(name)
    BY DEF Nuls
  <1>3. Min(Nuls(buf)) = Len(name) + 1
    <2>1. Min(Nuls(buf)) \in Nuls(buf) /\ Min(Nuls(buf)) <= Len(name) + 1
      BY <1>1, FirstNul
    <2>2. Min(Nuls(buf)) \in Nat
      BY <2>1 DEF Nuls
    <2> QED BY <1>2, <2>1, <2>2
  <1>4. CString(buf) = SubSeq(buf, 1, Len(name))
    <2>1. Len(name) + 1 - 1 = Len(name)
      OBVIOUS
    <2> QED BY <1>1, <1>3, <2>1 DEF CString
  <1>5. \A i \in 1..Len(name) : buf[i] \in B
    BY ElementOfSeq
  <1>6. /\ SubSeq(buf, 1, Len(name)) \in Seq(B)
        /\ Len(SubSeq(buf, 1, Len(name))) = Len(name)
        /\ \A i \in 1..Len(name) : SubSeq(buf, 1, Len(name))[i] = buf[i]
    BY <1>5, SubSeqProperties
  <1> QED BY <1>4, <1>6, SeqEqual

(* Writing at an offset: the file is as long as it was or as the write      *)
(* needs it; the bytes of the write are in place, all others are as before. *)
LEMMA WriteAtType ==
    ASSUME NEW B, NEW bytes \in Seq(B), NEW data \in Seq(B), NEW off \in Nat, Hole \in B
    PROVE  WriteAt(bytes, off, data) \in Seq(B)
  <1>1. CASE data = <<>>
    BY <1>1 DEF WriteAt
  <1>2. CASE data # <<>>
    <2>1. PICK n \in Nat : n = Max({Len(bytes), off + Len(data)})
      BY MaxOfTwo
    <2>2. WriteAt(bytes, off, data) = [i \in 1..n |->
             IF i \in off+1..off+Len(data) THEN data[i - off]
             ELSE IF i <= Len(bytes) THEN bytes[i] ELSE Hole]
      BY <1>2, <2>1 DEF WriteAt
    <2>3. WriteAt(bytes, off, data) \in [1..n -> B]
      BY <2>2, ElementOfSeq
    <2> QED BY <2>3
  <1> QED BY <1>1, <1>2

(* The bytes of a write are in place and all others are as before; what the *)
(* write left out behind the old end of the file is a hole.                 *)
LEMMA WriteAtBytes ==
    ASSUME NEW B, NEW bytes \in Seq(B), NEW data \in Seq(B), NEW off \in Nat
    PROVE  /\ Len(WriteAt(bytes, off, data)) =
                IF data = <<>> \/ off + Len(data) <= Len(bytes)
                THEN Len(bytes) ELSE off + Len(data)
           /\ \A i \in 1..Len(WriteAt(bytes, off, data)) : WriteAt(bytes, off, data)[i] =
                IF i \in off+1..off+Len(data) THEN data[i - off]
                ELSE IF i <= Len(bytes) THEN bytes[i] ELSE Hole
  <1>1. CASE data = <<>>
    BY <1>1 DEF WriteAt
  <1>2. CASE data # <<>>
    <2>1. PICK n \in Nat : /\ n = Max({Len(bytes), off + Len(data)})
                           /\ n = IF off + Len(data) <= Len(bytes)
                                  THEN Len(bytes) ELSE off + Len(data)
      BY MaxOfTwo
    <2>2. WriteAt(bytes, off, data) = [i \in 1..n |->
             IF i \in off+1..off+Len(data) THEN data[i - off]
             ELSE IF i <= Len(bytes) THEN bytes[i] ELSE Hole]
      BY <1>2, <2>1 DEF WriteAt
    <2>3. Len(WriteAt(bytes, off, data)) = n
      BY <2>2
    <2> QED BY <1>2, <2>1, <2>2, <2>3
  <1> QED BY <1>1, <1>2
=============================================================================
