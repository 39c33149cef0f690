--------------------------- MODULE ChatAppProofs ---------------------------
(***************************************************************************)
(* Theorems about chat, for all texts and every size of a piece: what      *)
(* holds whatever the wire loses, and what holds while it loses no more    *)
(* than frames of uncut texts.                                             *)
(***************************************************************************)
EXTENDS ChatAppInv, BytesProofs

-----------------------------------------------------------------------------
(* Arithmetic of pieces.                                                   *)

(* The one way to write an integer as whole pieces and a rest.              *)
LEMMA Division ==
    ASSUME NEW c \in Nat \ {0}, NEW a \in Nat, NEW r \in 0..c-1
    PROVE  (a * c + r) % c = r /\ (a * c + r) \div c = a
  <1> DEFINE x == a * c + r
             q == x \div c
  <1>1. a * c \in Nat /\ x \in Nat
    OBVIOUS
  <1>2. q \in Int /\ x % c \in 0..c-1 /\ x = c * q + (x % c)
    BY <1>1
  <1>3. q = a
    <2>1. CASE q > a
      <3>1. q - a - 1 \in Nat
        BY <1>2, <2>1
      <3>2. c * q = c * (q - a - 1) + c * a + c
        BY <1>2
      <3>3. c * (q - a - 1) \in Nat
        BY <3>1
      <3> HIDE DEF q
      <3> QED BY <1>1, <1>2, <3>2, <3>3
    <2>2. CASE q < a
      <3>1. a - q - 1 \in Nat
        BY <1>2, <2>2
      <3>2. c * a = c * (a - q - 1) + c * q + c
        BY <1>2
      <3>3. c * (a - q - 1) \in Nat
        BY <3>1
      <3> HIDE DEF q
      <3> QED BY <1>1, <1>2, <3>2, <3>3
    <2> QED BY <1>2, <2>1, <2>2
  <1> QED BY <1>2, <1>3

(* Byte p of piece s is at place p of the text, up to whole pieces.         *)
LEMMA PlaceInPiece ==
    ASSUME NEW c \in Nat \ {0}, NEW s \in Nat, NEW p \in 1..c
    PROVE  (s * c + p) % c = p % c
  <1>1. CASE p < c
    <2>1. p = 0 * c + p
      OBVIOUS
    <2> QED BY <1>1, <2>1, Division
  <1>2. CASE p = c
    <2>1. s * c + p = (s + 1) * c + 0 /\ p = 1 * c + 0
      BY <1>2
    <2> QED BY <2>1, Division
  <1> QED BY <1>1, <1>2

(* Byte q of GetBuff is a byte of one of the n pieces.                      *)
LEMMA PieceOfPlace ==
    ASSUME NEW c \in Nat \ {0}, NEW n \in Nat, NEW q \in 1..n * c
    PROVE  /\ ((q - 1) \div c) + 1 \in 1..n
           /\ ((q - 1) % c) + 1 \in 1..c
           /\ q = ((q - 1) \div c) * c + ((q - 1) % c) + 1
  <1> DEFINE j == (q - 1) \div c
             r == (q - 1) % c
  <1>1. q - 1 \in Nat /\ n * c \in Nat
    OBVIOUS
  <1>2. j \in Int /\ r \in 0..c-1 /\ q - 1 = c * j + r
    BY <1>1
  <1>3. j >= 0
    <2>1. ASSUME j < 0 PROVE FALSE
      <3>1. -1 - j \in Nat
        BY <1>2, <2>1
      <3>2. c * j = -c - c * (-1 - j)
        BY <1>2
      <3>3. c * (-1 - j) \in Nat
        BY <3>1
      <3> HIDE DEF j, r
      <3> QED BY <1>1, <1>2, <3>2, <3>3
    <2> QED BY <1>2, <2>1
  <1>4. j < n
    <2>1. ASSUME j >= n PROVE FALSE
      <3>1. j - n \in Nat
        BY <1>2, <2>1
      <3>2. c * j = n * c + c * (j - n)
        BY <1>2
      <3>3. c * (j - n) \in Nat
        BY <3>1
      <3> HIDE DEF j, r
      <3> QED BY <1>1, <1>2, <3>2, <3>3
    <2> QED BY <1>2, <2>1
  <1>5. c * j = j * c
    BY <1>2
  <1> HIDE DEF j, r
  <1>6. j + 1 \in 1..n /\ r + 1 \in 1..c /\ q = j * c + (r + 1)
    BY <1>2, <1>3, <1>4, <1>5
  <1> QED BY <1>6 DEF j, r

-----------------------------------------------------------------------------
(* Types.                                                                  *)

Frames == [type : FrameTypes, totlen : 0..UShortMax, seq : 0..UCharMax,
           text : 1..MaxTexts, data : Seq(Byte)]
Piece  == [data : [1..CharMax -> Byte], seq : 0..UCharMax]
Losses == [type : FrameTypes, text : 1..MaxTexts]
LossOf(m) == [type |-> m.type, text |-> m.text]

(* A bounded set of natural numbers has its maximum in it.                  *)
LEMMA MaxOfBounded ==
    ASSUME NEW b \in Nat, NEW S, S \subseteq 0..b, S # {}
    PROVE  Max(S) \in S /\ \A x \in S : x <= Max(S)
  <1> DEFINE T == {b - x : x \in S}
  <1>1. T \subseteq Nat /\ T # {}
    <2>1. \A x \in S : b - x \in Nat
      OBVIOUS
    <2> QED BY <2>1
  <1>2. Min(T) \in T /\ \A y \in T : Min(T) <= y
    <2> HIDE DEF T
    <2> QED BY <1>1, MinOfNats
  <1>3. PICK m \in S : Min(T) = b - m
    BY <1>2
  <1>4. \A x \in S : m >= x
    BY <1>2, <1>3
  <1> QED BY <1>4 DEF Max

(* The constants, without the limit on the number of pieces.                *)
LEMMA Sizes ==
    /\ CharMax \in Nat \ {0} /\ UShortMax \in Nat /\ UCharMax \in Nat /\ MaxTexts \in Nat
    /\ \A n \in Lengths : n \in Nat \ {0} /\ n + 1 <= UShortMax
  BY TextsAssumption

(* The characters of the texts the user may enter are bytes.                *)
LEMMA ByteType ==
    /\ NUL \in Byte /\ Junk \in Byte
    /\ \A k \in 1..MaxTexts, n \in Lengths : \A i \in 1..n : <<"text", k, i>> \in Byte
  <1>1. NUL \in Byte /\ Junk \in Byte
    BY DEF Byte
  <1>2. ASSUME NEW k \in 1..MaxTexts, NEW n \in Lengths, NEW i \in 1..n
        PROVE  <<"text", k, i>> \in Byte
    <2> DEFINE S == Lengths \cup {0}
    <2>1. S \subseteq 0..UShortMax /\ S # {} /\ UShortMax \in Nat
      BY TextsAssumption
    <2>2. Max(S) \in S /\ n <= Max(S)
      BY <2>1, MaxOfBounded
    <2>3. Max(S) \in Nat /\ n \in Nat
      <3>1. S \subseteq Nat
        BY TextsAssumption
      <3> HIDE DEF S
      <3> QED BY <2>2, <3>1, TextsAssumption
    <2>4. i \in 1..Max(S)
      BY <2>2, <2>3
    <2> QED BY <2>4 DEF Byte
  <1> QED BY <1>1, <1>2

(* A text's last piece has a number that fits into a byte.                  *)
LEMMA NumberOfPiece ==
    ASSUME NEW n \in Lengths, NEW s \in Nat, s * CharMax <= n
    PROVE  s \in 0..UCharMax
  <1>1. CharMax \in Nat \ {0} /\ n \in Nat /\ n \div CharMax <= UCharMax /\ UCharMax \in Nat
    BY TextsAssumption
  <1> DEFINE q == n \div CharMax
  <1>2. n % CharMax \in 0..CharMax-1 /\ q \in Int /\ n = CharMax * q + (n % CharMax)
    BY <1>1
  <1>3. s <= q
    <2>1. ASSUME s > q PROVE FALSE
      <3>1. s - q - 1 \in Nat
        BY <1>2, <2>1
      <3>2. s * CharMax = CharMax * (s - q - 1) + CharMax * q + CharMax
        BY <1>1, <1>2
      <3>3. CharMax * (s - q - 1) \in Nat /\ s * CharMax \in Nat
        BY <1>1, <3>1
      <3> HIDE DEF q
      <3> QED BY <1>1, <1>2, <3>2, <3>3
    <2> QED BY <1>2, <2>1
  <1> QED BY <1>1, <1>2, <1>3

(* The types once more, part by part.                                       *)
LEMMA TypeParts ==
    TypeOK <=>
        /\ sending \in [len : Lengths \cup {0}, length : Nat, i : 0..UCharMax]
        /\ wire \in Seq(Frames) /\ list \in Seq(Piece) /\ totalLength \in 0..UShortMax
        /\ box \in Seq(Byte) /\ heap \in {"sound", "overrun"} /\ up \in BOOLEAN
        /\ texts \in Seq(Lengths) /\ shown \in Seq(Seq(Byte)) /\ lost \subseteq Losses
  BY DEF TypeOK, Frames, Piece, Losses

-----------------------------------------------------------------------------
(* What make_frame builds.                                                 *)

(* The buffer holds the text and a NUL.                                     *)
LEMMA PayloadType ==
    ASSUME NEW k \in 1..MaxTexts, NEW n \in Lengths
    PROVE  /\ Text(k, n) \in Seq(Byte) /\ Len(Text(k, n)) = n
           /\ \A i \in 1..n : Text(k, n)[i] = <<"text", k, i>>
           /\ Payload(k, n) \in Seq(Byte) /\ Len(Payload(k, n)) = n + 1
           /\ \A i \in 1..n+1 : Payload(k, n)[i] = ByteAt(k, n, i)
  <1>1. n \in Nat
    BY TextsAssumption
  <1>2. Text(k, n) \in Seq(Byte) /\ Len(Text(k, n)) = n
        /\ \A i \in 1..n : Text(k, n)[i] = <<"text", k, i>>
    BY <1>1, ByteType DEF Text
  <1>3. /\ Payload(k, n) \in Seq(Byte) /\ Len(Payload(k, n)) = n + 1
        /\ \A i \in 1..n : Payload(k, n)[i] = Text(k, n)[i]
        /\ Payload(k, n)[n + 1] = NUL
    BY <1>2, ByteType, AppendProperties DEF Payload
  <1>4. \A i \in 1..n+1 : i \in 1..n \/ (i = n + 1 /\ ~(i <= n))
    BY <1>1
  <1>5. \A i \in 1..n : i <= n
    BY <1>1
  <1> QED BY <1>2, <1>3, <1>4, <1>5 DEF ByteAt

(* A frame holds its piece of the text, and of the NUL what still fits.     *)
LEMMA FrameType ==
    ASSUME NEW ts \in Seq(Lengths), Len(ts) <= MaxTexts, NEW k \in 1..Len(ts),
           NEW nlength \in Nat, NEW type \in FrameTypes, NEW seq \in Nat,
           Shape(Frame(Payload(k, ts[k]), nlength, type, seq), ts[k])
    PROVE  LET m == Frame(Payload(k, ts[k]), nlength, type, seq)
           IN  /\ m \in Frames /\ FrameSound(m, ts)
               /\ m.type = type /\ m.seq = seq /\ m.text = k
  <1> DEFINE n == ts[k]
             m == Frame(Payload(k, n), nlength, type, seq)
             from == seq * CharMax
             b == IF m.totlen <= CharMax THEN m.totlen ELSE CharMax
             rest == SubSeq(Payload(k, n), from + 1, Len(Payload(k, n)))
  <1>0. /\ CharMax \in Nat \ {0} /\ UShortMax \in Nat /\ UCharMax \in Nat /\ MaxTexts \in Nat
        /\ n \in Lengths /\ n \in Nat \ {0} /\ n + 1 <= UShortMax /\ k \in 1..MaxTexts
    <2>1. n \in Lengths /\ Len(ts) \in Nat
      BY ElementOfSeq, LenProperties
    <2> HIDE DEF n
    <2> QED BY <2>1, TextsAssumption
  <1>1. /\ Payload(k, n) \in Seq(Byte) /\ Len(Payload(k, n)) = n + 1
        /\ \A i \in 1..n+1 : Payload(k, n)[i] = ByteAt(k, n, i)
    BY <1>0, PayloadType
  <1>2. Payload(k, n)[1][2] = k
    <2>1. 1 \in 1..n+1 /\ 1 <= n
      BY <1>0
    <2>2. Payload(k, n)[1] = <<"text", k, 1>>
      BY <1>1, <2>1 DEF ByteAt
    <2> QED BY <2>2
  <1>3. m.type = type /\ m.seq = seq /\ m.text = k /\ m.totlen \in Nat
        /\ m.data = ReadBytes(rest, Min({m.totlen, CharMax}))
    BY <1>2 DEF Frame
  <1>4. from \in Nat /\ (seq + 1) * CharMax = from + CharMax
    BY <1>0
  <1>5. from + b <= n + 1 /\ b \in Nat /\ m.totlen <= n + 1 /\ from <= n
    <2>1. Shape(m, n)
      OBVIOUS
    <2>2. CASE type = "whole" \/ type = "first"
      <3>1. seq = 0 /\ from = 0 /\ m.totlen <= n + 1
        BY <1>0, <1>3, <2>1, <2>2 DEF Shape
      <3> HIDE DEF m, from, n
      <3> QED BY <1>0, <1>3, <3>1
    <2>3. CASE type = "middle"
      <3>1. n > from + CharMax /\ m.totlen = CharMax
        BY <1>3, <1>4, <2>1, <2>3 DEF Shape
      <3> HIDE DEF m, from, n
      <3> QED BY <1>0, <1>4, <3>1
    <2>4. CASE type = "last"
      <3>1. from <= n /\ n <= from + CharMax /\ m.totlen = n - from + 1
        BY <1>3, <1>4, <2>1, <2>4 DEF Shape
      <3> HIDE DEF m, from, n
      <3> QED BY <1>0, <1>4, <3>1
    <2> QED BY <2>2, <2>3, <2>4 DEF FrameTypes
  <1>6. seq \in 0..UCharMax
    <2> HIDE DEF m, n
    <2> QED BY <1>0, <1>5, NumberOfPiece
  <1> HIDE DEF m, from, n, rest
  <1>7. Min({m.totlen, CharMax}) = b
    BY <1>0, <1>3, MinOfTwo
  <1>8. /\ rest \in Seq(Byte) /\ Len(rest) = n + 1 - from
        /\ \A i \in 1..n+1-from : rest[i] = ByteAt(k, n, from + i)
    <2>1. \A i \in from+1..n+1 : Payload(k, n)[i] \in Byte
      BY <1>0, <1>1, <1>4, ElementOfSeq
    <2>2. /\ rest \in Seq(Byte)
          /\ Len(rest) = IF from + 1 <= n + 1 THEN n + 1 - (from + 1) + 1 ELSE 0
          /\ \A i \in 1..n+1-(from+1)+1 : rest[i] = Payload(k, n)[from + 1 + i - 1]
      BY <1>0, <1>1, <1>4, <2>1, SubSeqProperties DEF rest
    <2>3. n + 1 - (from + 1) + 1 = n + 1 - from /\ from + 1 <= n + 1
      BY <1>0, <1>4, <1>5
    <2>4. \A i \in 1..n+1-from : from + 1 + i - 1 = from + i /\ from + i \in 1..n+1
      BY <1>0, <1>4
    <2>5. \A i \in 1..n+1-from : rest[i] = ByteAt(k, n, from + i)
      BY <1>1, <2>2, <2>3, <2>4
    <2> QED BY <2>2, <2>3, <2>5
  <1>9. /\ m.data \in Seq(Byte) /\ Len(m.data) = b
        /\ \A i \in 1..b : m.data[i] = ByteAt(k, n, from + i)
    <2>1. b \in Nat /\ \A i \in 1..b : i <= Len(rest) /\ i \in 1..n+1-from
      BY SMTT(30), <1>0, <1>4, <1>5, <1>8
    <2> HIDE DEF b
    <2>2. /\ ReadBytes(rest, b) \in Seq(Byte) /\ Len(ReadBytes(rest, b)) = b
          /\ \A i \in 1..b : ReadBytes(rest, b)[i] = IF i <= Len(rest) THEN rest[i] ELSE Junk
      BY <1>8, <2>1, ByteType, ReadBytesType
    <2> QED BY <1>3, <1>7, <1>8, <2>1, <2>2
  <1>10. m \in Frames
    <2>1. m = [type |-> m.type, totlen |-> m.totlen, seq |-> m.seq, text |-> m.text,
               data |-> m.data]
      BY DEF m, Frame
    <2>2. m.totlen \in 0..UShortMax
      BY <1>0, <1>3, <1>5
    <2> QED BY <1>0, <1>3, <1>6, <1>9, <2>1, <2>2 DEF Frames
  <1>11. FrameSound(m, ts)
    BY <1>3, <1>9 DEF FrameSound, m, n, from
  <1> QED BY <1>3, <1>10, <1>11 DEF m, n

-----------------------------------------------------------------------------
(* The sending program: what each of its steps comes to.                   *)

Senders == [len : Lengths \cup {0}, length : Nat, i : 0..UCharMax]

(* Send makes frame m, which was due, and goes on to the one after it.      *)
Emits(m) ==
    /\ m \in Frames /\ FrameSound(m, texts')
    /\ \/ wire' = Append(wire, m) /\ lost' = lost
       \/ wire' = wire /\ lost' = lost \cup {LossOf(m)}
    /\ m.text = Due.text /\ m.seq = Due.seq /\ (Starts(m.type) <=> Starts(Due.type))
    /\ Due' = IF Ends(m.type) THEN Place("whole", m.text + 1, 0)
              ELSE Place("middle", m.text, m.seq + 1)
    /\ SenderSound' /\ sending' \in Senders

(* The texts sent so far stay as they are.                                  *)
TextsKept ==
    /\ texts' \in Seq(Lengths) /\ Len(texts') <= MaxTexts /\ Len(texts') >= Len(texts)
    /\ \A t \in 1..Len(texts) : texts'[t] = texts[t]

SendStep == TextsKept /\ UNCHANGED recvVars /\ \E m \in Frames : Emits(m)

(* A new text is the last one.                                              *)
LEMMA NewTextType ==
    ASSUME Sound, NEW n \in Lengths, NewText(n)
    PROVE  /\ TextsKept
           /\ Len(texts) \in Nat /\ Len(texts') = Len(texts) + 1 /\ texts'[Len(texts) + 1] = n
           /\ Due = Place("whole", Len(texts) + 1, 0)
  <1>1. texts \in Seq(Lengths) /\ texts' = Append(texts, n) /\ Len(texts) < MaxTexts
    BY TypeParts DEF Sound, NewText
  <1>2. /\ texts' \in Seq(Lengths) /\ Len(texts') = Len(texts) + 1 /\ Len(texts) \in Nat
        /\ texts'[Len(texts) + 1] = n /\ \A t \in 1..Len(texts) : texts'[t] = texts[t]
    BY <1>1, AppendProperties, LenProperties
  <1> QED BY SMTT(30), <1>1, <1>2, TextsAssumption DEF TextsKept, Due, NewText

(* make_frame, given a piece of the text sent last.                         *)
LEMMA MakeFrame ==
    ASSUME texts' \in Seq(Lengths), Len(texts') <= MaxTexts, NEW k \in 1..Len(texts'),
           NEW nlength \in Nat, NEW type \in FrameTypes, NEW seq \in Nat,
           make_frame(Payload(k, texts'[k]), nlength, type, seq),
           Shape(Frame(Payload(k, texts'[k]), nlength, type, seq), texts'[k])
    PROVE  \E m \in Frames :
              /\ FrameSound(m, texts')
              /\ \/ wire' = Append(wire, m) /\ lost' = lost
                 \/ wire' = wire /\ lost' = lost \cup {LossOf(m)}
              /\ m.type = type /\ m.seq = seq /\ m.text = k
  <1> DEFINE m == Frame(Payload(k, texts'[k]), nlength, type, seq)
  <1>1. /\ m \in Frames /\ FrameSound(m, texts')
        /\ m.type = type /\ m.seq = seq /\ m.text = k
    BY FrameType
  <1>2. \/ wire' = Append(wire, m) /\ lost' = lost
        \/ wire' = wire /\ lost' = lost \cup {[type |-> type, text |-> k]}
    <2>1. Payload(k, texts'[k])[1][2] = k
      BY <1>1 DEF Frame
    <2> QED BY <2>1 DEF make_frame
  <1> HIDE DEF m
  <1> QED BY <1>1, <1>2 DEF LossOf

(* SendWhole sends the one frame of a short text.                           *)
LEMMA SendWholeStep ==
    ASSUME Sound, NEW n \in Lengths, SendWhole(n)
    PROVE  SendStep
  <1> DEFINE k == Len(texts) + 1
             F == Frame(Payload(k, n), n, "whole", 0)
  <1>1. /\ TextsKept /\ k \in 1..Len(texts') /\ texts'[k] = n /\ k = Len(texts')
        /\ Due = Place("whole", k, 0) /\ n \in Nat /\ Len(texts) \in Nat
    BY NewTextType, TextsAssumption DEF SendWhole
  <1>2. Shape(F, n)
    <2>1. F.type = "whole" /\ F.totlen = n + 1 /\ F.seq = 0
      BY DEF Frame
    <2> HIDE DEF F
    <2> QED BY <2>1 DEF Shape, SendWhole
  <1>3. make_frame(Payload(k, n), n, "whole", 0) /\ sending' = sending
        /\ sending = NotSending /\ UNCHANGED recvVars
    BY DEF SendWhole, NewText
  <1> HIDE DEF k
  <1>4. PICK m \in Frames :
              /\ FrameSound(m, texts')
              /\ \/ wire' = Append(wire, m) /\ lost' = lost
                 \/ wire' = wire /\ lost' = lost \cup {LossOf(m)}
              /\ m.type = "whole" /\ m.seq = 0 /\ m.text = k
    BY <1>1, <1>2, <1>3, MakeFrame DEF TextsKept, FrameTypes
  <1>5. Due' = Place("whole", k + 1, 0)
    BY <1>1, <1>3 DEF Due
  <1>6. SenderSound' /\ sending' \in Senders
    BY <1>3 DEF SenderSound, Sound, TypeOK, Senders
  <1>7. Emits(m)
    BY <1>1, <1>4, <1>5, <1>6 DEF Emits, Starts, Ends, Place
  <1> QED BY <1>1, <1>3, <1>7 DEF SendStep

(* SendFirst sends the first piece of a long one.                           *)
LEMMA SendFirstStep ==
    ASSUME Sound, NEW n \in Lengths, SendFirst(n)
    PROVE  SendStep
  <1> DEFINE k == Len(texts) + 1
             F == Frame(Payload(k, n), n, "first", 0)
  <1>1. /\ TextsKept /\ k \in 1..Len(texts') /\ texts'[k] = n /\ k = Len(texts')
        /\ Due = Place("whole", k, 0) /\ n \in Nat /\ Len(texts) \in Nat
    BY NewTextType, TextsAssumption DEF SendFirst
  <1>2. Shape(F, n)
    <2>1. F.type = "first" /\ F.totlen = n /\ F.seq = 0
      BY DEF Frame
    <2> HIDE DEF F
    <2> QED BY <2>1 DEF Shape, SendFirst
  <1>3. make_frame(Payload(k, n), n, "first", 0)
        /\ sending' = [len |-> n, length |-> n - CharMax, i |-> 1] /\ n >= CharMax
        /\ UNCHANGED recvVars
    BY DEF SendFirst
  <1> HIDE DEF k
  <1>4. PICK m \in Frames :
              /\ FrameSound(m, texts')
              /\ \/ wire' = Append(wire, m) /\ lost' = lost
                 \/ wire' = wire /\ lost' = lost \cup {LossOf(m)}
              /\ m.type = "first" /\ m.seq = 0 /\ m.text = k
    BY <1>1, <1>2, <1>3, MakeFrame DEF TextsKept, FrameTypes
  <1>5. sending' # NotSending /\ sending'.len = n /\ sending'.i = 1
        /\ sending'.length = n - CharMax
    BY <1>3 DEF NotSending
  <1>6. Due' = Place("middle", k, 1)
    BY <1>1, <1>5 DEF Due
  <1>7. CharMax \in Nat \ {0} /\ 1 * CharMax = CharMax /\ n - CharMax \in Nat
    BY <1>1, <1>3, TextsAssumption
  <1>8. sending' \in Senders
    <2>1. 1 \in 0..UCharMax
      BY <1>1, <1>3, <1>7, NumberOfPiece
    <2> QED BY <1>3, <1>7, <2>1 DEF Senders
  <1>9. SenderSound'
    <2>1. texts' # <<>>
      BY <1>1
    <2> QED BY <1>1, <1>3, <1>5, <1>7, <2>1 DEF SenderSound
  <1>10. Emits(m)
    BY <1>1, <1>4, <1>6, <1>8, <1>9 DEF Emits, Starts, Ends, Place
  <1> QED BY <1>1, <1>3, <1>10 DEF SendStep

(* Between its frames Send knows its text.                                  *)
LEMMA SendingType ==
    ASSUME Sound, sending # NotSending, UNCHANGED texts
    PROVE  /\ TextsKept
           /\ texts' \in Seq(Lengths) /\ Len(texts) \in 1..Len(texts') /\ Len(texts) <= MaxTexts
           /\ sending.len \in Lengths /\ texts'[Len(texts)] = sending.len
           /\ sending.i \in Nat \ {0} /\ sending.length \in Nat
           /\ sending.len = sending.length + sending.i * CharMax
           /\ sending.i * CharMax \in Nat
           /\ (sending.i + 1) * CharMax = sending.i * CharMax + CharMax
           /\ Due = Place("middle", Len(texts), sending.i)
  <1>1. texts \in Seq(Lengths) /\ sending \in Senders /\ Len(texts) <= MaxTexts
    BY TypeParts DEF Sound, Senders
  <1>2. /\ texts # <<>> /\ sending.len = texts[Len(texts)]
        /\ sending.i > 0 /\ sending.length = sending.len - sending.i * CharMax
    BY DEF Sound, SenderSound
  <1>3. Len(texts) \in Nat \ {0}
    BY <1>1, <1>2, EmptySeq
  <1>4. sending.len \in Lengths
    BY <1>1, <1>2, <1>3, ElementOfSeq
  <1>5. CharMax \in Nat \ {0} /\ sending.i \in Nat \ {0} /\ sending.length \in Nat
        /\ sending.len \in Nat
    <2>1. CharMax \in Nat \ {0} /\ sending.len \in Nat
      BY <1>4, TextsAssumption
    <2>2. sending.i \in Nat \ {0} /\ sending.length \in Nat
      BY <1>1, <1>2, TextsAssumption DEF Senders
    <2> QED BY <2>1, <2>2
  <1>6. /\ sending.i * CharMax \in Nat
        /\ (sending.i + 1) * CharMax = sending.i * CharMax + CharMax
    BY <1>5
  <1>7. TextsKept
    BY <1>1, <1>3 DEF TextsKept
  <1>8. Due = Place("middle", Len(texts), sending.i)
    BY DEF Due
  <1> QED BY <1>1, <1>2, <1>3, <1>4, <1>5, <1>6, <1>7, <1>8

(* SendMiddle sends a full piece and counts down.                           *)
LEMMA SendMiddleStep ==
    ASSUME Sound, SendMiddle
    PROVE  SendStep
  <1> DEFINE k == Len(texts)
             n == sending.len
             F == Frame(Payload(k, n), CharMax, "middle", sending.i)
  <1>0. sending # NotSending /\ UNCHANGED texts /\ sending.length > CharMax
        /\ CharMax \in Nat \ {0} /\ sending \in Senders
    BY TextsAssumption, TypeParts DEF SendMiddle, Sound, Senders
  <1>1. /\ TextsKept
        /\ texts' \in Seq(Lengths) /\ k \in 1..Len(texts') /\ Len(texts) <= MaxTexts
        /\ n \in Lengths /\ texts'[k] = n
        /\ sending.i \in Nat \ {0} /\ sending.length \in Nat
        /\ n = sending.length + sending.i * CharMax
        /\ sending.i * CharMax \in Nat
        /\ (sending.i + 1) * CharMax = sending.i * CharMax + CharMax
        /\ Due = Place("middle", k, sending.i)
    BY <1>0, SendingType
  <1>2. Shape(F, n)
    <2>1. F.type = "middle" /\ F.totlen = CharMax /\ F.seq = sending.i
      BY DEF Frame
    <2>2. n > (sending.i + 1) * CharMax /\ sending.i > 0
      BY <1>0, <1>1
    <2> HIDE DEF F, n
    <2> QED BY <2>1, <2>2 DEF Shape
  <1>3. /\ make_frame(Payload(k, n), CharMax, "middle", sending.i)
        /\ sending' = [sending EXCEPT !.length = sending.length - CharMax,
                                      !.i = sending.i + 1]
        /\ UNCHANGED recvVars
    BY DEF SendMiddle
  <1> HIDE DEF k, n
  <1>4. PICK m \in Frames :
              /\ FrameSound(m, texts')
              /\ \/ wire' = Append(wire, m) /\ lost' = lost
                 \/ wire' = wire /\ lost' = lost \cup {LossOf(m)}
              /\ m.type = "middle" /\ m.seq = sending.i /\ m.text = k
    <2>1. /\ make_frame(Payload(k, texts'[k]), CharMax, "middle", sending.i)
          /\ Shape(Frame(Payload(k, texts'[k]), CharMax, "middle", sending.i), texts'[k])
      BY <1>1, <1>2, <1>3
    <2>2. CharMax \in Nat /\ sending.i \in Nat /\ "middle" \in FrameTypes
          /\ texts' \in Seq(Lengths) /\ Len(texts') <= MaxTexts /\ k \in 1..Len(texts')
      BY <1>0, <1>1 DEF TextsKept, FrameTypes
    <2> QED BY <2>1, <2>2, MakeFrame
  <1>5. /\ sending'.len = n /\ sending'.i = sending.i + 1
        /\ sending'.length = sending.length - CharMax /\ sending' # NotSending
    <2>1. /\ sending'.len = n /\ sending'.i = sending.i + 1
          /\ sending'.length = sending.length - CharMax
      BY <1>0, <1>3 DEF Senders, n
    <2>2. sending'.i # 0 /\ NotSending.i = 0
      BY <1>1, <2>1 DEF NotSending
    <2> QED BY <2>1, <2>2
  <1>6. Due' = Place("middle", k, sending.i + 1)
    BY <1>0, <1>5 DEF Due, k
  <1>7. sending' \in Senders
    <2>1. sending.i + 1 \in 0..UCharMax
      <3>1. (sending.i + 1) * CharMax <= n /\ sending.i + 1 \in Nat
        <4>1. n \in Nat
          BY <1>1, TextsAssumption
        <4> QED BY SMTT(30), <1>0, <1>1, <4>1
      <3> QED BY <1>1, <3>1, NumberOfPiece
    <2>2. sending.length - CharMax \in Nat
      BY <1>0, <1>1
    <2> QED BY <1>0, <1>3, <2>1, <2>2 DEF Senders
  <1>8. SenderSound'
    <2>1. texts' # <<>> /\ texts'[Len(texts')] = n
      BY <1>0, <1>1 DEF k
    <2>2. /\ (sending.i + 1) * CharMax <= n /\ sending.i + 1 > 0
          /\ sending.length - CharMax = n - (sending.i + 1) * CharMax
      <3>1. n \in Nat
        BY <1>1, TextsAssumption
      <3>2. (sending.i + 1) * CharMax <= n /\ sending.i + 1 > 0
        BY <1>0, <1>1, <3>1
      <3>3. \A a, b, c \in Int : b - c = (b + a) - (a + c)
        OBVIOUS
      <3>4. sending.length - CharMax
              = (sending.length + sending.i * CharMax) - (sending.i * CharMax + CharMax)
        BY SMTT(30), <1>0, <1>1, <3>3
      <3> QED BY <1>1, <3>2, <3>4
    <2> QED BY <1>5, <2>1, <2>2 DEF SenderSound
  <1>9. Emits(m)
    BY <1>1, <1>4, <1>6, <1>7, <1>8 DEF Emits, Starts, Ends, Place
  <1> QED BY <1>1, <1>3, <1>9 DEF SendStep

(* SendLast sends the rest of the text and what fits of its NUL.            *)
LEMMA SendLastStep ==
    ASSUME Sound, SendLast
    PROVE  SendStep
  <1> DEFINE k == Len(texts)
             n == sending.len
             F == Frame(Payload(k, n), sending.length, "last", sending.i)
  <1>0. sending # NotSending /\ UNCHANGED texts /\ sending.length <= CharMax
        /\ CharMax \in Nat \ {0}
    BY TextsAssumption DEF SendLast
  <1>1. /\ TextsKept
        /\ texts' \in Seq(Lengths) /\ k \in 1..Len(texts') /\ Len(texts) <= MaxTexts
        /\ n \in Lengths /\ texts'[k] = n
        /\ sending.i \in Nat \ {0} /\ sending.length \in Nat
        /\ n = sending.length + sending.i * CharMax
        /\ sending.i * CharMax \in Nat
        /\ (sending.i + 1) * CharMax = sending.i * CharMax + CharMax
        /\ Due = Place("middle", k, sending.i)
    BY <1>0, SendingType
  <1>2. Shape(F, n)
    <2>1. F.type = "last" /\ F.totlen = sending.length + 1 /\ F.seq = sending.i
      BY DEF Frame
    <2>2. /\ sending.i * CharMax <= n /\ n <= (sending.i + 1) * CharMax /\ sending.i > 0
          /\ sending.length + 1 = n - sending.i * CharMax + 1
      BY SMTT(30), <1>0, <1>1
    <2> HIDE DEF F, n
    <2> QED BY <2>1, <2>2 DEF Shape
  <1>3. /\ make_frame(Payload(k, n), sending.length, "last", sending.i)
        /\ sending' = NotSending /\ UNCHANGED recvVars
    BY DEF SendLast
  <1> HIDE DEF k, n
  <1>4. PICK m \in Frames :
              /\ FrameSound(m, texts')
              /\ \/ wire' = Append(wire, m) /\ lost' = lost
                 \/ wire' = wire /\ lost' = lost \cup {LossOf(m)}
              /\ m.type = "last" /\ m.seq = sending.i /\ m.text = k
    <2>1. /\ make_frame(Payload(k, texts'[k]), sending.length, "last", sending.i)
          /\ Shape(Frame(Payload(k, texts'[k]), sending.length, "last", sending.i), texts'[k])
      BY <1>1, <1>2, <1>3
    <2>2. sending.length \in Nat /\ sending.i \in Nat /\ "last" \in FrameTypes
          /\ texts' \in Seq(Lengths) /\ Len(texts') <= MaxTexts /\ k \in 1..Len(texts')
      BY <1>0, <1>1 DEF TextsKept, FrameTypes
    <2> QED BY <2>1, <2>2, MakeFrame
  <1>5. Due' = Place("whole", k + 1, 0)
    BY <1>0, <1>3 DEF Due, k
  <1>6. SenderSound' /\ sending' \in Senders
    BY <1>3, TextsAssumption DEF SenderSound, Senders, NotSending
  <1>7. Emits(m)
    BY <1>1, <1>4, <1>5, <1>6 DEF Emits, Starts, Ends, Place
  <1> QED BY <1>1, <1>3, <1>7 DEF SendStep

-----------------------------------------------------------------------------
(* Whatever is lost: types, and bytes at their places.                     *)

(* What was sound stays so when the user sends another text.                *)
LEMMA SoundWithMore ==
    ASSUME texts \in Seq(Lengths), TextsKept
    PROVE  /\ \A m : FrameSound(m, texts) => FrameSound(m, texts')
           /\ \A b, p : InText(b, p, texts) => InText(b, p, texts')
  <1>1. /\ Len(texts) \in Nat /\ Len(texts') \in Nat /\ Len(texts') >= Len(texts)
        /\ DOMAIN texts = 1..Len(texts) /\ DOMAIN texts' = 1..Len(texts')
        /\ \A t \in 1..Len(texts) : t \in 1..Len(texts') /\ texts'[t] = texts[t]
    BY LenProperties DEF TextsKept
  <1>2. ASSUME NEW m, FrameSound(m, texts) PROVE FrameSound(m, texts')
    <2>1. m.text \in 1..Len(texts') /\ texts'[m.text] = texts[m.text]
      BY <1>1, <1>2 DEF FrameSound
    <2> QED BY <1>2, <2>1 DEF FrameSound
  <1>3. ASSUME NEW b, NEW p, InText(b, p, texts) PROVE InText(b, p, texts')
    BY <1>1, <1>3 DEF InText
  <1> QED BY <1>2, <1>3

(* A step of Send keeps everything sound.                                   *)
LEMMA SendKeepsSound == Sound /\ SendStep => Sound'
  <1> SUFFICES ASSUME Sound, SendStep PROVE Sound'
    OBVIOUS
  <1>1. PICK m \in Frames : Emits(m)
    BY DEF SendStep
  <1>2. TypeOK /\ TextsKept /\ UNCHANGED recvVars /\ wire \in Seq(Frames)
        /\ texts \in Seq(Lengths) /\ lost \subseteq Losses
    BY TypeParts DEF Sound, SendStep
  <1>3. lost' \subseteq Losses
    BY <1>1, <1>2 DEF Emits, Frames, Losses, LossOf
  <1>4. wire' \in Seq(Frames) /\ \A k \in 1..Len(wire') : FrameSound(wire'[k], texts')
    <2>1. \A k \in 1..Len(wire) : FrameSound(wire[k], texts')
      BY <1>2, SoundWithMore DEF Sound
    <2>2. CASE wire' = wire
      BY <1>2, <2>1, <2>2
    <2>3. CASE wire' = Append(wire, m)
      <3>1. /\ wire' \in Seq(Frames) /\ Len(wire') = Len(wire) + 1 /\ Len(wire) \in Nat
            /\ \A k \in 1..Len(wire) : wire'[k] = wire[k]
            /\ wire'[Len(wire) + 1] = m
        BY <1>2, <2>3, AppendProperties, LenProperties
      <3> QED BY <1>1, <2>1, <3>1 DEF Emits
    <2> QED BY <1>1, <2>2, <2>3 DEF Emits
  <1>5. TypeOK'
    BY <1>1, <1>2, <1>3, <1>4 DEF TypeOK, TextsKept, Frames, Emits, Senders, recvVars, Losses
  <1>6. /\ PiecesSound' /\ \A q \in 1..Len(box') : InText(box'[q], q, texts')
        /\ \A k \in 1..Len(shown') : \A q \in 1..Len(shown'[k]) : InText(shown'[k][q], q, texts')
    BY <1>2, SoundWithMore DEF Sound, PiecesSound, recvVars
  <1>7. SenderSound' /\ Len(texts') <= MaxTexts
    BY <1>1, <1>2 DEF Emits, TextsKept
  <1> QED BY <1>4, <1>5, <1>6, <1>7 DEF Sound

(* The frame Receive takes, and those left on the wire, are sound.          *)
LEMMA ReceivingType ==
    ASSUME Sound, NEW type, Receiving(type)
    PROVE  /\ Head(wire) \in Frames /\ FrameSound(Head(wire), texts)
           /\ Head(wire).type = type
           /\ texts[Head(wire).text] \in Lengths
           /\ wire' \in Seq(Frames) /\ \A k \in 1..Len(wire') : FrameSound(wire'[k], texts)
           /\ box = <<>> /\ UNCHANGED <<sending, texts, lost>>
  <1>1. wire \in Seq(Frames) /\ wire # <<>> /\ wire' = Tail(wire) /\ texts \in Seq(Lengths)
    BY TypeParts DEF Receiving, Sound
  <1>2. /\ Head(wire) \in Frames /\ wire' \in Seq(Frames) /\ Head(wire) = wire[1]
        /\ Len(wire) \in Nat \ {0} /\ Len(wire') = Len(wire) - 1
        /\ \A k \in 1..Len(wire') : wire'[k] = wire[k + 1]
    BY <1>1, HeadTailProperties, EmptySeq
  <1>3. 1 \in 1..Len(wire) /\ \A k \in 1..Len(wire') : k + 1 \in 1..Len(wire)
    BY <1>2
  <1>4. FrameSound(Head(wire), texts)
    BY <1>2, <1>3 DEF Sound
  <1>5. texts[Head(wire).text] \in Lengths
    BY <1>1, <1>4, ElementOfSeq DEF FrameSound
  <1>6. \A k \in 1..Len(wire') : FrameSound(wire'[k], texts)
    BY <1>2, <1>3 DEF Sound
  <1> QED BY <1>2, <1>4, <1>5, <1>6 DEF Receiving, sendVars

(* The bytes of a piece are those of its text.                              *)
LEMMA FrameBytes ==
    ASSUME NEW m \in Frames, m.text \in 1..Len(texts), texts \in Seq(Lengths),
           FrameSound(m, texts), NEW p \in 1..Len(m.data), p <= CharMax,
           m.seq * CharMax + p <= texts[m.text]
    PROVE  /\ m.data[p] = <<"text", m.text, m.seq * CharMax + p>>
           /\ InText(m.data[p], p, texts)
  <1> DEFINE i == m.seq * CharMax + p
  <1>1. m.seq \in Nat /\ CharMax \in Nat \ {0} /\ m.seq * CharMax \in Nat /\ p \in 1..CharMax
        /\ texts[m.text] \in Nat
    <2>1. texts[m.text] \in Lengths
      BY ElementOfSeq
    <2>2. m.seq \in Nat /\ CharMax \in Nat \ {0}
      BY Sizes DEF Frames
    <2>3. texts[m.text] \in Nat
      BY <2>1, Sizes
    <2>4. m.seq * CharMax \in Nat
      BY <2>2
    <2>5. p \in 1..CharMax
      BY <2>2
    <2> QED BY <2>2, <2>3, <2>4, <2>5
  <1>2. m.data[p] = <<"text", m.text, i>>
    BY DEF FrameSound, ByteAt
  <1>3. i % CharMax = p % CharMax
    BY <1>1, PlaceInPiece
  <1>4. i \in 1..texts[m.text] /\ m.text \in DOMAIN texts
    BY SMTT(30), <1>1, LenProperties
  <1> HIDE DEF i
  <1>5. InText(m.data[p], p, texts)
    BY <1>2, <1>3, <1>4 DEF InText
  <1> QED BY <1>2, <1>5 DEF i

(* A first or middle frame is full.                                         *)
LEMMA FullFrame ==
    ASSUME NEW m \in Frames, texts \in Seq(Lengths), FrameSound(m, texts),
           m.type \in {"first", "middle"}
    PROVE  /\ Len(m.data) = CharMax /\ m.seq \in Nat
           /\ (m.seq + 1) * CharMax <= texts[m.text]
           /\ ReadBytes(m.data, CharMax) \in [1..CharMax -> Byte]
           /\ \A p \in 1..CharMax :
                /\ ReadBytes(m.data, CharMax)[p] = <<"text", m.text, m.seq * CharMax + p>>
                /\ InText(ReadBytes(m.data, CharMax)[p], p, texts)
  <1> DEFINE n == texts[m.text]
  <1>1. /\ m.seq \in Nat /\ CharMax \in Nat \ {0} /\ m.data \in Seq(Byte) /\ n \in Nat
        /\ m.totlen \in Nat
    <2>1. n \in Lengths
      BY ElementOfSeq DEF FrameSound
    <2> QED BY <2>1, Sizes DEF Frames
  <1>2. (m.seq + 1) * CharMax = m.seq * CharMax + CharMax /\ m.seq * CharMax \in Nat
    BY <1>1
  <1>3. (m.seq + 1) * CharMax <= n /\ m.totlen >= CharMax
    <2>1. CASE m.type = "first"
      <3>1. n >= CharMax /\ m.seq = 0 /\ m.totlen = n
        BY <2>1 DEF FrameSound, Shape
      <3> QED BY <1>1, <1>2, <3>1
    <2>2. CASE m.type = "middle"
      <3>1. n > (m.seq + 1) * CharMax /\ m.totlen = CharMax
        BY <2>2 DEF FrameSound, Shape
      <3> HIDE DEF n
      <3> QED BY <1>1, <1>2, <3>1
    <2> QED BY <2>1, <2>2
  <1>4. Len(m.data) = CharMax
    <2>1. Len(m.data) = IF m.totlen <= CharMax THEN m.totlen ELSE CharMax
      BY DEF FrameSound
    <2> QED BY <1>1, <1>3, <2>1
  <1>5. /\ ReadBytes(m.data, CharMax) \in [1..CharMax -> Byte]
        /\ \A p \in 1..CharMax : ReadBytes(m.data, CharMax)[p] = m.data[p]
    <2>1. /\ ReadBytes(m.data, CharMax) \in [1..CharMax -> Byte]
          /\ \A p \in 1..CharMax : ReadBytes(m.data, CharMax)[p] =
                IF p <= Len(m.data) THEN m.data[p] ELSE Junk
      <3>1. PICK d \in Seq(Byte) : d = m.data
        BY <1>1
      <3>2. PICK c \in Nat : c = CharMax
        BY <1>1
      <3>3. Junk \in Byte
        BY ByteType
      <3>4. /\ ReadBytes(d, c) \in [1..c -> Byte]
            /\ \A p \in 1..c : ReadBytes(d, c)[p] = IF p <= Len(d) THEN d[p] ELSE Junk
        BY ONLY <3>3, ReadBytesType
      <3> QED BY <3>1, <3>2, <3>4
    <2>2. \A p \in 1..CharMax : p <= Len(m.data)
      BY <1>1, <1>4
    <2> QED BY <2>1, <2>2
  <1>6. \A p \in 1..CharMax : p <= CharMax /\ m.seq * CharMax + p <= n
    <2> HIDE DEF n
    <2> QED BY <1>1, <1>2, <1>3
  <1>7. m.text \in 1..Len(texts)
    BY DEF FrameSound
  <1>8. \A p \in 1..CharMax :
            /\ m.data[p] = <<"text", m.text, m.seq * CharMax + p>>
            /\ InText(m.data[p], p, texts)
    BY <1>4, <1>6, <1>7, FrameBytes
  <1> QED BY <1>1, <1>3, <1>4, <1>5, <1>8

-----------------------------------------------------------------------------
(* The receiving program: the list of pieces.                              *)

(* The piece that Receive makes of a frame.                                 *)
NewPiece(data, seq) == [data |-> ReadBytes(data, CharMax), seq |-> seq]

(* InsertAt keeps every element and adds one.                               *)
LEMMA InsertAtType ==
    ASSUME NEW S, NEW s \in Seq(S), NEW e \in S, NEW i \in 1..Len(s)+1
    PROVE  /\ InsertAt(s, i, e) \in Seq(S)
           /\ Len(InsertAt(s, i, e)) = Len(s) + 1
           /\ \A j \in 1..Len(s)+1 : InsertAt(s, i, e)[j] =
                IF j < i THEN s[j] ELSE IF j = i THEN e ELSE s[j - 1]
  <1> DEFINE n == Len(s)
             s1 == SubSeq(s, 1, i - 1)
             s2 == <<e>>
             s3 == SubSeq(s, i, n)
             s12 == s1 \o s2
  <1>1. n \in Nat /\ i \in Int /\ 1 <= i /\ i <= n + 1 /\ i - 1 \in Nat
    BY LenProperties
  <1>2. InsertAt(s, i, e) = s12 \o s3
    BY DEF InsertAt
  <1>3. s1 \in Seq(S) /\ Len(s1) = i - 1 /\ \A j \in 1..i-1 : s1[j] = s[j]
    <2>1. \A j \in 1..i-1 : s[j] \in S
      BY <1>1, ElementOfSeq
    <2>2. /\ s1 \in Seq(S) /\ Len(s1) = IF 1 <= i - 1 THEN i - 1 - 1 + 1 ELSE 0
          /\ \A j \in 1..i-1-1+1 : s1[j] = s[1 + j - 1]
      BY <1>1, <2>1, SubSeqProperties
    <2> HIDE DEF s1, n
    <2>3. Len(s1) = i - 1
      BY <1>1, <2>2
    <2>4. \A j \in 1..i-1 : j \in 1..i-1-1+1 /\ 1 + j - 1 = j
      BY <1>1
    <2> QED BY <2>2, <2>3, <2>4
  <1>4. s3 \in Seq(S) /\ Len(s3) = n - i + 1 /\ \A j \in 1..n-i+1 : s3[j] = s[i + j - 1]
    <2>1. \A j \in i..n : s[j] \in S
      BY <1>1, ElementOfSeq
    <2>2. /\ s3 \in Seq(S) /\ Len(s3) = IF i <= n THEN n - i + 1 ELSE 0
          /\ \A j \in 1..n-i+1 : s3[j] = s[i + j - 1]
      BY <1>1, <2>1, SubSeqProperties
    <2> HIDE DEF s3, n
    <2>3. Len(s3) = n - i + 1
      BY <1>1, <2>2
    <2> QED BY <2>2, <2>3
  <1>5. s2 \in Seq(S) /\ Len(s2) = 1 /\ s2[1] = e
    OBVIOUS
  <1> HIDE DEF s1, s2, s3, n
  <1>6. /\ s12 \in Seq(S) /\ Len(s12) = Len(s1) + Len(s2)
        /\ \A j \in 1..Len(s1)+Len(s2) : s12[j] = IF j <= Len(s1) THEN s1[j] ELSE s2[j - Len(s1)]
    BY <1>3, <1>5, ConcatProperties
  <1> HIDE DEF s12
  <1>7. /\ s12 \o s3 \in Seq(S) /\ Len(s12 \o s3) = Len(s12) + Len(s3)
        /\ \A j \in 1..Len(s12)+Len(s3) :
              (s12 \o s3)[j] = IF j <= Len(s12) THEN s12[j] ELSE s3[j - Len(s12)]
    <2>1. s12 \in Seq(S) /\ s3 \in Seq(S)
      BY <1>4, <1>6
    <2> QED BY <2>1, ConcatProperties
  <1>8. Len(s12) = i /\ Len(s12) + Len(s3) = n + 1
    BY <1>1, <1>3, <1>4, <1>5, <1>6
  <1>9. ASSUME NEW j \in 1..n+1
        PROVE  (s12 \o s3)[j] = IF j < i THEN s[j] ELSE IF j = i THEN e ELSE s[j - 1]
    <2>0. (s12 \o s3)[j] = IF j <= i THEN s12[j] ELSE s3[j - i]
      BY <1>7, <1>8, <1>9
    <2>1. CASE j < i
      <3>1. j \in 1..i-1 /\ j \in 1..Len(s1)+Len(s2) /\ j <= Len(s1) /\ j <= i
        BY <1>1, <1>3, <1>5, <2>1
      <3> QED BY <1>3, <1>6, <2>0, <2>1, <3>1
    <2>2. CASE j = i
      <3>1. j \in 1..Len(s1)+Len(s2) /\ ~(j <= Len(s1)) /\ j - Len(s1) = 1 /\ j <= i /\ ~(j < i)
        BY <1>1, <1>3, <1>5, <2>2
      <3> QED BY <1>5, <1>6, <2>0, <2>2, <3>1
    <2>3. CASE j > i
      <3>1. j - i \in 1..n-i+1 /\ i + (j - i) - 1 = j - 1 /\ ~(j <= i) /\ ~(j < i) /\ j # i
        BY <1>1, <2>3
      <3> QED BY <1>4, <2>0, <3>1
    <2>4. j < i \/ j = i \/ j > i
      BY <1>1
    <2> QED BY <2>1, <2>2, <2>3, <2>4
  <1> QED BY <1>2, <1>7, <1>8, <1>9 DEF n

(* Where add puts a piece.                                                  *)
LEMMA AddPlace ==
    ASSUME list \in Seq(Piece), NEW data, NEW seq, add(data, seq)
    PROVE  \E i \in 1..Len(list)+1 :
              /\ list' = InsertAt(list, i, NewPiece(data, seq))
              /\ (\A j \in 1..Len(list) : list[j].seq < seq) => i = Len(list) + 1
  <1> DEFINE n == Len(list)
             before == {j \in 0..n : \A i \in 1..j : list[i].seq < seq}
             b == Max(before)
  <1>1. list' = InsertAt(list, b + 1, NewPiece(data, seq))
    BY DEF add, NewPiece
  <1>2. n \in Nat
    BY LenProperties
  <1>3. before \subseteq 0..n /\ 0 \in before
    BY <1>2
  <1>4. (\A j \in 1..n : list[j].seq < seq) => n \in before
    BY <1>2
  <1> HIDE DEF before
  <1>5. b \in before /\ \A j \in before : j <= b
    <2>1. before # {}
      BY <1>3
    <2> QED BY <1>2, <1>3, <2>1, MaxOfBounded
  <1> HIDE DEF b, n
  <1>6. b + 1 \in 1..n+1 /\ (n \in before => b + 1 = n + 1)
    BY <1>2, <1>3, <1>5
  <1> QED BY <1>1, <1>4, <1>6 DEF n

(* add puts the piece in somewhere; all others stay.                        *)
LEMMA AddType ==
    ASSUME list \in Seq(Piece), NEW data, NEW seq, NewPiece(data, seq) \in Piece,
           add(data, seq)
    PROVE  /\ list' \in Seq(Piece)
           /\ \A j \in 1..Len(list') :
                list'[j] = NewPiece(data, seq) \/ \E i \in 1..Len(list) : list'[j] = list[i]
  <1> DEFINE e == NewPiece(data, seq)
             n == Len(list)
  <1>1. PICK i \in 1..n+1 : list' = InsertAt(list, i, e)
    BY AddPlace
  <1>2. n \in Nat
    BY LenProperties
  <1>3. /\ list' \in Seq(Piece) /\ Len(list') = n + 1
        /\ \A j \in 1..n+1 : list'[j] = IF j < i THEN list[j] ELSE IF j = i THEN e ELSE list[j - 1]
    <2> HIDE DEF e
    <2>1. e \in Piece /\ i \in 1..Len(list)+1
      BY DEF e
    <2>2. /\ InsertAt(list, i, e) \in Seq(Piece) /\ Len(InsertAt(list, i, e)) = Len(list) + 1
          /\ \A j \in 1..Len(list)+1 : InsertAt(list, i, e)[j] =
                IF j < i THEN list[j] ELSE IF j = i THEN e ELSE list[j - 1]
      BY <2>1, InsertAtType
    <2> QED BY <1>1, <2>2
  <1> HIDE DEF e, n
  <1>4. ASSUME NEW j \in 1..n+1
        PROVE  list'[j] = e \/ \E k \in 1..n : list'[j] = list[k]
    <2>1. CASE j < i
      <3>1. j \in 1..n
        BY <1>1, <1>2, <2>1
      <3> QED BY <1>3, <2>1, <3>1
    <2>2. CASE j = i
      BY <1>2, <1>3, <2>2
    <2>3. CASE j > i
      <3>1. j - 1 \in 1..n /\ ~(j < i) /\ j # i
        BY <1>1, <1>2, <2>3
      <3> QED BY <1>3, <3>1
    <2> QED BY <1>1, <1>2, <2>1, <2>2, <2>3
  <1> QED BY <1>3, <1>4 DEF e, n

(* A piece that is next goes to the end of the list.                        *)
LEMMA AddNext ==
    ASSUME list \in Seq(Piece), NEW data, NEW seq, NewPiece(data, seq) \in Piece,
           add(data, seq), \A i \in 1..Len(list) : list[i].seq < seq
    PROVE  list' = Append(list, NewPiece(data, seq))
  <1> DEFINE e == NewPiece(data, seq)
             n == Len(list)
  <1>1. PICK i \in 1..n+1 : list' = InsertAt(list, i, e) /\ i = n + 1
    BY AddPlace
  <1>2. n \in Nat /\ n + 1 \in 1..n+1 /\ e \in Piece
    BY LenProperties
  <1> HIDE DEF e
  <1>3. /\ list' \in Seq(Piece) /\ Len(list') = n + 1
        /\ \A j \in 1..n+1 : list'[j] = IF j < i THEN list[j] ELSE IF j = i THEN e ELSE list[j - 1]
    <2>1. i \in 1..Len(list)+1
      BY <1>1
    <2>2. /\ InsertAt(list, i, e) \in Seq(Piece)
          /\ Len(InsertAt(list, i, e)) = Len(list) + 1
          /\ \A j \in 1..Len(list)+1 : InsertAt(list, i, e)[j] =
                IF j < i THEN list[j] ELSE IF j = i THEN e ELSE list[j - 1]
      BY <1>2, <2>1, InsertAtType
    <2> QED BY <1>1, <2>2
  <1>4. /\ Append(list, e) \in Seq(Piece) /\ Len(Append(list, e)) = n + 1
        /\ \A j \in 1..n : Append(list, e)[j] = list[j]
        /\ Append(list, e)[n + 1] = e
    BY <1>2, AppendProperties
  <1> HIDE DEF n
  <1>5. \A j \in 1..n+1 : list'[j] = Append(list, e)[j]
    <2>1. \A j \in 1..n+1 : (j = i /\ ~(j < i)) \/ (j \in 1..n /\ j < i)
      BY <1>1, <1>2
    <2> QED BY <1>1, <1>2, <1>3, <1>4, <2>1
  <1> QED BY <1>3, <1>4, <1>5, SeqEqual DEF e

-----------------------------------------------------------------------------
(* The receiving program: what it shows.                                   *)

(* A byte that stands in a text is a byte, and not the NUL.                 *)
LEMMA InTextByte ==
    ASSUME texts \in Seq(Lengths), Len(texts) <= MaxTexts, NEW b, NEW p, InText(b, p, texts)
    PROVE  b \in Byte /\ b # NUL
  <1>1. PICK t \in 1..Len(texts) : \E i \in 1..texts[t] : b = <<"text", t, i>>
    BY DEF InText
  <1>2. PICK i \in 1..texts[t] : b = <<"text", t, i>>
    BY <1>1
  <1>3. t \in 1..MaxTexts /\ texts[t] \in Lengths
    <2>1. Len(texts) \in Nat /\ texts[t] \in Lengths
      BY ElementOfSeq, LenProperties
    <2> QED BY <2>1, Sizes
  <1>4. b \in Byte
    BY <1>2, <1>3, ByteType
  <1>5. b # NUL
    BY <1>2 DEF NUL
  <1> QED BY <1>4, <1>5

(* What stands in a text at place p stands there at every place of the same *)
(* number in its piece.                                                     *)
LEMMA InTextAt ==
    ASSUME NEW b, NEW s \in Nat, NEW p \in 1..CharMax, InText(b, p, texts)
    PROVE  InText(b, s * CharMax + p, texts)
  <1>1. (s * CharMax + p) % CharMax = p % CharMax
    BY Sizes, PlaceInPiece
  <1> QED BY <1>1 DEF InText

(* A text sent is made of bytes that stand where they should.               *)
LEMMA TextType ==
    ASSUME texts \in Seq(Lengths), Len(texts) <= MaxTexts, NEW k \in 1..Len(texts)
    PROVE  /\ texts[k] \in Lengths /\ texts[k] \in Nat \ {0}
           /\ Text(k, texts[k]) \in Seq(Byte) /\ Len(Text(k, texts[k])) = texts[k]
           /\ \A i \in 1..texts[k] :
                /\ Text(k, texts[k])[i] = <<"text", k, i>>
                /\ InText(Text(k, texts[k])[i], i, texts)
  <1>1. texts[k] \in Lengths /\ k \in 1..MaxTexts
    <2>1. Len(texts) \in Nat /\ texts[k] \in Lengths
      BY ElementOfSeq, LenProperties
    <2> QED BY <2>1, Sizes
  <1>2. /\ Text(k, texts[k]) \in Seq(Byte) /\ Len(Text(k, texts[k])) = texts[k]
        /\ \A i \in 1..texts[k] : Text(k, texts[k])[i] = <<"text", k, i>>
    BY <1>1, PayloadType
  <1>3. \A i \in 1..texts[k] : InText(Text(k, texts[k])[i], i, texts)
    BY <1>2 DEF InText
  <1> QED BY <1>1, <1>2, <1>3, Sizes

(* An uncut text is shown as it was typed.                                  *)
LEMMA WholeText ==
    ASSUME texts \in Seq(Lengths), Len(texts) <= MaxTexts,
           NEW m \in Frames, FrameSound(m, texts), m.type = "whole"
    PROVE  CString(ReadBytes(m.data, m.totlen)) = Text(m.text, texts[m.text])
  <1> DEFINE k == m.text
             n == texts[k]
             name == Text(k, n)
             buf == ReadBytes(m.data, n + 1)
  <1>1. k \in 1..Len(texts)
    BY DEF FrameSound
  <1>2. /\ n \in Nat \ {0} /\ name \in Seq(Byte) /\ Len(name) = n
        /\ \A i \in 1..n : name[i] = <<"text", k, i>> /\ InText(name[i], i, texts)
    BY <1>1, TextType
  <1>3. n < CharMax /\ m.seq = 0 /\ m.totlen = n + 1
    BY DEF FrameSound, Shape
  <1>4. m.data \in Seq(Byte) /\ Len(m.data) = n + 1
        /\ \A p \in 1..n+1 : m.data[p] = ByteAt(k, n, p)
    <2>1. Len(m.data) = n + 1
      <3>1. Len(m.data) = IF m.totlen <= CharMax THEN m.totlen ELSE CharMax
        BY DEF FrameSound
      <3> HIDE DEF n
      <3> QED BY <1>2, <1>3, <3>1, Sizes
    <2>2. \A p \in 1..n+1 : m.data[p] = ByteAt(k, n, m.seq * CharMax + p)
      BY <2>1 DEF FrameSound
    <2>3. \A p \in 1..n+1 : m.seq * CharMax + p = p
      <3> HIDE DEF n
      <3> QED BY <1>2, <1>3, Sizes
    <2>4. m.data \in Seq(Byte)
      BY DEF Frames
    <2> QED BY <2>1, <2>2, <2>3, <2>4
  <1>5. buf \in Seq(Byte) /\ Len(buf) = n + 1 /\ \A i \in 1..n+1 : buf[i] = ByteAt(k, n, i)
    <2> HIDE DEF n
    <2>1. PICK d \in Seq(Byte) : d = m.data
      BY <1>4
    <2>2. Junk \in Byte
      BY ByteType
    <2>3. PICK l \in Nat : l = n + 1
      BY <1>2
    <2>4. /\ ReadBytes(d, l) \in Seq(Byte) /\ Len(ReadBytes(d, l)) = l
          /\ \A i \in 1..l : ReadBytes(d, l)[i] = IF i <= Len(d) THEN d[i] ELSE Junk
      BY ONLY <2>2, ReadBytesType
    <2>5. \A i \in 1..l : i <= Len(d) /\ d[i] = ByteAt(k, n, i)
      BY <1>2, <1>4, <2>1, <2>3
    <2> QED BY <2>1, <2>3, <2>4, <2>5
  <1>6. \A i \in 1..n : buf[i] = name[i] /\ name[i] # NUL
    <2>1. \A i \in 1..n : name[i] # NUL
      BY <1>2, InTextByte
    <2>2. \A i \in 1..n : i \in 1..n+1 /\ i <= n
      BY <1>2
    <2> QED BY <1>2, <1>5, <2>1, <2>2 DEF ByteAt
  <1>7. buf[n + 1] = NUL
    <2>1. n + 1 \in 1..n+1 /\ ~(n + 1 <= n)
      BY <1>2
    <2> QED BY <1>5, <2>1 DEF ByteAt
  <1>8. CString(buf) = name
    <2> HIDE DEF buf, name, n
    <2>1. Len(buf) > Len(name) /\ buf[Len(name) + 1] = NUL
          /\ \A i \in 1..Len(name) : buf[i] = name[i] /\ name[i] # NUL
      BY <1>2, <1>5, <1>6, <1>7
    <2>2. buf \in Seq(Byte) /\ name \in Seq(Byte)
      BY <1>2, <1>5
    <2> QED BY <2>1, <2>2, CStringOfName
  <1> QED BY <1>3, <1>8

(* A last frame holds what is left of its text.                             *)
LEMMA LastFrame ==
    ASSUME texts \in Seq(Lengths), NEW m \in Frames, FrameSound(m, texts), m.type = "last"
    PROVE  /\ m.totlen \in Nat \ {0} /\ m.totlen <= CharMax + 1 /\ m.seq \in Nat
           /\ m.seq * CharMax + m.totlen = texts[m.text] + 1
           /\ Len(ReadBytes(m.data, m.totlen)) = m.totlen
           /\ \A p \in 1..m.totlen-1 :
                /\ ReadBytes(m.data, m.totlen)[p] = <<"text", m.text, m.seq * CharMax + p>>
                /\ InText(ReadBytes(m.data, m.totlen)[p], p, texts)
  <1> DEFINE n == texts[m.text]
             from == m.seq * CharMax
             l == m.totlen
  <1>1. n \in Nat /\ m.seq \in Nat /\ CharMax \in Nat \ {0} /\ l \in Nat
        /\ m.data \in Seq(Byte) /\ m.text \in 1..Len(texts)
    <2>1. n \in Lengths
      BY ElementOfSeq DEF FrameSound
    <2> QED BY <2>1, Sizes DEF Frames, FrameSound
  <1>2. from \in Nat /\ (m.seq + 1) * CharMax = from + CharMax
    BY <1>1
  <1>3. from <= n /\ n <= from + CharMax /\ l = n - from + 1
    <2>1. from <= n /\ n <= (m.seq + 1) * CharMax /\ l = n - from + 1
      BY DEF FrameSound, Shape
    <2> QED BY <1>2, <2>1
  <1>4. Len(m.data) = IF l <= CharMax THEN l ELSE CharMax
    BY DEF FrameSound
  <1> HIDE DEF n, from, l
  <1>5. \A p \in 1..l-1 : p \in 1..Len(m.data) /\ p <= CharMax /\ from + p <= n /\ p <= Len(m.data)
    BY <1>1, <1>2, <1>3, <1>4
  <1>6. \A p \in 1..l-1 : /\ m.data[p] = <<"text", m.text, from + p>>
                          /\ InText(m.data[p], p, texts)
    BY <1>1, <1>5, FrameBytes DEF from, n
  <1>7. /\ Len(ReadBytes(m.data, l)) = l
        /\ \A p \in 1..l : ReadBytes(m.data, l)[p] = IF p <= Len(m.data) THEN m.data[p] ELSE Junk
    <2>1. PICK d \in Seq(Byte) : d = m.data
      BY <1>1
    <2>2. Junk \in Byte /\ l \in Nat
      BY <1>1, ByteType
    <2>3. /\ Len(ReadBytes(d, l)) = l
          /\ \A p \in 1..l : ReadBytes(d, l)[p] = IF p <= Len(d) THEN d[p] ELSE Junk
      BY ONLY <2>2, ReadBytesType
    <2> QED BY <2>1, <2>3
  <1>8. \A p \in 1..l-1 : p \in 1..l
    BY <1>1
  <1>9. l \in Nat \ {0} /\ l <= CharMax + 1 /\ from + l = n + 1
    BY <1>1, <1>2, <1>3
  <1> QED BY <1>1, <1>5, <1>6, <1>7, <1>8, <1>9 DEF n, from, l

(* What GetBuff reads as when all pieces are there: the pieces one after    *)
(* the other and the last frame, up to its NUL.                             *)
LEMMA AssembledText ==
    ASSUME TypeOK, PiecesSound, Len(texts) <= MaxTexts,
           NEW m \in Frames, FrameSound(m, texts), m.type = "last", Complete(m)
    PROVE  LET text == CString(Assembled(m))
               tail == Len(list) * CharMax
           IN  /\ text \in Seq(Byte) /\ Len(text) = totalLength - 1
               /\ tail \in Nat /\ totalLength = tail + m.totlen
               /\ \A q \in 1..totalLength-1 :
                    /\ InText(text[q], q, texts)
                    /\ q <= tail =>
                         text[q] = list[((q - 1) \div CharMax) + 1].data[((q - 1) % CharMax) + 1]
                    /\ q > tail => text[q] = <<"text", m.text, m.seq * CharMax + (q - tail)>>
  <1> DEFINE T == totalLength
             L == Len(list)
             tail == L * CharMax
             buf == Assembled(m)
             read == ReadBytes(m.data, m.totlen)
             b(q) == IF q <= tail
                     THEN list[((q - 1) \div CharMax) + 1].data[((q - 1) % CharMax) + 1]
                     ELSE read[q - tail]
             name == [q \in 1..T-1 |-> b(q)]
  <1>1. /\ texts \in Seq(Lengths) /\ list \in Seq(Piece) /\ L \in Nat
        /\ CharMax \in Nat \ {0} /\ T = tail + m.totlen
    BY TypeParts, Sizes, LenProperties DEF Complete
  <1>2. tail \in Nat
    BY <1>1
  <1>3. /\ m.totlen \in Nat \ {0} /\ m.totlen <= CharMax + 1 /\ m.seq \in Nat
        /\ \A p \in 1..m.totlen-1 :
             /\ read[p] = <<"text", m.text, m.seq * CharMax + p>>
             /\ InText(read[p], p, texts)
    BY <1>1, LastFrame
  <1>4. T \in Nat \ {0}
    <2> HIDE DEF tail, T
    <2> QED BY <1>1, <1>2, <1>3
  <1>5. ASSUME NEW q \in 1..T-1
        PROVE  /\ InText(b(q), q, texts)
               /\ q > tail => b(q) = <<"text", m.text, m.seq * CharMax + (q - tail)>>
    <2>1. CASE q <= tail
      <3> DEFINE j == (q - 1) \div CharMax
                 r == (q - 1) % CharMax
      <3>1. q \in 1..tail
        <4> HIDE DEF tail, T
        <4> QED BY <1>2, <1>4, <2>1
      <3>2. j + 1 \in 1..L /\ r + 1 \in 1..CharMax /\ q = j * CharMax + r + 1
        BY <1>1, <3>1, PieceOfPlace
      <3>3. j \in Int /\ r \in Int /\ q \in Int
        <4> HIDE DEF L, T
        <4> QED BY <1>1, <1>4
      <3>4. InText(list[j + 1].data[r + 1], r + 1, texts)
        <4> HIDE DEF j, r
        <4> QED BY <3>2 DEF PiecesSound
      <3>5. b(q) = list[j + 1].data[r + 1] /\ ~(q > tail)
        <4>1. b(q) = list[j + 1].data[r + 1]
          BY <2>1
        <4>2. ~(q > tail)
          <5> HIDE DEF tail
          <5> QED BY <1>2, <2>1, <3>3
        <4> QED BY <4>1, <4>2
      <3> HIDE DEF j, r, b, L
      <3>6. j \in Nat /\ j * CharMax + (r + 1) = q
        BY <1>1, <3>2, <3>3
      <3>7. InText(list[j + 1].data[r + 1], j * CharMax + (r + 1), texts)
        BY <3>2, <3>4, <3>6, InTextAt
      <3> QED BY <3>5, <3>6, <3>7
    <2>2. CASE q > tail
      <3> HIDE DEF tail, T, read
      <3>1. q - tail \in 1..m.totlen-1 /\ q - tail \in 1..CharMax /\ ~(q <= tail)
            /\ tail + (q - tail) = q
        BY <1>1, <1>2, <1>3, <1>4, <2>2
      <3>2. b(q) = read[q - tail]
        BY <3>1
      <3>3. InText(read[q - tail], L * CharMax + (q - tail), texts)
        BY <1>1, <1>3, <3>1, InTextAt
      <3>4. read[q - tail] = <<"text", m.text, m.seq * CharMax + (q - tail)>>
        BY <1>3, <3>1
      <3>5. InText(read[q - tail], q, texts)
        BY <3>1, <3>3 DEF tail
      <3> HIDE DEF b
      <3> QED BY <3>2, <3>4, <3>5
    <2>3. q <= tail \/ q > tail
      <3> HIDE DEF tail, T
      <3> QED BY <1>2, <1>4
    <2> HIDE DEF b, tail, T
    <2> QED BY <2>1, <2>2, <2>3
  <1>6. \A q \in 1..T-1 : b(q) \in Byte /\ b(q) # NUL
    <2> HIDE DEF b, T
    <2> QED BY <1>1, <1>5, InTextByte
  <1>7. /\ buf = [q \in 1..T |-> IF q = T THEN NUL ELSE b(q)]
    BY DEF Assembled
  <1> HIDE DEF b, buf, T, tail
  <1>8. name \in Seq(Byte) /\ Len(name) = T - 1 /\ \A q \in 1..T-1 : name[q] = b(q)
    BY <1>4, <1>6
  <1>9. buf \in Seq(Byte) /\ Len(buf) = T /\ buf[T] = NUL /\ \A q \in 1..T-1 : buf[q] = b(q)
    <2>1. \A q \in 1..T : (IF q = T THEN NUL ELSE b(q)) \in Byte
      <3>1. \A q \in 1..T : q = T \/ q \in 1..T-1
        BY <1>4
      <3> QED BY <1>6, <3>1, ByteType
    <2>2. T \in 1..T /\ \A q \in 1..T-1 : q \in 1..T /\ q # T
      BY <1>4
    <2>3. buf \in [1..T -> Byte]
      BY <1>7, <2>1
    <2>4. buf \in Seq(Byte) /\ Len(buf) = T
      BY <1>4, <2>3
    <2> QED BY <1>7, <2>2, <2>4
  <1> HIDE DEF name
  <1>10. CString(buf) = name
    <2>1. Len(buf) > Len(name) /\ Len(name) + 1 = T
      BY <1>4, <1>8, <1>9
    <2>2. \A i \in 1..Len(name) : buf[i] = name[i] /\ name[i] # NUL
      BY <1>6, <1>8, <1>9
    <2> QED BY <1>8, <1>9, <2>1, <2>2, CStringOfName
  <1>11. \A q \in 1..T-1 : q <= tail =>
            b(q) = list[((q - 1) \div CharMax) + 1].data[((q - 1) % CharMax) + 1]
    BY DEF b
  <1> QED BY <1>1, <1>2, <1>5, <1>8, <1>10, <1>11 DEF T, tail, buf

-----------------------------------------------------------------------------
(* The receiving program keeps everything sound.                           *)

(* What a step of the receiver has to show.                                 *)
LEMMA ReceiverSound ==
    ASSUME Sound, UNCHANGED <<sending, texts, lost>>,
           wire' \in Seq(Frames), \A k \in 1..Len(wire') : FrameSound(wire'[k], texts),
           list' \in Seq(Piece),
           \A j \in 1..Len(list') : \A p \in 1..CharMax : InText(list'[j].data[p], p, texts),
           totalLength' \in 0..UShortMax,
           box' \in Seq(Byte), \A q \in 1..Len(box') : InText(box'[q], q, texts),
           heap' \in {"sound", "overrun"}, up' \in BOOLEAN,
           shown' \in Seq(Seq(Byte)),
           \A k \in 1..Len(shown') : \A q \in 1..Len(shown'[k]) : InText(shown'[k][q], q, texts)
    PROVE  Sound'
  <1>1. TypeOK'
    BY DEF TypeOK, Sound, Frames, Piece
  <1>2. SenderSound'
    BY DEF Sound, SenderSound
  <1>3. PiecesSound'
    BY DEF PiecesSound
  <1> QED BY <1>1, <1>2, <1>3 DEF Sound

(* A string of a text goes to the chat list.                                *)
LEMMA ShownSound ==
    ASSUME Sound, NEW text \in Seq(Byte), \A q \in 1..Len(text) : InText(text[q], q, texts),
           AddString(text)
    PROVE  /\ shown' \in Seq(Seq(Byte))
           /\ \A k \in 1..Len(shown') : \A q \in 1..Len(shown'[k]) :
                 InText(shown'[k][q], q, texts)
  <1>1. shown \in Seq(Seq(Byte)) /\ shown' = Append(shown, text)
    BY TypeParts DEF Sound, AddString
  <1>2. /\ shown' \in Seq(Seq(Byte)) /\ Len(shown') = Len(shown) + 1 /\ Len(shown) \in Nat
        /\ \A k \in 1..Len(shown) : shown'[k] = shown[k]
        /\ shown'[Len(shown) + 1] = text
    BY <1>1, AppendProperties, LenProperties
  <1>3. ASSUME NEW k \in 1..Len(shown') PROVE \A q \in 1..Len(shown'[k]) : InText(shown'[k][q], q, texts)
    <2>1. CASE k \in 1..Len(shown)
      BY <1>2, <2>1 DEF Sound
    <2>2. CASE k = Len(shown) + 1
      BY <1>2, <2>2
    <2> QED BY <1>2, <2>1, <2>2
  <1> QED BY <1>2, <1>3

(* The parts of Sound, for the variables that a step leaves alone.          *)
LEMMA SoundParts ==
    ASSUME Sound
    PROVE  /\ texts \in Seq(Lengths) /\ Len(texts) <= MaxTexts
           /\ wire \in Seq(Frames) /\ \A k \in 1..Len(wire) : FrameSound(wire[k], texts)
           /\ list \in Seq(Piece)
           /\ \A j \in 1..Len(list) : \A p \in 1..CharMax : InText(list[j].data[p], p, texts)
           /\ totalLength \in 0..UShortMax
           /\ box \in Seq(Byte) /\ \A q \in 1..Len(box) : InText(box[q], q, texts)
           /\ heap \in {"sound", "overrun"} /\ up \in BOOLEAN
           /\ shown \in Seq(Seq(Byte))
           /\ \A k \in 1..Len(shown) : \A q \in 1..Len(shown[k]) : InText(shown[k][q], q, texts)
  BY TypeParts DEF Sound, PiecesSound

(* ReceiveWhole shows the text.                                             *)
LEMMA ReceiveWholeSound == Sound /\ ReceiveWhole => Sound'
  <1> SUFFICES ASSUME Sound, ReceiveWhole PROVE Sound'
    OBVIOUS
  <1> DEFINE m == Head(wire)
             text == CString(ReadBytes(m.data, m.totlen))
  <1>1. /\ m \in Frames /\ FrameSound(m, texts) /\ m.type = "whole"
        /\ wire' \in Seq(Frames) /\ \A k \in 1..Len(wire') : FrameSound(wire'[k], texts)
        /\ UNCHANGED <<sending, texts, lost>>
    BY ReceivingType DEF ReceiveWhole
  <1>2. UNCHANGED <<list, totalLength, box, heap, up>> /\ AddString(text)
    BY DEF ReceiveWhole
  <1> HIDE DEF m
  <1>3. text \in Seq(Byte) /\ \A q \in 1..Len(text) : InText(text[q], q, texts)
    <2>1. m.text \in 1..Len(texts)
      BY <1>1 DEF FrameSound
    <2>2. text = Text(m.text, texts[m.text])
      BY <1>1, SoundParts, WholeText
    <2> HIDE DEF text
    <2> QED BY <2>1, <2>2, SoundParts, TextType
  <1> HIDE DEF text
  <1>4. /\ shown' \in Seq(Seq(Byte))
        /\ \A k \in 1..Len(shown') : \A q \in 1..Len(shown'[k]) : InText(shown'[k][q], q, texts)
    BY <1>2, <1>3, ShownSound
  <1> QED BY <1>1, <1>2, <1>4, SoundParts, ReceiverSound

(* A piece of a first or middle frame goes into the list.                   *)
LEMMA PieceReceived ==
    ASSUME Sound, NEW type \in {"first", "middle"}, Receiving(type),
           add(Head(wire).data, Head(wire).seq)
    PROVE  /\ NewPiece(Head(wire).data, Head(wire).seq) \in Piece
           /\ list' \in Seq(Piece)
           /\ \A j \in 1..Len(list') : \A p \in 1..CharMax : InText(list'[j].data[p], p, texts)
  <1> DEFINE m == Head(wire)
             e == NewPiece(m.data, m.seq)
  <1>1. m \in Frames /\ FrameSound(m, texts) /\ m.type \in {"first", "middle"}
    BY ReceivingType
  <1>2. add(m.data, m.seq)
    OBVIOUS
  <1> HIDE DEF m
  <1>3. /\ ReadBytes(m.data, CharMax) \in [1..CharMax -> Byte]
        /\ \A p \in 1..CharMax : InText(ReadBytes(m.data, CharMax)[p], p, texts)
    BY <1>1, SoundParts, FullFrame
  <1>4. e \in Piece /\ e.data = ReadBytes(m.data, CharMax)
    BY <1>1, <1>3 DEF NewPiece, Piece, Frames
  <1>5. /\ list' \in Seq(Piece)
        /\ \A j \in 1..Len(list') : list'[j] = e \/ \E i \in 1..Len(list) : list'[j] = list[i]
    BY <1>2, <1>4, SoundParts, AddType
  <1> HIDE DEF e
  <1>6. \A j \in 1..Len(list') : \A p \in 1..CharMax : InText(list'[j].data[p], p, texts)
    BY <1>3, <1>4, <1>5, SoundParts
  <1> QED BY <1>4, <1>5, <1>6 DEF e, m

(* Receive, a first piece: it is listed, and totalLength is set.            *)
LEMMA ReceiveFirstSound == Sound /\ ReceiveFirst => Sound'
  <1> SUFFICES ASSUME Sound, ReceiveFirst PROVE Sound'
    OBVIOUS
  <1> DEFINE m == Head(wire)
  <1>1. /\ m \in Frames /\ FrameSound(m, texts) /\ m.type = "first"
        /\ wire' \in Seq(Frames) /\ \A k \in 1..Len(wire') : FrameSound(wire'[k], texts)
        /\ UNCHANGED <<sending, texts, lost>>
    BY ReceivingType DEF ReceiveFirst
  <1>2. /\ list' \in Seq(Piece)
        /\ \A j \in 1..Len(list') : \A p \in 1..CharMax : InText(list'[j].data[p], p, texts)
    BY PieceReceived DEF ReceiveFirst
  <1>3. UNCHANGED <<box, heap, up, shown>> /\ totalLength' = m.totlen + 1
    BY DEF ReceiveFirst
  <1> HIDE DEF m
  <1>4. totalLength' \in 0..UShortMax
    <2>1. m.totlen = texts[m.text] /\ m.text \in 1..Len(texts)
      BY <1>1 DEF FrameSound, Shape
    <2>2. texts[m.text] \in Lengths
      BY <2>1, SoundParts, TextType
    <2> QED BY <1>3, <2>1, <2>2, Sizes
  <1> QED BY <1>1, <1>2, <1>3, <1>4, SoundParts, ReceiverSound

(* Receive, a middle piece: it is listed.                                   *)
LEMMA ReceiveMiddleSound == Sound /\ ReceiveMiddle => Sound'
  <1> SUFFICES ASSUME Sound, ReceiveMiddle PROVE Sound'
    OBVIOUS
  <1>1. /\ wire' \in Seq(Frames) /\ \A k \in 1..Len(wire') : FrameSound(wire'[k], texts)
        /\ UNCHANGED <<sending, texts, lost>>
    BY ReceivingType DEF ReceiveMiddle
  <1>2. /\ list' \in Seq(Piece)
        /\ \A j \in 1..Len(list') : \A p \in 1..CharMax : InText(list'[j].data[p], p, texts)
    BY PieceReceived DEF ReceiveMiddle
  <1>3. UNCHANGED <<totalLength, box, heap, up, shown>>
    BY DEF ReceiveMiddle
  <1> QED BY <1>1, <1>2, <1>3, SoundParts, ReceiverSound

(* ReceiveLast puts the text together.                                      *)
LEMMA ReceiveLastSound == Sound /\ ReceiveLast => Sound'
  <1> SUFFICES ASSUME Sound, ReceiveLast PROVE Sound'
    OBVIOUS
  <1> DEFINE m == Head(wire)
             text == CString(Assembled(m))
  <1>1. /\ m \in Frames /\ FrameSound(m, texts) /\ m.type = "last"
        /\ wire' \in Seq(Frames) /\ \A k \in 1..Len(wire') : FrameSound(wire'[k], texts)
        /\ UNCHANGED <<sending, texts, lost>>
    BY ReceivingType DEF ReceiveLast
  <1>2. UNCHANGED <<list, totalLength, heap, up, shown>> /\ box' = text /\ Complete(m)
    BY DEF ReceiveLast
  <1> HIDE DEF m
  <1>3. /\ text \in Seq(Byte) /\ Len(text) = totalLength - 1
        /\ \A q \in 1..totalLength-1 : InText(text[q], q, texts)
    BY <1>1, <1>2, AssembledText DEF Sound
  <1> HIDE DEF text
  <1> QED BY <1>1, <1>2, <1>3, SoundParts, ReceiverSound

(* Receive, a last piece that is dropped: the list stays.                   *)
LEMMA ReceiveLastDroppedSound == Sound /\ ReceiveLastDropped => Sound'
  <1> SUFFICES ASSUME Sound, ReceiveLastDropped PROVE Sound'
    OBVIOUS
  <1>1. /\ wire' \in Seq(Frames) /\ \A k \in 1..Len(wire') : FrameSound(wire'[k], texts)
        /\ UNCHANGED <<sending, texts, lost>>
    BY ReceivingType DEF ReceiveLastDropped
  <1>2. UNCHANGED <<list, totalLength, box, shown>>
        /\ heap' \in {"sound", "overrun"} /\ up' \in BOOLEAN
    BY SoundParts DEF ReceiveLastDropped
  <1> QED BY <1>1, <1>2, SoundParts, ReceiverSound

(* The message box is closed: its text is shown and the list emptied.       *)
LEMMA DismissSound == Sound /\ Dismiss => Sound'
  <1> SUFFICES ASSUME Sound, Dismiss PROVE Sound'
    OBVIOUS
  <1>1. /\ AddString(box) /\ list' = <<>> /\ box' = <<>>
        /\ UNCHANGED <<sending, texts, lost, wire, totalLength, heap, up>>
    BY DEF Dismiss, sendVars
  <1>2. /\ shown' \in Seq(Seq(Byte))
        /\ \A k \in 1..Len(shown') : \A q \in 1..Len(shown'[k]) : InText(shown'[k][q], q, texts)
    BY <1>1, SoundParts, ShownSound
  <1>3. list' \in Seq(Piece) /\ box' \in Seq(Byte) /\ Len(list') = 0 /\ Len(box') = 0
    BY <1>1, EmptySeq
  <1>4. /\ \A j \in 1..Len(list') : \A p \in 1..CharMax : InText(list'[j].data[p], p, texts)
        /\ \A q \in 1..Len(box') : InText(box'[q], q, texts)
    BY <1>3
  <1> QED BY <1>1, <1>2, <1>3, <1>4, SoundParts, ReceiverSound

(* Sound is an invariant of every run of the two programs.                  *)
LEMMA SoundInit == Init => Sound
  <1> SUFFICES ASSUME Init PROVE Sound
    OBVIOUS
  <1>1. TypeOK
    BY Sizes DEF Init, TypeOK, NotSending
  <1>2. SenderSound /\ PiecesSound
    BY DEF Init, SenderSound, PiecesSound
  <1>3. Len(texts) <= MaxTexts
    BY Sizes DEF Init
  <1> QED BY <1>1, <1>2, <1>3 DEF Init, Sound

(* Every step of CChatAppLayer::Send is of the one form SendStep.           *)
LEMMA SendSteps ==
    ASSUME Sound, (\E n \in Lengths : SendWhole(n) \/ SendFirst(n)) \/ SendMiddle \/ SendLast
    PROVE  SendStep
  BY SendWholeStep, SendFirstStep, SendMiddleStep, SendLastStep

(* Every step keeps the invariant.                                          *)
LEMMA SoundStep == Sound /\ [Next]_vars => Sound'
  <1> SUFFICES ASSUME Sound, [Next]_vars PROVE Sound'
    OBVIOUS
  <1>1. CASE (\E n \in Lengths : SendWhole(n) \/ SendFirst(n)) \/ SendMiddle \/ SendLast
    BY <1>1, SendSteps, SendKeepsSound
  <1>2. CASE Receive
    BY <1>2, ReceiveWholeSound, ReceiveFirstSound, ReceiveMiddleSound, ReceiveLastSound,
       ReceiveLastDroppedSound DEF Receive
  <1>3. CASE Dismiss
    BY <1>3, DismissSound
  <1>4. CASE UNCHANGED vars
    BY <1>4, SoundParts, ReceiverSound DEF vars
  <1> QED BY <1>1, <1>2, <1>3, <1>4 DEF Next

(* The invariant holds in every run.                                        *)
LEMMA AlwaysSound == Spec => []Sound
  <1> QED BY SoundInit, SoundStep, PTL DEF Spec

(* Types: every run, whatever the wire loses.                               *)
THEOREM Typing == Spec => []TypeOK
  <1>1. Sound => TypeOK
    BY DEF Sound
  <1> QED BY <1>1, AlwaysSound, PTL

(* Whatever is lost, a byte on the screen stands at a place it has in some  *)
(* text sent, up to whole pieces: GetBuff is never read where no piece was  *)
(* copied, and no piece is shown out of line.                               *)
THEOREM OnlyWhatWasTyped == Spec => []NoForeignBytes
  <1>1. ASSUME Sound PROVE NoForeignBytes
    <2>1. ASSUME NEW k \in DOMAIN OnScreen PROVE
              \A q \in 1..Len(OnScreen[k]) : InText(OnScreen[k][q], q, texts)
      <3>1. shown \in Seq(Seq(Byte)) /\ box \in Seq(Byte)
        BY <1>1, SoundParts
      <3>2. CASE box = <<>>
        <4>1. OnScreen = shown
          BY <3>1, <3>2, ConcatEmptySeq DEF OnScreen
        <4>2. k \in 1..Len(shown)
          BY <2>1, <3>1, <4>1, LenProperties
        <4> QED BY <1>1, <4>1, <4>2, SoundParts
      <3>3. CASE box # <<>>
        <4>1. OnScreen = Append(shown, box)
          BY <3>1, <3>3, AppendIsConcat DEF OnScreen
        <4>2. /\ Append(shown, box) \in Seq(Seq(Byte)) /\ Len(shown) \in Nat
              /\ Len(Append(shown, box)) = Len(shown) + 1
              /\ \A j \in 1..Len(shown) : Append(shown, box)[j] = shown[j]
              /\ Append(shown, box)[Len(shown) + 1] = box
          BY <3>1, AppendProperties, LenProperties
        <4>3. k \in 1..Len(shown)+1
          BY <2>1, <4>1, <4>2, LenProperties
        <4>4. CASE k \in 1..Len(shown)
          BY <1>1, <4>1, <4>2, <4>4, SoundParts
        <4>5. CASE k = Len(shown) + 1
          BY <1>1, <4>1, <4>2, <4>5, SoundParts
        <4> QED BY <4>2, <4>3, <4>4, <4>5
      <3> QED BY <3>2, <3>3
    <2>2. \A k \in DOMAIN OnScreen : OnScreen[k] \in Seq(Byte)
      <3>1. OnScreen \in Seq(Seq(Byte))
        <4>1. shown \in Seq(Seq(Byte)) /\ box \in Seq(Byte)
          BY <1>1, SoundParts
        <4>2. CASE box = <<>>
          BY <4>1, <4>2, ConcatEmptySeq DEF OnScreen
        <4>3. CASE box # <<>>
          BY <4>1, <4>3, AppendIsConcat, AppendProperties DEF OnScreen
        <4> QED BY <4>2, <4>3
      <3> HIDE DEF OnScreen
      <3> QED BY <3>1, ElementOfSeq, LenProperties
    <2>3. \A k \in DOMAIN OnScreen : DOMAIN OnScreen[k] = 1..Len(OnScreen[k])
      BY <2>2, LenProperties
    <2>4. DOMAIN texts = 1..Len(texts)
      BY <1>1, SoundParts, LenProperties
    <2> QED BY <2>1, <2>3, <2>4 DEF NoForeignBytes, InText
  <1> QED BY <1>1, AlwaysSound, PTL


-----------------------------------------------------------------------------
(* Chains of frames.                                                       *)

(* A chain grows by the frame that was due.                                 *)
LEMMA ChainAppend ==
    ASSUME NEW got, NEW w \in Seq(Frames), NEW due, NEW gone, Chain(got, w, due, gone),
           NEW m \in Frames, m.text = due.text, m.seq = due.seq,
           Starts(m.type) <=> Starts(due.type),
           NEW next, Follows(PlaceOf(m), next, gone)
    PROVE  Chain(got, Append(w, m), next, gone)
  <1> DEFINE n == Len(w)
             v == Append(w, m)
  <1>1. /\ n \in Nat /\ Len(v) = n + 1 /\ v[n + 1] = m
        /\ \A i \in 1..n : v[i] = w[i]
    BY AppendProperties, LenProperties
  <1> HIDE DEF v, n
  <1>2. ASSUME NEW i \in 0..n PROVE At(got, v, next, i) = At(got, w, due, i)
    <2>1. i = 0 \/ (i # 0 /\ i \in 1..n /\ i <= n /\ i <= Len(v))
      BY <1>1
    <2> QED BY <1>1, <2>1 DEF At, n
  <1>3. At(got, v, next, n + 1) = PlaceOf(m)
    <2>1. n + 1 # 0 /\ n + 1 <= Len(v)
      BY <1>1
    <2> QED BY <1>1, <2>1 DEF At
  <1>4. At(got, v, next, n + 1 + 1) = next
    <2>1. n + 1 + 1 # 0 /\ ~(n + 1 + 1 <= Len(v))
      BY <1>1
    <2> QED BY <2>1 DEF At
  <1>5. At(got, w, due, n + 1) = due
    <2>1. n + 1 # 0 /\ ~(n + 1 <= Len(w))
      BY <1>1 DEF n
    <2> QED BY <2>1 DEF At
  <1>6. ASSUME NEW i \in 0..n+1
        PROVE  Follows(At(got, v, next, i), At(got, v, next, i + 1), gone)
    <2>1. CASE i < n
      <3>1. i \in 0..n /\ i + 1 \in 0..n
        BY <1>1, <2>1
      <3>2. Follows(At(got, w, due, i), At(got, w, due, i + 1), gone)
        BY <3>1 DEF Chain, n
      <3> QED BY <1>2, <3>1, <3>2
    <2>2. CASE i = n
      <3>1. n \in 0..n
        BY <1>1
      <3>2. Follows(At(got, w, due, n), due, gone)
        BY <1>5, <3>1 DEF Chain, n
      <3>3. Follows(At(got, w, due, n), PlaceOf(m), gone)
        BY <3>2 DEF Follows, PlaceOf, Place
      <3> QED BY <1>2, <1>3, <2>2, <3>1, <3>3
    <2>3. CASE i = n + 1
      BY <1>3, <1>4, <2>3
    <2> QED BY <1>1, <2>1, <2>2, <2>3
  <1> QED BY <1>1, <1>6 DEF Chain, v

(* What follows a frame that is taken off a chain is a chain from there.    *)
LEMMA ChainTail ==
    ASSUME NEW got, NEW w \in Seq(Frames), w # <<>>, NEW due, NEW gone, Chain(got, w, due, gone)
    PROVE  /\ Follows(got, PlaceOf(Head(w)), gone)
           /\ \A at : /\ at.text = Head(w).text
                      /\ Ends(at.type) <=> Ends(Head(w).type)
                      /\ ~Ends(at.type) => at.seq = Head(w).seq
                      => Chain(at, Tail(w), due, gone)
  <1> DEFINE n == Len(w)
             v == Tail(w)
  <1>1. /\ n \in Nat \ {0} /\ Len(v) = n - 1 /\ Head(w) = w[1]
        /\ \A i \in 1..n-1 : v[i] = w[i + 1]
    BY HeadTailProperties, EmptySeq
  <1>2. At(got, w, due, 0) = got /\ At(got, w, due, 0 + 1) = PlaceOf(w[1])
    BY <1>1 DEF At
  <1>3. \A i \in 0..n : Follows(At(got, w, due, i), At(got, w, due, i + 1), gone)
    BY DEF Chain
  <1>4. Follows(got, PlaceOf(Head(w)), gone)
    <2>1. 0 \in 0..n
      BY <1>1
    <2> QED BY <1>1, <1>2, <1>3, <2>1
  <1> HIDE DEF v, n
  <1>5. ASSUME NEW at, at.text = Head(w).text, Ends(at.type) <=> Ends(Head(w).type),
               ~Ends(at.type) => at.seq = Head(w).seq
        PROVE  Chain(at, v, due, gone)
    <2>1. ASSUME NEW i \in 0..n, i > 0 PROVE At(at, v, due, i) = At(got, w, due, i + 1)
      <3>1. CASE i = n
        <4>1. i # 0 /\ ~(i <= Len(v)) /\ i + 1 # 0 /\ ~(i + 1 <= n)
          BY <1>1, <2>1, <3>1
        <4> QED BY <4>1 DEF At, n
      <3>2. CASE i < n
        <4>1. i # 0 /\ i <= Len(v) /\ i + 1 # 0 /\ i + 1 <= n /\ i \in 1..n-1
          BY <1>1, <2>1, <3>2
        <4> QED BY <1>1, <4>1 DEF At, n
      <3> QED BY <1>1, <3>1, <3>2
    <2>2. ASSUME NEW i \in 0..n-1
          PROVE  Follows(At(at, v, due, i), At(at, v, due, i + 1), gone)
      <3>1. i + 1 \in 0..n /\ i + 1 > 0 /\ i \in 0..n
        BY <1>1
      <3>2. Follows(At(got, w, due, i + 1), At(got, w, due, i + 1 + 1), gone)
        BY <1>3, <3>1
      <3>3. At(at, v, due, i + 1) = At(got, w, due, i + 1 + 1)
        BY <2>1, <3>1
      <3>4. CASE i > 0
        BY <2>1, <3>1, <3>2, <3>3, <3>4
      <3>5. CASE i = 0
        <4>1. At(at, v, due, i) = at /\ At(got, w, due, i + 1) = PlaceOf(Head(w))
          BY <1>1, <1>2, <3>5 DEF At
        <4>2. Follows(PlaceOf(Head(w)), At(at, v, due, i + 1), gone)
          BY <3>2, <3>3, <4>1
        <4> HIDE DEF At
        <4> QED BY <1>5, <4>1, <4>2 DEF Follows, PlaceOf, Place
      <3> QED BY <1>1, <3>4, <3>5
    <2> QED BY <1>1, <2>2 DEF Chain
  <1> QED BY <1>4, <1>5 DEF v

(* A chain to a text is one to the text after it, if that one is gone.      *)
LEMMA ChainLater ==
    ASSUME NEW got, NEW w \in Seq(Frames), NEW due, NEW gone, Chain(got, w, due, gone),
           NEW later, Starts(due.type), Starts(later.type),
           got.text \in Int, due.text \in Int, later.text = due.text + 1,
           NEW more, gone \subseteq more, due.text \in more
    PROVE  Chain(got, w, later, more)
  <1> DEFINE n == Len(w)
  <1>1. n \in Nat /\ \A i \in 1..n : w[i] \in Frames
    BY ElementOfSeq, LenProperties
  <1> HIDE DEF n
  <1>2. ASSUME NEW i \in 0..n
        PROVE  Follows(At(got, w, later, i), At(got, w, later, i + 1), more)
    <2>1. Follows(At(got, w, due, i), At(got, w, due, i + 1), gone)
      BY DEF Chain, n
    <2>2. At(got, w, later, i) = At(got, w, due, i)
      <3>1. i = 0 \/ (i # 0 /\ i <= n)
        BY <1>1
      <3> QED BY <3>1 DEF At, n
    <2>3. CASE i < n
      <3>1. i + 1 # 0 /\ i + 1 <= n
        BY <1>1, <2>3
      <3>2. At(got, w, later, i + 1) = At(got, w, due, i + 1)
        BY <3>1 DEF At, n
      <3> QED BY <2>1, <2>2, <3>2 DEF Follows
    <2>4. CASE i = n
      <3>1. i + 1 # 0 /\ ~(i + 1 <= n)
        BY <1>1, <2>4
      <3>2. At(got, w, later, i + 1) = later /\ At(got, w, due, i + 1) = due
        BY <3>1 DEF At, n
      <3>3. At(got, w, due, i).text \in Int
        <4>1. CASE i = 0
          BY <4>1 DEF At
        <4>2. CASE i # 0
          <5>1. i \in 1..n /\ i <= n
            BY <1>1, <4>2
          <5>2. At(got, w, due, i) = PlaceOf(w[i]) /\ w[i] \in Frames
            BY <1>1, <4>2, <5>1 DEF At, n
          <5> QED BY <5>2, Sizes DEF PlaceOf, Place, Frames
        <4> QED BY <4>1, <4>2
      <3> DEFINE c == At(got, w, due, i)
      <3>4. /\ Ends(c.type) /\ due.text > c.text
            /\ (c.text + 1)..(due.text - 1) \subseteq gone
        BY <2>1, <3>2 DEF Follows
      <3> HIDE DEF c
      <3>5. later.text > c.text /\ (c.text + 1)..(later.text - 1) \subseteq more
        <4>1. c.text \in Int
          BY <3>3 DEF c
        <4>2. ASSUME NEW t \in (c.text + 1)..(later.text - 1) PROVE t \in more
          <5>1. t = due.text \/ t \in (c.text + 1)..(due.text - 1)
            BY <4>1
          <5> QED BY <3>4, <5>1
        <4> QED BY <3>4, <4>1, <4>2
      <3>6. Follows(c, later, more)
        BY <3>4, <3>5 DEF Follows
      <3> QED BY <2>2, <3>2, <3>6 DEF c
    <2>5. i < n \/ i = n
      BY <1>1
    <2> QED BY <2>3, <2>4, <2>5
  <1> QED BY <1>2 DEF Chain, n

(* A chain stays one when more is gone.                                     *)
LEMMA ChainMore ==
    ASSUME NEW got, NEW w, NEW due, NEW gone, Chain(got, w, due, gone),
           NEW more, gone \subseteq more
    PROVE  Chain(got, w, due, more)
  <1>1. ASSUME NEW c, NEW d, Follows(c, d, gone) PROVE Follows(c, d, more)
    BY <1>1 DEF Follows
  <1> QED BY <1>1 DEF Chain

(* Of the texts between the ends of a chain, each is gone or has a frame in *)
(* it; so is the one at its end, if the end is in the middle of it.         *)
LEMMA ChainCovers ==
    ASSUME NEW got, NEW w \in Seq(Frames), NEW due, NEW gone, Chain(got, w, due, gone),
           got.text \in Int, due.text \in Int, NEW t \in Nat, t > got.text, t <= due.text
    PROVE  t \in gone \/ t = due.text \/ \E k \in 1..Len(w) : w[k].text = t
  <1>1. PICK n \in Nat : n = Len(w)
    BY LenProperties
  <1>2. \A i \in 0..n+1 : At(got, w, due, i).text \in Int
    <2>1. \A i \in 1..n : w[i] \in Frames
      BY <1>1, ElementOfSeq, LenProperties
    <2>2. ASSUME NEW i \in 0..n+1 PROVE At(got, w, due, i).text \in Int
      <3>1. i = 0 \/ (i # 0 /\ i <= n /\ i \in 1..n) \/ (i # 0 /\ ~(i <= n))
        OBVIOUS
      <3>2. CASE i # 0 /\ i <= n /\ i \in 1..n
        BY <1>1, <2>1, <3>2, Sizes DEF At, PlaceOf, Place, Frames
      <3> QED BY <1>1, <3>1, <3>2 DEF At
    <2> QED BY <2>2
  <1> DEFINE S == {i \in 1..n+1 : At(got, w, due, i).text >= t}
  <1>3. At(got, w, due, n + 1) = due /\ At(got, w, due, 0) = got
    <2>1. n + 1 # 0 /\ ~(n + 1 <= n)
      OBVIOUS
    <2> QED BY <1>1, <2>1 DEF At
  <1>4. n + 1 \in S
    BY <1>3
  <1>5. PICK i \in S : \A j \in S : i <= j
    <2>1. S \subseteq Nat /\ S # {}
      BY <1>4
    <2> HIDE DEF S
    <2> QED BY <2>1, MinOfNats
  <1>6. i - 1 \in 0..n /\ i - 1 + 1 = i /\ i \in 1..n+1
    OBVIOUS
  <1> DEFINE c == At(got, w, due, i - 1)
             d == At(got, w, due, i)
  <1>7. Follows(c, d, gone)
    BY <1>1, <1>6 DEF Chain
  <1>8. c.text \in Int /\ d.text \in Int /\ d.text >= t
    BY <1>2, <1>5, <1>6
  <1>9. c.text < t
    <2>1. CASE i = 1
      BY <1>3, <2>1
    <2>2. CASE i # 1
      <3>1. i - 1 \in 1..n+1 /\ ~(i <= i - 1)
        BY <1>6, <2>2
      <3>2. i - 1 \notin S
        BY <1>5, <3>1
      <3> QED BY <1>8, <3>1, <3>2
    <2> QED BY <2>1, <2>2
  <1>10. CASE d.text = t
    <2>1. i = n + 1 \/ (i # 0 /\ i <= n /\ i \in 1..n)
      BY <1>6
    <2>2. CASE i = n + 1
      BY <1>3, <1>10, <2>2
    <2>3. CASE i # 0 /\ i <= n /\ i \in 1..n
      <3>1. d = PlaceOf(w[i])
        BY <1>1, <2>3 DEF At
      <3> QED BY <1>1, <1>10, <2>3, <3>1 DEF PlaceOf, Place
    <2> QED BY <2>1, <2>2, <2>3
  <1>11. CASE d.text # t
    <2> HIDE DEF c, d
    <2>1. t \in (c.text + 1)..(d.text - 1)
      BY <1>8, <1>9, <1>11
    <2>2. d.text # c.text
      BY <1>8, <1>9
    <2> QED BY <1>7, <2>1, <2>2 DEF Follows
  <1> QED BY <1>10, <1>11

-----------------------------------------------------------------------------
(* The sending program.                                                    *)

(* What Send does next is a place with numbers in it.                       *)
LEMMA DueType ==
    ASSUME Sound
    PROVE  Due.text \in Nat /\ Due.seq \in Nat /\ Len(texts) \in Nat
  <1>1. sending \in Senders /\ Len(texts) \in Nat
    BY SoundParts, LenProperties DEF Sound, TypeOK, Senders
  <1>2. sending.i \in Nat
    BY <1>1, Sizes DEF Senders
  <1> QED BY <1>1, <1>2 DEF Due, Place

(* A frame that is made was due, and so is the next one after it.           *)
LEMMA EmittedFollows ==
    ASSUME NEW m, Emits(m), NEW gone
    PROVE  Follows(PlaceOf(m), Due', gone)
  <1>1. CASE Ends(m.type)
    <2>1. Due' = Place("whole", m.text + 1, 0) /\ m.text \in Nat
      BY <1>1, Sizes DEF Emits, Frames
    <2>2. (m.text + 1)..(m.text + 1 - 1) = {}
      BY <2>1
    <2> QED BY <1>1, <2>1, <2>2 DEF Follows, PlaceOf, Place, Starts
  <1>2. CASE ~Ends(m.type)
    <2>1. Due' = Place("middle", m.text, m.seq + 1)
      BY <1>2 DEF Emits
    <2> QED BY <1>2, <2>1 DEF Follows, PlaceOf, Place, Starts
  <1> QED BY <1>1, <1>2

(* What Send emits goes to the end of the chain, or is an uncut text that   *)
(* is left out of it.                                                      *)
LEMMA SendChain ==
    ASSUME Sound, NEW m \in Frames, Emits(m), NEW got, got.text \in Int,
           LostTypes' \subseteq {"whole"}, Chain(got, wire, Due, LostTexts)
    PROVE  Chain(got, wire', Due', LostTexts')
  <1>1. wire \in Seq(Frames) /\ Due.text \in Nat
    BY SoundParts, DueType
  <1>2. CASE wire' = Append(wire, m) /\ lost' = lost
    <2> DEFINE gone == LostTexts
               next == Due'
               due == Due
    <2>1. Follows(PlaceOf(m), next, gone)
      BY EmittedFollows
    <2>2. /\ m.text = due.text /\ m.seq = due.seq /\ (Starts(m.type) <=> Starts(due.type))
          /\ Chain(got, wire, due, gone)
      BY DEF Emits
    <2> HIDE DEF gone, next, due
    <2>3. Chain(got, Append(wire, m), next, gone)
      BY <1>1, <2>1, <2>2, ChainAppend
    <2>4. LostTexts' = LostTexts
      BY <1>2 DEF LostTexts
    <2> QED BY <1>2, <2>3, <2>4 DEF gone, next
  <1>3. CASE wire' = wire /\ lost' = lost \cup {LossOf(m)}
    <2> DEFINE gone == LostTexts
               later == Due'
               due == Due
    <2>1. m.type = "whole" /\ m.text \in LostTexts'
      <3>1. LossOf(m) \in lost'
        BY <1>3
      <3> QED BY <3>1 DEF LossOf, LostTypes, LostTexts
    <2>2. /\ later = Place("whole", m.text + 1, 0)
          /\ due.text = m.text /\ Starts(due.type) /\ due.text \in Nat
      BY <1>1, <2>1 DEF Emits, Starts, Ends
    <2>3. /\ Starts(later.type) /\ later.text \in Int /\ due.text \in Int
          /\ later.text = due.text + 1
      BY <2>2 DEF Place, Starts
    <2>4. Chain(got, wire, due, gone)
      OBVIOUS
    <2>5. gone \subseteq LostTexts' /\ due.text \in LostTexts'
      BY <1>3, <2>1, <2>2 DEF LostTexts
    <2> HIDE DEF gone, later, due
    <2>6. Chain(got, wire, later, LostTexts')
      BY <1>1, <2>2, <2>3, <2>4, <2>5, ChainLater
    <2> QED BY <1>3, <2>6 DEF later
  <1> QED BY <1>2, <1>3 DEF Emits

(* Sending leaves what the receiver has as it is.                           *)
LEMMA SendInTurn ==
    ASSUME Sound, SendStep, LostTypes' \subseteq {"whole"}, NEW g \in 0..Len(texts), InTurnAt(g)
    PROVE  InTurnAt(g)'
  <1>1. PICK m \in Frames : Emits(m)
    BY DEF SendStep
  <1>2. TextsKept /\ UNCHANGED recvVars
    BY DEF SendStep
  <1>3. lost' = {} => lost = {}
    BY <1>1 DEF Emits
  <1>4. Len(texts) \in Nat /\ \A t \in 1..g : t \in 1..Len(texts) /\ texts'[t] = texts[t]
    BY <1>2, SoundParts, LenProperties DEF TextsKept
  <1>5. g > 0 => g \in 1..g
    BY <1>4
  <1>6. Pieces(g)'
    BY <1>2, <1>4, <1>5 DEF InTurnAt, Pieces, recvVars
  <1>7. Screen(g)'
    <2>1. box # <<>> => g > 0
      BY DEF InTurnAt, Screen, Pieces
    <2>2. box' # <<>> => list' # <<>> /\ box' = Text(g, texts'[g])
      BY <1>2, <1>4, <1>5, <2>1 DEF InTurnAt, Screen, recvVars
    <2>3. \A k \in 1..Len(shown) : \E t \in 1..g :
              shown[k] = Text(t, texts'[t]) /\ (list # <<>> => t < g)
      BY <1>4 DEF InTurnAt, Screen
    <2>4. \A k, l \in 1..Len(shown) : k < l => shown[k][1][2] < shown[l][1][2]
      BY DEF InTurnAt, Screen
    <2> QED BY <1>2, <2>2, <2>3, <2>4 DEF Screen, recvVars
  <1>8. (lost = {} => All(g)')
    <2>1. CASE lost = {}
      <3>1. /\ Len(shown) = IF list = <<>> THEN g ELSE g - 1
            /\ \A k \in 1..Len(shown) : shown[k] = Text(k, texts[k])
        BY <2>1 DEF InTurnAt, All
      <3>2. \A k \in 1..Len(shown) : k \in 1..g
        BY <1>4, <3>1
      <3>3. \A k \in 1..Len(shown) : shown[k] = Text(k, texts'[k])
        BY <1>4, <3>1, <3>2
      <3> QED BY <1>2, <3>1, <3>3 DEF All, recvVars
    <2> QED BY <2>1
  <1>9. Chain(Got(g), wire, Due, LostTexts)'
    <2> DEFINE got == Got(g)
    <2>1. got.text \in Int
      BY <1>4 DEF Got, Place
    <2>2. Got(g)' = got
      BY <1>2 DEF Got, recvVars
    <2>3. Chain(got, wire, Due, LostTexts)
      BY DEF InTurnAt
    <2> HIDE DEF got
    <2>4. Chain(got, wire', Due', LostTexts')
      BY <1>1, <2>1, <2>3, SendChain
    <2> QED BY <2>2, <2>4 DEF Chain, At
  <1>10. heap' = "sound"
    BY <1>2 DEF InTurnAt, recvVars
  <1>11. Behind(g)'
    <2>1. LostTexts \subseteq LostTexts'
      BY <1>1 DEF Emits, LostTexts
    <2> QED BY <1>2, <1>4, <2>1 DEF InTurnAt, Behind, recvVars
  <1> QED BY <1>3, <1>6, <1>7, <1>8, <1>9, <1>10, <1>11 DEF InTurnAt

-----------------------------------------------------------------------------
(* The receiving program.                                                  *)

(* The frame that Receive takes follows the place it got to, and the chain  *)
(* goes on from there.                                                     *)
LEMMA ReceivingChain ==
    ASSUME Sound, NEW type, Receiving(type), NEW g \in 0..Len(texts), InTurnAt(g)
    PROVE  /\ Follows(Got(g), PlaceOf(Head(wire)), LostTexts)
           /\ \A at : /\ at.text = Head(wire).text
                      /\ Ends(at.type) <=> Ends(Head(wire).type)
                      /\ ~Ends(at.type) => at.seq = Head(wire).seq
                      => Chain(at, wire', Due', LostTexts')
           /\ LostTexts' = LostTexts
  <1>1. wire \in Seq(Frames) /\ wire # <<>> /\ wire' = Tail(wire) /\ Due' = Due /\ lost' = lost
    BY SoundParts DEF Receiving, Due, sendVars
  <1>4. LostTexts' = LostTexts
    BY <1>1 DEF LostTexts
  <1> DEFINE got == Got(g)
             due == Due
             gone == LostTexts
  <1>2. Chain(got, wire, due, gone)
    BY DEF InTurnAt
  <1> HIDE DEF got, due, gone
  <1>3. /\ Follows(got, PlaceOf(Head(wire)), gone)
        /\ \A at : /\ at.text = Head(wire).text
                   /\ Ends(at.type) <=> Ends(Head(wire).type)
                   /\ ~Ends(at.type) => at.seq = Head(wire).seq
                   => Chain(at, Tail(wire), due, gone)
    BY <1>1, <1>2, ChainTail
  <1> QED BY <1>1, <1>3, <1>4 DEF got, due, gone

(* Where a frame begins a text, no text is in the list, the text is a later *)
(* one, and the texts it leaves out are lost: none, if nothing was lost.    *)
LEMMA StartFollows ==
    ASSUME Sound, NEW type, Receiving(type), Starts(type), NEW g \in 0..Len(texts), InTurnAt(g)
    PROVE  /\ list = <<>> /\ Head(wire).text \in 1..Len(texts) /\ Head(wire).text > g
           /\ (g + 1)..(Head(wire).text - 1) \subseteq LostTexts
           /\ lost = {} => Head(wire).text = g + 1
  <1>1. Head(wire).type = type /\ FrameSound(Head(wire), texts) /\ box = <<>>
    BY ReceivingType
  <1>2. Follows(Got(g), PlaceOf(Head(wire)), LostTexts)
    BY ReceivingChain
  <1>3. Ends(Got(g).type)
    BY <1>1, <1>2 DEF Follows, PlaceOf, Place
  <1>4. list = <<>> /\ Got(g).text = g
    BY <1>1, <1>3 DEF Got, Place, Ends
  <1>5. /\ Head(wire).text \in 1..Len(texts) /\ Head(wire).text > g
        /\ (g + 1)..(Head(wire).text - 1) \subseteq LostTexts
    BY <1>1, <1>2, <1>3, <1>4 DEF Follows, PlaceOf, Place, FrameSound
  <1>6. ASSUME lost = {} PROVE Head(wire).text = g + 1
    <2>1. g + 1 \notin LostTexts
      BY <1>6 DEF LostTexts
    <2>2. g + 1 \notin (g + 1)..(Head(wire).text - 1)
      BY <1>5, <2>1
    <2>3. Head(wire).text \in Int /\ g \in Int
      BY <1>5, SoundParts, LenProperties
    <2> QED BY <1>5, <2>2, <2>3
  <1> QED BY <1>4, <1>5, <1>6

(* Where it goes on with one, it is the next piece of the text in the list. *)
LEMMA NextFollows ==
    ASSUME Sound, NEW type, Receiving(type), ~Starts(type), NEW g \in 0..Len(texts), InTurnAt(g)
    PROVE  /\ list # <<>> /\ Head(wire).text = g /\ Head(wire).seq = Len(list)
           /\ g \in 1..Len(texts)
  <1>1. Head(wire).type = type /\ FrameSound(Head(wire), texts) /\ box = <<>>
    BY ReceivingType
  <1>2. Follows(Got(g), PlaceOf(Head(wire)), LostTexts)
    BY ReceivingChain
  <1>3. ~Ends(Got(g).type) /\ Got(g).text = Head(wire).text /\ Head(wire).seq = Got(g).seq + 1
    BY <1>1, <1>2 DEF Follows, PlaceOf, Place
  <1>4. list # <<>> /\ Got(g).text = g /\ Got(g).seq = Len(list) - 1
    BY <1>1, <1>3 DEF Got, Place, Ends
  <1>5. Len(list) \in Nat
    BY SoundParts, LenProperties
  <1> QED BY <1>1, <1>3, <1>4, <1>5 DEF FrameSound

(* The first byte of a text says which text it is.                          *)
LEMMA FirstByte ==
    ASSUME Sound, NEW t \in 1..Len(texts)
    PROVE  Text(t, texts[t])[1][2] = t /\ Text(t, texts[t]) # <<>>
  <1>1. /\ texts[t] \in Nat \ {0} /\ Len(Text(t, texts[t])) = texts[t]
        /\ \A i \in 1..texts[t] : Text(t, texts[t])[i] = <<"text", t, i>>
    BY SoundParts, TextType
  <1>2. 1 \in 1..texts[t]
    BY <1>1
  <1>3. Text(t, texts[t])[1] = <<"text", t, 1>>
    BY <1>1, <1>2
  <1> QED BY <1>1, <1>3

(* The next text goes to the chat list behind those before it.              *)
LEMMA ShowText ==
    ASSUME Sound, NEW g \in 1..Len(texts), AddString(Text(g, texts[g])),
           \A k \in 1..Len(shown) : \E t \in 1..g : shown[k] = Text(t, texts[t]) /\ t < g,
           \A k, l \in 1..Len(shown) : k < l => shown[k][1][2] < shown[l][1][2],
           UNCHANGED texts
    PROVE  /\ Len(shown') = Len(shown) + 1
           /\ \A k \in 1..Len(shown) : shown'[k] = shown[k]
           /\ shown'[Len(shown) + 1] = Text(g, texts[g])
           /\ \A k \in 1..Len(shown') : \E t \in 1..g : shown'[k] = Text(t, texts[t])
           /\ \A k, l \in 1..Len(shown') : k < l => shown'[k][1][2] < shown'[l][1][2]
  <1> DEFINE n == Len(shown)
             text == Text(g, texts[g])
  <1>1. /\ n \in Nat /\ Len(shown') = n + 1 /\ \A k \in 1..n : shown'[k] = shown[k]
        /\ shown'[n + 1] = text
    <2>1. shown \in Seq(Seq(Byte)) /\ text \in Seq(Byte) /\ shown' = Append(shown, text)
      BY SoundParts, TextType DEF AddString
    <2> HIDE DEF text
    <2> QED BY <2>1, AppendProperties, LenProperties
  <1>2. \A k \in 1..n+1 : k \in 1..n \/ k = n + 1
    BY <1>1
  <1>3. g \in 1..g
    BY SoundParts, LenProperties
  <1>4. \A k \in 1..n+1 : \E t \in 1..g : shown'[k] = Text(t, texts[t])
    <2>1. \A k \in 1..n : \E t \in 1..g : shown'[k] = Text(t, texts[t])
      BY <1>1
    <2> HIDE DEF n
    <2> QED BY <1>1, <1>2, <1>3, <2>1
  <1>5. \A k \in 1..n : shown[k][1][2] < g
    <2>1. ASSUME NEW k \in 1..n PROVE shown[k][1][2] < g
      <3>1. PICK t \in 1..g : shown[k] = Text(t, texts[t]) /\ t < g
        OBVIOUS
      <3>2. t \in 1..Len(texts)
        BY SoundParts, LenProperties
      <3> QED BY <3>1, <3>2, FirstByte
    <2> QED BY <2>1
  <1>6. text[1][2] = g
    BY FirstByte
  <1> HIDE DEF text, n
  <1>7. ASSUME NEW k \in 1..n+1, NEW l \in 1..n+1, k < l
        PROVE  shown'[k][1][2] < shown'[l][1][2]
    <2>1. k \in 1..n
      BY <1>1, <1>7
    <2>2. CASE l \in 1..n
      BY <1>1, <1>7, <2>1, <2>2 DEF n
    <2>3. CASE l = n + 1
      BY <1>1, <1>5, <1>6, <2>1, <2>3
    <2> QED BY <1>2, <2>2, <2>3
  <1> QED BY <1>1, <1>4, <1>7 DEF n, text

(* What a step of the receiver has to show.                                 *)
LEMMA Turn ==
    ASSUME NEW g \in 0..Len(texts'), Pieces(g)', Screen(g)', lost' = {} => All(g)',
           Behind(g)', Chain(Got(g)', wire', Due', LostTexts'), heap' = "sound"
    PROVE  InTurn'
  <1>1. InTurnAt(g)'
    BY DEF InTurnAt, Chain, At
  <1> QED BY <1>1 DEF InTurn

(* A text in one frame follows the texts shown or lost before it.           *)
LEMMA ReceiveWholeInTurn ==
    ASSUME Sound, ReceiveWhole, NEW g \in 0..Len(texts), InTurnAt(g)
    PROVE  InTurn'
  <1>1. Receiving("whole") /\ UNCHANGED <<list, totalLength, box, heap, up, texts, lost>>
    BY DEF ReceiveWhole, Receiving, sendVars
  <1>0. PICK h : h = Head(wire).text
    OBVIOUS
  <1>2. /\ list = <<>> /\ h \in 1..Len(texts) /\ h > g /\ box = <<>>
        /\ (g + 1)..(h - 1) \subseteq LostTexts
        /\ lost = {} => h = g + 1
    BY <1>0, <1>1, StartFollows, ReceivingType DEF Starts
  <1>3. AddString(Text(h, texts[h]))
    BY <1>0, <1>1, ReceivingType, SoundParts, WholeText DEF ReceiveWhole
  <1>4. Head(wire).type = "whole"
    BY <1>1, ReceivingType
  <1>5. Chain(Got(h)', wire', Due', LostTexts')
    <2>1. Got(h)' = Place("last", h, 0)
      BY <1>1, <1>2 DEF Got
    <2>2. \A at : /\ at.text = Head(wire).text
                  /\ Ends(at.type) <=> Ends(Head(wire).type)
                  /\ ~Ends(at.type) => at.seq = Head(wire).seq
                  => Chain(at, wire', Due', LostTexts')
      BY <1>1, ReceivingChain
    <2> QED BY <1>0, <1>4, <2>1, <2>2 DEF Place, Ends
  <1>6. Len(texts) \in Nat /\ g \in Int /\ h \in Int
    BY <1>2, SoundParts, LenProperties
  <1>7. /\ \A k \in 1..Len(shown) : \E t \in 1..h : shown[k] = Text(t, texts[t]) /\ t < h
        /\ \A k, l \in 1..Len(shown) : k < l => shown[k][1][2] < shown[l][1][2]
    <2>1. \A t \in 1..g : t \in 1..h /\ t < h
      BY <1>2, <1>6
    <2> QED BY <2>1 DEF InTurnAt, Screen
  <1>8. /\ Len(shown') = Len(shown) + 1
        /\ \A k \in 1..Len(shown) : shown'[k] = shown[k]
        /\ shown'[Len(shown) + 1] = Text(h, texts[h])
        /\ \A k \in 1..Len(shown') : \E t \in 1..h : shown'[k] = Text(t, texts[t])
        /\ \A k, l \in 1..Len(shown') : k < l => shown'[k][1][2] < shown'[l][1][2]
    BY <1>1, <1>2, <1>3, <1>7, ShowText
  <1>9. Pieces(h)' /\ Screen(h)'
    BY <1>1, <1>2, <1>8 DEF Pieces, Screen
  <1>10. ASSUME lost' = {} PROVE All(h)'
    <2>1. h = g + 1 /\ Len(shown) = g /\ \A k \in 1..Len(shown) : shown[k] = Text(k, texts[k])
      BY <1>1, <1>2, <1>10 DEF InTurnAt, All
    <2>2. Len(shown') = h /\ \A k \in 1..h : k \in 1..Len(shown) \/ k = h
      BY <1>6, <1>8, <2>1
    <2>3. \A k \in 1..h : shown'[k] = Text(k, texts[k])
      BY <1>8, <2>1, <2>2
    <2> QED BY <1>1, <1>2, <2>2, <2>3 DEF All
  <1>11. heap' = "sound" /\ h \in 0..Len(texts')
    BY <1>1, <1>2, <1>6 DEF InTurnAt
  <1>12. Behind(h)'
    <2>1. LostTexts' = LostTexts
      BY <1>1, ReceivingChain
    <2>2. ASSUME NEW t \in 1..h
          PROVE  t \in LostTexts \/ \E k \in 1..Len(shown') : shown'[k] = Text(t, texts[t])
      <3>1. t \in 1..g \/ t \in (g + 1)..(h - 1) \/ t = h
        BY <1>6
      <3>2. CASE t \in 1..g
        <4>1. t \in LostTexts \/ \E k \in 1..Len(shown) : shown[k] = Text(t, texts[t])
          BY <1>2, <3>2 DEF InTurnAt, Behind
        <4>2. \A k \in 1..Len(shown) : k \in 1..Len(shown')
          BY <1>8, SoundParts, LenProperties
        <4> QED BY <1>8, <4>1, <4>2
      <3>3. CASE t = h
        <4>1. Len(shown) + 1 \in 1..Len(shown')
          BY <1>8, SoundParts, LenProperties
        <4> QED BY <1>8, <3>3, <4>1
      <3> QED BY <1>2, <3>1, <3>2, <3>3
    <2> QED BY <1>1, <2>1, <2>2 DEF Behind
  <1> QED BY <1>5, <1>9, <1>10, <1>11, <1>12, Turn

(* The piece of a frame whose number is next goes to the end of the list.   *)
LEMMA PieceInTurn ==
    ASSUME Sound, NEW type \in {"first", "middle"}, Receiving(type),
           add(Head(wire).data, Head(wire).seq),
           Head(wire).seq = Len(list), \A j \in 1..Len(list) : list[j].seq = j - 1
    PROVE  /\ list' # <<>> /\ Len(list) \in Nat /\ Len(list') = Len(list) + 1
           /\ Len(list') * CharMax <= texts[Head(wire).text]
           /\ \A j \in 1..Len(list) : list'[j] = list[j]
           /\ list'[Len(list) + 1].seq = Len(list)
           /\ \A p \in 1..CharMax : list'[Len(list) + 1].data[p] =
                 <<"text", Head(wire).text, Len(list) * CharMax + p>>
  <1> DEFINE m == Head(wire)
             e == NewPiece(m.data, m.seq)
             n == Len(list)
  <1>1. m \in Frames /\ FrameSound(m, texts) /\ m.type \in {"first", "middle"}
    BY ReceivingType
  <1>2. e \in Piece /\ add(m.data, m.seq) /\ m.seq = n /\ n \in Nat /\ list \in Seq(Piece)
    BY PieceReceived, SoundParts, LenProperties
  <1> HIDE DEF m
  <1>3. \A j \in 1..n : list[j].seq < m.seq
    BY <1>2
  <1>4. list' = Append(list, e)
    BY <1>2, <1>3, AddNext
  <1>5. /\ (m.seq + 1) * CharMax <= texts[m.text]
        /\ \A p \in 1..CharMax :
              ReadBytes(m.data, CharMax)[p] = <<"text", m.text, m.seq * CharMax + p>>
    BY <1>1, SoundParts, FullFrame
  <1>6. e.data = ReadBytes(m.data, CharMax) /\ e.seq = n
    BY <1>2 DEF NewPiece
  <1> HIDE DEF e, n
  <1>7. /\ list' # <<>> /\ Len(list') = n + 1 /\ list'[n + 1] = e
        /\ \A j \in 1..n : list'[j] = list[j]
    BY <1>2, <1>4, AppendProperties DEF n
  <1> QED BY <1>2, <1>5, <1>6, <1>7 DEF n, m

(* A first piece begins the next text, on an empty list.                    *)
LEMMA ReceiveFirstInTurn ==
    ASSUME Sound, ReceiveFirst, NEW g \in 0..Len(texts), InTurnAt(g)
    PROVE  InTurn'
  <1>0. PICK h : h = Head(wire).text
    OBVIOUS
  <1>1. /\ Receiving("first") /\ UNCHANGED <<box, heap, up, shown, texts, lost>>
        /\ add(Head(wire).data, Head(wire).seq) /\ totalLength' = Head(wire).totlen + 1
    BY DEF ReceiveFirst, Receiving, sendVars
  <1>2. /\ list = <<>> /\ h \in 1..Len(texts) /\ h > g /\ box = <<>>
        /\ (g + 1)..(h - 1) \subseteq LostTexts
        /\ lost = {} => h = g + 1
    BY <1>0, <1>1, StartFollows, ReceivingType DEF Starts
  <1>3. Head(wire).type = "first" /\ Head(wire).seq = 0 /\ Head(wire).totlen = texts[h]
    BY <1>0, <1>1, ReceivingType DEF FrameSound, Shape
  <1>4. Len(list) = 0 /\ \A j \in 1..Len(list) : list[j].seq = j - 1
    BY <1>2
  <1>5. /\ list' # <<>> /\ Len(list') = 1
        /\ Len(list') * CharMax <= texts[h]
        /\ list'[1].seq = 0
        /\ \A p \in 1..CharMax : list'[1].data[p] = <<"text", h, 0 * CharMax + p>>
    <2>1. /\ list' # <<>> /\ Len(list') = Len(list) + 1
          /\ Len(list') * CharMax <= texts[Head(wire).text]
          /\ list'[Len(list) + 1].seq = Len(list)
          /\ \A p \in 1..CharMax : list'[Len(list) + 1].data[p] =
                 <<"text", Head(wire).text, Len(list) * CharMax + p>>
      BY <1>1, <1>3, <1>4, PieceInTurn
    <2>2. Len(list) + 1 = 1
      BY <1>4
    <2> QED BY <1>0, <1>4, <2>1, <2>2
  <1>6. Len(texts) \in Nat /\ g \in Int /\ h \in Int
    BY <1>2, SoundParts, LenProperties
  <1>7. Pieces(h)'
    <2>1. h > 0 /\ totalLength' = texts'[h] + 1
      BY <1>1, <1>2, <1>3, <1>6
    <2>2. \A j \in 1..Len(list') : j = 1 /\ j - 1 = 0
      BY <1>5
    <2> QED BY <1>1, <1>5, <2>1, <2>2 DEF Pieces
  <1>8. Chain(Got(h)', wire', Due', LostTexts')
    <2>1. Got(h)' = Place("middle", h, 0)
      <3>1. Got(h)' = Place("middle", h, Len(list') - 1)
        BY <1>1, <1>2, <1>5 DEF Got
      <3> QED BY <1>5, <3>1
    <2>2. \A at : /\ at.text = Head(wire).text
                  /\ Ends(at.type) <=> Ends(Head(wire).type)
                  /\ ~Ends(at.type) => at.seq = Head(wire).seq
                  => Chain(at, wire', Due', LostTexts')
      BY <1>1, ReceivingChain
    <2> QED BY <1>0, <1>3, <2>1, <2>2 DEF Place, Ends
  <1>9. Screen(h)'
    <2>1. \A t \in 1..g : t \in 1..h /\ t < h
      BY <1>2, <1>6
    <2>2. /\ \A k \in 1..Len(shown) : \E t \in 1..h : shown[k] = Text(t, texts[t]) /\ t < h
          /\ \A k, l \in 1..Len(shown) : k < l => shown[k][1][2] < shown[l][1][2]
      BY <2>1 DEF InTurnAt, Screen
    <2> QED BY <1>1, <1>2, <2>2 DEF Screen
  <1>10. ASSUME lost' = {} PROVE All(h)'
    <2>1. h = g + 1 /\ Len(shown) = g /\ \A k \in 1..Len(shown) : shown[k] = Text(k, texts[k])
      BY <1>1, <1>2, <1>10 DEF InTurnAt, All
    <2>2. Len(shown') = h - 1
      BY <1>1, <1>6, <2>1
    <2> QED BY <1>1, <1>5, <2>1, <2>2 DEF All
  <1>11. heap' = "sound" /\ h \in 0..Len(texts')
    BY <1>1, <1>2, <1>6 DEF InTurnAt
  <1>12. Behind(h)'
    <2>1. LostTexts' = LostTexts
      BY <1>1, ReceivingChain
    <2>2. ASSUME NEW t \in 1..h
          PROVE  \/ t \in LostTexts
                 \/ \E k \in 1..Len(shown) : shown[k] = Text(t, texts[t])
                 \/ t = h
      <3>1. t \in 1..g \/ t \in (g + 1)..(h - 1) \/ t = h
        BY <1>6
      <3> QED BY <1>2, <3>1 DEF InTurnAt, Behind
    <2> QED BY <1>1, <1>5, <2>1, <2>2 DEF Behind
  <1> QED BY <1>7, <1>8, <1>9, <1>10, <1>11, <1>12, Turn

(* A middle piece goes behind the pieces of its text that are listed.       *)
LEMMA ReceiveMiddleInTurn ==
    ASSUME Sound, ReceiveMiddle, NEW g \in 0..Len(texts), InTurnAt(g)
    PROVE  InTurn'
  <1>1. /\ Receiving("middle")
        /\ UNCHANGED <<totalLength, box, heap, up, shown, texts, lost>>
        /\ add(Head(wire).data, Head(wire).seq)
    BY DEF ReceiveMiddle, Receiving, sendVars
  <1>2. /\ list # <<>> /\ Head(wire).text = g /\ Head(wire).seq = Len(list)
        /\ g \in 1..Len(texts) /\ box = <<>> /\ Head(wire).type = "middle"
    BY <1>1, NextFollows, ReceivingType DEF Starts
  <1>3. /\ g > 0 /\ totalLength = texts[g] + 1
        /\ \A j \in 1..Len(list) :
             /\ list[j].seq = j - 1
             /\ \A p \in 1..CharMax : list[j].data[p] = <<"text", g, (j - 1) * CharMax + p>>
    BY <1>2 DEF InTurnAt, Pieces
  <1>4. PICK n \in Nat : n = Len(list)
    BY SoundParts, LenProperties
  <1>5. /\ list' # <<>> /\ Len(list') = n + 1 /\ Len(list') * CharMax <= texts[g]
        /\ \A j \in 1..n : list'[j] = list[j]
        /\ list'[n + 1].seq = n
        /\ \A p \in 1..CharMax : list'[n + 1].data[p] = <<"text", g, n * CharMax + p>>
    BY <1>1, <1>2, <1>3, <1>4, PieceInTurn
  <1>6. Pieces(g)'
    <2>1. ASSUME NEW j \in 1..n+1
          PROVE  /\ list'[j].seq = j - 1
                 /\ \A p \in 1..CharMax : list'[j].data[p] = <<"text", g, (j - 1) * CharMax + p>>
      <3>1. CASE j \in 1..n
        BY <1>3, <1>4, <1>5, <3>1
      <3>2. CASE j = n + 1
        <4>1. j - 1 = n
          BY <3>2
        <4> QED BY <1>5, <3>2, <4>1
      <3> QED BY <3>1, <3>2
    <2> QED BY <1>1, <1>3, <1>5, <2>1 DEF Pieces
  <1>7. Chain(Got(g)', wire', Due', LostTexts')
    <2>1. Got(g)' = Place("middle", g, n)
      <3>1. Got(g)' = Place("middle", g, Len(list') - 1)
        BY <1>1, <1>2, <1>5 DEF Got
      <3> QED BY <1>5, <3>1
    <2>2. \A at : /\ at.text = Head(wire).text
                  /\ Ends(at.type) <=> Ends(Head(wire).type)
                  /\ ~Ends(at.type) => at.seq = Head(wire).seq
                  => Chain(at, wire', Due', LostTexts')
      BY <1>1, ReceivingChain
    <2> QED BY <1>2, <1>4, <2>1, <2>2 DEF Place, Ends
  <1>8. Screen(g)' /\ (lost' = {} => All(g)') /\ heap' = "sound" /\ g \in 0..Len(texts')
    BY <1>1, <1>2, <1>5 DEF InTurnAt, Screen, All
  <1>9. Behind(g)'
    <2>1. LostTexts' = LostTexts
      BY <1>1, ReceivingChain
    <2> QED BY <1>1, <1>5, <2>1 DEF InTurnAt, Behind
  <1> QED BY <1>6, <1>7, <1>8, <1>9, Turn

(* A last frame in turn completes the text, which is the one that was sent. *)
LEMMA LastCompletes ==
    ASSUME Sound, Receiving("last"), NEW g \in 0..Len(texts), InTurnAt(g)
    PROVE  /\ Complete(Head(wire))
           /\ CString(Assembled(Head(wire))) = Text(g, texts[g])
  <1> DEFINE m == Head(wire)
             tail == Len(list) * CharMax
             n == texts[g]
             text == CString(Assembled(m))
  <1>1. /\ list # <<>> /\ m.text = g /\ m.seq = Len(list) /\ g \in 1..Len(texts)
        /\ m \in Frames /\ FrameSound(m, texts) /\ m.type = "last"
    BY NextFollows, ReceivingType DEF Starts
  <1>2. /\ totalLength = n + 1
        /\ \A j \in 1..Len(list) : \A p \in 1..CharMax :
              list[j].data[p] = <<"text", g, (j - 1) * CharMax + p>>
    BY <1>1 DEF InTurnAt, Pieces
  <1>3. /\ n \in Nat \ {0} /\ Text(g, n) \in Seq(Byte) /\ Len(Text(g, n)) = n
        /\ \A i \in 1..n : Text(g, n)[i] = <<"text", g, i>>
        /\ Len(list) \in Nat /\ CharMax \in Nat \ {0}
    BY <1>1, SoundParts, TextType, LenProperties, Sizes
  <1> HIDE DEF m
  <1>4. Complete(m)
    <2>1. m.seq * CharMax + m.totlen = n + 1
      BY <1>1, SoundParts, LastFrame
    <2> QED BY <1>1, <1>2, <2>1 DEF Complete
  <1>5. /\ text \in Seq(Byte) /\ Len(text) = totalLength - 1
        /\ tail \in Nat
        /\ \A q \in 1..totalLength-1 :
             /\ q <= tail =>
                  text[q] = list[((q - 1) \div CharMax) + 1].data[((q - 1) % CharMax) + 1]
             /\ q > tail => text[q] = <<"text", m.text, m.seq * CharMax + (q - tail)>>
    BY <1>1, <1>4, AssembledText DEF Sound
  <1>6. totalLength - 1 = n
    <2> HIDE DEF n
    <2> QED BY <1>2, <1>3
  <1> HIDE DEF text
  <1>7. ASSUME NEW q \in 1..n PROVE text[q] = <<"text", g, q>>
    <2>1. CASE q <= tail
      <3> DEFINE j == (q - 1) \div CharMax
                 r == (q - 1) % CharMax
                 L == Len(list)
      <3>1. q \in 1..tail
        <4> HIDE DEF tail, n
        <4> QED BY <1>3, <1>5, <2>1
      <3>2. j + 1 \in 1..L /\ r + 1 \in 1..CharMax /\ q = j * CharMax + r + 1
        BY <1>3, <3>1, PieceOfPlace
      <3>3. text[q] = list[j + 1].data[r + 1]
        BY <1>5, <1>6, <2>1
      <3>4. j \in Int /\ r \in Int
        <4> HIDE DEF n
        <4> QED BY <1>3
      <3> HIDE DEF j, r, L
      <3>5. PICK k \in 1..L : k = j + 1
        BY <3>2
      <3>6. PICK p \in 1..CharMax : p = r + 1
        BY <3>2
      <3>7. list[k].data[p] = <<"text", g, (k - 1) * CharMax + p>>
        BY <1>2 DEF L
      <3>8. (k - 1) * CharMax + p = q
        <4>1. k - 1 = j
          BY <3>4, <3>5
        <4>2. (k - 1) * CharMax = j * CharMax /\ j * CharMax \in Int
          BY <1>3, <3>4, <4>1
        <4> QED BY <3>2, <3>4, <3>6, <4>2
      <3> QED BY <3>3, <3>5, <3>6, <3>7, <3>8
    <2>2. CASE q > tail
      <3>1. text[q] = <<"text", m.text, m.seq * CharMax + (q - tail)>>
        BY <1>5, <1>6, <2>2
      <3>2. tail + (q - tail) = q /\ m.seq * CharMax = tail
        <4>1. m.seq * CharMax = tail
          BY <1>1
        <4> HIDE DEF tail, n
        <4> QED BY <1>3, <1>5, <4>1
      <3> QED BY <1>1, <3>1, <3>2
    <2>3. q <= tail \/ q > tail
      <3> HIDE DEF tail, n
      <3> QED BY <1>3, <1>5
    <2> HIDE DEF tail, n
    <2> QED BY <2>1, <2>2, <2>3
  <1> HIDE DEF n, tail
  <1>8. text = Text(g, n)
    <2>1. Len(text) = n /\ Len(Text(g, n)) = n /\ \A i \in 1..Len(text) : text[i] = Text(g, n)[i]
      BY <1>3, <1>5, <1>6, <1>7
    <2> QED BY <1>3, <1>5, <2>1, SeqEqual
  <1> QED BY <1>4, <1>8 DEF m, n, text

(* A last piece completes its text: what the box shows is that text.        *)
LEMMA ReceiveLastInTurn ==
    ASSUME Sound, ReceiveLast, NEW g \in 0..Len(texts), InTurnAt(g)
    PROVE  InTurn'
  <1>1. /\ Receiving("last") /\ box' = CString(Assembled(Head(wire)))
        /\ UNCHANGED <<list, totalLength, heap, up, shown, texts, lost>>
    BY DEF ReceiveLast, Receiving, sendVars
  <1>2. /\ list # <<>> /\ Head(wire).text = g
        /\ g \in 1..Len(texts) /\ Head(wire).type = "last"
    BY <1>1, NextFollows, ReceivingType DEF Starts
  <1>3. box' = Text(g, texts[g]) /\ box' # <<>>
    BY <1>1, <1>2, LastCompletes, FirstByte
  <1>4. Pieces(g)' /\ Screen(g)' /\ (lost' = {} => All(g)') /\ heap' = "sound"
        /\ g \in 0..Len(texts')
    BY <1>1, <1>2, <1>3 DEF InTurnAt, Pieces, Screen, All
  <1>5. Chain(Got(g)', wire', Due', LostTexts')
    <2>1. Got(g)' = Place("last", g, 0)
      BY <1>3 DEF Got
    <2>2. \A at : /\ at.text = Head(wire).text
                  /\ Ends(at.type) <=> Ends(Head(wire).type)
                  /\ ~Ends(at.type) => at.seq = Head(wire).seq
                  => Chain(at, wire', Due', LostTexts')
      BY <1>1, ReceivingChain
    <2> QED BY <1>2, <2>1, <2>2 DEF Place, Ends
  <1>6. Behind(g)'
    <2>1. LostTexts' = LostTexts
      BY <1>1, ReceivingChain
    <2> QED BY <1>1, <2>1 DEF InTurnAt, Behind
  <1> QED BY <1>4, <1>5, <1>6, Turn

(* The user closes the box.                                                 *)
LEMMA DismissInTurn ==
    ASSUME Sound, Dismiss, NEW g \in 0..Len(texts), InTurnAt(g)
    PROVE  InTurn'
  <1>1. /\ AddString(box) /\ list' = <<>> /\ box' = <<>> /\ box # <<>>
        /\ UNCHANGED <<sending, texts, lost, wire, totalLength, heap, up>>
    BY DEF Dismiss, sendVars
  <1>2. list # <<>> /\ box = Text(g, texts[g]) /\ g \in 1..Len(texts)
    <2>1. g > 0 /\ list # <<>> /\ box = Text(g, texts[g])
      BY <1>1 DEF InTurnAt, Screen, Pieces
    <2> QED BY <2>1, SoundParts, LenProperties
  <1>3. /\ \A k \in 1..Len(shown) : \E t \in 1..g : shown[k] = Text(t, texts[t]) /\ t < g
        /\ \A k, l \in 1..Len(shown) : k < l => shown[k][1][2] < shown[l][1][2]
    BY <1>2 DEF InTurnAt, Screen
  <1>4. /\ Len(shown') = Len(shown) + 1
        /\ \A k \in 1..Len(shown) : shown'[k] = shown[k]
        /\ shown'[Len(shown) + 1] = Text(g, texts[g])
        /\ \A k \in 1..Len(shown') : \E t \in 1..g : shown'[k] = Text(t, texts[t])
        /\ \A k, l \in 1..Len(shown') : k < l => shown'[k][1][2] < shown'[l][1][2]
    BY <1>1, <1>2, <1>3, ShowText
  <1>5. Pieces(g)' /\ Screen(g)'
    BY <1>1, <1>4 DEF Pieces, Screen
  <1>6. ASSUME lost' = {} PROVE All(g)'
    <2>1. Len(shown) = g - 1 /\ \A k \in 1..Len(shown) : shown[k] = Text(k, texts[k])
      BY <1>1, <1>2, <1>6 DEF InTurnAt, All
    <2>2. Len(shown') = g /\ \A k \in 1..g : k \in 1..Len(shown) \/ (k = g /\ k = Len(shown) + 1)
      BY <1>2, <1>4, <2>1
    <2>3. \A k \in 1..g : shown'[k] = Text(k, texts[k])
      BY <1>4, <2>1, <2>2
    <2> QED BY <1>1, <2>2, <2>3 DEF All
  <1>7. Chain(Got(g)', wire', Due', LostTexts')
    <2>1. Got(g)' = Got(g) /\ Due' = Due
      BY <1>1 DEF Got, Due
    <2>2. Chain(Got(g), wire, Due, LostTexts)
      BY DEF InTurnAt
    <2>3. LostTexts' = LostTexts
      BY <1>1 DEF LostTexts
    <2> QED BY <1>1, <2>1, <2>2, <2>3
  <1>8. heap' = "sound" /\ g \in 0..Len(texts')
    BY <1>1 DEF InTurnAt
  <1>9. Behind(g)'
    <2>1. LostTexts' = LostTexts
      BY <1>1 DEF LostTexts
    <2>2. ASSUME NEW t \in 1..g
          PROVE  t \in LostTexts \/ \E k \in 1..Len(shown') : shown'[k] = Text(t, texts[t])
      <3>1. \/ t \in LostTexts
            \/ \E k \in 1..Len(shown) : shown[k] = Text(t, texts[t])
            \/ t = g
        BY DEF InTurnAt, Behind
      <3>2. /\ \A k \in 1..Len(shown) : k \in 1..Len(shown')
            /\ Len(shown) + 1 \in 1..Len(shown')
        BY <1>4, SoundParts, LenProperties
      <3> QED BY <1>4, <3>1, <3>2
    <2> QED BY <1>1, <2>1, <2>2 DEF Behind
  <1> QED BY <1>5, <1>6, <1>7, <1>8, <1>9, Turn

(* InTurn is an invariant, next to Sound.                                   *)
LEMMA InTurnInit == Init => InTurn
  <1> SUFFICES ASSUME Init PROVE InTurnAt(0) /\ 0 \in 0..Len(texts)
    BY DEF InTurn
  <1>1. /\ sending = NotSending /\ wire = <<>> /\ list = <<>> /\ box = <<>> /\ heap = "sound"
        /\ texts = <<>> /\ shown = <<>> /\ Len(texts) = 0 /\ Len(wire) = 0 /\ Len(shown) = 0
    BY DEF Init
  <1>2. Pieces(0) /\ Screen(0) /\ All(0) /\ Behind(0)
    BY <1>1 DEF Pieces, Screen, All, Behind
  <1>3. Chain(Got(0), wire, Due, LostTexts)
    <2>1. Got(0) = Place("last", 0, 0) /\ Due = Place("whole", 1, 0)
      BY <1>1 DEF Got, Due
    <2>2. Follows(Got(0), Due, LostTexts)
      <3>1. (0 + 1)..(1 - 1) = {}
        OBVIOUS
      <3> QED BY <2>1, <3>1 DEF Follows, Place, Starts, Ends
    <2>3. \A i \in 0..Len(wire) : i = 0 /\ ~(i + 1 <= Len(wire)) /\ i + 1 # 0
      BY <1>1
    <2> QED BY <2>2, <2>3 DEF Chain, At
  <1> QED BY <1>1, <1>2, <1>3 DEF InTurnAt

(* Every step keeps the texts in turn while only whole texts are lost.      *)
LEMMA InTurnStep == Sound /\ InTurn /\ [Next]_vars => InTurn'
  <1> SUFFICES ASSUME Sound, InTurn, [Next]_vars, LostTypes' \subseteq {"whole"}
               PROVE  InTurn'
    BY DEF InTurn
  <1>1. CASE (\E n \in Lengths : SendWhole(n) \/ SendFirst(n)) \/ SendMiddle \/ SendLast
    <2>1. SendStep
      BY <1>1, SendSteps
    <2>2. LostTypes \subseteq LostTypes'
      BY <2>1 DEF SendStep, Emits, LostTypes
    <2>3. PICK g \in 0..Len(texts) : InTurnAt(g)
      BY <2>2 DEF InTurn
    <2>4. InTurnAt(g)'
      BY <2>1, <2>3, SendInTurn
    <2>5. g \in 0..Len(texts')
      BY <2>1, <2>3, SoundParts, LenProperties DEF SendStep, TextsKept
    <2> QED BY <2>4, <2>5 DEF InTurn
  <1>2. CASE Receive
    <2>1. lost' = lost
      BY <1>2 DEF Receive, ReceiveWhole, ReceiveFirst, ReceiveMiddle, ReceiveLast,
                  ReceiveLastDropped, Receiving
    <2>2. PICK g \in 0..Len(texts) : InTurnAt(g)
      BY <2>1 DEF InTurn, LostTypes
    <2>3. ASSUME ReceiveLastDropped PROVE FALSE
      BY <2>2, <2>3, LastCompletes DEF ReceiveLastDropped
    <2> QED BY <1>2, <2>2, <2>3, ReceiveWholeInTurn, ReceiveFirstInTurn, ReceiveMiddleInTurn,
               ReceiveLastInTurn DEF Receive
  <1>3. CASE Dismiss
    <2>1. lost' = lost
      BY <1>3 DEF Dismiss
    <2>2. PICK g \in 0..Len(texts) : InTurnAt(g)
      BY <2>1 DEF InTurn, LostTypes
    <2> QED BY <1>3, <2>2, DismissInTurn
  <1>4. CASE UNCHANGED vars
    <2>1. PICK g \in 0..Len(texts) : InTurnAt(g)
      BY <1>4 DEF InTurn, LostTypes, vars
    <2>2. Got(g)' = Got(g) /\ Due' = Due
      BY <1>4 DEF Got, Due, vars
    <2>3. Chain(Got(g), wire, Due, LostTexts)
      BY <2>1 DEF InTurnAt
    <2>4. Chain(Got(g)', wire', Due', LostTexts')
      BY <1>4, <2>2, <2>3 DEF LostTexts, vars
    <2>5. Pieces(g)' /\ Screen(g)' /\ Behind(g)' /\ (lost' = {} => All(g)') /\ heap' = "sound"
          /\ g \in 0..Len(texts')
      BY <1>4, <2>1 DEF InTurnAt, Pieces, Screen, Behind, LostTexts, All, vars
    <2> QED BY <2>4, <2>5, Turn
  <1> QED BY <1>1, <1>2, <1>3, <1>4 DEF Next

(* The two invariants hold in every run.                                    *)
LEMMA AlwaysInTurn == Spec => [](Sound /\ InTurn)
  <1> QED BY SoundInit, SoundStep, InTurnInit, InTurnStep, PTL DEF Spec

-----------------------------------------------------------------------------
(* What follows.                                                           *)

(* Pieces run over the end of GetBuff only if a frame was lost.             *)
THEOREM CopiesInside == Spec => []OverrunNeedsLoss
  <1>1. Sound /\ InTurn => OverrunNeedsLoss
    BY DEF InTurn, InTurnAt, OverrunNeedsLoss, LostTypes
  <1> QED BY <1>1, AlwaysInTurn, PTL

(* While no frame of a cut text is lost, none of them means no piece: what  *)
(* the list holds is a text that is still coming.                           *)
THEOREM ListDrained == Spec => []NoLeftOvers
  <1>1. ASSUME Sound, InTurn PROVE NoLeftOvers
    <2> SUFFICES ASSUME LostTypes \subseteq {"whole"}, sending = NotSending, box = <<>>,
                        \A k \in DOMAIN wire : wire[k].type = "whole", list # <<>>
                 PROVE  FALSE
      BY DEF NoLeftOvers
    <2>1. PICK g \in 0..Len(texts) : InTurnAt(g)
      BY <1>1 DEF InTurn
    <2>2. Got(g).type = "middle" /\ Due.type = "whole"
      BY DEF Got, Due, Place
    <2>3. Follows(At(Got(g), wire, Due, 0), At(Got(g), wire, Due, 0 + 1), LostTexts)
      <3>1. 0 \in 0..Len(wire)
        BY <1>1, SoundParts, LenProperties
      <3> QED BY <2>1, <3>1 DEF InTurnAt, Chain
    <2>4. At(Got(g), wire, Due, 0).type = "middle"
      BY <2>2 DEF At
    <2>5. At(Got(g), wire, Due, 0 + 1).type = "whole"
      <3>1. CASE Len(wire) >= 1
        <4>1. 1 \in DOMAIN wire
          BY <1>1, <3>1, SoundParts, LenProperties
        <4> QED BY <3>1, <4>1 DEF At, PlaceOf, Place
      <3>2. CASE ~(Len(wire) >= 1)
        <4>1. ~(0 + 1 <= Len(wire)) /\ 0 + 1 # 0
          BY <1>1, <3>2, SoundParts, LenProperties
        <4> QED BY <2>2, <4>1 DEF At
      <3> QED BY <3>1, <3>2
    <2> QED BY <2>3, <2>4, <2>5 DEF Follows, Starts, Ends
  <1> QED BY <1>1, AlwaysInTurn, PTL

(* The strings on the screen: those in the chat list and the one in the box.*)
LEMMA ScreenParts ==
    ASSUME Sound
    PROVE  /\ Len(shown) \in Nat
           /\ DOMAIN OnScreen = 1..(IF box = <<>> THEN Len(shown) ELSE Len(shown) + 1)
           /\ \A k \in 1..Len(shown) : OnScreen[k] = shown[k]
           /\ box # <<>> => OnScreen[Len(shown) + 1] = box
  <1>1. shown \in Seq(Seq(Byte)) /\ box \in Seq(Byte) /\ Len(shown) \in Nat
        /\ DOMAIN shown = 1..Len(shown)
    BY SoundParts, LenProperties
  <1>2. CASE box = <<>>
    BY <1>1, <1>2, ConcatEmptySeq DEF OnScreen
  <1>3. CASE box # <<>>
    <2>1. OnScreen = Append(shown, box)
      BY <1>1, <1>3, AppendIsConcat DEF OnScreen
    <2>2. /\ Append(shown, box) \in Seq(Seq(Byte))
          /\ Len(Append(shown, box)) = Len(shown) + 1
          /\ \A j \in 1..Len(shown) : Append(shown, box)[j] = shown[j]
          /\ Append(shown, box)[Len(shown) + 1] = box
      BY <1>1, AppendProperties
    <2>3. DOMAIN Append(shown, box) = 1..Len(shown)+1
      BY <2>2, LenProperties
    <2> QED BY <1>1, <1>3, <2>1, <2>2, <2>3
  <1> QED BY <1>2, <1>3

(* A text of which no frame was lost, while no more than frames of uncut    *)
(* texts were, is on the screen or has a frame under way.                   *)
LEMMA NoneMissing ==
    ASSUME Sound, InTurn, LostTypes \subseteq {"whole"}, NEW t \in DOMAIN texts, t \notin LostTexts
    PROVE  UnderWay(t) \/ \E k \in DOMAIN OnScreen : OnScreen[k] = Text(t, texts[t])
  <1>1. PICK g \in 0..Len(texts) : InTurnAt(g)
    BY DEF InTurn
  <1>2. /\ Len(texts) \in Nat /\ t \in 1..Len(texts) /\ wire \in Seq(Frames)
        /\ DOMAIN wire = 1..Len(wire)
    BY SoundParts, LenProperties
  <1>3. CASE t <= g
    <2>1. t \in 1..g
      BY <1>2, <1>3
    <2>2. CASE \E k \in 1..Len(shown) : shown[k] = Text(t, texts[t])
      <3>1. \A k \in 1..Len(shown) : k \in DOMAIN OnScreen /\ OnScreen[k] = shown[k]
        <4>1. PICK n \in Nat : n = Len(shown)
          BY ScreenParts
        <4>2. DOMAIN OnScreen = 1..(IF box = <<>> THEN n ELSE n + 1)
          BY <4>1, ScreenParts
        <4>3. \A k \in 1..n : k \in 1..(n + 1)
          OBVIOUS
        <4> QED BY <4>1, <4>2, <4>3, ScreenParts
      <3> QED BY <2>2, <3>1
    <2>3. CASE t = g /\ list # <<>>
      <3>1. list[1].data[1] = <<"text", g, (1 - 1) * CharMax + 1>>
        <4>1. 1 \in 1..Len(list) /\ 1 \in 1..CharMax
          BY <2>3, SoundParts, LenProperties, EmptySeq, Sizes
        <4> QED BY <1>1, <2>3, <4>1 DEF InTurnAt, Pieces
      <3>2. list[1].data[1][2] = g
        <4> DEFINE a == (1 - 1) * CharMax + 1
        <4>1. list[1].data[1] = <<"text", g, a>>
          BY <3>1
        <4> HIDE DEF a
        <4> QED BY <4>1
      <3> QED BY <2>3, <3>2 DEF UnderWay
    <2> QED BY <1>1, <2>1, <2>2, <2>3 DEF InTurnAt, Behind
  <1>4. CASE ~(t <= g)
    <2> DEFINE got == Got(g)
               due == Due
               gone == LostTexts
    <2>1. got.text = g /\ g \in Int
      BY <1>2 DEF Got, Place
    <2>2. due.text \in Int /\ t <= due.text /\ (t = due.text => sending # NotSending /\ t = Len(texts))
      BY <1>2 DEF Due, Place
    <2>3. Chain(got, wire, due, gone)
      BY <1>1 DEF InTurnAt
    <2> HIDE DEF got, due, gone
    <2>4. t \in gone \/ t = due.text \/ \E k \in 1..Len(wire) : wire[k].text = t
      BY <1>2, <1>4, <2>1, <2>2, <2>3, ChainCovers
    <2> QED BY <1>2, <2>2, <2>4 DEF gone, UnderWay
  <1> QED BY <1>3, <1>4

(* A lost frame of an uncut text costs that text and no other: every string *)
(* on the screen is a text that was sent, they are in order, and a text of  *)
(* which nothing was lost is among them or still under way.                 *)
THEOREM OtherTextsArrive == Spec => []LostWholeCostsOneText
  <1>1. ASSUME Sound, InTurn, LostTypes \subseteq {"whole"},
               NEW k \in DOMAIN OnScreen, NEW l \in DOMAIN OnScreen
        PROVE  /\ OnScreen[k] \in Sent
               /\ k < l => OnScreen[k][1][2] < OnScreen[l][1][2]
    <2>1. PICK g \in 0..Len(texts) : InTurnAt(g)
      BY <1>1 DEF InTurn
    <2>2. Len(texts) \in Nat /\ DOMAIN texts = 1..Len(texts)
      BY <1>1, SoundParts, LenProperties
    <2>3. PICK n \in Nat : n = Len(shown)
      BY <1>1, ScreenParts
    <2>4. /\ \A i \in 1..n : OnScreen[i] = shown[i]
          /\ box # <<>> => OnScreen[n + 1] = box
          /\ \A i \in DOMAIN OnScreen : i \in 1..n \/ (i = n + 1 /\ box # <<>>)
      <3>1. DOMAIN OnScreen = 1..(IF box = <<>> THEN n ELSE n + 1)
        BY <1>1, <2>3, ScreenParts
      <3>2. \A i \in 1..n+1 : i \in 1..n \/ i = n + 1
        OBVIOUS
      <3> QED BY <1>1, <2>3, <3>1, <3>2, ScreenParts
    <2>5. /\ \A i \in 1..n : \E t \in 1..g : shown[i] = Text(t, texts[t]) /\ (list # <<>> => t < g)
          /\ \A i, j \in 1..n : i < j => shown[i][1][2] < shown[j][1][2]
          /\ box # <<>> => list # <<>> /\ box = Text(g, texts[g]) /\ g \in 1..Len(texts)
      <3>1. box # <<>> => list # <<>> /\ g > 0
        BY <2>1 DEF InTurnAt, Screen, Pieces
      <3>2. g > 0 => g \in 1..Len(texts)
        BY <2>1, <2>2
      <3> QED BY <2>1, <2>3, <3>1, <3>2 DEF InTurnAt, Screen
    <2>6. \A t \in 1..g : t \in 1..Len(texts)
      BY <2>1, <2>2
    <2>7. ASSUME NEW i \in 1..n
          PROVE  /\ OnScreen[i] \in Sent
                 /\ box # <<>> => OnScreen[i][1][2] < g
      <3>1. PICK t \in 1..g : shown[i] = Text(t, texts[t]) /\ (list # <<>> => t < g)
        BY <2>5
      <3>2. t \in 1..Len(texts) /\ t \in DOMAIN texts
        BY <2>2, <2>6
      <3>3. shown[i][1][2] = t
        BY <1>1, <3>1, <3>2, FirstByte
      <3> QED BY <2>4, <2>5, <3>1, <3>2, <3>3 DEF Sent
    <2>8. box # <<>> => OnScreen[n + 1] \in Sent /\ OnScreen[n + 1][1][2] = g
      <3>1. ASSUME box # <<>> PROVE OnScreen[n + 1] \in Sent /\ OnScreen[n + 1][1][2] = g
        <4>1. OnScreen[n + 1] = Text(g, texts[g]) /\ g \in 1..Len(texts)
          BY <2>4, <2>5, <3>1
        <4>2. Text(g, texts[g])[1][2] = g
          BY <1>1, <4>1, FirstByte
        <4>3. Text(g, texts[g]) \in Sent
          BY <2>2, <4>1 DEF Sent
        <4> QED BY <4>1, <4>2, <4>3
      <3> QED BY <3>1
    <2>9. OnScreen[k] \in Sent
      BY <1>1, <2>4, <2>7, <2>8
    <2>10. ASSUME k < l PROVE OnScreen[k][1][2] < OnScreen[l][1][2]
      <3>1. k \in 1..n
        BY <1>1, <2>4, <2>10
      <3>2. CASE l \in 1..n
        BY <2>4, <2>5, <2>10, <3>1, <3>2
      <3>3. CASE l = n + 1 /\ box # <<>>
        BY <2>7, <2>8, <3>1, <3>3
      <3> QED BY <1>1, <2>4, <3>2, <3>3
    <2> QED BY <2>9, <2>10
  <1>2. Sound /\ InTurn => LostWholeCostsOneText
    BY <1>1, NoneMissing DEF LostWholeCostsOneText
  <1> QED BY <1>2, AlwaysInTurn, PTL

-----------------------------------------------------------------------------
(* Over a wire that loses nothing: the courier of texts.                   *)

Posted(ts) == [k \in DOMAIN ts |-> Text(k, ts[k])]

(* The texts as the courier has them are as many as were typed.             *)
LEMMA PostedType ==
    ASSUME NEW ts \in Seq(Lengths), Len(ts) <= MaxTexts
    PROVE  /\ Posted(ts) \in Seq(Seq(Byte)) /\ Len(Posted(ts)) = Len(ts)
           /\ Len(ts) \in Nat /\ DOMAIN ts = 1..Len(ts)
           /\ \A k \in 1..Len(ts) : Posted(ts)[k] = Text(k, ts[k])
  <1>1. Len(ts) \in Nat /\ DOMAIN ts = 1..Len(ts)
    BY LenProperties
  <1>2. \A k \in 1..Len(ts) : Text(k, ts[k]) \in Seq(Byte)
    <2>1. \A k \in 1..Len(ts) : ts[k] \in Lengths /\ k \in 1..MaxTexts
      BY <1>1, ElementOfSeq, Sizes
    <2> QED BY <2>1, PayloadType
  <1> DEFINE n == Len(ts)
  <1>3. Posted(ts) \in [1..n -> Seq(Byte)] /\ \A k \in 1..n : Posted(ts)[k] = Text(k, ts[k])
    BY <1>1, <1>2 DEF Posted
  <1> HIDE DEF n
  <1>4. Posted(ts) \in Seq(Seq(Byte)) /\ Len(Posted(ts)) = n
    BY <1>1, <1>3 DEF n
  <1> QED BY <1>1, <1>3, <1>4 DEF n

(* Pressing the button posts the text.                                      *)
LEMMA PostStep ==
    ASSUME Sound, NEW n \in Lengths, NewText(n), UNCHANGED shown
    PROVE  TextCourier!Post
  <1> DEFINE k == Len(texts) + 1
             p == Text(k, n)
             A == Posted(texts)
             B == Posted(texts')
  <1>1. /\ texts' \in Seq(Lengths) /\ Len(texts') <= MaxTexts
        /\ \A t \in 1..Len(texts) : texts'[t] = texts[t]
        /\ Len(texts) \in Nat /\ Len(texts') = k /\ texts'[k] = n /\ k <= MaxTexts
    BY NewTextType DEF NewText, TextsKept
  <1>2. k \in 1..MaxTexts
    BY <1>1, Sizes
  <1>3. /\ A \in Seq(Seq(Byte)) /\ Len(A) = Len(texts)
        /\ \A t \in 1..Len(texts) : A[t] = Text(t, texts[t])
        /\ B \in Seq(Seq(Byte)) /\ Len(B) = k
        /\ \A t \in 1..k : B[t] = Text(t, texts'[t])
    <2>1. /\ A \in Seq(Seq(Byte)) /\ Len(A) = Len(texts)
          /\ \A t \in 1..Len(texts) : A[t] = Text(t, texts[t])
      BY SoundParts, PostedType
    <2>2. /\ B \in Seq(Seq(Byte)) /\ Len(B) = Len(texts')
          /\ \A t \in 1..Len(texts') : B[t] = Text(t, texts'[t])
      BY <1>1, PostedType
    <2> QED BY <1>1, <2>1, <2>2
  <1> HIDE DEF A, B
  <1>4. p \in Seq(Byte)
    BY <1>2, PayloadType
  <1>5. B = Append(A, p)
    <2> HIDE DEF p
    <2>1. /\ Append(A, p) \in Seq(Seq(Byte)) /\ Len(Append(A, p)) = Len(A) + 1
          /\ \A t \in 1..Len(A) : Append(A, p)[t] = A[t]
          /\ Append(A, p)[Len(A) + 1] = p
      BY <1>3, <1>4, AppendProperties
    <2>2. ASSUME NEW t \in 1..k PROVE B[t] = Append(A, p)[t]
      <3>1. CASE t \in 1..Len(texts)
        BY <1>1, <1>3, <2>1, <3>1
      <3>2. CASE t = k
        <4>1. B[k] = p
          <5>1. k \in 1..k
            BY <1>1
          <5> QED BY <1>1, <1>3, <5>1 DEF p
        <4> QED BY <1>3, <2>1, <3>2, <4>1
      <3>3. t \in 1..Len(texts) \/ t = k
        BY <1>1
      <3> QED BY <3>1, <3>2, <3>3
    <2>3. Len(Append(A, p)) = k
      BY <1>3, <2>1
    <2> HIDE DEF k
    <2> QED BY <1>3, <2>1, <2>2, <2>3, SeqEqual
  <1> DEFINE P == [t \in DOMAIN texts |-> Text(t, texts[t])]
             P2 == [t \in DOMAIN texts' |-> Text(t, texts'[t])]
  <1>6. A = P /\ B = P2
    BY DEF A, B, Posted
  <1>7. p \in Enterable
    <2> HIDE DEF k
    <2> QED BY <1>2 DEF Enterable
  <1>8. P2 = Append(P, p)
    <2> HIDE DEF P, P2, p
    <2> QED BY <1>5, <1>6
  <1> HIDE DEF p
  <1> QED BY <1>7, <1>8 DEF TextCourier!Post

(* Showing the next text delivers it.                                       *)
LEMMA DeliverStep ==
    ASSUME Sound, UNCHANGED texts, Len(shown) < Len(texts),
           AddString(Text(Len(shown) + 1, texts[Len(shown) + 1]))
    PROVE  TextCourier!Deliver
  <1> DEFINE A == Posted(texts)
             k == Len(shown) + 1
  <1>1. /\ Len(A) = Len(texts) /\ Len(texts) \in Nat /\ Len(shown) \in Nat
        /\ \A t \in 1..Len(texts) : A[t] = Text(t, texts[t])
    BY SoundParts, PostedType, LenProperties
  <1>2. k \in 1..Len(texts)
    BY <1>1
  <1> HIDE DEF A
  <1>3. Len(shown) < Len(A) /\ shown' = Append(shown, A[k])
    BY <1>1, <1>2 DEF AddString
  <1>4. [t \in DOMAIN texts' |-> Text(t, texts'[t])] = [t \in DOMAIN texts |-> Text(t, texts[t])]
    OBVIOUS
  <1> QED BY <1>3, <1>4 DEF TextCourier!Deliver, A, Posted

NothingLost == lost = {}

(* A reliable wire loses nothing.                                           *)
LEMMA Reliable ==
    ASSUME Unreliable = {}
    PROVE  Spec => []NothingLost
  <1>1. Init => NothingLost
    BY DEF Init, NothingLost
  <1>2. ASSUME NothingLost, [Next]_vars PROVE NothingLost'
    <2>1. ASSUME NEW n \in Lengths, SendWhole(n) \/ SendFirst(n) PROVE lost' = {}
      BY <1>2, <2>1 DEF SendWhole, SendFirst, make_frame, NothingLost
    <2>2. ASSUME SendMiddle \/ SendLast PROVE lost' = {}
      BY <1>2, <2>2 DEF SendMiddle, SendLast, make_frame, NothingLost
    <2>3. ASSUME Receive PROVE lost' = {}
      BY <1>2, <2>3 DEF Receive, ReceiveWhole, ReceiveFirst, ReceiveMiddle, ReceiveLast,
                        ReceiveLastDropped, Receiving, NothingLost
    <2>4. ASSUME Dismiss \/ UNCHANGED vars PROVE lost' = {}
      BY <1>2, <2>4 DEF Dismiss, vars, NothingLost
    <2> QED BY <1>2, <2>1, <2>2, <2>3, <2>4 DEF Next, NothingLost
  <1> QED BY <1>1, <1>2, PTL DEF Spec

(* Every behaviour of the two ends over a wire that loses nothing is, for   *)
(* safety, one of the courier: what is shown is the next text not yet shown.*)
THEOREM Implements ==
    ASSUME Unreliable = {}
    PROVE  Spec => TextCourier!Init /\ [][TextCourier!Next]_(TextCourier!vars)
  <1>1. Init => TextCourier!Init
    BY DEF Init, TextCourier!Init
  <1>2. ASSUME Sound, InTurn, NothingLost, [Next]_vars
        PROVE  [TextCourier!Next]_(TextCourier!vars)
    <2>1. PICK g \in 0..Len(texts) : InTurnAt(g)
      BY <1>2 DEF InTurn, NothingLost, LostTypes
    <2>2. Len(shown) = (IF list = <<>> THEN g ELSE g - 1) /\ Len(texts) \in Nat
      BY <1>2, <2>1, SoundParts, LenProperties DEF InTurnAt, All, NothingLost
    <2>3. ASSUME NEW n \in Lengths, SendWhole(n) \/ SendFirst(n) PROVE TextCourier!Next
      <3>1. NewText(n) /\ UNCHANGED shown
        BY <2>3 DEF SendWhole, SendFirst, recvVars
      <3> QED BY <1>2, <3>1, PostStep DEF TextCourier!Next
    <2>4. ASSUME ReceiveWhole PROVE TextCourier!Next
      <3>1. Receiving("whole") /\ UNCHANGED texts
        BY <2>4 DEF ReceiveWhole, Receiving, sendVars
      <3>2. list = <<>> /\ Head(wire).text \in 1..Len(texts) /\ Head(wire).text = g + 1
        BY <1>2, <2>1, <3>1, StartFollows DEF Starts, NothingLost
      <3>3. AddString(Text(Head(wire).text, texts[Head(wire).text]))
        BY <1>2, <2>4, <3>1, ReceivingType, SoundParts, WholeText DEF ReceiveWhole
      <3>4. Len(shown) < Len(texts) /\ Head(wire).text = Len(shown) + 1
        BY <2>2, <3>2
      <3> QED BY <1>2, <3>1, <3>3, <3>4, DeliverStep DEF TextCourier!Next
    <2>5. ASSUME Dismiss PROVE TextCourier!Next
      <3>1. AddString(box) /\ box # <<>> /\ UNCHANGED texts
        BY <2>5 DEF Dismiss, sendVars
      <3>2. list # <<>> /\ box = Text(g, texts[g]) /\ g > 0
        BY <2>1, <3>1 DEF InTurnAt, Screen, Pieces
      <3>3. Len(shown) + 1 = g /\ Len(shown) < Len(texts)
        BY <2>1, <2>2, <3>2
      <3> QED BY <1>2, <3>1, <3>2, <3>3, DeliverStep DEF TextCourier!Next
    <2>6. ASSUME texts' = texts, shown' = shown PROVE UNCHANGED TextCourier!vars
      BY <2>6 DEF TextCourier!vars
    <2>7. ASSUME SendMiddle \/ SendLast \/ ReceiveFirst \/ ReceiveMiddle \/ ReceiveLast
                 \/ ReceiveLastDropped \/ UNCHANGED vars
          PROVE  texts' = texts /\ shown' = shown
      BY <2>7 DEF SendMiddle, SendLast, ReceiveFirst, ReceiveMiddle, ReceiveLast,
                  ReceiveLastDropped, Receiving, sendVars, recvVars, vars
    <2> QED BY <1>2, <2>3, <2>4, <2>5, <2>6, <2>7 DEF Next, Receive
  <1> QED BY <1>1, <1>2, AlwaysInTurn, Reliable, PTL DEF Spec
=============================================================================
