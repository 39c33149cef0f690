----------------------------- MODULE ChatAppInv -----------------------------
(***************************************************************************)
(* The inductive invariants of chat.  Sound holds whatever the wire loses: *)
(* a frame on the wire is as make_frame built it, and every byte in the    *)
(* list stands where some text has it.  InTurn holds while nothing but     *)
(* frames of uncut texts are lost: the pieces in the list, the frames on   *)
(* the wire and what Send has left to do follow each other.                *)
(***************************************************************************)
EXTENDS ChatApp

-----------------------------------------------------------------------------
(* Whatever is lost.                                                       *)

(* Byte i of the buffer that SendData makes of text k, which has n          *)
(* characters.                                                             *)
ByteAt(k, n, i) == IF i <= n THEN <<"text", k, i>> ELSE NUL

(* What make_frame puts into piece seq of a text of n characters.           *)
Shape(m, n) ==
    /\ m.type = "whole"  => n < CharMax /\ m.seq = 0 /\ m.totlen = n + 1
    /\ m.type = "first"  => n >= CharMax /\ m.seq = 0 /\ m.totlen = n
    /\ m.type = "middle" => m.seq > 0 /\ n > (m.seq + 1) * CharMax /\ m.totlen = CharMax
    /\ m.type = "last"   =>
         /\ m.seq > 0 /\ m.seq * CharMax <= n /\ n <= (m.seq + 1) * CharMax
         /\ m.totlen = n - m.seq * CharMax + 1

FrameSound(m, ts) ==
    /\ m.text \in 1..Len(ts)
    /\ Shape(m, ts[m.text])
    /\ Len(m.data) = IF m.totlen <= CharMax THEN m.totlen ELSE CharMax
    /\ \A p \in 1..Len(m.data) :
          m.data[p] = ByteAt(m.text, ts[m.text], m.seq * CharMax + p)

(* Send counts down what is left of the text it was given last.             *)
SenderSound ==
    sending # NotSending =>
        /\ texts # <<>> /\ sending.len = texts[Len(texts)]
        /\ sending.i > 0 /\ sending.i * CharMax <= sending.len
        /\ sending.length = sending.len - sending.i * CharMax

(* b is a byte of one of the texts ts, at place p up to whole pieces.       *)
InText(b, p, ts) ==
    \E t \in 1..Len(ts) : \E i \in 1..ts[t] :
        b = <<"text", t, i>> /\ i % CharMax = p % CharMax

PiecesSound == \A j \in 1..Len(list) : \A p \in 1..CharMax : InText(list[j].data[p], p, texts)

Sound ==
    /\ TypeOK
    /\ Len(texts) <= MaxTexts
    /\ SenderSound
    /\ \A k \in 1..Len(wire) : FrameSound(wire[k], texts)
    /\ PiecesSound
    /\ \A q \in 1..Len(box) : InText(box[q], q, texts)
    /\ \A k \in 1..Len(shown) : \A q \in 1..Len(shown[k]) : InText(shown[k][q], q, texts)

-----------------------------------------------------------------------------
(* While no more than frames of uncut texts are lost.                      *)

Starts(type) == type \in {"whole", "first"}
Ends(type)   == type \in {"whole", "last"}

Place(type, text, seq) == [type |-> type, text |-> text, seq |-> seq]

(* Place d may come right after place c, the texts between them being among *)
(* those that are gone.                                                    *)
Follows(c, d, gone) ==
    IF Ends(c.type)
    THEN Starts(d.type) /\ d.text > c.text /\ (c.text + 1)..(d.text - 1) \subseteq gone
    ELSE ~Starts(d.type) /\ d.text = c.text /\ d.seq = c.seq + 1

(* What Receive took last, if g is the text it is at, and what Send will    *)
(* make next.                                                              *)
Got(g) ==
    IF list = <<>> \/ box # <<>> THEN Place("last", g, 0)
    ELSE Place("middle", g, Len(list) - 1)

Due ==
    IF sending = NotSending THEN Place("whole", Len(texts) + 1, 0)
    ELSE Place("middle", Len(texts), sending.i)

(* The frames of w lead from place got to place due.                        *)
PlaceOf(m) == Place(m.type, m.text, m.seq)

At(got, w, due, i) == IF i = 0 THEN got ELSE IF i <= Len(w) THEN PlaceOf(w[i]) ELSE due

Chain(got, w, due, gone) ==
    \A i \in 0..Len(w) : Follows(At(got, w, due, i), At(got, w, due, i + 1), gone)

(* The list holds the first pieces of text g.                               *)
Pieces(g) ==
    list # <<>> =>
        /\ g > 0 /\ totalLength = texts[g] + 1 /\ Len(list) * CharMax <= texts[g]
        /\ \A j \in 1..Len(list) :
             /\ list[j].seq = j - 1
             /\ \A p \in 1..CharMax : list[j].data[p] = <<"text", g, (j - 1) * CharMax + p>>

(* The texts shown are texts sent, in order, up to g, or if it is still in  *)
(* the list, up to the one before.                                         *)
Screen(g) ==
    /\ box # <<>> => list # <<>> /\ box = Text(g, texts[g])
    /\ \A k \in 1..Len(shown) : \E t \in 1..g :
          shown[k] = Text(t, texts[t]) /\ (list # <<>> => t < g)
    /\ \A k, l \in 1..Len(shown) : k < l => shown[k][1][2] < shown[l][1][2]

(* Of the texts up to g those are missing of which a frame was lost.        *)
Behind(g) ==
    \A t \in 1..g :
        \/ t \in LostTexts
        \/ \E k \in 1..Len(shown) : shown[k] = Text(t, texts[t])
        \/ t = g /\ list # <<>>

(* If nothing at all was lost they are all the texts.                       *)
All(g) ==
    /\ Len(shown) = IF list = <<>> THEN g ELSE g - 1
    /\ \A k \in 1..Len(shown) : shown[k] = Text(k, texts[k])

InTurnAt(g) ==
    /\ Pieces(g)
    /\ Screen(g)
    /\ Behind(g)
    /\ Chain(Got(g), wire, Due, LostTexts)
    /\ lost = {} => All(g)
    /\ heap = "sound"

InTurn == LostTypes \subseteq {"whole"} => \E g \in 0..Len(texts) : InTurnAt(g)
=============================================================================
