------------------------------ MODULE ChatApp ------------------------------
(***************************************************************************)
(* Chat: CChatAppLayer::Send, called by the user-interface thread of one   *)
(* program, and CChatAppLayer::Receive, called by the receive thread of    *)
(* its peer.  A text that does not fit into one frame is cut into a first  *)
(* frame, middle frames and a last one; the receiver keeps the pieces in a *)
(* list sorted by sequence number and puts them together when the last     *)
(* one comes.  The layers below are a wire that keeps the order and may    *)
(* lose frames whose type is in Unreliable.                                *)
(***************************************************************************)
EXTENDS Bytes, SequencesExt

CONSTANTS
    Lengths,       \* the lengths of the texts the user may enter
    CharMax,       \* CHAR_DATA_MAX_SIZE
    UShortMax,     \* greatest unsigned short: capp_totlen and totalLength
    UCharMax,      \* greatest unsigned char: capp_sequence
    Unreliable,    \* the frame types the wire may lose
    MaxTexts       \* bound: texts sent in a behaviour

(* The edit control takes at most 32767 characters, so that neither the     *)
(* length of a text nor the number of its last piece overflows.             *)
ASSUME TextsAssumption ==
    /\ CharMax \in Nat \ {0}
    /\ UShortMax \in Nat /\ UCharMax \in Nat
    /\ Lengths \subseteq Nat \ {0}
    /\ \A n \in Lengths : n + 1 <= UShortMax /\ n \div CharMax <= UCharMax
    /\ MaxTexts \in Nat

VARIABLES
    sending,       \* sender: locals of CChatAppLayer::Send between two frames
    wire,          \* frames sent and not yet received
    list,          \* receiver: the pieces from Head on
    totalLength,   \* receiver: the length announced by the last first frame
    box,           \* receiver: the text in the message box, or <<>>
    heap,          \* receiver: "sound", or "overrun" after a write past GetBuff
    up,            \* receiver: the program has not died of that
    texts,         \* history: the length of each text the user sent
    shown,         \* history: the texts added to the chat list, in order
    lost           \* history: the type and the text of each frame lost so far

sendVars == <<sending, texts>>
recvVars == <<list, totalLength, box, heap, up, shown>>
vars == <<sending, wire, list, totalLength, box, heap, up, texts, shown, lost>>

(* Text k, and the buffer SendData makes of it. *)
Text(k, n)    == [i \in 1..n |-> <<"text", k, i>>]
Payload(k, n) == Append(Text(k, n), NUL)

NotSending == [len |-> 0, length |-> 0, i |-> 0]

Init ==
    /\ sending = NotSending
    /\ wire = <<>>
    /\ list = <<>> /\ totalLength = 0
    /\ box = <<>> /\ heap = "sound" /\ up = TRUE
    /\ texts = <<>> /\ shown = <<>> /\ lost = {}

-----------------------------------------------------------------------------
(* The sending program.                                                    *)

(* The frame that piece seq of ppayload travels in: the closing NUL is      *)
(* counted for the types that carry it.  The field text is history.        *)
Frame(ppayload, nlength, type, seq) ==
    LET length == IF type \in {"whole", "last"} THEN nlength + 1 ELSE nlength
    IN  [type |-> type, totlen |-> length, seq |-> seq, text |-> ppayload[1][2],
         data |-> ReadBytes(SubSeq(ppayload, seq * CharMax + 1, Len(ppayload)),
                            Min({length, CharMax}))]

make_frame(ppayload, nlength, type, seq) ==
    \/ /\ wire' = Append(wire, Frame(ppayload, nlength, type, seq))
       /\ UNCHANGED lost
    \/ /\ type \in Unreliable
       /\ lost' = lost \cup {[type |-> type, text |-> ppayload[1][2]]}
       /\ UNCHANGED wire

(* The user presses the send button: the window is free between two texts. *)
NewText(n) ==
    /\ sending = NotSending
    /\ Len(texts) < MaxTexts
    /\ texts' = Append(texts, n)

SendWhole(n) ==
    /\ n < CharMax
    /\ NewText(n)
    /\ make_frame(Payload(Len(texts) + 1, n), n, "whole", 0)
    /\ UNCHANGED <<sending, recvVars>>

SendFirst(n) ==
    /\ n >= CharMax
    /\ NewText(n)
    /\ make_frame(Payload(Len(texts) + 1, n), n, "first", 0)
    /\ sending' = [len |-> n, length |-> n - CharMax, i |-> 1]
    /\ UNCHANGED recvVars

(* Slip: the loop forgets to count down. *)
SendMiddleNoCountdown ==
    /\ sending # NotSending
    /\ sending.length > CharMax
    /\ make_frame(Payload(Len(texts), sending.len), CharMax, "middle", sending.i)
    /\ sending' = [sending EXCEPT !.i = @ + 1]
    /\ UNCHANGED <<texts, recvVars>>

SendMiddle ==
    /\ sending # NotSending
    /\ sending.length > CharMax
    /\ make_frame(Payload(Len(texts), sending.len), CharMax, "middle", sending.i)
    /\ sending' = [sending EXCEPT !.length = @ - CharMax, !.i = @ + 1]
    /\ UNCHANGED <<texts, recvVars>>

(* Slip: a last piece of the full size is neither middle nor last. *)
SendLastOffByOne ==
    /\ sending # NotSending
    /\ sending.length < CharMax
    /\ make_frame(Payload(Len(texts), sending.len), sending.length, "last", sending.i)
    /\ sending' = NotSending
    /\ UNCHANGED <<texts, recvVars>>

(* Slip: a last piece of no bytes is not sent. *)
SendLastSkipsEmpty ==
    /\ sending # NotSending
    /\ sending.length <= CharMax
    /\ IF sending.length = 0 THEN UNCHANGED <<wire, lost>>
       ELSE make_frame(Payload(Len(texts), sending.len), sending.length, "last", sending.i)
    /\ sending' = NotSending
    /\ UNCHANGED <<texts, recvVars>>

SendLast ==
    /\ sending # NotSending
    /\ sending.length <= CharMax
    /\ make_frame(Payload(Len(texts), sending.len), sending.length, "last", sending.i)
    /\ sending' = NotSending
    /\ UNCHANGED <<texts, recvVars>>

-----------------------------------------------------------------------------
(* The receiving program.                                                  *)

Receiving(type) ==
    /\ up /\ box = <<>>
    /\ wire # <<>> /\ Head(wire).type = type
    /\ wire' = Tail(wire)
    /\ UNCHANGED <<sendVars, lost>>

(* The piece goes behind the leading pieces with smaller numbers. *)
add(data, seq) ==
    LET before == {j \in 0..Len(list) : \A i \in 1..j : list[i].seq < seq}
    IN  list' = InsertAt(list, Max(before) + 1, [data |-> ReadBytes(data, CharMax), seq |-> seq])

(* The dialog's Receive shows a text in the chat list. *)
AddString(text) == shown' = Append(shown, text)

ReceiveWhole ==
    /\ Receiving("whole")
    /\ AddString(CString(ReadBytes(Head(wire).data, Head(wire).totlen)))
    /\ UNCHANGED <<list, totalLength, box, heap, up>>

ReceiveFirst ==
    /\ Receiving("first")
    /\ add(Head(wire).data, Head(wire).seq)
    /\ totalLength' = Head(wire).totlen + 1
    /\ UNCHANGED <<box, heap, up, shown>>

ReceiveMiddle ==
    /\ Receiving("middle")
    /\ add(Head(wire).data, Head(wire).seq)
    /\ UNCHANGED <<totalLength, box, heap, up, shown>>

(* Slip: GetBuff is not closed with a NUL. *)
AssembledNoNul(last) ==
    LET tail == Len(list) * CharMax
    IN  [p \in 1..totalLength |->
            IF p <= tail THEN list[((p - 1) \div CharMax) + 1].data[((p - 1) % CharMax) + 1]
            ELSE ReadBytes(last.data, last.totlen)[p - tail]]

(* GetBuff: the pieces one after the other, the last frame, a NUL. *)
Assembled(last) ==
    LET tail == Len(list) * CharMax
    IN  [p \in 1..totalLength |->
            IF p = totalLength THEN NUL
            ELSE IF p <= tail THEN list[((p - 1) \div CharMax) + 1].data[((p - 1) % CharMax) + 1]
            ELSE ReadBytes(last.data, last.totlen)[p - tail]]

Complete(last) == totalLength = Len(list) * CharMax + last.totlen

(* The text is shown in a box first; Receive returns from it in Dismiss. *)
ReceiveLast ==
    /\ Receiving("last")
    /\ Complete(Head(wire))
    /\ box' = CString(Assembled(Head(wire)))
    /\ UNCHANGED <<list, totalLength, heap, up, shown>>

(* Some frame is missing or one too many is in the list.  All pieces were   *)
(* copied before anyone looked: more of them than GetBuff holds are written *)
(* past its end, and the program dies of it or goes on.                     *)
ReceiveLastDropped ==
    /\ Receiving("last")
    /\ ~Complete(Head(wire))
    /\ IF Len(list) * CharMax > totalLength
       THEN heap' = "overrun" /\ up' \in BOOLEAN
       ELSE UNCHANGED <<heap, up>>
    /\ UNCHANGED <<list, totalLength, box, shown>>

(* Slip: deleteList is not called. *)
DismissKeepsList ==
    /\ up /\ box # <<>>
    /\ AddString(box)
    /\ box' = <<>>
    /\ UNCHANGED <<sendVars, wire, list, totalLength, heap, up, lost>>

Dismiss ==
    /\ up /\ box # <<>>
    /\ AddString(box)
    /\ list' = <<>>
    /\ box' = <<>>
    /\ UNCHANGED <<sendVars, wire, totalLength, heap, up, lost>>

Receive ==
    \/ ReceiveWhole \/ ReceiveFirst \/ ReceiveMiddle
    \/ ReceiveLast \/ ReceiveLastDropped

-----------------------------------------------------------------------------
Next ==
    \/ \E n \in Lengths : SendWhole(n) \/ SendFirst(n)
    \/ SendMiddle
    \/ SendLast
    \/ Receive
    \/ Dismiss

Spec == Init /\ [][Next]_vars

(* Send, once begun, and the receive thread run on; the user closes boxes. *)
Fairness ==
    /\ WF_vars(SendMiddle \/ SendLast)
    /\ WF_vars(Receive)
    /\ WF_vars(Dismiss)

FairSpec == Spec /\ Fairness

-----------------------------------------------------------------------------
(* Properties. *)

Byte == {NUL, Junk}
           \cup {<<"text", k, i>> : k \in 1..MaxTexts, i \in 1..Max(Lengths \cup {0})}
FrameTypes == {"whole", "first", "middle", "last"}

(* The variables hold values of the types the code declares for them. *)
TypeOK ==
    /\ sending \in [len : Lengths \cup {0}, length : Nat, i : 0..UCharMax]
    /\ wire \in Seq([type : FrameTypes, totlen : 0..UShortMax, seq : 0..UCharMax,
                     text : 1..MaxTexts, data : Seq(Byte)])
    /\ list \in Seq([data : [1..CharMax -> Byte], seq : 0..UCharMax])
    /\ totalLength \in 0..UShortMax
    /\ box \in Seq(Byte)
    /\ heap \in {"sound", "overrun"} /\ up \in BOOLEAN
    /\ texts \in Seq(Lengths)
    /\ shown \in Seq(Seq(Byte))
    /\ lost \subseteq [type : FrameTypes, text : 1..MaxTexts]

Enterable == {Text(k, n) : k \in 1..MaxTexts, n \in Lengths}
Sent == {Text(k, texts[k]) : k \in DOMAIN texts}
OnScreen == shown \o (IF box = <<>> THEN <<>> ELSE <<box>>)
LostTypes == {m.type : m \in lost}
LostTexts == {m.text : m \in lost}

(* Pieces are copied into GetBuff before they are counted; that they never  *)
(* run over its end hangs on the wire losing nothing.                       *)
OverrunNeedsLoss == heap = "overrun" => lost # {}

(* A piece left over in the list needs a lost frame of a cut text: while no *)
(* frame of one is under way the list is empty.                             *)
NoLeftOvers ==
    LostTypes \subseteq {"whole"} /\ sending = NotSending /\ box = <<>>
        /\ (\A k \in DOMAIN wire : wire[k].type = "whole")
    => list = <<>>

(* Whatever is lost, a byte on the screen stands at a place it has in some  *)
(* text sent, up to whole pieces: text q of a shown string is byte q modulo *)
(* the piece size of what the user typed, never a byte nobody wrote.        *)
NoForeignBytes ==
    \A k \in DOMAIN OnScreen : \A q \in DOMAIN OnScreen[k] :
        \E t \in DOMAIN texts : \E i \in 1..texts[t] :
            OnScreen[k][q] = <<"text", t, i>> /\ i % CharMax = q % CharMax

(* Some frame of text t is on the wire, in the list or still to be sent.    *)
UnderWay(t) ==
    \/ \E k \in DOMAIN wire : wire[k].text = t
    \/ list # <<>> /\ list[1].data[1][2] = t
    \/ sending # NotSending /\ t = Len(texts)

(* A lost frame of an uncut text costs that text and no other: what is on   *)
(* the screen are texts that were sent, each once and in order, and every   *)
(* text of which no frame was lost is there or under way.                   *)
LostWholeCostsOneText ==
    LostTypes \subseteq {"whole"} =>
        /\ \A k, l \in DOMAIN OnScreen :
              /\ OnScreen[k] \in Sent
              /\ k < l => OnScreen[k][1][2] < OnScreen[l][1][2]
        /\ \A t \in DOMAIN texts \ LostTexts :
              UnderWay(t) \/ \E k \in DOMAIN OnScreen : OnScreen[k] = Text(t, texts[t])

(* The check in Receive that all frames came in: a text is shown only if    *)
(* all of its frames were received, that is, only texts that were sent.     *)
ShownOnlyIfComplete == \A k \in DOMAIN OnScreen : OnScreen[k] \in Sent

(* Every text the user sends is sent to its last piece. *)
EverySendReturns == sending # NotSending ~> sending = NotSending

(* Over a wire that loses nothing the two ends are a courier of texts: what *)
(* is sent is shown, whole, once, in order, and at last all of it.          *)
TextCourier == INSTANCE Courier WITH
    Item      <- Enterable,
    posted    <- [k \in DOMAIN texts |-> Text(k, texts[k])],
    delivered <- shown
DeliversTexts == TextCourier!Spec
=============================================================================
