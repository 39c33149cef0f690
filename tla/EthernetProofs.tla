-------------------------- MODULE EthernetProofs --------------------------
(***************************************************************************)
(* Theorems about the Ethernet layer, for every number of threads, peers   *)
(* and addresses, every size and whatever the bounds are.                  *)
(***************************************************************************)
EXTENDS Ethernet, PlacesProofs

-----------------------------------------------------------------------------
(* The inductive invariant.                                                *)

Sending(c) == caller[c].pc \in {"copy", "type", "under"}

(* A thread in Send works on the call it was asked for and within it.       *)
Working ==
    \A c \in Callers : Sending(c) =>
        LET me == caller[c]
        IN  /\ me.call \in DOMAIN calls /\ calls[me.call].type = TypeOf(c)
            /\ me.len = calls[me.call].len
            /\ IF me.pc = "copy" THEN me.copied < me.len ELSE me.copied = me.len

(* Unless another thread is at work the header holds what Send has put into *)
(* it so far.                                                               *)
Alone ==
    \A c \in Callers : Sending(c) /\ caller[c].call \notin overlapped =>
        LET k == caller[c].call
        IN  /\ Busy = {c}
            /\ m_sHeader.dst = calls[k].dst /\ m_sHeader.src = calls[k].src
            /\ \A i \in 1..caller[c].copied : m_sHeader.data[i] = <<k, i>>
            /\ caller[c].pc = "under" => m_sHeader.type = calls[k].type

(* A frame on its way is another program's, damaged by another thread or    *)
(* what was wanted.                                                         *)
Sound(f) ==
    f.call # 0 =>
        /\ f.call \in DOMAIN calls
        /\ f.call \notin overlapped => f = Wanted(f.call)

FramesSound ==
    /\ \A h \in Hosts : \A j \in DOMAIN captured[h] : Sound(captured[h][j])
    /\ \A h \in Hosts : \A j \in DOMAIN handed[h] :
          LET item == handed[h][j]
          IN  /\ Sound(item.frame) /\ Accepts(h, item.frame)
              /\ item.layer = UpperLayer[item.frame.type]

Inv == TypeOK /\ Len(calls) <= MaxCalls /\ Working /\ Alone /\ FramesSound

-----------------------------------------------------------------------------
(* Types.                                                                  *)

Locals == [pc : {"idle", "copy", "type", "under", "destin"},
           call : 0..MaxCalls, len : 0..MaxData, copied : 0..MaxData]
Asked  == [by : Callers, dst : Addr, src : Addr, type : Types, len : 1..MaxData]
Header == [dst : Addr, src : Addr, type : Types, data : [1..MaxData -> Cell]]

(* The types once more, part by part.                                       *)
LEMMA TypeParts ==
    TypeOK <=>
        /\ m_sHeader \in Header /\ caller \in [Callers -> Locals]
        /\ captured \in [Hosts -> Seq(Frame)] /\ calls \in Seq(Asked) /\ sent \in Seq(Frame)
        /\ handed \in [Hosts -> Seq([layer : {"ChatApp", "FileTrans"}, frame : Frame])]
        /\ overlapped \subseteq 1..MaxCalls
  BY DEF TypeOK, Locals, Asked, Header

(* Whoever is at work works on a call that was asked for.                   *)
LEMMA RunningCalls ==
    ASSUME TypeOK, Working
    PROVE  Running \subseteq 1..MaxCalls
  BY TypeParts DEF Running, Locals, Busy

(* The session starts within the types and with nothing at work.            *)
LEMMA AtStart == Init => Inv
  <1> SUFFICES ASSUME Init PROVE Inv
    OBVIOUS
  <1>1. m_sHeader \in Header
    <2>1. Unset \in Cell
      BY EthernetAssumption DEF Unset, Cell
    <2> QED BY <2>1, EthernetAssumption DEF Init, Header, Types
  <1>2. caller \in [Callers -> Locals] /\ \A c \in Callers : caller[c].pc = "idle"
    BY EthernetAssumption DEF Init, Idle, Locals
  <1>3. /\ captured = [h \in Hosts |-> <<>>] /\ handed = [h \in Hosts |-> <<>>]
        /\ calls = <<>> /\ sent = <<>> /\ overlapped = {}
    BY DEF Init
  <1>4. TypeOK
    BY <1>1, <1>2, <1>3, TypeParts
  <1>5. Len(calls) <= MaxCalls
    BY <1>3, EthernetAssumption
  <1>6. Working /\ Alone
    BY <1>2 DEF Working, Alone, Sending
  <1>7. FramesSound
    BY <1>3 DEF FramesSound
  <1> QED BY <1>4, <1>5, <1>6, <1>7 DEF Inv

(* What was sound stays so when calls are added and threads overlap more.   *)
LEMMA SoundStays ==
    ASSUME DOMAIN calls \subseteq DOMAIN calls', \A k \in DOMAIN calls : calls'[k] = calls[k],
           overlapped \subseteq overlapped'
    PROVE  \A f : Sound(f) => Sound(f)'
  BY DEF Sound, Wanted

(* And so do the frames that have not moved.                                *)
LEMMA FramesStay ==
    ASSUME FramesSound, DOMAIN calls \subseteq DOMAIN calls',
           \A k \in DOMAIN calls : calls'[k] = calls[k], overlapped \subseteq overlapped',
           UNCHANGED <<captured, handed>>
    PROVE  FramesSound'
  BY SoundStays DEF FramesSound, Accepts

(* Another thread is at work while one sends: that call is overlapped now.  *)
LEMMA OthersOverlap ==
    ASSUME NEW c \in Callers, Sending(c), caller[c].call # 0
    PROVE  caller[c].call \in Running
  BY DEF Running, Busy, At, Sending

(* The address button keeps the invariant: who sends meanwhile is overlapped. *)
LEMMA AddressesKept ==
    ASSUME Inv, NEW a \in Addr, NEW field \in {"src", "dst"}, NEW pc \in {"idle", "destin"},
           m_sHeader' = [m_sHeader EXCEPT ![field] = a],
           caller[UI].pc \in {"idle", "destin"},
           caller' = [caller EXCEPT ![UI].pc = pc],
           overlapped' = overlapped \cup Running,
           UNCHANGED <<captured, calls, sent, handed>>
    PROVE  Inv'
  <1>1. TypeOK /\ Working
    BY DEF Inv
  <1>2. TypeOK'
    <2>1. m_sHeader' \in Header
      BY <1>1, TypeParts DEF Header
    <2>2. caller' \in [Callers -> Locals]
      BY <1>1, TypeParts, EthernetAssumption DEF Locals
    <2>3. overlapped' \subseteq 1..MaxCalls
      BY <1>1, RunningCalls, TypeParts
    <2> QED BY <1>1, <2>1, <2>2, <2>3 DEF TypeOK, Header, Locals
  <1>3. \A c \in Callers : Sending(c)' => Sending(c) /\ caller'[c] = caller[c]
    BY <1>1, TypeParts, EthernetAssumption DEF Sending, Locals
  <1>4. Working'
    BY <1>1, <1>3 DEF Working
  <1>5. ASSUME NEW c \in Callers, Sending(c)' PROVE caller'[c].call \in overlapped'
    <2>1. Sending(c) /\ caller'[c] = caller[c] /\ caller[c].call \in DOMAIN calls
      BY <1>1, <1>3, <1>5 DEF Working
    <2>2. caller[c].call # 0
      BY <1>1, <2>1, TypeParts
    <2> QED BY <2>1, <2>2, OthersOverlap
  <1>6. Alone'
    BY <1>5 DEF Alone
  <1>7. FramesSound'
    BY FramesStay DEF Inv
  <1> QED BY <1>2, <1>4, <1>6, <1>7 DEF Inv

(* A call of Send that begins overlaps with those under way, and they with  *)
(* it; alone, it finds in the header the addresses it is to use.            *)
LEMMA CallKept ==
    ASSUME Inv, NEW c \in Callers, Call(c)
    PROVE  Inv'
  <1> DEFINE k == Len(calls) + 1
  <1>1. /\ TypeOK /\ Working /\ Alone /\ FramesSound
        /\ calls \in Seq(Asked) /\ caller \in [Callers -> Locals] /\ m_sHeader \in Header
        /\ Len(calls) \in Nat /\ DOMAIN calls = 1..Len(calls)
    BY TypeParts DEF Inv
  <1>2. caller[c].pc = "idle" /\ k \in 1..MaxCalls
    BY <1>1, EthernetAssumption DEF Call, At
  <1>3. /\ UNCHANGED <<m_sHeader, captured, sent, handed>>
        /\ overlapped' = IF Busy = {} THEN overlapped ELSE overlapped \cup Running \cup {k}
    BY DEF Call
  <1>4. PICK len \in 1..MaxData :
          /\ calls' = Append(calls, [by |-> c, dst |-> m_sHeader.dst, src |-> m_sHeader.src,
                                     type |-> TypeOf(c), len |-> len])
          /\ caller' = [caller EXCEPT ![c] =
                          [pc |-> "copy", call |-> k, len |-> len, copied |-> 0]]
    BY DEF Call
  <1> DEFINE ask == [by |-> c, dst |-> m_sHeader.dst, src |-> m_sHeader.src,
                     type |-> TypeOf(c), len |-> len]
             me  == [pc |-> "copy", call |-> k, len |-> len, copied |-> 0]
  <1>5. ask \in Asked
    BY <1>1 DEF Asked, Header, TypeOf, Types
  <1>6. me \in Locals
    BY <1>2, EthernetAssumption DEF Locals
  <1>7. /\ calls' \in Seq(Asked) /\ Len(calls') = k /\ DOMAIN calls' = 1..k
        /\ DOMAIN calls \subseteq DOMAIN calls' /\ \A n \in DOMAIN calls : calls'[n] = calls[n]
        /\ k \in DOMAIN calls' /\ calls'[k] = ask
    <2> HIDE DEF ask
    <2>1. calls' = Append(calls, ask)
      BY <1>4 DEF ask
    <2> QED BY <1>1, <1>5, <2>1, AppendProperties
  <1>8. /\ caller' \in [Callers -> Locals] /\ caller'[c] = me
        /\ \A d \in Callers : d # c => caller'[d] = caller[d]
    BY <1>1, <1>4, <1>6
  <1>9. overlapped \subseteq overlapped' /\ overlapped' \subseteq 1..MaxCalls
    BY <1>1, <1>2, <1>3, RunningCalls, TypeParts
  <1>10. TypeOK'
    BY <1>1, <1>3, <1>7, <1>8, <1>9 DEF TypeOK, Asked, Locals
  <1>11. Working'
    <2> SUFFICES ASSUME NEW d \in Callers, Sending(d)'
                 PROVE  /\ caller'[d].call \in DOMAIN calls'
                        /\ calls'[caller'[d].call].type = TypeOf(d)
                        /\ caller'[d].len = calls'[caller'[d].call].len
                        /\ IF caller'[d].pc = "copy" THEN caller'[d].copied < caller'[d].len
                           ELSE caller'[d].copied = caller'[d].len
      BY DEF Working
    <2>1. CASE d = c
      BY <1>7, <1>8, <2>1
    <2>2. CASE d # c
      <3>1. caller'[d] = caller[d] /\ Sending(d)
        BY <1>8, <2>2 DEF Sending
      <3> QED BY <1>1, <1>7, <3>1 DEF Working
    <2> QED BY <2>1, <2>2
  <1>12. ASSUME Busy # {}, NEW d \in Callers, Sending(d)' PROVE caller'[d].call \in overlapped'
    <2>1. CASE d = c
      BY <1>3, <1>8, <1>12, <2>1
    <2>2. CASE d # c
      <3>1. caller'[d] = caller[d] /\ Sending(d)
        BY <1>8, <1>12, <2>2 DEF Sending
      <3>2. caller[d].call # 0
        BY <1>1, <3>1 DEF Working
      <3> QED BY <1>3, <1>12, <3>1, <3>2, OthersOverlap
    <2> QED BY <2>1, <2>2
  <1>13. ASSUME Busy = {}
         PROVE  Busy' = {c} /\ \A d \in Callers : Sending(d)' => d = c
    <2>1. \A d \in Callers : caller[d].pc = "idle"
      BY <1>13 DEF Busy, At
    <2>2. \A d \in Callers : IF d = c THEN caller'[d].pc = "copy" ELSE caller'[d].pc = "idle"
      BY <1>8, <2>1
    <2> QED BY <2>2 DEF Busy, At, Sending
  <1>14. Alone'
    <2>1. CASE Busy # {}
      BY <1>12, <2>1 DEF Alone
    <2>2. CASE Busy = {}
      <3>1. 1..caller'[c].copied = {} /\ caller'[c].pc = "copy" /\ caller'[c].call = k
        BY <1>8
      <3>2. m_sHeader'.dst = calls'[k].dst /\ m_sHeader'.src = calls'[k].src
        BY <1>3, <1>7
      <3> QED BY <1>13, <2>2, <3>1, <3>2 DEF Alone
    <2> QED BY <2>1, <2>2
  <1>15. FramesSound'
    BY <1>1, <1>3, <1>7, <1>9, FramesStay
  <1> QED BY <1>2, <1>7, <1>10, <1>11, <1>14, <1>15 DEF Inv

(* What each step of Send needs to know of the thread that takes it.        *)
LEMMA SenderFacts ==
    ASSUME Inv, NEW c \in Callers, Sending(c)
    PROVE  LET k == caller[c].call
           IN  /\ caller[c] \in Locals /\ k \in DOMAIN calls /\ k \in 1..MaxCalls /\ k # 0
               /\ calls[k] \in Asked /\ calls[k].type = TypeOf(c)
               /\ caller[c].len = calls[k].len /\ caller[c].len \in 1..MaxData
               /\ caller[c].copied \in Nat
               /\ IF caller[c].pc = "copy" THEN caller[c].copied < caller[c].len
                  ELSE caller[c].copied = caller[c].len
  <1> DEFINE k == caller[c].call
  <1>1. TypeOK /\ Working /\ Len(calls) <= MaxCalls /\ calls \in Seq(Asked)
    BY TypeParts DEF Inv
  <1>2. caller[c] \in Locals
    BY <1>1, TypeParts
  <1>3. /\ k \in DOMAIN calls /\ calls[k].type = TypeOf(c) /\ caller[c].len = calls[k].len
        /\ IF caller[c].pc = "copy" THEN caller[c].copied < caller[c].len
           ELSE caller[c].copied = caller[c].len
    BY <1>1 DEF Working
  <1>4. calls[k] \in Asked /\ k \in 1..MaxCalls /\ k # 0
    BY <1>1, <1>3, EthernetAssumption
  <1> QED BY <1>2, <1>3, <1>4 DEF Locals, Asked

(* The steps of Send that change the header disturb another thread's frame  *)
(* only where that thread's call is overlapped.                             *)
LEMMA OneSends ==
    ASSUME Inv, NEW c \in Callers, Sending(c), NEW d \in Callers, d # c, Sending(d)
    PROVE  caller[d].call \in overlapped
  <1>1. c \in Busy
    BY DEF Busy, At, Sending
  <1>2. Busy # {d}
    BY <1>1
  <1> QED BY <1>2 DEF Inv, Alone

(* A step within Send: the thread goes on to x, and where it is alone the   *)
(* header holds what x says.                                                *)
LEMMA GoesOn ==
    ASSUME Inv, NEW c \in Callers, Sending(c), NEW x \in Locals,
           caller' = [caller EXCEPT ![c] = x], m_sHeader' \in Header,
           UNCHANGED <<captured, calls, sent, handed, overlapped>>,
           x.pc \in {"copy", "type", "under"}, x.call = caller[c].call, x.len = caller[c].len,
           IF x.pc = "copy" THEN x.copied < x.len ELSE x.copied = x.len,
           x.call \notin overlapped =>
               /\ m_sHeader'.dst = m_sHeader.dst /\ m_sHeader'.src = m_sHeader.src
               /\ \A i \in 1..x.copied : m_sHeader'.data[i] = <<x.call, i>>
               /\ x.pc = "under" => m_sHeader'.type = calls[x.call].type
    PROVE  Inv'
  <1>1. TypeOK /\ Working /\ Alone /\ FramesSound /\ caller \in [Callers -> Locals]
    BY TypeParts DEF Inv
  <1>2. /\ caller' \in [Callers -> Locals] /\ caller'[c] = x
        /\ \A d \in Callers : d # c => caller'[d] = caller[d]
    BY <1>1
  <1>3. TypeOK'
    BY <1>1, <1>2 DEF TypeOK, Header, Locals
  <1>4. Working'
    BY <1>1, <1>2 DEF Working, Sending
  <1>5. Busy' = Busy
    BY <1>2 DEF Busy, At, Sending
  <1>6. ASSUME NEW d \in Callers, Sending(d)', caller'[d].call \notin overlapped'
        PROVE  d = c
    <2> SUFFICES ASSUME d # c PROVE FALSE
      OBVIOUS
    <2>1. Sending(d) /\ caller[d].call \notin overlapped
      BY <1>2, <1>6 DEF Sending
    <2> QED BY <2>1, OneSends
  <1>7. x.call \notin overlapped =>
          /\ Busy' = {c} /\ m_sHeader'.dst = calls'[x.call].dst
          /\ m_sHeader'.src = calls'[x.call].src
          /\ x.pc = "under" => m_sHeader'.type = calls'[x.call].type
    BY <1>1, <1>5 DEF Alone
  <1>8. Alone'
    BY <1>2, <1>6, <1>7 DEF Alone
  <1>9. FramesSound'
    BY <1>1, FramesStay
  <1> QED BY <1>3, <1>4, <1>8, <1>9 DEF Inv

(* memcpy goes on cell by cell.                                             *)
LEMMA CopyKept ==
    ASSUME Inv, NEW c \in Callers, CopyData(c)
    PROVE  Inv'
  <1> DEFINE i == caller[c].copied + 1
             k == caller[c].call
             pc == IF i = caller[c].len THEN "type" ELSE "copy"
             x == [caller[c] EXCEPT !.copied = i, !.pc = pc]
  <1>1. Sending(c) /\ caller[c].pc = "copy"
    BY DEF CopyData, At, Sending
  <1>2. /\ caller[c] \in Locals /\ k \in 1..MaxCalls /\ caller[c].len \in 1..MaxData
        /\ caller[c].copied \in Nat /\ caller[c].copied < caller[c].len
    BY <1>1, SenderFacts
  <1>3. i \in 1..MaxData /\ i <= caller[c].len
    BY <1>2, EthernetAssumption
  <1>4. /\ x \in Locals /\ x.pc = pc /\ x.copied = i /\ x.call = k /\ x.len = caller[c].len
    <2>1. pc \in {"type", "copy"} /\ i \in 0..MaxData
      BY <1>3
    <2> HIDE DEF i, pc
    <2> QED BY <1>2, <2>1 DEF Locals
  <1>5. /\ caller' = [caller EXCEPT ![c] = x]
        /\ m_sHeader' = [m_sHeader EXCEPT !.data[i] = <<k, i>>]
        /\ UNCHANGED <<captured, calls, sent, handed, overlapped>>
    BY DEF CopyData
  <1>6. m_sHeader \in Header
    BY TypeParts DEF Inv
  <1>7. <<k, i>> \in Cell
    BY <1>2, <1>3 DEF Cell
  <1>8. /\ m_sHeader' \in Header
        /\ m_sHeader'.dst = m_sHeader.dst /\ m_sHeader'.src = m_sHeader.src
        /\ \A j \in 1..MaxData :
             m_sHeader'.data[j] = IF j = i THEN <<k, i>> ELSE m_sHeader.data[j]
    BY <1>3, <1>5, <1>6, <1>7 DEF Header
  <1>9. k \notin overlapped => \A j \in 1..i : m_sHeader'.data[j] = <<k, j>>
    <2> SUFFICES ASSUME k \notin overlapped, NEW j \in 1..i PROVE m_sHeader'.data[j] = <<k, j>>
      OBVIOUS
    <2>1. j \in 1..MaxData
      <3> HIDE DEF i
      <3> QED BY <1>3, EthernetAssumption
    <2>2. j # i => m_sHeader.data[j] = <<k, j>>
      <3>1. j # i => j \in 1..caller[c].copied
        BY <1>2
      <3> QED BY <1>1, <3>1 DEF Inv, Alone
    <2> QED BY <1>8, <2>1, <2>2
  <1>10. IF pc = "copy" THEN i < caller[c].len ELSE i = caller[c].len
    BY <1>2, <1>3
  <1> HIDE DEF x, i
  <1>11. x.pc \in {"copy", "type"}
    BY <1>4
  <1> QED BY <1>1, <1>4, <1>5, <1>8, <1>9, <1>10, <1>11, GoesOn

(* The type is that of the layer that calls.                                *)
LEMMA TypeKept ==
    ASSUME Inv, NEW c \in Callers, SetType(c)
    PROVE  Inv'
  <1> DEFINE x == [caller[c] EXCEPT !.pc = "under"]
             k == caller[c].call
  <1>1. Sending(c) /\ caller[c].pc = "type"
    BY DEF SetType, At, Sending
  <1>2. /\ caller[c] \in Locals /\ caller[c].copied = caller[c].len
        /\ calls[k].type = TypeOf(c)
    BY <1>1, SenderFacts
  <1>3. /\ x \in Locals /\ x.pc = "under" /\ x.call = k /\ x.len = caller[c].len
        /\ x.copied = caller[c].copied
    BY <1>2 DEF Locals
  <1>4. /\ caller' = [caller EXCEPT ![c] = x]
        /\ m_sHeader' = [m_sHeader EXCEPT !.type = TypeOf(c)]
        /\ UNCHANGED <<captured, calls, sent, handed, overlapped>>
    BY DEF SetType
  <1>5. m_sHeader \in Header /\ TypeOf(c) \in Types
    BY TypeParts DEF Inv, TypeOf, Types
  <1>6. /\ m_sHeader' \in Header /\ m_sHeader'.type = TypeOf(c)
        /\ m_sHeader'.dst = m_sHeader.dst /\ m_sHeader'.src = m_sHeader.src
        /\ m_sHeader'.data = m_sHeader.data
    BY <1>4, <1>5 DEF Header
  <1>7. k \notin overlapped => \A j \in 1..x.copied : m_sHeader'.data[j] = <<k, j>>
    BY <1>1, <1>3, <1>6 DEF Inv, Alone
  <1> HIDE DEF x
  <1> QED BY <1>1, <1>2, <1>3, <1>4, <1>6, <1>7, GoesOn

(* What goes out is sound, and every peer captures it.                      *)
LEMMA TransmitKept ==
    ASSUME TypeOK, FramesSound, NEW f \in Frame, Sound(f), Transmit(f),
           UNCHANGED <<calls, overlapped, handed>>
    PROVE  /\ sent' \in Seq(Frame) /\ captured' \in [Hosts -> Seq(Frame)] /\ FramesSound'
  <1>1. sent \in Seq(Frame) /\ captured \in [Hosts -> Seq(Frame)]
    BY TypeParts
  <1>2. sent' = Append(sent, f) /\ captured' = [h \in Hosts |-> Append(captured[h], f)]
    BY DEF Transmit
  <1>3. sent' \in Seq(Frame)
    BY <1>1, <1>2, AppendProperties
  <1>4. ASSUME NEW h \in Hosts
        PROVE  /\ captured'[h] \in Seq(Frame)
               /\ \A j \in DOMAIN captured'[h] :
                    captured'[h][j] = f \/ (j \in DOMAIN captured[h] /\ captured'[h][j] = captured[h][j])
    <2>1. captured[h] \in Seq(Frame) /\ captured'[h] = Append(captured[h], f)
      BY <1>1, <1>2
    <2>2. /\ captured'[h] \in Seq(Frame) /\ DOMAIN captured'[h] = 1..Len(captured[h]) + 1
          /\ \A j \in 1..Len(captured[h]) : captured'[h][j] = captured[h][j]
          /\ captured'[h][Len(captured[h]) + 1] = f
      BY <2>1, AppendProperties
    <2>3. DOMAIN captured[h] = 1..Len(captured[h]) /\ Len(captured[h]) \in Nat
      BY <2>1
    <2> QED BY <2>2, <2>3
  <1>5. captured' \in [Hosts -> Seq(Frame)]
    BY <1>2, <1>4
  <1>6. \A g : Sound(g) => Sound(g)'
    BY SoundStays
  <1>7. FramesSound'
    BY <1>4, <1>6 DEF FramesSound, Accepts
  <1> QED BY <1>3, <1>5, <1>7

(* Where no other thread was at work the frame that goes out is what was    *)
(* wanted.                                                                  *)
LEMMA UnderSendSound ==
    ASSUME Inv, NEW c \in Callers, UnderSend(c)
    PROVE  LET f == [dst |-> m_sHeader.dst, src |-> m_sHeader.src, type |-> m_sHeader.type,
                     data |-> SubSeq(m_sHeader.data, 1, caller[c].len), call |-> caller[c].call]
           IN  f \in Frame /\ Sound(f)
  <1> DEFINE k == caller[c].call
             len == caller[c].len
             f == [dst |-> m_sHeader.dst, src |-> m_sHeader.src, type |-> m_sHeader.type,
                   data |-> SubSeq(m_sHeader.data, 1, len), call |-> k]
  <1>1. Sending(c) /\ caller[c].pc = "under"
    BY DEF UnderSend, At, Sending
  <1>2. /\ TypeOK /\ Working /\ Alone /\ FramesSound /\ Len(calls) <= MaxCalls
        /\ m_sHeader \in Header /\ caller \in [Callers -> Locals]
    BY TypeParts DEF Inv
  <1>3. /\ k \in DOMAIN calls /\ k \in 1..MaxCalls /\ k # 0 /\ len = calls[k].len
        /\ len \in 1..MaxData /\ caller[c].copied = len
    BY <1>1, SenderFacts
  <1>4. /\ Transmit(f) /\ caller' = [caller EXCEPT ![c] = Idle]
        /\ UNCHANGED <<m_sHeader, calls, handed, overlapped>>
    BY DEF UnderSend
  <1>5. /\ SubSeq(m_sHeader.data, 1, len) \in Seq(Cell)
        /\ Len(SubSeq(m_sHeader.data, 1, len)) = len
        /\ \A i \in 1..len : SubSeq(m_sHeader.data, 1, len)[i] = m_sHeader.data[i]
    <2>1. \A i \in 1..len : m_sHeader.data[i] \in Cell
      BY <1>2, <1>3, EthernetAssumption DEF Header
    <2> QED BY <1>3, <2>1, SubSeqProperties
  <1>6. f \in Frame
    BY <1>2, <1>3, <1>5 DEF Header, Frame
  <1>7. Sound(f)
    <2>1. k \notin overlapped => f = Wanted(k)
      <3> SUFFICES ASSUME k \notin overlapped PROVE f = Wanted(k)
        OBVIOUS
      <3>1. /\ m_sHeader.dst = calls[k].dst /\ m_sHeader.src = calls[k].src
            /\ m_sHeader.type = calls[k].type
            /\ \A i \in 1..len : m_sHeader.data[i] = <<k, i>>
        BY <1>1, <1>2, <1>3 DEF Alone
      <3>2. SubSeq(m_sHeader.data, 1, len) = [i \in 1..len |-> <<k, i>>]
        <4> DEFINE want == [i \in 1..len |-> <<k, i>>]
        <4>1. \A i \in 1..len : <<k, i>> \in Cell
          BY <1>3, EthernetAssumption DEF Cell
        <4>2. want \in Seq(Cell) /\ Len(want) = len
          BY <1>3, <4>1
        <4>3. \A i \in 1..len : want[i] = SubSeq(m_sHeader.data, 1, len)[i]
          BY <1>5, <3>1
        <4> HIDE DEF want
        <4>4. SubSeq(m_sHeader.data, 1, len) = want
          BY <1>5, <4>2, <4>3, SeqEqual
        <4> QED BY <4>4 DEF want
      <3> QED BY <1>3, <3>1, <3>2 DEF Wanted
    <2> QED BY <1>3, <2>1 DEF Sound
  <1> QED BY <1>6, <1>7

(* It is captured by every peer, and the thread is done.                    *)
LEMMA UnderSendKept ==
    ASSUME Inv, NEW c \in Callers, UnderSend(c)
    PROVE  Inv'
  <1> DEFINE k == caller[c].call
             len == caller[c].len
             f == [dst |-> m_sHeader.dst, src |-> m_sHeader.src, type |-> m_sHeader.type,
                   data |-> SubSeq(m_sHeader.data, 1, len), call |-> k]
  <1>1. Sending(c) /\ caller[c].pc = "under"
    BY DEF UnderSend, At, Sending
  <1>2. /\ TypeOK /\ Working /\ Alone /\ FramesSound /\ Len(calls) <= MaxCalls
        /\ m_sHeader \in Header /\ caller \in [Callers -> Locals]
    BY TypeParts DEF Inv
  <1>3. /\ k \in DOMAIN calls /\ k \in 1..MaxCalls /\ k # 0 /\ len = calls[k].len
        /\ len \in 1..MaxData /\ caller[c].copied = len
    BY <1>1, SenderFacts
  <1>4. /\ Transmit(f) /\ caller' = [caller EXCEPT ![c] = Idle]
        /\ UNCHANGED <<m_sHeader, calls, handed, overlapped>>
    BY DEF UnderSend
  <1>5. f \in Frame /\ Sound(f)
    BY UnderSendSound
  <1> HIDE DEF f
  <1>8. /\ sent' \in Seq(Frame) /\ captured' \in [Hosts -> Seq(Frame)] /\ FramesSound'
    BY <1>2, <1>4, <1>5, TransmitKept
  <1>9. Idle \in Locals /\ Idle.pc = "idle"
    BY EthernetAssumption DEF Idle, Locals
  <1>10. /\ caller' \in [Callers -> Locals] /\ caller'[c].pc = "idle"
         /\ \A d \in Callers : d # c => caller'[d] = caller[d]
    BY <1>2, <1>4, <1>9
  <1>11. TypeOK'
    BY <1>2, <1>4, <1>8, <1>10 DEF TypeOK, Locals
  <1>12. Working'
    BY <1>2, <1>4, <1>10 DEF Working, Sending
  <1>13. \A d \in Callers : Sending(d)' => caller'[d].call \in overlapped'
    BY <1>1, <1>4, <1>10, OneSends DEF Sending
  <1>14. Alone'
    BY <1>13 DEF Alone
  <1> QED BY <1>2, <1>4, <1>8, <1>11, <1>12, <1>14 DEF Inv

(* Frames of other programs may be of any type.                             *)
LEMMA OtherKept ==
    ASSUME Inv, OtherTraffic
    PROVE  Inv'
  <1>1. TypeOK /\ Working /\ Alone /\ FramesSound /\ Len(calls) <= MaxCalls
    BY DEF Inv
  <1>2. PICK m \in ForeignHeaders :
          Transmit([dst |-> m.dst, src |-> m.src, type |-> m.type, data |-> <<>>, call |-> 0])
    BY DEF OtherTraffic
  <1>3. UNCHANGED <<m_sHeader, caller, calls, handed, overlapped>>
    BY DEF OtherTraffic
  <1> DEFINE f == [dst |-> m.dst, src |-> m.src, type |-> m.type, data |-> <<>>, call |-> 0]
  <1>4. f \in Frame /\ Sound(f)
    BY EthernetAssumption DEF Frame, Types, Sound
  <1> HIDE DEF f
  <1>5. Transmit(f)
    BY <1>2 DEF f
  <1>6. /\ sent' \in Seq(Frame) /\ captured' \in [Hosts -> Seq(Frame)] /\ FramesSound'
    BY <1>1, <1>3, <1>4, <1>5, TransmitKept
  <1>7. TypeOK'
    BY <1>1, <1>3, <1>6 DEF TypeOK
  <1>8. Working' /\ Alone'
    BY <1>1, <1>3 DEF Working, Alone, Sending, Busy, At
  <1> QED BY <1>1, <1>3, <1>6, <1>7, <1>8 DEF Inv

(* A peer passes up what it accepts, to the layer the type names.           *)
LEMMA ReceiveKept ==
    ASSUME Inv, NEW h \in Hosts, Receive(h)
    PROVE  Inv'
  <1> DEFINE f == Head(captured[h])
             Item == [layer : {"ChatApp", "FileTrans"}, frame : Frame]
             item == [layer |-> UpperLayer[f.type], frame |-> f]
  <1>1. /\ TypeOK /\ Working /\ Alone /\ FramesSound /\ Len(calls) <= MaxCalls
        /\ captured \in [Hosts -> Seq(Frame)] /\ handed \in [Hosts -> Seq(Item)]
    BY TypeParts DEF Inv
  <1>2. /\ captured[h] # <<>> /\ captured' = [captured EXCEPT ![h] = Tail(captured[h])]
        /\ handed' = IF Accepts(h, f) THEN [handed EXCEPT ![h] = Append(handed[h], item)]
                     ELSE handed
        /\ UNCHANGED <<m_sHeader, caller, calls, sent, overlapped>>
    BY DEF Receive
  <1>3. captured[h] \in Seq(Frame) /\ handed[h] \in Seq(Item)
    BY <1>1
  <1>4. /\ f \in Frame /\ f = captured[h][1] /\ 1 \in DOMAIN captured[h]
        /\ Tail(captured[h]) \in Seq(Frame)
        /\ \A j \in DOMAIN Tail(captured[h]) :
             j + 1 \in DOMAIN captured[h] /\ Tail(captured[h])[j] = captured[h][j + 1]
    BY <1>2, <1>3, HeadTailProperties
  <1>5. Sound(f)
    BY <1>1, <1>4 DEF FramesSound
  <1>6. Accepts(h, f) => item \in Item
    BY <1>4 DEF Accepts, UpperLayer
  <1>7. /\ captured' \in [Hosts -> Seq(Frame)]
        /\ \A g \in Hosts : \A j \in DOMAIN captured'[g] : Sound(captured'[g][j])
    BY <1>1, <1>2, <1>4 DEF FramesSound
  <1>8. /\ handed' \in [Hosts -> Seq(Item)]
        /\ \A g \in Hosts : \A j \in DOMAIN handed'[g] :
              \/ j \in DOMAIN handed[g] /\ handed'[g][j] = handed[g][j]
              \/ g = h /\ handed'[g][j] = item /\ Accepts(h, f)
    <2>1. CASE Accepts(h, f)
      <3> HIDE DEF item, Item, f
      <3>1. /\ Append(handed[h], item) \in Seq(Item)
            /\ DOMAIN Append(handed[h], item) = 1..Len(handed[h]) + 1
            /\ \A j \in 1..Len(handed[h]) : Append(handed[h], item)[j] = handed[h][j]
            /\ Append(handed[h], item)[Len(handed[h]) + 1] = item
            /\ DOMAIN handed[h] = 1..Len(handed[h]) /\ Len(handed[h]) \in Nat
        BY <1>3, <1>6, <2>1, AppendProperties
      <3>2. handed' = [handed EXCEPT ![h] = Append(handed[h], item)]
        BY <1>2, <2>1
      <3> QED BY <1>1, <2>1, <3>1, <3>2
    <2>2. CASE ~Accepts(h, f)
      BY <1>1, <1>2, <2>2
    <2> QED BY <2>1, <2>2
  <1>9. /\ item.frame = f /\ item.layer = UpperLayer[item.frame.type]
    OBVIOUS
  <1> HIDE DEF item, Item, f
  <1>10. \A g \in Hosts : \A j \in DOMAIN handed'[g] :
            /\ Sound(handed'[g][j].frame) /\ Accepts(g, handed'[g][j].frame)
            /\ handed'[g][j].layer = UpperLayer[handed'[g][j].frame.type]
    BY ZenonT(40), <1>1, <1>5, <1>8, <1>9 DEF FramesSound
  <1>11. \A g : Sound(g) => Sound(g)'
    BY <1>2, SoundStays
  <1>12. FramesSound'
    BY <1>7, <1>10, <1>11 DEF FramesSound, Accepts
  <1>13. TypeOK'
    BY <1>1, <1>2, <1>7, <1>8 DEF TypeOK, Item
  <1>14. Working' /\ Alone'
    BY <1>1, <1>2 DEF Working, Alone, Sending, Busy, At
  <1> QED BY <1>1, <1>2, <1>12, <1>13, <1>14 DEF Inv

-----------------------------------------------------------------------------
(* The theorems.                                                           *)

(* Every step keeps the invariant.                                          *)
LEMMA InvKept == Inv /\ [Next]_vars => Inv'
  <1> SUFFICES ASSUME Inv, [Next]_vars PROVE Inv'
    OBVIOUS
  <1>1. ASSUME NEW a \in Adapters, SetSourceAddress(a) PROVE Inv'
    <2>1. a \in Addr
      BY EthernetAssumption
    <2>2. /\ m_sHeader' = [m_sHeader EXCEPT !["src"] = a] /\ caller[UI].pc = "idle"
          /\ caller' = [caller EXCEPT ![UI].pc = "destin"] /\ overlapped' = overlapped \cup Running
          /\ UNCHANGED <<captured, calls, sent, handed>>
      BY <1>1 DEF SetSourceAddress, At
    <2> QED BY <2>1, <2>2, AddressesKept
  <1>2. ASSUME NEW a \in Typed, SetDestinAddress(a) PROVE Inv'
    <2>1. a \in Addr
      BY EthernetAssumption
    <2>2. /\ m_sHeader' = [m_sHeader EXCEPT !["dst"] = a] /\ caller[UI].pc = "destin"
          /\ caller' = [caller EXCEPT ![UI].pc = "idle"] /\ overlapped' = overlapped \cup Running
          /\ UNCHANGED <<captured, calls, sent, handed>>
      BY <1>2 DEF SetDestinAddress, At
    <2> QED BY <2>1, <2>2, AddressesKept
  <1>3. CASE Next
    BY <1>1, <1>2, <1>3, CallKept, CopyKept, TypeKept, UnderSendKept, OtherKept, ReceiveKept
       DEF Next, Send
  <1>4. CASE UNCHANGED vars
    <2>1. FramesSound'
      BY <1>4, FramesStay DEF vars, Inv
    <2>2. TypeOK' /\ Working' /\ Alone'
      BY <1>4 DEF vars, Inv, TypeOK, Working, Alone, Sending, Busy, At
    <2> QED BY <1>4, <2>1, <2>2 DEF vars, Inv
  <1> QED BY <1>3, <1>4

(* The invariant holds in every state.                                      *)
THEOREM EthernetInvariant == Spec => []Inv
  BY AtStart, InvKept, PTL DEF Spec

(* The layer keeps its types: memcpy never leaves enet_data.                *)
THEOREM Typing == Spec => []TypeOK
  <1>1. Inv => TypeOK
    BY DEF Inv
  <1> QED BY <1>1, EthernetInvariant, PTL

(* However many threads call Send and whatever other programs send, the     *)
(* frame of a call that no other thread disturbed goes to the layer that    *)
(* sent it, at the peer it was meant for.                                   *)
THEOREM LayersAlwaysGetTheirs == Spec => []LayersGetTheirs
  <1>1. Inv => LayersGetTheirs
    <2> SUFFICES ASSUME Inv, NEW h \in Hosts, NEW j \in DOMAIN handed[h]
                 PROVE  LET item == handed[h][j]
                        IN  /\ item.layer = UpperLayer[item.frame.type]
                            /\ item.frame.call \notin overlapped \cup {0} =>
                                  /\ calls[item.frame.call].dst = OwnAddr[h]
                                  /\ item.layer = UpperLayer[calls[item.frame.call].type]
      BY DEF LayersGetTheirs
    <2> DEFINE f == handed[h][j].frame
    <2>1. Sound(f) /\ Accepts(h, f) /\ handed[h][j].layer = UpperLayer[f.type]
      BY DEF Inv, FramesSound
    <2>2. f.call \notin overlapped \cup {0} =>
            f.dst = calls[f.call].dst /\ f.type = calls[f.call].type
      BY <2>1 DEF Sound, Wanted
    <2> QED BY <2>1, <2>2 DEF Accepts
  <1> QED BY <1>1, EthernetInvariant, PTL

-----------------------------------------------------------------------------
(* The order of what a peer passes up.                                     *)

(* Which of the frames for peer h that on place i is.                       *)
Rank(h, i) == RankIn(Theirs(h), i)

(* A peer has before it what it has not looked at, and has passed up the    *)
(* frames for it each at its rank.                                          *)
InOrder(h) ==
    /\ Len(captured[h]) <= Len(sent)
    /\ \A j \in 1..Len(captured[h]) : captured[h][j] = sent[Looked(h) + j]
    /\ Len(handed[h]) = Cardinality(Theirs(h))
    /\ \A i \in Theirs(h) : handed[h][Rank(h, i)].frame = sent[i]

OrderInv == \A h \in Hosts : InOrder(h)

(* How many frames a peer has looked at is a number.                        *)
LEMMA LookedType ==
    ASSUME TypeOK, NEW h \in Hosts, InOrder(h)
    PROVE  /\ sent \in Seq(Frame) /\ captured[h] \in Seq(Frame)
           /\ Len(sent) \in Nat /\ Len(captured[h]) \in Nat /\ Looked(h) \in Nat
           /\ Looked(h) + Len(captured[h]) = Len(sent)
           /\ Theirs(h) \in SUBSET (1..Looked(h))
  <1>1. sent \in Seq(Frame) /\ captured[h] \in Seq(Frame)
    BY DEF TypeOK
  <1>2. Len(sent) \in Nat /\ Len(captured[h]) \in Nat /\ Len(captured[h]) <= Len(sent)
    BY <1>1 DEF InOrder
  <1> QED BY <1>1, <1>2 DEF Looked, Theirs

(* A frame that goes out is one more that each peer has not looked at.      *)
LEMMA TransmitInOrder ==
    ASSUME TypeOK, OrderInv, NEW f \in Frame, Transmit(f), UNCHANGED handed
    PROVE  OrderInv'
  <1> SUFFICES ASSUME NEW h \in Hosts PROVE InOrder(h)'
    BY DEF OrderInv
  <1>1. InOrder(h)
    BY DEF OrderInv
  <1>2. /\ sent \in Seq(Frame) /\ captured[h] \in Seq(Frame) /\ Len(sent) \in Nat
        /\ Len(captured[h]) \in Nat /\ Looked(h) \in Nat
        /\ Looked(h) + Len(captured[h]) = Len(sent)
    BY <1>1, LookedType
  <1>3. sent' = Append(sent, f) /\ captured'[h] = Append(captured[h], f)
    BY DEF Transmit
  <1>4. /\ Len(sent') = Len(sent) + 1 /\ sent'[Len(sent) + 1] = f
        /\ \A i \in 1..Len(sent) : sent'[i] = sent[i]
    BY <1>2, <1>3, AppendProperties
  <1>5. /\ Len(captured'[h]) = Len(captured[h]) + 1 /\ captured'[h][Len(captured[h]) + 1] = f
        /\ \A j \in 1..Len(captured[h]) : captured'[h][j] = captured[h][j]
    BY <1>2, <1>3, AppendProperties
  <1>6. Looked(h)' = Looked(h) /\ Len(captured'[h]) <= Len(sent')
    BY <1>2, <1>4, <1>5 DEF Looked
  <1>7. \A i \in 1..Looked(h) : sent'[i] = sent[i]
    <2>1. Looked(h) <= Len(sent)
      BY <1>2
    <2>2. \A i \in 1..Looked(h) : i \in 1..Len(sent)
      BY <1>2, <2>1
    <2> QED BY <1>4, <2>2
  <1>8. Theirs(h)' = Theirs(h)
    BY <1>6, <1>7 DEF Theirs
  <1>9. ASSUME NEW j \in 1..Len(captured'[h]) PROVE captured'[h][j] = sent'[Looked(h) + j]
    <2>1. CASE j = Len(captured[h]) + 1
      <3>1. Looked(h) + j = Len(sent) + 1
        BY SMTT(30), <1>2, <2>1
      <3> QED BY <1>4, <1>5, <2>1, <3>1
    <2>2. CASE j # Len(captured[h]) + 1
      <3>1. j \in 1..Len(captured[h])
        BY <1>2, <1>5, <1>9, <2>2
      <3>2. Looked(h) + j \in 1..Len(sent)
        BY <1>2, <3>1
      <3> QED BY <1>1, <1>4, <1>5, <3>1, <3>2 DEF InOrder
    <2> QED BY <2>1, <2>2
  <1>10. \A i \in Theirs(h) : i \in 1..Looked(h) /\ Rank(h, i)' = Rank(h, i)
    BY <1>8 DEF Theirs, Rank
  <1>11. Len(handed[h]) = Cardinality(Theirs(h))
         /\ \A i \in Theirs(h) : handed[h][Rank(h, i)].frame = sent[i]
    BY <1>1 DEF InOrder
  <1>12. \A i \in Theirs(h)' : handed'[h][Rank(h, i)'].frame = sent'[i]
    BY <1>7, <1>8, <1>10, <1>11
  <1>13. Len(handed'[h]) = Cardinality(Theirs(h)')
    BY <1>8, <1>11
  <1> QED BY <1>6, <1>9, <1>12, <1>13 DEF InOrder

(* The frame a peer looks at next is of the last rank if it is for it, and  *)
(* of none if it is not.                                                    *)
LEMMA ReceiveInOrder ==
    ASSUME TypeOK, OrderInv, NEW h \in Hosts, Receive(h)
    PROVE  OrderInv'
  <1> DEFINE f == Head(captured[h])
             Item == [layer : {"ChatApp", "FileTrans"}, frame : Frame]
             item == [layer |-> UpperLayer[f.type], frame |-> f]
  <1>0. PICK n : n = Looked(h)
    OBVIOUS
  <1>1. InOrder(h)
    BY DEF OrderInv
  <1>2. /\ sent \in Seq(Frame) /\ captured[h] \in Seq(Frame) /\ Len(sent) \in Nat
        /\ Len(captured[h]) \in Nat /\ n \in Nat /\ n + Len(captured[h]) = Len(sent)
        /\ Theirs(h) \in SUBSET (1..n)
    BY <1>0, <1>1, LookedType
  <1>3. /\ captured[h] # <<>> /\ captured' = [captured EXCEPT ![h] = Tail(captured[h])]
        /\ handed' = IF Accepts(h, f) THEN [handed EXCEPT ![h] = Append(handed[h], item)]
                     ELSE handed
        /\ sent' = sent
    BY DEF Receive
  <1>4. /\ captured \in [Hosts -> Seq(Frame)] /\ handed \in [Hosts -> Seq(Item)]
    BY DEF TypeOK
  <1>5. ASSUME NEW g \in Hosts, g # h PROVE InOrder(g)'
    <2>1. captured'[g] = captured[g] /\ handed'[g] = handed[g] /\ sent' = sent
      BY <1>3, <1>4, <1>5
    <2>2. Looked(g)' = Looked(g) /\ Theirs(g)' = Theirs(g)
      BY <2>1 DEF Looked, Theirs
    <2>3. \A i : Rank(g, i)' = Rank(g, i)
      BY <2>2 DEF Rank
    <2> QED BY <2>1, <2>2, <2>3 DEF OrderInv, InOrder
  <1>6. /\ f \in Frame /\ f = captured[h][1] /\ 1 \in 1..Len(captured[h])
        /\ Len(Tail(captured[h])) = Len(captured[h]) - 1
        /\ \A j \in 1..Len(Tail(captured[h])) : Tail(captured[h])[j] = captured[h][j + 1]
    BY <1>2, <1>3, HeadTailProperties
  <1>7. captured'[h] = Tail(captured[h])
    BY <1>3, <1>4
  <1>8. f = sent[n + 1]
    BY <1>0, <1>1, <1>6 DEF InOrder
  <1> HIDE DEF f
  <1>9. Looked(h)' = n + 1 /\ Len(captured'[h]) <= Len(sent)
    <2>1. PICK s \in Nat, c \in Nat : s = Len(sent) /\ c = Len(captured[h])
      BY <1>2
    <2>2. n = s - c /\ n \in Nat
      BY <1>0, <1>2, <2>1 DEF Looked
    <2>3. Len(captured'[h]) = c - 1 /\ Len(sent') = s
      BY <1>3, <1>6, <1>7, <2>1
    <2>4. Looked(h)' = s - (c - 1)
      BY <2>3 DEF Looked
    <2>5. s - (c - 1) = n + 1 /\ c - 1 <= s
      BY <2>2
    <2> QED BY <2>1, <2>3, <2>4, <2>5
  <1>10. ASSUME NEW j \in 1..Len(captured'[h]) PROVE captured'[h][j] = sent'[n + 1 + j]
    <2>1. j + 1 \in 1..Len(captured[h]) /\ captured'[h][j] = captured[h][j + 1]
      BY <1>2, <1>6, <1>7, <1>10
    <2>2. captured[h][j + 1] = sent[n + (j + 1)]
      BY <1>0, <1>1, <2>1 DEF InOrder
    <2>3. n + (j + 1) = n + 1 + j
      BY <1>2
    <2> QED BY <1>3, <2>1, <2>2, <2>3
  <1>11. Theirs(h)' = IF Accepts(h, f) THEN Theirs(h) \cup {n + 1} ELSE Theirs(h)
    <2>1. Accepts(h, f) <=> sent[n + 1].dst = OwnAddr[h] /\ sent[n + 1].type \in {"chat", "file"}
      BY <1>8 DEF Accepts, UpperLayer
    <2>2. 1..n + 1 = 1..n \cup {n + 1}
      BY <1>2
    <2>3. Theirs(h)' = {i \in 1..n + 1 : sent[i].dst = OwnAddr[h] /\ sent[i].type \in {"chat", "file"}}
      BY <1>3, <1>9 DEF Theirs
    <2>4. Theirs(h) = {i \in 1..n : sent[i].dst = OwnAddr[h] /\ sent[i].type \in {"chat", "file"}}
      BY <1>0 DEF Theirs
    <2> QED BY <2>1, <2>2, <2>3, <2>4
  <1>12. /\ Len(handed[h]) = Cardinality(Theirs(h)) /\ handed[h] \in Seq(Item)
         /\ \A i \in Theirs(h) : handed[h][Rank(h, i)].frame = sent[i]
    BY <1>1, <1>4 DEF InOrder
  <1>13. CASE ~Accepts(h, f)
    <2>1. Theirs(h)' = Theirs(h) /\ handed' = handed
      BY <1>3, <1>11, <1>13
    <2>2. \A i : Rank(h, i)' = Rank(h, i)
      BY <2>1 DEF Rank
    <2>3. InOrder(h)'
      BY <1>3, <1>9, <1>10, <1>12, <2>1, <2>2 DEF InOrder
    <2> QED BY <1>5, <2>3 DEF OrderInv
  <1>14. CASE Accepts(h, f)
    <2>1. /\ Theirs(h)' = Theirs(h) \cup {n + 1} /\ handed'[h] = Append(handed[h], item)
      BY <1>3, <1>4, <1>11, <1>14
    <2>2. item \in Item /\ item.frame = f
      BY <1>6, <1>14 DEF Accepts, UpperLayer
    <2> HIDE DEF item, Item
    <2>3. /\ Len(handed'[h]) = Len(handed[h]) + 1 /\ handed'[h][Len(handed[h]) + 1] = item
          /\ \A j \in 1..Len(handed[h]) : handed'[h][j] = handed[h][j]
      BY <1>12, <2>1, <2>2, AppendProperties
    <2>4. /\ Cardinality(Theirs(h)) \in Nat
          /\ \A i \in Theirs(h) : RankIn(Theirs(h), i) \in 1..Cardinality(Theirs(h))
          /\ Cardinality(Theirs(h) \cup {n + 1}) = Cardinality(Theirs(h)) + 1
          /\ RankIn(Theirs(h) \cup {n + 1}, n + 1) = Cardinality(Theirs(h)) + 1
          /\ \A i \in Theirs(h) : RankIn(Theirs(h) \cup {n + 1}, i) = RankIn(Theirs(h), i)
      BY <1>2, RankAdded, PlacesOf
    <2>5. \A i : Rank(h, i)' = RankIn(Theirs(h) \cup {n + 1}, i)
      BY <2>1 DEF Rank
    <2>6. Rank(h, n + 1)' = Len(handed[h]) + 1
      BY <1>12, <2>4, <2>5
    <2>7. \A i \in Theirs(h) : Rank(h, i)' = Rank(h, i) /\ Rank(h, i) \in 1..Len(handed[h])
      BY <1>12, <2>4, <2>5 DEF Rank
    <2>8. ASSUME NEW i \in Theirs(h)' PROVE handed'[h][Rank(h, i)'].frame = sent'[i]
      <3>1. CASE i = n + 1
        BY <1>3, <1>8, <2>2, <2>3, <2>6, <3>1
      <3>2. CASE i \in Theirs(h)
        BY <1>3, <1>12, <2>3, <2>7, <3>2
      <3> QED BY <2>1, <2>8, <3>1, <3>2
    <2>9. Len(handed'[h]) = Cardinality(Theirs(h)')
      BY <1>12, <2>1, <2>3, <2>4
    <2>10. InOrder(h)'
      BY <1>3, <1>9, <1>10, <2>8, <2>9 DEF InOrder
    <2> QED BY <1>5, <2>10 DEF OrderInv
  <1> QED BY <1>13, <1>14

(* The other steps leave what went out and what was handed up as it was.    *)
LEMMA RestInOrder ==
    ASSUME OrderInv, UNCHANGED <<sent, captured, handed>>
    PROVE  OrderInv'
  <1> SUFFICES ASSUME NEW h \in Hosts PROVE InOrder(h)'
    BY DEF OrderInv
  <1>1. Looked(h)' = Looked(h) /\ Theirs(h)' = Theirs(h)
    BY DEF Looked, Theirs
  <1>2. \A i : Rank(h, i)' = Rank(h, i)
    BY <1>1 DEF Rank
  <1> QED BY <1>1, <1>2 DEF OrderInv, InOrder

(* Every step keeps the order.                                              *)
LEMMA OrderKept == Inv /\ Inv' /\ OrderInv /\ [Next]_vars => OrderInv'
  <1> SUFFICES ASSUME Inv, Inv', OrderInv, [Next]_vars PROVE OrderInv'
    OBVIOUS
  <1>1. TypeOK /\ TypeOK'
    BY DEF Inv
  <1>2. ASSUME NEW f, Transmit(f), UNCHANGED handed PROVE OrderInv'
    <2>1. f \in Frame
      <3>1. sent \in Seq(Frame) /\ sent' \in Seq(Frame) /\ sent' = Append(sent, f)
        BY <1>1, <1>2 DEF Transmit, TypeOK
      <3>2. Len(sent') = Len(sent) + 1 /\ sent'[Len(sent) + 1] = f /\ Len(sent) \in Nat
        BY <3>1
      <3> QED BY <3>1, <3>2, ElementOfSeq
    <2> QED BY <1>1, <1>2, <2>1, TransmitInOrder
  <1>3. ASSUME NEW c \in Callers, UnderSend(c) PROVE OrderInv'
    BY <1>2, <1>3 DEF UnderSend
  <1>4. CASE OtherTraffic
    BY <1>2, <1>4 DEF OtherTraffic
  <1>5. ASSUME NEW h \in Hosts, Receive(h) PROVE OrderInv'
    BY <1>1, <1>5, ReceiveInOrder
  <1>6. CASE UNCHANGED <<sent, captured, handed>>
    BY <1>6, RestInOrder
  <1> QED BY <1>3, <1>4, <1>5, <1>6
          DEF Next, Send, vars, SetSourceAddress, SetDestinAddress, Call, CopyData, SetType

(* However sends overlap, each peer passes up every frame that names it,    *)
(* once, in the order in which they went out, and nothing else.             *)
THEOREM PassedUpInOrder == Spec => []HandedInOrder
  <1>1. Init => OrderInv
    <2> SUFFICES ASSUME Init, NEW h \in Hosts PROVE InOrder(h)
      BY DEF OrderInv
    <2>1. captured[h] = <<>> /\ handed[h] = <<>> /\ sent = <<>>
      BY DEF Init
    <2>2. Theirs(h) = {}
      BY <2>1 DEF Theirs, Looked
    <2>3. Cardinality(Theirs(h)) = 0
      BY <2>2, FS_EmptySet
    <2> QED BY <2>1, <2>2, <2>3 DEF InOrder
  <1>2. TypeOK /\ OrderInv => HandedInOrder
    <2> SUFFICES ASSUME TypeOK, OrderInv, NEW h \in Hosts
                 PROVE  /\ Len(handed[h]) = Cardinality(Theirs(h))
                        /\ \A i \in Theirs(h) : handed[h][Rank(h, i)].frame = sent[i]
                        /\ captured[h] = SubSeq(sent, Looked(h) + 1, Len(sent))
      BY DEF HandedInOrder, Rank
    <2>1. InOrder(h)
      BY DEF OrderInv
    <2> DEFINE rest == SubSeq(sent, Looked(h) + 1, Len(sent))
               n == Looked(h)
    <2>2. /\ sent \in Seq(Frame) /\ captured[h] \in Seq(Frame) /\ Len(sent) \in Nat
          /\ Len(captured[h]) \in Nat /\ n \in Nat /\ n + Len(captured[h]) = Len(sent)
      BY <2>1, LookedType
    <2> HIDE DEF n
    <2>3. \A i \in n + 1..Len(sent) : sent[i] \in Frame
      BY <2>2
    <2>4. /\ SubSeq(sent, n + 1, Len(sent)) \in Seq(Frame)
          /\ Len(SubSeq(sent, n + 1, Len(sent))) =
                IF n + 1 <= Len(sent) THEN Len(sent) - (n + 1) + 1 ELSE 0
          /\ \A j \in 1..Len(sent) - (n + 1) + 1 :
                SubSeq(sent, n + 1, Len(sent))[j] = sent[(n + 1) + j - 1]
      BY <2>2, <2>3, SubSeqProperties
    <2>5. /\ rest \in Seq(Frame) /\ Len(rest) = Len(captured[h])
          /\ \A j \in 1..Len(captured[h]) : rest[j] = sent[n + j]
      <3>1. rest = SubSeq(sent, n + 1, Len(sent))
        BY DEF n
      <3> HIDE DEF rest
      <3>2. \A j \in 1..Len(captured[h]) : j \in 1..Len(sent) - (n + 1) + 1 /\ (n + 1) + j - 1 = n + j
        BY <2>2
      <3> QED BY <2>2, <2>4, <3>1, <3>2
    <2> HIDE DEF rest
    <2>6. captured[h] = rest
      <3>1. \A j \in 1..Len(captured[h]) : captured[h][j] = rest[j]
        <4>1. \A j \in 1..Len(captured[h]) : captured[h][j] = sent[n + j]
          BY <2>1 DEF InOrder, n
        <4> QED BY <2>5, <4>1
      <3> QED BY <2>2, <2>5, <3>1, SeqEqual
    <2> QED BY <2>1, <2>6 DEF InOrder, rest
  <1>3. Inv => TypeOK
    BY DEF Inv
  <1> QED BY <1>1, <1>2, <1>3, OrderKept, EthernetInvariant, PTL DEF Spec

-----------------------------------------------------------------------------
(* What becomes of the calls of one thread.                                *)

(* The frames of thread c are those of its first calls, and while it is in *)
(* Send its last call has no frame yet.                                    *)
InTurn(c) ==
    /\ Cardinality(CallsOf(c)) = Cardinality(FramesOf(c)) + (IF Sending(c) THEN 1 ELSE 0)
    /\ \A j \in 1..Cardinality(FramesOf(c)) :
          sent[Nth(FramesOf(c), j)].call = Nth(CallsOf(c), j)
    /\ Sending(c) => caller[c].call = Nth(CallsOf(c), Cardinality(CallsOf(c)))

SentSound == \A i \in DOMAIN sent : Sound(sent[i])

TurnInv == SentSound /\ \A c \in Callers : InTurn(c)

(* Calls and frames of a thread are places in their histories.             *)
LEMMA OwnPlaces ==
    ASSUME TypeOK, NEW c
    PROVE  /\ Len(calls) \in Nat /\ DOMAIN calls = 1..Len(calls)
           /\ Len(sent) \in Nat /\ DOMAIN sent = 1..Len(sent)
           /\ CallsOf(c) \in SUBSET (1..Len(calls)) /\ FramesOf(c) \in SUBSET (1..Len(sent))
           /\ Cardinality(CallsOf(c)) \in Nat /\ Cardinality(FramesOf(c)) \in Nat
           /\ \A j \in 1..Cardinality(CallsOf(c)) : Nth(CallsOf(c), j) \in CallsOf(c)
           /\ \A j \in 1..Cardinality(FramesOf(c)) : Nth(FramesOf(c), j) \in FramesOf(c)
  <1>1. /\ Len(calls) \in Nat /\ DOMAIN calls = 1..Len(calls)
        /\ Len(sent) \in Nat /\ DOMAIN sent = 1..Len(sent)
    BY TypeParts
  <1>2. CallsOf(c) \in SUBSET (1..Len(calls)) /\ FramesOf(c) \in SUBSET (1..Len(sent))
    BY <1>1 DEF CallsOf, FramesOf
  <1> QED BY <1>1, <1>2, PlacesOf, NthAdded

(* Where neither calls nor frames are added, and no thread enters or leaves *)
(* Send, nothing changes.                                                  *)
LEMMA TurnsStay ==
    ASSUME TurnInv, UNCHANGED <<calls, sent>>, overlapped \subseteq overlapped',
           \A c \in Callers : /\ Sending(c)' <=> Sending(c)
                              /\ Sending(c) => caller'[c].call = caller[c].call
    PROVE  TurnInv'
  <1>1. SentSound'
    BY SoundStays DEF TurnInv, SentSound
  <1>2. \A c : CallsOf(c)' = CallsOf(c) /\ FramesOf(c)' = FramesOf(c)
    BY DEF CallsOf, FramesOf
  <1>3. ASSUME NEW c \in Callers PROVE InTurn(c)'
    <2>1. InTurn(c)
      BY DEF TurnInv
    <2> QED BY <1>2, <2>1 DEF InTurn
  <1> QED BY <1>1, <1>3 DEF TurnInv

(* A call of Send is the thread's last one, and no other thread's.         *)
LEMMA CallInTurn ==
    ASSUME TypeOK, TypeOK', TurnInv, NEW c \in Callers, Call(c)
    PROVE  /\ TurnInv' /\ UNCHANGED sent
           /\ CallsOf(c)' = CallsOf(c) \cup {Len(calls) + 1}
           /\ \A d \in Callers : d # c => CallsOf(d)' = CallsOf(d)
           /\ \A d \in Callers : FramesOf(d)' = FramesOf(d)
  <1> DEFINE k == Len(calls) + 1
  <1>1. /\ calls \in Seq(Asked) /\ caller \in [Callers -> Locals]
        /\ Len(calls) \in Nat /\ DOMAIN calls = 1..Len(calls)
    BY TypeParts
  <1>2. PICK len \in 1..MaxData :
          /\ calls' = Append(calls, [by |-> c, dst |-> m_sHeader.dst, src |-> m_sHeader.src,
                                     type |-> TypeOf(c), len |-> len])
          /\ caller' = [caller EXCEPT ![c] =
                          [pc |-> "copy", call |-> k, len |-> len, copied |-> 0]]
    BY DEF Call
  <1>3. UNCHANGED sent /\ overlapped \subseteq overlapped' /\ caller[c].pc = "idle"
    BY DEF Call, At
  <1>4. /\ DOMAIN calls' = 1..k /\ k \in DOMAIN calls' /\ calls'[k].by = c
        /\ DOMAIN calls \subseteq DOMAIN calls' /\ \A n \in DOMAIN calls : calls'[n] = calls[n]
    BY <1>1, <1>2
  <1>5. /\ caller'[c].pc = "copy" /\ caller'[c].call = k
        /\ \A d \in Callers : d # c => caller'[d] = caller[d]
    BY <1>1, <1>2
  <1>6. SentSound'
    BY <1>3, <1>4, SoundStays DEF TurnInv, SentSound
  <1>7. CallsOf(c)' = CallsOf(c) \cup {k}
    <2>1. \A i : i \in DOMAIN calls' <=> i \in DOMAIN calls \/ i = k
      BY <1>1, <1>4
    <2> HIDE DEF k
    <2> QED BY <1>4, <2>1 DEF CallsOf
  <1>8. ASSUME NEW d \in Callers, d # c PROVE CallsOf(d)' = CallsOf(d)
    <2>1. \A i : i \in DOMAIN calls' <=> i \in DOMAIN calls \/ i = k
      BY <1>1, <1>4
    <2> HIDE DEF k
    <2> QED BY <1>4, <1>8, <2>1 DEF CallsOf
  <1>9. ASSUME NEW d \in Callers PROVE FramesOf(d)' = FramesOf(d)
    <2>1. \A i \in DOMAIN sent : sent[i].call # 0 => sent[i].call \in DOMAIN calls
      BY DEF TurnInv, SentSound, Sound
    <2> QED BY <1>3, <1>4, <2>1 DEF FramesOf
  <1>10. InTurn(c)'
    <2> DEFINE m == Cardinality(CallsOf(c))
    <2>1. InTurn(c) /\ ~Sending(c)
      BY <1>3 DEF TurnInv, Sending
    <2>2. Cardinality(FramesOf(c)) = m /\ m \in Nat
      BY <2>1, OwnPlaces DEF InTurn
    <2>3. /\ Cardinality(CallsOf(c)') = m + 1 /\ Nth(CallsOf(c)', m + 1) = k
          /\ \A j \in 1..m : Nth(CallsOf(c)', j) = Nth(CallsOf(c), j)
      <3>1. CallsOf(c) \in SUBSET (1..Len(calls))
        BY OwnPlaces
      <3>2. /\ Cardinality(CallsOf(c) \cup {k}) = m + 1 /\ Nth(CallsOf(c) \cup {k}, m + 1) = k
            /\ \A j \in 1..m : Nth(CallsOf(c) \cup {k}, j) = Nth(CallsOf(c), j)
        BY <1>1, <3>1, RankAdded, NthAdded
      <3> QED BY <1>7, <3>2
    <2> HIDE DEF m, k
    <2>4. Sending(c)'
      BY <1>5 DEF Sending
    <2>5. \A j \in 1..m : sent[Nth(FramesOf(c), j)].call = Nth(CallsOf(c), j)
      BY <2>1, <2>2 DEF InTurn
    <2> QED BY <1>3, <1>5, <1>9, <2>2, <2>3, <2>4, <2>5 DEF InTurn
  <1>11. ASSUME NEW d \in Callers, d # c PROVE InTurn(d)'
    <2>1. InTurn(d) /\ (Sending(d)' <=> Sending(d)) /\ caller'[d] = caller[d]
      BY <1>5, <1>11 DEF TurnInv, Sending
    <2> QED BY <1>3, <1>8, <1>9, <1>11, <2>1 DEF InTurn
  <1> QED BY <1>3, <1>6, <1>7, <1>8, <1>9, <1>10, <1>11 DEF TurnInv

(* A frame that goes out is that of its thread's last call.                *)
LEMMA FrameInTurn ==
    ASSUME Inv, Inv', TurnInv, NEW c \in Callers, UnderSend(c)
    PROVE  /\ TurnInv' /\ UNCHANGED calls
           /\ Cardinality(FramesOf(c))' = Cardinality(FramesOf(c)) + 1
           /\ Cardinality(FramesOf(c)) + 1 = Cardinality(CallsOf(c))
           /\ \A d \in Callers : d # c => FramesOf(d)' = FramesOf(d)
  <1> DEFINE k == caller[c].call
             f == [dst |-> m_sHeader.dst, src |-> m_sHeader.src, type |-> m_sHeader.type,
                   data |-> SubSeq(m_sHeader.data, 1, caller[c].len), call |-> k]
             e == Len(sent) + 1
             m == Cardinality(FramesOf(c))
  <1>1. /\ TypeOK /\ TypeOK' /\ sent \in Seq(Frame) /\ caller \in [Callers -> Locals]
        /\ Len(sent) \in Nat /\ DOMAIN sent = 1..Len(sent)
    BY TypeParts DEF Inv
  <1>2. /\ sent' = Append(sent, f) /\ caller' = [caller EXCEPT ![c] = Idle]
        /\ UNCHANGED <<calls, overlapped>> /\ Sending(c)
    BY DEF UnderSend, Transmit, At, Sending
  <1>3. k \in DOMAIN calls /\ k # 0 /\ f.call = k
    BY <1>2, SenderFacts
  <1>4. InTurn(c) /\ m \in Nat /\ Cardinality(CallsOf(c)) = m + 1
    BY <1>1, <1>2, OwnPlaces DEF TurnInv, InTurn
  <1>5. k = Nth(CallsOf(c), m + 1) /\ k \in CallsOf(c)
    BY <1>1, <1>2, <1>4, OwnPlaces DEF InTurn
  <1> HIDE DEF f, k
  <1>6. /\ DOMAIN sent' = 1..e /\ sent'[e] = f /\ e \notin DOMAIN sent
        /\ \A i : i \in DOMAIN sent' <=> i \in DOMAIN sent \/ i = e
        /\ \A i \in DOMAIN sent : sent'[i] = sent[i]
    BY <1>1, <1>2
  <1>7. /\ caller'[c].pc = "idle" /\ ~Sending(c)'
        /\ \A d \in Callers : d # c => caller'[d] = caller[d]
    BY <1>1, <1>2 DEF Idle, Sending
  <1>8. SentSound'
    <2>1. PICK g : g = f
      OBVIOUS
    <2>2. Sound(g)
      BY <2>1, UnderSendSound DEF f, k
    <2>3. \A x : Sound(x) => Sound(x)'
      BY <1>2, SoundStays
    <2>4. sent'[e] = g
      BY <1>6, <2>1
    <2>5. \A i \in DOMAIN sent : Sound(sent[i])
      BY DEF TurnInv, SentSound
    <2>6. ASSUME NEW i \in DOMAIN sent' PROVE Sound(sent[i])'
      <3>1. PICK x : x = sent'[i]
        OBVIOUS
      <3>2. Sound(x)
        BY <1>6, <2>2, <2>4, <2>5, <3>1
      <3> QED BY <2>3, <3>1, <3>2
    <2> QED BY <2>6 DEF SentSound
  <1>9. FramesOf(c)' = FramesOf(c) \cup {e}
    BY <1>2, <1>3, <1>5, <1>6 DEF FramesOf, CallsOf
  <1>10. ASSUME NEW d \in Callers, d # c PROVE FramesOf(d)' = FramesOf(d)
    <2>1. calls[k].by # d
      BY <1>5, <1>10 DEF CallsOf
    <2> QED BY <1>2, <1>3, <1>6, <2>1 DEF FramesOf
  <1>11. \A d : CallsOf(d)' = CallsOf(d)
    BY <1>2 DEF CallsOf
  <1>12. /\ Cardinality(FramesOf(c)') = m + 1 /\ Nth(FramesOf(c)', m + 1) = e
         /\ \A j \in 1..m : /\ Nth(FramesOf(c)', j) = Nth(FramesOf(c), j)
                             /\ Nth(FramesOf(c), j) \in DOMAIN sent
    <2>1. FramesOf(c) \in SUBSET (1..Len(sent))
      BY <1>1, OwnPlaces
    <2>2. /\ Cardinality(FramesOf(c) \cup {e}) = m + 1 /\ Nth(FramesOf(c) \cup {e}, m + 1) = e
          /\ \A j \in 1..m : /\ Nth(FramesOf(c) \cup {e}, j) = Nth(FramesOf(c), j)
                              /\ Nth(FramesOf(c), j) \in FramesOf(c)
      BY <1>1, <2>1, RankAdded, NthAdded
    <2> QED BY <1>1, <1>9, <2>1, <2>2
  <1> HIDE DEF m, e
  <1>13. InTurn(c)'
    <2>1. ASSUME NEW j \in 1..m + 1
          PROVE  sent'[Nth(FramesOf(c)', j)].call = Nth(CallsOf(c)', j)
      <3>1. CASE j = m + 1
        BY <1>3, <1>5, <1>6, <1>11, <1>12, <3>1
      <3>2. CASE j \in 1..m
        <4>1. sent[Nth(FramesOf(c), j)].call = Nth(CallsOf(c), j)
          BY <1>4, <3>2 DEF InTurn, m
        <4> QED BY <1>6, <1>11, <1>12, <3>2, <4>1
      <3> QED BY <1>4, <2>1, <3>1, <3>2
    <2> QED BY <1>4, <1>7, <1>11, <1>12, <2>1 DEF InTurn
  <1>14. ASSUME NEW d \in Callers, d # c PROVE InTurn(d)'
    <2>1. InTurn(d) /\ (Sending(d)' <=> Sending(d)) /\ caller'[d] = caller[d]
      BY <1>7, <1>14 DEF TurnInv, Sending
    <2>2. \A j \in 1..Cardinality(FramesOf(d)) : Nth(FramesOf(d), j) \in DOMAIN sent
      BY <1>1, OwnPlaces
    <2> QED BY <1>6, <1>10, <1>11, <1>14, <2>1, <2>2 DEF InTurn
  <1> QED BY <1>2, <1>4, <1>8, <1>10, <1>12, <1>13, <1>14 DEF TurnInv, m

(* Frames of other programs are nobody's.                                  *)
LEMMA OthersInTurn ==
    ASSUME Inv, TurnInv, OtherTraffic
    PROVE  /\ TurnInv' /\ UNCHANGED calls
           /\ \A d \in Callers : FramesOf(d)' = FramesOf(d)
  <1>1. PICK f : /\ f.call = 0 /\ sent' = Append(sent, f)
                 /\ UNCHANGED <<calls, caller, overlapped>>
    BY DEF OtherTraffic, Transmit
  <1>2. TypeOK /\ sent \in Seq(Frame) /\ Len(sent) \in Nat /\ DOMAIN sent = 1..Len(sent)
    BY TypeParts DEF Inv
  <1> DEFINE e == Len(sent) + 1
  <1>3. /\ sent'[e] = f /\ \A i : i \in DOMAIN sent' <=> i \in DOMAIN sent \/ i = e
        /\ \A i \in DOMAIN sent : sent'[i] = sent[i]
    BY <1>1, <1>2
  <1> HIDE DEF e
  <1>4. SentSound'
    <2>1. \A g : Sound(g) => Sound(g)'
      BY <1>1, SoundStays
    <2>2. Sound(f)'
      BY <1>1 DEF Sound
    <2> QED BY <1>3, <2>1, <2>2 DEF TurnInv, SentSound
  <1>5. ASSUME NEW d \in Callers PROVE FramesOf(d)' = FramesOf(d)
    BY <1>1, <1>2, <1>3 DEF FramesOf, e
  <1>6. \A d : CallsOf(d)' = CallsOf(d)
    BY <1>1 DEF CallsOf
  <1>7. ASSUME NEW d \in Callers PROVE InTurn(d)'
    <2>1. InTurn(d) /\ (Sending(d)' <=> Sending(d))
      BY <1>1 DEF TurnInv, Sending
    <2>2. \A j \in 1..Cardinality(FramesOf(d)) : Nth(FramesOf(d), j) \in DOMAIN sent
      BY <1>2, OwnPlaces
    <2> QED BY <1>1, <1>3, <1>5, <1>6, <2>1, <2>2 DEF InTurn
  <1> QED BY <1>1, <1>4, <1>5, <1>7 DEF TurnInv

(* Every step is a call, a frame that goes out, or none of both.           *)
LEMMA EachStep ==
    ASSUME Inv, Inv', TurnInv, [Next]_vars
    PROVE  \/ \E c \in Callers : Call(c)
           \/ \E c \in Callers : UnderSend(c)
           \/ OtherTraffic
           \/ UNCHANGED <<calls, sent>> /\ TurnInv'
  <1> DEFINE Still ==
               /\ UNCHANGED <<calls, sent>> /\ overlapped \subseteq overlapped'
               /\ \A c \in Callers : /\ Sending(c)' <=> Sending(c)
                                     /\ Sending(c) => caller'[c].call = caller[c].call
  <1>1. caller \in [Callers -> Locals] /\ UI \in Callers
    BY TypeParts, EthernetAssumption DEF Inv
  <1>2. ASSUME NEW a, SetSourceAddress(a) \/ SetDestinAddress(a) PROVE Still
    <2>1. /\ UNCHANGED <<calls, sent>> /\ overlapped \subseteq overlapped'
          /\ caller[UI].pc \in {"idle", "destin"}
          /\ \E pc \in {"idle", "destin"} : caller' = [caller EXCEPT ![UI].pc = pc]
      BY <1>2 DEF SetSourceAddress, SetDestinAddress, At
    <2>2. PICK pc \in {"idle", "destin"} : caller' = [caller EXCEPT ![UI].pc = pc]
      BY <2>1
    <2>3. /\ caller'[UI].pc \in {"idle", "destin"}
          /\ \A c \in Callers : c # UI => caller'[c] = caller[c]
      BY <1>1, <2>2 DEF Locals
    <2> QED BY <2>1, <2>3 DEF Sending
  <1>3. ASSUME NEW c \in Callers, CopyData(c) \/ SetType(c) PROVE Still
    <2>1. /\ UNCHANGED <<calls, sent, overlapped>> /\ caller[c].pc \in {"copy", "type"}
          /\ \A d \in Callers : d # c => caller'[d] = caller[d]
      BY <1>1, <1>3 DEF CopyData, SetType, At
    <2>2. caller'[c].pc \in {"copy", "type", "under"} /\ caller'[c].call = caller[c].call
      BY <1>1, <1>3 DEF CopyData, SetType, Locals
    <2> QED BY <2>1, <2>2 DEF Sending
  <1>4. ASSUME (\E h \in Hosts : Receive(h)) \/ UNCHANGED vars PROVE Still
    BY <1>4 DEF Receive, vars, Sending
  <1>5. Still => UNCHANGED <<calls, sent>> /\ TurnInv'
    BY TurnsStay
  <1> HIDE DEF Still
  <1> QED BY <1>2, <1>3, <1>4, <1>5 DEF Next, Send

(* Every step keeps it.                                                    *)
LEMMA TurnKept ==
    ASSUME Inv, Inv', TurnInv, [Next]_vars
    PROVE  TurnInv'
  <1>1. TypeOK /\ TypeOK'
    BY DEF Inv
  <1> QED BY <1>1, EachStep, CallInTurn, FrameInTurn, OthersInTurn

FirstCalls ==
    \A c \in Callers : SentBy(c) = [j \in 1..Cardinality(FramesOf(c)) |-> Nth(CallsOf(c), j)]

(* The frames of a thread that went out are its first calls.               *)
LEMMA SentIsPosted == TypeOK /\ TurnInv => FirstCalls
  <1> SUFFICES ASSUME TypeOK, TurnInv, NEW c \in Callers
               PROVE  SentBy(c) = [j \in 1..Cardinality(FramesOf(c)) |-> Nth(CallsOf(c), j)]
    BY DEF FirstCalls
  <1>1. ASSUME NEW j \in 1..Cardinality(FramesOf(c))
        PROVE  Intact(sent[Nth(FramesOf(c), j)]) = Nth(CallsOf(c), j)
    <2>1. Nth(FramesOf(c), j) \in FramesOf(c)
      BY OwnPlaces
    <2> DEFINE f == sent[Nth(FramesOf(c), j)]
    <2>2. f.call # 0 /\ Sound(f)
      BY <2>1 DEF FramesOf, TurnInv, SentSound
    <2>3. f.call = Nth(CallsOf(c), j)
      BY DEF TurnInv, InTurn
    <2> HIDE DEF f
    <2>4. Intact(f) = f.call
      BY <2>2 DEF Sound, Intact
    <2> QED BY <2>3, <2>4 DEF f
  <1> QED BY <1>1 DEF SentBy

(* To each thread the layer is a courier of frames.                        *)
Thread(c) == INSTANCE Courier WITH
    Item <- 1..MaxCalls, posted <- PostedBy(c), delivered <- SentBy(c)

(* Every step is one of the courier of thread c, or none.                  *)
LEMMA CourierStep ==
    ASSUME Inv, Inv', TurnInv, TurnInv', [Next]_vars, NEW c \in Callers
    PROVE  [Thread(c)!Next]_(Thread(c)!vars)
  <1>1. TypeOK /\ TypeOK'
    BY DEF Inv
  <1> DEFINE m == Cardinality(FramesOf(c))
             P == CallsOf(c)
  <1>2. /\ m \in Nat /\ Len(calls) \in Nat /\ P \in SUBSET (1..Len(calls))
        /\ Cardinality(P) \in Nat
    BY <1>1, OwnPlaces
  <1>3. /\ SentBy(c) = [j \in 1..m |-> Nth(P, j)]
        /\ SentBy(c)' = [j \in 1..m' |-> Nth(P', j)]
    <2>1. TypeOK' /\ TurnInv' => FirstCalls'
      BY SentIsPosted, PTL
    <2>2. FirstCalls /\ FirstCalls'
      BY <1>1, <2>1, SentIsPosted
    <2> QED BY <2>2 DEF FirstCalls
  <1>4. Cardinality(P) = m \/ Cardinality(P) = m + 1
    <2>1. InTurn(c)
      BY DEF TurnInv
    <2>2. Cardinality(P) = m + (IF Sending(c) THEN 1 ELSE 0)
      BY <2>1 DEF InTurn
    <2> HIDE DEF m, P
    <2> QED BY <1>2, <2>2
  <1> HIDE DEF m, P
  <1>5. ASSUME P' = P, m' = m PROVE UNCHANGED Thread(c)!vars
    <2>1. SentBy(c)' = SentBy(c)
      BY <1>3, <1>5
    <2>2. PostedBy(c)' = PostedBy(c)
      BY <1>5 DEF PostedBy, InOrderOf, P
    <2> QED BY <2>1, <2>2 DEF Thread!vars
  <1>6. ASSUME NEW d \in Callers, Call(d) PROVE [Thread(c)!Next]_(Thread(c)!vars)
    <2>1. /\ d = c => P' = P \cup {Len(calls) + 1}
          /\ d # c => P' = P
          /\ m' = m
      BY <1>1, <1>6, CallInTurn DEF P, m
    <2>2. CASE d # c
      BY <1>5, <2>1, <2>2
    <2>3. CASE d = c
      <3>1. PostedBy(c)' = Append(PostedBy(c), Len(calls) + 1)
        <4>1. InOrderOf(P \cup {Len(calls) + 1}) = Append(InOrderOf(P), Len(calls) + 1)
          BY <1>2, OrderedAdded
        <4>2. InOrderOf(P') = InOrderOf(P \cup {Len(calls) + 1})
          BY <2>1, <2>3
        <4> QED BY <4>1, <4>2 DEF PostedBy, P
      <3>2. Len(calls) + 1 \in 1..MaxCalls
        BY <1>2, <1>6, EthernetAssumption DEF Call
      <3>3. SentBy(c)' = SentBy(c)
        <4>1. \A j \in 1..Cardinality(P) : Nth(P', j) = Nth(P, j)
          BY <1>2, <2>1, <2>3, NthAdded
        <4>2. \A j \in 1..m : j \in 1..Cardinality(P)
          BY <1>2, <1>4
        <4>3. [j \in 1..m |-> Nth(P', j)] = [j \in 1..m |-> Nth(P, j)]
          BY <4>1, <4>2
        <4> QED BY <1>3, <2>1, <4>3
      <3> QED BY <3>1, <3>2, <3>3 DEF Thread!Next, Thread!Post
    <2> QED BY <2>2, <2>3
  <1>7. ASSUME NEW d \in Callers, UnderSend(d) PROVE [Thread(c)!Next]_(Thread(c)!vars)
    <2>1. UNCHANGED calls /\ P' = P
      BY <1>7, FrameInTurn DEF P, CallsOf
    <2>2. CASE d # c
      <3>1. m' = m
        BY <1>7, <2>2, FrameInTurn DEF m
      <3> QED BY <1>5, <2>1, <3>1
    <2>3. CASE d = c
      <3>1. m' = m + 1 /\ Cardinality(P) = m + 1
        BY <1>7, <2>3, FrameInTurn DEF m, P
      <3>2. SentBy(c)' = Append(SentBy(c), Nth(P, m + 1))
        <4>1. [j \in 1..m + 1 |-> Nth(P, j)] = Append([j \in 1..m |-> Nth(P, j)], Nth(P, m + 1))
          BY <1>2, OneMoreOf
        <4> QED BY <1>3, <2>1, <3>1, <4>1
      <3>3. Len(SentBy(c)) = m
        BY <1>2, <1>3
      <3>4. /\ PostedBy(c) = [k \in 1..m + 1 |-> Nth(P, k)]
            /\ PostedBy(c)' = PostedBy(c)
        BY <2>1, <3>1 DEF PostedBy, InOrderOf, P
      <3>5. Len(PostedBy(c)) = m + 1 /\ PostedBy(c)[m + 1] = Nth(P, m + 1)
        <4>1. m + 1 \in 1..m + 1
          BY <1>2
        <4> QED BY <1>2, <3>4, <4>1
      <3>6. Len(SentBy(c)) < Len(PostedBy(c))
        BY <1>2, <3>3, <3>5
      <3> QED BY <3>2, <3>3, <3>4, <3>5, <3>6 DEF Thread!Next, Thread!Deliver
    <2> QED BY <2>2, <2>3
  <1>8. CASE OtherTraffic
    <2>1. UNCHANGED calls /\ m' = m
      BY <1>8, OthersInTurn DEF m
    <2> QED BY <1>5, <2>1 DEF P, CallsOf
  <1>9. CASE UNCHANGED <<calls, sent>>
    BY <1>5, <1>9 DEF P, m, CallsOf, FramesOf
  <1> QED BY <1>6, <1>7, <1>8, <1>9, EachStep

(* The safety half of the refinement, for any number of threads: whatever  *)
(* the others do, the frames a thread asks CEthernetLayer::Send for go out *)
(* each once and in their order, and whole unless another thread was at    *)
(* work on m_sHeader meanwhile.                                            *)
THEOREM Implements ==
    ASSUME NEW c \in Callers
    PROVE  Spec => Thread(c)!Init /\ [][Thread(c)!Next]_(Thread(c)!vars)
  <1>1. Init => TurnInv /\ Thread(c)!Init
    <2> SUFFICES ASSUME Init PROVE TurnInv /\ Thread(c)!Init
      OBVIOUS
    <2>1. calls = <<>> /\ sent = <<>> /\ \A d \in Callers : ~Sending(d)
      BY DEF Init, Idle, Sending
    <2>2. \A d : CallsOf(d) = {} /\ FramesOf(d) = {}
      BY <2>1 DEF CallsOf, FramesOf
    <2>3. \A d : Cardinality(CallsOf(d)) = 0 /\ Cardinality(FramesOf(d)) = 0
      BY <2>2, FS_EmptySet
    <2>4. TurnInv
      BY <2>1, <2>3 DEF TurnInv, SentSound, InTurn
    <2>5. \A d : PostedBy(d) = <<>> /\ SentBy(d) = <<>>
      BY <2>3 DEF PostedBy, SentBy, InOrderOf
    <2> QED BY <2>4, <2>5 DEF Thread!Init
  <1>2. Inv /\ Inv' /\ TurnInv /\ [Next]_vars => TurnInv' /\ [Thread(c)!Next]_(Thread(c)!vars)
    BY TurnKept, CourierStep
  <1> QED BY <1>1, <1>2, EthernetInvariant, PTL DEF Spec
=============================================================================
