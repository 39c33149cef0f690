--------------------------- MODULE SessionProofs ---------------------------
(***************************************************************************)
(* Theorems about a session with the network, for every set of adapters    *)
(* and texts and whatever the bounds are.                                  *)
(***************************************************************************)
EXTENDS Session, SequenceTheorems, TLAPS

-----------------------------------------------------------------------------
(* The inductive invariant.                                                *)

Places == {"ended", "test", "read", "copy", "pass"}
Locals == [pc : Places, capture : Nat, pkt : Nat]

TypeInv ==
    /\ on \in Seq(Adapters) /\ buffer \in Seq(Seq(Nat)) /\ Len(buffer) = Len(on)
    /\ m_AdapterObject \in {Unset, Null} \cup Captures
    /\ thread \in Seq(Locals) /\ data \in [head : Nat, tail : Nat]
    /\ \A t \in DOMAIN thread : thread[t].pc = "read" => thread[t].capture \in Captures
    /\ window \in [ready : BOOLEAN, send : BOOLEAN, dst : BOOLEAN]
    /\ canRead \in BOOLEAN /\ rushed \in BOOLEAN /\ misread \in BOOLEAN
    /\ choices \in Nat /\ packets \in Nat /\ passed \subseteq Nat

(* Reading needs an address, an address needs a choice, and a choice leaves *)
(* a capture or a failure behind.  While the window is ready a thread is    *)
(* alive, so that choosing another adapter then is in a hurry.              *)
WindowInv ==
    /\ WindowAgrees
    /\ ui \in {"idle", "turning on"}
    /\ ui = "turning on" => canRead /\ ~window.ready
    /\ canRead \/ source # NoAddr => m_AdapterObject # Unset
    /\ Len(on) <= choices
    /\ m_AdapterObject = Null => Len(on) < choices
    /\ Usable(m_AdapterObject) /\ ~misread => source = on[m_AdapterObject]
    /\ canRead /\ ui = "idle" => Alive # {}
    /\ FilterIsAdapter
    /\ ReaderDownNeedsFailedOpen

(* The packets that the capture in use has for the threads. *)
Waits == buffer[m_AdapterObject]

(* Without hurry there is one receive thread at most, it reads from the     *)
(* capture in use, and the packets passed, that in its hands and those that *)
(* wait follow each other.                                                  *)
OneReader ==
    /\ \A t, u \in Alive : t = u
    /\ \A t \in Alive : thread[t].pc = "read" => thread[t].capture = m_AdapterObject

InTurn ==
    /\ \A p \in passed : p <= packets
    /\ \A t \in DOMAIN thread :
          thread[t].pc \in {"copy", "pass"} =>
            /\ thread[t].pkt <= packets
            /\ \A p \in passed : p < thread[t].pkt
            /\ Usable(m_AdapterObject) => \A i \in DOMAIN Waits : thread[t].pkt < Waits[i]
    /\ Usable(m_AdapterObject) =>
         \A i \in DOMAIN Waits :
            /\ Waits[i] <= packets
            /\ \A p \in passed : p < Waits[i]
            /\ \A j \in DOMAIN Waits : i < j => Waits[i] < Waits[j]

InHand ==
    \A t \in DOMAIN thread :
        thread[t].pc = "pass" => data = [head |-> thread[t].pkt, tail |-> thread[t].pkt]

ReaderInv == ~rushed => OneReader /\ InTurn /\ InHand

(* Where an address may come from, and what the destination field, which is *)
(* enabled exactly while the window is not ready, was when it was read.     *)
AddressBytes == {0, Garbage} \cup UNION {Range(text.numbers) : text \in Texts}

AddressInv ==
    /\ source \in Adapters \cup {NoAddr, Garbage} /\ OidData \in Adapters \cup {Garbage}
    /\ shown \in {Empty} \cup Texts
    /\ m_ucDstAddr \in [1..Reach -> AddressBytes]
    /\ header.src \in Adapters \cup {NoAddr, Garbage}
    /\ header.dst \in [1..AddrLen -> AddressBytes]
    /\ window.send = window.ready /\ window.dst = ~window.ready
    /\ window.send /\ Len(shown.numbers) = AddrLen => header.dst = shown.numbers
    /\ down \in {"up", "sending", "reading"}

(* A packet anywhere in the program is one that came in.                    *)
BoundsInv ==
    /\ packets <= MaxPackets /\ choices <= MaxChoices
    /\ passed \subseteq 1..packets
    /\ data.head <= packets /\ data.tail <= packets
    /\ \A c \in Captures : \A i \in DOMAIN buffer[c] : buffer[c][i] \in 1..packets
    /\ \A t \in DOMAIN thread :
          /\ thread[t].capture <= Len(on) /\ thread[t].pkt <= packets
          /\ thread[t].pc = "copy" => thread[t].pkt > 0
          /\ thread[t].pc = "pass" => data.head > 0

Inv == TypeInv /\ WindowInv /\ ReaderInv /\ AddressInv /\ BoundsInv

-----------------------------------------------------------------------------
(* Sequences of the receive threads.                                       *)

(* One thread goes on and the others stay where they are.                   *)
LEMMA ThreadMoves ==
    ASSUME thread \in Seq(Locals), NEW t \in DOMAIN thread, NEW x \in Locals,
           thread' = [thread EXCEPT ![t] = x]
    PROVE  /\ thread' \in Seq(Locals) /\ DOMAIN thread' = DOMAIN thread
           /\ \A u \in DOMAIN thread : thread'[u] = IF u = t THEN x ELSE thread[u]
  <1>1. t \in 1..Len(thread) /\ DOMAIN thread = 1..Len(thread)
    OBVIOUS
  <1>2. /\ thread' \in Seq(Locals) /\ Len(thread') = Len(thread)
        /\ \A u \in 1..Len(thread) : thread'[u] = IF u = t THEN x ELSE thread[u]
    BY <1>1, ExceptSeq
  <1> QED BY <1>1, <1>2

(* A new thread is at its first test.                                       *)
LEMMA ThreadStarts ==
    ASSUME thread \in Seq(Locals), Start
    PROVE  /\ thread' \in Seq(Locals) /\ DOMAIN thread' = 1..Len(thread) + 1
           /\ DOMAIN thread = 1..Len(thread) /\ Len(thread) \in Nat
           /\ \A u \in DOMAIN thread : thread'[u] = thread[u]
           /\ thread'[Len(thread) + 1] = Fresh
  <1>1. Fresh \in Locals
    BY DEF Fresh, Locals, Places
  <1>2. thread' = Append(thread, Fresh)
    BY DEF Start
  <1> QED BY <1>1, <1>2, AppendProperties

(* What a thread is after each step it takes.                               *)
LEMMA Steps ==
    ASSUME TypeInv, NEW t \in DOMAIN thread
    PROVE  /\ thread[t] \in Locals
           /\ Fresh \in Locals /\ Ended \in Locals
           /\ \A c \in Nat : [thread[t] EXCEPT !.pc = "read", !.capture = c] \in Locals
           /\ \A p \in Nat : [thread[t] EXCEPT !.pc = "copy", !.pkt = p] \in Locals
           /\ [thread[t] EXCEPT !.pc = "pass"] \in Locals
  <1>1. thread[t] \in Locals
    BY DEF TypeInv
  <1> QED BY <1>1 DEF Locals, Places, Fresh, Ended

(* The captures in use are numbers, and so are the packets they hold.       *)
LEMMA CaptureType ==
    ASSUME TypeInv
    PROVE  /\ Captures \subseteq Nat /\ Len(on) \in Nat /\ DOMAIN on = Captures
           /\ DOMAIN buffer = Captures
           /\ \A c \in Captures : buffer[c] \in Seq(Nat) /\ c \in Nat \ {0}
           /\ Usable(m_AdapterObject) => m_AdapterObject \in Captures
  <1>1. Len(on) \in Nat /\ DOMAIN on = Captures /\ DOMAIN buffer = Captures
    BY DEF TypeInv, Captures
  <1>2. \A c \in Captures : buffer[c] \in Seq(Nat)
    BY <1>1, ElementOfSeq DEF TypeInv, Captures
  <1> QED BY <1>1, <1>2 DEF TypeInv, Captures, Usable

-----------------------------------------------------------------------------
(* Types.                                                                  *)

(* A session starts within the types.                                       *)
LEMMA TypesAtStart == Init => TypeInv
  <1> SUFFICES ASSUME Init PROVE TypeInv
    OBVIOUS
  <1>1. on \in Seq(Adapters) /\ buffer \in Seq(Seq(Nat)) /\ Len(buffer) = Len(on)
    BY DEF Init
  <1>2. /\ thread \in Seq(Locals)
        /\ \A t \in DOMAIN thread : thread[t].pc = "read" => thread[t].capture \in Captures
    BY DEF Init
  <1>3. data \in [head : Nat, tail : Nat] /\ m_AdapterObject = Unset
    BY DEF Init, NoPacket
  <1>4. window \in [ready : BOOLEAN, send : BOOLEAN, dst : BOOLEAN]
    BY DEF Init, DlgState
  <1>5. /\ canRead \in BOOLEAN /\ rushed \in BOOLEAN /\ misread \in BOOLEAN
        /\ choices \in Nat /\ packets \in Nat /\ passed \subseteq Nat
    BY DEF Init
  <1> QED BY <1>1, <1>2, <1>3, <1>4, <1>5 DEF TypeInv

(* Choosing an adapter keeps the types: the new capture is the last one.    *)
LEMMA ChooseTypes ==
    ASSUME TypeInv, NEW a \in Adapters, ChooseAdapter(a)
    PROVE  TypeInv'
  <1>1. OpenCapture(a) /\ RequestAddress(a) /\ UNCHANGED <<thread, window, canRead, passed, packets>>
    BY DEF ChooseAdapter, SetAdapter
  <1>2. choices' \in Nat /\ rushed' \in BOOLEAN /\ misread' \in BOOLEAN
    <2>1. choices' \in Nat
      BY DEF TypeInv, ChooseAdapter
    <2>2. rushed' \in BOOLEAN
      BY DEF ChooseAdapter
    <2>3. misread' \in BOOLEAN
      BY <1>1 DEF RequestAddress
    <2> QED BY <2>1, <2>2, <2>3
  <1>3. CASE on' = Append(on, a) /\ buffer' = Append(buffer, <<>>)
             /\ m_AdapterObject' = Len(on') /\ UNCHANGED data
    <2>1. /\ on' \in Seq(Adapters) /\ Len(on') = Len(on) + 1
          /\ buffer' \in Seq(Seq(Nat)) /\ Len(buffer') = Len(buffer) + 1
      <3>1. on \in Seq(Adapters) /\ buffer \in Seq(Seq(Nat)) /\ <<>> \in Seq(Nat)
        BY DEF TypeInv
      <3>2. on' \in Seq(Adapters) /\ Len(on') = Len(on) + 1
        BY <1>3, <3>1, AppendProperties
      <3>3. buffer' \in Seq(Seq(Nat)) /\ Len(buffer') = Len(buffer) + 1
        BY <1>3, <3>1, AppendProperties
      <3> QED BY <3>2, <3>3
    <2>2. m_AdapterObject' \in Captures' /\ Captures \subseteq Captures'
      BY <1>3, <2>1, CaptureType DEF Captures
    <2> QED BY <1>1, <1>2, <1>3, <2>1, <2>2 DEF TypeInv
  <1>4. CASE m_AdapterObject' = Null /\ data' = [data EXCEPT !.tail = 0]
             /\ UNCHANGED <<on, buffer>>
    <2>1. data' \in [head : Nat, tail : Nat]
      BY <1>4 DEF TypeInv
    <2> QED BY <1>1, <1>2, <1>4, <2>1 DEF TypeInv, Captures
  <1> QED BY <1>1, <1>3, <1>4 DEF OpenCapture

(* The handlers of the window keep the types.                               *)
LEMMA WindowTypes ==
    ASSUME TypeInv,
           \/ \E text \in Texts : TypeDestination(text)
           \/ TurnOn \/ SetAddresses \/ TurnOff \/ SendNowhere
    PROVE  TypeInv'
  <1>1. ASSUME NEW text \in Texts, TypeDestination(text) PROVE TypeInv'
    BY <1>1 DEF TypeInv, TypeDestination, Captures, adapterVars, netVars, readVars
  <1>2. CASE TurnOn
    BY <1>2 DEF TypeInv, TurnOn, flip, Captures, adapterVars, netVars, readVars
  <1>3. CASE SetAddresses
    <2>1. /\ thread' \in Seq(Locals)
          /\ \A t \in DOMAIN thread' : thread'[t].pc = "read" => thread'[t].capture \in Captures
      <3>1. Start /\ thread \in Seq(Locals)
        BY <1>3 DEF SetAddresses, TypeInv
      <3>2. Fresh.pc # "read"
        BY DEF Fresh
      <3>3. thread' \in Seq(Locals)
        BY <3>1, ThreadStarts
      <3>4. ASSUME NEW t \in DOMAIN thread', thread'[t].pc = "read"
            PROVE  thread'[t].capture \in Captures
        <4>1. t # Len(thread) + 1
          BY <3>1, <3>2, <3>4, ThreadStarts
        <4>2. t \in DOMAIN thread /\ thread'[t] = thread[t]
          BY <3>1, <4>1, ThreadStarts
        <4> QED BY <3>4, <4>2 DEF TypeInv
      <3> QED BY <3>3, <3>4
    <2>2. window' \in [ready : BOOLEAN, send : BOOLEAN, dst : BOOLEAN] /\ rushed' \in BOOLEAN
      BY <1>3 DEF SetAddresses, DlgState, TypeInv
    <2> QED BY <1>3, <2>1, <2>2 DEF TypeInv, SetAddresses, Captures, adapterVars, netVars
  <1>4. CASE TurnOff
    BY <1>4 DEF TypeInv, TurnOff, flip, DlgState, Captures, adapterVars, netVars, readVars
  <1>5. CASE SendNowhere
    BY <1>5 DEF TypeInv, SendNowhere, Captures, uiVars, adapterVars, netVars, readVars
  <1> QED BY <1>1, <1>2, <1>3, <1>4, <1>5

(* Where a thread goes to with each step.                                   *)
LEMMA ReceiverMoves ==
    ASSUME TypeInv, NEW t \in DOMAIN thread, Receiver(t)
    PROVE  /\ UNCHANGED <<uiVars, canRead, m_AdapterObject, on, packets, header, choices>>
           /\ \/ thread' = thread
              \/ \E x \in Locals : /\ thread' = [thread EXCEPT ![t] = x]
                                   /\ x.pc = "read" => x.capture \in Captures
                                   /\ x.pc = "ended" => ~canRead
  <1>1. CASE LoopTest(t)
    <2>1. CASE canRead /\ Usable(m_AdapterObject)
               /\ thread' = [thread EXCEPT ![t].pc = "read", ![t].capture = m_AdapterObject]
      <3> DEFINE x == [thread[t] EXCEPT !.pc = "read", !.capture = m_AdapterObject]
      <3>1. m_AdapterObject \in Captures /\ m_AdapterObject \in Nat
        BY <2>1, CaptureType
      <3>2. x \in Locals /\ x.capture = m_AdapterObject /\ x.pc # "ended"
        BY <3>1, Steps DEF Locals
      <3>3. thread' = [thread EXCEPT ![t] = x]
        BY <2>1
      <3> QED BY <1>1, <3>1, <3>2, <3>3 DEF LoopTest, netVars
    <2>2. CASE ~canRead /\ thread' = [thread EXCEPT ![t] = Ended]
      <3>1. Ended \in Locals /\ Ended.pc # "read"
        BY Steps DEF Ended, Fresh
      <3> QED BY <1>1, <2>2, <3>1 DEF LoopTest, netVars
    <2>3. CASE UNCHANGED thread
      BY <1>1, <2>3 DEF LoopTest, netVars
    <2> QED BY <1>1, <2>1, <2>2, <2>3 DEF LoopTest
  <1>2. CASE ReadTimeout(t)
    <2>1. Fresh \in Locals /\ Fresh.pc \notin {"read", "ended"}
      BY Steps DEF Fresh
    <2> QED BY <1>2, <2>1 DEF ReadTimeout, netVars
  <1>3. CASE ReadPacket(t)
    <2> DEFINE c == thread[t].capture
               x == [thread[t] EXCEPT !.pc = "copy", !.pkt = Head(buffer[c])]
    <2>1. c \in Captures /\ buffer[c] # <<>>
      BY <1>3 DEF ReadPacket, At, TypeInv
    <2>2. Head(buffer[c]) \in Nat
      BY <2>1, CaptureType, HeadTailProperties
    <2>3. x \in Locals /\ x.pc \notin {"read", "ended"}
      BY <2>2, Steps DEF Locals
    <2>4. thread' = [thread EXCEPT ![t] = x]
      BY <1>3 DEF ReadPacket
    <2> QED BY <1>3, <2>3, <2>4 DEF ReadPacket
  <1>4. CASE CopyPacket(t)
    <2> DEFINE x == [thread[t] EXCEPT !.pc = "pass"]
    <2>1. x \in Locals /\ x.pc \notin {"read", "ended"}
      BY Steps DEF Locals
    <2>2. thread' = [thread EXCEPT ![t] = x]
      BY <1>4 DEF CopyPacket
    <2> QED BY <1>4, <2>1, <2>2 DEF CopyPacket, netVars
  <1>5. CASE PassUp(t)
    <2>1. Fresh \in Locals /\ Fresh.pc \notin {"read", "ended"}
      BY Steps DEF Fresh
    <2> QED BY <1>5, <2>1 DEF PassUp, netVars
  <1> QED BY <1>1, <1>2, <1>3, <1>4, <1>5 DEF Receiver

(* A packet that is read leaves its capture and no other one.               *)
LEMMA BufferShrinks ==
    ASSUME TypeInv, NEW t \in DOMAIN thread, ReadPacket(t)
    PROVE  LET c == thread[t].capture
           IN  /\ c \in Captures /\ buffer[c] # <<>> /\ buffer[c] \in Seq(Nat)
               /\ buffer' \in Seq(Seq(Nat)) /\ Len(buffer') = Len(buffer)
               /\ \A d \in Captures : buffer'[d] = IF d = c THEN Tail(buffer[c]) ELSE buffer[d]
  <1> DEFINE c == thread[t].capture
  <1>1. c \in Captures /\ buffer[c] # <<>> /\ buffer' = [buffer EXCEPT ![c] = Tail(buffer[c])]
    BY DEF ReadPacket, At, TypeInv
  <1>2. buffer[c] \in Seq(Nat) /\ Tail(buffer[c]) \in Seq(Nat)
    BY <1>1, CaptureType, HeadTailProperties
  <1>3. c \in 1..Len(buffer) /\ Captures = 1..Len(buffer)
    BY <1>1 DEF TypeInv, Captures
  <1> QED BY SMTT(30), <1>1, <1>2, <1>3, ExceptSeq DEF TypeInv

(* The steps of a receive thread keep the types.                            *)
LEMMA ReceiverTypes ==
    ASSUME TypeInv, NEW t \in DOMAIN thread, Receiver(t)
    PROVE  TypeInv'
  <1>1. UNCHANGED <<uiVars, canRead, m_AdapterObject, on, packets, header, choices>>
    BY ReceiverMoves
  <1>2. /\ thread' \in Seq(Locals)
        /\ \A u \in DOMAIN thread' : thread'[u].pc = "read" => thread'[u].capture \in Captures
    <2>1. CASE thread' = thread
      BY <2>1 DEF TypeInv
    <2>2. ASSUME NEW x \in Locals, thread' = [thread EXCEPT ![t] = x],
                 x.pc = "read" => x.capture \in Captures
          PROVE  <1>2
      BY <2>2, ThreadMoves DEF TypeInv
    <2> QED BY <2>1, <2>2, ReceiverMoves
  <1>3. buffer' \in Seq(Seq(Nat)) /\ Len(buffer') = Len(buffer)
    <2>1. CASE ReadPacket(t)
      BY <2>1, BufferShrinks
    <2>2. CASE UNCHANGED buffer
      BY <2>2 DEF TypeInv
    <2> QED BY <2>1, <2>2 DEF Receiver, LoopTest, ReadTimeout, CopyPacket, PassUp, netVars
  <1>4. data' \in [head : Nat, tail : Nat]
    <2>1. CASE CopyPacket(t)
      BY <2>1, Steps DEF CopyPacket, Locals
    <2>2. CASE UNCHANGED data
      BY <2>2 DEF TypeInv
    <2> QED BY <2>1, <2>2 DEF Receiver, LoopTest, ReadTimeout, ReadPacket, PassUp
  <1>5. passed' \subseteq Nat
    <2>1. CASE PassUp(t)
      BY <2>1 DEF PassUp, TypeInv
    <2>2. CASE UNCHANGED passed
      BY <2>2 DEF TypeInv
    <2> QED BY <2>1, <2>2 DEF Receiver, LoopTest, ReadTimeout, ReadPacket, CopyPacket
  <1> QED BY <1>1, <1>2, <1>3, <1>4, <1>5 DEF TypeInv, uiVars, adapterVars, Captures

(* What a packet that comes in does to the captures.                        *)
LEMMA BufferGrows ==
    ASSUME TypeInv, NEW a \in Adapters, Arrive(a)
    PROVE  /\ packets' = packets + 1 /\ packets' \in Nat
           /\ buffer' \in Seq(Seq(Nat)) /\ Len(buffer') = Len(buffer)
           /\ \A c \in Captures :
                buffer'[c] = IF on[c] = a THEN Append(buffer[c], packets + 1) ELSE buffer[c]
  <1>1. packets' = packets + 1 /\ packets' \in Nat
    BY DEF Arrive, TypeInv
  <1>2. /\ buffer' = [c \in 1..Len(on) |->
                        IF on[c] = a THEN Append(buffer[c], packets + 1) ELSE buffer[c]]
        /\ Len(on) \in Nat /\ Captures = 1..Len(on) /\ Len(buffer) = Len(on)
    BY <1>1, CaptureType DEF Arrive, Captures, TypeInv
  <1>3. ASSUME NEW c \in 1..Len(on)
        PROVE  (IF on[c] = a THEN Append(buffer[c], packets + 1) ELSE buffer[c]) \in Seq(Nat)
    <2>1. buffer[c] \in Seq(Nat) /\ packets + 1 \in Nat
      BY <1>1, CaptureType DEF Captures
    <2> QED BY <2>1, AppendProperties
  <1> QED BY <1>1, <1>2, <1>3

(* A packet that comes in keeps the types.                                  *)
LEMMA ArriveTypes ==
    ASSUME TypeInv, NEW a \in Adapters, Arrive(a)
    PROVE  TypeInv'
  <1>1. UNCHANGED <<uiVars, canRead, m_AdapterObject, on, readVars, header, down, choices>>
    BY DEF Arrive
  <1> QED BY <1>1, BufferGrows DEF TypeInv, uiVars, adapterVars, readVars, Captures

(* Every step keeps the types.                                              *)
LEMMA TypesKept == TypeInv /\ [Next]_vars => TypeInv'
  <1> SUFFICES ASSUME TypeInv, [Next]_vars PROVE TypeInv'
    OBVIOUS
  <1>1. CASE Next
    BY <1>1, ChooseTypes, WindowTypes, ReceiverTypes, ArriveTypes DEF Next
  <1>2. CASE UNCHANGED vars
    BY <1>2 DEF vars, TypeInv, Captures
  <1> QED BY <1>1, <1>2

-----------------------------------------------------------------------------
(* The window and the address.                                             *)

(* A session starts with nothing turned on.                                 *)
LEMMA WindowAtStart == Init => WindowInv
  <1> SUFFICES ASSUME Init PROVE WindowInv
    OBVIOUS
  <1>1. /\ ui = "idle" /\ ~canRead /\ source = NoAddr /\ down = "up"
        /\ m_AdapterObject = Unset /\ Unset # Null /\ ~Usable(m_AdapterObject)
    BY DEF Init, Unset, Null, Usable
  <1>2. /\ window.ready = FALSE /\ window.send = FALSE /\ window.dst = TRUE
        /\ canRead = FALSE
    BY DEF Init, DlgState
  <1>3. WindowAgrees
    BY <1>2 DEF WindowAgrees
  <1>4. Len(on) <= choices
    BY DEF Init
  <1> QED BY <1>1, <1>3, <1>4 DEF WindowInv, FilterIsAdapter, ReaderDownNeedsFailedOpen

(* Choosing an adapter while the window is ready is in a hurry.             *)
LEMMA ChooseWindow ==
    ASSUME TypeInv, WindowInv, NEW a \in Adapters, ChooseAdapter(a)
    PROVE  WindowInv'
  <1>1. /\ OpenCapture(a) /\ RequestAddress(a) /\ down = "up" /\ ui = "idle"
        /\ UNCHANGED <<window, ui, canRead, thread, header, down>>
        /\ rushed' = (rushed \/ Alive # {}) /\ choices' = choices + 1
    BY DEF ChooseAdapter, SetAdapter, Waiting
  <1>2. Len(on) \in Nat /\ choices \in Nat /\ on \in Seq(Adapters)
    BY CaptureType DEF TypeInv
  <1>3. /\ m_AdapterObject' # Unset /\ Len(on') <= choices'
        /\ m_AdapterObject' = Null => Len(on') < choices'
        /\ Usable(m_AdapterObject') => on'[m_AdapterObject'] = a
    <2>1. CASE on' = Append(on, a) /\ m_AdapterObject' = Len(on')
      <3>1. Len(on') = Len(on) + 1 /\ on'[Len(on) + 1] = a
        BY <1>2, <2>1, AppendProperties
      <3> QED BY <1>1, <1>2, <2>1, <3>1 DEF WindowInv, Unset, Null
    <2>2. CASE m_AdapterObject' = Null /\ on' = on
      BY <1>1, <1>2, <2>2 DEF WindowInv, Unset, Null, Usable
    <2> QED BY <1>1, <2>1, <2>2 DEF OpenCapture
  <1>4. Usable(m_AdapterObject') /\ ~misread' => source' = on'[m_AdapterObject']
    BY <1>1, <1>3 DEF RequestAddress
  <1>5. FilterIsAdapter'
    <2>1. window'.ready => rushed'
      BY <1>1 DEF WindowInv, WindowAgrees
    <2> QED BY <2>1 DEF FilterIsAdapter
  <1>6. Alive' = Alive
    BY <1>1 DEF Alive
  <1>7. ReaderDownNeedsFailedOpen' /\ WindowAgrees'
    BY <1>1 DEF ReaderDownNeedsFailedOpen, WindowAgrees, WindowInv
  <1> QED BY <1>1, <1>3, <1>4, <1>5, <1>6, <1>7 DEF WindowInv

(* Typing, the address button and the buttons that send.                    *)
LEMMA ButtonsWindow ==
    ASSUME TypeInv, WindowInv,
           \/ \E text \in Texts : TypeDestination(text)
           \/ TurnOn \/ SetAddresses \/ TurnOff \/ SendNowhere
    PROVE  WindowInv'
  <1>1. ASSUME NEW text \in Texts, TypeDestination(text) PROVE WindowInv'
    BY <1>1 DEF TypeDestination, WindowInv, WindowAgrees, FilterIsAdapter,
                ReaderDownNeedsFailedOpen, adapterVars, netVars, readVars, Alive
  <1>2. CASE TurnOn
    <2>1. /\ canRead' /\ ui' = "turning on" /\ ~window'.ready /\ source # NoAddr
          /\ UNCHANGED <<adapterVars, m_AdapterObject, netVars, header, down, choices>>
      BY <1>2 DEF TurnOn, flip, Waiting, AddressesThere, WindowInv, WindowAgrees, TypeInv
    <2> QED BY <2>1 DEF WindowInv, WindowAgrees, FilterIsAdapter, ReaderDownNeedsFailedOpen,
                        adapterVars, netVars
  <1>3. CASE SetAddresses
    <2>1. /\ canRead /\ UNCHANGED <<adapterVars, canRead, m_AdapterObject, netVars, down, choices>>
          /\ window' = DlgState(TRUE) /\ ui' = "idle" /\ header'.src = source /\ Start
          /\ rushed' = (rushed \/ Alive # {})
      BY <1>3 DEF SetAddresses, WindowInv
    <2>2. Alive' # {}
      <3>1. /\ Len(thread) + 1 \in DOMAIN thread'
            /\ thread'[Len(thread) + 1].pc # "ended"
        BY <2>1, ThreadStarts DEF TypeInv, Fresh
      <3> QED BY <3>1 DEF Alive
    <2>3. WindowAgrees'
      BY <2>1 DEF WindowAgrees, DlgState, TypeInv
    <2>4. FilterIsAdapter'
      BY <2>1 DEF FilterIsAdapter, WindowInv, adapterVars, netVars
    <2> QED BY <2>1, <2>2, <2>3, <2>4
            DEF WindowInv, ReaderDownNeedsFailedOpen, adapterVars, netVars
  <1>4. CASE TurnOff
    <2>1. /\ canRead' = FALSE /\ ui' = "idle" /\ window' = DlgState(FALSE)
          /\ UNCHANGED <<adapterVars, m_AdapterObject, netVars, header, down, choices>>
      <3>1. window.ready /\ ui = "idle" /\ canRead' = ~canRead
        BY <1>4 DEF TurnOff, flip, Waiting
      <3>2. canRead = TRUE
        BY <3>1 DEF WindowInv, WindowAgrees, TypeInv
      <3> QED BY <1>4, <3>1, <3>2 DEF TurnOff
    <2>2. window'.ready = FALSE /\ window'.send = FALSE /\ window'.dst = TRUE
      BY <2>1 DEF DlgState
    <2>3. WindowAgrees' /\ FilterIsAdapter'
      BY <2>1, <2>2 DEF WindowAgrees, FilterIsAdapter
    <2> QED BY <2>1, <2>3 DEF WindowInv, ReaderDownNeedsFailedOpen, adapterVars, netVars
  <1>5. CASE SendNowhere
    <2>1. /\ UNCHANGED <<uiVars, canRead, m_AdapterObject, netVars, thread, header, choices>>
          /\ down' # "reading"
      BY <1>5 DEF SendNowhere, readVars
    <2> QED BY <2>1 DEF WindowInv, WindowAgrees, FilterIsAdapter, ReaderDownNeedsFailedOpen,
                        uiVars, adapterVars, netVars, Alive
  <1> QED BY <1>1, <1>2, <1>3, <1>4, <1>5

(* A receive thread finds no capture only after one failed to open, and it  *)
(* does not end while it is to read.                                        *)
LEMMA ReceiverWindow ==
    ASSUME TypeInv, WindowInv, NEW t \in DOMAIN thread, Receiver(t)
    PROVE  WindowInv'
  <1>1. UNCHANGED <<uiVars, canRead, m_AdapterObject, on, packets, header, choices>>
    BY ReceiverMoves
  <1>2. canRead => Alive \subseteq Alive'
    <2>1. CASE thread' = thread
      BY <2>1 DEF Alive
    <2>2. ASSUME NEW x \in Locals, thread' = [thread EXCEPT ![t] = x],
                 x.pc = "ended" => ~canRead
          PROVE  <1>2
      BY <2>2, ThreadMoves DEF TypeInv, Alive
    <2> QED BY <2>1, <2>2, ReceiverMoves
  <1>3. down' = "reading" => Len(on) < choices
    <2>1. CASE LoopTest(t) /\ canRead /\ ~Usable(m_AdapterObject)
      BY <2>1 DEF WindowInv, TypeInv, Usable
    <2>2. CASE UNCHANGED down
      BY <2>2 DEF WindowInv, ReaderDownNeedsFailedOpen
    <2> QED BY <2>1, <2>2 DEF Receiver, LoopTest, ReadTimeout, ReadPacket, CopyPacket, PassUp
  <1> QED BY <1>1, <1>2, <1>3 DEF WindowInv, WindowAgrees, FilterIsAdapter,
                                  ReaderDownNeedsFailedOpen, uiVars, adapterVars

(* Every step keeps what the window and the addresses are about.            *)
LEMMA WindowKept == TypeInv /\ WindowInv /\ [Next]_vars => WindowInv'
  <1> SUFFICES ASSUME TypeInv, WindowInv, [Next]_vars PROVE WindowInv'
    OBVIOUS
  <1>1. ASSUME NEW a \in Adapters, Arrive(a) PROVE WindowInv'
    BY <1>1 DEF Arrive, WindowInv, WindowAgrees, FilterIsAdapter, ReaderDownNeedsFailedOpen,
                uiVars, adapterVars, readVars, Alive
  <1>2. CASE Next
    BY <1>1, <1>2, ChooseWindow, ButtonsWindow, ReceiverWindow DEF Next
  <1>3. CASE UNCHANGED vars
    BY <1>3 DEF vars, WindowInv, WindowAgrees, FilterIsAdapter, ReaderDownNeedsFailedOpen, Alive
  <1> QED BY <1>2, <1>3

-----------------------------------------------------------------------------
(* The receive threads.                                                    *)

(* A session starts without receive threads and without packets.            *)
LEMMA ReadersAtStart == Init => ReaderInv
  <1> SUFFICES ASSUME Init PROVE ReaderInv
    OBVIOUS
  <1>1. thread = <<>> /\ passed = {} /\ m_AdapterObject = Unset
    BY DEF Init
  <1>2. DOMAIN thread = {} /\ Alive = {} /\ ~Usable(m_AdapterObject)
    BY <1>1 DEF Alive, Usable
  <1> QED BY <1>1, <1>2 DEF ReaderInv, OneReader, InTurn, InHand

(* What the threads and the captures do not notice disturbs no thread.      *)
LEMMA ReadersUndisturbed ==
    ASSUME ReaderInv, ~rushed,
           UNCHANGED <<m_AdapterObject, buffer, thread, data, passed, packets>>
    PROVE  ReaderInv'
  BY DEF ReaderInv, OneReader, InTurn, InHand, Waits, Alive

(* Without hurry the adapter is chosen when no thread is alive.             *)
LEMMA ChooseReaders ==
    ASSUME TypeInv, ReaderInv, ~rushed, NEW a \in Adapters, ChooseAdapter(a)
    PROVE  ReaderInv'
  <1> SUFFICES ASSUME ~rushed' PROVE OneReader' /\ InTurn' /\ InHand'
    BY DEF ReaderInv
  <1>1. Alive = {} /\ OpenCapture(a) /\ UNCHANGED <<thread, passed, packets>>
    BY DEF ChooseAdapter, SetAdapter
  <1>2. Alive' = {} /\ \A t \in DOMAIN thread' : thread'[t].pc = "ended"
    BY <1>1 DEF Alive
  <1>3. OneReader' /\ InHand'
    BY <1>2 DEF OneReader, InHand
  <1>4. Usable(m_AdapterObject') => DOMAIN Waits' = {}
    <2>1. CASE m_AdapterObject' = Null
      BY <2>1 DEF Usable
    <2>2. CASE on' = Append(on, a) /\ buffer' = Append(buffer, <<>>) /\ m_AdapterObject' = Len(on')
      <3>1. on \in Seq(Adapters) /\ buffer \in Seq(Seq(Nat)) /\ <<>> \in Seq(Nat)
            /\ Len(buffer) = Len(on)
        BY DEF TypeInv
      <3>2. Len(on') = Len(on) + 1
        BY <2>2, <3>1, AppendProperties
      <3>3. buffer'[Len(buffer) + 1] = <<>>
        BY <2>2, <3>1, AppendProperties
      <3>4. Waits' = <<>>
        BY <2>2, <3>1, <3>2, <3>3 DEF Waits
      <3> QED BY <3>4
    <2> QED BY <1>1, <2>1, <2>2 DEF OpenCapture
  <1>5. InTurn'
    BY <1>1, <1>2, <1>4 DEF InTurn, ReaderInv
  <1> QED BY <1>3, <1>5

(* Without hurry a receive thread is started when no other is alive.        *)
LEMMA StartReaders ==
    ASSUME TypeInv, ReaderInv, ~rushed, SetAddresses
    PROVE  ReaderInv'
  <1> SUFFICES ASSUME ~rushed' PROVE OneReader' /\ InTurn' /\ InHand'
    BY DEF ReaderInv
  <1> DEFINE n == Len(thread) + 1
  <1>1. /\ Alive = {} /\ Start
        /\ UNCHANGED <<m_AdapterObject, buffer, data, passed, packets>>
    BY DEF SetAddresses, netVars
  <1>2. \A t \in DOMAIN thread : thread[t].pc = "ended"
    BY <1>1 DEF Alive
  <1>3. \A t \in DOMAIN thread' : IF t = n THEN thread'[t].pc = "test" ELSE thread'[t].pc = "ended"
    <2>1. thread \in Seq(Locals) /\ Fresh.pc = "test"
      BY DEF TypeInv, Fresh
    <2> SUFFICES ASSUME NEW t \in DOMAIN thread'
                 PROVE  IF t = n THEN thread'[t].pc = "test" ELSE thread'[t].pc = "ended"
      OBVIOUS
    <2>2. CASE t = n
      BY <1>1, <2>1, <2>2, ThreadStarts
    <2>3. CASE t # n
      <3>1. t \in DOMAIN thread /\ thread'[t] = thread[t]
        BY <1>1, <2>1, <2>3, ThreadStarts
      <3> QED BY <1>2, <2>3, <3>1
    <2> QED BY <2>2, <2>3
  <1>4. OneReader' /\ InHand'
    BY <1>3 DEF OneReader, InHand, Alive
  <1>5. InTurn'
    BY <1>1, <1>3 DEF InTurn, ReaderInv, Waits
  <1> QED BY <1>4, <1>5

(* The one thread that is alive goes on, and the others have ended.         *)
LEMMA OneMoves ==
    ASSUME TypeInv, OneReader, NEW t \in Alive, NEW x \in Locals,
           thread' = [thread EXCEPT ![t] = x], UNCHANGED m_AdapterObject,
           x.pc = "read" => x.capture = m_AdapterObject
    PROVE  /\ OneReader' /\ t \in DOMAIN thread' /\ thread'[t] = x
           /\ \A u \in DOMAIN thread' : u # t => thread'[u].pc = "ended"
  <1>1. t \in DOMAIN thread /\ thread[t].pc # "ended" /\ thread \in Seq(Locals)
    BY DEF Alive, TypeInv
  <1>2. /\ DOMAIN thread' = DOMAIN thread
        /\ \A u \in DOMAIN thread : thread'[u] = IF u = t THEN x ELSE thread[u]
    BY <1>1, ThreadMoves
  <1>3. \A u \in DOMAIN thread : u # t => thread[u].pc = "ended"
    BY DEF OneReader, Alive
  <1>4. \A u \in DOMAIN thread' : u # t => thread'[u].pc = "ended"
    BY <1>2, <1>3
  <1>5. OneReader'
    BY <1>1, <1>2, <1>4 DEF OneReader, Alive
  <1> QED BY <1>1, <1>2, <1>4, <1>5

(* The packet that is read is the first that waits, behind those passed.    *)
LEMMA ReadPacketReaders ==
    ASSUME TypeInv, OneReader, InTurn, InHand, NEW t \in DOMAIN thread, ReadPacket(t)
    PROVE  OneReader' /\ InTurn' /\ InHand'
  <1> DEFINE p == Head(Waits)
             x == [thread[t] EXCEPT !.pc = "copy", !.pkt = p]
  <1>1. t \in Alive /\ thread[t].pc = "read"
    BY DEF ReadPacket, At, Alive
  <1>2. thread[t].capture = m_AdapterObject
    BY <1>1 DEF OneReader
  <1>3. /\ m_AdapterObject \in Captures /\ Waits # <<>> /\ Waits \in Seq(Nat)
        /\ buffer'[m_AdapterObject] = Tail(Waits)
        /\ UNCHANGED <<m_AdapterObject, packets, data, passed>>
    BY <1>2, BufferShrinks DEF ReadPacket, Waits, uiVars
  <1>4. Usable(m_AdapterObject) /\ Waits' = Tail(Waits)
    BY <1>3, CaptureType DEF Usable, Unset, Null, Waits
  <1>5. /\ p = Waits[1] /\ p \in Nat /\ 1 \in DOMAIN Waits
        /\ Len(Waits') = Len(Waits) - 1 /\ DOMAIN Waits' = 1..Len(Waits')
        /\ \A i \in DOMAIN Waits' : i + 1 \in DOMAIN Waits /\ Waits'[i] = Waits[i + 1]
    BY <1>3, <1>4, HeadTailProperties
  <1>6. x \in Locals /\ x.pc = "copy" /\ x.pkt = p
    BY <1>5, Steps DEF Locals
  <1>7. thread' = [thread EXCEPT ![t] = x]
    BY <1>2 DEF ReadPacket, Waits
  <1>8. /\ OneReader' /\ thread'[t] = x
        /\ \A u \in DOMAIN thread' : u # t => thread'[u].pc = "ended"
    BY <1>1, <1>3, <1>6, <1>7, OneMoves
  <1>9. InHand'
    BY <1>6, <1>8 DEF InHand
  <1>10. \A i \in DOMAIN Waits' :
            /\ p < Waits'[i] /\ Waits'[i] <= packets
            /\ \A q \in passed : q < Waits'[i]
            /\ \A j \in DOMAIN Waits' : i < j => Waits'[i] < Waits'[j]
    <2> SUFFICES ASSUME NEW i \in DOMAIN Waits'
                 PROVE  /\ p < Waits'[i] /\ Waits'[i] <= packets
                        /\ \A q \in passed : q < Waits'[i]
                        /\ \A j \in DOMAIN Waits' : i < j => Waits'[i] < Waits'[j]
      OBVIOUS
    <2>1. i \in Nat \ {0} /\ i + 1 \in DOMAIN Waits /\ Waits'[i] = Waits[i + 1] /\ 1 < i + 1
      BY <1>3, <1>5
    <2>2. p < Waits'[i]
      BY <1>4, <1>5, <2>1 DEF InTurn
    <2>3. Waits'[i] <= packets /\ \A q \in passed : q < Waits'[i]
      BY <1>4, <2>1 DEF InTurn
    <2>4. ASSUME NEW j \in DOMAIN Waits', i < j PROVE Waits'[i] < Waits'[j]
      <3>1. j + 1 \in DOMAIN Waits /\ Waits'[j] = Waits[j + 1] /\ i + 1 < j + 1
        BY <1>5, <2>1, <2>4
      <3> QED BY <1>4, <2>1, <3>1 DEF InTurn
    <2> QED BY <2>2, <2>3, <2>4
  <1>11. p <= packets /\ \A q \in passed : q < p
    BY <1>4, <1>5 DEF InTurn
  <1>12. InTurn'
    BY <1>3, <1>6, <1>8, <1>10, <1>11 DEF InTurn
  <1> QED BY <1>8, <1>9, <1>12

(* Of the other steps of the one thread only CopyPacket and PassUp do more  *)
(* than go on.                                                              *)
LEMMA ReceiverReaders ==
    ASSUME TypeInv, ReaderInv, ~rushed, NEW t \in DOMAIN thread, Receiver(t)
    PROVE  ReaderInv'
  <1> SUFFICES OneReader' /\ InTurn' /\ InHand'
    BY DEF ReaderInv
  <1>1. OneReader /\ InTurn /\ InHand
    BY DEF ReaderInv
  <1>2. UNCHANGED <<m_AdapterObject, packets>>
    BY ReceiverMoves
  <1>3. t \in Alive
    BY DEF Receiver, LoopTest, ReadTimeout, ReadPacket, CopyPacket, PassUp, At, Alive
  <1>4. ASSUME NEW x \in Locals, thread' = [thread EXCEPT ![t] = x],
               x.pc \notin {"copy", "pass"}, x.pc = "read" => x.capture = m_AdapterObject,
               UNCHANGED <<buffer, data, passed>>
        PROVE  OneReader' /\ InTurn' /\ InHand'
    <2>1. OneReader' /\ \A u \in DOMAIN thread' : thread'[u].pc \notin {"copy", "pass"}
      BY <1>1, <1>2, <1>3, <1>4, OneMoves
    <2>2. InHand'
      BY <2>1 DEF InHand
    <2>3. InTurn'
      BY <1>1, <1>2, <1>4, <2>1 DEF InTurn, Waits
    <2> QED BY <2>1, <2>2, <2>3
  <1>5. CASE LoopTest(t)
    <2>1. UNCHANGED <<buffer, data, passed>>
      BY <1>5 DEF LoopTest, netVars
    <2>2. CASE Usable(m_AdapterObject)
               /\ thread' = [thread EXCEPT ![t].pc = "read", ![t].capture = m_AdapterObject]
      <3> DEFINE x == [thread[t] EXCEPT !.pc = "read", !.capture = m_AdapterObject]
      <3>1. m_AdapterObject \in Nat
        BY <2>2, CaptureType
      <3>2. x \in Locals /\ x.pc = "read" /\ x.capture = m_AdapterObject
        BY <3>1, Steps DEF Locals
      <3>3. thread' = [thread EXCEPT ![t] = x]
        BY <2>2
      <3> QED BY <1>4, <2>1, <3>2, <3>3
    <2>3. CASE thread' = [thread EXCEPT ![t] = Ended]
      <3>1. Ended \in Locals /\ Ended.pc = "ended"
        BY Steps DEF Ended, Fresh
      <3> QED BY <1>4, <2>1, <2>3, <3>1
    <2>4. CASE UNCHANGED thread
      BY <1>1, <1>2, <2>1, <2>4 DEF OneReader, InTurn, InHand, Waits, Alive
    <2> QED BY <1>5, <2>2, <2>3, <2>4 DEF LoopTest
  <1>6. CASE ReadTimeout(t)
    <2>1. Fresh \in Locals /\ Fresh.pc = "test"
      BY Steps DEF Fresh
    <2>2. thread' = [thread EXCEPT ![t] = Fresh] /\ UNCHANGED <<buffer, data, passed>>
      BY <1>6 DEF ReadTimeout, netVars
    <2> QED BY <1>4, <2>1, <2>2
  <1>7. CASE ReadPacket(t)
    BY <1>1, <1>7, ReadPacketReaders
  <1>8. CASE CopyPacket(t)
    <2> DEFINE x == [thread[t] EXCEPT !.pc = "pass"]
    <2>1. /\ thread[t].pc = "copy" /\ thread' = [thread EXCEPT ![t] = x]
          /\ data' = [head |-> thread[t].pkt, tail |-> thread[t].pkt]
          /\ UNCHANGED <<buffer, passed>>
      BY <1>8 DEF CopyPacket, At, netVars
    <2>2. x \in Locals /\ x.pc = "pass" /\ x.pkt = thread[t].pkt
      BY Steps DEF Locals
    <2>3. /\ OneReader' /\ thread'[t] = x
          /\ \A u \in DOMAIN thread' : u # t => thread'[u].pc = "ended"
      BY <1>1, <1>2, <1>3, <2>1, <2>2, OneMoves
    <2>4. InHand'
      BY <2>1, <2>2, <2>3 DEF InHand
    <2>5. InTurn'
      BY <1>1, <1>2, <2>1, <2>2, <2>3 DEF InTurn, Waits
    <2> QED BY <2>3, <2>4, <2>5
  <1>9. CASE PassUp(t)
    <2>1. /\ thread[t].pc = "pass" /\ thread' = [thread EXCEPT ![t] = Fresh]
          /\ passed' = passed \cup {data.head} /\ UNCHANGED <<buffer, data>>
      BY <1>9 DEF PassUp, At, netVars
    <2>2. Fresh \in Locals /\ Fresh.pc = "test"
      BY Steps DEF Fresh
    <2>3. /\ OneReader' /\ \A u \in DOMAIN thread' : thread'[u].pc \notin {"copy", "pass"}
      BY <1>1, <1>2, <1>3, <2>1, <2>2, OneMoves
    <2>4. data.head = thread[t].pkt
      BY <1>1, <2>1 DEF InHand
    <2>5. /\ data.head <= packets
          /\ Usable(m_AdapterObject) => \A i \in DOMAIN Waits : data.head < Waits[i]
      BY <1>1, <2>1, <2>4 DEF InTurn
    <2>6. InTurn'
      BY <1>1, <1>2, <2>1, <2>3, <2>5 DEF InTurn, Waits
    <2>7. InHand'
      BY <2>3 DEF InHand
    <2> QED BY <2>3, <2>6, <2>7
  <1> QED BY <1>5, <1>6, <1>7, <1>8, <1>9 DEF Receiver

(* A packet that comes in is the last of those that wait.                   *)
LEMMA ArriveReaders ==
    ASSUME TypeInv, ReaderInv, ~rushed, NEW a \in Adapters, Arrive(a)
    PROVE  ReaderInv'
  <1> SUFFICES OneReader' /\ InTurn' /\ InHand'
    BY DEF ReaderInv
  <1>1. OneReader /\ InTurn /\ InHand
    BY DEF ReaderInv
  <1>2. UNCHANGED <<m_AdapterObject, thread, data, passed>>
    BY DEF Arrive, readVars
  <1>3. /\ packets' = packets + 1 /\ packets \in Nat /\ passed \subseteq Nat
        /\ \A t \in DOMAIN thread : thread[t].pkt \in Nat
    BY BufferGrows, Steps DEF TypeInv, Locals
  <1>4. ASSUME Usable(m_AdapterObject)
        PROVE  /\ Waits \in Seq(Nat)
               /\ Waits' = Waits \/ Waits' = Append(Waits, packets + 1)
    BY <1>2, <1>4, CaptureType, BufferGrows DEF Waits
  <1>5. ASSUME Usable(m_AdapterObject), NEW i \in DOMAIN Waits'
        PROVE  \/ i \in DOMAIN Waits /\ Waits'[i] = Waits[i]
               \/ Waits'[i] = packets + 1 /\ \A j \in DOMAIN Waits' : j <= i
    <2>1. CASE Waits' = Waits
      BY <2>1
    <2>2. CASE Waits' = Append(Waits, packets + 1)
      BY <1>3, <1>4, <1>5, <2>2, AppendProperties
    <2> QED BY <1>4, <1>5, <2>1, <2>2
  <1>6. ASSUME Usable(m_AdapterObject), NEW i \in DOMAIN Waits'
        PROVE  /\ Waits'[i] <= packets' /\ \A p \in passed : p < Waits'[i]
               /\ \A t \in DOMAIN thread :
                    thread[t].pc \in {"copy", "pass"} => thread[t].pkt < Waits'[i]
    <2>1. CASE i \in DOMAIN Waits /\ Waits'[i] = Waits[i]
      <3>1. Waits[i] \in Nat
        BY <1>4, <1>6, <2>1, ElementOfSeq
      <3> QED BY <1>1, <1>3, <1>6, <2>1, <3>1 DEF InTurn
    <2>2. CASE Waits'[i] = packets + 1
      BY <1>1, <1>3, <1>6, <2>2 DEF InTurn
    <2> QED BY <1>5, <1>6, <2>1, <2>2
  <1>7. ASSUME Usable(m_AdapterObject), NEW i \in DOMAIN Waits', NEW j \in DOMAIN Waits', i < j
        PROVE  Waits'[i] < Waits'[j]
    <2>1. DOMAIN Waits' \subseteq Nat /\ i \in Nat /\ j \in Nat
      BY <1>3, <1>4, <1>7, AppendProperties
    <2>2. i \in DOMAIN Waits /\ Waits'[i] = Waits[i] /\ Waits[i] \in Nat
      BY <1>4, <1>5, <1>7, <2>1, ElementOfSeq
    <2>3. CASE j \in DOMAIN Waits /\ Waits'[j] = Waits[j]
      BY <1>1, <1>7, <2>2, <2>3 DEF InTurn
    <2>4. CASE Waits'[j] = packets + 1
      BY <1>1, <1>3, <1>7, <2>2, <2>4 DEF InTurn
    <2> QED BY <1>5, <1>7, <2>3, <2>4
  <1>8. InTurn'
    BY <1>1, <1>2, <1>3, <1>6, <1>7 DEF InTurn
  <1>9. OneReader' /\ InHand'
    BY <1>1, <1>2 DEF OneReader, InHand, Alive
  <1> QED BY <1>8, <1>9

(* Every step keeps what the receive threads are about: a hurry is never    *)
(* forgotten, and without one each step does.                               *)
LEMMA ReadersKept == TypeInv /\ ReaderInv /\ [Next]_vars => ReaderInv'
  <1> SUFFICES ASSUME TypeInv, ReaderInv, [Next]_vars, ~rushed' PROVE ReaderInv'
    BY DEF ReaderInv
  <1>1. CASE Next
    <2>1. ASSUME NEW a \in Adapters, ChooseAdapter(a) PROVE ReaderInv'
      <3>1. ~rushed
        BY <2>1 DEF ChooseAdapter
      <3> QED BY <2>1, <3>1, ChooseReaders
    <2>2. ASSUME NEW a \in Adapters, Arrive(a) PROVE ReaderInv'
      <3>1. ~rushed
        BY <2>2 DEF Arrive, uiVars
      <3> QED BY <2>2, <3>1, ArriveReaders
    <2>3. CASE (\E text \in Texts : TypeDestination(text)) \/ TurnOn \/ TurnOff \/ SendNowhere
      <3>1. ~rushed /\ UNCHANGED <<m_AdapterObject, buffer, thread, data, passed, packets>>
        <4>1. ASSUME NEW text \in Texts, TypeDestination(text) PROVE <3>1
          BY <4>1 DEF TypeDestination, netVars, readVars
        <4>2. CASE TurnOn
          BY <4>2 DEF TurnOn, netVars, readVars
        <4>3. CASE TurnOff
          BY <4>3 DEF TurnOff, netVars, readVars
        <4>4. CASE SendNowhere
          BY <4>4 DEF SendNowhere, uiVars, netVars, readVars
        <4> QED BY <2>3, <4>1, <4>2, <4>3, <4>4
      <3> QED BY <3>1, ReadersUndisturbed
    <2>4. CASE SetAddresses
      <3>1. ~rushed
        BY <2>4 DEF SetAddresses
      <3> QED BY <2>4, <3>1, StartReaders
    <2>5. ASSUME NEW t \in DOMAIN thread, Receiver(t) PROVE ReaderInv'
      <3>1. ~rushed
        BY <2>5, ReceiverMoves DEF uiVars
      <3> QED BY <2>5, <3>1, ReceiverReaders
    <2> QED BY <1>1, <2>1, <2>2, <2>3, <2>4, <2>5 DEF Next
  <1>2. CASE UNCHANGED vars
    BY <1>2, ReadersUndisturbed DEF vars
  <1> QED BY <1>1, <1>2

-----------------------------------------------------------------------------
(* The address.                                                            *)

(* The numbers, three zeros behind the last and what there was. *)
Typed(numbers, bytes) ==
    LET n == Len(numbers)
    IN  [k \in 1..Reach |->
            IF k <= n THEN numbers[k] ELSE IF n > 0 /\ k <= n + 3 THEN 0 ELSE bytes[k]]

(* Storing the numbers one after the other leaves them, three zeros behind  *)
(* the last and what there was: what an earlier store cleared the next one  *)
(* fills again.  A text has so few numbers that each store is a step here.  *)
LEMMA StoucIsTyped ==
    ASSUME NEW A, NEW B, NEW numbers \in Seq(A), Len(numbers) <= AddrLen,
           NEW bytes \in [1..Reach -> B]
    PROVE  Stouc(numbers, bytes) = Typed(numbers, bytes)
  <1> DEFINE n == Len(numbers)
             after(i) == [k \in 1..Reach |->
                            IF k <= i THEN numbers[k]
                            ELSE IF i > 0 /\ k <= i + 3 THEN 0 ELSE bytes[k]]
             next(f) == [i \in 0..n |-> IF i = 0 THEN bytes ELSE Store(f[i - 1], i, numbers[i])]
             stored == CHOOSE f : f = next(f)
             g == [i \in 0..n |-> after(i)]
  <1>1. n \in 0..6 /\ AddrLen = 6 /\ Reach = 9
    <2>1. AddrLen = 6 /\ Reach = 9
      BY DEF AddrLen, Reach
    <2>2. n \in Nat /\ n <= 6
      BY <2>1
    <2> HIDE DEF n
    <2>3. n \in 0..6
      BY <2>2
    <2> QED BY <2>1, <2>3
  <1>2. ASSUME NEW i \in 1..n PROVE Store(after(i - 1), i, numbers[i]) = after(i)
    BY <1>1, <1>2 DEF Store
  <1>3. after(0) = bytes
    BY <1>1
  <1>4. g = next(g)
    <2>1. \A i \in 0..n : g[i] = after(i)
      OBVIOUS
    <2>2. ASSUME NEW i \in 0..n
          PROVE  after(i) = IF i = 0 THEN bytes ELSE Store(g[i - 1], i, numbers[i])
      <3>1. CASE i = 0
        BY <3>1, <1>3
      <3>2. CASE i # 0
        <4> HIDE DEF after, g
        <4>1. i \in 1..n /\ i - 1 \in 0..n
          BY <1>1, <3>2
        <4> QED BY <4>1, <3>2, <2>1, <1>2
      <3> QED BY <3>1, <3>2
    <2> HIDE DEF after
    <2> QED BY <2>2
  <1> HIDE DEF g, next, after
  <1>5. stored = next(stored)
    BY <1>4
  <1>6. stored[0] = after(0)
    <2>1. 0 \in 0..n
      BY <1>1
    <2>2. next(stored)[0] = bytes
      BY <2>1 DEF next
    <2> QED BY <2>2, <1>3, <1>5
  <1>7. ASSUME NEW i \in 1..n, stored[i - 1] = after(i - 1) PROVE stored[i] = after(i)
    <2>1. i \in 0..n /\ i # 0
      BY <1>1
    <2>2. stored[i] = Store(stored[i - 1], i, numbers[i])
      BY <1>5, <2>1 DEF next
    <2> QED BY <2>2, <1>2, <1>7
  <1> HIDE DEF stored
  <1>8. \A i \in 1..6 : i <= n /\ stored[i - 1] = after(i - 1) => stored[i] = after(i)
    BY <1>1, <1>7
  <1>9. \A i \in 0..6 : i <= n => stored[i] = after(i)
    <2>1. n >= 1 => stored[1] = after(1)
      BY <1>1, <1>6, <1>8
    <2>2. n >= 2 => stored[2] = after(2)
      BY <1>1, <2>1, <1>8
    <2>3. n >= 3 => stored[3] = after(3)
      BY <1>1, <2>2, <1>8
    <2>4. n >= 4 => stored[4] = after(4)
      BY <1>1, <2>3, <1>8
    <2>5. n >= 5 => stored[5] = after(5)
      BY <1>1, <2>4, <1>8
    <2>6. n >= 6 => stored[6] = after(6)
      BY <1>1, <2>5, <1>8
    <2> QED BY <1>1, <1>6, <2>1, <2>2, <2>3, <2>4, <2>5, <2>6
  <1>10. stored[n] = after(n)
    BY <1>1, <1>9
  <1>11. Stouc(numbers, bytes) = stored[n]
    BY DEF Stouc, stored, next
  <1>12. Typed(numbers, bytes) = after(n)
    BY <1>1 DEF Typed, after
  <1> QED BY <1>10, <1>11, <1>12

(* A text has at most six numbers, and they are bytes of addresses.         *)
LEMMA ShownNumbers ==
    ASSUME AddressInv
    PROVE  /\ shown.numbers \in Seq(AddressBytes) /\ Len(shown.numbers) <= AddrLen
           /\ Len(shown.numbers) \in Nat
  <1>1. CASE shown = Empty
    BY <1>1 DEF Empty, AddrLen
  <1>2. CASE shown \in Texts
    <2>1. shown.numbers \in Seq(0..255) /\ Len(shown.numbers) <= AddrLen
      BY <1>2, SessionAssumption
    <2>2. Range(shown.numbers) \subseteq AddressBytes
      BY <1>2 DEF AddressBytes
    <2>3. \A i \in 1..Len(shown.numbers) : shown.numbers[i] \in AddressBytes
      BY <2>1, <2>2 DEF Range
    <2> QED BY <2>1, <2>3
  <1> QED BY <1>1, <1>2 DEF AddressInv

(* What the address button makes of the destination.                        *)
LEMMA DestinationSet ==
    ASSUME AddressInv, SetAddresses
    PROVE  /\ m_ucDstAddr' = Typed(shown.numbers, m_ucDstAddr)
           /\ m_ucDstAddr' \in [1..Reach -> AddressBytes]
           /\ header'.dst \in [1..AddrLen -> AddressBytes]
           /\ Len(shown.numbers) = AddrLen => header'.dst = shown.numbers
  <1> DEFINE numbers == shown.numbers
             n == Len(numbers)
  <1>1. numbers \in Seq(AddressBytes) /\ n <= AddrLen /\ n \in Nat
    BY ShownNumbers
  <1>2. m_ucDstAddr \in [1..Reach -> AddressBytes] /\ 0 \in AddressBytes
    BY DEF AddressInv, AddressBytes
  <1>3. m_ucDstAddr' = Typed(numbers, m_ucDstAddr)
    BY <1>1, <1>2, StoucIsTyped DEF SetAddresses
  <1>4. \A k \in 1..n : numbers[k] \in AddressBytes
    BY <1>1
  <1> HIDE DEF n, numbers
  <1>5. m_ucDstAddr' = [k \in 1..Reach |->
            IF k <= n THEN numbers[k] ELSE IF n > 0 /\ k <= n + 3 THEN 0 ELSE m_ucDstAddr[k]]
    BY <1>3 DEF Typed, n
  <1>6. ASSUME NEW k \in 1..Reach
        PROVE  /\ m_ucDstAddr'[k] \in AddressBytes
               /\ k <= n => m_ucDstAddr'[k] = numbers[k]
    <2>1. k <= n => k \in 1..n
      BY <1>1
    <2> QED BY <1>2, <1>4, <1>5, <2>1
  <1>7. m_ucDstAddr' \in [1..Reach -> AddressBytes]
    BY <1>5, <1>6
  <1>8. header'.dst = SubSeq(m_ucDstAddr', 1, AddrLen)
    BY DEF SetAddresses
  <1>9. /\ header'.dst \in Seq(AddressBytes) /\ Len(header'.dst) = AddrLen
        /\ \A k \in 1..AddrLen : header'.dst[k] = m_ucDstAddr'[k]
    <2>1. AddrLen = 6 /\ Reach = 9
      BY DEF AddrLen, Reach
    <2>2. PICK d : d = m_ucDstAddr'
      OBVIOUS
    <2>3. \A k \in 1..6 : d[k] \in AddressBytes
      BY <1>6, <2>1, <2>2
    <2>4. /\ SubSeq(d, 1, 6) \in Seq(AddressBytes) /\ Len(SubSeq(d, 1, 6)) = 6
          /\ \A k \in 1..6 : SubSeq(d, 1, 6)[k] = d[1 + k - 1]
      BY ONLY <2>3, SubSeqProperties
    <2> QED BY <1>8, <2>1, <2>2, <2>4
  <1>10. header'.dst \in [1..AddrLen -> AddressBytes]
    BY <1>9, LenProperties
  <1>11. ASSUME n = AddrLen PROVE header'.dst = numbers
    <2>1. \A k \in 1..AddrLen : header'.dst[k] = numbers[k]
      BY SMTT(30), <1>6, <1>9, <1>11 DEF AddrLen, Reach
    <2>2. PICK d \in Seq(AddressBytes) : d = header'.dst
      BY <1>9
    <2>3. d = numbers
      BY <1>1, <1>9, <1>11, <2>1, <2>2, SeqEqual DEF n
    <2> QED BY <2>2, <2>3
  <1> QED BY <1>3, <1>7, <1>10, <1>11 DEF n, numbers

(* A session starts without addresses.                                      *)
LEMMA AddressAtStart == Init => AddressInv
  <1> SUFFICES ASSUME Init PROVE AddressInv
    OBVIOUS
  <1>1. {0, Garbage} \subseteq AddressBytes
    BY DEF AddressBytes
  <1>2. window.ready = FALSE /\ window.send = FALSE /\ window.dst = TRUE
    BY DEF Init, DlgState
  <1>3. /\ m_ucDstAddr \in [1..Reach -> AddressBytes]
        /\ header.src = NoAddr /\ header.dst \in [1..AddrLen -> AddressBytes]
    BY <1>1 DEF Init
  <1> QED BY <1>2, <1>3 DEF Init, AddressInv

(* What every step does to the addresses.                                   *)
LEMMA AddressKept == AddressInv /\ [Next]_vars => AddressInv'
  <1> SUFFICES ASSUME AddressInv, [Next]_vars PROVE AddressInv'
    OBVIOUS
  <1>1. ASSUME NEW a \in Adapters, ChooseAdapter(a) PROVE AddressInv'
    BY <1>1 DEF ChooseAdapter, SetAdapter, RequestAddress, AddressInv
  <1>2. ASSUME NEW a \in Adapters, Arrive(a) PROVE AddressInv'
    BY <1>2 DEF Arrive, uiVars, adapterVars, AddressInv
  <1>3. ASSUME NEW text \in Texts, TypeDestination(text) PROVE AddressInv'
    BY <1>3 DEF TypeDestination, adapterVars, AddressInv
  <1>4. CASE TurnOn
    BY <1>4 DEF TurnOn, adapterVars, AddressInv
  <1>5. CASE SetAddresses
    <2>1. /\ header'.src = source /\ window' = DlgState(TRUE)
          /\ UNCHANGED <<adapterVars, shown, down>>
      BY <1>5 DEF SetAddresses
    <2>2. window'.send = window'.ready /\ window'.dst = ~window'.ready
      BY <2>1 DEF DlgState
    <2> QED BY <1>5, <2>1, <2>2, DestinationSet DEF AddressInv, adapterVars
  <1>6. CASE TurnOff
    <2>1. /\ window' = DlgState(FALSE)
          /\ UNCHANGED <<adapterVars, shown, m_ucDstAddr, header, down>>
      BY <1>6 DEF TurnOff
    <2>2. window'.ready = FALSE /\ window'.send = FALSE /\ window'.dst = TRUE
      BY <2>1 DEF DlgState
    <2> QED BY <2>1, <2>2 DEF AddressInv, adapterVars
  <1>7. CASE SendNowhere
    BY <1>7 DEF SendNowhere, uiVars, adapterVars, AddressInv
  <1>8. ASSUME NEW t \in DOMAIN thread, Receiver(t) PROVE AddressInv'
    <2>1. UNCHANGED <<uiVars, header>> /\ (UNCHANGED down \/ down' = "reading")
      BY <1>8 DEF Receiver, LoopTest, ReadTimeout, ReadPacket, CopyPacket, PassUp
    <2> QED BY <2>1 DEF uiVars, adapterVars, AddressInv
  <1>9. CASE UNCHANGED vars
    BY <1>9 DEF vars, AddressInv
  <1> QED BY <1>1, <1>2, <1>3, <1>4, <1>5, <1>6, <1>7, <1>8, <1>9 DEF Next

-----------------------------------------------------------------------------
(* The packets.                                                            *)

(* A session starts without packets.                                        *)
LEMMA BoundsAtStart == Init => BoundsInv
  <1> SUFFICES ASSUME Init PROVE BoundsInv
    OBVIOUS
  <1>1. on = <<>> /\ thread = <<>> /\ data = NoPacket /\ packets = 0 /\ choices = 0 /\ passed = {}
    BY DEF Init
  <1>2. Captures = {} /\ DOMAIN thread = {}
    BY <1>1 DEF Captures
  <1> QED BY <1>1, <1>2, SessionAssumption DEF BoundsInv, NoPacket

(* A new capture is empty.                                                  *)
LEMMA ChooseBounds ==
    ASSUME TypeInv, BoundsInv, NEW a \in Adapters, ChooseAdapter(a)
    PROVE  BoundsInv'
  <1>1. /\ OpenCapture(a) /\ choices' = choices + 1 /\ choices < MaxChoices
        /\ UNCHANGED <<thread, passed, packets>>
    BY DEF ChooseAdapter, SetAdapter
  <1>2. choices' <= MaxChoices
    BY <1>1, SessionAssumption DEF TypeInv
  <1>3. CASE on' = Append(on, a) /\ buffer' = Append(buffer, <<>>) /\ UNCHANGED data
    <2>1. /\ on \in Seq(Adapters) /\ buffer \in Seq(Seq(Nat)) /\ <<>> \in Seq(Nat)
          /\ Len(buffer) = Len(on) /\ Len(on) \in Nat
      BY DEF TypeInv
    <2>2. Len(on') = Len(on) + 1
      BY <1>3, <2>1, AppendProperties
    <2>3. ASSUME NEW c \in Captures' PROVE \A i \in DOMAIN buffer'[c] : buffer'[c][i] \in 1..packets
      <3>1. CASE c = Len(buffer) + 1
        <4>1. buffer'[c] = <<>>
          BY <1>3, <2>1, <3>1, AppendProperties
        <4> QED BY <4>1
      <3>2. CASE c # Len(buffer) + 1
        <4>1. c \in 1..Len(buffer) /\ c \in Captures
          BY <2>1, <2>2, <2>3, <3>2 DEF Captures
        <4>2. buffer'[c] = buffer[c]
          BY <1>3, <2>1, <4>1, AppendProperties
        <4> QED BY <4>1, <4>2 DEF BoundsInv
      <3> QED BY <3>1, <3>2
    <2>4. \A t \in DOMAIN thread : thread[t].capture <= Len(on')
      <3>1. \A t \in DOMAIN thread : thread[t].capture \in Nat
        BY Steps DEF Locals
      <3> QED BY <2>1, <2>2, <3>1 DEF BoundsInv
    <2> QED BY <1>1, <1>2, <1>3, <2>3, <2>4 DEF BoundsInv
  <1>4. CASE data' = [data EXCEPT !.tail = 0] /\ UNCHANGED <<on, buffer>>
    <2>1. data'.head = data.head /\ data'.tail = 0 /\ 0 <= packets
      BY <1>4 DEF TypeInv
    <2> QED BY <1>1, <1>2, <1>4, <2>1 DEF BoundsInv, Captures
  <1> QED BY <1>1, <1>3, <1>4 DEF OpenCapture

(* A new receive thread has no packet yet, and the other handlers touch     *)
(* none.                                                                    *)
LEMMA ButtonsBounds ==
    ASSUME TypeInv, BoundsInv,
           \/ \E text \in Texts : TypeDestination(text)
           \/ TurnOn \/ SetAddresses \/ TurnOff \/ SendNowhere
    PROVE  BoundsInv'
  <1>1. UNCHANGED <<buffer, on, packets, data, passed, choices>>
    BY DEF TypeDestination, TurnOn, SetAddresses, TurnOff, SendNowhere, netVars, readVars
  <1>2. CASE UNCHANGED thread
    BY <1>1, <1>2 DEF BoundsInv, Captures
  <1>3. CASE Start
    <2>1. /\ DOMAIN thread' = 1..Len(thread) + 1 /\ DOMAIN thread = 1..Len(thread)
          /\ Len(thread) \in Nat /\ thread'[Len(thread) + 1] = Fresh
          /\ \A u \in DOMAIN thread : thread'[u] = thread[u]
      BY <1>3, ThreadStarts DEF TypeInv
    <2>2. \A u \in DOMAIN thread' : \/ u \in DOMAIN thread /\ thread'[u] = thread[u]
                                    \/ thread'[u] = Fresh
      BY <2>1
    <2>3. Fresh.capture <= Len(on) /\ Fresh.pkt <= packets /\ Fresh.pc = "test"
      BY DEF Fresh, TypeInv
    <2>4. ASSUME NEW u \in DOMAIN thread'
          PROVE  /\ thread'[u].capture <= Len(on) /\ thread'[u].pkt <= packets
                 /\ thread'[u].pc = "copy" => thread'[u].pkt > 0
                 /\ thread'[u].pc = "pass" => data.head > 0
      BY <2>2, <2>3 DEF BoundsInv
    <2> QED BY <1>1, <2>4 DEF BoundsInv, Captures
  <1> QED BY <1>2, <1>3 DEF TypeDestination, TurnOn, SetAddresses, TurnOff, SendNowhere, readVars

(* A thread takes its packet from a capture, data from a thread, and the    *)
(* layers above from data.                                                  *)
LEMMA ReceiverBounds ==
    ASSUME TypeInv, BoundsInv, NEW t \in DOMAIN thread, Receiver(t)
    PROVE  BoundsInv'
  <1>1. UNCHANGED <<on, packets, choices>> /\ Len(on) \in Nat /\ packets \in Nat
    BY ReceiverMoves, CaptureType DEF TypeInv
  <1>2. /\ thread[t] \in Locals /\ thread[t].capture <= Len(on) /\ thread[t].pkt <= packets
        /\ thread[t].pc = "copy" => thread[t].pkt > 0
        /\ thread[t].pc = "pass" => data.head > 0
    BY Steps DEF BoundsInv
  <1>3. ASSUME NEW x \in Locals, thread' = [thread EXCEPT ![t] = x],
               x.capture <= Len(on), x.pkt <= packets, x.pc = "copy" => x.pkt > 0,
               x.pc = "pass" => data'.head > 0,
               data' = data \/ data'.head > 0,
               data'.head <= packets, data'.tail <= packets,
               passed' \subseteq 1..packets,
               \A c \in Captures : \A i \in DOMAIN buffer'[c] : buffer'[c][i] \in 1..packets
        PROVE  BoundsInv'
    <2>1. /\ DOMAIN thread' = DOMAIN thread
          /\ \A u \in DOMAIN thread : thread'[u] = IF u = t THEN x ELSE thread[u]
      BY <1>3, ThreadMoves DEF TypeInv
    <2>2. ASSUME NEW u \in DOMAIN thread'
          PROVE  /\ thread'[u].capture <= Len(on) /\ thread'[u].pkt <= packets
                 /\ thread'[u].pc = "copy" => thread'[u].pkt > 0
                 /\ thread'[u].pc = "pass" => data'.head > 0
      BY <1>3, <2>1 DEF BoundsInv
    <2> QED BY <1>1, <1>3, <2>2 DEF BoundsInv, Captures
  <1>4. /\ passed \subseteq 1..packets /\ data.head <= packets /\ data.tail <= packets
        /\ \A c \in Captures : \A i \in DOMAIN buffer[c] : buffer[c][i] \in 1..packets
    BY DEF BoundsInv
  <1>5. /\ Fresh \in Locals /\ Fresh.capture <= Len(on) /\ Fresh.pkt <= packets /\ Fresh.pc = "test"
        /\ Ended \in Locals /\ Ended.capture <= Len(on) /\ Ended.pkt <= packets /\ Ended.pc = "ended"
    <2>1. Fresh \in Locals /\ Ended \in Locals
      BY Steps
    <2>2. /\ Fresh.capture = 0 /\ Fresh.pkt = 0 /\ Fresh.pc = "test"
          /\ Ended.capture = 0 /\ Ended.pkt = 0 /\ Ended.pc = "ended"
      BY DEF Fresh, Ended
    <2> QED BY <1>1, <2>1, <2>2
  <1>6. CASE LoopTest(t)
    <2>1. UNCHANGED <<buffer, data, passed>>
      BY <1>6 DEF LoopTest, netVars
    <2>2. CASE Usable(m_AdapterObject)
               /\ thread' = [thread EXCEPT ![t].pc = "read", ![t].capture = m_AdapterObject]
      <3> DEFINE x == [thread[t] EXCEPT !.pc = "read", !.capture = m_AdapterObject]
      <3>1. m_AdapterObject \in Nat /\ m_AdapterObject <= Len(on)
        BY <1>1, <2>2, CaptureType DEF Captures
      <3>2. x \in Locals /\ x.pc = "read" /\ x.capture = m_AdapterObject /\ x.pkt = thread[t].pkt
        BY <3>1, Steps DEF Locals
      <3>3. thread' = [thread EXCEPT ![t] = x]
        BY <2>2
      <3> HIDE DEF x
      <3> QED BY <1>2, <1>3, <1>4, <2>1, <3>1, <3>2, <3>3
    <2>3. CASE thread' = [thread EXCEPT ![t] = Ended]
      BY <1>3, <1>4, <1>5, <2>1, <2>3
    <2>4. CASE UNCHANGED thread
      BY <1>1, <2>1, <2>4 DEF BoundsInv, Captures
    <2> QED BY <1>6, <2>2, <2>3, <2>4 DEF LoopTest
  <1>7. CASE ReadTimeout(t)
    <2>1. thread' = [thread EXCEPT ![t] = Fresh] /\ UNCHANGED <<buffer, data, passed>>
      BY <1>7 DEF ReadTimeout, netVars
    <2> QED BY <1>3, <1>4, <1>5, <2>1
  <1>8. CASE ReadPacket(t)
    <2> DEFINE c == thread[t].capture
               p == Head(buffer[c])
               x == [thread[t] EXCEPT !.pc = "copy", !.pkt = p]
    <2>1. /\ c \in Captures /\ buffer[c] # <<>> /\ buffer[c] \in Seq(Nat)
          /\ \A d \in Captures : buffer'[d] = IF d = c THEN Tail(buffer[c]) ELSE buffer[d]
          /\ thread' = [thread EXCEPT ![t] = x] /\ UNCHANGED <<data, passed>>
      BY <1>8, BufferShrinks DEF ReadPacket
    <2>2. p = buffer[c][1] /\ 1 \in DOMAIN buffer[c]
      BY <2>1, HeadTailProperties
    <2>3. p \in 1..packets
      BY <1>4, <2>1, <2>2
    <2>4. \A i \in DOMAIN Tail(buffer[c]) : Tail(buffer[c])[i] \in 1..packets
      <3>1. \A i \in DOMAIN Tail(buffer[c]) :
               i + 1 \in DOMAIN buffer[c] /\ Tail(buffer[c])[i] = buffer[c][i + 1]
        BY <2>1, HeadTailProperties
      <3> QED BY <1>4, <2>1, <3>1
    <2> HIDE DEF p
    <2>5. x \in Locals /\ x.pc = "copy" /\ x.pkt = p /\ x.capture = c
      <3>1. p \in Nat
        BY <1>1, <2>3
      <3>2. x \in Locals
        BY <3>1, Steps
      <3> QED BY <1>2, <3>1, <3>2 DEF Locals
    <2> HIDE DEF x
    <2>6. p > 0 /\ p <= packets
      BY <1>1, <2>3
    <2> QED BY <1>2, <1>3, <1>4, <2>1, <2>4, <2>5, <2>6
  <1>9. CASE CopyPacket(t)
    <2> DEFINE x == [thread[t] EXCEPT !.pc = "pass"]
    <2>1. /\ thread[t].pc = "copy" /\ thread' = [thread EXCEPT ![t] = x]
          /\ data'.head = thread[t].pkt /\ data'.tail = thread[t].pkt
          /\ UNCHANGED <<buffer, passed>>
      BY <1>9 DEF CopyPacket, At, netVars
    <2>2. x \in Locals /\ x.pc = "pass" /\ x.pkt = thread[t].pkt /\ x.capture = thread[t].capture
      BY Steps DEF Locals
    <2> HIDE DEF x
    <2> QED BY <1>2, <1>3, <1>4, <2>1, <2>2
  <1>10. CASE PassUp(t)
    <2>1. /\ thread[t].pc = "pass" /\ thread' = [thread EXCEPT ![t] = Fresh]
          /\ passed' = passed \cup {data.head} /\ UNCHANGED <<buffer, data>>
      BY <1>10 DEF PassUp, At, netVars
    <2>2. data.head \in 1..packets
      BY <1>1, <1>2, <1>4, <2>1 DEF TypeInv
    <2> QED BY <1>3, <1>4, <1>5, <2>1, <2>2
  <1> QED BY <1>6, <1>7, <1>8, <1>9, <1>10 DEF Receiver

(* A packet that comes in has the next number.                              *)
LEMMA ArriveBounds ==
    ASSUME TypeInv, BoundsInv, NEW a \in Adapters, Arrive(a)
    PROVE  BoundsInv'
  <1>1. /\ packets' = packets + 1 /\ packets \in Nat
        /\ UNCHANGED <<on, thread, data, passed, choices>>
    BY BufferGrows DEF Arrive, readVars, TypeInv
  <1>2. packets' <= MaxPackets
    BY <1>1, SessionAssumption DEF Arrive
  <1>3. ASSUME NEW c \in Captures, NEW i \in DOMAIN buffer'[c] PROVE buffer'[c][i] \in 1..packets'
    <2>1. buffer[c] \in Seq(Nat)
      BY CaptureType
    <2>2. CASE buffer'[c] = buffer[c]
      BY <1>1, <1>3, <2>2 DEF BoundsInv
    <2>3. CASE buffer'[c] = Append(buffer[c], packets + 1)
      <3>1. \/ i \in DOMAIN buffer[c] /\ buffer'[c][i] = buffer[c][i]
            \/ buffer'[c][i] = packets + 1
        BY <1>1, <1>3, <2>1, <2>3, AppendProperties
      <3> QED BY <1>1, <3>1 DEF BoundsInv
    <2> QED BY <2>2, <2>3, BufferGrows
  <1>4. /\ data.head <= packets' /\ data.tail <= packets'
        /\ \A t \in DOMAIN thread : thread[t].pkt <= packets'
    <2>1. \A t \in DOMAIN thread : thread[t].pkt \in Nat
      BY Steps DEF Locals
    <2> QED BY <1>1, <2>1 DEF BoundsInv, TypeInv
  <1>5. passed \subseteq 1..packets'
    BY <1>1 DEF BoundsInv
  <1> QED BY <1>1, <1>2, <1>3, <1>4, <1>5 DEF BoundsInv, Captures

(* Every step keeps the packets within what came in.                        *)
LEMMA BoundsKept == TypeInv /\ BoundsInv /\ [Next]_vars => BoundsInv'
  <1> SUFFICES ASSUME TypeInv, BoundsInv, [Next]_vars PROVE BoundsInv'
    OBVIOUS
  <1>1. CASE Next
    BY <1>1, ChooseBounds, ButtonsBounds, ReceiverBounds, ArriveBounds DEF Next
  <1>2. CASE UNCHANGED vars
    BY <1>2 DEF vars, BoundsInv, Captures
  <1> QED BY <1>1, <1>2

-----------------------------------------------------------------------------
(* The theorems.                                                           *)

(* The three parts together hold in every state of a session.               *)
THEOREM SessionInvariant == Spec => []Inv
  <1>1. Init => Inv
    BY TypesAtStart, WindowAtStart, ReadersAtStart, AddressAtStart, BoundsAtStart DEF Inv
  <1>2. Inv /\ [Next]_vars => Inv'
    BY TypesKept, WindowKept, ReadersKept, AddressKept, BoundsKept DEF Inv
  <1> QED BY <1>1, <1>2, PTL DEF Spec

(* Whatever the user does and however the threads interleave, the window    *)
(* shows between two messages whether the receive threads are to read.      *)
THEOREM WindowAlwaysAgrees == Spec => []WindowAgrees
  <1>1. Inv => WindowAgrees
    BY DEF Inv, WindowInv
  <1> QED BY <1>1, SessionInvariant, PTL

(* A receive thread that reads from no capture had one fail to open.        *)
THEOREM DownOnlyAfterFailedOpen == Spec => []ReaderDownNeedsFailedOpen
  <1>1. Inv => ReaderDownNeedsFailedOpen
    BY DEF Inv, WindowInv
  <1> QED BY <1>1, SessionInvariant, PTL

(* Without hurry the Ethernet layer compares the address of the adapter     *)
(* that is read from, unless that could not be read.                        *)
THEOREM FilterFollowsAdapter == Spec => []FilterIsAdapter
  <1>1. Inv => FilterIsAdapter
    BY DEF Inv, WindowInv
  <1> QED BY <1>1, SessionInvariant, PTL

(* Without hurry every packet that is passed up is the one that was read,   *)
(* with its last bytes.                                                     *)
THEOREM PacketsStayWhole == Spec => []PassedWhole
  <1>1. Inv => PassedWhole
    BY DEF Inv, ReaderInv, InHand, PassedWhole
  <1> QED BY <1>1, SessionInvariant, PTL

(* Without hurry packets are passed up once and in their order.             *)
THEOREM PacketsStayInOrder == Spec => []PassedInOrder
  <1>1. Inv => PassedInOrder
    <2> SUFFICES ASSUME Inv, NEW t \in DOMAIN thread, thread[t].pc = "pass", ~rushed,
                        NEW p \in passed
                 PROVE  p < data.head
      BY DEF PassedInOrder
    <2>1. data.head = thread[t].pkt
      BY DEF Inv, ReaderInv, InHand
    <2> QED BY <2>1 DEF Inv, ReaderInv, InTurn
  <1> QED BY <1>1, SessionInvariant, PTL

(* The variables keep their types, within the bounds of the model.          *)
THEOREM Typing == Spec => []TypeOK
  <1>1. Inv => TypeOK
    <2> SUFFICES ASSUME Inv PROVE TypeOK
      OBVIOUS
    <2>1. TypeInv /\ WindowInv /\ AddressInv /\ BoundsInv
      BY DEF Inv
    <2>2. /\ Len(on) \in Nat /\ choices \in 0..MaxChoices /\ packets \in 0..MaxPackets
          /\ Len(on) <= MaxChoices /\ packets <= MaxPackets /\ packets \in Nat
      <3>1. Len(on) \in Nat /\ choices \in Nat /\ packets \in Nat
        BY <2>1, CaptureType DEF TypeInv
      <3>2. Len(on) <= choices /\ choices <= MaxChoices /\ packets <= MaxPackets
        BY <2>1 DEF BoundsInv, WindowInv
      <3>3. MaxChoices \in Nat /\ MaxPackets \in Nat
        BY SessionAssumption
      <3> QED BY <3>1, <3>2, <3>3
    <2>3. buffer \in Seq(Seq(1..MaxPackets))
      <3>1. buffer \in Seq(Seq(Nat)) /\ DOMAIN buffer = Captures /\ Captures = 1..Len(buffer)
        BY <2>1, CaptureType DEF TypeInv, Captures
      <3>2. ASSUME NEW c \in Captures PROVE buffer[c] \in Seq(1..MaxPackets)
        <4>1. buffer[c] \in Seq(Nat)
          BY <2>1, <3>2, CaptureType
        <4>2. \A i \in 1..Len(buffer[c]) : buffer[c][i] \in 1..MaxPackets
          BY <2>1, <2>2, <3>2, <4>1, SessionAssumption DEF BoundsInv
        <4>3. PICK P : P = 1..MaxPackets
          OBVIOUS
        <4>4. \A i \in 1..Len(buffer[c]) : buffer[c][i] \in P
          BY <4>2, <4>3
        <4>5. buffer[c] \in Seq(P)
          BY SMTT(30), <4>1, <4>4
        <4> QED BY <4>3, <4>5
      <3> QED BY <3>1, <3>2
    <2>4. thread \in Seq([pc : {"ended", "test", "read", "copy", "pass"},
                          capture : 0..MaxChoices, pkt : 0..MaxPackets])
      <3> DEFINE L == [pc : {"ended", "test", "read", "copy", "pass"},
                       capture : 0..MaxChoices, pkt : 0..MaxPackets]
      <3>1. thread \in Seq(Locals) /\ DOMAIN thread = 1..Len(thread)
        BY <2>1 DEF TypeInv
      <3>2. ASSUME NEW t \in DOMAIN thread PROVE thread[t] \in L
        <4>1. thread[t] \in Locals
          BY <2>1, Steps
        <4>2. thread[t].capture <= MaxChoices /\ thread[t].pkt <= MaxPackets
          BY <2>1, <2>2, <4>1, SessionAssumption DEF BoundsInv, Locals
        <4> QED BY <4>1, <4>2, SessionAssumption DEF Locals, Places
      <3> HIDE DEF L
      <3>3. thread \in Seq(L)
        BY <3>1, <3>2
      <3> QED BY <3>3 DEF L
    <2>5. data \in [head : 0..MaxPackets, tail : 0..MaxPackets]
      <3>1. data \in [head : Nat, tail : Nat]
        BY <2>1 DEF TypeInv
      <3>2. data.head \in 0..MaxPackets /\ data.tail \in 0..MaxPackets
        BY <2>1, <2>2, <3>1, SessionAssumption DEF BoundsInv
      <3> QED BY <3>1, <3>2
    <2>6. passed \subseteq 1..MaxPackets
      BY <2>1, <2>2, SessionAssumption DEF BoundsInv
    <2>7. /\ source \in Adapters \cup {NoAddr, Garbage} /\ OidData \in Adapters \cup {Garbage}
          /\ shown \in {Empty} \cup Texts /\ m_ucDstAddr \in [1..Reach -> AddressBytes]
          /\ header.src \in Adapters \cup {NoAddr, Garbage}
          /\ header.dst \in [1..AddrLen -> AddressBytes]
          /\ down \in {"up", "sending", "reading"}
      BY <2>1 DEF AddressInv
    <2>8. /\ window \in [ready : BOOLEAN, send : BOOLEAN, dst : BOOLEAN]
          /\ {canRead, misread, rushed} \subseteq BOOLEAN
          /\ m_AdapterObject \in {Unset, Null} \cup Captures
          /\ on \in Seq(Adapters) /\ Len(buffer) = Len(on)
          /\ \A t \in DOMAIN thread : thread[t].pc = "read" => thread[t].capture \in Captures
          /\ ui \in {"idle", "turning on"}
      BY <2>1 DEF TypeInv, WindowInv
    <2> QED BY <2>2, <2>3, <2>4, <2>5, <2>6, <2>7, <2>8 DEF TypeOK, AddressBytes
  <1> QED BY <1>1, SessionInvariant, PTL

(* While the text button is enabled frames go to the address that the       *)
(* destination field shows, if it is one: the field cannot be changed then, *)
(* and the button that enables the one and disables the other reads it.     *)
THEOREM FramesFollowField == Spec => []FramesGoWhereShown
  <1>1. Inv => FramesGoWhereShown
    BY DEF Inv, WindowInv, AddressInv, FramesGoWhereShown
  <1> QED BY <1>1, SessionInvariant, PTL

(* Whatever text the destination field holds, every number that the address *)
(* button reads from it is a byte of the address frames get: none is lost   *)
(* to the zeros that the stores of the others leave behind them.            *)
THEOREM AddressFollowsText == Spec => AddressAsTyped
  <1> DEFINE Taken ==
        header' # header =>
          \A i \in DOMAIN shown.numbers : header'.dst[i] = shown.numbers[i]
  <1>1. Inv /\ [Next]_vars => [Taken]_vars
    <2> SUFFICES ASSUME Inv, Next, header' # header, NEW i \in DOMAIN shown.numbers
                 PROVE  header'.dst[i] = shown.numbers[i]
      BY DEF vars
    <2>1. SetAddresses
      <3>1. ASSUME NEW t \in DOMAIN thread, Receiver(t) PROVE FALSE
        BY <3>1, ReceiverMoves DEF Inv
      <3> QED BY <3>1 DEF Next, ChooseAdapter, Arrive, TypeDestination, TurnOn, TurnOff, SendNowhere
    <2>2. AddressInv
      BY DEF Inv
    <2>3. /\ m_ucDstAddr' = Typed(shown.numbers, m_ucDstAddr)
          /\ header'.dst = SubSeq(m_ucDstAddr', 1, AddrLen)
          /\ m_ucDstAddr' \in [1..Reach -> AddressBytes]
      BY <2>1, <2>2, DestinationSet DEF SetAddresses
    <2>4. /\ Len(shown.numbers) \in Nat /\ Len(shown.numbers) <= 6
          /\ i \in 1..Len(shown.numbers)
      <3>1. shown.numbers \in Seq(AddressBytes) /\ Len(shown.numbers) <= AddrLen
        BY <2>2, ShownNumbers
      <3> QED BY <3>1 DEF AddrLen
    <2>5. i \in 1..6 /\ i \in 1..Reach
      BY <2>4 DEF AddrLen, Reach
    <2>6. header'.dst[i] = m_ucDstAddr'[i]
      <3>1. AddrLen = 6 /\ Reach = 9
        BY DEF AddrLen, Reach
      <3> QED BY <2>3, <2>5, <3>1
    <2>7. m_ucDstAddr'[i] = shown.numbers[i]
      BY <2>3, <2>4, <2>5 DEF Typed
    <2> QED BY <2>6, <2>7
  <1>2. Spec => [][Taken]_vars
    BY <1>1, SessionInvariant, PTL DEF Spec
  <1> QED BY <1>2 DEF AddressAsTyped
=============================================================================
