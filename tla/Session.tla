------------------------------ MODULE Session ------------------------------
(***************************************************************************)
(* One program's session with the network: the adapter list, the address   *)
(* button and the destination field of Cipc2019Dlg, the capture handles    *)
(* and receive threads of CNILayer, and the two addresses the Ethernet     *)
(* layer filters and sends by.  The thread of the window and the receive   *)
(* threads share canRead, m_AdapterObject, data and the addresses.  An     *)
(* adapter stands for its hardware address.                                *)
(***************************************************************************)
EXTENDS Addresses, FiniteSets, Functions

CONSTANTS
    Adapters,      \* network adapters, each with its address
    NoAddr,        \* no address: no adapter chosen
    Garbage,       \* what is in memory that nothing was written to
    Texts,         \* destination texts: the numbers in them and their length
    MaxThreads,    \* bound: receive threads started
    MaxChoices,    \* bound: adapters chosen
    MaxPackets,    \* bound: packets on the network
    HastyPackets   \* bound: of them, packets once the user was in a hurry

ASSUME SessionAssumption ==
    /\ NoAddr \notin Adapters \cup {Garbage} /\ Garbage \notin Adapters
    /\ \A text \in Texts : text.numbers \in Seq(0..255) /\ Len(text.numbers) <= AddrLen
    /\ MaxThreads \in Nat /\ MaxChoices \in Nat /\ MaxPackets \in Nat
    /\ HastyPackets \in 0..MaxPackets

VARIABLES
    source,          \* m_ucSrcAddr, shown as m_unSrcAddr
    OidData,         \* the address PacketRequest read last
    shown,           \* the text of the destination field, m_unDstAddr
    m_ucDstAddr,     \* the destination address last read from it, and 3 bytes behind
    window,          \* m_bSendReady, and which controls are enabled
    ui,              \* where the window's thread is in its handler
    canRead,         \* CNILayer::canRead
    m_AdapterObject, \* the number of the capture in use, or Unset or Null
    buffer,          \* packets of each capture not read yet; captures are never closed
    on,              \* the adapter of each capture
    thread,          \* locals of each receive thread
    data,            \* CNILayer::data, the packet in it, and that in errbuf behind it
    header,          \* source and destination address in the Ethernet layer
    down,            \* how the program ended, or "up"
    packets,         \* history: how many packets there were on the network
    passed,          \* history: the packets CNILayer::Receive passed up
    choices,         \* history: how often an adapter was chosen
    misread,         \* history: the address of the adapter chosen last was not read
    rushed           \* history: reading was turned on or an adapter chosen while a
                     \* receive thread was alive

vars == <<source, OidData, shown, m_ucDstAddr, window, ui, canRead, m_AdapterObject, buffer,
          on, thread, data, header, down, packets, passed, choices, misread, rushed>>
adapterVars == <<source, OidData, misread>>
uiVars   == <<adapterVars, shown, m_ucDstAddr, window, ui, rushed>>
netVars  == <<buffer, on, packets>>
readVars == <<thread, data, passed>>

Unset    == -1
Null     == 0
Fresh    == [pc |-> "test", capture |-> 0, pkt |-> 0]
Ended    == [Fresh EXCEPT !.pc = "ended"]
Empty    == [numbers |-> <<>>, length |-> 0]
NoPacket == [head |-> 0, tail |-> 0]
Captures == 1..Len(on)

(* The controls when the window is ready, or not. *)
DlgState(ready) == [ready |-> ready, send |-> ready, dst |-> ~ready]

Init ==
    /\ source = NoAddr /\ OidData = Garbage /\ shown = Empty
    /\ m_ucDstAddr = [k \in 1..Reach |-> Garbage]
    /\ window = DlgState(FALSE)
    /\ ui = "idle" /\ canRead = FALSE
    /\ m_AdapterObject = Unset /\ buffer = <<>> /\ on = <<>>
    /\ thread = <<>> /\ data = NoPacket
    /\ header = [src |-> NoAddr, dst |-> [k \in 1..AddrLen |-> 0]]
    /\ down = "up" /\ packets = 0 /\ passed = {} /\ choices = 0
    /\ misread = FALSE /\ rushed = FALSE

-----------------------------------------------------------------------------
(* The window. *)

Alive == {t \in DOMAIN thread : thread[t].pc # "ended"}
Usable(capture) == capture \notin {Unset, Null}

(* The window's thread is between two messages. *)
Waiting == down = "up" /\ ui = "idle"

(* CNILayer::SetAdapter opens a capture, or fails to and there are words of *)
(* that in errbuf, where the last bytes of a packet may be.                 *)
OpenCapture(a) ==
    \/ /\ on' = Append(on, a) /\ buffer' = Append(buffer, <<>>)
       /\ m_AdapterObject' = Len(on')
       /\ UNCHANGED data
    \/ /\ m_AdapterObject' = Null
       /\ data' = [data EXCEPT !.tail = 0]
       /\ UNCHANGED <<on, buffer>>

(* It asks for the adapter's address and does not look at the result: if    *)
(* there is none, the one read before it is returned.                       *)
RequestAddress(a) ==
    \/ OidData' = a /\ source' = a /\ misread' = FALSE
    \/ source' = OidData /\ misread' = TRUE /\ UNCHANGED OidData

SetAdapter(a) == OpenCapture(a) /\ RequestAddress(a)

(* OnCbnSelchangeComboAdapterList *)
ChooseAdapter(a) ==
    /\ Waiting /\ choices < MaxChoices
    /\ SetAdapter(a) /\ choices' = choices + 1
    /\ rushed' = (rushed \/ Alive # {})
    /\ UNCHANGED <<shown, m_ucDstAddr, window, ui, canRead, thread, passed, header, down,
                   packets>>

TypeDestination(text) ==
    /\ Waiting /\ window.dst
    /\ shown' = text
    /\ UNCHANGED <<adapterVars, m_ucDstAddr, window, ui, canRead, m_AdapterObject, netVars,
                   readVars, header, down, choices, rushed>>

(* Slip: the test is forgotten. *)
AddressesAny == TRUE

(* The address button is refused before an adapter is chosen or a           *)
(* destination of 16 characters is typed.                                   *)
AddressesThere == source # NoAddr /\ shown.length >= 16

flip == canRead' = ~canRead

(* OnBnClickedButtonAddr while not ready, up to flip. *)
TurnOn ==
    /\ Waiting /\ AddressesThere /\ ~window.ready
    /\ Len(thread) < MaxThreads
    /\ flip /\ ui' = "turning on"
    /\ UNCHANGED <<adapterVars, shown, m_ucDstAddr, window, m_AdapterObject, netVars, readVars,
                   header, down, choices, rushed>>

(* AfxBeginThread *)
Start == thread' = Append(thread, Fresh)

(* Slip: the destination field stays enabled. *)
SetAddressesOpenField ==
    /\ down = "up" /\ ui = "turning on"
    /\ m_ucDstAddr' = Stouc(shown.numbers, m_ucDstAddr)
    /\ header' = [src |-> source, dst |-> SubSeq(m_ucDstAddr', 1, AddrLen)]
    /\ Start
    /\ rushed' = (rushed \/ Alive # {})
    /\ window' = [ready |-> TRUE, send |-> TRUE, dst |-> TRUE]
    /\ ui' = "idle"
    /\ UNCHANGED <<adapterVars, shown, canRead, m_AdapterObject, netVars, data, passed, down,
                   choices>>

(* Slip: the source address is not handed to the Ethernet layer again. *)
SetAddressesOnce ==
    /\ down = "up" /\ ui = "turning on"
    /\ m_ucDstAddr' = Stouc(shown.numbers, m_ucDstAddr)
    /\ header' = [src |-> IF header.src = NoAddr THEN source ELSE header.src, dst |-> SubSeq(m_ucDstAddr', 1, AddrLen)]
    /\ Start
    /\ rushed' = (rushed \/ Alive # {})
    /\ window' = DlgState(TRUE)
    /\ ui' = "idle"
    /\ UNCHANGED <<adapterVars, shown, canRead, m_AdapterObject, netVars, data, passed, down,
                   choices>>

(* The rest of it: Stouc, both addresses, the receive thread, the controls. *)
SetAddresses ==
    /\ down = "up" /\ ui = "turning on"
    /\ m_ucDstAddr' = Stouc(shown.numbers, m_ucDstAddr)
    /\ header' = [src |-> source, dst |-> SubSeq(m_ucDstAddr', 1, AddrLen)]
    /\ Start
    /\ rushed' = (rushed \/ Alive # {})
    /\ window' = DlgState(TRUE)
    /\ ui' = "idle"
    /\ UNCHANGED <<adapterVars, shown, canRead, m_AdapterObject, netVars, data, passed, down,
                   choices>>

(* Slip: the controls change and the threads go on reading. *)
TurnOffNoFlip ==
    /\ Waiting /\ AddressesThere /\ window.ready
    /\ window' = DlgState(FALSE)
    /\ UNCHANGED <<adapterVars, shown, m_ucDstAddr, ui, canRead, m_AdapterObject, netVars,
                   readVars, header, down, choices, rushed>>

(* OnBnClickedButtonAddr while ready. *)
TurnOff ==
    /\ Waiting /\ AddressesThere /\ window.ready
    /\ flip
    /\ window' = DlgState(FALSE)
    /\ UNCHANGED <<adapterVars, shown, m_ucDstAddr, ui, m_AdapterObject, netVars,
                   readVars, header, down, choices, rushed>>

(* The button for files is enabled from the start, and that for texts       *)
(* whenever the window is ready: CNILayer::Send uses what capture there is. *)
SendNowhere ==
    /\ Waiting /\ ~Usable(m_AdapterObject)
    /\ down' = "sending"
    /\ UNCHANGED <<uiVars, canRead, m_AdapterObject, netVars, readVars, header, choices>>

-----------------------------------------------------------------------------
(* A receive thread: CNILayer::ThreadFunction_RECEIVE.                      *)

At(t, place) == down = "up" /\ t \in DOMAIN thread /\ thread[t].pc = place

(* Slip: the loop never ends. *)
LoopTestAlways(t) ==
    /\ At(t, "test")
    /\ IF Usable(m_AdapterObject)
       THEN /\ thread' = [thread EXCEPT ![t].pc = "read", ![t].capture = m_AdapterObject]
            /\ UNCHANGED down
       ELSE down' = "reading" /\ UNCHANGED thread
    /\ UNCHANGED <<uiVars, canRead, m_AdapterObject, netVars, data, passed, header, choices>>

(* The loop's test and the call of pcap_next_ex, which a handler of the     *)
(* window may come between with the same outcome as before or after both.   *)
LoopTest(t) ==
    /\ At(t, "test")
    /\ \/ /\ canRead /\ Usable(m_AdapterObject)
          /\ thread' = [thread EXCEPT ![t].pc = "read", ![t].capture = m_AdapterObject]
          /\ UNCHANGED down
       \/ /\ canRead /\ ~Usable(m_AdapterObject)
          /\ down' = "reading" /\ UNCHANGED thread
       \/ /\ ~canRead
          /\ thread' = [thread EXCEPT ![t] = Ended] /\ UNCHANGED down
    /\ UNCHANGED <<uiVars, canRead, m_AdapterObject, netVars, data, passed, header, choices>>

(* pcap_next_ex returns 0 after a second without a packet. *)
ReadTimeout(t) ==
    /\ At(t, "read") /\ buffer[thread[t].capture] = <<>>
    /\ thread' = [thread EXCEPT ![t] = Fresh]
    /\ UNCHANGED <<uiVars, canRead, m_AdapterObject, netVars, data, passed, header, down,
                   choices>>

(* Slip: the packet stays in the capture. *)
ReadPacketAgain(t) ==
    LET c == thread[t].capture
    IN  /\ At(t, "read") /\ buffer[c] # <<>>
        /\ thread' = [thread EXCEPT ![t].pc = "copy", ![t].pkt = Head(buffer[c])]
        /\ UNCHANGED <<uiVars, canRead, m_AdapterObject, buffer, on, packets, data, passed,
                       header, down, choices>>

(* Slip: the thread passes up what is in data before it copies. *)
ReadPacketUncopied(t) ==
    LET c == thread[t].capture
    IN  /\ At(t, "read") /\ buffer[c] # <<>>
        /\ thread' = [thread EXCEPT ![t].pc = "pass", ![t].pkt = Head(buffer[c])]
        /\ buffer' = [buffer EXCEPT ![c] = Tail(@)]
        /\ UNCHANGED <<uiVars, canRead, m_AdapterObject, on, packets, data, passed, header,
                       down, choices>>

(* Slip: a packet that was read is taken for none. *)
ReadPacketLost(t) ==
    LET c == thread[t].capture
    IN  /\ At(t, "read") /\ buffer[c] # <<>>
        /\ thread' = [thread EXCEPT ![t] = Fresh]
        /\ buffer' = [buffer EXCEPT ![c] = Tail(@)]
        /\ UNCHANGED <<uiVars, canRead, m_AdapterObject, on, packets, data, passed, header,
                       down, choices>>

(* pcap_next_ex returns 1 and the next packet. *)
ReadPacket(t) ==
    LET c == thread[t].capture
    IN  /\ At(t, "read") /\ buffer[c] # <<>>
        /\ thread' = [thread EXCEPT ![t].pc = "copy", ![t].pkt = Head(buffer[c])]
        /\ buffer' = [buffer EXCEPT ![c] = Tail(@)]
        /\ UNCHANGED <<uiVars, canRead, m_AdapterObject, on, packets, data, passed, header,
                       down, choices>>

(* Slip: no more is copied than data has room for. *)
CopyPacketFits(t) ==
    /\ At(t, "copy")
    /\ data' = [data EXCEPT !.head = thread[t].pkt]
    /\ thread' = [thread EXCEPT ![t].pc = "pass"]
    /\ UNCHANGED <<uiVars, canRead, m_AdapterObject, netVars, passed, header, down, choices>>

(* ETHER_MAX_SIZE is 14 more than data has bytes: the last 14 of a full     *)
(* frame go to errbuf.                                                      *)
CopyPacket(t) ==
    /\ At(t, "copy")
    /\ data' = [head |-> thread[t].pkt, tail |-> thread[t].pkt]
    /\ thread' = [thread EXCEPT ![t].pc = "pass"]
    /\ UNCHANGED <<uiVars, canRead, m_AdapterObject, netVars, passed, header, down, choices>>

(* CNILayer::Receive passes up what is in data and errbuf now. *)
PassUp(t) ==
    /\ At(t, "pass")
    /\ passed' = passed \cup {data.head}
    /\ thread' = [thread EXCEPT ![t] = Fresh]
    /\ UNCHANGED <<uiVars, canRead, m_AdapterObject, netVars, data, header, down, choices>>

Receiver(t) == LoopTest(t) \/ ReadTimeout(t) \/ ReadPacket(t) \/ CopyPacket(t) \/ PassUp(t)

(* A packet for adapter a comes in: every capture of a gets it. *)
Arrive(a) ==
    /\ down = "up" /\ packets < IF rushed THEN HastyPackets ELSE MaxPackets
    /\ packets' = packets + 1
    /\ buffer' = [c \in Captures |->
                    IF on[c] = a THEN Append(buffer[c], packets') ELSE buffer[c]]
    /\ UNCHANGED <<uiVars, canRead, m_AdapterObject, on, readVars, header, down, choices>>

-----------------------------------------------------------------------------
Next ==
    \/ \E a \in Adapters : ChooseAdapter(a) \/ Arrive(a)
    \/ \E text \in Texts : TypeDestination(text)
    \/ TurnOn \/ SetAddresses \/ TurnOff \/ SendNowhere
    \/ \E t \in DOMAIN thread : Receiver(t)

(* A handler that was begun goes on, and so does a receive thread: its read *)
(* returns within a second, and what it passes up is done with once the     *)
(* user has closed the box it may have brought up.                          *)
Fairness ==
    /\ WF_vars(SetAddresses)
    /\ \A t \in 1..MaxThreads : WF_vars(Receiver(t))

Spec     == Init /\ [][Next]_vars
FairSpec == Spec /\ Fairness

-----------------------------------------------------------------------------
(* Properties. *)

(* The variables hold values of their declared types; a thread in           *)
(* pcap_next_ex has a capture.                                              *)
TypeOK ==
    LET Bytes == {0, Garbage} \cup UNION {Range(text.numbers) : text \in Texts}
        Packet == 0..MaxPackets
    IN  /\ source \in Adapters \cup {NoAddr, Garbage} /\ OidData \in Adapters \cup {Garbage}
        /\ shown \in {Empty} \cup Texts /\ m_ucDstAddr \in [1..Reach -> Bytes]
        /\ window \in [ready : BOOLEAN, send : BOOLEAN, dst : BOOLEAN]
        /\ ui \in {"idle", "turning on"}
        /\ {canRead, misread, rushed} \subseteq BOOLEAN
        /\ m_AdapterObject \in {Unset, Null} \cup Captures
        /\ on \in Seq(Adapters) /\ choices \in 0..MaxChoices /\ packets \in Packet
        /\ Len(buffer) = Len(on)
        /\ buffer \in Seq(Seq(1..MaxPackets))
        /\ thread \in Seq([pc : {"ended", "test", "read", "copy", "pass"},
                           capture : 0..MaxChoices, pkt : Packet])
        /\ \A t \in DOMAIN thread : thread[t].pc = "read" => thread[t].capture \in Captures
        /\ data \in [head : Packet, tail : Packet]
        /\ header.src \in Adapters \cup {NoAddr, Garbage}
        /\ header.dst \in [1..AddrLen -> Bytes]
        /\ down \in {"up", "sending", "reading"}
        /\ passed \subseteq 1..MaxPackets

(* What the window shows is what the layers do: between two messages the    *)
(* text button is enabled and the destination field is not exactly while    *)
(* the receive threads are told to read.                                    *)
WindowAgrees ==
    ui = "idle" =>
        /\ canRead = window.ready /\ window.send = window.ready
        /\ window.dst = ~window.ready

(* And while it is enabled, frames go where the destination field says, if  *)
(* that is an address.                                                      *)
FramesGoWhereShown ==
    /\ WindowAgrees
    /\ window.send /\ Len(shown.numbers) = AddrLen => header.dst = shown.numbers

(* Every number the address button reads, of a whole address as of one that *)
(* breaks off, is a byte of the address that frames then get: storing it as *)
(* an int clears the three bytes behind it (ipc2019Dlg.cpp:404), so each of *)
(* those must be stored later.  It says nothing of the three bytes behind   *)
(* m_ucDstAddr, which the last three stores clear as well.                  *)
AddressAsTyped ==
    [][header' # header =>
        \A i \in DOMAIN shown.numbers : header'.dst[i] = shown.numbers[i]]_vars

(* A receive thread reads from no capture only after one failed to open.    *)
ReaderDownNeedsFailedOpen == down = "reading" => Len(on) < choices

(* Unless the user was in a hurry no packet is passed up twice, and they    *)
(* are passed up in their order.                                            *)
PassedInOrder ==
    \A t \in DOMAIN thread :
        thread[t].pc = "pass" /\ ~rushed => \A p \in passed : p < data.head

(* Nor is a packet passed up that is not whole, with its last bytes, or is  *)
(* another one than was read.                                               *)
PassedWhole ==
    \A t \in DOMAIN thread :
        thread[t].pc = "pass" /\ ~rushed =>
            data = [head |-> thread[t].pkt, tail |-> thread[t].pkt]

(* Nor, while the program is ready, is the address the Ethernet layer       *)
(* compares another than that of the adapter that is read from, but where   *)
(* it could not be read.                                                    *)
FilterIsAdapter ==
    window.ready /\ ui = "idle" /\ Usable(m_AdapterObject) /\ ~rushed /\ ~misread =>
        header.src = on[m_AdapterObject]

(* Told to stop, the receive threads do stop, unless told to read again.    *)
ReadersStop == ~canRead ~> Alive = {} \/ canRead \/ down # "up"

Pending(p) == \E i \in DOMAIN buffer[m_AdapterObject] : buffer[m_AdapterObject][i] = p

(* A packet in the capture in use is passed up, unless reading is turned    *)
(* off or the user was in a hurry.                                          *)
PacketsHeard ==
    \A p \in 1..MaxPackets :
        (canRead /\ Usable(m_AdapterObject) /\ Pending(p))
            ~> (p \in passed \/ ~canRead \/ rushed \/ down # "up")
=============================================================================
