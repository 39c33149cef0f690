------------------------------ MODULE Ethernet ------------------------------
(***************************************************************************)
(* CEthernetLayer.  Its one m_sHeader is the buffer every frame is built   *)
(* in: by CEthernetLayer::Send, which the thread of the window calls for a *)
(* chat frame and worker threads call for a file frame, and by the address *)
(* button.  Nothing serializes them.  Peers capture what goes out, and     *)
(* CEthernetLayer::Receive of each passes up what is meant for it.         *)
(***************************************************************************)
EXTENDS Integers, Sequences, FiniteSets, Places

CONSTANTS
    Callers,       \* threads that call Send
    UI,            \* the caller that runs the window
    Addr,          \* hardware addresses
    ZeroAddr,      \* the address of six zero bytes
    Adapters,      \* addresses of the adapters the user may choose
    Typed,         \* addresses the user may type as the destination
    Hosts,         \* peers that listen
    OwnAddr,       \* OwnAddr[h]: the source address set at h
    MaxData,       \* ETHER_MAX_DATA_SIZE, in cells of memcpy
    MaxCalls,      \* bound: calls of Send
    ForeignHeaders,\* headers of the frames other programs send
    MaxForeign     \* bound: frames of other programs

ASSUME EthernetAssumption ==
    /\ UI \in Callers
    /\ {ZeroAddr} \cup Adapters \cup Typed \subseteq Addr
    /\ OwnAddr \in [Hosts -> Addr]
    /\ ForeignHeaders \subseteq [dst : Addr, src : Addr, type : {"chat", "file", "other"}]
    /\ MaxData \in Nat \ {0}
    /\ MaxCalls \in Nat /\ MaxForeign \in Nat

VARIABLES
    m_sHeader,     \* the frame under construction
    caller,        \* locals of each call of Send
    captured,      \* frames a peer captured and has not looked at
    calls,         \* history: what each call of Send was asked for
    sent,          \* history: the frames that went out
    handed,        \* history: what each peer's Receive passed up, and to whom
    overlapped     \* history: calls during which another thread was at work

vars == <<m_sHeader, caller, captured, calls, sent, handed, overlapped>>

TypeOf(c) == IF c = UI THEN "chat" ELSE "file"       \* 0x2080, 0x2090
Unset     == <<0, 0>>
Idle      == [pc |-> "idle", call |-> 0, len |-> 0, copied |-> 0]

Init ==
    /\ m_sHeader = [dst |-> ZeroAddr, src |-> ZeroAddr, type |-> "none",
                    data |-> [i \in 1..MaxData |-> Unset]]
    /\ caller = [c \in Callers |-> Idle]
    /\ captured = [h \in Hosts |-> <<>>]
    /\ calls = <<>> /\ sent = <<>> /\ overlapped = {}
    /\ handed = [h \in Hosts |-> <<>>]

-----------------------------------------------------------------------------
At(c, pc) == caller[c].pc = pc
Busy      == {c \in Callers : ~At(c, "idle")}
Running   == {caller[c].call : c \in Busy} \ {0}

SetSourceAddress(a) ==
    /\ At(UI, "idle")
    /\ m_sHeader' = [m_sHeader EXCEPT !.src = a]
    /\ caller' = [caller EXCEPT ![UI].pc = "destin"]
    /\ overlapped' = overlapped \cup Running
    /\ UNCHANGED <<captured, calls, sent, handed>>

SetDestinAddress(a) ==
    /\ At(UI, "destin")
    /\ m_sHeader' = [m_sHeader EXCEPT !.dst = a]
    /\ caller' = [caller EXCEPT ![UI].pc = "idle"]
    /\ overlapped' = overlapped \cup Running
    /\ UNCHANGED <<captured, calls, sent, handed>>

(* An upper layer calls Send with len cells of its own frame.  The window   *)
(* does so only after the addresses are set, a worker thread at any time.   *)
Call(c) ==
    /\ At(c, "idle") /\ Len(calls) < MaxCalls
    /\ c = UI => m_sHeader.src # ZeroAddr
    /\ \E len \in 1..MaxData :
         LET k == Len(calls) + 1
         IN  /\ calls' = Append(calls, [by |-> c, dst |-> m_sHeader.dst,
                                        src |-> m_sHeader.src, type |-> TypeOf(c), len |-> len])
             /\ caller' = [caller EXCEPT ![c] =
                              [pc |-> "copy", call |-> k, len |-> len, copied |-> 0]]
             /\ overlapped' = IF Busy = {} THEN overlapped
                              ELSE overlapped \cup Running \cup {k}
    /\ UNCHANGED <<m_sHeader, captured, sent, handed>>

(* Slip: one cell too many is copied. *)
CopyDataLong(c) ==
    LET me == caller[c]
        i  == me.copied + 1
    IN  /\ At(c, "copy")
        /\ m_sHeader' = [m_sHeader EXCEPT !.data[i] = <<me.call, i>>]
        /\ caller' = [caller EXCEPT ![c].copied = i,
                                    ![c].pc = IF i > me.len THEN "type" ELSE "copy"]
        /\ UNCHANGED <<captured, calls, sent, handed, overlapped>>

(* memcpy into enet_data, one cell. *)
CopyData(c) ==
    LET me == caller[c]
        i  == me.copied + 1
    IN  /\ At(c, "copy")
        /\ m_sHeader' = [m_sHeader EXCEPT !.data[i] = <<me.call, i>>]
        /\ caller' = [caller EXCEPT ![c].copied = i,
                                    ![c].pc = IF i = me.len THEN "type" ELSE "copy"]
        /\ UNCHANGED <<captured, calls, sent, handed, overlapped>>

(* Slip: the type is set only the first time. *)
SetTypeOnce(c) ==
    /\ At(c, "type")
    /\ m_sHeader' = [m_sHeader EXCEPT !.type = IF @ = "none" THEN TypeOf(c) ELSE @]
    /\ caller' = [caller EXCEPT ![c].pc = "under"]
    /\ UNCHANGED <<captured, calls, sent, handed, overlapped>>

SetType(c) ==
    /\ At(c, "type")
    /\ m_sHeader' = [m_sHeader EXCEPT !.type = TypeOf(c)]
    /\ caller' = [caller EXCEPT ![c].pc = "under"]
    /\ UNCHANGED <<captured, calls, sent, handed, overlapped>>

Transmit(frame) ==
    /\ sent' = Append(sent, frame)
    /\ captured' = [h \in Hosts |-> Append(captured[h], frame)]

(* The layer below sends the header and len cells, as they are now. *)
UnderSend(c) ==
    /\ At(c, "under")
    /\ Transmit([dst |-> m_sHeader.dst, src |-> m_sHeader.src, type |-> m_sHeader.type,
                 data |-> SubSeq(m_sHeader.data, 1, caller[c].len), call |-> caller[c].call])
    /\ caller' = [caller EXCEPT ![c] = Idle]
    /\ UNCHANGED <<m_sHeader, calls, handed, overlapped>>

Send(c) == CopyData(c) \/ SetType(c) \/ UnderSend(c)

-----------------------------------------------------------------------------
(* Other programs send frames, too, with any addresses and of any type:     *)
(* another pair of people may be using this program.                       *)
OtherTraffic ==
    /\ Len(SelectSeq(sent, LAMBDA f : f.call = 0)) < MaxForeign
    /\ \E f \in ForeignHeaders :
         Transmit([dst |-> f.dst, src |-> f.src, type |-> f.type, data |-> <<>>, call |-> 0])
    /\ UNCHANGED <<m_sHeader, caller, calls, handed, overlapped>>

(* mp_aUpperLayer[0] and mp_aUpperLayer[1] *)
UpperLayer == [chat |-> "ChatApp", file |-> "FileTrans"]

(* Slip: the address is not compared. *)
AcceptsAnyAddress(h, frame) == frame.type \in DOMAIN UpperLayer

Accepts(h, frame) == frame.dst = OwnAddr[h] /\ frame.type \in DOMAIN UpperLayer

Receive(h) ==
    /\ captured[h] # <<>>
    /\ captured' = [captured EXCEPT ![h] = Tail(@)]
    /\ LET frame == Head(captured[h])
       IN  handed' = IF Accepts(h, frame)
                     THEN [handed EXCEPT ![h] =
                             Append(@, [layer |-> UpperLayer[frame.type], frame |-> frame])]
                     ELSE handed
    /\ UNCHANGED <<m_sHeader, caller, calls, sent, overlapped>>

-----------------------------------------------------------------------------
Next ==
    \/ \E a \in Adapters : SetSourceAddress(a)
    \/ \E a \in Typed : SetDestinAddress(a)
    \/ \E c \in Callers : Call(c) \/ Send(c)
    \/ OtherTraffic
    \/ \E h \in Hosts : Receive(h)

(* A call that was begun runs on; a peer looks at what it captured.         *)
Fairness ==
    /\ \A c \in Callers : WF_vars(Send(c))
    /\ \A h \in Hosts : WF_vars(Receive(h))

Spec     == Init /\ [][Next]_vars
FairSpec == Spec /\ Fairness

-----------------------------------------------------------------------------
(* Properties. *)

Cell  == (0..MaxCalls) \X (0..MaxData)
Types == {"none", "chat", "file", "other"}
Frame == [dst : Addr, src : Addr, type : Types, data : Seq(Cell), call : 0..MaxCalls]

(* The variables hold values of their declared types. *)
TypeOK ==
    /\ m_sHeader \in [dst : Addr, src : Addr, type : Types, data : [1..MaxData -> Cell]]
    /\ caller \in [Callers -> [pc : {"idle", "copy", "type", "under", "destin"},
                               call : 0..MaxCalls, len : 0..MaxData, copied : 0..MaxData]]
    /\ captured \in [Hosts -> Seq(Frame)]
    /\ calls \in Seq([by : Callers, dst : Addr, src : Addr, type : Types,
                      len : 1..MaxData])
    /\ sent \in Seq(Frame)
    /\ handed \in [Hosts -> Seq([layer : {"ChatApp", "FileTrans"}, frame : Frame])]
    /\ overlapped \subseteq 1..MaxCalls

(* The frame that call k of Send asked for. *)
Wanted(k) == [dst |-> calls[k].dst, src |-> calls[k].src, type |-> calls[k].type,
              data |-> [i \in 1..calls[k].len |-> <<k, i>>], call |-> k]

(* What the threads did not get in each other's way with goes to the layer  *)
(* that sent it here, at the peer that was the destination then; whoever    *)
(* sent a frame, the layer it goes to is the one of its type.               *)
LayersGetTheirs ==
    \A h \in Hosts : \A j \in DOMAIN handed[h] :
        LET item == handed[h][j]
        IN  /\ item.layer = UpperLayer[item.frame.type]
            /\ item.frame.call \notin overlapped \cup {0} =>
                   /\ calls[item.frame.call].dst = OwnAddr[h]
                   /\ item.layer = UpperLayer[calls[item.frame.call].type]

(* The receiver checks that what it receives came from its peer, here the   *)
(* program whose calls of Send these are, and discards it if not.           *)
OnlyFromThePeer ==
    \A h \in Hosts : \A j \in DOMAIN handed[h] : handed[h][j].frame.call # 0

(* How many frames a peer has looked at, and those of them that name it.    *)
Looked(h) == Len(sent) - Len(captured[h])
Theirs(h) == {i \in 1..Looked(h) : sent[i].dst = OwnAddr[h] /\ sent[i].type \in {"chat", "file"}}

(* Even when sends overlap, each peer passes up every frame that names it,  *)
(* once and in the order of sending, and nothing else, and has before it    *)
(* all that it has not looked at.                                           *)
HandedInOrder ==
    \A h \in Hosts :
        /\ Len(handed[h]) = Cardinality(Theirs(h))
        /\ \A i \in Theirs(h) :
              handed[h][RankIn(Theirs(h), i)].frame = sent[i]
        /\ captured[h] = SubSeq(sent, Looked(h) + 1, Len(sent))

(* The calls of thread c, and those whose frame went out, as it should be   *)
(* unless another thread was at work on m_sHeader; a 0 is a damaged frame.  *)
CallsOf(c)  == {k \in DOMAIN calls : calls[k].by = c}
FramesOf(c) == {i \in DOMAIN sent : sent[i].call # 0 /\ calls[sent[i].call].by = c}

PostedBy(c) == InOrderOf(CallsOf(c))

Intact(f) == IF f.call \in overlapped \/ f = Wanted(f.call) THEN f.call ELSE 0
SentBy(c) == [j \in 1..Cardinality(FramesOf(c)) |-> Intact(sent[Nth(FramesOf(c), j)])]
=============================================================================
