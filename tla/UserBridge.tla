----------------------------- MODULE UserBridge -----------------------------
(***************************************************************************)
(* UserBridge: main opens two adapters and starts two threads, each of     *)
(* which forwards the packets of one adapter to the other; Ctrl+C tells    *)
(* them to end and waits for them.  Thread and adapter 0 and 1 are those   *)
(* of the couples' states: thread t reads from adapter t and sends to the  *)
(* other one.                                                              *)
(***************************************************************************)
EXTENDS Mains, FiniteSets

CONSTANTS
    MaxCaptured    \* bound: packets that come in from outside

ASSUME UserBridgeAssumption == MaxCaptured \in Nat

VARIABLES
    undo,            \* objects main has still to take back before it returns
    thread,          \* where each thread is, its packet and n_fwd
    print_cs,        \* the thread in the critical section, or Nobody
    kill_forwaders,  \* the threads are to end
    handler,         \* of SIGINT: "default", "installed", or "waiting" in it
    captured,        \* packets of each adapter captured and not read yet
    came,            \* history: packets that came in at each adapter from outside
    went,            \* history: packets that went out at each adapter
    tried,           \* history: packets each thread tried to send
    console          \* history: the n_fwd that each thread reported at its end

threadVars == <<thread, print_cs, kill_forwaders, handler, captured, came, went, tried, console>>
bridgeVars == <<undo, threadVars>>

Sides == {0, 1}
Nobody == 2
None == 0
Unreported == -1
adhandle(t) == IF t = 0 THEN "adhandle1" ELSE "adhandle2"

Idle == [pc |-> "none", pkt |-> None, n_fwd |-> 0, res |-> 0]

(* Slip: the adapters capture what they send. *)
CaptureLocalYes == TRUE

(* PCAP_OPENFLAG_NOCAPTURE_LOCAL is given for both adapters. *)
CaptureLocal == FALSE

-----------------------------------------------------------------------------
(* main goes on, up to its endless sleep. *)
Awake == prog = "UserBridge" /\ Running /\ undo = {} /\ Call.name # "Sleep"

BridgeDoes ==
    /\ Awake
    /\ Succeed
    /\ thread' = IF Call.name # "CreateThread" THEN thread
                 ELSE [thread EXCEPT ![IF Call.gets = {"thread0"} THEN 0 ELSE 1].pc = "test"]
    /\ handler' = IF Call.name = "signal" THEN "installed" ELSE handler
    /\ UNCHANGED <<undo, print_cs, kill_forwaders, captured, came, went, tried, console>>

(* main reports the error, with something to take back or nothing. *)
BridgeFails ==
    /\ Awake /\ Call.fails
    /\ undo' = Call.cleanup
    /\ status' = IF undo' = {} THEN "failed" ELSE status
    /\ UNCHANGED <<prog, way, pc, held, threadVars>>

(* Slip: the adapters are closed before the thread that uses them is ended. *)
UndoAdaptersFirst == <<"adhandle1", "adhandle2", "thread0", "alldevs">>

UndoOrder == <<"thread0", "adhandle1", "adhandle2", "alldevs">>

(* One by one the objects are taken back, while a thread that was started   *)
(* goes on; TerminateThread ends it wherever it is.                         *)
TakeBack(n) ==
    LET o == UndoOrder[n]
    IN  /\ prog = "UserBridge" /\ Running
        /\ o \in undo /\ \A i \in 1..n - 1 : UndoOrder[i] \notin undo
        /\ held' = held \ {o} /\ undo' = undo \ {o}
        /\ thread' = IF o = "thread0" THEN [thread EXCEPT ![0] = Idle] ELSE thread
        /\ status' = IF undo' = {} THEN "failed" ELSE status
        /\ UNCHANGED <<prog, way, pc, print_cs, kill_forwaders, handler, captured, came, went,
                       tried, console>>

(* What was freed before is freed again, and the program goes down at it.   *)
FreedAgain ==
    /\ Running /\ undo # {} /\ undo \cap held = {}
    /\ End("crashed") /\ UNCHANGED bridgeVars

-----------------------------------------------------------------------------
(* The network. *)

(* A packet comes in at adapter a, which captures it. *)
Come(a) ==
    LET p == Len(came[0]) + Len(came[1]) + 1
    IN  /\ prog = "UserBridge" /\ Running
        /\ adhandle(a) \in held /\ p <= MaxCaptured
        /\ came' = [came EXCEPT ![a] = Append(@, p)]
        /\ captured' = [captured EXCEPT ![a] = Append(@, p)]
        /\ UNCHANGED <<callVars, undo, thread, print_cs, kill_forwaders, handler, went, tried,
                       console>>

-----------------------------------------------------------------------------
(* CaptureAndForwardThread. *)
At(t, place) == prog = "UserBridge" /\ Running /\ thread[t].pc = place
Goto(t, place) == thread' = [thread EXCEPT ![t].pc = place]

LoopTestKill(t) ==
    /\ At(t, "test")
    /\ Goto(t, IF kill_forwaders THEN "end" ELSE "read")
    /\ UNCHANGED <<callVars, undo, print_cs, kill_forwaders, handler, captured, came, went, tried,
                   console>>

(* pcap_next_ex: a packet, or a time-out after half a second. *)
NextEx(t) ==
    /\ At(t, "read")
    /\ IF captured[t] = <<>> THEN Goto(t, "test") /\ UNCHANGED captured
       ELSE /\ thread' = [thread EXCEPT ![t].pc = "print", ![t].pkt = Head(captured[t])]
            /\ captured' = [captured EXCEPT ![t] = Tail(@)]
    /\ UNCHANGED <<callVars, undo, print_cs, kill_forwaders, handler, came, went, tried, console>>

NextExFails(t) ==
    /\ At(t, "read")
    /\ thread' = [thread EXCEPT ![t].pc = "end", ![t].res = -1]
    /\ UNCHANGED <<callVars, undo, print_cs, kill_forwaders, handler, captured, came, went, tried,
                   console>>

Printing == {"print", "error", "end"}
InPrint  == {"in_print", "in_error", "in_end"}
Within(place) ==
    CASE place = "print" -> "in_print" [] place = "error" -> "in_error" [] OTHER -> "in_end"

Enter(t) ==
    /\ print_cs = Nobody
    /\ \E place \in Printing : At(t, place) /\ Goto(t, Within(place))
    /\ print_cs' = t
    /\ UNCHANGED <<callVars, undo, kill_forwaders, handler, captured, came, went, tried, console>>

(* Slip: the section is not left behind the report of an error. *)
LeaveNotOnError(t) ==
    /\ \/ At(t, "in_print") /\ Goto(t, "send") /\ print_cs' = Nobody /\ UNCHANGED console
       \/ At(t, "in_error") /\ Goto(t, "test") /\ UNCHANGED <<print_cs, console>>
       \/ At(t, "in_end")   /\ Goto(t, "ended") /\ print_cs' = Nobody
          /\ console' = IF thread[t].res < 0 THEN console
                        ELSE [console EXCEPT ![t] = thread[t].n_fwd]
    /\ UNCHANGED <<callVars, undo, kill_forwaders, handler, captured, came, went, tried>>

(* What is printed at the end is the reason, and n_fwd if there is none.    *)
Leave(t) ==
    /\ \/ At(t, "in_print") /\ Goto(t, "send") /\ UNCHANGED console
       \/ At(t, "in_error") /\ Goto(t, "test") /\ UNCHANGED console
       \/ At(t, "in_end")   /\ Goto(t, "ended")
          /\ console' = IF thread[t].res < 0 THEN console
                        ELSE [console EXCEPT ![t] = thread[t].n_fwd]
    /\ print_cs' = Nobody
    /\ UNCHANGED <<callVars, undo, kill_forwaders, handler, captured, came, went, tried>>

Other(t) == 1 - t

SendOn(t) ==
    /\ At(t, "send")
    /\ LET p == thread[t].pkt
       IN  /\ tried' = [tried EXCEPT ![t] = Append(@, p)]
           /\ \/ /\ went' = [went EXCEPT ![Other(t)] = Append(@, p)]
                 /\ captured' = IF CaptureLocal
                                THEN [captured EXCEPT ![Other(t)] = Append(@, p)] ELSE captured
                 /\ thread' = [thread EXCEPT ![t].pc = "test", ![t].n_fwd = @ + 1]
              \/ /\ Goto(t, "error")
                 /\ UNCHANGED <<went, captured>>
    /\ UNCHANGED <<callVars, undo, print_cs, kill_forwaders, handler, came, console>>

Forward(t) ==
    LoopTestKill(t) \/ NextEx(t) \/ NextExFails(t) \/ Enter(t) \/ Leave(t) \/ SendOn(t)

-----------------------------------------------------------------------------
(* Ctrl+C. *)
CtrlC ==
    /\ Running /\ handler = "installed"
    /\ handler' = "waiting" /\ kill_forwaders' = TRUE
    /\ UNCHANGED <<callVars, undo, thread, print_cs, captured, came, went, tried, console>>

(* Ctrl+C before the handler is there ends the program at once, and so does *)
(* a second one, as a signal's handler is called but once.                  *)
CtrlCUnhandled ==
    prog = "UserBridge" /\ handler # "installed" /\ Interrupt /\ UNCHANGED bridgeVars

Gone(t) == thread[t].pc \in {"none", "ended"}
Exit == End("returned") /\ UNCHANGED bridgeVars

WaitAll     == Running /\ handler = "waiting" /\ (\A t \in Sides : Gone(t)) /\ Exit
(* WaitForMultipleObjects gives up after five seconds. *)
WaitTimeout == Running /\ handler = "waiting" /\ (\E t \in Sides : ~Gone(t)) /\ Exit

-----------------------------------------------------------------------------
BridgeIdle ==
    /\ undo = {}
    /\ thread = [t \in Sides |-> Idle] /\ print_cs = Nobody
    /\ kill_forwaders = FALSE /\ handler = "default"
    /\ captured = [a \in Sides |-> <<>>] /\ came = captured /\ went = captured
    /\ tried = captured /\ console = [t \in Sides |-> Unreported]

BridgeInit ==
    /\ Start(BridgeCalls)
    /\ BridgeIdle

BridgeNext ==
    \/ BridgeDoes \/ BridgeFails \/ (\E n \in DOMAIN UndoOrder : TakeBack(n))
    \/ (Awake /\ GoDown /\ UNCHANGED bridgeVars) \/ FreedAgain
    \/ CtrlC \/ CtrlCUnhandled \/ WaitAll \/ WaitTimeout
    \/ \E t \in Sides : Come(t) \/ Forward(t)

-----------------------------------------------------------------------------
(* Properties. *)

InHand(t) ==
    IF thread[t].pc \in {"print", "in_print", "send"} THEN <<thread[t].pkt>> ELSE <<>>

(* The variables hold values of their declared types. *)
BridgeTypeOK ==
    LET Packets == 1..MaxCaptured
    IN  /\ undo \subseteq CleanAll \cup {"thread0"}
        /\ thread \in [Sides -> [pc : Printing \cup InPrint \cup
                                       {"none", "test", "read", "send", "ended"},
                                 pkt : Packets \cup {None}, n_fwd : 0..MaxCaptured,
                                 res : {0, -1}]]
        /\ print_cs \in Sides \cup {Nobody} /\ kill_forwaders \in BOOLEAN
        /\ handler \in {"default", "installed", "waiting"}
        /\ {captured, came, went, tried} \subseteq [Sides -> Seq(Packets)]
        /\ console \in [Sides -> Unreported..MaxCaptured]

(* Each thread takes the packets from outside one by one and in order, and  *)
(* no others: what went out does not come back to be forwarded again.       *)
ForwardsWhatCame ==
    \A t \in Sides :
        thread[t] # Idle => came[t] = tried[t] \o InHand(t) \o captured[t]

(* A thread that reports how many packets it has forwarded reports as many  *)
(* as went out.                                                             *)
ReportsItsCount ==
    \A t \in Sides : console[t] # Unreported => console[t] = Len(went[Other(t)])

(* The two threads do not print at once. *)
PrintsAlone == \A t \in Sides : thread[t].pc \in InPrint => print_cs = t

(* While a thread runs, the adapters it works on stay open. *)
HandlesOutliveThreads == \A t \in Sides : ~Gone(t) => AllHandles \subseteq held

(* What comes in at one adapter goes out at the other, and the two threads  *)
(* keep out of each other's way and of main's.                              *)
BridgesSafely ==
    ForwardsWhatCame /\ ReportsItsCount /\ PrintsAlone /\ HandlesOutliveThreads

(* After Ctrl+C the threads end by themselves and the program with them,    *)
(* without the wait running out.                                            *)
CtrlCEnds == handler = "waiting" ~> ~Running

(* The packets captured are forwarded, or tried, while their thread runs.   *)
Forwarded ==
    \A t \in Sides : captured[t] # <<>> /\ ~Gone(t) ~> captured[t] = <<>> \/ Gone(t) \/ ~Running

(* Neither the threads nor the program that waits for them get stuck.       *)
NeverStuck == CtrlCEnds /\ Forwarded
=============================================================================
