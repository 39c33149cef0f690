--------------------------- MODULE WinPcapProofs ---------------------------
(***************************************************************************)
(* Theorems about the programs that come with WinPcap, for every number of *)
(* packets and records, every size of a record and every clock: UserBridge *)
(* first, whose invariant is BridgeInv, then the programs that capture or  *)
(* read a file, whose invariant is ExamplesInv, then everybody's types,    *)
(* the programs for packet.dll, whose invariant is PacketInv, and last     *)
(* what every program holds at each of its calls, HeldInv.                 *)
(***************************************************************************)
EXTENDS WinPcap, PlacesProofs

-----------------------------------------------------------------------------
(* The calls of UserBridge's main.                                         *)

(* UserBridge is run with its own list of calls.                            *)
LEMMA BridgeProgram == Programs["UserBridge"] = Bridge
  <1>1. "UserBridge" \notin DOMAIN PcapCalls /\ "UserBridge" \notin DOMAIN PacketCalls
    BY DEF PcapCalls, PacketCalls
  <1>2. DOMAIN BridgeCalls = {"UserBridge"} /\ BridgeCalls["UserBridge"] = Bridge
    BY DEF BridgeCalls
  <1> QED BY <1>1, <1>2 DEF Programs

(* Its calls, one by one.                                                   *)
LEMMA BridgeCallList ==
    ASSUME prog = "UserBridge", way = 1
    PROVE  /\ Len(calls) = 20
           /\ calls[1] = Find /\ calls[2] = Checks("no_devices", {"alldevs"}, {"alldevs"})
           /\ calls[3] = Checks("inum1", {"alldevs"}, {"alldevs"})
           /\ calls[4] = Checks("inum2", {"alldevs"}, {"alldevs"})
           /\ calls[5] = Checks("inums_differ", {"alldevs"}, {"alldevs"})
           /\ calls[6] = OpenChosen("adhandle1", {"alldevs"})
           /\ calls[7] = Risky(Uses("netmask1", {"alldevs"}))
           /\ calls[8] = OpenChosen("adhandle2", {"alldevs"})
           /\ calls[9] = Risky(Uses("netmask2", {"alldevs"}))
           /\ calls[10] = Compile("adhandle1", CleanAll)
           /\ calls[11] = SetFilter("adhandle1", CleanAll)
           /\ calls[12] = Compile("adhandle2", CleanAll)
           /\ calls[13] = SetFilter("adhandle2", CleanAll)
           /\ calls[14] = FreeDevs /\ calls[15] = Uses("InitializeCriticalSection", {})
           /\ calls[16] = CreateThread("thread0", {})
           /\ calls[17] = CreateThread("thread1", {"thread0"})
           /\ calls[18] = Uses("signal", {}) /\ calls[19] = Risky(Listening)
           /\ calls[20] = Uses("Sleep", {})
  <1>1. calls = Bridge[1]
    BY BridgeProgram DEF calls
  <1> QED BY <1>1 DEF Bridge

(* The fields of a call that cannot fail.                                  *)
LEMMA UsesFields ==
    ASSUME NEW name, NEW objects
    PROVE  /\ Uses(name, objects).name = name
           /\ Uses(name, objects).gets = {}
           /\ Uses(name, objects).drops = {}
           /\ Uses(name, objects).cleanup = {}
           /\ ~Uses(name, objects).fails
  BY DEF Uses, Checks, Gets, Drops

(* The fields of a call that may fail and hands out nothing.               *)
LEMMA ChecksFields ==
    ASSUME NEW name, NEW objects, NEW cleanup
    PROVE  /\ Checks(name, objects, cleanup).name = name
           /\ Checks(name, objects, cleanup).gets = {}
           /\ Checks(name, objects, cleanup).drops = {}
           /\ Checks(name, objects, cleanup).cleanup = cleanup
  BY DEF Uses, Checks, Gets, Drops

(* The fields of a call that hands out an object.                          *)
LEMMA GetsFields ==
    ASSUME NEW name, NEW o, NEW objects, NEW cleanup
    PROVE  /\ Gets(name, o, objects, cleanup).name = name
           /\ Gets(name, o, objects, cleanup).gets = {o}
           /\ Gets(name, o, objects, cleanup).drops = {}
           /\ Gets(name, o, objects, cleanup).cleanup = cleanup
  BY DEF Uses, Checks, Gets, Drops

(* The fields of a call that takes an object back.                         *)
LEMMA DropsFields ==
    ASSUME NEW name, NEW o
    PROVE  /\ Drops(name, o).name = name
           /\ Drops(name, o).gets = {}
           /\ Drops(name, o).drops = {o}
           /\ Drops(name, o).cleanup = {}
  BY DEF Uses, Checks, Gets, Drops

(* A call at which the program may go down has the fields it had.           *)
LEMMA RiskyFields ==
    ASSUME NEW name, NEW objects
    PROVE  /\ Risky(Uses(name, objects)).name = name
           /\ Risky(Uses(name, objects)).gets = {}
           /\ Risky(Uses(name, objects)).drops = {}
           /\ Risky(Uses(name, objects)).cleanup = {}
           /\ ~Risky(Uses(name, objects)).fails
  BY DEF Risky, Uses

(* What UserBridge's calls hand out, take back and clean up.                *)
BridgeCall(k, c) ==
    /\ c.name = "CreateThread" <=> k \in {16, 17}
    /\ c.name = "Sleep" <=> k = 20
    /\ c.name = "signal" => k = 18
    /\ k = 6 => c.gets = {"adhandle1"}
    /\ k = 8 => c.gets = {"adhandle2"}
    /\ k = 16 => c.gets = {"thread0"}
    /\ k = 17 => c.gets = {"thread1"}
    /\ c.drops \subseteq {"alldevs"}
    /\ c.cleanup \subseteq CleanAll \cup {"thread0"}
    /\ k = 17 => "thread0" \in c.cleanup
    /\ k >= 18 => ~c.fails /\ c.cleanup = {} /\ c.gets = {} /\ c.drops = {}

(* Whatever call main is at.                                                *)
LEMMA BridgeCallFacts ==
    ASSUME prog = "UserBridge", way = 1, pc \in 1..20
    PROVE  Len(calls) = 20 /\ BridgeCall(pc, Call)
  <1>1. Call = calls[pc]
    BY DEF Call
  <1>2. \/ pc = 1 \/ pc = 2 \/ pc = 3 \/ pc = 4 \/ pc = 5 \/ pc = 6 \/ pc = 7 \/ pc = 8 \/ pc = 9
        \/ pc = 10 \/ pc = 11 \/ pc = 12 \/ pc = 13 \/ pc = 14 \/ pc = 15 \/ pc = 16 \/ pc = 17
        \/ pc = 18 \/ pc = 19 \/ pc = 20
    OBVIOUS
  <1>7. CleanAll = {"adhandle1", "adhandle2", "alldevs"}
    BY DEF CleanAll, AllHandles
  <1>3. /\ BridgeCall(1, Find)
        /\ BridgeCall(14, FreeDevs)
    BY UsesFields, ChecksFields, GetsFields, DropsFields DEF BridgeCall, Find, FreeDevs
  <1>4. /\ BridgeCall(2, Checks("no_devices", {"alldevs"}, {"alldevs"}))
        /\ BridgeCall(3, Checks("inum1", {"alldevs"}, {"alldevs"}))
        /\ BridgeCall(4, Checks("inum2", {"alldevs"}, {"alldevs"}))
        /\ BridgeCall(5, Checks("inums_differ", {"alldevs"}, {"alldevs"}))
    <2> DEFINE check(k, name) == BridgeCall(k, Checks(name, {"alldevs"}, {"alldevs"}))
    <2>1. check(2, "no_devices")
      BY ChecksFields, <1>7 DEF BridgeCall
    <2>2. check(3, "inum1")
      BY ChecksFields, <1>7 DEF BridgeCall
    <2>3. check(4, "inum2")
      BY ChecksFields, <1>7 DEF BridgeCall
    <2>4. check(5, "inums_differ")
      BY ChecksFields, <1>7 DEF BridgeCall
    <2> QED BY <2>1, <2>2, <2>3, <2>4
  <1>5. /\ BridgeCall(7, Risky(Uses("netmask1", {"alldevs"})))
        /\ BridgeCall(9, Risky(Uses("netmask2", {"alldevs"})))
        /\ BridgeCall(15, Uses("InitializeCriticalSection", {}))
        /\ BridgeCall(18, Uses("signal", {}))
        /\ BridgeCall(19, Risky(Listening))
        /\ BridgeCall(20, Uses("Sleep", {}))
    BY UsesFields, RiskyFields DEF BridgeCall, Listening
  <1>6. /\ BridgeCall(6, OpenChosen("adhandle1", {"alldevs"}))
        /\ BridgeCall(8, OpenChosen("adhandle2", {"alldevs"}))
    BY UsesFields, ChecksFields, GetsFields, DropsFields, <1>7 DEF BridgeCall, OpenChosen
  <1>8. /\ BridgeCall(10, Compile("adhandle1", CleanAll))
        /\ BridgeCall(12, Compile("adhandle2", CleanAll))
    BY UsesFields, ChecksFields, GetsFields, DropsFields, <1>7 DEF BridgeCall, Compile
  <1>9. /\ BridgeCall(11, SetFilter("adhandle1", CleanAll))
        /\ BridgeCall(13, SetFilter("adhandle2", CleanAll))
    BY UsesFields, ChecksFields, GetsFields, DropsFields, <1>7 DEF BridgeCall, SetFilter
  <1>10. /\ BridgeCall(16, CreateThread("thread0", {}))
         /\ BridgeCall(17, CreateThread("thread1", {"thread0"}))
    BY UsesFields, ChecksFields, GetsFields, DropsFields, <1>7 DEF BridgeCall, CreateThread
  <1>11. BridgeCall(pc, calls[pc])
    <2>1. CASE pc \in {1, 2, 3, 4, 5}
      BY <2>1, <1>3, <1>4, BridgeCallList
    <2>2. CASE pc \in {6, 7, 8, 9}
      BY <2>2, <1>5, <1>6, BridgeCallList
    <2>3. CASE pc \in {10, 11, 12, 13}
      BY <2>3, <1>8, <1>9, BridgeCallList
    <2>4. CASE pc \in {14, 15, 16, 17}
      BY <2>4, <1>3, <1>5, <1>10, BridgeCallList
    <2>5. CASE pc \in {18, 19, 20}
      BY <2>5, <1>5, BridgeCallList
    <2> QED BY <1>2, <2>1, <2>2, <2>3, <2>4, <2>5
  <1> QED BY <1>1, <1>11, BridgeCallList

-----------------------------------------------------------------------------
(* The programs keep to themselves.                                        *)

(* No step makes another program of the one that runs.                      *)
LEMMA ProgramStays == [Next]_winVars => UNCHANGED <<prog, way>>
  <1> SUFFICES ASSUME [Next]_winVars PROVE UNCHANGED <<prog, way>>
    OBVIOUS
  <1> USE DEF Succeed, Fail, End, Interrupt, callVars
  <1>1. CASE OfPcap(PcapNext)
    <2>1. CASE Main
      <3>1. CASE ReadPacket
        BY <3>1 DEF ReadPacket, HandleSample, HandleConsistent, HandleOther
      <3>2. CASE ReadRecord
        BY <3>2 DEF ReadRecord
      <3>3. CASE ReadError
        BY <3>3 DEF ReadError
      <3> QED BY <2>1, <3>1, <3>2, <3>3 DEF Main, DoCall, FailCall, GoDown, ReadNothing, ReadEnd
    <2> QED BY <1>1, <2>1 DEF OfPcap, PcapNext, Arrive, Grow
  <1>2. CASE OfPacket(PacketNext)
    <2>1. CASE PacketMain
      <3>1. CASE SplitList
        BY <3>1 DEF SplitList
      <3>2. CASE PrintPacket
        BY <3>2 DEF PrintPacket
      <3> QED BY <2>1, <3>1, <3>2
              DEF PacketMain, Plain, GoDown, SelectAdapter, Receive, ReceiveFails, PrintEnd, LoopEnd
    <2> QED BY <1>2, <2>1 DEF OfPacket, PacketNext, PressKey
  <1>3. CASE OfBridge(BridgeNext)
    <2>1. ASSUME NEW t \in Sides, Come(t) \/ Forward(t) PROVE UNCHANGED <<prog, way>>
      BY <2>1 DEF Come, Forward, LoopTestKill, NextEx, NextExFails, Enter, Leave, SendOn
    <2>2. ASSUME NEW n \in DOMAIN UndoOrder, TakeBack(n) PROVE UNCHANGED <<prog, way>>
      BY <2>2 DEF TakeBack
    <2> QED BY <1>3, <2>1, <2>2
            DEF OfBridge, BridgeNext, BridgeDoes, BridgeFails, FreedAgain, GoDown, CtrlC, CtrlCUnhandled,
                WaitAll, WaitTimeout, Exit
  <1>4. CASE UNCHANGED winVars
    BY <1>4 DEF winVars
  <1> QED BY <1>1, <1>2, <1>3, <1>4 DEF Next

-----------------------------------------------------------------------------
(* The invariant of UserBridge.                                            *)

Points == Printing \cup InPrint \cup {"none", "test", "read", "send", "ended"}

BridgeTyped ==
    /\ thread \in [Sides -> [pc : Points, pkt : Nat, n_fwd : Nat, res : {0, -1}]]
    /\ print_cs \in Sides \cup {Nobody}
    /\ captured \in [Sides -> Seq(Nat)] /\ came \in [Sides -> Seq(Nat)]
    /\ went \in [Sides -> Seq(Nat)] /\ tried \in [Sides -> Seq(Nat)]
    /\ console \in [Sides -> Int]

(* main has opened the adapters before it starts the threads on them, and   *)
(* the threads are there only behind the calls that create them.            *)
MainFacts ==
    /\ pc > 6 => "adhandle1" \in held
    /\ pc > 8 => "adhandle2" \in held
    /\ pc <= 16 => thread[0] = Idle
    /\ pc <= 17 => thread[1] = Idle

(* Where main gives up, the adapters are open until the first thread, the   *)
(* only one there may be, is taken back.                                    *)
UndoFacts ==
    /\ thread[1] = Idle
    /\ thread[0] # Idle => "thread0" \in undo /\ AllHandles \subseteq held

MainInv ==
    /\ way = 1 /\ pc \in 1..20 /\ undo \subseteq CleanAll \cup {"thread0"}
    /\ Running /\ undo = {} => MainFacts
    /\ undo # {} => UndoFacts
    /\ HandlesOutliveThreads

(* main has not terminated the thread. *)
Kept(t) == (Running /\ undo = {}) \/ thread[t] # Idle

(* What came in was tried, is in hand or waits, and n_fwd counts what went  *)
(* out, unless main has terminated the thread.                              *)
ThreadInv(t) ==
    Kept(t) =>
        /\ came[t] = tried[t] \o InHand(t) \o captured[t]
        /\ thread[t].n_fwd = Len(went[Other(t)])

(* A thread that has reported has ended.                                    *)
ConsoleInv(t) ==
    console[t] # Unreported =>
        /\ console[t] = Len(went[Other(t)])
        /\ Kept(t) => thread[t].pc = "ended"

PrintInv(t) == thread[t].pc \in InPrint => print_cs = t

ThreadsInv == \A t \in Sides : ThreadInv(t) /\ ConsoleInv(t) /\ PrintInv(t)

IsBridge == prog = "UserBridge"

BridgeInv ==
    /\ ~IsBridge => BridgeIdle
    /\ IsBridge => BridgeTyped /\ MainInv /\ ThreadsInv

-----------------------------------------------------------------------------
(* The invariant holds at the start.                                       *)

(* UserBridge starts with nothing open, and the other programs without it.  *)
LEMMA InitBridge == Init => BridgeInv
  <1> SUFFICES ASSUME Init PROVE BridgeInv
    OBVIOUS
  <1>1. "UserBridge" \notin DOMAIN PcapCalls /\ "UserBridge" \notin DOMAIN PacketCalls
    BY DEF PcapCalls, PacketCalls
  <1>2. BridgeIdle
    BY DEF Init, BridgeInit
  <1>3. ASSUME IsBridge PROVE BridgeTyped /\ MainInv /\ ThreadsInv
    <2>1. BridgeInit
      BY <1>1, <1>3 DEF Init, PcapInit, PacketInit, Start, IsBridge
    <2>2. way = 1 /\ pc = 1 /\ held = {} /\ status = "running"
      BY <1>3, <2>1, BridgeProgram DEF BridgeInit, Start, IsBridge, BridgeCalls, Bridge
    <2>3. /\ undo = {} /\ thread = [t \in Sides |-> Idle] /\ print_cs = Nobody
          /\ captured = [a \in Sides |-> <<>>] /\ came = [a \in Sides |-> <<>>]
          /\ went = [a \in Sides |-> <<>>] /\ tried = [a \in Sides |-> <<>>]
          /\ console = [t \in Sides |-> Unreported]
      BY <1>2 DEF BridgeIdle
    <2>4. <<>> \in Seq(Nat) /\ Len(<<>>) = 0 /\ <<>> \o <<>> = <<>>
      OBVIOUS
    <2>5. BridgeTyped
      <3>1. Idle \in [pc : Points, pkt : Nat, n_fwd : Nat, res : {0, -1}]
        BY DEF Idle, Points, None
      <3> QED BY <2>3, <2>4, <3>1 DEF BridgeTyped, Unreported
    <2>6. MainInv
      BY <2>2, <2>3 DEF MainInv, MainFacts, HandlesOutliveThreads, Gone, Idle, Sides
    <2>7. ThreadsInv
      BY <2>3, <2>4
         DEF ThreadsInv, ThreadInv, ConsoleInv, PrintInv, InHand, InPrint, Idle, Other, Sides
    <2> QED BY <2>5, <2>6, <2>7
  <1> QED BY <1>2, <1>3 DEF BridgeInv

-----------------------------------------------------------------------------
(* Every step keeps the invariant.                                         *)

(* The other programs do not touch what UserBridge keeps.                   *)
LEMMA OtherProgram ==
    ASSUME BridgeInv, ~IsBridge, [Next]_winVars
    PROVE  BridgeInv'
  <1>1. ~IsBridge'
    BY ProgramStays DEF IsBridge
  <1>2. UNCHANGED bridgeVars
    BY DEF Next, OfPcap, OfPacket, OfBridge, BridgeCalls, IsBridge, winVars
  <1>3. BridgeIdle'
    BY <1>2 DEF BridgeInv, BridgeIdle, bridgeVars, threadVars
  <1> QED BY <1>1, <1>3 DEF BridgeInv

(* The invariant of one thread, while the step is the other's or main's.    *)
LEMMA LeftAlone ==
    ASSUME NEW t \in Sides, ThreadInv(t), ConsoleInv(t),
           thread'[t] = thread[t], Running' /\ undo' = {} => Running /\ undo = {},
           came'[t] = came[t], tried'[t] = tried[t], captured'[t] = captured[t],
           went'[Other(t)] = went[Other(t)], console'[t] = console[t]
    PROVE  ThreadInv(t)' /\ ConsoleInv(t)'
  <1>1. Kept(t)' => Kept(t)
    BY DEF Kept
  <1>2. InHand(t)' = InHand(t)
    BY DEF InHand
  <1>3. ThreadInv(t)'
    BY <1>1, <1>2 DEF ThreadInv
  <1>4. ConsoleInv(t)'
    BY <1>1 DEF ConsoleInv
  <1> QED BY <1>3, <1>4

(* A running thread's own steps leave main where it is.                     *)
LEMMA MainLeftAlone ==
    ASSUME MainInv, NEW t \in Sides, ~Gone(t), UNCHANGED <<callVars, undo>>,
           \A u \in Sides : u # t => thread'[u] = thread[u]
    PROVE  MainInv'
  <1>1. thread[t] # Idle
    BY DEF Gone, Idle
  <1>2. ASSUME NEW u \in Sides, ~Gone(u)' PROVE AllHandles \subseteq held
    <2>1. CASE u = t
      BY <2>1 DEF MainInv, HandlesOutliveThreads
    <2>2. CASE u # t
      BY <1>2, <2>2 DEF MainInv, HandlesOutliveThreads, Gone
    <2> QED BY <2>1, <2>2
  <1>3. HandlesOutliveThreads'
    BY <1>2 DEF HandlesOutliveThreads, callVars
  <1>4. Running' = Running /\ pc' = pc /\ held' = held /\ way' = way /\ undo' = undo
    BY DEF callVars, Running
  <1>5. ASSUME NEW u \in Sides, thread[u] = Idle PROVE thread'[u] = Idle
    BY <1>1, <1>5
  <1>6. (Running /\ undo = {} => MainFacts)'
    BY <1>4, <1>5 DEF MainInv, MainFacts, Sides
  <1>7. (undo # {} => UndoFacts)'
    BY <1>4, <1>5 DEF MainInv, UndoFacts, Sides
  <1> QED BY <1>3, <1>4, <1>6, <1>7 DEF MainInv

(* A thread goes to another place, and the other thread stays.              *)
LEMMA Goes ==
    ASSUME BridgeTyped, NEW t \in Sides, NEW place \in Points,
           NEW new, new = [thread EXCEPT ![t].pc = place]
    PROVE  /\ new \in [Sides -> [pc : Points, pkt : Nat, n_fwd : Nat, res : {0, -1}]]
           /\ new[t] = [thread[t] EXCEPT !.pc = place]
           /\ new[t].pc = place /\ new[t].pkt = thread[t].pkt
           /\ new[t].n_fwd = thread[t].n_fwd /\ new[t].res = thread[t].res
           /\ \A u \in Sides : u # t => new[u] = thread[u]
  BY DEF BridgeTyped

(* BridgeDoes, at each of main's calls: main goes on, with what it was      *)
(* handed, and CreateThread sets its thread going on adapters that are open.*)
LEMMA DoesKeeps ==
    ASSUME BridgeTyped, MainInv, ThreadsInv, BridgeDoes
    PROVE  BridgeTyped' /\ MainInv' /\ ThreadsInv'
  <1> USE DEF BridgeDoes, Awake
  <1>1. /\ IsBridge /\ Running /\ way = 1 /\ pc \in 1..20 /\ Call.name # "Sleep"
        /\ undo = {} /\ undo' = {} /\ MainFacts
    BY DEF MainInv, IsBridge
  <1>2. Len(calls) = 20 /\ BridgeCall(pc, Call)
    BY <1>1, BridgeCallFacts DEF IsBridge
  <1>3. pc \in 1..19
    BY <1>1, <1>2 DEF BridgeCall
  <1>4. /\ pc' = pc + 1 /\ status' = status /\ way' = way
        /\ held' = (held \cup Call.gets) \ Call.drops
    BY <1>2, <1>3 DEF Succeed, Advance
  <1>5. Running'
    BY <1>1, <1>4 DEF Running
  <1>6. /\ pc = 16 => thread' = [thread EXCEPT ![0].pc = "test"]
        /\ pc = 17 => thread' = [thread EXCEPT ![1].pc = "test"]
        /\ pc \notin {16, 17} => thread' = thread
    BY <1>2 DEF BridgeCall
  <1>7. /\ "adhandle1" \in held => "adhandle1" \in held'
        /\ "adhandle2" \in held => "adhandle2" \in held'
        /\ pc = 6 => "adhandle1" \in held'
        /\ pc = 8 => "adhandle2" \in held'
    BY <1>2, <1>4 DEF BridgeCall
  <1>8. /\ pc <= 16 => thread[0] = Idle
        /\ pc <= 17 => thread[1] = Idle
        /\ pc > 6 => "adhandle1" \in held
        /\ pc > 8 => "adhandle2" \in held
    BY <1>1 DEF MainFacts
  <1>9. BridgeTyped'
    <2>1. thread' \in [Sides -> [pc : Points, pkt : Nat, n_fwd : Nat, res : {0, -1}]]
      <3>1. ASSUME NEW u \in Sides
            PROVE  [thread EXCEPT ![u].pc = "test"]
                       \in [Sides -> [pc : Points, pkt : Nat, n_fwd : Nat, res : {0, -1}]]
        <4>1. "test" \in Points
          BY DEF Points
        <4> QED BY <4>1, Goes
      <3>2. CASE pc = 16
        BY <1>6, <3>1, <3>2 DEF Sides
      <3>3. CASE pc = 17
        BY <1>6, <3>1, <3>3 DEF Sides
      <3>4. CASE pc \notin {16, 17}
        BY <1>6, <3>4 DEF BridgeTyped
      <3> QED BY <3>2, <3>3, <3>4
    <2> QED BY <2>1 DEF BridgeTyped
  <1>10. MainInv'
    <2>1. /\ pc' > 6 => "adhandle1" \in held'
          /\ pc' > 8 => "adhandle2" \in held'
      BY <1>3, <1>4, <1>7, <1>8
    <2>2. /\ pc' <= 16 => thread'[0] = Idle
          /\ pc' <= 17 => thread'[1] = Idle
      <3>1. pc' <= 16 => pc \notin {16, 17} /\ pc <= 16
        BY <1>3, <1>4
      <3>2. pc' <= 17 => pc <= 16
        BY <1>3, <1>4
      <3>3. pc <= 16 => thread'[1] = thread[1]
        <4>1. pc = 16 => thread'[1] = thread[1]
          BY <1>6, Goes DEF Points, Sides
        <4> QED BY <1>3, <1>6, <4>1
      <3> QED BY <1>3, <1>6, <1>8, <3>1, <3>2, <3>3
    <2>3. HandlesOutliveThreads'
      <3> SUFFICES ASSUME NEW t \in Sides, ~Gone(t)' PROVE AllHandles \subseteq held'
        BY DEF HandlesOutliveThreads
      <3>1. pc' > 16
        BY <1>3, <1>4, <2>2 DEF Sides, Gone, Idle
      <3> QED BY <1>3, <1>4, <2>1, <3>1 DEF AllHandles
    <2> QED BY <1>1, <1>3, <1>4, <2>1, <2>2, <2>3 DEF MainInv, MainFacts
  <1>11. ASSUME NEW t \in Sides PROVE ThreadInv(t)' /\ ConsoleInv(t)' /\ PrintInv(t)'
    <2>1. CASE thread'[t] = thread[t]
      BY <1>1, <1>4, <2>1, LeftAlone DEF ThreadsInv, PrintInv
    <2>2. CASE thread'[t] # thread[t]
      <3>1. thread[t] = Idle /\ thread'[t] = [Idle EXCEPT !.pc = "test"]
        <4>1. CASE pc = 16
          <5>1. /\ thread'[0] = [thread[0] EXCEPT !.pc = "test"]
                /\ thread'[1] = thread[1]
            BY <1>6, <4>1, Goes DEF Points, Sides
          <5> QED BY <1>8, <2>2, <4>1, <5>1 DEF Sides
        <4>2. CASE pc = 17
          <5>1. /\ thread'[1] = [thread[1] EXCEPT !.pc = "test"]
                /\ thread'[0] = thread[0]
            BY <1>6, <4>2, Goes DEF Points, Sides
          <5> QED BY <1>8, <2>2, <4>2, <5>1 DEF Sides
        <4> QED BY <1>6, <2>2, <4>1, <4>2
      <3>2. thread'[t].pc = "test" /\ thread'[t].n_fwd = 0
        BY <3>1 DEF Idle
      <3>3. InHand(t) = <<>> /\ InHand(t)' = <<>>
        BY <3>1, <3>2 DEF InHand, Idle
      <3>4. came[t] = tried[t] \o InHand(t) \o captured[t] /\ Len(went[Other(t)]) = 0
        <4>1. thread[t].n_fwd = 0
          BY <3>1 DEF Idle
        <4> QED BY <1>1, <4>1 DEF ThreadsInv, ThreadInv, Kept
      <3>5. ThreadInv(t)'
        BY <3>2, <3>3, <3>4 DEF ThreadInv
      <3>6. console[t] = Unreported
        BY <1>1, <3>1 DEF ThreadsInv, ConsoleInv, Kept, Idle
      <3> QED BY <3>2, <3>5, <3>6 DEF ConsoleInv, PrintInv, InPrint
    <2> QED BY <2>1, <2>2
  <1> QED BY <1>9, <1>10, <1>11 DEF ThreadsInv

(* BridgeFails, where main gives up: if a thread runs already, it is the    *)
(* first, and one of what is to be taken back.                              *)
LEMMA FailsKeeps ==
    ASSUME BridgeTyped, MainInv, ThreadsInv, BridgeFails
    PROVE  BridgeTyped' /\ MainInv' /\ ThreadsInv'
  <1> USE DEF BridgeFails, Awake
  <1>1. /\ IsBridge /\ Running /\ way = 1 /\ pc \in 1..20 /\ Call.fails
        /\ undo = {} /\ MainFacts
    BY DEF MainInv, IsBridge
  <1>2. BridgeCall(pc, Call)
    BY <1>1, BridgeCallFacts DEF IsBridge
  <1>3. pc \in 1..17
    BY <1>1, <1>2 DEF BridgeCall
  <1>4. /\ UNCHANGED <<way, pc, held, thread, print_cs, captured, came, went, tried, console>>
        /\ undo' = Call.cleanup /\ (undo' = {} => ~Running') /\ (undo' # {} => Running')
    BY <1>1 DEF threadVars, Running
  <1>5. BridgeTyped'
    BY <1>4 DEF BridgeTyped
  <1>6. MainInv'
    <2>1. (undo # {} => UndoFacts)'
      <3>1. thread[1] = Idle /\ (thread[0] # Idle => pc = 17 /\ AllHandles \subseteq held)
        BY <1>1, <1>3 DEF MainFacts, AllHandles
      <3>2. pc = 17 => "thread0" \in undo'
        BY <1>2, <1>4 DEF BridgeCall
      <3> QED BY <1>4, <3>1, <3>2 DEF UndoFacts
    <2>2. undo' \subseteq CleanAll \cup {"thread0"}
      BY <1>2, <1>4 DEF BridgeCall
    <2>3. HandlesOutliveThreads'
      BY <1>4 DEF MainInv, HandlesOutliveThreads, Gone
    <2> QED BY <1>1, <1>4, <2>1, <2>2, <2>3 DEF MainInv, CleanAll
  <1>7. ASSUME NEW t \in Sides PROVE ThreadInv(t)' /\ ConsoleInv(t)' /\ PrintInv(t)'
    BY <1>1, <1>4, LeftAlone DEF ThreadsInv, PrintInv
  <1> QED BY <1>5, <1>6, <1>7 DEF ThreadsInv

(* TakeBack: the first thread is ended, or it has been when an adapter is   *)
(* closed.                                                                  *)
LEMMA TakeBackKeeps ==
    ASSUME BridgeTyped, MainInv, ThreadsInv, NEW n \in DOMAIN UndoOrder, TakeBack(n)
    PROVE  BridgeTyped' /\ MainInv' /\ ThreadsInv'
  <1>1. /\ DOMAIN UndoOrder = 1..4 /\ UndoOrder[1] = "thread0"
        /\ UndoOrder[2] # "thread0" /\ UndoOrder[3] # "thread0" /\ UndoOrder[4] # "thread0"
    BY DEF UndoOrder
  <1> DEFINE o == UndoOrder[n]
  <1>2. /\ o \in undo /\ undo' = undo \ {o} /\ held' = held \ {o}
        /\ \A i \in 1..n - 1 : UndoOrder[i] \notin undo
        /\ thread' = IF o = "thread0" THEN [thread EXCEPT ![0] = Idle] ELSE thread
        /\ UNCHANGED <<way, pc, print_cs, captured, came, went, tried, console>>
        /\ (undo' = {} => ~Running') /\ (undo' # {} => Running')
    BY DEF TakeBack, Running
  <1> HIDE DEF o
  <1>3. UndoFacts /\ way = 1 /\ pc \in 1..20 /\ undo \subseteq CleanAll \cup {"thread0"}
    BY <1>2 DEF MainInv
  <1>4. thread'[0] = Idle /\ thread'[1] = Idle
    <2>1. CASE n = 1
      <3>1. thread' = [thread EXCEPT ![0] = Idle]
        BY <1>1, <1>2, <2>1 DEF o
      <3> QED BY <1>3, <3>1 DEF UndoFacts, BridgeTyped, Sides
    <2>2. CASE n # 1
      <3>1. n \in 2..4 /\ 1 \in 1..n - 1
        BY <1>1, <2>2
      <3>2. "thread0" \notin undo
        BY <1>1, <1>2, <3>1
      <3>3. o # "thread0"
        BY <1>2, <3>2
      <3> QED BY <1>2, <1>3, <3>2, <3>3 DEF UndoFacts
    <2> QED BY <2>1, <2>2
  <1>5. \A t \in Sides : thread'[t] = Idle
    BY <1>4 DEF Sides
  <1>6. BridgeTyped'
    <2>1. Idle \in [pc : Points, pkt : Nat, n_fwd : Nat, res : {0, -1}]
      BY DEF Idle, Points, None
    <2>2. DOMAIN thread' = Sides /\ thread' = [t \in Sides |-> thread'[t]]
      BY <1>2 DEF BridgeTyped
    <2>3. thread' \in [Sides -> [pc : Points, pkt : Nat, n_fwd : Nat, res : {0, -1}]]
      BY <1>5, <2>1, <2>2
    <2> QED BY <1>2, <2>3 DEF BridgeTyped
  <1>7. MainInv'
    <2>1. (undo # {} => UndoFacts)'
      BY <1>2, <1>4 DEF UndoFacts
    <2>2. (Running /\ undo = {} => MainFacts)'
      BY <1>2
    <2>3. HandlesOutliveThreads'
      BY <1>5 DEF HandlesOutliveThreads, Gone, Idle
    <2>4. way' = 1 /\ pc' \in 1..20 /\ undo' \subseteq CleanAll \cup {"thread0"}
      BY <1>2, <1>3 DEF CleanAll
    <2> QED BY <2>1, <2>2, <2>3, <2>4 DEF MainInv
  <1>8. ASSUME NEW t \in Sides PROVE ThreadInv(t)' /\ ConsoleInv(t)' /\ PrintInv(t)'
    <2>1. ~Kept(t)'
      BY <1>2, <1>5 DEF Kept
    <2>2. thread'[t].pc = "none"
      BY <1>5 DEF Idle
    <2>3. ConsoleInv(t)
      BY DEF ThreadsInv
    <2> QED BY <1>2, <2>1, <2>2, <2>3 DEF ThreadInv, ConsoleInv, PrintInv, InPrint
  <1> QED BY <1>6, <1>7, <1>8 DEF ThreadsInv

(* Ctrl+C and the ends of the program: the threads are left as they are.    *)
LEMMA EndKeeps ==
    ASSUME BridgeTyped, MainInv, ThreadsInv,
           \/ CtrlC \/ CtrlCUnhandled \/ WaitAll \/ WaitTimeout
           \/ Awake /\ GoDown /\ UNCHANGED bridgeVars
           \/ FreedAgain
    PROVE  BridgeTyped' /\ MainInv' /\ ThreadsInv'
  <1>1. /\ UNCHANGED <<way, pc, held, undo, thread, print_cs, captured, came, went, tried, console>>
        /\ status' = status \/ ~Running'
    BY DEF CtrlC, CtrlCUnhandled, WaitAll, WaitTimeout, GoDown, FreedAgain, Exit, Interrupt, End, callVars,
           bridgeVars, threadVars, Running
  <1>2. Running' => Running
    BY <1>1 DEF Running
  <1>3. BridgeTyped'
    BY <1>1 DEF BridgeTyped
  <1>4. MainInv'
    BY <1>1, <1>2 DEF MainInv, MainFacts, UndoFacts, HandlesOutliveThreads, Gone
  <1>5. ASSUME NEW t \in Sides PROVE ThreadInv(t)' /\ ConsoleInv(t)' /\ PrintInv(t)'
    BY <1>1, <1>2, LeftAlone DEF ThreadsInv, PrintInv
  <1> QED BY <1>3, <1>4, <1>5 DEF ThreadsInv

-----------------------------------------------------------------------------
(* The network and the threads.                                            *)

(* What joins on at the end, and what is taken from the front.              *)
LEMMA JoinLast ==
    ASSUME NEW s \in Seq(Nat), NEW q \in Seq(Nat), NEW p \in Nat
    PROVE  s \o Append(q, p) = Append(s \o q, p) /\ Append(q, p) \in Seq(Nat)
  OBVIOUS

(* The first that waits is taken in hand.                                   *)
LEMMA TakeFirst ==
    ASSUME NEW s \in Seq(Nat), NEW q \in Seq(Nat), q # <<>>
    PROVE  /\ s \o <<>> \o q = s \o <<Head(q)>> \o Tail(q)
           /\ Head(q) \in Nat /\ Tail(q) \in Seq(Nat)
  <1>1. q = <<Head(q)>> \o Tail(q)
    OBVIOUS
  <1>2. Head(q) \in Nat /\ Tail(q) \in Seq(Nat)
    OBVIOUS
  <1>3. s \o (<<Head(q)>> \o Tail(q)) = (s \o <<Head(q)>>) \o Tail(q)
    BY SMTT(30), <1>2
  <1>4. s \o <<>> = s
    OBVIOUS
  <1> QED BY <1>1, <1>2, <1>3, <1>4

(* What is in hand is tried.                                                *)
LEMMA TryFirst ==
    ASSUME NEW s \in Seq(Nat), NEW q \in Seq(Nat), NEW p \in Nat
    PROVE  s \o <<p>> \o q = Append(s, p) \o <<>> \o q
  <1>1. s \o <<p>> = Append(s, p) /\ Append(s, p) \o <<>> = Append(s, p)
    OBVIOUS
  <1> QED BY <1>1

(* What a thread has in hand is at most one packet.                         *)
LEMMA InHandType == ASSUME BridgeTyped, NEW t \in Sides PROVE InHand(t) \in Seq(Nat)
  BY DEF BridgeTyped, InHand

(* A packet comes in: it waits in the capture.                              *)
LEMMA ComeKeeps ==
    ASSUME BridgeTyped, MainInv, ThreadsInv, NEW a \in Sides, Come(a)
    PROVE  BridgeTyped' /\ MainInv' /\ ThreadsInv'
  <1>1. UNCHANGED <<callVars, undo, thread, print_cs, went, tried, console>>
    BY DEF Come
  <1>2. PICK p \in Nat : /\ came' = [came EXCEPT ![a] = Append(@, p)]
                         /\ captured' = [captured EXCEPT ![a] = Append(@, p)]
    <2>1. Len(came[0]) + Len(came[1]) + 1 \in Nat
      BY DEF BridgeTyped, Sides
    <2> QED BY <2>1 DEF Come
  <1>3. BridgeTyped'
    BY <1>1, <1>2, JoinLast DEF BridgeTyped
  <1>4. MainInv'
    BY <1>1 DEF MainInv, MainFacts, UndoFacts, HandlesOutliveThreads, Gone, callVars, Running
  <1>5. ASSUME NEW t \in Sides PROVE ThreadInv(t)' /\ ConsoleInv(t)' /\ PrintInv(t)'
    <2>1. CASE t # a
      <3>1. came'[t] = came[t] /\ captured'[t] = captured[t]
        BY <1>2, <2>1 DEF BridgeTyped
      <3> QED BY <1>1, <3>1, LeftAlone DEF ThreadsInv, PrintInv, callVars, Running
    <2>2. CASE t = a
      <3>1. /\ came[t] \in Seq(Nat) /\ captured[t] \in Seq(Nat) /\ tried[t] \in Seq(Nat)
            /\ InHand(t) \in Seq(Nat) /\ tried[t] \o InHand(t) \in Seq(Nat)
        <4>1. InHand(t) \in Seq(Nat)
          BY InHandType
        <4>2. came[t] \in Seq(Nat) /\ captured[t] \in Seq(Nat) /\ tried[t] \in Seq(Nat)
          BY DEF BridgeTyped
        <4> QED BY <4>1, <4>2
      <3>2. came'[t] = Append(came[t], p) /\ captured'[t] = Append(captured[t], p)
        BY <1>2, <2>2 DEF BridgeTyped
      <3>3. InHand(t)' = InHand(t) /\ Kept(t)' = Kept(t)
        BY <1>1 DEF InHand, callVars, Running, Kept
      <3>4. ThreadInv(t)'
        <4>1. thread'[t] = thread[t] /\ tried'[t] = tried[t] /\ went' = went
          BY <1>1
        <4>2. /\ tried[t] \o InHand(t) \o Append(captured[t], p)
                     = Append(tried[t] \o InHand(t) \o captured[t], p)
          BY <3>1, JoinLast
        <4>3. ThreadInv(t)
          BY DEF ThreadsInv
        <4> QED BY <3>2, <3>3, <4>1, <4>2, <4>3 DEF ThreadInv
      <3> QED BY <1>1, <3>3, <3>4 DEF ThreadsInv, ConsoleInv, PrintInv
    <2> QED BY <2>1, <2>2
  <1> QED BY <1>3, <1>4, <1>5 DEF ThreadsInv

(* The step of one thread leaves the other thread's share alone: it is      *)
(* enough to look at the one that steps, and at who prints.                 *)
LEMMA OwnStep ==
    ASSUME BridgeTyped, MainInv, ThreadsInv, NEW t \in Sides, ~Gone(t),
           UNCHANGED <<callVars, undo>>, thread' \in [Sides -> [pc : Points, pkt : Nat, n_fwd : Nat, res : {0, -1}]],
           \A u \in Sides : u # t =>
               /\ thread'[u] = thread[u] /\ came'[u] = came[u] /\ tried'[u] = tried[u]
               /\ captured'[u] = captured[u] /\ went'[Other(u)] = went[Other(u)]
               /\ console'[u] = console[u],
           ThreadInv(t)', ConsoleInv(t)', \A u \in Sides : PrintInv(u)'
    PROVE  MainInv' /\ ThreadsInv'
  <1>1. MainInv'
    BY MainLeftAlone
  <1>2. ASSUME NEW u \in Sides PROVE ThreadInv(u)' /\ ConsoleInv(u)'
    <2>1. CASE u = t
      BY <2>1
    <2>2. CASE u # t
      BY <2>2, LeftAlone DEF ThreadsInv, callVars, Running
    <2> QED BY <2>1, <2>2
  <1> QED BY <1>1, <1>2 DEF ThreadsInv

(* Where a thread is only sent to another place with nothing in hand, or    *)
(* with the same in hand, its share of the invariant stays.                 *)
LEMMA MovesOn ==
    ASSUME BridgeTyped, MainInv, ThreadsInv, NEW t \in Sides, ~Gone(t), UNCHANGED <<callVars, undo>>,
           NEW new \in [pc : Points, pkt : Nat, n_fwd : Nat, res : {0, -1}],
           thread' = [thread EXCEPT ![t] = new],
           new.n_fwd = thread[t].n_fwd, InHand(t)' = InHand(t),
           new.pc \notin InPrint, UNCHANGED <<print_cs, captured, came, went, tried, console>>
    PROVE  BridgeTyped' /\ MainInv' /\ ThreadsInv'
  <1>1. thread' \in [Sides -> [pc : Points, pkt : Nat, n_fwd : Nat, res : {0, -1}]]
    BY DEF BridgeTyped
  <1>2. thread'[t] = new /\ \A u \in Sides : u # t => thread'[u] = thread[u]
    BY DEF BridgeTyped
  <1>3. BridgeTyped'
    BY <1>1 DEF BridgeTyped
  <1>4. thread[t] # Idle
    BY DEF Gone, Idle
  <1>5. ThreadInv(t)'
    <2>1. ThreadInv(t)
      BY DEF ThreadsInv
    <2> QED BY <1>2, <2>1, <1>4 DEF ThreadInv, Kept
  <1>6. ConsoleInv(t)'
    BY <1>4 DEF ThreadsInv, ConsoleInv, Kept, Gone
  <1>7. \A u \in Sides : PrintInv(u)'
    BY <1>2 DEF ThreadsInv, PrintInv
  <1> QED BY <1>1, <1>2, <1>3, <1>5, <1>6, <1>7, OwnStep

(* LoopTestKill and NextExFails: the thread reads on or is about to end.    *)
LEMMA TestKeeps ==
    ASSUME BridgeTyped, MainInv, ThreadsInv, NEW t \in Sides, LoopTestKill(t) \/ NextExFails(t)
    PROVE  BridgeTyped' /\ MainInv' /\ ThreadsInv'
  <1>1. PICK place \in {"read", "end"}, res \in {0, -1} :
            thread' = [thread EXCEPT ![t] = [@ EXCEPT !.pc = place, !.res = res]]
    <2>1. CASE LoopTestKill(t)
      <3>1. PICK place \in {"read", "end"} : thread' = [thread EXCEPT ![t].pc = place]
        BY <2>1 DEF LoopTestKill, Goto
      <3>2. thread[t].res \in {0, -1} /\ [thread[t] EXCEPT !.pc = place]
                = [thread[t] EXCEPT !.pc = place, !.res = thread[t].res]
        BY DEF BridgeTyped
      <3> QED BY <3>1, <3>2
    <2>2. CASE NextExFails(t)
      BY <2>2 DEF NextExFails
    <2> QED BY <2>1, <2>2
  <1>2. /\ thread[t].pc \in {"test", "read"}
        /\ UNCHANGED <<callVars, undo, print_cs, captured, came, went, tried, console>>
    BY DEF LoopTestKill, NextExFails, At
  <1> DEFINE new == [thread[t] EXCEPT !.pc = place, !.res = res]
  <1>3. /\ new \in [pc : Points, pkt : Nat, n_fwd : Nat, res : {0, -1}]
        /\ new.pc = place /\ new.n_fwd = thread[t].n_fwd
    <2>1. thread[t] \in [pc : Points, pkt : Nat, n_fwd : Nat, res : {0, -1}]
      BY DEF BridgeTyped
    <2>2. place \in Points
      BY DEF Points, Printing
    <2> QED BY <2>1, <2>2
  <1>4. thread' = [thread EXCEPT ![t] = new] /\ thread'[t] = new
    BY <1>1 DEF BridgeTyped
  <1>5. InHand(t)' = InHand(t)
    BY <1>2, <1>3, <1>4 DEF InHand
  <1> HIDE DEF new
  <1>6. ~Gone(t) /\ new.pc \notin InPrint
    BY <1>2, <1>3 DEF Gone, InPrint
  <1> QED BY <1>2, <1>3, <1>4, <1>5, <1>6, MovesOn

(* NextEx: the thread takes the first packet that waits, or looks again.    *)
LEMMA NextKeeps ==
    ASSUME BridgeTyped, MainInv, ThreadsInv, NEW t \in Sides, NextEx(t)
    PROVE  BridgeTyped' /\ MainInv' /\ ThreadsInv'
  <1>1. /\ thread[t].pc = "read" /\ ~Gone(t) /\ thread[t] # Idle /\ Kept(t)
        /\ UNCHANGED <<callVars, undo, print_cs, came, went, tried, console>>
    BY DEF NextEx, At, Gone, Idle, Kept
  <1>2. CASE captured[t] = <<>>
    <2>1. thread' = [thread EXCEPT ![t].pc = "test"] /\ captured' = captured
      BY <1>2 DEF NextEx, Goto
    <2> DEFINE new == [thread[t] EXCEPT !.pc = "test"]
    <2>2. /\ new \in [pc : Points, pkt : Nat, n_fwd : Nat, res : {0, -1}]
          /\ new.pc = "test" /\ new.n_fwd = thread[t].n_fwd
      BY DEF BridgeTyped, Points
    <2>3. thread' = [thread EXCEPT ![t] = new] /\ thread'[t] = new
      BY <2>1 DEF BridgeTyped
    <2>4. InHand(t)' = InHand(t)
      BY <1>1, <2>2, <2>3 DEF InHand
    <2> HIDE DEF new
    <2>5. new.pc \notin InPrint
      BY <2>2 DEF InPrint
    <2> QED BY <1>1, <2>1, <2>2, <2>3, <2>4, <2>5, MovesOn
  <1>3. CASE captured[t] # <<>>
    <2>1. captured[t] \in Seq(Nat) /\ tried[t] \in Seq(Nat)
      BY DEF BridgeTyped
    <2>2. PICK p \in Nat : p = Head(captured[t])
      BY <1>3, <2>1, TakeFirst
    <2>3. PICK q \in Seq(Nat) : q = Tail(captured[t])
      BY <1>3, <2>1, TakeFirst
    <2>4. /\ thread' = [thread EXCEPT ![t].pc = "print", ![t].pkt = p]
          /\ captured' = [captured EXCEPT ![t] = q]
      BY <1>3, <2>2, <2>3 DEF NextEx
    <2>5. /\ thread' \in [Sides -> [pc : Points, pkt : Nat, n_fwd : Nat, res : {0, -1}]]
          /\ thread'[t].pc = "print" /\ thread'[t].pkt = p /\ thread'[t].n_fwd = thread[t].n_fwd
          /\ \A u \in Sides : u # t => thread'[u] = thread[u]
      BY <2>4 DEF BridgeTyped, Points, Printing
    <2>6. /\ captured' \in [Sides -> Seq(Nat)] /\ captured'[t] = q
          /\ \A u \in Sides : u # t => captured'[u] = captured[u]
      BY <2>4 DEF BridgeTyped
    <2>7. BridgeTyped'
      BY <1>1, <2>5, <2>6 DEF BridgeTyped
    <2>8. ThreadInv(t)'
      <3>1. InHand(t) = <<>> /\ InHand(t)' = <<p>>
        BY <1>1, <2>5 DEF InHand
      <3>2. came[t] = tried[t] \o <<>> \o captured[t] /\ thread[t].n_fwd = Len(went[Other(t)])
        BY <1>1, <3>1 DEF ThreadsInv, ThreadInv
      <3>3. came[t] = tried[t] \o <<p>> \o q
        BY <1>3, <2>1, <2>2, <2>3, <3>2, TakeFirst
      <3> QED BY <1>1, <2>5, <2>6, <3>1, <3>2, <3>3 DEF ThreadInv
    <2>9. ConsoleInv(t)'
      BY <1>1 DEF ThreadsInv, ConsoleInv
    <2>10. \A u \in Sides : PrintInv(u)'
      BY <1>1, <2>5 DEF ThreadsInv, PrintInv, InPrint
    <2> QED BY <1>1, <2>5, <2>6, <2>7, <2>8, <2>9, <2>10, OwnStep
  <1> QED BY <1>2, <1>3

(* The same of a step that moves a thread.                                  *)
LEMMA GoesTo ==
    ASSUME BridgeTyped, NEW t \in Sides, NEW place \in Points,
           thread' = [thread EXCEPT ![t].pc = place]
    PROVE  /\ thread' \in [Sides -> [pc : Points, pkt : Nat, n_fwd : Nat, res : {0, -1}]]
           /\ thread'[t].pc = place /\ thread'[t].pkt = thread[t].pkt
           /\ thread'[t].n_fwd = thread[t].n_fwd
           /\ \A u \in Sides : u # t => thread'[u] = thread[u]
  BY DEF BridgeTyped

(* Enter: the critical section is free, so the other thread is not in it.   *)
LEMMA EnterKeeps ==
    ASSUME BridgeTyped, MainInv, ThreadsInv, NEW t \in Sides, Enter(t)
    PROVE  BridgeTyped' /\ MainInv' /\ ThreadsInv'
  <1>1. PICK place \in Printing : At(t, place) /\ Goto(t, Within(place))
    BY DEF Enter
  <1>2. /\ thread[t].pc = place /\ print_cs = Nobody /\ print_cs' = t
        /\ UNCHANGED <<callVars, undo, captured, came, went, tried, console>>
    BY <1>1 DEF Enter, At
  <1>3. place \in {"print", "error", "end"} /\ thread[t].pc \notin {"none", "ended"}
    BY <1>2 DEF Printing
  <1>4. ~Gone(t) /\ thread[t] # Idle /\ Kept(t)
    BY <1>3 DEF Gone, Idle, Kept
  <1>5. /\ Within(place) \in {"in_print", "in_error", "in_end"}
        /\ place = "print" <=> Within(place) = "in_print"
    BY <1>3 DEF Within
  <1>6. Within(place) \in Points
    BY <1>5 DEF Points, InPrint
  <1>7. /\ thread' \in [Sides -> [pc : Points, pkt : Nat, n_fwd : Nat, res : {0, -1}]]
        /\ thread'[t].pc = Within(place) /\ thread'[t].pkt = thread[t].pkt
        /\ thread'[t].n_fwd = thread[t].n_fwd
        /\ \A u \in Sides : u # t => thread'[u] = thread[u]
    BY <1>1, <1>6, GoesTo DEF Goto
  <1>8. BridgeTyped'
    BY <1>2, <1>7 DEF BridgeTyped
  <1>9. InHand(t)' = InHand(t)
    BY <1>2, <1>3, <1>5, <1>7 DEF InHand
  <1>10. ThreadInv(t)'
    BY <1>2, <1>4, <1>7, <1>9 DEF ThreadsInv, ThreadInv
  <1>11. ConsoleInv(t)'
    BY <1>2, <1>3, <1>4 DEF ThreadsInv, ConsoleInv
  <1>12. ASSUME NEW u \in Sides PROVE PrintInv(u)'
    <2>1. u # t => thread[u].pc \notin InPrint
      BY <1>2 DEF ThreadsInv, PrintInv, Nobody, Sides
    <2> QED BY <1>2, <1>7, <2>1 DEF PrintInv
  <1> QED BY <1>2, <1>4, <1>7, <1>8, <1>10, <1>11, <1>12, OwnStep

(* Leave: the thread that leaves was alone in the critical section.         *)
LEMMA LeaveKeeps ==
    ASSUME BridgeTyped, MainInv, ThreadsInv, NEW t \in Sides, Leave(t)
    PROVE  BridgeTyped' /\ MainInv' /\ ThreadsInv'
  <1>1. PICK place \in {"send", "test", "ended"} : thread' = [thread EXCEPT ![t].pc = place]
    BY DEF Leave, Goto
  <1>2. /\ thread[t].pc \in {"in_print", "in_error", "in_end"} /\ print_cs' = Nobody
        /\ UNCHANGED <<callVars, undo, captured, came, went, tried>>
    BY DEF Leave, At
  <1>3. ~Gone(t) /\ thread[t] # Idle /\ Kept(t) /\ thread[t].pc \in InPrint
    BY <1>2 DEF Gone, Idle, Kept, InPrint
  <1>4. place \in Points
    BY DEF Points
  <1>5. /\ thread' \in [Sides -> [pc : Points, pkt : Nat, n_fwd : Nat, res : {0, -1}]]
        /\ thread'[t].pc = place /\ thread'[t].pkt = thread[t].pkt
        /\ thread'[t].n_fwd = thread[t].n_fwd
        /\ \A u \in Sides : u # t => thread'[u] = thread[u]
    BY <1>1, <1>4, GoesTo
  <1>6. /\ thread[t].pc = "in_print" <=> place = "send"
        /\ console' = console \/ (place = "ended"
                                  /\ console' = [console EXCEPT ![t] = thread[t].n_fwd])
    BY <1>5 DEF Leave, At, Goto, BridgeTyped
  <1>7. BridgeTyped'
    <2>1. thread[t].n_fwd \in Nat
      BY DEF BridgeTyped
    <2>2. console' \in [Sides -> Int]
      BY <1>6, <2>1 DEF BridgeTyped
    <2> QED BY <1>2, <1>5, <2>2 DEF BridgeTyped
  <1>8. InHand(t)' = InHand(t)
    BY <1>2, <1>5, <1>6 DEF InHand
  <1>9. thread[t].n_fwd = Len(went[Other(t)])
    BY <1>3 DEF ThreadsInv, ThreadInv
  <1>10. ThreadInv(t)'
    BY <1>2, <1>3, <1>5, <1>8 DEF ThreadsInv, ThreadInv
  <1>11. ConsoleInv(t)'
    <2>1. CASE console' = console
      BY <1>2, <1>3, <2>1 DEF ThreadsInv, ConsoleInv
    <2>2. CASE place = "ended" /\ console' = [console EXCEPT ![t] = thread[t].n_fwd]
      <3>1. console'[t] = thread[t].n_fwd
        BY <2>2 DEF BridgeTyped
      <3> QED BY <1>2, <1>5, <1>9, <2>2, <3>1 DEF ConsoleInv
    <2> QED BY <1>6, <2>1, <2>2
  <1>12. ASSUME NEW u \in Sides PROVE PrintInv(u)'
    <2>1. u # t => thread[u].pc \notin InPrint
      BY <1>3 DEF ThreadsInv, PrintInv
    <2> QED BY <1>5, <2>1 DEF PrintInv, InPrint, Printing
  <1>13. \A u \in Sides : u # t => console'[u] = console[u]
    BY <1>6 DEF BridgeTyped
  <1> QED BY <1>2, <1>3, <1>5, <1>7, <1>10, <1>11, <1>12, <1>13, OwnStep

(* SendOn: the packet in hand was tried, and is counted if it went out.     *)
LEMMA SendKeeps ==
    ASSUME BridgeTyped, MainInv, ThreadsInv, NEW t \in Sides, SendOn(t)
    PROVE  BridgeTyped' /\ MainInv' /\ ThreadsInv'
  <1>1. /\ thread[t].pc = "send"
        /\ UNCHANGED <<callVars, undo, print_cs, captured, came, console>>
    BY DEF SendOn, At, CaptureLocal
  <1>2. ~Gone(t) /\ thread[t] # Idle /\ Kept(t)
    BY <1>1 DEF Gone, Idle, Kept
  <1>3. PICK p \in Nat : p = thread[t].pkt
    BY DEF BridgeTyped
  <1>4. /\ tried[t] \in Seq(Nat) /\ captured[t] \in Seq(Nat)
        /\ Other(t) \in Sides /\ went[Other(t)] \in Seq(Nat) /\ thread[t].n_fwd \in Nat
    BY DEF BridgeTyped, Other, Sides
  <1>5. tried' = [tried EXCEPT ![t] = Append(@, p)]
    BY <1>3 DEF SendOn
  <1>6. /\ tried' \in [Sides -> Seq(Nat)] /\ tried'[t] = Append(tried[t], p)
        /\ \A u \in Sides : u # t => tried'[u] = tried[u]
    <2>1. Append(tried[t], p) \in Seq(Nat)
      BY <1>4
    <2> QED BY <1>5, <2>1 DEF BridgeTyped
  <1>7. \/ /\ went' = [went EXCEPT ![Other(t)] = Append(@, p)]
           /\ thread' = [thread EXCEPT ![t].pc = "test", ![t].n_fwd = @ + 1]
        \/ went' = went /\ thread' = [thread EXCEPT ![t].pc = "error"]
    BY <1>3 DEF SendOn, Goto
  <1>8. /\ thread' \in [Sides -> [pc : Points, pkt : Nat, n_fwd : Nat, res : {0, -1}]]
        /\ thread'[t].pc \in {"test", "error"}
        /\ \A u \in Sides : u # t => thread'[u] = thread[u]
    <2>1. CASE thread' = [thread EXCEPT ![t].pc = "error"]
      BY <2>1, GoesTo DEF Points, Printing
    <2>2. CASE thread' = [thread EXCEPT ![t].pc = "test", ![t].n_fwd = @ + 1]
      <3>1. "test" \in Points
        BY DEF Points
      <3>2. thread[t] \in [pc : Points, pkt : Nat, n_fwd : Nat, res : {0, -1}]
        BY DEF BridgeTyped
      <3>3. PICK new : new = [thread[t] EXCEPT !.pc = "test", !.n_fwd = @ + 1]
        OBVIOUS
      <3>4. new \in [pc : Points, pkt : Nat, n_fwd : Nat, res : {0, -1}] /\ new.pc = "test"
        <4>1. PICK n \in Nat : n = thread[t].n_fwd + 1
          BY <3>2
        <4>2. new = [thread[t] EXCEPT !.pc = "test", !.n_fwd = n]
          BY <3>3, <4>1
        <4> QED BY <3>1, <3>2, <4>2
      <3>5. thread' = [thread EXCEPT ![t] = new]
        BY <2>2, <3>2, <3>3 DEF BridgeTyped
      <3> QED BY <3>4, <3>5 DEF BridgeTyped
    <2> QED BY <1>7, <2>1, <2>2
  <1>9. /\ went' \in [Sides -> Seq(Nat)]
        /\ \A u \in Sides : u # t => went'[Other(u)] = went[Other(u)]
        /\ thread[t].n_fwd = Len(went[Other(t)]) => thread'[t].n_fwd = Len(went'[Other(t)])
    <2>1. CASE /\ went' = [went EXCEPT ![Other(t)] = Append(@, p)]
               /\ thread' = [thread EXCEPT ![t].pc = "test", ![t].n_fwd = @ + 1]
      <3>1. /\ Append(went[Other(t)], p) \in Seq(Nat)
            /\ Len(Append(went[Other(t)], p)) = Len(went[Other(t)]) + 1
        BY <1>4
      <3>2. thread'[t].n_fwd = thread[t].n_fwd + 1
        BY <2>1 DEF BridgeTyped
      <3>3. went'[Other(t)] = Append(went[Other(t)], p) /\ went' \in [Sides -> Seq(Nat)]
        BY <1>4, <2>1, <3>1 DEF BridgeTyped
      <3>4. \A u \in Sides : u # t => Other(u) # Other(t) /\ Other(u) \in Sides
        BY DEF Other, Sides
      <3> QED BY <2>1, <3>1, <3>2, <3>3, <3>4 DEF BridgeTyped
    <2>2. CASE went' = went /\ thread' = [thread EXCEPT ![t].pc = "error"]
      BY <2>2 DEF BridgeTyped
    <2> QED BY <1>7, <2>1, <2>2
  <1>10. BridgeTyped'
    BY <1>1, <1>6, <1>8, <1>9 DEF BridgeTyped
  <1>11. ThreadInv(t)'
    <2>1. InHand(t) = <<p>> /\ InHand(t)' = <<>>
      BY <1>1, <1>3, <1>8 DEF InHand
    <2>2. came[t] = tried[t] \o <<p>> \o captured[t] /\ thread[t].n_fwd = Len(went[Other(t)])
      BY <1>2, <2>1 DEF ThreadsInv, ThreadInv
    <2>3. came[t] = tried'[t] \o <<>> \o captured[t]
      <3>1. tried[t] \o <<p>> \o captured[t] = Append(tried[t], p) \o <<>> \o captured[t]
        BY <1>4, TryFirst
      <3> QED BY <1>6, <2>2, <3>1
    <2> QED BY <1>1, <1>9, <2>1, <2>2, <2>3 DEF ThreadInv
  <1>12. ConsoleInv(t)'
    BY <1>1, <1>2 DEF ThreadsInv, ConsoleInv
  <1>13. \A u \in Sides : PrintInv(u)'
    BY <1>1, <1>8 DEF ThreadsInv, PrintInv, InPrint
  <1> QED BY <1>1, <1>2, <1>6, <1>8, <1>9, <1>10, <1>11, <1>12, <1>13, OwnStep

(* Every step of UserBridge.                                                *)
LEMMA BridgeStep ==
    ASSUME BridgeInv, IsBridge, [Next]_winVars
    PROVE  BridgeInv'
  <1>1. IsBridge'
    BY ProgramStays DEF IsBridge
  <1>2. BridgeTyped /\ MainInv /\ ThreadsInv
    BY DEF BridgeInv
  <1>3. CASE UNCHANGED winVars
    <2>1. UNCHANGED <<callVars, bridgeVars>>
      BY <1>3 DEF winVars
    <2>2. BridgeTyped' /\ MainInv'
      BY <1>2, <2>1 DEF BridgeTyped, MainInv, MainFacts, UndoFacts, HandlesOutliveThreads, Gone,
                        Running, callVars, bridgeVars, threadVars
    <2>3. ASSUME NEW t \in Sides PROVE ThreadInv(t)' /\ ConsoleInv(t)' /\ PrintInv(t)'
      BY <1>2, <2>1, LeftAlone DEF ThreadsInv, PrintInv, callVars, bridgeVars, threadVars, Running
    <2> QED BY <1>1, <2>2, <2>3 DEF BridgeInv, ThreadsInv
  <1>4. CASE Next
    <2>1. BridgeNext
      BY <1>4 DEF Next, OfPcap, OfPacket, OfBridge, PcapCalls, PacketCalls, IsBridge
    <2>2. BridgeTyped' /\ MainInv' /\ ThreadsInv'
      <3>1. CASE BridgeDoes
        BY <1>2, <3>1, DoesKeeps
      <3>2. CASE BridgeFails
        BY <1>2, <3>2, FailsKeeps
      <3>3. CASE \/ CtrlC \/ CtrlCUnhandled \/ WaitAll \/ WaitTimeout
                 \/ Awake /\ GoDown /\ UNCHANGED bridgeVars
                 \/ FreedAgain
        BY <1>2, <3>3, EndKeeps
      <3>6. ASSUME NEW n \in DOMAIN UndoOrder, TakeBack(n)
            PROVE  BridgeTyped' /\ MainInv' /\ ThreadsInv'
        BY <1>2, <3>6, TakeBackKeeps
      <3>4. ASSUME NEW t \in Sides, Come(t) PROVE BridgeTyped' /\ MainInv' /\ ThreadsInv'
        BY <1>2, <3>4, ComeKeeps
      <3>5. ASSUME NEW t \in Sides, Forward(t) PROVE BridgeTyped' /\ MainInv' /\ ThreadsInv'
        BY <1>2, <3>5, TestKeeps, NextKeeps, EnterKeeps, LeaveKeeps, SendKeeps DEF Forward
      <3> QED BY <2>1, <3>1, <3>2, <3>3, <3>4, <3>5, <3>6 DEF BridgeNext
    <2> QED BY <1>1, <2>2 DEF BridgeInv
  <1> QED BY <1>3, <1>4

-----------------------------------------------------------------------------
(* Whatever happens, UserBridge's invariant holds.                          *)
LEMMA AlwaysBridge == Spec => []BridgeInv
  <1>1. BridgeInv /\ [Next]_winVars => BridgeInv'
    BY OtherProgram, BridgeStep
  <1> QED BY <1>1, InitBridge, PTL DEF Spec

(* However many packets come in: each thread takes those of its adapter one *)
(* by one and none of those the bridge sent itself, what a thread reports   *)
(* is what went out, the threads do not print at once, and the adapters are *)
(* open while a thread works on them (UserBridge.c's main, its handler of   *)
(* Ctrl+C and CaptureAndForwardThread).                                     *)
THEOREM BridgedSafely == Spec => []BridgesSafely
  <1>1. BridgeInv => BridgesSafely
    <2> SUFFICES ASSUME BridgeInv PROVE BridgesSafely
      OBVIOUS
    <2>1. CASE ~IsBridge
      <3>1. \A t \in Sides : thread[t] = Idle /\ console[t] = Unreported
        BY <2>1 DEF BridgeInv, BridgeIdle
      <3>2. \A t \in Sides : thread[t].pc = "none"
        BY <3>1 DEF Idle
      <3>3. ForwardsWhatCame /\ ReportsItsCount
        BY <3>1 DEF ForwardsWhatCame, ReportsItsCount
      <3>4. PrintsAlone /\ HandlesOutliveThreads
        BY <3>2 DEF PrintsAlone, HandlesOutliveThreads, Gone, InPrint
      <3> QED BY <3>3, <3>4 DEF BridgesSafely
    <2>2. CASE IsBridge
      BY <2>2 DEF BridgeInv, MainInv, ThreadsInv, ThreadInv, ConsoleInv, PrintInv,
                  Kept, BridgesSafely, ForwardsWhatCame, ReportsItsCount, PrintsAlone
    <2> QED BY <2>1, <2>2
  <1> QED BY <1>1, AlwaysBridge, PTL

-----------------------------------------------------------------------------
(* The lists of calls.                                                     *)

(* A call whose handler cannot bring the program down.                      *)
Plainly(c) == c.do \notin {"sample", "queue"}

(* A list of calls, and one of such calls.                                  *)
IsList(s)    == s # <<>> /\ \E S : s \in Seq(S)
PlainList(s) == s # <<>> /\ \E S : s \in Seq(S) /\ \A c \in S : Plainly(c)

(* No other call than a loop has a handler.                                 *)
LEMMA UsesPlain == \A name, objects : Plainly(Uses(name, objects))
  BY DEF Uses, Plainly

(* Nor has one that may fail.                                               *)
LEMMA ChecksPlain == \A name, objects, cleanup : Plainly(Checks(name, objects, cleanup))
  BY DEF Uses, Checks, Plainly

(* Nor one that hands out an object.                                        *)
LEMMA GetsPlain == \A name, o, objects, cleanup : Plainly(Gets(name, o, objects, cleanup))
  BY DEF Uses, Checks, Gets, Plainly

(* Nor one that takes an object back.                                       *)
LEMMA DropsPlain == \A name, o : Plainly(Drops(name, o))
  BY DEF Uses, Drops, Plainly

(* Nor one of these at which a program may go down.                         *)
LEMMA RiskyPlain ==
    /\ \A name, objects : Plainly(Risky(Uses(name, objects)))
    /\ \A name, o, objects, cleanup : Plainly(Risky(Gets(name, o, objects, cleanup)))
  BY DEF Uses, Checks, Gets, Risky, Plainly

(* A loop takes packets from where it says and does what it says.           *)
LEMMA LoopDoes ==
    ASSUME NEW h, NEW from, NEW do, NEW cleanup
    PROVE  /\ Loop(h, from, do).do = do /\ LoopOrReturn(h, from, do, cleanup).do = do
           /\ Loop(h, from, do).from = from /\ LoopOrReturn(h, from, do, cleanup).from = from
  BY DEF Uses, Loop, LoopOrReturn

(* Lists are joined to lists.                                               *)
LEMMA Joined ==
    ASSUME NEW s, NEW t, PlainList(s), PlainList(t)
    PROVE  PlainList(s \o t) /\ Len(s \o t) = Len(s) + Len(t)
  <1>1. PICK S : s \in Seq(S) /\ \A c \in S : Plainly(c)
    BY DEF PlainList
  <1>2. PICK T : t \in Seq(T) /\ \A c \in T : Plainly(c)
    BY DEF PlainList
  <1>3. s \in Seq(S \cup T) /\ t \in Seq(S \cup T)
    BY <1>1, <1>2
  <1>4. s \o t \in Seq(S \cup T) /\ Len(s \o t) = Len(s) + Len(t)
    BY <1>3
  <1>5. s \o t # <<>>
    BY <1>3, <1>4 DEF PlainList
  <1>6. \A c \in S \cup T : Plainly(c)
    BY <1>1, <1>2
  <1> QED BY <1>4, <1>5, <1>6 DEF PlainList

(* What the programs do with a handle by one of the shared calls.           *)
LEMMA HandlesPlain ==
    ASSUME NEW h, NEW o
    PROVE  /\ Plainly(Open(h, o)) /\ Plainly(OpenChosen(h, o)) /\ Plainly(Compile(h, o))
           /\ Plainly(SetFilter(h, o)) /\ Plainly(DumpOpen(h, o)) /\ Plainly(Close(h))
           /\ Plainly(SendPacket(h))
  BY UsesPlain, ChecksPlain, GetsPlain, DropsPlain
     DEF Open, OpenChosen, Compile, SetFilter, DumpOpen, Close, SendPacket

(* The shared calls without a handle.                                       *)
LEMMA SharedPlain ==
    Plainly(Argc) /\ Plainly(Find) /\ Plainly(SourceName) /\ Plainly(FreeDevs) /\ Plainly(Listening)
  BY UsesPlain, ChecksPlain, GetsPlain, DropsPlain DEF Argc, Find, SourceName, FreeDevs, Listening

(* A loop that neither samples nor queues.                                  *)
LEMMA LoopsPlain ==
    ASSUME NEW h, NEW from, NEW do, NEW cleanup, do \notin {"sample", "queue"}
    PROVE  Plainly(Loop(h, from, do)) /\ Plainly(LoopOrReturn(h, from, do, cleanup))
  BY LoopDoes DEF Plainly

(* Lists written out.                                                       *)
LEMMA ListOfOne ==
    ASSUME NEW c1,
           Plainly(c1)
    PROVE  PlainList(<<c1>>) /\ Len(<<c1>>) = 1
  <1>1. PICK S : S = {c1}
    OBVIOUS
  <1>2. <<c1>> \in Seq(S) /\ <<c1>> # <<>> /\ Len(<<c1>>) = 1
    BY <1>1
  <1>3. \A c \in S : Plainly(c)
    BY <1>1
  <1> QED BY <1>2, <1>3 DEF PlainList

(* A list of two such calls.                                                *)
LEMMA ListOfTwo ==
    ASSUME NEW c1, NEW c2,
           Plainly(c1), Plainly(c2)
    PROVE  PlainList(<<c1, c2>>) /\ Len(<<c1, c2>>) = 2
  <1>1. PICK S : S = {c1, c2}
    OBVIOUS
  <1>2. <<c1, c2>> \in Seq(S) /\ <<c1, c2>> # <<>> /\ Len(<<c1, c2>>) = 2
    BY <1>1
  <1>3. \A c \in S : Plainly(c)
    BY <1>1
  <1> QED BY <1>2, <1>3 DEF PlainList

(* A list of three.                                                         *)
LEMMA ListOfThree ==
    ASSUME NEW c1, NEW c2, NEW c3,
           Plainly(c1), Plainly(c2), Plainly(c3)
    PROVE  PlainList(<<c1, c2, c3>>) /\ Len(<<c1, c2, c3>>) = 3
  <1>1. PICK S : S = {c1, c2, c3}
    OBVIOUS
  <1>2. <<c1, c2, c3>> \in Seq(S) /\ <<c1, c2, c3>> # <<>> /\ Len(<<c1, c2, c3>>) = 3
    BY <1>1
  <1>3. \A c \in S : Plainly(c)
    BY <1>1
  <1> QED BY <1>2, <1>3 DEF PlainList

(* A list of four.                                                          *)
LEMMA ListOfFour ==
    ASSUME NEW c1, NEW c2, NEW c3, NEW c4,
           Plainly(c1), Plainly(c2), Plainly(c3), Plainly(c4)
    PROVE  PlainList(<<c1, c2, c3, c4>>) /\ Len(<<c1, c2, c3, c4>>) = 4
  <1>1. PICK S : S = {c1, c2, c3, c4}
    OBVIOUS
  <1>2. <<c1, c2, c3, c4>> \in Seq(S) /\ <<c1, c2, c3, c4>> # <<>> /\ Len(<<c1, c2, c3, c4>>) = 4
    BY <1>1
  <1>3. \A c \in S : Plainly(c)
    BY <1>1
  <1> QED BY <1>2, <1>3 DEF PlainList

(* A list of seven.                                                         *)
LEMMA ListOfSeven ==
    ASSUME NEW c1, NEW c2, NEW c3, NEW c4, NEW c5, NEW c6, NEW c7,
           Plainly(c1), Plainly(c2), Plainly(c3), Plainly(c4), Plainly(c5), Plainly(c6), Plainly(c7)
    PROVE  PlainList(<<c1, c2, c3, c4, c5, c6, c7>>) /\ Len(<<c1, c2, c3, c4, c5, c6, c7>>) = 7
  <1>1. PICK S : S = {c1, c2, c3, c4, c5, c6, c7}
    OBVIOUS
  <1>2. /\ <<c1, c2, c3, c4, c5, c6, c7>> \in Seq(S)
        /\ <<c1, c2, c3, c4, c5, c6, c7>> # <<>>
        /\ Len(<<c1, c2, c3, c4, c5, c6, c7>>) = 7
    BY <1>1
  <1>3. \A c \in S : Plainly(c)
    BY <1>1
  <1> QED BY <1>2, <1>3 DEF PlainList

(* A list of eight.                                                         *)
LEMMA ListOfEight ==
    ASSUME NEW c1, NEW c2, NEW c3, NEW c4, NEW c5, NEW c6, NEW c7, NEW c8,
           Plainly(c1), Plainly(c2), Plainly(c3), Plainly(c4), Plainly(c5), Plainly(c6), Plainly(c7),
           Plainly(c8)
    PROVE  PlainList(<<c1, c2, c3, c4, c5, c6, c7, c8>>)
  <1>1. PICK S : S = {c1, c2, c3, c4, c5, c6, c7, c8}
    OBVIOUS
  <1>2. /\ <<c1, c2, c3, c4, c5, c6, c7, c8>> \in Seq(S)
        /\ <<c1, c2, c3, c4, c5, c6, c7, c8>> # <<>>
    BY <1>1
  <1>3. \A c \in S : Plainly(c)
    BY <1>1
  <1> QED BY <1>2, <1>3 DEF PlainList

(* The choice of a device.                                                  *)
LEMMA PickPlain == PlainList(Pick) /\ Len(Pick) = 3
  BY ListOfThree, SharedPlain, ChecksPlain DEF Pick

(* The choice of a device that is then opened.                              *)
LEMMA PickAndOpenPlain == PlainList(PickAndOpen) /\ Len(PickAndOpen) = 4
  <1>1. PICK open : /\ open = <<OpenChosen("adhandle", {"alldevs"})>>
                    /\ PlainList(open) /\ Len(open) = 1
    BY HandlesPlain, ListOfOne
  <1>2. PlainList(Pick \o open)
    BY <1>1, PickPlain, Joined
  <1>3. Len(Pick \o open) = Len(Pick) + Len(open)
    BY <1>1, PickPlain, Joined
  <1>4. Pick \o open = PickAndOpen
    BY <1>1 DEF PickAndOpen
  <1>5. Len(Pick) + Len(open) = 3 + 1
    BY <1>1, PickPlain
  <1>6. 3 + 1 = 4
    OBVIOUS
  <1>7. Len(Pick) + Len(open) = 4
    BY <1>5, <1>6
  <1> QED BY <1>2, <1>3, <1>4, <1>7

(* The programs that dump what they capture.                                *)
LEMMA DumpsPlain ==
    /\ Len(BasicDump) = 1 /\ PlainList(BasicDump[1])
    /\ Len(BasicDumpRemote) = 1 /\ PlainList(BasicDumpRemote[1])
    /\ Len(BasicDumpEx) = 1 /\ PlainList(BasicDumpEx[1])
    /\ Len(BasicDumpExRemote) = 1 /\ PlainList(BasicDumpExRemote[1])
  <1>1. /\ Plainly(Loop("adhandle", "net", "print")) /\ Plainly(Close("adhandle"))
        /\ Plainly(LoopOrReturn("adhandle", "net", "print", {}))
        /\ Plainly(Listening) /\ Plainly(FreeDevs)
    BY LoopsPlain, HandlesPlain, SharedPlain
  <1>2. /\ PlainList(<<Listening, FreeDevs, Loop("adhandle", "net", "print"), Close("adhandle")>>)
        /\ PlainList(<<Listening, FreeDevs, Loop("adhandle", "net", "print")>>)
    BY <1>1, ListOfThree, ListOfFour
  <1>3. /\ PlainList(<<Listening, FreeDevs, LoopOrReturn("adhandle", "net", "print", {}),
                       Close("adhandle")>>)
        /\ PlainList(<<Listening, FreeDevs, LoopOrReturn("adhandle", "net", "print", {})>>)
    BY <1>1, ListOfThree, ListOfFour
  <1>4. Len(BasicDump) = 1 /\ PlainList(BasicDump[1])
    BY <1>2, PickAndOpenPlain, Joined DEF BasicDump
  <1>5. Len(BasicDumpRemote) = 1 /\ PlainList(BasicDumpRemote[1])
    BY <1>2, PickAndOpenPlain, Joined DEF BasicDumpRemote
  <1>6. Len(BasicDumpEx) = 1 /\ PlainList(BasicDumpEx[1])
    BY <1>3, PickAndOpenPlain, Joined DEF BasicDumpEx
  <1>7. Len(BasicDumpExRemote) = 1 /\ PlainList(BasicDumpExRemote[1])
    BY <1>3, PickAndOpenPlain, Joined DEF BasicDumpExRemote
  <1> QED BY <1>4, <1>5, <1>6, <1>7

(* The programs that write what they capture to a dump file.                *)
LEMMA SavedumpsPlain ==
    /\ Len(Savedump) = 1 /\ PlainList(Savedump[1])
    /\ Len(SavedumpRemote) = 1 /\ PlainList(SavedumpRemote[1])
  <1>1. PlainList(<<Argc>>)
    BY SharedPlain, ListOfOne
  <1>2. PlainList(<<DumpOpen("adhandle", {}), Listening, FreeDevs, Loop("adhandle", "net", "dump")>>)
    BY SharedPlain, HandlesPlain, LoopsPlain, ListOfFour
  <1>3. PlainList(<<Argc>> \o PickAndOpen)
    BY <1>1, PickAndOpenPlain, Joined
  <1>4. PlainList(SavedumpStart)
    BY <1>2, <1>3, Joined DEF SavedumpStart
  <1>5. PlainList(Append(SavedumpStart, Close("adhandle")))
    <2>1. PICK S : SavedumpStart \in Seq(S) /\ \A c \in S : Plainly(c)
      BY <1>4 DEF PlainList
    <2>2. PICK close : close = Close("adhandle") /\ Plainly(close)
      BY HandlesPlain
    <2>3. PICK T : T = S \cup {close}
      OBVIOUS
    <2>4. Append(SavedumpStart, close) \in Seq(T) /\ Append(SavedumpStart, close) # <<>>
      BY <2>1, <2>3
    <2>5. \A c \in T : Plainly(c)
      BY <2>1, <2>2, <2>3
    <2> QED BY <2>2, <2>4, <2>5 DEF PlainList
  <1> QED BY <1>4, <1>5 DEF Savedump, SavedumpRemote

(* The programs that read a file and those that send one packet.            *)
LEMMA ReadersPlain ==
    /\ Len(Readfile) = 1 /\ PlainList(Readfile[1])
    /\ Len(ReadfileRemote) = 1 /\ PlainList(ReadfileRemote[1])
    /\ Len(ReadfileEx) = 1 /\ PlainList(ReadfileEx[1])
    /\ Len(ReadfileExRemote) = 1 /\ PlainList(ReadfileExRemote[1])
    /\ Len(Sendpack) = 1 /\ PlainList(Sendpack[1])
    /\ Len(SendpackRemote) = 1 /\ PlainList(SendpackRemote[1])
  <1>1. /\ Plainly(Argc) /\ Plainly(SourceName) /\ Plainly(Open("fp", {}))
        /\ Plainly(Loop("fp", "file", "print")) /\ Plainly(Close("fp"))
        /\ Plainly(SendPacket("fp"))
    BY SharedPlain, HandlesPlain, LoopsPlain
  <1>2. Len(Readfile) = 1 /\ PlainList(Readfile[1])
    BY <1>1, ListOfFour DEF Readfile
  <1>3. Len(ReadfileRemote) = 1 /\ PlainList(ReadfileRemote[1])
    BY <1>1, ListOfFour DEF ReadfileRemote
  <1>4. Len(ReadfileEx) = 1 /\ PlainList(ReadfileEx[1])
    BY <1>1, ListOfFour DEF ReadfileEx
  <1>5. Len(ReadfileExRemote) = 1 /\ PlainList(ReadfileExRemote[1])
    BY <1>1, ListOfFour DEF ReadfileExRemote
  <1>6. Len(Sendpack) = 1 /\ PlainList(Sendpack[1])
    BY <1>1, ListOfFour DEF Sendpack
  <1>7. Len(SendpackRemote) = 1 /\ PlainList(SendpackRemote[1])
    BY <1>1, ListOfThree DEF SendpackRemote
  <1> QED BY <1>2, <1>3, <1>4, <1>5, <1>6, <1>7

(* pktdump_ex, on each way its command line leads.                          *)
LEMMA PktdumpsPlain ==
    /\ Len(PktdumpEx) = 2 /\ PlainList(PktdumpEx[1]) /\ PlainList(PktdumpEx[2])
    /\ Len(PktdumpExRemote) = 3 /\ PlainList(PktdumpExRemote[1])
    /\ PlainList(PktdumpExRemote[2]) /\ PlainList(PktdumpExRemote[3])
  <1>1. /\ Plainly(Open("fp", {})) /\ Plainly(OpenChosen("fp", {})) /\ Plainly(Close("fp"))
        /\ Plainly(LoopOrReturn("fp", "net", "print", {}))
        /\ Plainly(LoopOrReturn("fp", "file", "print", {}))
    BY HandlesPlain, LoopsPlain
  <1>2. PlainList(<<OpenChosen("fp", {}), LoopOrReturn("fp", "net", "print", {}), Close("fp")>>)
    BY <1>1, ListOfThree
  <1>3. PlainList(<<Open("fp", {}), LoopOrReturn("fp", "net", "print", {}), Close("fp")>>)
    BY <1>1, ListOfThree
  <1>4. PlainList(<<OpenChosen("fp", {}), LoopOrReturn("fp", "net", "print", {})>>)
    BY <1>1, ListOfTwo
  <1>5. PlainList(<<Open("fp", {}), LoopOrReturn("fp", "net", "print", {})>>)
    BY <1>1, ListOfTwo
  <1>6. PlainList(<<Open("fp", {}), LoopOrReturn("fp", "file", "print", {})>>)
    BY <1>1, ListOfTwo
  <1>7. Len(PktdumpEx) = 2 /\ PlainList(PktdumpEx[1]) /\ PlainList(PktdumpEx[2])
    BY <1>2, <1>3, PickPlain, Joined DEF PktdumpEx
  <1>8. /\ Len(PktdumpExRemote) = 3 /\ PlainList(PktdumpExRemote[1])
        /\ PlainList(PktdumpExRemote[2]) /\ PlainList(PktdumpExRemote[3])
    BY <1>4, <1>5, <1>6, PickPlain, Joined DEF PktdumpExRemote
  <1> QED BY <1>7, <1>8

(* Nothing is joined to a list: pcap_filter without a filter.               *)
LEMMA JoinedNone == ASSUME NEW s, PlainList(s) PROVE s \o <<>> = s
  BY DEF PlainList

(* pcap_filter's calls, with and without a filter, whatever it ends with.   *)
LEMMA PcapFilterPlain ==
    ASSUME NEW cleanup, NEW end, end = <<>> \/ PlainList(end)
    PROVE  /\ Len(PcapFilterCalls(cleanup, end)) = 2
           /\ PlainList(PcapFilterCalls(cleanup, end)[1])
           /\ PlainList(PcapFilterCalls(cleanup, end)[2])
  <1>1. PICK start : /\ start = <<Argc, Checks("usage", {}, {}), Open("fp", {})>>
                     /\ PlainList(start)
    BY SharedPlain, ChecksPlain, HandlesPlain, ListOfThree
  <1>2. PICK choose : /\ choose = <<Compile("fp", cleanup), SetFilter("fp", cleanup)>>
                      /\ PlainList(choose)
    BY HandlesPlain, ListOfTwo
  <1>3. PICK dump : /\ dump = <<Checks("usage", {}, {}), DumpOpen("fp", cleanup),
                                Loop("fp", "net", "dump")>>
                    /\ PlainList(dump)
    BY HandlesPlain, ChecksPlain, LoopsPlain, ListOfThree
  <1>4. ASSUME NEW s, PlainList(s) PROVE PlainList(s \o end)
    BY <1>4, Joined, JoinedNone
  <1>5. PlainList(start \o <<>> \o dump \o end)
    BY <1>1, <1>3, <1>4, Joined, JoinedNone
  <1>6. PlainList(start \o choose \o dump \o end)
    BY <1>1, <1>2, <1>3, <1>4, Joined
  <1>7. PcapFilterCalls(cleanup, end) =
            <<start \o <<>> \o dump \o end, start \o choose \o dump \o end>>
    BY <1>1, <1>2, <1>3 DEF PcapFilterCalls
  <1> QED BY <1>5, <1>6, <1>7

(* The other programs that neither sample nor queue.                        *)
LEMMA OthersPlain ==
    /\ Len(PcapFilter) = 2 /\ PlainList(PcapFilter[1]) /\ PlainList(PcapFilter[2])
    /\ Len(PcapFilterRemote) = 2 /\ PlainList(PcapFilterRemote[1])
    /\ PlainList(PcapFilterRemote[2])
    /\ Len(UDPdump) = 1 /\ PlainList(UDPdump[1])
    /\ Len(UDPdumpRemote) = 1 /\ PlainList(UDPdumpRemote[1])
    /\ Len(IfList) = 1 /\ PlainList(IfList[1])
    /\ Len(IfListRemote) = 1 /\ PlainList(IfListRemote[1])
    /\ Len(Smp1) = 1 /\ PlainList(Smp1[1])
    /\ Len(PcapFopen) = 1 /\ PlainList(PcapFopen[1])
  <1>1. Len(PcapFilter) = 2 /\ PlainList(PcapFilter[1]) /\ PlainList(PcapFilter[2])
    <2>1. PlainList(<<Close("fp"), Drops("pcap_dump_close", "dumpfile")>>)
      BY HandlesPlain, DropsPlain, ListOfTwo
    <2> QED BY <2>1, PcapFilterPlain DEF PcapFilter
  <1>2. /\ Len(PcapFilterRemote) = 2 /\ PlainList(PcapFilterRemote[1])
        /\ PlainList(PcapFilterRemote[2])
    BY PcapFilterPlain DEF PcapFilterRemote
  <1>3. Len(UDPdump) = 1 /\ PlainList(UDPdump[1])
    <2>1. PlainList(<<Risky(OpenChosen("adhandle", {"alldevs"})),
                      Checks("pcap_datalink", {"adhandle"}, {"alldevs"}),
                      Risky(Uses("netmask", {"alldevs"})), Compile("adhandle", {"alldevs"}),
                      SetFilter("adhandle", {"alldevs"}), Listening, FreeDevs,
                      Loop("adhandle", "net", "udp")>>)
      <3>1. /\ Plainly(Risky(OpenChosen("adhandle", {"alldevs"})))
            /\ Plainly(Checks("pcap_datalink", {"adhandle"}, {"alldevs"}))
            /\ Plainly(Risky(Uses("netmask", {"alldevs"})))
            /\ Plainly(Compile("adhandle", {"alldevs"}))
            /\ Plainly(SetFilter("adhandle", {"alldevs"}))
            /\ Plainly(Listening) /\ Plainly(FreeDevs)
            /\ Plainly(Loop("adhandle", "net", "udp"))
        BY RiskyPlain, ChecksPlain, HandlesPlain, SharedPlain, LoopsPlain DEF OpenChosen
      <3> QED BY <3>1, ListOfEight
    <2> QED BY <2>1, PickPlain, Joined DEF UDPdump
  <1>4. Len(IfList) = 1 /\ PlainList(IfList[1])
    BY SharedPlain, UsesPlain, ListOfThree DEF IfList
  <1>5. Len(Smp1) = 1 /\ PlainList(Smp1[1])
    <2>1. PlainList(<<OpenChosen("fp", {"alldevs"}), Uses("clear_old", {}),
                      LoopOrReturn("fp", "net", "consistent", {})>>)
      BY HandlesPlain, UsesPlain, LoopsPlain, ListOfThree
    <2> QED BY <2>1, PickPlain, Joined DEF Smp1
  <1>6. Len(PcapFopen) = 1 /\ PlainList(PcapFopen[1])
    <2>1. /\ Plainly(Argc) /\ Plainly(Checks("GetShortPathNameW", {}, {}))
          /\ Plainly(Gets("_wpopen", "tshark_out", {}, {}))
          /\ Plainly(Gets("pcap_fopen_offline", "pcap", {"tshark_out"}, {}))
          /\ Plainly(Loop("pcap", "file", "print"))
          /\ Plainly(Drops("pcap_close", "pcap")) /\ Plainly(Drops("_pclose", "tshark_out"))
      BY SharedPlain, ChecksPlain, GetsPlain, DropsPlain, LoopsPlain
    <2> QED BY <2>1, ListOfSeven DEF PcapFopen
  <1> QED BY <1>1, <1>2, <1>3, <1>4, <1>5, <1>6 DEF UDPdumpRemote, IfListRemote

-----------------------------------------------------------------------------
(* The programs.                                                           *)

(* Each program's list is found under its name.                             *)
LEMMA ProgramsOfTheirOwn ==
    /\ DOMAIN Programs = DOMAIN PcapCalls \cup DOMAIN PacketCalls \cup DOMAIN BridgeCalls
    /\ \A p \in DOMAIN PcapCalls : Programs[p] = PcapCalls[p]
    /\ \A p \in DOMAIN PacketCalls : Programs[p] = PacketCalls[p]
  <1>1. \A p \in DOMAIN PacketCalls : p \notin DOMAIN PcapCalls
    BY DEF PcapCalls, PacketCalls
  <1>2. DOMAIN Programs = DOMAIN PcapCalls \cup DOMAIN PacketCalls \cup DOMAIN BridgeCalls
    BY DEF Programs
  <1>3. ASSUME NEW p \in DOMAIN PcapCalls PROVE Programs[p] = PcapCalls[p]
    <2>1. p \in DOMAIN PcapCalls \cup DOMAIN PacketCalls \cup DOMAIN BridgeCalls
      BY <1>3
    <2>2. Programs[p] = CASE p \in DOMAIN PcapCalls   -> PcapCalls[p]
                          [] p \in DOMAIN PacketCalls -> PacketCalls[p]
                          [] p \in DOMAIN BridgeCalls -> BridgeCalls[p]
      BY <2>1 DEF Programs
    <2>3. p \notin DOMAIN PacketCalls /\ p \notin DOMAIN BridgeCalls
      BY <1>1, <1>3 DEF BridgeCalls, PcapCalls
    <2> QED BY <1>3, <2>2, <2>3
  <1>4. ASSUME NEW p \in DOMAIN PacketCalls PROVE Programs[p] = PacketCalls[p]
    <2>1. p \in DOMAIN PcapCalls \cup DOMAIN PacketCalls \cup DOMAIN BridgeCalls
      BY <1>4
    <2>2. Programs[p] = CASE p \in DOMAIN PcapCalls   -> PcapCalls[p]
                          [] p \in DOMAIN PacketCalls -> PacketCalls[p]
                          [] p \in DOMAIN BridgeCalls -> BridgeCalls[p]
      BY <2>1 DEF Programs
    <2>3. p \notin DOMAIN PcapCalls /\ p \notin DOMAIN BridgeCalls
      BY <1>1, <1>4 DEF BridgeCalls, PacketCalls
    <2> QED BY <1>4, <2>2, <2>3
  <1> QED BY <1>2, <1>3, <1>4

(* Every program but two has plain calls only.                              *)
LEMMA PcapCallsPlain ==
    ASSUME NEW p \in DOMAIN PcapCalls, p \notin {"tcptop", "sendcap"},
           NEW w \in DOMAIN PcapCalls[p]
    PROVE  PlainList(PcapCalls[p][w])
  <1>1. DOMAIN PcapCalls = {"basic_dump", "basic_dump_remote", "basic_dump_ex",
                            "basic_dump_ex_remote", "savedump", "savedump_remote",
                            "readfile", "readfile_remote", "readfile_ex",
                            "readfile_ex_remote", "sendpack", "sendpack_remote",
                            "pktdump_ex", "pktdump_ex_remote", "pcap_filter",
                            "pcap_filter_remote", "UDPdump", "UDPdump_remote", "iflist",
                            "iflist_remote", "smp_1", "pcap_fopen", "tcptop", "sendcap"}
    BY DEF PcapCalls
  <1>2. CASE p \in {"basic_dump", "basic_dump_remote", "basic_dump_ex", "basic_dump_ex_remote"}
    <2>1. /\ PcapCalls["basic_dump"] = BasicDump
          /\ \A i \in DOMAIN BasicDump : PlainList(BasicDump[i])
      <3>1. DOMAIN BasicDump = 1..1
        BY DEF BasicDump
      <3> QED BY <3>1, DumpsPlain DEF PcapCalls
    <2>2. /\ PcapCalls["basic_dump_remote"] = BasicDumpRemote
          /\ \A i \in DOMAIN BasicDumpRemote : PlainList(BasicDumpRemote[i])
      <3>1. DOMAIN BasicDumpRemote = 1..1
        BY DEF BasicDumpRemote
      <3> QED BY <3>1, DumpsPlain DEF PcapCalls
    <2>3. /\ PcapCalls["basic_dump_ex"] = BasicDumpEx
          /\ \A i \in DOMAIN BasicDumpEx : PlainList(BasicDumpEx[i])
      <3>1. DOMAIN BasicDumpEx = 1..1
        BY DEF BasicDumpEx
      <3> QED BY <3>1, DumpsPlain DEF PcapCalls
    <2>4. /\ PcapCalls["basic_dump_ex_remote"] = BasicDumpExRemote
          /\ \A i \in DOMAIN BasicDumpExRemote : PlainList(BasicDumpExRemote[i])
      <3>1. DOMAIN BasicDumpExRemote = 1..1
        BY DEF BasicDumpExRemote
      <3> QED BY <3>1, DumpsPlain DEF PcapCalls
    <2> QED BY <1>2, <2>1, <2>2, <2>3, <2>4
  <1>3. CASE p \in {"savedump", "savedump_remote"}
    <2>1. /\ PcapCalls["savedump"] = Savedump
          /\ \A i \in DOMAIN Savedump : PlainList(Savedump[i])
      <3>1. DOMAIN Savedump = 1..1
        BY DEF Savedump
      <3> QED BY <3>1, SavedumpsPlain DEF PcapCalls
    <2>2. /\ PcapCalls["savedump_remote"] = SavedumpRemote
          /\ \A i \in DOMAIN SavedumpRemote : PlainList(SavedumpRemote[i])
      <3>1. DOMAIN SavedumpRemote = 1..1
        BY DEF SavedumpRemote
      <3> QED BY <3>1, SavedumpsPlain DEF PcapCalls
    <2> QED BY <1>3, <2>1, <2>2
  <1>4. CASE p \in {"readfile", "readfile_remote", "readfile_ex", "readfile_ex_remote",
                    "sendpack", "sendpack_remote"}
    <2>1. /\ PcapCalls["readfile"] = Readfile
          /\ \A i \in DOMAIN Readfile : PlainList(Readfile[i])
      <3>1. DOMAIN Readfile = 1..1
        BY DEF Readfile
      <3> QED BY <3>1, ReadersPlain DEF PcapCalls
    <2>2. /\ PcapCalls["readfile_remote"] = ReadfileRemote
          /\ \A i \in DOMAIN ReadfileRemote : PlainList(ReadfileRemote[i])
      <3>1. DOMAIN ReadfileRemote = 1..1
        BY DEF ReadfileRemote
      <3> QED BY <3>1, ReadersPlain DEF PcapCalls
    <2>3. /\ PcapCalls["readfile_ex"] = ReadfileEx
          /\ \A i \in DOMAIN ReadfileEx : PlainList(ReadfileEx[i])
      <3>1. DOMAIN ReadfileEx = 1..1
        BY DEF ReadfileEx
      <3> QED BY <3>1, ReadersPlain DEF PcapCalls
    <2>4. /\ PcapCalls["readfile_ex_remote"] = ReadfileExRemote
          /\ \A i \in DOMAIN ReadfileExRemote : PlainList(ReadfileExRemote[i])
      <3>1. DOMAIN ReadfileExRemote = 1..1
        BY DEF ReadfileExRemote
      <3> QED BY <3>1, ReadersPlain DEF PcapCalls
    <2>5. /\ PcapCalls["sendpack"] = Sendpack
          /\ \A i \in DOMAIN Sendpack : PlainList(Sendpack[i])
      <3>1. DOMAIN Sendpack = 1..1
        BY DEF Sendpack
      <3> QED BY <3>1, ReadersPlain DEF PcapCalls
    <2>6. /\ PcapCalls["sendpack_remote"] = SendpackRemote
          /\ \A i \in DOMAIN SendpackRemote : PlainList(SendpackRemote[i])
      <3>1. DOMAIN SendpackRemote = 1..1
        BY DEF SendpackRemote
      <3> QED BY <3>1, ReadersPlain DEF PcapCalls
    <2> QED BY <1>4, <2>1, <2>2, <2>3, <2>4, <2>5, <2>6
  <1>5. CASE p \in {"pktdump_ex", "pktdump_ex_remote"}
    <2>1. /\ PcapCalls["pktdump_ex"] = PktdumpEx
          /\ \A i \in DOMAIN PktdumpEx : PlainList(PktdumpEx[i])
      <3>1. DOMAIN PktdumpEx = 1..2
        BY DEF PktdumpEx
      <3> QED BY <3>1, PktdumpsPlain DEF PcapCalls
    <2>2. /\ PcapCalls["pktdump_ex_remote"] = PktdumpExRemote
          /\ \A i \in DOMAIN PktdumpExRemote : PlainList(PktdumpExRemote[i])
      <3>1. DOMAIN PktdumpExRemote = 1..3
        BY DEF PktdumpExRemote
      <3> QED BY <3>1, PktdumpsPlain DEF PcapCalls
    <2> QED BY <1>5, <2>1, <2>2
  <1>6. CASE p \in {"pcap_filter", "pcap_filter_remote", "UDPdump", "UDPdump_remote",
                    "iflist", "iflist_remote", "smp_1", "pcap_fopen"}
    <2>1. /\ PcapCalls["pcap_filter"] = PcapFilter
          /\ \A i \in DOMAIN PcapFilter : PlainList(PcapFilter[i])
      <3>1. DOMAIN PcapFilter = 1..2
        BY DEF PcapFilter, PcapFilterCalls
      <3> QED BY <3>1, OthersPlain DEF PcapCalls
    <2>2. /\ PcapCalls["pcap_filter_remote"] = PcapFilterRemote
          /\ \A i \in DOMAIN PcapFilterRemote : PlainList(PcapFilterRemote[i])
      <3>1. DOMAIN PcapFilterRemote = 1..2
        BY DEF PcapFilterRemote, PcapFilterCalls
      <3> QED BY <3>1, OthersPlain DEF PcapCalls
    <2>3. /\ PcapCalls["UDPdump"] = UDPdump
          /\ \A i \in DOMAIN UDPdump : PlainList(UDPdump[i])
      <3>1. DOMAIN UDPdump = 1..1
        BY DEF UDPdump
      <3> QED BY <3>1, OthersPlain DEF PcapCalls
    <2>4. /\ PcapCalls["UDPdump_remote"] = UDPdumpRemote
          /\ \A i \in DOMAIN UDPdumpRemote : PlainList(UDPdumpRemote[i])
      <3>1. DOMAIN UDPdumpRemote = 1..1
        BY DEF UDPdumpRemote, UDPdump
      <3> QED BY <3>1, OthersPlain DEF PcapCalls
    <2>5. /\ PcapCalls["iflist"] = IfList
          /\ \A i \in DOMAIN IfList : PlainList(IfList[i])
      <3>1. DOMAIN IfList = 1..1
        BY DEF IfList
      <3> QED BY <3>1, OthersPlain DEF PcapCalls
    <2>6. /\ PcapCalls["iflist_remote"] = IfListRemote
          /\ \A i \in DOMAIN IfListRemote : PlainList(IfListRemote[i])
      <3>1. DOMAIN IfListRemote = 1..1
        BY DEF IfListRemote, IfList
      <3> QED BY <3>1, OthersPlain DEF PcapCalls
    <2>7. /\ PcapCalls["smp_1"] = Smp1
          /\ \A i \in DOMAIN Smp1 : PlainList(Smp1[i])
      <3>1. DOMAIN Smp1 = 1..1
        BY DEF Smp1
      <3> QED BY <3>1, OthersPlain DEF PcapCalls
    <2>8. /\ PcapCalls["pcap_fopen"] = PcapFopen
          /\ \A i \in DOMAIN PcapFopen : PlainList(PcapFopen[i])
      <3>1. DOMAIN PcapFopen = 1..1
        BY DEF PcapFopen
      <3> QED BY <3>1, OthersPlain DEF PcapCalls
    <2> QED BY <1>6, <2>1, <2>2, <2>3, <2>4, <2>5, <2>6, <2>7, <2>8
  <1> QED BY <1>1, <1>2, <1>3, <1>4, <1>5, <1>6

(* Joined lists, place by place.                                            *)
LEMMA JoinedAt ==
    ASSUME NEW s, NEW t, IsList(s), IsList(t)
    PROVE  /\ IsList(s \o t) /\ Len(s \o t) = Len(s) + Len(t)
           /\ \A i \in 1..Len(s) : (s \o t)[i] = s[i]
           /\ \A i \in 1..Len(t) : (s \o t)[Len(s) + i] = t[i]
  <1>1. PICK S : s \in Seq(S)
    BY DEF IsList
  <1>2. PICK T : t \in Seq(T)
    BY DEF IsList
  <1>3. s \in Seq(S \cup T) /\ t \in Seq(S \cup T)
    BY <1>1, <1>2
  <1>4. s \o t \in Seq(S \cup T) /\ Len(s \o t) = Len(s) + Len(t)
    BY <1>3
  <1>5. IsList(s \o t)
    BY <1>3, <1>4 DEF IsList
  <1>6. /\ \A i \in 1..Len(s) : (s \o t)[i] = s[i]
        /\ \A i \in 1..Len(t) : (s \o t)[Len(s) + i] = t[i]
    BY <1>3
  <1> QED BY <1>4, <1>5, <1>6

(* A list of such calls is a list.                                          *)
LEMMA PlainIsList == \A s : PlainList(s) => IsList(s)
  BY DEF PlainList, IsList

(* One thing is a list.                                                     *)
LEMMA IsListOfOne ==
    ASSUME NEW c1
    PROVE  IsList(<<c1>>)
  <1>1. PICK S : S = {c1}
    OBVIOUS
  <1>2. <<c1>> \in Seq(S)
    BY <1>1
  <1> QED BY <1>2 DEF IsList

(* Two things are.                                                          *)
LEMMA IsListOfTwo ==
    ASSUME NEW c1, NEW c2
    PROVE  IsList(<<c1, c2>>)
  <1>1. PICK S : S = {c1, c2}
    OBVIOUS
  <1>2. <<c1, c2>> \in Seq(S)
    BY <1>1
  <1> QED BY <1>2 DEF IsList

(* Three things are.                                                        *)
LEMMA IsListOfThree ==
    ASSUME NEW c1, NEW c2, NEW c3
    PROVE  IsList(<<c1, c2, c3>>)
  <1>1. PICK S : S = {c1, c2, c3}
    OBVIOUS
  <1>2. <<c1, c2, c3>> \in Seq(S)
    BY <1>1
  <1> QED BY <1>2 DEF IsList

(* Four things are.                                                         *)
LEMMA IsListOfFour ==
    ASSUME NEW c1, NEW c2, NEW c3, NEW c4
    PROVE  IsList(<<c1, c2, c3, c4>>)
  <1>1. PICK S : S = {c1, c2, c3, c4}
    OBVIOUS
  <1>2. <<c1, c2, c3, c4>> \in Seq(S)
    BY <1>1
  <1> QED BY <1>2 DEF IsList

(* Six things are.                                                          *)
LEMMA IsListOfSix ==
    ASSUME NEW c1, NEW c2, NEW c3, NEW c4, NEW c5, NEW c6
    PROVE  IsList(<<c1, c2, c3, c4, c5, c6>>)
  <1>1. PICK S : S = {c1, c2, c3, c4, c5, c6}
    OBVIOUS
  <1>2. <<c1, c2, c3, c4, c5, c6>> \in Seq(S)
    BY <1>1
  <1> QED BY <1>2 DEF IsList

(* Seven things are.                                                        *)
LEMMA IsListOfSeven ==
    ASSUME NEW c1, NEW c2, NEW c3, NEW c4, NEW c5, NEW c6, NEW c7
    PROVE  IsList(<<c1, c2, c3, c4, c5, c6, c7>>)
  <1>1. PICK S : S = {c1, c2, c3, c4, c5, c6, c7}
    OBVIOUS
  <1>2. <<c1, c2, c3, c4, c5, c6, c7>> \in Seq(S)
    BY <1>1
  <1> QED BY <1>2 DEF IsList

(* Eight things are.                                                        *)
LEMMA IsListOfEight ==
    ASSUME NEW c1, NEW c2, NEW c3, NEW c4, NEW c5, NEW c6, NEW c7, NEW c8
    PROVE  IsList(<<c1, c2, c3, c4, c5, c6, c7, c8>>)
  <1>1. PICK S : S = {c1, c2, c3, c4, c5, c6, c7, c8}
    OBVIOUS
  <1>2. <<c1, c2, c3, c4, c5, c6, c7, c8>> \in Seq(S)
    BY <1>1
  <1> QED BY <1>2 DEF IsList

(* Nine things are.                                                         *)
LEMMA IsListOfNine ==
    ASSUME NEW c1, NEW c2, NEW c3, NEW c4, NEW c5, NEW c6, NEW c7, NEW c8,
           NEW c9
    PROVE  IsList(<<c1, c2, c3, c4, c5, c6, c7, c8, c9>>)
  <1>1. PICK S : S = {c1, c2, c3, c4, c5, c6, c7, c8, c9}
    OBVIOUS
  <1>2. <<c1, c2, c3, c4, c5, c6, c7, c8, c9>> \in Seq(S)
    BY <1>1
  <1> QED BY <1>2 DEF IsList

(* Fourteen things are.                                                     *)
LEMMA IsListOfFourteen ==
    ASSUME NEW c1, NEW c2, NEW c3, NEW c4, NEW c5, NEW c6, NEW c7, NEW c8,
           NEW c9, NEW c10, NEW c11, NEW c12, NEW c13, NEW c14
    PROVE  IsList(<<c1, c2, c3, c4, c5, c6, c7, c8, c9, c10, c11, c12, c13, c14>>)
  <1>1. PICK S : S = {c1, c2, c3, c4, c5, c6, c7, c8, c9, c10, c11, c12, c13, c14}
    OBVIOUS
  <1>2. <<c1, c2, c3, c4, c5, c6, c7, c8, c9, c10, c11, c12, c13, c14>> \in Seq(S)
    BY <1>1
  <1> QED BY <1>2 DEF IsList

(* Twenty things are.                                                       *)
LEMMA IsListOfTwenty ==
    ASSUME NEW c1, NEW c2, NEW c3, NEW c4, NEW c5, NEW c6, NEW c7, NEW c8,
           NEW c9, NEW c10, NEW c11, NEW c12, NEW c13, NEW c14, NEW c15,
           NEW c16, NEW c17, NEW c18, NEW c19, NEW c20
    PROVE  IsList(<<c1, c2, c3, c4, c5, c6, c7, c8, c9, c10, c11, c12, c13, c14, c15,
                  c16, c17, c18, c19, c20>>)
  <1>1. PICK S : S = {c1, c2, c3, c4, c5, c6, c7, c8, c9, c10, c11, c12, c13, c14, c15,
                   c16, c17, c18, c19, c20}
    OBVIOUS
  <1>2. <<c1, c2, c3, c4, c5, c6, c7, c8, c9, c10, c11, c12, c13, c14, c15,
          c16, c17, c18, c19, c20>> \in Seq(S)
    BY <1>1
  <1> QED BY <1>2 DEF IsList

(* Every way of every program is a list of calls.                           *)
LEMMA ProgramsAreLists ==
    ASSUME NEW p \in DOMAIN Programs, NEW w \in DOMAIN Programs[p]
    PROVE  IsList(Programs[p][w])
  <1>1. CASE p \in DOMAIN PcapCalls
    <2>1. Programs[p] = PcapCalls[p]
      BY <1>1, ProgramsOfTheirOwn
    <2>2. CASE p \notin {"tcptop", "sendcap"}
      BY <1>1, <2>1, <2>2, PcapCallsPlain, PlainIsList
    <2>3. CASE p = "tcptop"
      <3>1. PcapCalls["tcptop"] = Tcptop
        BY DEF PcapCalls
      <3>2. DOMAIN Tcptop = 1..1 /\ IsList(Tcptop[1])
        BY IsListOfSeven DEF Tcptop
      <3> QED BY <2>1, <2>3, <3>1, <3>2
    <2>4. CASE p = "sendcap"
      <3>1. PcapCalls["sendcap"] = Sendcap
        BY DEF PcapCalls
      <3>2. DOMAIN Sendcap = 1..1 /\ IsList(Sendcap[1])
        BY IsListOfFourteen DEF Sendcap
      <3> QED BY <2>1, <2>4, <3>1, <3>2
    <2> QED BY <2>2, <2>3, <2>4
  <1>2. CASE p \in DOMAIN PacketCalls
    <2>1. Programs[p] = PacketCalls[p]
      BY <1>2, ProgramsOfTheirOwn
    <2>2. DOMAIN PacketCalls = {"TestPacketCapture", "TestPacketSend", "GetMacAddress"}
      BY DEF PacketCalls
    <2>3. IsList(ChooseAndOpen)
      BY IsListOfFour DEF ChooseAndOpen
    <2>4. CASE p = "TestPacketCapture"
      <3>1. PacketCalls["TestPacketCapture"] = TestPacketCapture
        BY DEF PacketCalls
      <3>2. DOMAIN TestPacketCapture = 1..1 /\ IsList(TestPacketCapture[1])
        BY <2>3, IsListOfNine, JoinedAt DEF TestPacketCapture
      <3> QED BY <2>1, <2>4, <3>1, <3>2
    <2>5. CASE p = "TestPacketSend"
      <3>1. PacketCalls["TestPacketSend"] = TestPacketSend
        BY DEF PacketCalls
      <3>2. PICK first, open, send :
                /\ first = <<Argc>> /\ open = <<Risky(Uses("sscanf_s", {})), OpenAdapter>>
                /\ send = <<Allocate, InitPacket, Uses("PacketSetNumWrites", {"lpAdapter"}),
                            Checks("PacketSendPacket", {"lpAdapter", "lpPacket"}, {}),
                            FreePacket, CloseAdapter>>
                /\ IsList(first) /\ IsList(open) /\ IsList(send)
        BY IsListOfOne, IsListOfTwo, IsListOfSix
      <3>3. IsList(first \o ChooseAndOpen \o send) /\ IsList(first \o open \o send)
        BY <2>3, <3>2, JoinedAt
      <3>4. TestPacketSend = <<first \o ChooseAndOpen \o send, first \o open \o send>>
        BY <3>2 DEF TestPacketSend
      <3>5. /\ DOMAIN TestPacketSend = 1..2
            /\ TestPacketSend[1] = first \o ChooseAndOpen \o send
            /\ TestPacketSend[2] = first \o open \o send
        BY <3>4
      <3>6. w = 1 \/ w = 2
        BY <2>1, <2>5, <3>1, <3>5
      <3> QED BY <2>1, <2>5, <3>1, <3>3, <3>5, <3>6
    <2>6. CASE p = "GetMacAddress"
      <3>1. PacketCalls["GetMacAddress"] = GetMacAddress
        BY DEF PacketCalls
      <3>2. DOMAIN GetMacAddress = 1..1 /\ IsList(GetMacAddress[1])
        BY <2>3, IsListOfFour, JoinedAt DEF GetMacAddress
      <3> QED BY <2>1, <2>6, <3>1, <3>2
    <2> QED BY <1>2, <2>2, <2>4, <2>5, <2>6
  <1>3. CASE p \in DOMAIN BridgeCalls
    <2>1. p = "UserBridge"
      BY <1>3 DEF BridgeCalls
    <2>2. DOMAIN Bridge = 1..1 /\ IsList(Bridge[1])
      BY IsListOfTwenty DEF Bridge
    <2> QED BY <2>1, <2>2, BridgeProgram
  <1> QED BY <1>1, <1>2, <1>3, ProgramsOfTheirOwn

(* main is always at one of its calls.                                      *)
LEMMA CallsAreAList ==
    ASSUME prog \in DOMAIN Programs, way \in DOMAIN Programs[prog]
    PROVE  Len(calls) \in Nat \ {0} /\ DOMAIN calls = 1..Len(calls)
  <1>1. IsList(calls)
    BY ProgramsAreLists DEF calls
  <1>2. PICK S : calls \in Seq(S) /\ calls # <<>>
    BY <1>1 DEF IsList
  <1> QED BY <1>2

-----------------------------------------------------------------------------
(* The calls of the four programs the properties are about.                *)

(* A call that hands objects out and takes them back and has no effect of   *)
(* its own.                                                                 *)
Special == {"pcap_setfilter", "ftell", "pcap_sendqueue_transmit", "clear_old"}
Quiet(c) == c.from = "" /\ c.do = "" /\ c.name \notin Special

(* No other calls than loops take packets, whatever they hand out.          *)
LEMMA SilentUses ==
    ASSUME NEW name, NEW objects
    PROVE  /\ Uses(name, objects).from = "" /\ Uses(name, objects).do = ""
           /\ Uses(name, objects).name = name
  BY DEF Uses

(* A call that may fail takes no packets.                                   *)
LEMMA SilentChecks ==
    ASSUME NEW name, NEW objects, NEW cleanup
    PROVE  /\ Checks(name, objects, cleanup).from = "" /\ Checks(name, objects, cleanup).do = ""
           /\ Checks(name, objects, cleanup).name = name
  BY DEF Uses, Checks

(* A call that takes an object back takes no packets.                       *)
LEMMA SilentDrops ==
    ASSUME NEW name, NEW o
    PROVE  /\ Drops(name, o).from = "" /\ Drops(name, o).do = ""
           /\ Drops(name, o).name = name
  BY DEF Uses, Drops

(* So a call is quiet by its name.                                         *)
LEMMA QuietUses ==
    ASSUME NEW name, NEW objects, name \notin Special PROVE Quiet(Uses(name, objects))
  BY SilentUses DEF Quiet

(* The same of a call that may fail.                                        *)
LEMMA QuietChecks ==
    ASSUME NEW name, NEW objects, NEW cleanup, name \notin Special
    PROVE  Quiet(Checks(name, objects, cleanup))
  <1>1. /\ Checks(name, objects, cleanup).from = "" /\ Checks(name, objects, cleanup).do = ""
        /\ Checks(name, objects, cleanup).name = name
    BY SilentChecks, Zenon
  <1> QED BY <1>1 DEF Quiet

(* The same of a call that hands out an object.                             *)
LEMMA QuietGets ==
    ASSUME NEW name, NEW o, NEW objects, NEW cleanup, name \notin Special
    PROVE  Quiet(Gets(name, o, objects, cleanup))
  <1>1. /\ Gets(name, o, objects, cleanup).from = "" /\ Gets(name, o, objects, cleanup).do = ""
        /\ Gets(name, o, objects, cleanup).name = name
    BY DEF Gets, Checks, Uses
  <1> QED BY <1>1 DEF Quiet

(* And of one of these at which a program may go down.                      *)
LEMMA QuietRisky ==
    ASSUME NEW name, NEW o, NEW objects, NEW cleanup, name \notin Special
    PROVE  /\ Quiet(Risky(Uses(name, objects))) /\ Quiet(Risky(Gets(name, o, objects, cleanup)))
  <1>1. /\ Risky(Uses(name, objects)).from = "" /\ Risky(Uses(name, objects)).do = ""
        /\ Risky(Uses(name, objects)).name = name
    BY DEF Risky, Uses
  <1>2. /\ Risky(Gets(name, o, objects, cleanup)).from = ""
        /\ Risky(Gets(name, o, objects, cleanup)).do = ""
        /\ Risky(Gets(name, o, objects, cleanup)).name = name
    BY DEF Risky, Gets, Checks, Uses
  <1> QED BY <1>1, <1>2 DEF Quiet

(* The same of a call that takes an object back.                            *)
LEMMA QuietDrops ==
    ASSUME NEW name, NEW o, name \notin Special PROVE Quiet(Drops(name, o))
  BY SilentDrops DEF Quiet

(* What the calls the programs share are called.                           *)
LEMMA OrdinaryNames ==
    {"argc", "pcap_findalldevs", "pcap_createsrcstr", "pcap_freealldevs", "printf", "pcap_open",
     "pcap_compile", "pcap_close", "no_devices", "inum", "pcap_setmode", "pcap_datalink",
     "netmask", "fopen_s", "fclose", "pcap_sendqueue_destroy"} \cap Special = {}
  BY DEF Special

(* They are quiet, but for the filter's.                                    *)
LEMMA QuietShared ==
    Quiet(Argc) /\ Quiet(Find) /\ Quiet(SourceName) /\ Quiet(FreeDevs) /\ Quiet(Listening)
  <1>1. Quiet(Argc)
    BY OrdinaryNames, QuietChecks, Zenon DEF Argc
  <1>2. Quiet(Find)
    BY OrdinaryNames, QuietGets, Zenon DEF Find
  <1>3. Quiet(SourceName)
    BY OrdinaryNames, QuietChecks, Zenon DEF SourceName
  <1>4. Quiet(FreeDevs)
    BY OrdinaryNames, QuietDrops, Zenon DEF FreeDevs
  <1>5. Quiet(Listening)
    BY OrdinaryNames, QuietUses, Zenon DEF Listening
  <1> QED BY <1>1, <1>2, <1>3, <1>4, <1>5

(* What is done with a handle is quiet as well.                             *)
LEMMA QuietHandles ==
    ASSUME NEW h, NEW o
    PROVE  /\ Quiet(Open(h, o)) /\ Quiet(OpenChosen(h, o)) /\ Quiet(Compile(h, o))
           /\ Quiet(Close(h))
  <1>1. Quiet(Open(h, o))
    BY OrdinaryNames, QuietGets, Zenon DEF Open
  <1>2. Quiet(OpenChosen(h, o))
    BY OrdinaryNames, QuietGets, Zenon DEF OpenChosen
  <1>3. Quiet(Compile(h, o))
    BY OrdinaryNames, QuietGets, Zenon DEF Compile
  <1>4. Quiet(Close(h))
    BY OrdinaryNames, QuietDrops, Zenon DEF Close
  <1> QED BY <1>1, <1>2, <1>3, <1>4

(* The choice of a device is quiet.                                         *)
LEMMA QuietPick == Quiet(Pick[1]) /\ Quiet(Pick[2]) /\ Quiet(Pick[3])
  <1>1. /\ Pick[1] = Find /\ Pick[2] = Checks("no_devices", {"alldevs"}, {"alldevs"})
        /\ Pick[3] = Checks("inum", {"alldevs"}, {"alldevs"})
    BY DEF Pick
  <1>2. "no_devices" \notin Special /\ "inum" \notin Special
    BY DEF Special
  <1>3. /\ Quiet(Checks("no_devices", {"alldevs"}, {"alldevs"}))
        /\ Quiet(Checks("inum", {"alldevs"}, {"alldevs"}))
    BY <1>2, QuietChecks, Zenon
  <1> QED BY <1>1, <1>2, <1>3, QuietShared

(* The filter's call goes by its name.                                      *)
LEMMA SetFilterIs ==
    ASSUME NEW h, NEW o
    PROVE  SetFilter(h, o).from = "" /\ SetFilter(h, o).do = ""
           /\ SetFilter(h, o).name = "pcap_setfilter"
  BY SilentChecks DEF SetFilter

(* tcptop takes samples and does nothing else with its packets.             *)
LEMMA TopCalls ==
    ASSUME prog = "tcptop", way \in DOMAIN Programs[prog], pc \in DOMAIN calls
    PROVE  Call.name # "clear_old" /\ Call.do \in {"", "sample"} /\ Call.from \in {"", "net"}
  <1> DEFINE Top(c) == c.name # "clear_old" /\ c.do \in {"", "sample"} /\ c.from \in {"", "net"}
  <1>1. Programs["tcptop"] = Tcptop
    <2>1. "tcptop" \in DOMAIN PcapCalls /\ PcapCalls["tcptop"] = Tcptop
      BY DEF PcapCalls
    <2> QED BY <2>1, ProgramsOfTheirOwn
  <1>2. calls = Tcptop[1]
    BY <1>1 DEF calls, Tcptop
  <1>3. /\ DOMAIN calls = 1..7
        /\ calls[1] = Argc /\ calls[2] = Open("fp", {}) /\ calls[3] = Compile("fp", {})
        /\ calls[4] = SetFilter("fp", {"fp"}) /\ calls[5] = Checks("pcap_setmode", {"fp"}, {"fp"})
        /\ calls[6] = Loop("fp", "net", "sample") /\ calls[7] = Close("fp")
    BY <1>2 DEF Tcptop
  <1>4. Top(Argc) /\ Top(Open("fp", {})) /\ Top(Compile("fp", {})) /\ Top(Close("fp"))
    BY QuietShared, QuietHandles DEF Quiet, Special
  <1>5. Top(SetFilter("fp", {"fp"}))
    BY SetFilterIs
  <1>6. Top(Checks("pcap_setmode", {"fp"}, {"fp"}))
    <2>1. "pcap_setmode" \notin Special
      BY DEF Special
    <2>2. Quiet(Checks("pcap_setmode", {"fp"}, {"fp"}))
      BY <2>1, QuietChecks, Zenon
    <2> QED BY <2>2 DEF Quiet, Special
  <1>7. Top(Loop("fp", "net", "sample"))
    <2>1. Loop("fp", "net", "sample").name = "pcap_loop"
      BY DEF Loop, Uses
    <2>2. Loop("fp", "net", "sample").do = "sample"
      BY DEF Loop, Uses
    <2>3. Loop("fp", "net", "sample").from = "net"
      BY DEF Loop, Uses
    <2> QED BY <2>1, <2>2, <2>3
  <1>8. pc = 1 \/ pc = 2 \/ pc = 3 \/ pc = 4 \/ pc = 5 \/ pc = 6 \/ pc = 7
    BY <1>3
  <1>9. Top(calls[pc])
    BY <1>3, <1>4, <1>5, <1>6, <1>7, <1>8
  <1> QED BY <1>9 DEF Call

(* smp_1 clears the last time stamp before its loop.                        *)
LEMMA SmpCalls ==
    ASSUME prog = "smp_1", way \in DOMAIN Programs[prog], pc \in DOMAIN calls
    PROVE  /\ Len(calls) = 6 /\ DOMAIN calls = 1..6
           /\ pc # 6 => Call.from = ""
           /\ Call.name = "clear_old" <=> pc = 5
           /\ Call.do \in {"", "consistent"} /\ Call.from \in {"", "net"}
  <1>1. Programs["smp_1"] = Smp1
    <2>1. "smp_1" \in DOMAIN PcapCalls /\ PcapCalls["smp_1"] = Smp1
      BY DEF PcapCalls
    <2> QED BY <2>1, ProgramsOfTheirOwn
  <1>2. PICK loop : loop = <<OpenChosen("fp", {"alldevs"}), Uses("clear_old", {}),
                             LoopOrReturn("fp", "net", "consistent", {})>>
    OBVIOUS
  <1>3. calls = Pick \o loop
    BY <1>1, <1>2 DEF calls, Smp1
  <1>4. /\ Len(loop) = 3 /\ loop[1] = OpenChosen("fp", {"alldevs"})
        /\ loop[2] = Uses("clear_old", {}) /\ loop[3] = LoopOrReturn("fp", "net", "consistent", {})
    BY <1>2
  <1>5. PICK pick : pick = Pick /\ IsList(pick) /\ Len(pick) = 3
    BY PickPlain, PlainIsList
  <1>6. IsList(loop)
    <2>1. PlainList(loop)
      BY <1>2, HandlesPlain, UsesPlain, LoopsPlain, ListOfThree
    <2> QED BY <2>1, PlainIsList
  <1>7. /\ IsList(calls) /\ Len(calls) = Len(pick) + Len(loop)
        /\ \A i \in 1..Len(pick) : calls[i] = pick[i]
        /\ \A i \in 1..Len(loop) : calls[Len(pick) + i] = loop[i]
    <2>1. calls = pick \o loop
      BY <1>3, <1>5
    <2>2. IsList(pick) /\ IsList(loop)
      BY <1>5, <1>6
    <2>3. IsList(pick \o loop) /\ Len(pick \o loop) = Len(pick) + Len(loop)
      BY <2>2, JoinedAt
    <2>4. \A i \in 1..Len(pick) : (pick \o loop)[i] = pick[i]
      BY <2>2, JoinedAt
    <2>5. \A i \in 1..Len(loop) : (pick \o loop)[Len(pick) + i] = loop[i]
      BY <2>2, JoinedAt
    <2> QED BY <2>1, <2>3, <2>4, <2>5
  <1>8. /\ Len(calls) = 6 /\ calls[1] = pick[1] /\ calls[2] = pick[2] /\ calls[3] = pick[3]
        /\ calls[4] = loop[1] /\ calls[5] = loop[2] /\ calls[6] = loop[3]
    <2>1. Len(pick) = 3 /\ Len(loop) = 3
      BY <1>4, <1>5
    <2>2. 1 \in 1..3 /\ 2 \in 1..3 /\ 3 \in 1..3 /\ 3 + 1 = 4 /\ 3 + 2 = 5 /\ 3 + 3 = 6
      OBVIOUS
    <2> QED BY <1>7, <2>1, <2>2
  <1>9. DOMAIN calls = 1..6
    <2>1. PICK S : calls \in Seq(S)
      BY <1>7 DEF IsList
    <2> QED BY <1>8, <2>1
  <1>10. Quiet(calls[1]) /\ Quiet(calls[2]) /\ Quiet(calls[3])
    BY <1>5, <1>8, QuietPick
  <1>11. Quiet(calls[4])
    BY <1>4, <1>8, QuietHandles
  <1>12. calls[5].from = "" /\ calls[5].do = "" /\ calls[5].name = "clear_old"
    <2>1. /\ Uses("clear_old", {}).from = "" /\ Uses("clear_old", {}).do = ""
          /\ Uses("clear_old", {}).name = "clear_old"
      BY SilentUses, Zenon
    <2> QED BY <1>4, <1>8, <2>1
  <1>13. calls[6].from = "net" /\ calls[6].do = "consistent" /\ calls[6].name = "pcap_loop"
    <2>1. LoopOrReturn("fp", "net", "consistent", {}).name = "pcap_loop"
      BY DEF LoopOrReturn, Loop, Uses
    <2>2. LoopOrReturn("fp", "net", "consistent", {}).do = "consistent"
      BY DEF LoopOrReturn, Loop, Uses
    <2>3. LoopOrReturn("fp", "net", "consistent", {}).from = "net"
      BY DEF LoopOrReturn, Loop, Uses
    <2> QED BY <1>4, <1>8, <2>1, <2>2, <2>3
  <1>14. pc = 1 \/ pc = 2 \/ pc = 3 \/ pc = 4 \/ pc = 5 \/ pc = 6
    BY <1>9
  <1> QED BY <1>8, <1>9, <1>10, <1>11, <1>12, <1>13, <1>14 DEF Call, Quiet, Special
(* UDPdump sets its filter before its loop, which is its last call.         *)
LEMMA UdpCalls ==
    ASSUME prog \in {"UDPdump", "UDPdump_remote"}, way \in DOMAIN Programs[prog],
           pc \in DOMAIN calls
    PROVE  /\ Len(calls) = 11 /\ DOMAIN calls = 1..11
           /\ pc # 11 => Call.from = ""
           /\ Call.name = "pcap_setfilter" => pc = 8
           /\ pc = 8 => Call.name = "pcap_setfilter"
           /\ Call.from \in {"", "net"}
  <1>1. Programs[prog] = UDPdump
    <2>1. "UDPdump" \in DOMAIN PcapCalls /\ PcapCalls["UDPdump"] = UDPdump
      BY DEF PcapCalls
    <2>2. "UDPdump_remote" \in DOMAIN PcapCalls /\ PcapCalls["UDPdump_remote"] = UDPdump
      BY DEF PcapCalls, UDPdumpRemote
    <2>3. Programs["UDPdump"] = UDPdump
      BY <2>1, ProgramsOfTheirOwn
    <2>4. Programs["UDPdump_remote"] = UDPdump
      BY <2>2, ProgramsOfTheirOwn
    <2>5. prog = "UDPdump" \/ prog = "UDPdump_remote"
      OBVIOUS
    <2> QED BY <2>3, <2>4, <2>5
  <1>2. PICK rest : rest = <<Risky(OpenChosen("adhandle", {"alldevs"})),
                             Checks("pcap_datalink", {"adhandle"}, {"alldevs"}),
                             Risky(Uses("netmask", {"alldevs"})),
                             Compile("adhandle", {"alldevs"}),
                             SetFilter("adhandle", {"alldevs"}), Listening, FreeDevs,
                             Loop("adhandle", "net", "udp")>>
    OBVIOUS
  <1>4. PICK pick : pick = Pick /\ IsList(pick) /\ Len(pick) = 3
    BY PickPlain, PlainIsList
  <1>5. calls = pick \o rest
    <2>1. UDPdump = <<pick \o rest>>
      BY <1>2, <1>4 DEF UDPdump
    <2> QED BY <1>1, <2>1 DEF calls
  <1>6. /\ Len(rest) = 8 /\ rest[1] = Risky(OpenChosen("adhandle", {"alldevs"}))
        /\ rest[2] = Checks("pcap_datalink", {"adhandle"}, {"alldevs"})
        /\ rest[3] = Risky(Uses("netmask", {"alldevs"}))
        /\ rest[4] = Compile("adhandle", {"alldevs"})
        /\ rest[5] = SetFilter("adhandle", {"alldevs"}) /\ rest[6] = Listening
        /\ rest[7] = FreeDevs /\ rest[8] = Loop("adhandle", "net", "udp")
    BY <1>2
  <1>7. IsList(rest)
    BY <1>2, IsListOfEight
  <1>11. /\ Len(calls) = 11
         /\ calls[1] = pick[1] /\ calls[2] = pick[2] /\ calls[3] = pick[3]
         /\ calls[4] = rest[1] /\ calls[5] = rest[2] /\ calls[6] = rest[3]
         /\ calls[7] = rest[4] /\ calls[8] = rest[5] /\ calls[9] = rest[6]
         /\ calls[10] = rest[7] /\ calls[11] = rest[8] /\ IsList(calls)
    <2>1. IsList(pick) /\ IsList(rest)
      BY <1>4, <1>7
    <2>2. IsList(pick \o rest) /\ Len(pick \o rest) = Len(pick) + Len(rest)
      BY <2>1, JoinedAt
    <2>3. \A i \in 1..Len(pick) : (pick \o rest)[i] = pick[i]
      BY <2>1, JoinedAt
    <2>4. \A i \in 1..Len(rest) : (pick \o rest)[Len(pick) + i] = rest[i]
      BY <2>1, JoinedAt
    <2>5. Len(pick) = 3 /\ Len(rest) = 8 /\ calls = pick \o rest
      BY <1>4, <1>5, <1>6
    <2>6. \A i \in 1..3 : calls[i] = pick[i]
      BY <2>3, <2>5
    <2>7. \A i \in 1..8 : calls[3 + i] = rest[i]
      BY <2>4, <2>5
    <2>8. calls[1] = pick[1] /\ calls[2] = pick[2] /\ calls[3] = pick[3]
      BY <2>6
    <2>9. /\ calls[3 + 1] = rest[1] /\ calls[3 + 2] = rest[2] /\ calls[3 + 3] = rest[3]
          /\ calls[3 + 4] = rest[4] /\ calls[3 + 5] = rest[5] /\ calls[3 + 6] = rest[6]
          /\ calls[3 + 7] = rest[7] /\ calls[3 + 8] = rest[8]
      BY <2>7
    <2>10. /\ 3 + 1 = 4 /\ 3 + 2 = 5 /\ 3 + 3 = 6 /\ 3 + 4 = 7 /\ 3 + 5 = 8
           /\ 3 + 6 = 9 /\ 3 + 7 = 10 /\ 3 + 8 = 11
      OBVIOUS
    <2>11. Len(calls) = 11 /\ IsList(calls)
      BY <2>2, <2>5
    <2> QED BY <2>8, <2>9, <2>10, <2>11
  <1>12. DOMAIN calls = 1..11
    <2>1. PICK S : calls \in Seq(S)
      BY <1>11 DEF IsList
    <2> QED BY <1>11, <2>1
  <1>13. Quiet(calls[1]) /\ Quiet(calls[2]) /\ Quiet(calls[3])
    BY <1>4, <1>11, QuietPick
  <1>14. Quiet(calls[4]) /\ Quiet(calls[5]) /\ Quiet(calls[6])
    <2>1. /\ "pcap_datalink" \notin Special /\ "netmask" \notin Special
          /\ "pcap_open" \notin Special
      BY DEF Special
    <2>2. Quiet(Checks("pcap_datalink", {"adhandle"}, {"alldevs"}))
      BY <2>1, QuietChecks, Zenon
    <2>3. Quiet(Risky(Uses("netmask", {"alldevs"})))
      BY <2>1, QuietRisky, Zenon
    <2>4. Quiet(Risky(OpenChosen("adhandle", {"alldevs"})))
      BY <2>1, QuietRisky, Zenon DEF OpenChosen
    <2> QED BY <1>6, <1>11, <2>2, <2>3, <2>4
  <1>15. Quiet(calls[7]) /\ Quiet(calls[9]) /\ Quiet(calls[10])
    BY <1>6, <1>11, QuietHandles, QuietShared
  <1>16. calls[8].from = "" /\ calls[8].name = "pcap_setfilter"
    <2>1. /\ SetFilter("adhandle", {"alldevs"}).from = ""
          /\ SetFilter("adhandle", {"alldevs"}).name = "pcap_setfilter"
      BY SetFilterIs, Zenon
    <2> QED BY <1>6, <1>11, <2>1
  <1>17. calls[11].from = "net" /\ calls[11].name = "pcap_loop"
    <2>1. /\ Loop("adhandle", "net", "udp").from = "net"
          /\ Loop("adhandle", "net", "udp").name = "pcap_loop"
      BY DEF Loop, Uses
    <2> QED BY <1>6, <1>11, <2>1
  <1>18. /\ \/ pc = 1 \/ pc = 2 \/ pc = 3 \/ pc = 4 \/ pc = 5 \/ pc = 6
            \/ pc = 7 \/ pc = 8 \/ pc = 9 \/ pc = 10 \/ pc = 11
    BY <1>12
  <1>19. pc # 8 /\ pc # 11 => Quiet(Call)
    BY <1>13, <1>14, <1>15, <1>18 DEF Call
  <1>20. pc = 8 => Call.from = "" /\ Call.name = "pcap_setfilter"
    BY <1>16 DEF Call
  <1>21. pc = 11 => Call.from = "net" /\ Call.name = "pcap_loop"
    BY <1>17 DEF Call
  <1>22. Quiet(Call) => Call.from = "" /\ Call.name # "pcap_setfilter"
    BY DEF Quiet, Special
  <1> QED BY <1>11, <1>12, <1>19, <1>20, <1>21, <1>22

(* sendcap measures its file with its third call, queues what it reads with *)
(* its tenth and transmits with its eleventh.                               *)
LEMMA CapCalls ==
    ASSUME prog = "sendcap", way \in DOMAIN Programs[prog], pc \in DOMAIN calls
    PROVE  /\ Len(calls) = 14 /\ DOMAIN calls = 1..14
           /\ pc # 10 => Call.from = "" /\ Call.do = ""
           /\ pc = 10 => Call.from = "file" /\ Call.do = "queue"
           /\ Call.name = "ftell" => pc = 3
           /\ Call.name = "pcap_sendqueue_transmit" => pc = 11
  <1>1. Programs["sendcap"] = Sendcap
    <2>1. "sendcap" \in DOMAIN PcapCalls /\ PcapCalls["sendcap"] = Sendcap
      BY DEF PcapCalls
    <2> QED BY <2>1, ProgramsOfTheirOwn
  <1>2. calls = Sendcap[1]
    BY <1>1 DEF calls, Sendcap
  <1>3. /\ Len(calls) = 14 /\ DOMAIN calls = 1..14
        /\ calls[1] = Argc /\ calls[2] = Gets("fopen_s", "capfile", {}, {})
        /\ calls[3] = Uses("ftell", {"capfile"}) /\ calls[4] = Drops("fclose", "capfile")
        /\ calls[5] = SourceName /\ calls[6] = Open("indesc", {}) /\ calls[7] = Open("outdesc", {})
        /\ calls[8] = Uses("pcap_datalink", {"indesc", "outdesc"})
        /\ calls[9] = [Uses("pcap_sendqueue_alloc", {}) EXCEPT !.gets = {"squeue"}]
        /\ calls[10] = LoopOrReturn("indesc", "file", "queue", {"squeue"})
        /\ calls[11] = Uses("pcap_sendqueue_transmit", {"outdesc", "squeue"})
        /\ calls[12] = Drops("pcap_sendqueue_destroy", "squeue")
        /\ calls[13] = Close("indesc") /\ calls[14] = Close("outdesc")
    BY <1>2 DEF Sendcap
  <1>4. /\ Quiet(calls[1]) /\ Quiet(calls[5]) /\ Quiet(calls[6]) /\ Quiet(calls[7])
        /\ Quiet(calls[13]) /\ Quiet(calls[14])
    BY <1>3, QuietShared, QuietHandles
  <1>5. Quiet(calls[2]) /\ Quiet(calls[4]) /\ Quiet(calls[8]) /\ Quiet(calls[12])
    <2>1. /\ "fopen_s" \notin Special /\ "fclose" \notin Special
          /\ "pcap_datalink" \notin Special /\ "pcap_sendqueue_destroy" \notin Special
      BY DEF Special
    <2>2. Quiet(Gets("fopen_s", "capfile", {}, {}))
      BY <2>1, QuietGets, Zenon
    <2>3. Quiet(Drops("fclose", "capfile"))
      BY <2>1, QuietDrops, Zenon
    <2>4. Quiet(Uses("pcap_datalink", {"indesc", "outdesc"}))
      BY <2>1, QuietUses, Zenon
    <2>5. Quiet(Drops("pcap_sendqueue_destroy", "squeue"))
      BY <2>1, QuietDrops, Zenon
    <2> QED BY <1>3, <2>2, <2>3, <2>4, <2>5
  <1>6. Quiet(calls[9])
    BY <1>3 DEF Uses, Quiet, Special
  <1>7. calls[3].from = "" /\ calls[3].do = "" /\ calls[3].name = "ftell"
    <2>1. /\ Uses("ftell", {"capfile"}).from = "" /\ Uses("ftell", {"capfile"}).do = ""
          /\ Uses("ftell", {"capfile"}).name = "ftell"
      BY SilentUses, Zenon
    <2> QED BY <1>3, <2>1
  <1>8. /\ calls[10].from = "file" /\ calls[10].do = "queue" /\ calls[10].name = "pcap_loop"
    BY <1>3 DEF LoopOrReturn, Loop, Uses
  <1>9. /\ calls[11].from = "" /\ calls[11].do = "" /\ calls[11].name = "pcap_sendqueue_transmit"
    <2> DEFINE transmit == Uses("pcap_sendqueue_transmit", {"outdesc", "squeue"})
    <2>1. transmit.from = "" /\ transmit.do = "" /\ transmit.name = "pcap_sendqueue_transmit"
      BY SilentUses, Zenon
    <2> QED BY <1>3, <2>1
  <1>10. \/ pc = 1 \/ pc = 2 \/ pc = 3 \/ pc = 4 \/ pc = 5 \/ pc = 6 \/ pc = 7
         \/ pc = 8 \/ pc = 9 \/ pc = 10 \/ pc = 11 \/ pc = 12 \/ pc = 13 \/ pc = 14
    BY <1>3
  <1>11. pc \notin {3, 10, 11} => Quiet(Call)
    BY <1>4, <1>5, <1>6, <1>10 DEF Call
  <1>12. pc = 3 => Call.from = "" /\ Call.do = "" /\ Call.name = "ftell"
    BY <1>7 DEF Call
  <1>13. pc = 10 => Call.from = "file" /\ Call.do = "queue" /\ Call.name = "pcap_loop"
    BY <1>8 DEF Call
  <1>14. pc = 11 => Call.from = "" /\ Call.do = "" /\ Call.name = "pcap_sendqueue_transmit"
    BY <1>9 DEF Call
  <1>15. Quiet(Call) => /\ Call.from = "" /\ Call.do = "" /\ Call.name # "ftell"
                        /\ Call.name # "pcap_sendqueue_transmit"
    BY DEF Quiet, Special
  <1> QED BY <1>3, <1>11, <1>12, <1>13, <1>14, <1>15

-----------------------------------------------------------------------------
(* Where the records of a file end.                                        *)

(* The ends of the first n records, each from that of the record before.    *)
Ends(n, f) == [i \in 0..n |-> IF i = 0 THEN FileHeader ELSE f[i - 1] + records[i]]

(* The first end is the header's, and each other is that of the record      *)
(* before and its size.                                                     *)
LEMMA EndsAt ==
    ASSUME NEW n \in Nat, NEW f, f = Ends(n, f)
    PROVE  f[0] = FileHeader /\ \A i \in 1..n : f[i] = f[i - 1] + records[i]
  <1>1. Ends(n, f)[0] = FileHeader
    BY DEF Ends
  <1>2. ASSUME NEW i \in 1..n PROVE Ends(n, f)[i] = f[i - 1] + records[i]
    BY DEF Ends
  <1> QED BY <1>1, <1>2

(* There are such ends, however many records.                               *)
LEMMA EndsExist ==
    ASSUME NEW n \in Nat
    PROVE  \E f : f = Ends(n, f)
  <1> DEFINE S == {k \in Nat : ~ \E f : f = Ends(k, f)}
  <1>1. SUFFICES ASSUME S # {} PROVE FALSE
    OBVIOUS
  <1>2. PICK m \in S : \A k \in S : m <= k
    BY <1>1, LeastOf
  <1>3. m # 0
    <2> DEFINE f == [i \in 0..0 |-> FileHeader]
    <2>1. f = Ends(0, f)
      BY DEF Ends
    <2> QED BY <1>2, <2>1
  <1>4. m - 1 \in Nat /\ m - 1 \notin S
    BY <1>2, <1>3
  <1>5. PICK f : f = Ends(m - 1, f)
    BY <1>4
  <1> DEFINE g == [i \in 0..m |-> IF i = m THEN f[m - 1] + records[m] ELSE f[i]]
  <1>6. g = Ends(m, g)
    <2>1. ASSUME NEW i \in 0..m
          PROVE  g[i] = IF i = 0 THEN FileHeader ELSE g[i - 1] + records[i]
      <3>1. CASE i = 0
        BY <1>3, <1>4, <1>5, <3>1, EndsAt
      <3>2. CASE i # 0 /\ i # m
        <4>1. i \in 1..(m - 1) /\ i - 1 \in 0..m /\ i - 1 # m
          BY <1>4, <3>2
        <4>2. f[i] = f[i - 1] + records[i]
          BY <1>4, <1>5, <4>1, EndsAt
        <4> QED BY <3>2, <4>1, <4>2
      <3>3. CASE i = m
        <4>1. i - 1 \in 0..m /\ i - 1 # m /\ i # 0
          BY <1>3, <1>4, <3>3
        <4> QED BY <3>3, <4>1
      <3> QED BY <3>1, <3>2, <3>3
    <2> HIDE DEF g
    <2>2. g = [i \in 0..m |-> g[i]]
      BY DEF g
    <2> QED BY <2>1, <2>2 DEF Ends
  <1> QED BY <1>2, <1>6

(* They are the same for every number of records.                           *)
LEMMA EndsAgree ==
    ASSUME NEW m \in Nat, NEW n \in Nat, m <= n, NEW f, f = Ends(m, f), NEW g, g = Ends(n, g)
    PROVE  \A i \in 0..m : f[i] = g[i]
  <1> DEFINE S == {i \in 0..m : f[i] # g[i]}
  <1>1. SUFFICES ASSUME S # {} PROVE FALSE
    OBVIOUS
  <1>2. PICK i \in S : \A k \in S : i <= k
    <2>1. S \subseteq Nat
      OBVIOUS
    <2> HIDE DEF S
    <2> QED BY <1>1, <2>1, LeastOf
  <1>3. i # 0
    BY <1>2, EndsAt
  <1>4. i - 1 \in 0..m /\ i \in 1..m /\ i \in 1..n
    BY <1>2, <1>3
  <1>5. f[i - 1] = g[i - 1]
    BY <1>2, <1>4
  <1>6. f[i] = f[i - 1] + records[i]
    BY <1>4, EndsAt
  <1>7. g[i] = g[i - 1] + records[i]
    BY <1>4, EndsAt
  <1> QED BY <1>2, <1>5, <1>6, <1>7

(* EndOf is one of these ends.                                              *)
LEMMA EndOfEnds ==
    ASSUME NEW n \in Nat
    PROVE  \E f : f = Ends(n, f) /\ EndOf(n) = f[n]
  <1> DEFINE next(f) == [i \in 0..n |-> IF i = 0 THEN FileHeader ELSE f[i - 1] + records[i]]
             end == CHOOSE f : f = next(f)
  <1>1. \E f : f = next(f)
    BY EndsExist DEF Ends
  <1> HIDE DEF next
  <1>2. end = next(end)
    BY <1>1
  <1>3. EndOf(n) = end[n]
    BY DEF EndOf, next
  <1>4. end = Ends(n, end)
    BY <1>2 DEF next, Ends
  <1> QED BY <1>3, <1>4

(* A record begins where the one before it ends.                            *)
LEMMA EndOfNext ==
    /\ EndOf(0) = FileHeader
    /\ \A n \in Nat : EndOf(n + 1) = EndOf(n) + records[n + 1]
  <1>1. EndOf(0) = FileHeader
    <2>1. PICK f : f = Ends(0, f) /\ EndOf(0) = f[0]
      BY EndOfEnds
    <2> QED BY <2>1, EndsAt
  <1>2. ASSUME NEW n \in Nat PROVE EndOf(n + 1) = EndOf(n) + records[n + 1]
    <2>1. PICK f : f = Ends(n, f) /\ EndOf(n) = f[n]
      BY EndOfEnds
    <2>2. PICK g : g = Ends(n + 1, g) /\ EndOf(n + 1) = g[n + 1]
      BY EndOfEnds
    <2>3. f[n] = g[n]
      BY <2>1, <2>2, EndsAgree
    <2>4. g[n + 1] = g[n] + records[n + 1]
      BY <2>2, EndsAt
    <2> QED BY <2>1, <2>2, <2>3, <2>4
  <1> QED BY <1>1, <1>2

(* A file grows with each of its records.                                   *)
LEMMA EndOfGrows ==
    ASSUME records \in Seq(Sizes)
    PROVE  /\ \A n \in 0..Len(records) : EndOf(n) \in Nat /\ EndOf(n) >= FileHeader
           /\ \A n \in 0..Len(records) : \A m \in 0..n : EndOf(m) <= EndOf(n)
           /\ \A n \in 1..Len(records) : EndOf(n - 1) < EndOf(n)
  <1> DEFINE L == Len(records)
  <1>1. FileHeader \in Nat \ {0} /\ Sizes \subseteq Nat \ {0} /\ L \in Nat
    BY PcapExamplesAssumption
  <1>2. \A i \in 1..L : records[i] \in Nat /\ records[i] > 0
    <2>1. \A i \in 1..L : records[i] \in Sizes
      OBVIOUS
    <2>2. \A size \in Sizes : size \in Nat /\ size > 0
      BY <1>1
    <2> HIDE DEF L
    <2> QED BY <2>1, <2>2
  <1> HIDE DEF L
  <1>3. \A n \in 0..L : EndOf(n) \in Nat /\ EndOf(n) >= FileHeader
    <2> DEFINE S == {n \in 0..L : ~(EndOf(n) \in Nat /\ EndOf(n) >= FileHeader)}
    <2>1. SUFFICES ASSUME S # {} PROVE FALSE
      OBVIOUS
    <2>2. S \subseteq Nat
      BY <1>1
    <2>3. PICK n \in S : \A k \in S : n <= k
      BY <2>1, <2>2, LeastOf
    <2>4. n # 0
      <3>1. EndOf(0) = FileHeader /\ FileHeader \in Nat /\ FileHeader >= FileHeader
        BY <1>1, EndOfNext
      <3> QED BY <2>3, <3>1
    <2>5. n - 1 \in Nat /\ n - 1 \in 0..L /\ n - 1 \notin S /\ n \in 1..L
      BY <1>1, <2>3, <2>4
    <2>6. EndOf((n - 1) + 1) = EndOf(n - 1) + records[(n - 1) + 1]
      BY <2>5, EndOfNext
    <2>7. (n - 1) + 1 = n
      BY <2>5
    <2>8. EndOf(n) = EndOf(n - 1) + records[n]
      BY <2>6, <2>7
    <2>9. EndOf(n - 1) \in Nat /\ EndOf(n - 1) >= FileHeader
      BY <2>5
    <2> QED BY <1>1, <1>2, <2>3, <2>5, <2>8, <2>9
  <1>4. ASSUME NEW n \in 1..L PROVE EndOf(n - 1) < EndOf(n)
    <2>1. n - 1 \in Nat /\ n - 1 \in 0..L /\ (n - 1) + 1 = n
      BY <1>1
    <2>2. EndOf((n - 1) + 1) = EndOf(n - 1) + records[(n - 1) + 1]
      BY <2>1, EndOfNext
    <2>3. EndOf(n) = EndOf(n - 1) + records[n]
      BY <2>1, <2>2
    <2> QED BY <1>2, <1>3, <2>1, <2>3
  <1>5. \A n \in 0..L : \A m \in 0..n : EndOf(m) <= EndOf(n)
    <2> DEFINE S == {n \in 0..L : \E m \in 0..n : EndOf(m) > EndOf(n)}
    <2>1. SUFFICES ASSUME S # {} PROVE FALSE
      <3>1. SUFFICES ASSUME NEW n \in 0..L, NEW m \in 0..n PROVE EndOf(m) <= EndOf(n)
        OBVIOUS
      <3>2. m \in 0..L
        BY <1>1
      <3>3. EndOf(m) \in Nat /\ EndOf(n) \in Nat
        BY <1>3, <3>2
      <3> QED BY <2>1, <3>3
    <2>2. S \subseteq Nat
      BY <1>1
    <2>3. PICK n \in S : \A k \in S : n <= k
      BY <2>1, <2>2, LeastOf
    <2>4. PICK m \in 0..n : EndOf(m) > EndOf(n)
      BY <2>3
    <2>5. n \in 0..L /\ m \in 0..L
      BY <1>1, <2>3
    <2>6. m # n
      BY <1>3, <2>4, <2>5
    <2>7. n \in 1..L /\ n - 1 \in 0..L /\ m \in 0..n - 1 /\ n - 1 \notin S
      BY <1>1, <2>3, <2>5, <2>6
    <2>8. ~(EndOf(m) > EndOf(n - 1))
      BY <2>7
    <2>9. EndOf(n - 1) < EndOf(n)
      BY <1>4, <2>7
    <2> QED BY <1>3, <2>4, <2>5, <2>7, <2>8, <2>9
  <1> QED BY <1>3, <1>4, <1>5 DEF L

(* Where records end does not change as long as they do not.                *)
LEMMA EndOfStays ==
    ASSUME records' = records
    PROVE  \A n : EndOf(n)' = EndOf(n)
  BY DEF EndOf

-----------------------------------------------------------------------------
(* The invariant of the example programs.                                  *)

(* main is at one of the calls of the program that runs.                    *)
MainIsSomewhere ==
    /\ prog \in DOMAIN Programs /\ way \in DOMAIN Programs[prog]
    /\ CallsTypeOK

(* What is captured, handled, read and sent.                                *)
NotesTyped ==
    /\ handled \in Seq([n : 1..MaxPackets, note : 0..Wrap - 1])
    /\ \A i \in DOMAIN handled : handled[i].n \in DOMAIN arrived \cup DOMAIN records

ExamplesTyped ==
    /\ arrived \in Seq([match : BOOLEAN, ts : Times]) /\ Len(arrived) <= MaxPackets
    /\ buffer \in Seq(DOMAIN arrived) /\ filter \in {NoFilter} \cup 0..Len(arrived)
    /\ NotesTyped
    /\ old \in Times /\ length \in 0..EndOf(Len(records)) /\ measured \in Int
    /\ records \in Seq(Sizes) /\ Len(records) <= MaxPackets
    /\ Len(sent) <= Len(handled)

(* UDPdump: what arrived behind its filter and waits or was handled matches *)
(* it, and its loop comes behind the filter.                                *)
Filtered(n) == n > filter => arrived[n].match

UdpInv ==
    prog \in {"UDPdump", "UDPdump_remote"} =>
        /\ filter = NoFilter => pc <= 8
        /\ \A i \in DOMAIN handled : handled[i].n \in DOMAIN arrived
        /\ filter # NoFilter =>
             /\ \A i \in DOMAIN buffer : Filtered(buffer[i])
             /\ \A i \in DOMAIN handled : Filtered(handled[i].n)

(* The last time stamp is that of the last packet handled.                  *)
OldIsLast == handled # <<>> => old = arrived[handled[Len(handled)].n].ts

(* smp_1: before its first packet the last time stamp is cleared.           *)
SmpInv ==
    prog = "smp_1" =>
        /\ \A i \in DOMAIN handled : handled[i].n \in DOMAIN arrived
        /\ pc <= 5 => handled = <<>>
        /\ pc = 6 /\ handled = <<>> => old = <<0, 0>>
        /\ OldIsLast /\ ComplainsRightly

(* tcptop: no sample is taken twice, and they are taken in the order in     *)
(* which they arrived, whatever their times are.                            *)
TopInv ==
    prog = "tcptop" =>
        /\ \A i \in DOMAIN handled : handled[i].n \in DOMAIN arrived
        /\ \A i, j \in DOMAIN buffer : i < j => buffer[i] < buffer[j]
        /\ \A i \in DOMAIN handled : \A j \in DOMAIN buffer : handled[i].n < buffer[j]
        /\ OldIsLast /\ SamplesOverTheirTime

(* sendcap: it queues records up to the length it measured.                 *)
CapInv ==
    prog = "sendcap" =>
        /\ measured + FileHeader <= length
        /\ pc < 10 => handled = <<>>
        /\ pc = 10 => /\ Len(handled) <= Len(records)
                      /\ handled # <<>> => EndOf(Len(handled)) <= measured + FileHeader
        /\ pc = 11 => /\ Len(handled) <= Len(records)
                      /\ \A n \in 1..Len(records) :
                           EndOf(n) <= measured + FileHeader <=> n <= Len(handled)

(* What brought a program of wpcap down.                                    *)
CrashFacts ==
    prog \in DOMAIN PcapCalls /\ status = "crashed" =>
        \/ Call.down
        \/ prog = "tcptop" /\ StandsStill
        \/ prog = "sendcap" /\ measured < 0

ExamplesInv ==
    /\ MainIsSomewhere /\ ExamplesTyped
    /\ UdpInv /\ SmpInv /\ TopInv /\ CapInv /\ CrashFacts

-----------------------------------------------------------------------------
(* Where main is.                                                          *)

(* A step leaves main at its call, or takes it to the next one.             *)
Moves ==
    /\ UNCHANGED <<prog, way>>
    /\ pc' = pc \/ (pc # Len(calls) /\ pc' = pc + 1)
    /\ status' = status \/ status' \in {"returned", "failed", "stopped", "crashed"}

(* What a call does to main, whichever it is.                               *)
LEMMA EveryCallMoves ==
    /\ Succeed => Moves
    /\ Fail => Moves
    /\ \A how \in {"returned", "stopped", "crashed"} : End(how) => Moves
    /\ UNCHANGED callVars => Moves
  <1>1. Succeed => Moves
    BY DEF Succeed, Advance, Moves
  <1>2. Fail => Moves
    BY DEF Fail, Moves
  <1>3. ASSUME NEW how \in {"returned", "stopped", "crashed"}, End(how) PROVE Moves
    BY <1>3 DEF End, Moves
  <1>4. UNCHANGED callVars => Moves
    BY DEF Moves, callVars
  <1> QED BY <1>1, <1>2, <1>3, <1>4

(* No step of any program does anything else to main.                       *)
LEMMA EveryStepMoves == [Next]_winVars => Moves
  <1> SUFFICES ASSUME [Next]_winVars PROVE Moves
    OBVIOUS
  <1>1. CASE OfPcap(PcapNext)
    <2>1. CASE Main
      <3>1. CASE ReadPacket
        <4>1. UNCHANGED callVars \/ End("crashed")
          BY <3>1 DEF ReadPacket, HandleSample, HandleConsistent, HandleOther
        <4> QED BY <4>1, EveryCallMoves
      <3>2. CASE ReadRecord
        <4>1. UNCHANGED callVars \/ End("crashed") \/ Succeed
          BY <3>2 DEF ReadRecord
        <4> QED BY <4>1, EveryCallMoves
      <3>3. CASE ReadError
        <4>1. Fail \/ Succeed
          BY <3>3 DEF ReadError
        <4> QED BY <4>1, EveryCallMoves
      <3>4. CASE DoCall \/ FailCall \/ GoDown \/ ReadNothing \/ ReadEnd
        <4>1. UNCHANGED callVars \/ Fail \/ End("crashed") \/ Succeed
          BY <3>4 DEF DoCall, FailCall, GoDown, ReadNothing, ReadEnd
        <4> QED BY <4>1, EveryCallMoves
      <3> QED BY <2>1, <3>1, <3>2, <3>3, <3>4 DEF Main
    <2>2. CASE Arrive \/ Grow
      BY <2>2, EveryCallMoves DEF Arrive, Grow
    <2>3. CASE Interrupt
      BY <2>3, EveryCallMoves DEF Interrupt
    <2> QED BY <1>1, <2>1, <2>2, <2>3 DEF OfPcap, PcapNext
  <1>2. CASE OfPacket(PacketNext)
    <2>1. CASE PacketMain
      <3>1. CASE SplitList
        <4>1. End("crashed") \/ Succeed
          BY <3>1 DEF SplitList
        <4> QED BY <4>1, EveryCallMoves
      <3>2. CASE PrintPacket
        <4>1. End("crashed") \/ UNCHANGED callVars
          BY <3>2 DEF PrintPacket
        <4> QED BY <4>1, EveryCallMoves
      <3>3. \/ Plain \/ GoDown \/ SelectAdapter \/ Receive \/ ReceiveFails \/ PrintEnd
            \/ LoopEnd
            => Moves
        <4>1. SUFFICES ASSUME \/ Plain \/ GoDown \/ SelectAdapter \/ Receive \/ ReceiveFails
                              \/ PrintEnd \/ LoopEnd
                       PROVE  Moves
          OBVIOUS
        <4>2. UNCHANGED callVars \/ Fail \/ End("crashed") \/ Succeed
          BY <4>1 DEF Plain, GoDown, SelectAdapter, Receive, ReceiveFails, PrintEnd, LoopEnd
        <4> QED BY <4>2, EveryCallMoves
      <3> QED BY <2>1, <3>1, <3>2, <3>3 DEF PacketMain
    <2>2. CASE PressKey
      BY <2>2, EveryCallMoves DEF PressKey
    <2>3. CASE Interrupt
      BY <2>3, EveryCallMoves DEF Interrupt
    <2> QED BY <1>2, <2>1, <2>2, <2>3 DEF OfPacket, PacketNext
  <1>3. CASE OfBridge(BridgeNext)
    <2>1. ASSUME NEW t \in Sides, Come(t) \/ Forward(t) PROVE Moves
      <3>1. UNCHANGED callVars
        BY <2>1 DEF Come, Forward, LoopTestKill, NextEx, NextExFails, Enter, Leave, SendOn
      <3> QED BY <3>1, EveryCallMoves
    <2>2. CASE BridgeDoes \/ CtrlC
      <3>1. Succeed \/ UNCHANGED callVars
        BY <2>2 DEF BridgeDoes, CtrlC
      <3> QED BY <3>1, EveryCallMoves
    <2>2a. BridgeFails \/ (\E n \in DOMAIN UndoOrder : TakeBack(n)) => Moves
      BY DEF BridgeFails, TakeBack, Moves
    <2>2b. CASE (Awake /\ GoDown) \/ FreedAgain
      BY <2>2b, EveryCallMoves DEF GoDown, FreedAgain
    <2>3. CASE CtrlCUnhandled \/ WaitAll \/ WaitTimeout
      <3>1. End("stopped") \/ End("returned")
        BY <2>3 DEF CtrlCUnhandled, Interrupt, WaitAll, WaitTimeout, Exit
      <3> QED BY <3>1, EveryCallMoves
    <2> QED BY <1>3, <2>1, <2>2, <2>2a, <2>2b, <2>3 DEF OfBridge, BridgeNext
  <1>4. CASE UNCHANGED winVars
    BY <1>4, EveryCallMoves DEF winVars
  <1> QED BY <1>1, <1>2, <1>3, <1>4 DEF Next

(* Such a step leaves main at one of its calls.                             *)
LEMMA MainKeeps == MainIsSomewhere /\ Moves => MainIsSomewhere'
  <1> SUFFICES ASSUME MainIsSomewhere, Moves PROVE MainIsSomewhere'
    OBVIOUS
  <1>1. prog' = prog /\ way' = way
    BY DEF Moves
  <1>2. calls' = calls
    BY <1>1 DEF calls
  <1>3. Len(calls) \in Nat \ {0} /\ DOMAIN calls = 1..Len(calls)
    BY CallsAreAList DEF MainIsSomewhere
  <1>4. pc' \in DOMAIN calls
    BY <1>3 DEF MainIsSomewhere, CallsTypeOK, Moves
  <1>5. status' \in {"running", "returned", "failed", "stopped", "crashed"}
    BY DEF MainIsSomewhere, CallsTypeOK, Moves
  <1> QED BY <1>1, <1>2, <1>4, <1>5 DEF MainIsSomewhere, CallsTypeOK

-----------------------------------------------------------------------------
(* What a step does to what is captured, handled, read and sent.           *)

(* main makes a call of this name that is no loop.                          *)
Works(name) == Running /\ ~Looping /\ Call.name = name /\ Succeed

Happens ==
    \/ UNCHANGED pcapVars
    \/ Arrive \/ Grow \/ ReadPacket \/ ReadRecord
    \/ Works("pcap_setfilter") /\ SetsFilter
    \/ Works("ftell") /\ Measures
    \/ Works("pcap_sendqueue_transmit") /\ Transmits
    \/ Works("clear_old") /\ ClearsOld

(* What a call does beyond handing objects out and taking them back goes    *)
(* by its name.                                                             *)
LEMMA CallsWork == DoCall => Happens
  <1> SUFFICES ASSUME DoCall PROVE Happens
    OBVIOUS
  <1>1. Running /\ ~Looping /\ Succeed /\ Effect(Call.name)
    BY DEF DoCall
  <1>2. CASE Call.name = "pcap_setfilter"
    BY <1>1, <1>2 DEF Effect, Happens, Works
  <1>3. CASE Call.name = "ftell"
    BY <1>1, <1>3 DEF Effect, Happens, Works
  <1>4. CASE Call.name = "pcap_sendqueue_transmit"
    BY <1>1, <1>4 DEF Effect, Happens, Works
  <1>5. CASE Call.name = "clear_old"
    BY <1>1, <1>5 DEF Effect, Happens, Works
  <1>6. CASE /\ Call.name # "pcap_setfilter" /\ Call.name # "ftell"
             /\ Call.name # "pcap_sendqueue_transmit" /\ Call.name # "clear_old"
    BY <1>1, <1>6 DEF Effect, Happens
  <1> QED BY <1>2, <1>3, <1>4, <1>5, <1>6

(* Whatever program runs, its step does one of these things or leaves all   *)
(* this alone.                                                              *)
LEMMA EveryStepHappens == [Next]_winVars => Happens
  <1> SUFFICES ASSUME [Next]_winVars PROVE Happens
    OBVIOUS
  <1>1. CASE OfPcap(PcapNext)
    <2>1. CASE Main
      <3>1. CASE DoCall
        BY <3>1, CallsWork
      <3>2. CASE FailCall \/ ReadNothing \/ ReadEnd \/ ReadError
        BY <3>2 DEF FailCall, ReadNothing, ReadEnd, ReadError, Happens
      <3> QED BY <2>1, <3>1, <3>2 DEF Main, Happens
    <2> QED BY <1>1, <2>1 DEF OfPcap, PcapNext, Happens
  <1>2. CASE OfPacket(PacketNext) \/ OfBridge(BridgeNext) \/ UNCHANGED winVars
    BY <1>2 DEF OfPacket, OfBridge, winVars, Happens
  <1> QED BY <1>1, <1>2 DEF Next

(* What a remainder is.                                                     *)
LEMMA Remainder ==
    ASSUME NEW x \in Int, NEW m \in Nat \ {0}
    PROVE  x % m \in 0..m - 1
  OBVIOUS

(* The seconds and microseconds of a time stamp are numbers.                *)
LEMMA TimesAreInts ==
    ASSUME NEW ts \in Times
    PROVE  ts[1] \in 0..1 /\ ts[2] \in 0..USec - 1 /\ ts[1] \in Int /\ ts[2] \in Int
  BY PcapExamplesAssumption DEF Times

(* tcptop's delay is a u_int, whatever the two times are.                   *)
LEMMA delayIsUInt ==
    ASSUME NEW ts \in Times, old \in Times
    PROVE  delay(ts) \in 0..Wrap - 1
  <1>1. /\ ts[1] \in Int /\ ts[2] \in Int /\ old[1] \in Int /\ old[2] \in Int /\ USec \in Int
        /\ Wrap \in Nat \ {0}
    BY TimesAreInts, PcapExamplesAssumption
  <1>2. (ts[1] - old[1]) * USec - old[2] + ts[2] \in Int
    BY <1>1
  <1> QED BY <1>1, <1>2, Remainder DEF delay

(* At the start main is at its first call, and everything has its type.     *)
LEMMA AtStart == Init => MainIsSomewhere /\ ExamplesTyped
  <1> SUFFICES ASSUME Init PROVE MainIsSomewhere /\ ExamplesTyped
    OBVIOUS
  <1>1. PcapIdle /\ status = "running" /\ pc = 1
    BY DEF Init, PcapInit, PacketInit, BridgeInit, Start
  <1>2. prog \in DOMAIN Programs /\ way \in DOMAIN Programs[prog]
    <2>1. CASE PcapInit
      BY <2>1, ProgramsOfTheirOwn DEF PcapInit, Start
    <2>2. CASE PacketInit
      BY <2>2, ProgramsOfTheirOwn DEF PacketInit, Start
    <2>3. CASE BridgeInit
      <3>1. prog = "UserBridge" /\ way \in DOMAIN Bridge /\ prog \in DOMAIN BridgeCalls
        BY <2>3 DEF BridgeInit, Start, BridgeCalls
      <3> QED BY <3>1, BridgeProgram, ProgramsOfTheirOwn
    <2> QED BY <2>1, <2>2, <2>3 DEF Init
  <1>3. MainIsSomewhere
    BY <1>1, <1>2, CallsAreAList DEF MainIsSomewhere, CallsTypeOK
  <1>4. records \in Seq(Sizes) /\ Len(records) <= MaxPackets
    <2>1. CASE ReadsFile
      <3>1. PICK n \in 0..MaxPackets : records \in [1..n -> Sizes]
        BY <1>1, <2>1 DEF PcapIdle
      <3>2. n \in Nat /\ n <= MaxPackets
        BY <3>1, PcapExamplesAssumption
      <3> QED BY <3>1, <3>2
    <2>2. CASE ~ReadsFile
      <3>1. records = <<>>
        BY <1>1, <2>2 DEF PcapIdle
      <3> QED BY <3>1, PcapExamplesAssumption
    <2> QED BY <2>1, <2>2
  <1>5. length \in 0..EndOf(Len(records))
    <2>1. CASE ReadsFile
      BY <1>1, <2>1 DEF PcapIdle
    <2>2. CASE ~ReadsFile
      <3>1. length = 0
        BY <1>1, <2>2 DEF PcapIdle
      <3>2. Len(records) \in 0..Len(records)
        BY <1>4
      <3>3. EndOf(Len(records)) \in Nat
        BY <1>4, <3>2, EndOfGrows
      <3> QED BY <3>1, <3>3
    <2> QED BY <2>1, <2>2
  <1>6. old \in Times
    <2>1. <<0, 0>> \in Times
      BY PcapExamplesAssumption DEF Times
    <2> QED BY <1>1, <2>1 DEF PcapIdle
  <1>7. /\ arrived = <<>> /\ buffer = <<>> /\ filter = NoFilter /\ handled = <<>>
        /\ measured = Unmeasured /\ sent = <<>>
    BY <1>1 DEF PcapIdle
  <1>8. measured \in Int
    BY <1>7, PcapExamplesAssumption DEF Unmeasured
  <1>9. /\ arrived \in Seq([match : BOOLEAN, ts : Times]) /\ Len(arrived) <= MaxPackets
        /\ buffer \in Seq(DOMAIN arrived) /\ NotesTyped /\ Len(sent) <= Len(handled)
    BY <1>7, PcapExamplesAssumption DEF NotesTyped
  <1>10. ExamplesTyped
    BY <1>4, <1>5, <1>6, <1>7, <1>8, <1>9 DEF ExamplesTyped
  <1> QED BY <1>3, <1>10

-----------------------------------------------------------------------------
(* The variables hold values of their types.                               *)

(* What the network sends are packets with a time stamp.                    *)
LEMMA TrafficTyped == Traffic \subseteq [match : BOOLEAN, ts : Times]
  <1>1. <<0, 0>> \in Times
    BY PcapExamplesAssumption DEF Times
  <1> DEFINE match == IF Filters THEN BOOLEAN ELSE {TRUE}
             ts == IF prog \in {"smp_1", "tcptop"} THEN Times ELSE {<<0, 0>>}
  <1>2. match \subseteq BOOLEAN
    OBVIOUS
  <1>3. ts \subseteq Times
    BY <1>1
  <1>4. Traffic = [match : match, ts : ts]
    BY DEF Traffic
  <1> HIDE DEF match, ts
  <1> QED BY <1>2, <1>3, <1>4

(* A packet is added to those that arrived.                                 *)
LEMMA Arrival ==
    ASSUME ExamplesTyped, Arrive
    PROVE  \E packet \in [match : BOOLEAN, ts : Times] :
               /\ packet \in Traffic
               /\ arrived' = Append(arrived, packet) /\ Len(arrived') = Len(arrived) + 1
               /\ arrived' \in Seq([match : BOOLEAN, ts : Times]) /\ Len(arrived') <= MaxPackets
               /\ DOMAIN arrived \subseteq DOMAIN arrived'
               /\ \A i \in DOMAIN arrived : arrived'[i] = arrived[i]
               /\ arrived'[Len(arrived')] = packet /\ Len(arrived') \in DOMAIN arrived'
               /\ \/ UNCHANGED buffer
                  \/ /\ buffer' = Append(buffer, Len(arrived'))
                     /\ filter = NoFilter \/ packet.match
  <1>1. PICK packet \in Traffic :
             /\ arrived' = Append(arrived, packet)
             /\ buffer' = IF filter = NoFilter \/ packet.match
                          THEN Append(buffer, Len(arrived')) ELSE buffer
    BY DEF Arrive
  <1>2. packet \in [match : BOOLEAN, ts : Times]
    BY TrafficTyped
  <1>3. arrived \in Seq([match : BOOLEAN, ts : Times]) /\ Len(arrived) < MaxPackets
    BY DEF ExamplesTyped, Arrive
  <1>4. /\ arrived' \in Seq([match : BOOLEAN, ts : Times]) /\ Len(arrived') = Len(arrived) + 1
        /\ arrived'[Len(arrived')] = packet
        /\ \A i \in 1..Len(arrived) : arrived'[i] = arrived[i]
    BY <1>1, <1>2, <1>3
  <1>5. Len(arrived') <= MaxPackets
    BY <1>3, <1>4, PcapExamplesAssumption
  <1>6. DOMAIN arrived = 1..Len(arrived) /\ DOMAIN arrived' = 1..Len(arrived')
    BY <1>3, <1>4
  <1>7. DOMAIN arrived \subseteq DOMAIN arrived' /\ Len(arrived') \in DOMAIN arrived'
    BY <1>3, <1>4, <1>6
  <1>8. \/ UNCHANGED buffer
        \/ /\ buffer' = Append(buffer, Len(arrived'))
           /\ filter = NoFilter \/ packet.match
    BY <1>1
  <1> QED BY <1>1, <1>2, <1>4, <1>5, <1>6, <1>7, <1>8

(* The packet that is read is the first that waits.                         *)
LEMMA Reading ==
    ASSUME ExamplesTyped, ReadPacket
    PROVE  /\ buffer # <<>> /\ buffer' = Tail(buffer)
           /\ Head(buffer) \in DOMAIN arrived /\ Head(buffer) = buffer[1]
           /\ 1 \in DOMAIN buffer
           /\ Head(buffer) \in 1..MaxPackets /\ arrived[Head(buffer)].ts \in Times
           /\ buffer' \in Seq(DOMAIN arrived) /\ Len(buffer') = Len(buffer) - 1
           /\ \A i \in DOMAIN buffer' : i + 1 \in DOMAIN buffer /\ buffer'[i] = buffer[i + 1]
  <1>1. buffer # <<>> /\ buffer' = Tail(buffer)
    BY DEF ReadPacket, Read, HandleSample, HandleConsistent, HandleOther
  <1>2. buffer \in Seq(DOMAIN arrived)
    BY DEF ExamplesTyped
  <1>3. /\ Head(buffer) \in DOMAIN arrived /\ Head(buffer) = buffer[1] /\ 1 \in DOMAIN buffer
        /\ buffer' \in Seq(DOMAIN arrived) /\ Len(buffer') = Len(buffer) - 1
        /\ \A i \in 1..Len(buffer') : buffer'[i] = buffer[i + 1]
    BY <1>1, <1>2
  <1>4. \A i \in DOMAIN buffer' : i + 1 \in DOMAIN buffer /\ buffer'[i] = buffer[i + 1]
    BY <1>2, <1>3
  <1>5. arrived \in Seq([match : BOOLEAN, ts : Times]) /\ Len(arrived) <= MaxPackets
    BY DEF ExamplesTyped
  <1>6. Head(buffer) \in 1..MaxPackets
    BY <1>3, <1>5, PcapExamplesAssumption
  <1>7. arrived[Head(buffer)].ts \in Times
    <2>1. PICK i \in DOMAIN arrived : i = Head(buffer)
      BY <1>3
    <2>2. arrived[i] \in [match : BOOLEAN, ts : Times]
      <3>1. PICK Packet : Packet = [match : BOOLEAN, ts : Times]
        OBVIOUS
      <3>2. arrived \in Seq(Packet)
        BY <1>5, <3>1
      <3>3. arrived[i] \in Packet
        BY <2>1, <3>2
      <3> QED BY <3>1, <3>3
    <2> QED BY <2>1, <2>2
  <1> QED BY <1>1, <1>3, <1>4, <1>6, <1>7

(* One more is handled.                                                     *)
Adds(n, note) ==
    /\ handled' = Append(handled, [n |-> n, note |-> note])
    /\ Len(handled') = Len(handled) + 1 /\ handled' # <<>>
    /\ DOMAIN handled' = DOMAIN handled \cup {Len(handled')}
    /\ \A i \in DOMAIN handled : handled'[i] = handled[i]
    /\ handled'[Len(handled')].n = n /\ handled'[Len(handled')].note = note
    /\ Len(handled') \notin DOMAIN handled

(* To handle a packet adds one, of the right type.                          *)
LEMMA HandledAdds ==
    ASSUME ExamplesTyped, NEW n \in 1..MaxPackets, NEW note \in 0..Wrap - 1, Handled(n, note)
    PROVE  Adds(n, note) /\ handled' \in Seq([n : 1..MaxPackets, note : 0..Wrap - 1])
  <1> DEFINE Note == [n : 1..MaxPackets, note : 0..Wrap - 1]
  <1>1. PICK entry : entry = [n |-> n, note |-> note] /\ entry \in Note
    <2>1. [n |-> n, note |-> note] \in Note
      OBVIOUS
    <2> QED BY <2>1
  <1>2. entry.n = n /\ entry.note = note
    BY <1>1
  <1>3. handled \in Seq(Note) /\ handled' = Append(handled, entry)
    BY <1>1 DEF ExamplesTyped, NotesTyped, Handled
  <1> HIDE DEF Note
  <1>4. /\ handled' \in Seq(Note) /\ Len(handled') = Len(handled) + 1
        /\ handled'[Len(handled')] = entry
        /\ \A i \in 1..Len(handled) : handled'[i] = handled[i]
    BY <1>1, <1>3
  <1>5. /\ DOMAIN handled = 1..Len(handled) /\ DOMAIN handled' = 1..Len(handled')
        /\ Len(handled) \in Nat /\ handled' # <<>>
    BY <1>3, <1>4
  <1>6. /\ DOMAIN handled' = DOMAIN handled \cup {Len(handled')}
        /\ Len(handled') \notin DOMAIN handled
    BY <1>4, <1>5
  <1> QED BY <1>1, <1>2, <1>3, <1>4, <1>5, <1>6 DEF Adds, Note

(* What the handlers make of the packet that is read.                       *)
LEMMA PacketHandled ==
    ASSUME ExamplesTyped, ReadPacket
    PROVE  LET n == Head(buffer)
           IN  \/ /\ Call.do = "sample" /\ delay(arrived[n].ts) = 0 /\ status' = "crashed"
                  /\ UNCHANGED <<prog, way, pc, handled, old>>
               \/ /\ Call.do = "sample" /\ Adds(n, delay(arrived[n].ts))
                  /\ delay(arrived[n].ts) # 0
                  /\ old' = arrived[n].ts /\ UNCHANGED callVars
               \/ /\ Call.do = "consistent"
                  /\ Adds(n, IF Inconsistent(arrived[n].ts) THEN 1 ELSE 0)
                  /\ old' = arrived[n].ts /\ UNCHANGED callVars
               \/ /\ Call.do \in {"print", "dump", "udp"} /\ Adds(n, 0)
                  /\ UNCHANGED <<callVars, old>>
  <1> DEFINE n == Head(buffer)
  <1>1. n \in 1..MaxPackets /\ arrived[n].ts \in Times
    BY Reading
  <1>2. delay(arrived[n].ts) \in 0..Wrap - 1
    BY <1>1, delayIsUInt DEF ExamplesTyped
  <1>3. 0 \in 0..Wrap - 1 /\ 1 \in 0..Wrap - 1
    BY PcapExamplesAssumption
  <1>4. ASSUME NEW note \in 0..Wrap - 1, Handled(n, note) PROVE Adds(n, note)
    BY <1>1, <1>4, HandledAdds
  <1>5. HandleSample(n) \/ HandleConsistent(n) \/ HandleOther(n)
    BY DEF ReadPacket
  <1> HIDE DEF n
  <1>6. CASE HandleSample(n)
    <2>1. CASE delay(arrived[n].ts) = 0
      BY <1>6, <2>1 DEF HandleSample, End, n
    <2>2. CASE delay(arrived[n].ts) # 0
      <3>1. /\ Call.do = "sample" /\ Handled(n, delay(arrived[n].ts)) /\ old' = arrived[n].ts
            /\ UNCHANGED callVars
        BY <1>6, <2>2 DEF HandleSample
      <3>2. Adds(n, delay(arrived[n].ts))
        BY <1>2, <1>4, <3>1
      <3> QED BY <2>2, <3>1, <3>2 DEF n
    <2> QED BY <2>1, <2>2
  <1>7. CASE HandleConsistent(n)
    <2>1. PICK note : note = (IF Inconsistent(arrived[n].ts) THEN 1 ELSE 0)
      OBVIOUS
    <2>2. /\ Call.do = "consistent" /\ Handled(n, note) /\ old' = arrived[n].ts
          /\ UNCHANGED callVars
      BY <1>7, <2>1 DEF HandleConsistent
    <2>3. Adds(n, note)
      BY <1>3, <1>4, <2>1, <2>2
    <2> QED BY <2>1, <2>2, <2>3 DEF n
  <1>8. CASE HandleOther(n)
    <2>1. /\ Call.do \in {"print", "dump", "udp"} /\ Handled(n, 0) /\ UNCHANGED <<callVars, old>>
      BY <1>8 DEF HandleOther
    <2>2. Adds(n, 0)
      BY <1>3, <1>4, <2>1
    <2> QED BY <2>1, <2>2 DEF n
  <1> QED BY <1>5, <1>6, <1>7, <1>8

(* Of the records the next one is added.                                    *)
LEMMA RecordHandled ==
    ASSUME ExamplesTyped, ReadRecord
    PROVE  \/ UNCHANGED handled
           \/ /\ Adds(Len(handled) + 1, 0) /\ Len(handled) + 1 \in DOMAIN records
              /\ UNCHANGED callVars
  <1>1. UNCHANGED handled \/ (Handled(Len(handled) + 1, 0) /\ UNCHANGED callVars)
    BY DEF ReadRecord
  <1>2. Len(handled) + 1 <= Len(records) /\ Len(handled) \in Nat
    <2>1. handled \in Seq([n : 1..MaxPackets, note : 0..Wrap - 1])
      BY DEF ExamplesTyped, NotesTyped
    <2> QED BY <2>1 DEF ReadRecord
  <1>3. /\ Len(handled) + 1 \in DOMAIN records /\ Len(handled) + 1 \in 1..MaxPackets
        /\ 0 \in 0..Wrap - 1
    <2>1. records \in Seq(Sizes) /\ Len(records) <= MaxPackets
      BY DEF ExamplesTyped
    <2> QED BY <1>2, <2>1, PcapExamplesAssumption
  <1> QED BY <1>1, <1>3, HandledAdds

(* What was handled stays what it was, and what is added was there.         *)
LEMMA NotesStayTyped ==
    ASSUME ExamplesTyped, NEW n \in DOMAIN arrived \cup DOMAIN records, n \in 1..MaxPackets,
           NEW note \in 0..Wrap - 1, Handled(n, note), UNCHANGED <<arrived, records>>
    PROVE  NotesTyped'
  <1>1. Adds(n, note) /\ handled' \in Seq([n : 1..MaxPackets, note : 0..Wrap - 1])
    BY HandledAdds
  <1>2. \A i \in DOMAIN handled' : handled'[i].n \in DOMAIN arrived \cup DOMAIN records
    BY <1>1 DEF Adds, ExamplesTyped, NotesTyped
  <1> QED BY <1>1, <1>2 DEF NotesTyped

(* Every step leaves the variables with values of their types.              *)
LEMMA TypedKeeps ==
    ASSUME ExamplesTyped, [Next]_winVars
    PROVE  ExamplesTyped'
  <1>1. CASE UNCHANGED pcapVars
    <2>1. /\ arrived' = arrived /\ buffer' = buffer /\ filter' = filter /\ handled' = handled
          /\ old' = old /\ records' = records /\ length' = length /\ measured' = measured
          /\ sent' = sent
      BY <1>1 DEF pcapVars, netVars, fileVars
    <2>2. EndOf(Len(records))' = EndOf(Len(records))
      BY <2>1, EndOfStays
    <2> QED BY <2>1, <2>2 DEF ExamplesTyped, NotesTyped
  <1>2. ASSUME UNCHANGED records, NotesTyped', old' \in Times, measured' \in Int,
               Len(sent') <= Len(handled'), length' \in 0..EndOf(Len(records)),
               /\ arrived' \in Seq([match : BOOLEAN, ts : Times])
               /\ Len(arrived') <= MaxPackets /\ buffer' \in Seq(DOMAIN arrived')
               /\ filter' \in {NoFilter} \cup 0..Len(arrived')
        PROVE  ExamplesTyped'
    <2>1. EndOf(Len(records))' = EndOf(Len(records))
      BY <1>2, EndOfStays
    <2> QED BY <1>2, <2>1 DEF ExamplesTyped
  <1>3. CASE Arrive
    <2>1. PICK packet \in [match : BOOLEAN, ts : Times] :
               /\ arrived' = Append(arrived, packet) /\ Len(arrived') = Len(arrived) + 1
               /\ arrived' \in Seq([match : BOOLEAN, ts : Times]) /\ Len(arrived') <= MaxPackets
               /\ DOMAIN arrived \subseteq DOMAIN arrived' /\ Len(arrived') \in DOMAIN arrived'
               /\ UNCHANGED buffer \/ buffer' = Append(buffer, Len(arrived'))
      BY <1>3, Arrival
    <2>2. /\ UNCHANGED <<filter, handled, old, records, length, measured, sent>>
      BY <1>3 DEF Arrive, fileVars
    <2>3. buffer' \in Seq(DOMAIN arrived')
      <3>1. buffer \in Seq(DOMAIN arrived)
        BY DEF ExamplesTyped
      <3>2. buffer \in Seq(DOMAIN arrived')
        BY <2>1, <3>1
      <3>3. PICK S : S = DOMAIN arrived'
        OBVIOUS
      <3>4. buffer \in Seq(S) /\ Len(arrived') \in S
        BY <2>1, <3>2, <3>3
      <3>5. Append(buffer, Len(arrived')) \in Seq(S)
        BY <3>4
      <3> QED BY <2>1, <3>3, <3>4, <3>5
    <2>4. filter' \in {NoFilter} \cup 0..Len(arrived')
      <3>1. arrived \in Seq([match : BOOLEAN, ts : Times])
        BY DEF ExamplesTyped
      <3>2. Len(arrived) \in Nat
        BY <3>1
      <3> QED BY <2>1, <2>2, <3>2 DEF ExamplesTyped
    <2>5. NotesTyped'
      BY <2>1, <2>2 DEF ExamplesTyped, NotesTyped
    <2> QED BY <1>2, <2>1, <2>2, <2>3, <2>4, <2>5 DEF ExamplesTyped
  <1>4. CASE Grow
    <2>1. /\ UNCHANGED <<arrived, buffer, filter, handled, old, records, measured, sent>>
          /\ length' \in length + 1..EndOf(Len(records))
      BY <1>4 DEF Grow, netVars
    <2>2. length' \in 0..EndOf(Len(records))
      <3>1. length \in 0..EndOf(Len(records))
        BY DEF ExamplesTyped
      <3>2. PICK e : e = EndOf(Len(records)) /\ e \in Nat
        <4>1. records \in Seq(Sizes) /\ Len(records) \in 0..Len(records)
          BY DEF ExamplesTyped
        <4> QED BY <4>1, EndOfGrows
      <3>3. length \in 0..e /\ length' \in length + 1..e
        BY <2>1, <3>1, <3>2
      <3>4. length' \in 0..e
        BY <3>2, <3>3
      <3> QED BY <3>2, <3>4
    <2>3. NotesTyped'
      BY <2>1 DEF ExamplesTyped, NotesTyped
    <2> QED BY <1>2, <2>1, <2>2, <2>3 DEF ExamplesTyped
  <1>5. CASE ReadPacket
    <2>1. /\ UNCHANGED <<arrived, filter, records, length, measured, sent>>
      BY <1>5 DEF ReadPacket, fileVars
    <2>2. PICK n : n = Head(buffer) /\ n \in DOMAIN arrived /\ n \in 1..MaxPackets
                   /\ arrived[n].ts \in Times /\ buffer' \in Seq(DOMAIN arrived)
      BY <1>5, Reading
    <2>3. \/ UNCHANGED <<handled, old>>
          \/ \E note \in 0..Wrap - 1 : Handled(n, note) /\ old' \in {old, arrived[n].ts}
      <3>1. HandleSample(n) \/ HandleConsistent(n) \/ HandleOther(n)
        BY <1>5, <2>2 DEF ReadPacket
      <3>2. 0 \in 0..Wrap - 1 /\ 1 \in 0..Wrap - 1
        BY PcapExamplesAssumption
      <3>3. delay(arrived[n].ts) \in 0..Wrap - 1
        BY <2>2, delayIsUInt DEF ExamplesTyped
      <3>4. CASE HandleSample(n)
        BY <3>3, <3>4 DEF HandleSample
      <3>5. CASE HandleConsistent(n)
        BY <3>2, <3>5 DEF HandleConsistent
      <3>6. CASE HandleOther(n)
        BY <3>2, <3>6 DEF HandleOther
      <3> QED BY <3>1, <3>4, <3>5, <3>6
    <2>4. old' \in Times
      BY <2>2, <2>3 DEF ExamplesTyped
    <2>5. CASE UNCHANGED handled
      <3>1. NotesTyped'
        BY <2>1, <2>5 DEF ExamplesTyped, NotesTyped
      <3> QED BY <1>2, <2>1, <2>2, <2>4, <2>5, <3>1 DEF ExamplesTyped
    <2>6. ASSUME NEW note \in 0..Wrap - 1, Handled(n, note) PROVE ExamplesTyped'
      <3>1. NotesTyped'
        BY <2>1, <2>2, <2>6, NotesStayTyped
      <3>2. Len(handled') = Len(handled) + 1 /\ Len(handled) \in Nat
        <4>1. Adds(n, note)
          BY <2>2, <2>6, HandledAdds
        <4>2. handled \in Seq([n : 1..MaxPackets, note : 0..Wrap - 1])
          BY DEF ExamplesTyped, NotesTyped
        <4> QED BY <4>1, <4>2 DEF Adds
      <3>3. Len(sent') <= Len(handled')
        <4>1. Len(sent) <= Len(handled) /\ sent' = sent
          BY <2>1 DEF ExamplesTyped
        <4> QED BY <3>2, <4>1
      <3> QED BY <1>2, <2>1, <2>2, <2>4, <3>1, <3>3 DEF ExamplesTyped
    <2> QED BY <2>3, <2>5, <2>6
  <1>6. CASE ReadRecord
    <2>1. /\ UNCHANGED <<arrived, buffer, filter, old, records, length, measured, sent>>
      BY <1>6 DEF ReadRecord, netVars, fileVars
    <2>2. CASE UNCHANGED handled
      <3>1. NotesTyped'
        BY <2>1, <2>2 DEF ExamplesTyped, NotesTyped
      <3> QED BY <1>2, <2>1, <2>2, <3>1 DEF ExamplesTyped
    <2>3. CASE ~UNCHANGED handled
      <3>1. PICK n : n = Len(handled) + 1
        OBVIOUS
      <3>2. Adds(n, 0) /\ n \in DOMAIN records
        BY <1>6, <2>3, <3>1, RecordHandled
      <3>3. n \in 1..MaxPackets /\ 0 \in 0..Wrap - 1 /\ Handled(n, 0)
        <4>1. records \in Seq(Sizes) /\ Len(records) <= MaxPackets
          BY DEF ExamplesTyped
        <4> QED BY <3>2, <4>1, PcapExamplesAssumption DEF Adds, Handled
      <3>4. NotesTyped'
        BY <2>1, <3>2, <3>3, NotesStayTyped
      <3>5. Len(sent') <= Len(handled')
        <4>1. Len(handled') = Len(handled) + 1 /\ Len(handled) \in Nat
          <5>1. handled \in Seq([n : 1..MaxPackets, note : 0..Wrap - 1])
            BY DEF ExamplesTyped, NotesTyped
          <5> QED BY <3>2, <5>1 DEF Adds
        <4>2. Len(sent) <= Len(handled) /\ sent' = sent
          BY <2>1 DEF ExamplesTyped
        <4> QED BY <4>1, <4>2
      <3> QED BY <1>2, <2>1, <3>4, <3>5 DEF ExamplesTyped
    <2> QED BY <2>2, <2>3
  <1>7. CASE SetsFilter
    <2>1. /\ UNCHANGED <<arrived, handled, old, records, length, measured, sent>>
          /\ filter' = Len(arrived) /\ buffer' \in {buffer, <<>>}
      BY <1>7 DEF SetsFilter, fileVars
    <2>2. NotesTyped'
      BY <2>1 DEF ExamplesTyped, NotesTyped
    <2>3. buffer' \in Seq(DOMAIN arrived')
      <3>1. buffer \in Seq(DOMAIN arrived) /\ <<>> \in Seq(DOMAIN arrived)
        BY DEF ExamplesTyped
      <3> QED BY <2>1, <3>1
    <2>4. filter' \in {NoFilter} \cup 0..Len(arrived')
      <3>1. arrived \in Seq([match : BOOLEAN, ts : Times])
        BY DEF ExamplesTyped
      <3>2. Len(arrived) \in Nat
        BY <3>1
      <3> QED BY <2>1, <3>2
    <2> QED BY <1>2, <2>1, <2>2, <2>3, <2>4 DEF ExamplesTyped
  <1>8. CASE Measures
    <2>1. /\ UNCHANGED <<arrived, buffer, filter, handled, old, records, length, sent>>
          /\ measured' = length - FileHeader
      BY <1>8 DEF Measures, netVars, fileVars
    <2>2. NotesTyped'
      BY <2>1 DEF ExamplesTyped, NotesTyped
    <2>3. measured' \in Int
      <3>1. length \in Int
        BY DEF ExamplesTyped
      <3> QED BY <2>1, <3>1, PcapExamplesAssumption
    <2> QED BY <1>2, <2>1, <2>2, <2>3 DEF ExamplesTyped
  <1>9. CASE Transmits
    <2>1. /\ UNCHANGED <<arrived, buffer, filter, handled, old, records, length, measured>>
          /\ sent' \in {SubSeq(handled, 1, n) : n \in 0..Len(handled)}
      BY <1>9 DEF Transmits, netVars, fileVars
    <2>2. NotesTyped'
      BY <2>1 DEF ExamplesTyped, NotesTyped
    <2>3. Len(sent') <= Len(handled')
      <3>1. handled \in Seq([n : 1..MaxPackets, note : 0..Wrap - 1])
        BY DEF ExamplesTyped, NotesTyped
      <3>2. PICK n \in 0..Len(handled) : sent' = SubSeq(handled, 1, n)
        BY <2>1
      <3>3. Len(sent') = n
        BY <3>1, <3>2
      <3> QED BY <2>1, <3>1, <3>2, <3>3
    <2> QED BY <1>2, <2>1, <2>2, <2>3 DEF ExamplesTyped
  <1>10. CASE ClearsOld
    <2>1. /\ UNCHANGED <<arrived, buffer, filter, handled, records, length, measured, sent>>
          /\ old' = <<0, 0>>
      BY <1>10 DEF ClearsOld, netVars, fileVars
    <2>2. NotesTyped'
      BY <2>1 DEF ExamplesTyped, NotesTyped
    <2>3. old' \in Times
      BY <2>1, PcapExamplesAssumption DEF Times
    <2> QED BY <1>2, <2>1, <2>2, <2>3 DEF ExamplesTyped
  <1> QED BY <1>1, <1>3, <1>4, <1>5, <1>6, <1>7, <1>8, <1>9, <1>10, EveryStepHappens
          DEF Happens

-----------------------------------------------------------------------------
(* UDPdump.                                                                *)

(* A capturing program makes its own steps only.                            *)
LEMMA OnlyItsOwn ==
    ASSUME [Next]_winVars, prog \in DOMAIN PcapCalls
    PROVE  PcapNext \/ UNCHANGED <<callVars, pcapVars>>
  <1>1. prog \notin DOMAIN PacketCalls /\ prog \notin DOMAIN BridgeCalls
    BY DEF PcapCalls, PacketCalls, BridgeCalls
  <1> QED BY <1>1 DEF Next, OfPcap, OfPacket, OfBridge, winVars

(* main gets to its next call when a call is done or a loop ends.           *)
LEMMA Advances ==
    ASSUME [Next]_winVars, prog \in DOMAIN PcapCalls, pc' # pc
    PROVE  DoCall \/ (Looping /\ (ReadRecord \/ ReadEnd \/ ReadError))
  <1>1. PcapNext
    BY OnlyItsOwn DEF callVars
  <1>2. ~Arrive /\ ~Grow /\ ~Interrupt /\ ~FailCall /\ ~GoDown /\ ~ReadNothing /\ ~ReadPacket
    <2>1. ~Arrive /\ ~Grow /\ ~Interrupt
      BY DEF Arrive, Grow, Interrupt, End, callVars
    <2>2. ~FailCall /\ ~GoDown /\ ~ReadNothing
      BY DEF FailCall, Fail, GoDown, End, ReadNothing, callVars
    <2>3. ~ReadPacket
      BY DEF ReadPacket, HandleSample, HandleConsistent, HandleOther, End, callVars
    <2> QED BY <2>1, <2>2, <2>3
  <1> QED BY <1>1, <1>2 DEF PcapNext, Main, ReadRecord, ReadEnd, ReadError

(* The programs the properties are about are capturing programs or read a   *)
(* file.                                                                    *)
LEMMA UdpIsPcap ==
    /\ "UDPdump" \in DOMAIN PcapCalls /\ "UDPdump_remote" \in DOMAIN PcapCalls
    /\ "smp_1" \in DOMAIN PcapCalls /\ "tcptop" \in DOMAIN PcapCalls
    /\ "sendcap" \in DOMAIN PcapCalls
  BY DEF PcapCalls

(* The sequences are numbered from 1, and what waits had arrived.           *)
LEMMA HandledTyped ==
    ASSUME ExamplesTyped
    PROVE  /\ Len(handled) \in Nat /\ DOMAIN handled = 1..Len(handled)
           /\ Len(arrived) \in Nat /\ DOMAIN arrived = 1..Len(arrived)
           /\ Len(buffer) \in Nat /\ DOMAIN buffer = 1..Len(buffer)
           /\ \A i \in DOMAIN buffer : buffer[i] \in DOMAIN arrived
           /\ filter = NoFilter \/ filter \in 0..Len(arrived)
           /\ Len(records) \in Nat /\ DOMAIN records = 1..Len(records)
  <1>1. handled \in Seq([n : 1..MaxPackets, note : 0..Wrap - 1])
    BY DEF ExamplesTyped, NotesTyped
  <1>2. arrived \in Seq([match : BOOLEAN, ts : Times])
    BY DEF ExamplesTyped
  <1>3. buffer \in Seq(DOMAIN arrived) /\ (filter = NoFilter \/ filter \in 0..Len(arrived))
    BY DEF ExamplesTyped
  <1>4. records \in Seq(Sizes)
    BY DEF ExamplesTyped
  <1> QED BY <1>1, <1>2, <1>3, <1>4

(* Every step keeps UDPdump's part: only SetsFilter sets the filter, and    *)
(* what arrives later is put into the buffer only if it matches.            *)
LEMMA UdpKeeps ==
    ASSUME MainIsSomewhere, ExamplesTyped, UdpInv, [Next]_winVars
    PROVE  UdpInv'
  <1>1. SUFFICES ASSUME prog \in {"UDPdump", "UDPdump_remote"}
                 PROVE  UdpInv'
    BY EveryStepMoves DEF UdpInv, Moves
  <1>2. /\ filter = NoFilter => pc <= 8
        /\ \A i \in DOMAIN handled : handled[i].n \in DOMAIN arrived
        /\ filter # NoFilter =>
             /\ \A i \in DOMAIN buffer : Filtered(buffer[i])
             /\ \A i \in DOMAIN handled : Filtered(handled[i].n)
    BY <1>1 DEF UdpInv
  <1>3. /\ Len(calls) = 11 /\ pc \in 1..11
        /\ pc # 11 => Call.from = ""
        /\ Call.name = "pcap_setfilter" <=> pc = 8
        /\ Call.from \in {"", "net"}
    BY <1>1, UdpCalls DEF MainIsSomewhere, CallsTypeOK
  <1>4. filter' # NoFilter \/ pc' <= 8
    <2>1. CASE pc' = pc
      <3>1. CASE UNCHANGED filter
        BY <1>2, <2>1, <3>1
      <3>2. CASE SetsFilter
        <4>1. filter' = Len(arrived) /\ Len(arrived) \in Nat
          BY <3>2, HandledTyped DEF SetsFilter
        <4> QED BY <4>1 DEF NoFilter
      <3>3. UNCHANGED filter \/ SetsFilter
        BY EveryStepHappens DEF Happens, pcapVars, netVars, Arrive, Grow, ReadPacket, ReadRecord,
                                Measures, Transmits, ClearsOld
      <3> QED BY <3>1, <3>2, <3>3
    <2>2. CASE pc' # pc
      <3>1. DoCall \/ (Looping /\ (ReadRecord \/ ReadEnd \/ ReadError))
        BY <1>1, <2>2, UdpIsPcap, Advances
      <3>2. pc' = pc + 1
        BY <2>2, EveryStepMoves DEF Moves
      <3>3. CASE DoCall
        <4>1. CASE pc = 8
          <5>1. SetsFilter
            BY <1>3, <3>3, <4>1 DEF DoCall, Effect
          <5>2. filter' = Len(arrived) /\ Len(arrived) \in Nat
            BY <5>1, HandledTyped DEF SetsFilter
          <5> QED BY <5>2 DEF NoFilter
        <4>2. CASE pc # 8
          <5>1. UNCHANGED filter
            BY <1>3, <3>3, <4>2, CallsWork DEF DoCall, Effect, Measures, Transmits, ClearsOld,
                                               pcapVars, netVars
          <5>2. pc \in 1..11 /\ (filter = NoFilter => pc <= 8)
            BY <1>2, <1>3
          <5>3. pc <= 8 => pc' <= 8
            BY <3>2, <4>2, <5>2
          <5> QED BY <5>1, <5>2, <5>3
        <4> QED BY <4>1, <4>2
      <3>4. CASE Looping /\ (ReadRecord \/ ReadEnd \/ ReadError)
        <4>1. pc = 11 /\ UNCHANGED filter
          BY <1>3, <3>4 DEF Looping, ReadRecord, ReadEnd, ReadError, pcapVars, netVars
        <4> QED BY <1>2, <4>1
      <3> QED BY <3>1, <3>3, <3>4
    <2> QED BY <2>1, <2>2
  <1>5. CASE UNCHANGED <<arrived, buffer, filter, handled>>
    <2>1. \A n : Filtered(n)' <=> Filtered(n)
      BY <1>5 DEF Filtered
    <2> QED BY <1>2, <1>4, <1>5, <2>1 DEF UdpInv
  <1>6. CASE Arrive
    <2>1. PICK packet :
               /\ Len(arrived') = Len(arrived) + 1 /\ DOMAIN arrived \subseteq DOMAIN arrived'
               /\ \A i \in DOMAIN arrived : arrived'[i] = arrived[i]
               /\ arrived'[Len(arrived')] = packet
               /\ \/ UNCHANGED buffer
                  \/ /\ buffer' = Append(buffer, Len(arrived'))
                     /\ filter = NoFilter \/ packet.match
      BY <1>6, Arrival
    <2>2. UNCHANGED <<filter, handled>>
      BY <1>6 DEF Arrive
    <2>3. \A n \in DOMAIN arrived : Filtered(n) => Filtered(n)'
      BY <2>1, <2>2 DEF Filtered
    <2>4. \A i \in DOMAIN handled' : handled'[i].n \in DOMAIN arrived'
      BY <1>2, <2>1, <2>2
    <2>5. ASSUME filter # NoFilter, NEW i \in DOMAIN handled' PROVE Filtered(handled[i].n)'
      BY <1>2, <2>2, <2>3, <2>5
    <2>6. ASSUME filter # NoFilter, NEW i \in DOMAIN buffer' PROVE Filtered(buffer[i])'
      <3>1. CASE UNCHANGED buffer
        <4>1. i \in DOMAIN buffer /\ buffer[i] \in DOMAIN arrived /\ buffer'[i] = buffer[i]
          BY <2>6, <3>1, HandledTyped
        <4>2. Filtered(buffer[i])
          BY <1>2, <2>6, <4>1
        <4>3. buffer'[i] > filter' => arrived'[buffer'[i]].match
          BY <2>3, <4>1, <4>2 DEF Filtered
        <4> QED BY <4>3 DEF Filtered
      <3>2. CASE buffer' = Append(buffer, Len(arrived')) /\ packet.match
        <4>1. \/ i \in DOMAIN buffer /\ buffer'[i] = buffer[i]
              \/ buffer'[i] = Len(arrived')
          <5>1. buffer \in Seq(DOMAIN arrived)
            BY DEF ExamplesTyped
          <5> QED BY <2>6, <3>2, <5>1
        <4>2. CASE i \in DOMAIN buffer /\ buffer'[i] = buffer[i]
          <5>1. Filtered(buffer[i]) /\ buffer[i] \in DOMAIN arrived
            BY <1>2, <2>6, <4>2, HandledTyped
          <5>2. buffer'[i] > filter' => arrived'[buffer'[i]].match
            BY <2>3, <4>2, <5>1 DEF Filtered
          <5> QED BY <5>2 DEF Filtered
        <4>3. CASE buffer'[i] = Len(arrived')
          BY <2>1, <3>2, <4>3 DEF Filtered
        <4> QED BY <4>1, <4>2, <4>3
      <3> QED BY <2>1, <2>6, <3>1, <3>2
    <2> QED BY <1>4, <2>2, <2>4, <2>5, <2>6 DEF UdpInv
  <1>7. CASE ReadPacket
    <2>1. UNCHANGED <<arrived, filter>>
      BY <1>7 DEF ReadPacket
    <2>2. PICK n : /\ n = Head(buffer) /\ n \in DOMAIN arrived /\ n = buffer[1]
                   /\ 1 \in DOMAIN buffer
                   /\ \A i \in DOMAIN buffer' : i + 1 \in DOMAIN buffer
                                                /\ buffer'[i] = buffer[i + 1]
      BY <1>7, Reading
    <2>3. UNCHANGED handled \/ \E note : Adds(n, note)
      BY <1>7, <2>2, PacketHandled
    <2>4. \A k : Filtered(k)' <=> Filtered(k)
      BY <2>1 DEF Filtered
    <2>5. ASSUME filter # NoFilter, NEW i \in DOMAIN buffer' PROVE Filtered(buffer'[i])
      BY <1>2, <2>2, <2>5
    <2>6. filter # NoFilter => Filtered(n)
      BY <1>2, <2>2
    <2>7. ASSUME NEW i \in DOMAIN handled'
          PROVE  /\ handled'[i].n \in DOMAIN arrived
                 /\ filter # NoFilter => Filtered(handled'[i].n)
      <3>1. CASE UNCHANGED handled
        BY <1>2, <2>7, <3>1
      <3>2. ASSUME NEW note, Adds(n, note)
            PROVE  /\ handled'[i].n \in DOMAIN arrived
                   /\ filter # NoFilter => Filtered(handled'[i].n)
        <4>1. \/ i \in DOMAIN handled /\ handled'[i] = handled[i]
              \/ handled'[i].n = n
          BY <2>7, <3>2 DEF Adds
        <4> QED BY <1>2, <2>2, <2>6, <4>1
      <3> QED BY <2>3, <3>1, <3>2
    <2>8. \A i \in DOMAIN handled' : handled'[i].n \in DOMAIN arrived'
      BY <2>1, <2>7
    <2>9. filter' # NoFilter => /\ \A i \in DOMAIN buffer' : Filtered(buffer'[i])
                                /\ \A i \in DOMAIN handled' : Filtered(handled'[i].n)
      BY <2>1, <2>5, <2>7
    <2>10. filter' # NoFilter => /\ \A i \in DOMAIN buffer' : Filtered(buffer[i])'
                                 /\ \A i \in DOMAIN handled' : Filtered(handled[i].n)'
      BY <2>1, <2>9 DEF Filtered
    <2> QED BY <1>4, <2>8, <2>10 DEF UdpInv
  <1>8. CASE SetsFilter
    <2>1. /\ UNCHANGED <<arrived, handled>> /\ filter' = Len(arrived)
          /\ buffer' \in {buffer, <<>>}
      BY <1>8 DEF SetsFilter
    <2>2. \A n \in DOMAIN arrived : ~(n > Len(arrived))
      BY HandledTyped
    <2>3. \A n \in DOMAIN arrived : Filtered(n)'
      BY <2>1, <2>2 DEF Filtered
    <2>4. \A i \in DOMAIN buffer' : buffer'[i] \in DOMAIN arrived
      BY <2>1, HandledTyped
    <2>5. \A i \in DOMAIN buffer' : Filtered(buffer[i])'
      BY <2>1, <2>2, <2>4 DEF Filtered
    <2>6. \A i \in DOMAIN handled' : Filtered(handled[i].n)'
      BY <1>2, <2>1, <2>2 DEF Filtered
    <2> QED BY <1>2, <1>4, <2>1, <2>5, <2>6 DEF UdpInv
  <1>9. ~ReadRecord
    BY <1>3 DEF ReadRecord
  <1>10. \/ UNCHANGED <<arrived, buffer, filter, handled>>
         \/ Arrive \/ ReadPacket \/ SetsFilter
    BY <1>9, EveryStepHappens DEF Happens, pcapVars, netVars, Grow, Measures, Transmits, ClearsOld
  <1> QED BY <1>5, <1>6, <1>7, <1>8, <1>10

-----------------------------------------------------------------------------
(* smp_1.                                                                  *)

(* Times are ordered by their seconds, then by their microseconds.          *)
LEMMA TimeOrder ==
    ASSUME NEW s \in Times, NEW t \in Times
    PROVE  /\ Time(s) \in Nat /\ Time(s) < 2 * USec
           /\ Time(s) < Time(t) <=> s[1] < t[1] \/ (s[1] = t[1] /\ s[2] < t[2])
  <1>1. /\ s[1] \in 0..1 /\ s[2] \in 0..USec - 1 /\ t[1] \in 0..1 /\ t[2] \in 0..USec - 1
        /\ USec \in Nat \ {0}
    BY TimesAreInts, PcapExamplesAssumption
  <1>2. (s[1] = 0 \/ s[1] = 1) /\ (t[1] = 0 \/ t[1] = 1)
    BY <1>1
  <1>3. 0 * USec = 0 /\ 1 * USec = USec
    BY <1>1
  <1>4. /\ Time(s) = IF s[1] = 0 THEN s[2] ELSE USec + s[2]
        /\ Time(t) = IF t[1] = 0 THEN t[2] ELSE USec + t[2]
    BY <1>1, <1>2, <1>3 DEF Time
  <1> QED BY <1>1, <1>2, <1>4

(* What arrived stays as it was.                                            *)
KeepsArrivals ==
    DOMAIN arrived \subseteq DOMAIN arrived' /\ \A i \in DOMAIN arrived : arrived'[i] = arrived[i]

(* No step forgets or changes what arrived.                                 *)
LEMMA ArrivalsStay ==
    ASSUME ExamplesTyped, [Next]_winVars
    PROVE  KeepsArrivals
  <1>1. CASE Arrive
    BY <1>1, Arrival DEF KeepsArrivals
  <1>2. CASE ~Arrive
    BY <1>2, EveryStepHappens
       DEF Happens, pcapVars, netVars, Grow, Measures, Transmits, ClearsOld, SetsFilter, ReadPacket,
           ReadRecord, KeepsArrivals
  <1> QED BY <1>1, <1>2

AllArrived == \A i \in DOMAIN handled : handled[i].n \in DOMAIN arrived

(* What was handled stays among what arrived.                               *)
LEMMA AllArrivedStays ==
    ASSUME AllArrived, KeepsArrivals, UNCHANGED handled
    PROVE  AllArrived'
  BY DEF AllArrived, KeepsArrivals

(* What is read had arrived.                                                *)
LEMMA AllArrivedAdds ==
    ASSUME AllArrived, UNCHANGED arrived, NEW n \in DOMAIN arrived, NEW note, Adds(n, note)
    PROVE  AllArrived'
  BY DEF AllArrived, Adds

(* The last time stamp stays that of the last packet handled.               *)
LEMMA LastStays ==
    ASSUME ExamplesTyped, AllArrived, KeepsArrivals, UNCHANGED <<handled, old>>, OldIsLast
    PROVE  OldIsLast'
  <1>1. SUFFICES ASSUME handled # <<>> PROVE old' = arrived'[handled'[Len(handled')].n].ts
    BY DEF OldIsLast
  <1>2. handled \in Seq([n : 1..MaxPackets, note : 0..Wrap - 1])
    BY DEF ExamplesTyped, NotesTyped
  <1>3. Len(handled) \in DOMAIN handled
    BY <1>1, <1>2
  <1>4. handled[Len(handled)].n \in DOMAIN arrived
    BY <1>3 DEF AllArrived
  <1>5. arrived'[handled[Len(handled)].n] = arrived[handled[Len(handled)].n]
    BY <1>4 DEF KeepsArrivals
  <1> QED BY <1>1, <1>5 DEF OldIsLast

(* The handlers note the time stamp of the packet they handle.              *)
LEMMA LastAdds ==
    ASSUME UNCHANGED arrived, NEW n, NEW note, Adds(n, note), old' = arrived[n].ts
    PROVE  OldIsLast'
  BY DEF OldIsLast, Adds

(* What smp_1 has complained of stays right as packets arrive.              *)
LEMMA ComplaintsStay ==
    ASSUME ExamplesTyped, AllArrived, KeepsArrivals, UNCHANGED <<prog, handled>>, ComplainsRightly
    PROVE  ComplainsRightly'
  <1>1. SUFFICES ASSUME prog = "smp_1", NEW i \in DOMAIN handled
                 PROVE  (handled[i].note = 1) <=>
                          i > 1 /\ Time(arrived'[handled[i].n].ts)
                                     < Time(arrived'[handled[i-1].n].ts)
    BY DEF ComplainsRightly, Time
  <1>2. (handled[i].note = 1) <=>
            i > 1 /\ Time(arrived[handled[i].n].ts) < Time(arrived[handled[i-1].n].ts)
    BY <1>1 DEF ComplainsRightly
  <1>3. i > 1 => i - 1 \in DOMAIN handled
    BY <1>1, HandledTyped
  <1>4. arrived'[handled[i].n] = arrived[handled[i].n]
    BY <1>1 DEF AllArrived, KeepsArrivals
  <1>5. i > 1 => arrived'[handled[i-1].n] = arrived[handled[i-1].n]
    BY <1>1, <1>3 DEF AllArrived, KeepsArrivals
  <1> QED BY <1>2, <1>4, <1>5

(* Every step keeps smp_1's part.                                           *)
LEMMA SmpKeeps ==
    ASSUME MainIsSomewhere, ExamplesTyped, SmpInv, [Next]_winVars
    PROVE  SmpInv'
  <1>1. SUFFICES ASSUME prog = "smp_1"
                 PROVE  SmpInv'
    BY EveryStepMoves DEF SmpInv, Moves
  <1>2. /\ AllArrived /\ (pc <= 5 => handled = <<>>)
        /\ pc = 6 /\ handled = <<>> => old = <<0, 0>>
        /\ OldIsLast /\ ComplainsRightly
    BY <1>1 DEF SmpInv, AllArrived
  <1>3. /\ Len(calls) = 6 /\ pc \in 1..6
        /\ pc # 6 => Call.from = ""
        /\ Call.name = "clear_old" <=> pc = 5
        /\ Call.do \in {"", "consistent"} /\ Call.from \in {"", "net"}
    BY <1>1, SmpCalls DEF MainIsSomewhere, CallsTypeOK
  <1>3a. pc <= 5 => handled = <<>>
    BY <1>2
  <1>3b. pc \in 1..6
    BY <1>3
  <1>4. pc' = pc \/ (pc # 6 /\ pc' = pc + 1)
    BY <1>3, EveryStepMoves DEF Moves
  <1>5. prog' = "smp_1" /\ UNCHANGED prog
    BY <1>1, EveryStepMoves DEF Moves
  <1>6. KeepsArrivals
    BY ArrivalsStay
  <1>7. pc = 5 /\ pc' = 6 => ClearsOld
    <2>1. SUFFICES ASSUME pc = 5, pc' = 6 PROVE ClearsOld
      OBVIOUS
    <2>2. DoCall \/ Looping
      BY <1>1, <2>1, UdpIsPcap, Advances
    <2>3. ~Looping /\ Call.name = "clear_old"
      <3>1. pc # 6
        BY <2>1
      <3>2. Call.from = ""
        BY <1>3, <3>1
      <3>3. Call.name = "clear_old"
        BY <1>3, <2>1
      <3> QED BY <3>2, <3>3 DEF Looping
    <2> QED BY <2>2, <2>3 DEF DoCall, Effect
  <1>8. ASSUME UNCHANGED <<handled, old>>
        PROVE  SmpInv'
    <2>1. AllArrived' /\ OldIsLast' /\ ComplainsRightly'
      BY <1>2, <1>5, <1>6, <1>8, AllArrivedStays, LastStays, ComplaintsStay
    <2>2. pc' <= 5 => handled' = <<>>
      <3>1. pc' <= 5 => pc <= 5
        BY <1>4, <1>3b
      <3> QED BY <1>8, <1>3a, <3>1
    <2>3. pc' = 6 /\ handled' = <<>> => old' = <<0, 0>>
      <3>1. CASE pc = 6
        BY <1>2, <1>8, <3>1
      <3>2. CASE pc = 5 /\ pc' = 6
        BY <1>7, <3>2 DEF ClearsOld
      <3>3. pc' = 6 => pc = 6 \/ pc = 5
        BY <1>4, <1>3b
      <3> QED BY <3>1, <3>2, <3>3
    <2> QED BY <2>1, <2>2, <2>3 DEF SmpInv, AllArrived
  <1>9. CASE Works("clear_old") /\ ClearsOld
    <2>1. pc = 5 /\ handled = <<>> /\ handled' = <<>> /\ old' = <<0, 0>>
      <3>1. Call.name = "clear_old" /\ UNCHANGED handled /\ old' = <<0, 0>>
        BY <1>9 DEF Works, ClearsOld
      <3>2. pc = 5
        BY <1>3, <3>1
      <3> QED BY <1>3a, <3>1, <3>2
    <2>2. AllArrived' /\ OldIsLast' /\ ComplainsRightly'
      BY <2>1 DEF AllArrived, OldIsLast, ComplainsRightly
    <2> QED BY <2>1, <2>2 DEF SmpInv, AllArrived
  <1>10. CASE ReadPacket
    <2>1. pc = 6 /\ UNCHANGED arrived /\ Call.do = "consistent"
      <3>1. pc = 6 /\ UNCHANGED arrived
        BY <1>3, <1>10 DEF ReadPacket, Looping
      <3>2. Call.do # ""
        BY <1>10, PacketHandled
      <3> QED BY <1>3, <3>1, <3>2
    <2>2. PICK n : n = Head(buffer) /\ n \in DOMAIN arrived /\ arrived[n].ts \in Times
      BY <1>10, Reading
    <2>3. PICK note : /\ note = (IF Inconsistent(arrived[n].ts) THEN 1 ELSE 0)
                      /\ Adds(n, note) /\ old' = arrived[n].ts
      BY <1>10, <2>1, <2>2, PacketHandled
    <2>4. pc' = 6 /\ handled' # <<>>
      <3>1. pc' = pc
        BY <1>4, <2>1
      <3> QED BY <2>1, <2>3, <3>1 DEF Adds
    <2>5. AllArrived' /\ OldIsLast'
      BY <1>2, <2>1, <2>2, <2>3, AllArrivedAdds, LastAdds
    <2>6. ComplainsRightly'
      <3>1. SUFFICES ASSUME NEW i \in DOMAIN handled'
                     PROVE  (handled'[i].note = 1) <=>
                               i > 1 /\ Time(arrived[handled'[i].n].ts)
                                          < Time(arrived[handled'[i-1].n].ts)
        BY <2>1 DEF ComplainsRightly, Time
      <3>2. CASE i \in DOMAIN handled
        <4>1. handled'[i] = handled[i]
          BY <2>3, <3>2 DEF Adds
        <4>2. i > 1 => handled'[i-1] = handled[i-1]
          BY <2>3, <3>2, HandledTyped DEF Adds
        <4> QED BY <1>1, <1>2, <3>2, <4>1, <4>2 DEF ComplainsRightly
      <3>3. CASE i = Len(handled')
        <4>1. handled'[i].n = n /\ handled'[i].note = note /\ i = Len(handled) + 1
          BY <2>3, <3>3 DEF Adds
        <4>2. note = 1 <=> Inconsistent(arrived[n].ts)
          BY <2>3
        <4>3. old \in Times
          BY DEF ExamplesTyped
        <4>4. CASE handled = <<>>
          <5>1. i = 1 /\ old = <<0, 0>>
            BY <1>2, <2>1, <4>1, <4>4
          <5>2. ~Inconsistent(arrived[n].ts)
            BY <2>2, <5>1, TimesAreInts DEF Inconsistent
          <5> QED BY <4>1, <4>2, <5>1, <5>2
        <4>5. CASE handled # <<>>
          <5>1. i > 1 /\ i - 1 = Len(handled) /\ i - 1 \in DOMAIN handled
            <6>1. Len(handled) > 0
              <7>1. handled \in Seq([n : 1..MaxPackets, note : 0..Wrap - 1])
                BY DEF ExamplesTyped, NotesTyped
              <7> QED BY <4>5, <7>1
            <6> QED BY <4>1, <6>1, HandledTyped
          <5>2. handled'[i-1] = handled[Len(handled)]
            BY <2>3, <5>1 DEF Adds
          <5>3. old = arrived[handled'[i-1].n].ts
            BY <1>2, <4>5, <5>2 DEF OldIsLast
          <5>4. Inconsistent(arrived[n].ts) <=> Time(arrived[n].ts) < Time(old)
            <6>1. /\ old[1] \in Int /\ old[2] \in Int
                  /\ arrived[n].ts[1] \in Int /\ arrived[n].ts[2] \in Int
              BY <2>2, <4>3, TimesAreInts
            <6>2. Time(arrived[n].ts) < Time(old) <=>
                      \/ arrived[n].ts[1] < old[1]
                      \/ arrived[n].ts[1] = old[1] /\ arrived[n].ts[2] < old[2]
              BY <2>2, <4>3, TimeOrder
            <6> QED BY <6>1, <6>2 DEF Inconsistent
          <5> QED BY <4>1, <4>2, <5>1, <5>3, <5>4
        <4> QED BY <4>4, <4>5
      <3>4. i \in DOMAIN handled \/ i = Len(handled')
        BY <2>3 DEF Adds
      <3> QED BY <3>2, <3>3, <3>4
    <2> QED BY <2>4, <2>5, <2>6 DEF SmpInv, AllArrived
  <1>11. ~ReadRecord
    BY <1>3 DEF ReadRecord
  <1>12. UNCHANGED <<handled, old>> \/ (Works("clear_old") /\ ClearsOld) \/ ReadPacket
    BY <1>11, EveryStepHappens
       DEF Happens, pcapVars, Arrive, Grow, SetsFilter, Measures, Transmits
  <1> QED BY <1>8, <1>9, <1>10, <1>12

-----------------------------------------------------------------------------
(* tcptop.                                                                 *)

(* A number below the modulus is its own remainder, and one that is as      *)
(* little below zero has one, too.                                          *)
LEMMA SmallRemainder ==
    ASSUME NEW x \in Int, NEW m \in Nat, x < m, 0 - x < m
    PROVE  (x >= 0 => x % m = x) /\ (x < 0 => x % m = m + x)
  OBVIOUS

(* Two seconds fit into a u_int: the delay is the time that has passed, and *)
(* for a clock that ran backwards it is not zero either.                    *)
LEMMA delayOfTimes ==
    ASSUME NEW ts \in Times, old \in Times
    PROVE  /\ Time(old) <= Time(ts) => delay(ts) = Time(ts) - Time(old)
           /\ Time(ts) < Time(old) => delay(ts) # 0
  <1>1. /\ ts[1] \in 0..1 /\ ts[2] \in 0..USec - 1 /\ old[1] \in 0..1 /\ old[2] \in 0..USec - 1
        /\ USec \in Nat \ {0} /\ Wrap \in Nat /\ Wrap > 2 * USec
    BY TimesAreInts, PcapExamplesAssumption
  <1>2. (ts[1] = 0 \/ ts[1] = 1) /\ (old[1] = 0 \/ old[1] = 1)
    BY <1>1
  <1>3. 0 * USec = 0 /\ 1 * USec = USec /\ (0 - 1) * USec = 0 - USec
    BY <1>1
  <1>4. /\ Time(ts) = IF ts[1] = 0 THEN ts[2] ELSE USec + ts[2]
        /\ Time(old) = IF old[1] = 0 THEN old[2] ELSE USec + old[2]
    BY <1>1, <1>2, <1>3 DEF Time
  <1>5. (ts[1] - old[1]) * USec = IF ts[1] = old[1] THEN 0
                                  ELSE IF ts[1] = 1 THEN USec ELSE 0 - USec
    <2>1. ts[1] - old[1] = IF ts[1] = old[1] THEN 0 ELSE IF ts[1] = 1 THEN 1 ELSE 0 - 1
      BY <1>2
    <2> QED BY <1>3, <2>1
  <1>6. (ts[1] - old[1]) * USec - old[2] + ts[2] = Time(ts) - Time(old)
    BY <1>1, <1>2, <1>4, <1>5
  <1>7. PICK x \in Int : x = Time(ts) - Time(old) /\ x < Wrap /\ 0 - x < Wrap
    <2>1. /\ Time(ts) \in Nat /\ Time(old) \in Nat
          /\ Time(ts) < 2 * USec /\ Time(old) < 2 * USec
      BY TimeOrder
    <2> QED BY <1>1, <2>1
  <1>8. delay(ts) = x % Wrap
    BY <1>6, <1>7 DEF delay
  <1>9. (x >= 0 => delay(ts) = x) /\ (x < 0 => delay(ts) = Wrap + x)
    BY <1>1, <1>7, <1>8, SmallRemainder
  <1>10. Time(ts) \in Nat /\ Time(old) \in Nat
    BY TimeOrder
  <1> QED BY <1>1, <1>7, <1>9, <1>10

(* No time has passed only between equal time stamps.                       *)
LEMMA NoDelay ==
    ASSUME NEW ts \in Times, old \in Times, delay(ts) = 0
    PROVE  ts = old
  <1>1. Time(ts) \in Nat /\ Time(old) \in Nat
    BY TimeOrder
  <1>2. Time(ts) = Time(old)
    BY <1>1, delayOfTimes
  <1>3. ~(Time(ts) < Time(old)) /\ ~(Time(old) < Time(ts))
    BY <1>1, <1>2
  <1>4. /\ ~(ts[1] < old[1] \/ (ts[1] = old[1] /\ ts[2] < old[2]))
        /\ ~(old[1] < ts[1] \/ (old[1] = ts[1] /\ old[2] < ts[2]))
    BY <1>3, TimeOrder
  <1>5. ts[1] = old[1] /\ ts[2] = old[2]
    BY <1>4, TimesAreInts
  <1> QED BY <1>5 DEF Times

(* The samples taken stay right as packets arrive.                          *)
LEMMA SamplesStay ==
    ASSUME ExamplesTyped, AllArrived, KeepsArrivals, UNCHANGED <<prog, handled>>,
           SamplesOverTheirTime
    PROVE  SamplesOverTheirTime'
  <1>1. SUFFICES ASSUME prog = "tcptop", NEW i \in DOMAIN handled, i > 1,
                        Time(arrived'[handled[i].n].ts) - Time(arrived'[handled[i-1].n].ts) > 0
                 PROVE  handled[i].note = Time(arrived'[handled[i].n].ts)
                                          - Time(arrived'[handled[i-1].n].ts)
    BY DEF SamplesOverTheirTime, Time
  <1>2. i - 1 \in DOMAIN handled
    BY <1>1, HandledTyped
  <1>3. arrived'[handled[i].n] = arrived[handled[i].n]
    BY <1>1 DEF AllArrived, KeepsArrivals
  <1>4. arrived'[handled[i-1].n] = arrived[handled[i-1].n]
    BY <1>2 DEF AllArrived, KeepsArrivals
  <1>5. handled[i].note = Time(arrived[handled[i].n].ts) - Time(arrived[handled[i-1].n].ts)
    BY <1>1, <1>3, <1>4 DEF SamplesOverTheirTime
  <1> QED BY <1>3, <1>4, <1>5

(* The parts of the invariant about the packets that wait.                  *)
InOrder      == \A i, j \in DOMAIN buffer : i < j => buffer[i] < buffer[j]
HandledFirst == \A i \in DOMAIN handled : \A j \in DOMAIN buffer : handled[i].n < buffer[j]

(* tcptop's part of the invariant is made of these parts.                   *)
LEMMA TopParts ==
    TopInv <=> (prog = "tcptop" =>
                   /\ AllArrived /\ InOrder /\ HandledFirst
                   /\ OldIsLast /\ SamplesOverTheirTime)
  BY DEF TopInv, AllArrived, InOrder, HandledFirst

(* A packet that is there has a time stamp.                                 *)
LEMMA StampTyped ==
    ASSUME ExamplesTyped, NEW i \in DOMAIN arrived
    PROVE  arrived[i].ts \in Times
  <1>1. PICK Packet : Packet = [match : BOOLEAN, ts : Times]
    OBVIOUS
  <1>2. arrived \in Seq(Packet)
    BY <1>1 DEF ExamplesTyped
  <1>3. arrived[i] \in Packet
    BY <1>2
  <1> QED BY <1>1, <1>3

(* A packet that arrives goes behind those that wait.                       *)
LEMMA BufferArrives ==
    ASSUME ExamplesTyped, AllArrived, InOrder, HandledFirst, Arrive
    PROVE  InOrder' /\ HandledFirst'
  <1>1. /\ UNCHANGED handled
        /\ Len(arrived') = Len(arrived) + 1
        /\ UNCHANGED buffer \/ buffer' = Append(buffer, Len(arrived'))
    <2>1. UNCHANGED handled
      BY DEF Arrive
    <2> QED BY <2>1, Arrival
  <1>2. CASE UNCHANGED buffer
    BY <1>1, <1>2 DEF InOrder, HandledFirst
  <1>3. CASE buffer' = Append(buffer, Len(arrived'))
    <2>1. buffer \in Seq(DOMAIN arrived)
      BY DEF ExamplesTyped
    <2>2. /\ DOMAIN buffer' = DOMAIN buffer \cup {Len(buffer) + 1} /\ DOMAIN buffer = 1..Len(buffer)
          /\ \A i \in DOMAIN buffer : buffer'[i] = buffer[i]
          /\ buffer'[Len(buffer) + 1] = Len(arrived) + 1
      BY <1>1, <1>3, <2>1
    <2>3. /\ \A i \in DOMAIN buffer : buffer[i] \in 1..Len(arrived)
          /\ \A i \in DOMAIN handled : handled[i].n \in 1..Len(arrived)
          /\ Len(arrived) \in Nat /\ Len(buffer) \in Nat
      BY HandledTyped DEF AllArrived
    <2>4. InOrder'
      <3>1. SUFFICES ASSUME NEW i \in DOMAIN buffer', NEW j \in DOMAIN buffer', i < j
                     PROVE  buffer'[i] < buffer'[j]
        BY DEF InOrder
      <3>2. i \in DOMAIN buffer
        BY <2>2, <2>3, <3>1
      <3>3. CASE j \in DOMAIN buffer
        BY <2>2, <3>1, <3>2, <3>3 DEF InOrder
      <3>4. CASE j = Len(buffer) + 1
        BY <2>2, <2>3, <3>2, <3>4
      <3> QED BY <2>2, <3>3, <3>4
    <2>5. HandledFirst'
      <3>1. SUFFICES ASSUME NEW i \in DOMAIN handled, NEW j \in DOMAIN buffer'
                     PROVE  handled[i].n < buffer'[j]
        BY <1>1 DEF HandledFirst
      <3>2. CASE j \in DOMAIN buffer
        BY <2>2, <3>1, <3>2 DEF HandledFirst
      <3>3. CASE j = Len(buffer) + 1
        BY <2>2, <2>3, <3>3
      <3> QED BY <2>2, <3>2, <3>3
    <2> QED BY <2>4, <2>5
  <1> QED BY <1>1, <1>2, <1>3

(* A packet that is read comes behind those handled and before those that   *)
(* wait.                                                                    *)
LEMMA BufferRead ==
    ASSUME ExamplesTyped, InOrder, HandledFirst, ReadPacket
    PROVE  /\ InOrder'
           /\ \A i \in DOMAIN handled : handled[i].n < Head(buffer)
           /\ \A i \in DOMAIN handled : \A j \in DOMAIN buffer' : handled[i].n < buffer'[j]
           /\ \A j \in DOMAIN buffer' : Head(buffer) < buffer'[j]
  <1>1. /\ Head(buffer) = buffer[1] /\ 1 \in DOMAIN buffer
        /\ buffer' \in Seq(DOMAIN arrived)
        /\ \A i \in DOMAIN buffer' : i + 1 \in DOMAIN buffer /\ buffer'[i] = buffer[i + 1]
    BY Reading
  <1>2. \A i \in DOMAIN buffer' : i \in Nat /\ i > 0
    BY <1>1
  <1>3. InOrder'
    <2>1. SUFFICES ASSUME NEW i \in DOMAIN buffer', NEW j \in DOMAIN buffer', i < j
                   PROVE  buffer'[i] < buffer'[j]
      BY DEF InOrder
    <2>2. i + 1 < j + 1
      BY <1>2, <2>1
    <2> QED BY <1>1, <2>1, <2>2 DEF InOrder
  <1>4. \A i \in DOMAIN handled : handled[i].n < Head(buffer)
    BY <1>1 DEF HandledFirst
  <1>5. \A i \in DOMAIN handled : \A j \in DOMAIN buffer' : handled[i].n < buffer'[j]
    BY <1>1 DEF HandledFirst
  <1>6. ASSUME NEW j \in DOMAIN buffer' PROVE Head(buffer) < buffer'[j]
    <2>1. 1 < j + 1
      BY <1>2, <1>6
    <2> QED BY <1>1, <1>6, <2>1 DEF InOrder
  <1> QED BY <1>3, <1>4, <1>5, <1>6

(* A sample with a later time is taken over the time since the one before.  *)
LEMMA SampleAfter ==
    ASSUME ExamplesTyped, AllArrived, OldIsLast, handled # <<>>, NEW n \in DOMAIN arrived,
           Time(arrived[n].ts) - Time(arrived[handled[Len(handled)].n].ts) > 0
    PROVE  delay(arrived[n].ts) = Time(arrived[n].ts)
                                  - Time(arrived[handled[Len(handled)].n].ts)
  <1>1. old = arrived[handled[Len(handled)].n].ts /\ old \in Times
    BY DEF OldIsLast, ExamplesTyped
  <1>2. arrived[n].ts \in Times
    BY StampTyped
  <1>3. Time(old) \in Nat /\ Time(arrived[n].ts) \in Nat
    BY <1>1, <1>2, TimeOrder
  <1>4. Time(old) <= Time(arrived[n].ts)
    BY <1>1, <1>3
  <1> QED BY <1>1, <1>2, <1>4, delayOfTimes

(* Every step keeps tcptop's part.                                          *)
LEMMA TopKeeps ==
    ASSUME MainIsSomewhere, ExamplesTyped, TopInv, [Next]_winVars
    PROVE  TopInv'
  <1>1. SUFFICES ASSUME prog = "tcptop"
                 PROVE  TopInv'
    BY EveryStepMoves DEF TopInv, Moves
  <1>2. /\ AllArrived /\ InOrder /\ HandledFirst
        /\ OldIsLast /\ SamplesOverTheirTime
    BY <1>1, TopParts
  <1>3. SUFFICES /\ AllArrived' /\ InOrder' /\ HandledFirst'
                 /\ OldIsLast' /\ SamplesOverTheirTime'
    BY DEF TopInv, AllArrived, InOrder, HandledFirst
  <1>4. Call.name # "clear_old" /\ Call.do \in {"", "sample"} /\ Call.from \in {"", "net"}
    BY <1>1, TopCalls DEF MainIsSomewhere, CallsTypeOK
  <1>5. UNCHANGED prog /\ KeepsArrivals
    BY EveryStepMoves, ArrivalsStay DEF Moves
  <1>6. ASSUME UNCHANGED <<handled, old>>
        PROVE  AllArrived' /\ OldIsLast' /\ SamplesOverTheirTime'
    BY <1>2, <1>5, <1>6, AllArrivedStays, LastStays, SamplesStay
  <1>7. CASE UNCHANGED <<arrived, buffer, handled, old>>
    <2>1. InOrder' /\ HandledFirst'
      BY <1>2, <1>7 DEF InOrder, HandledFirst
    <2> QED BY <1>6, <1>7, <2>1
  <1>8. CASE Arrive
    <2>1. UNCHANGED <<handled, old>>
      BY <1>8 DEF Arrive
    <2> QED BY <1>2, <1>6, <1>8, <2>1, BufferArrives
  <1>9. CASE SetsFilter
    <2>1. UNCHANGED <<arrived, handled, old>> /\ buffer' \in {buffer, <<>>}
      BY <1>9 DEF SetsFilter
    <2>3. InOrder' /\ HandledFirst'
      <3>1. CASE buffer' = buffer
        BY <1>2, <2>1, <3>1 DEF InOrder, HandledFirst
      <3>2. CASE buffer' = <<>>
        BY <3>2 DEF InOrder, HandledFirst
      <3> QED BY <2>1, <3>1, <3>2
    <2> QED BY <1>6, <2>1, <2>3
  <1>10. CASE ReadPacket
    <2>1. UNCHANGED arrived
      BY <1>10 DEF ReadPacket
    <2>3. PICK n : /\ n = Head(buffer) /\ n \in DOMAIN arrived /\ InOrder'
                   /\ \A i \in DOMAIN handled : handled[i].n < n
                   /\ \A i \in DOMAIN handled : \A j \in DOMAIN buffer' : handled[i].n < buffer'[j]
                   /\ \A j \in DOMAIN buffer' : n < buffer'[j]
      BY <1>2, <1>10, BufferRead, Reading
    <2>4. \/ UNCHANGED <<handled, old>>
          \/ Adds(n, delay(arrived[n].ts)) /\ old' = arrived[n].ts
      <3>1. Call.do \notin {"consistent", "print", "dump", "udp"}
        BY <1>4
      <3> QED BY <1>10, <2>3, <3>1, PacketHandled
    <2>5. CASE UNCHANGED <<handled, old>>
      <3>1. HandledFirst'
        BY <2>3, <2>5 DEF HandledFirst
      <3> QED BY <1>6, <2>3, <2>5, <3>1
    <2>6. CASE Adds(n, delay(arrived[n].ts)) /\ old' = arrived[n].ts
      <3>1. AllArrived' /\ OldIsLast'
        BY <1>2, <2>1, <2>3, <2>6, AllArrivedAdds, LastAdds
      <3>2. HandledFirst'
        <4>1. SUFFICES ASSUME NEW i \in DOMAIN handled', NEW j \in DOMAIN buffer'
                       PROVE  handled'[i].n < buffer'[j]
          BY DEF HandledFirst
        <4>2. (i \in DOMAIN handled /\ handled'[i] = handled[i]) \/ handled'[i].n = n
          BY <2>6, <4>1 DEF Adds
        <4> QED BY <2>3, <4>1, <4>2
      <3>3. SamplesOverTheirTime'
        <4>1. SUFFICES ASSUME NEW i \in DOMAIN handled', i > 1,
                              Time(arrived[handled'[i].n].ts)
                                - Time(arrived[handled'[i-1].n].ts) > 0
                       PROVE  handled'[i].note = Time(arrived[handled'[i].n].ts)
                                                 - Time(arrived[handled'[i-1].n].ts)
          BY <2>1 DEF SamplesOverTheirTime, Time
        <4>2. CASE i \in DOMAIN handled
          <5>1. handled'[i] = handled[i] /\ handled'[i-1] = handled[i-1]
            BY <2>6, <4>1, <4>2, HandledTyped DEF Adds
          <5> QED BY <1>1, <1>2, <4>1, <4>2, <5>1 DEF SamplesOverTheirTime
        <4>3. CASE i = Len(handled')
          <5>1. /\ handled'[i].n = n /\ handled'[i].note = delay(arrived[n].ts)
                /\ i = Len(handled) + 1
            BY <2>6, <4>3 DEF Adds
          <5>2. i - 1 = Len(handled) /\ Len(handled) \in DOMAIN handled /\ handled # <<>>
            BY <4>1, <5>1, HandledTyped
          <5>3. handled'[i-1] = handled[Len(handled)]
            BY <2>6, <5>2 DEF Adds
          <5>4. delay(arrived[n].ts) = Time(arrived[n].ts)
                                       - Time(arrived[handled[Len(handled)].n].ts)
            BY <1>2, <2>3, <4>1, <5>1, <5>2, <5>3, SampleAfter
          <5> QED BY <5>1, <5>3, <5>4
        <4> QED BY <2>6, <4>1, <4>2, <4>3 DEF Adds
      <3> QED BY <2>3, <3>1, <3>2, <3>3
    <2> QED BY <2>4, <2>5, <2>6
  <1>11. ~ReadRecord /\ ~Works("clear_old")
    BY <1>4 DEF ReadRecord, Works
  <1>12. UNCHANGED <<arrived, buffer, handled, old>> \/ Arrive \/ SetsFilter \/ ReadPacket
    BY <1>11, EveryStepHappens DEF Happens, pcapVars, netVars, Grow, Measures, Transmits
  <1> QED BY <1>7, <1>8, <1>9, <1>10, <1>12

-----------------------------------------------------------------------------
(* sendcap.                                                                *)

(* What was queued by the time the loop ends.                               *)
QueuedAll ==
    \A n \in 1..Len(records) : EndOf(n) <= measured + FileHeader <=> n <= Len(handled)

(* Where the next record would not fit, all that fits is queued.            *)
LEMMA NoMoreFits ==
    ASSUME ExamplesTyped, Len(handled) <= Len(records),
           handled # <<>> => EndOf(Len(handled)) <= measured + FileHeader,
           Len(handled) < Len(records) => EndOf(Len(handled) + 1) > measured + FileHeader
    PROVE  QueuedAll
  <1>1. PICK h : h = Len(handled) /\ h \in Nat
    BY HandledTyped
  <1>2. PICK room \in Int : room = measured + FileHeader
    BY PcapExamplesAssumption DEF ExamplesTyped
  <1>3. /\ \A n \in 0..Len(records) : EndOf(n) \in Nat
        /\ \A n \in 0..Len(records) : \A m \in 0..n : EndOf(m) <= EndOf(n)
    BY EndOfGrows DEF ExamplesTyped
  <1>4. Len(records) \in Nat
    BY HandledTyped
  <1>5. ASSUME NEW n \in 1..Len(records), n <= h PROVE EndOf(n) <= room
    <2>1. handled # <<>>
      <3>1. h # 0
        BY <1>1, <1>5
      <3> QED BY <1>1, <3>1
    <2>2. EndOf(h) <= room
      BY <1>1, <1>2, <2>1
    <2>3. h \in 0..Len(records) /\ n \in 0..h /\ n \in 0..Len(records)
      BY <1>1, <1>4, <1>5
    <2>4. EndOf(n) <= EndOf(h)
      BY <1>3, <2>3
    <2>5. EndOf(n) \in Nat /\ EndOf(h) \in Nat
      BY <1>3, <2>3
    <2> QED BY <2>2, <2>4, <2>5
  <1>6. ASSUME NEW n \in 1..Len(records), h < n PROVE ~(EndOf(n) <= room)
    <2>1. h < Len(records) /\ h + 1 \in 0..n /\ n \in 0..Len(records) /\ h + 1 \in 0..Len(records)
      BY <1>1, <1>4, <1>6
    <2>2. EndOf(h + 1) > room
      BY <1>1, <1>2, <2>1
    <2>3. EndOf(h + 1) <= EndOf(n)
      BY <1>3, <2>1
    <2>4. EndOf(n) \in Nat /\ EndOf(h + 1) \in Nat
      BY <1>3, <2>1
    <2> QED BY <2>2, <2>3, <2>4
  <1> QED BY <1>1, <1>2, <1>5, <1>6 DEF QueuedAll

(* What the loop over the file has done when it ends.                       *)
LEMMA LoopOverFileEnds ==
    ASSUME ExamplesTyped, Looping, Call.from = "file", Call.do = "queue", pc' # pc,
           measured + FileHeader <= length, Len(handled) <= Len(records),
           ReadRecord \/ ReadEnd \/ ReadError
    PROVE  /\ UNCHANGED handled
           /\ Len(handled) < Len(records) => EndOf(Len(handled) + 1) > measured + FileHeader
  <1>1. PICK h : h = Len(handled) /\ h \in Nat /\ Len(records) \in Nat
    BY HandledTyped
  <1>2. length \in Int /\ measured \in Int /\ FileHeader \in Int
    BY PcapExamplesAssumption DEF ExamplesTyped
  <1>3. \A n \in 0..Len(records) : EndOf(n) \in Nat
    BY EndOfGrows DEF ExamplesTyped
  <1>4. \A n \in 1..Len(records) : EndOf(n - 1) < EndOf(n)
    BY EndOfGrows DEF ExamplesTyped
  <1>5. EndOf(h + 1) = EndOf(h) + records[h + 1]
    BY <1>1, EndOfNext
  <1>6. h \in 0..Len(records)
    BY <1>1
  <1>7. h < Len(records) => h + 1 \in 1..Len(records) /\ h + 1 \in 0..Len(records)
                            /\ (h + 1) - 1 = h
    BY <1>1
  <1>8. CASE ReadRecord
    <2>1. ~End("crashed") /\ ~UNCHANGED callVars
      BY DEF End, callVars
    <2>2. /\ UNCHANGED handled /\ Queued + records[h + 1] > measured
          /\ h + 1 <= Len(records)
      BY <1>1, <1>8, <2>1 DEF ReadRecord
    <2>3. EndOf(h) - FileHeader + records[h + 1] > measured
      BY <1>1, <2>2 DEF Queued
    <2>4. EndOf(h) \in Nat /\ EndOf(h + 1) \in Nat
      BY <1>1, <1>3, <1>6, <1>7, <2>2
    <2>5. records[h + 1] \in Nat
      <3>1. records \in Seq(Sizes) /\ Sizes \subseteq Nat
        BY PcapExamplesAssumption DEF ExamplesTyped
      <3>2. h + 1 \in 1..Len(records)
        BY <1>1, <2>2
      <3>3. records[h + 1] \in Sizes
        BY <3>1, <3>2
      <3> QED BY <3>1, <3>3
    <2>6. EndOf(h + 1) > measured + FileHeader
      BY <1>2, <1>5, <2>3, <2>4, <2>5
    <2> QED BY <1>1, <2>2, <2>6
  <1>9. CASE ReadEnd
    <2>1. UNCHANGED handled /\ length = EndOf(h)
      BY <1>1, <1>9 DEF ReadEnd, pcapVars
    <2>2. ASSUME h < Len(records) PROVE EndOf(h + 1) > measured + FileHeader
      <3>1. EndOf(h) < EndOf(h + 1) /\ EndOf(h) \in Nat /\ EndOf(h + 1) \in Nat
        <4>1. h + 1 \in 1..Len(records) /\ (h + 1) - 1 = h /\ h + 1 \in 0..Len(records)
          BY <1>7, <2>2
        <4>2. EndOf((h + 1) - 1) < EndOf(h + 1)
          BY <1>4, <4>1
        <4> QED BY <1>3, <1>6, <4>1, <4>2
      <3> QED BY <1>2, <2>1, <3>1
    <2> QED BY <1>1, <2>1, <2>2
  <1>10. CASE ReadError
    <2>1. UNCHANGED handled /\ length < EndOf(h + 1) /\ h < Len(records)
      BY <1>1, <1>10 DEF ReadError, pcapVars
    <2>2. EndOf(h + 1) \in Nat
      BY <1>3, <1>7, <2>1
    <2> QED BY <1>1, <1>2, <2>1, <2>2
  <1> QED BY <1>8, <1>9, <1>10

(* A record that is queued fits.                                            *)
LEMMA QueuedFits ==
    ASSUME ExamplesTyped, ReadRecord, Call.do = "queue", ~UNCHANGED handled
    PROVE  /\ Len(handled') <= Len(records) /\ UNCHANGED callVars
           /\ EndOf(Len(handled')) <= measured + FileHeader
  <1>1. PICK h : h = Len(handled) /\ h \in Nat /\ Len(records) \in Nat
    BY HandledTyped
  <1>2. Adds(h + 1, 0) /\ h + 1 \in DOMAIN records /\ UNCHANGED callVars
    BY <1>1, RecordHandled
  <1>3. h + 1 <= Len(records) /\ Len(handled') = h + 1
    BY <1>1, <1>2, HandledTyped DEF Adds
  <1>4. ~(Queued + records[h + 1] > measured)
    <2>1. measured < 0 \/ measured >= 0
      BY DEF ExamplesTyped
    <2>2. CASE measured < 0
      BY <2>2 DEF ReadRecord
    <2>3. CASE measured >= 0
      BY <1>1, <2>3 DEF ReadRecord
    <2> QED BY <2>1, <2>2, <2>3
  <1>5. EndOf(h + 1) = EndOf(h) + records[h + 1]
    BY <1>1, EndOfNext
  <1>6. EndOf(h) \in Nat /\ EndOf(h + 1) \in Nat
    <2>1. h \in 0..Len(records) /\ h + 1 \in 0..Len(records)
      BY <1>1, <1>3
    <2> QED BY <2>1, EndOfGrows DEF ExamplesTyped
  <1>7. records[h + 1] \in Nat
    <2>1. records \in Seq(Sizes) /\ Sizes \subseteq Nat
      BY PcapExamplesAssumption DEF ExamplesTyped
    <2>2. records[h + 1] \in Sizes
      BY <1>2, <2>1
    <2> QED BY <2>1, <2>2
  <1>8. measured \in Int /\ FileHeader \in Int
    BY PcapExamplesAssumption DEF ExamplesTyped
  <1>9. EndOf(h + 1) <= measured + FileHeader
    BY <1>1, <1>4, <1>5, <1>6, <1>7, <1>8 DEF Queued
  <1> QED BY <1>2, <1>3, <1>9

(* Every step keeps sendcap's part: it measures before its loop, reads a    *)
(* record only if it fits and leaves its loop only when the next does not,  *)
(* or there is none.                                                        *)
LEMMA CapKeeps ==
    ASSUME MainIsSomewhere, ExamplesTyped, CapInv, [Next]_winVars
    PROVE  CapInv'
  <1>1. SUFFICES ASSUME prog = "sendcap"
                 PROVE  CapInv'
    BY EveryStepMoves DEF CapInv, Moves
  <1>2. /\ measured + FileHeader <= length
        /\ pc < 10 => handled = <<>>
        /\ pc = 10 => /\ Len(handled) <= Len(records)
                      /\ handled # <<>> => EndOf(Len(handled)) <= measured + FileHeader
        /\ pc = 11 => Len(handled) <= Len(records) /\ QueuedAll
    BY <1>1 DEF CapInv, QueuedAll
  <1>3. /\ pc \in 1..14
        /\ pc # 10 => Call.from = ""
        /\ pc = 10 => Call.from = "file" /\ Call.do = "queue"
        /\ Call.name = "ftell" => pc = 3
    BY <1>1, CapCalls DEF MainIsSomewhere, CallsTypeOK
  <1>4. (pc' = pc \/ pc' = pc + 1) /\ pc \in Int
    <2>1. pc \in 1..14
      BY <1>3
    <2>2. pc' = pc \/ pc' = pc + 1
      BY EveryStepMoves DEF Moves
    <2> QED BY <2>1, <2>2
  <1>5. UNCHANGED prog
    BY EveryStepMoves DEF Moves
  <1>6. UNCHANGED records
    BY EveryStepHappens DEF Happens, pcapVars, fileVars, Arrive, Grow, ReadPacket, ReadRecord,
                            SetsFilter, Measures, Transmits, ClearsOld
  <1>7. \A n : EndOf(n)' = EndOf(n)
    BY <1>6, EndOfStays
  <1>8. ~ReadPacket
    BY <1>3 DEF ReadPacket
  <1>9. UNCHANGED handled \/ ReadRecord
    BY <1>8, EveryStepHappens DEF Happens, pcapVars, Arrive, Grow, SetsFilter, Measures, Transmits,
                                  ClearsOld
  <1>10. UNCHANGED measured \/ (pc = 3 /\ measured' = length - FileHeader /\ UNCHANGED length)
    <2>1. UNCHANGED measured \/ (Works("ftell") /\ Measures)
      BY EveryStepHappens DEF Happens, pcapVars, Arrive, Grow, ReadPacket, ReadRecord, SetsFilter,
                              Transmits, ClearsOld
    <2> QED BY <1>3, <2>1 DEF Works, Measures, fileVars
  <1>11. measured' + FileHeader <= length'
    <2>1. length \in Int /\ measured \in Int /\ FileHeader \in Int
      BY PcapExamplesAssumption DEF ExamplesTyped
    <2>2. length' \in Int /\ length' >= length
      <3>1. UNCHANGED length \/ Grow
        BY EveryStepHappens DEF Happens, pcapVars, fileVars, Arrive, ReadPacket, ReadRecord,
                                SetsFilter, Measures, Transmits, ClearsOld
      <3>2. CASE Grow
        <4>1. length' \in length + 1..EndOf(Len(records))
          BY <3>2 DEF Grow
        <4>2. EndOf(Len(records)) \in Nat
          BY EndOfGrows, HandledTyped DEF ExamplesTyped
        <4> QED BY <2>1, <4>1, <4>2
      <3> QED BY <2>1, <3>1, <3>2
    <2>3. CASE UNCHANGED measured
      BY <1>2, <2>1, <2>2, <2>3
    <2>4. CASE measured' = length - FileHeader
      BY <2>1, <2>2, <2>4
    <2> QED BY <1>10, <2>3, <2>4
  <1>12. pc' # pc /\ pc = 10 => Looping /\ (ReadRecord \/ ReadEnd \/ ReadError)
    BY <1>1, <1>3, Advances, UdpIsPcap DEF DoCall, Looping
  <1>13. ReadRecord => pc = 10
    BY <1>3 DEF ReadRecord
  <1>14. pc' < 10 => handled' = <<>>
    <2>1. SUFFICES ASSUME pc' < 10 PROVE handled' = <<>>
      OBVIOUS
    <2>2. pc < 10
      BY <1>4, <2>1
    <2>3. UNCHANGED handled
      BY <1>9, <1>13, <2>2
    <2> QED BY <1>2, <2>2, <2>3
  <1>15. ASSUME pc' = 10
         PROVE  /\ Len(handled') <= Len(records)
                /\ handled' # <<>> => EndOf(Len(handled')) <= measured' + FileHeader
    <2>1. CASE pc = 10
      <3>1. UNCHANGED measured
        BY <1>10, <2>1
      <3>2. CASE UNCHANGED handled
        BY <1>2, <2>1, <3>1, <3>2
      <3>3. CASE ~UNCHANGED handled
        BY <1>3, <1>9, <2>1, <3>1, <3>3, QueuedFits
      <3> QED BY <3>2, <3>3
    <2>2. CASE pc # 10
      <3>1. pc < 10
        BY <1>4, <1>15, <2>2
      <3>2. handled' = <<>>
        BY <1>2, <1>9, <1>13, <3>1
      <3> QED BY <3>2, HandledTyped
    <2> QED BY <2>1, <2>2
  <1>16. ASSUME pc' = 11
         PROVE  Len(handled') <= Len(records) /\ QueuedAll'
    <2>1. SUFFICES UNCHANGED <<handled, measured>> /\ Len(handled) <= Len(records) /\ QueuedAll
      BY <1>6, <1>7 DEF QueuedAll
    <2>2. CASE pc = 11
      BY <1>2, <1>9, <1>10, <1>13, <2>2
    <2>3. CASE pc # 11
      <3>1. pc = 10
        BY <1>4, <1>16, <2>3
      <3>2. pc' # pc /\ Looping /\ (ReadRecord \/ ReadEnd \/ ReadError)
        BY <1>12, <1>16, <3>1
      <3>3. /\ UNCHANGED handled
            /\ Len(handled) < Len(records) => EndOf(Len(handled) + 1) > measured + FileHeader
        BY <1>2, <1>3, <3>1, <3>2, LoopOverFileEnds
      <3>4. QueuedAll
        BY <1>2, <3>1, <3>3, NoMoreFits
      <3> QED BY <1>2, <1>10, <3>1, <3>3, <3>4
    <2> QED BY <2>2, <2>3
  <1>17. pc' = 10 => /\ Len(handled') <= Len(records')
                     /\ handled' # <<>> => EndOf(Len(handled))' <= measured' + FileHeader
    <2>1. EndOf(Len(handled))' = EndOf(Len(handled'))
      BY <1>6 DEF EndOf
    <2> QED BY <1>6, <1>15, <2>1
  <1>18. pc' = 11 => /\ Len(handled') <= Len(records')
                     /\ \A n \in 1..Len(records') :
                          EndOf(n)' <= measured' + FileHeader <=> n <= Len(handled')
    BY <1>6, <1>16 DEF QueuedAll
  <1> QED BY <1>11, <1>14, <1>17, <1>18 DEF CapInv

-----------------------------------------------------------------------------
(* Where the programs go down.                                             *)

(* Only tcptop takes samples, and only sendcap has a queue.                 *)
LEMMA DoTells ==
    ASSUME MainIsSomewhere, prog \in DOMAIN PcapCalls
    PROVE  (Call.do = "sample" => prog = "tcptop") /\ (Call.do = "queue" => prog = "sendcap")
  <1>1. pc \in DOMAIN calls /\ way \in DOMAIN Programs[prog]
    BY DEF MainIsSomewhere, CallsTypeOK
  <1>2. CASE prog = "tcptop"
    <2>1. Call.do \in {"", "sample"}
      BY <1>1, <1>2, TopCalls
    <2> QED BY <1>2, <2>1
  <1>3. CASE prog = "sendcap"
    <2>1. Call.do = "" \/ Call.do = "queue"
      BY <1>1, <1>3, CapCalls
    <2> QED BY <1>3, <2>1
  <1>4. CASE prog \notin {"tcptop", "sendcap"}
    <2>1. Programs[prog] = PcapCalls[prog]
      BY ProgramsOfTheirOwn
    <2>2. PlainList(calls)
      BY <1>1, <1>4, <2>1, PcapCallsPlain DEF calls
    <2>3. PICK S : calls \in Seq(S) /\ \A c \in S : Plainly(c)
      BY <2>2 DEF PlainList
    <2>4. Call \in S
      BY <1>1, <2>3 DEF Call
    <2>5. Plainly(Call)
      BY <2>3, <2>4
    <2> QED BY <2>5 DEF Plainly
  <1> QED BY <1>2, <1>3, <1>4

(* tcptop divides by zero only where the clock stands still.                *)
LEMMA CrashWhereStill ==
    ASSUME ExamplesTyped, TopInv, prog = "tcptop", ReadPacket, UNCHANGED <<handled, old>>,
           delay(arrived[Head(buffer)].ts) = 0
    PROVE  StandsStill'
  <1>1. HandledFirst /\ OldIsLast
    BY TopParts
  <1>2. PICK n \in DOMAIN arrived :
             n = Head(buffer) /\ n = buffer[1] /\ 1 \in DOMAIN buffer /\ arrived[n].ts \in Times
    BY Reading
  <1>3. \A i \in DOMAIN handled : handled[i].n < n
    BY <1>1, <1>2 DEF HandledFirst
  <1>4. arrived[n].ts = old
    BY <1>2, NoDelay DEF ExamplesTyped
  <1>5. LastSample = old
    BY <1>1 DEF LastSample, OldIsLast, Last
  <1>6. UNCHANGED arrived
    BY DEF ReadPacket
  <1>7. LastSample' = LastSample
    BY <1>6 DEF LastSample
  <1> QED BY <1>2, <1>3, <1>4, <1>5, <1>6, <1>7 DEF StandsStill

(* A program that went down is not brought back.                            *)
LEMMA StillStands ==
    ASSUME UNCHANGED pcapVars, StandsStill
    PROVE  StandsStill'
  <1>1. UNCHANGED <<arrived, handled, old>>
    BY DEF pcapVars, netVars
  <1>2. LastSample' = LastSample
    BY <1>1 DEF LastSample
  <1> QED BY <1>1, <1>2 DEF StandsStill

(* No step brings a program of wpcap down for another reason.               *)
LEMMA CrashKeeps ==
    ASSUME MainIsSomewhere, ExamplesTyped, TopInv, CrashFacts, [Next]_winVars
    PROVE  CrashFacts'
  <1>1. UNCHANGED prog
    BY EveryStepMoves DEF Moves
  <1>2. SUFFICES ASSUME status' = "crashed", prog \in DOMAIN PcapCalls
                 PROVE  \/ Call'.down
                        \/ prog = "tcptop" /\ StandsStill'
                        \/ prog = "sendcap" /\ measured' < 0
    BY <1>1 DEF CrashFacts
  <1>3. PcapNext \/ UNCHANGED <<callVars, pcapVars>>
    BY <1>2, OnlyItsOwn
  <1>4. CASE UNCHANGED <<callVars, pcapVars>>
    <2>1. UNCHANGED <<prog, way, pc, status, measured>> /\ UNCHANGED pcapVars
      BY <1>4 DEF callVars, pcapVars
    <2>2. Call' = Call
      BY <2>1 DEF Call, calls
    <2>3. \/ Call.down
          \/ prog = "tcptop" /\ StandsStill
          \/ prog = "sendcap" /\ measured < 0
      BY <1>2, <2>1 DEF CrashFacts
    <2> QED BY <2>1, <2>2, <2>3, StillStands
  <1>5. CASE PcapNext
    <2>1. status = "running"
      <3>1. Running
        BY <1>5 DEF PcapNext, Main, Arrive, Grow, Interrupt, DoCall, FailCall, GoDown, ReadPacket,
                    ReadNothing, ReadRecord, ReadEnd, ReadError, Looping
      <3> QED BY <3>1 DEF Running
    <2>2. ~UNCHANGED callVars /\ ~Succeed /\ ~Fail /\ ~End("stopped")
      BY <1>2, <2>1 DEF callVars, Succeed, Advance, Fail, End
    <2>3. ReadPacket \/ ReadRecord \/ GoDown
      BY <1>5, <2>2 DEF PcapNext, Main, Arrive, Grow, Interrupt, DoCall, FailCall, ReadNothing,
                        ReadEnd, ReadError
    <2>4. CASE ReadPacket
      <3>1. /\ Call.do = "sample" /\ delay(arrived[Head(buffer)].ts) = 0
            /\ UNCHANGED <<handled, old>>
        BY <2>2, <2>4, PacketHandled
      <3>2. prog = "tcptop"
        BY <1>2, <3>1, DoTells
      <3> QED BY <2>4, <3>1, <3>2, CrashWhereStill
    <2>5. CASE ReadRecord
      <3>1. Call.do = "queue" /\ measured < 0
        BY <2>2, <2>5 DEF ReadRecord
      <3>2. UNCHANGED measured
        BY <2>5 DEF ReadRecord
      <3> QED BY <1>2, <3>1, <3>2, DoTells
    <2>6. CASE GoDown
      <3>1. Call.down /\ UNCHANGED <<prog, way, pc>>
        BY <2>6 DEF GoDown, End
      <3>2. Call' = Call
        BY <3>1 DEF Call, calls
      <3> QED BY <3>1, <3>2
    <2> QED BY <2>3, <2>4, <2>5, <2>6
  <1> QED BY <1>3, <1>4, <1>5

-----------------------------------------------------------------------------
(* The invariant of the example programs.                                  *)

(* The invariant holds at the start.                                        *)
LEMMA InitExamples == Init => ExamplesInv
  <1> SUFFICES ASSUME Init PROVE ExamplesInv
    OBVIOUS
  <1>1. MainIsSomewhere /\ ExamplesTyped
    BY AtStart
  <1>2. PcapIdle /\ status = "running" /\ pc = 1
    BY DEF Init, PcapInit, PacketInit, BridgeInit, Start
  <1>3. /\ arrived = <<>> /\ buffer = <<>> /\ filter = NoFilter /\ handled = <<>>
        /\ measured = Unmeasured
    BY <1>2 DEF PcapIdle
  <1>4. DOMAIN arrived = {} /\ DOMAIN buffer = {} /\ DOMAIN handled = {}
    BY <1>3
  <1>5. UdpInv
    BY <1>2, <1>3, <1>4 DEF UdpInv
  <1>6. SmpInv
    BY <1>2, <1>3, <1>4 DEF SmpInv, OldIsLast, ComplainsRightly
  <1>7. TopInv
    BY <1>3, <1>4 DEF TopInv, OldIsLast, SamplesOverTheirTime
  <1>8. measured + FileHeader <= length
    <2>1. length \in Int /\ length >= 0
      BY <1>1 DEF ExamplesTyped
    <2>2. FileHeader \in Nat
      BY PcapExamplesAssumption
    <2> QED BY <1>3, <2>1, <2>2 DEF Unmeasured
  <1>9. CapInv
    BY <1>2, <1>3, <1>8 DEF CapInv
  <1>10. CrashFacts
    BY <1>2 DEF CrashFacts
  <1> QED BY <1>1, <1>5, <1>6, <1>7, <1>9, <1>10 DEF ExamplesInv

(* Whatever happens, the invariant of the example programs holds.           *)
LEMMA AlwaysExamples == Spec => []ExamplesInv
  <1>1. ExamplesInv /\ [Next]_winVars => ExamplesInv'
    <2> SUFFICES ASSUME ExamplesInv, [Next]_winVars PROVE ExamplesInv'
      OBVIOUS
    <2>1. /\ MainIsSomewhere /\ ExamplesTyped
          /\ UdpInv /\ SmpInv /\ TopInv /\ CapInv /\ CrashFacts
      BY DEF ExamplesInv
    <2>2. MainIsSomewhere'
      BY <2>1, EveryStepMoves, MainKeeps
    <2>3. ExamplesTyped'
      BY <2>1, TypedKeeps
    <2>4. UdpInv' /\ SmpInv' /\ TopInv' /\ CapInv' /\ CrashFacts'
      BY <2>1, UdpKeeps, SmpKeeps, TopKeeps, CapKeeps, CrashKeeps
    <2> QED BY <2>2, <2>3, <2>4 DEF ExamplesInv
  <1> QED BY <1>1, InitExamples, PTL DEF Spec

(* UDPdump is in its loop only behind its filter.                           *)
LEMMA FilterIsSet == ExamplesInv => UDPdumpFilters
  <1> SUFFICES ASSUME ExamplesInv, prog \in {"UDPdump", "UDPdump_remote"}, Looping
               PROVE  /\ filter # NoFilter
                      /\ \A i \in DOMAIN handled :
                           handled[i].n > filter => arrived[handled[i].n].match
    BY DEF UDPdumpFilters
  <1>1. pc = 11
    BY UdpCalls DEF ExamplesInv, MainIsSomewhere, CallsTypeOK, Looping
  <1>2. filter # NoFilter
    BY <1>1 DEF ExamplesInv, UdpInv
  <1>3. \A i \in DOMAIN handled : Filtered(handled[i].n)
    BY <1>2 DEF ExamplesInv, UdpInv
  <1> QED BY <1>2, <1>3 DEF Filtered

(* As many records are queued as were whole.                                *)
LEMMA QueueIsWhole == ExamplesInv => SendsWhatWasMeasured
  <1> SUFFICES ASSUME ExamplesInv, prog = "sendcap", Call.name = "pcap_sendqueue_transmit"
               PROVE  Len(handled) =
                        Cardinality({n \in DOMAIN records : EndOf(n) <= measured + FileHeader})
    BY DEF SendsWhatWasMeasured
  <1>1. pc = 11
    BY CapCalls DEF ExamplesInv, MainIsSomewhere, CallsTypeOK
  <1>2. Len(handled) <= Len(records) /\ QueuedAll
    BY <1>1 DEF ExamplesInv, CapInv, QueuedAll
  <1>3. PICK h \in Nat : h = Len(handled) /\ h <= Len(records) /\ Len(records) \in Nat
    BY <1>2, HandledTyped DEF ExamplesInv
  <1>4. {n \in DOMAIN records : EndOf(n) <= measured + FileHeader} = 1..h
    <2>1. DOMAIN records = 1..Len(records)
      BY HandledTyped DEF ExamplesInv
    <2>2. \A n \in 1..Len(records) : EndOf(n) <= measured + FileHeader <=> n <= h
      BY <1>2, <1>3 DEF QueuedAll
    <2>3. 1..h = {n \in 1..Len(records) : n <= h}
      BY <1>3
    <2> QED BY <2>1, <2>2, <2>3
  <1>5. Cardinality(1..h) = h
    <2>1. PICK one \in Int : one = 1
      OBVIOUS
    <2>2. Cardinality(one..h) = IF one > h THEN 0 ELSE h - one + 1
      BY FS_Interval
    <2> QED BY <1>3, <2>1, <2>2
  <1> QED BY <1>3, <1>4, <1>5

(* Whatever arrives, whatever the clock does and however a file grows:      *)
(* UDPdump's loop gets matching packets only from when its filter is set,   *)
(* smp_1 complains of exactly the packets whose clock went back, tcptop     *)
(* takes each sample with a later time over the time since the one before,  *)
(* and sendcap transmits exactly the records that were whole when it        *)
(* measured its file (the handlers of UDPdump, smp_1, tcptop and the loop   *)
(* of sendcap).                                                             *)
THEOREM HandledRightly == Spec => []HandlersRight
  <1>1. ExamplesInv => HandlersRight
    <2>1. ExamplesInv => ComplainsRightly
      BY DEF ExamplesInv, SmpInv, ComplainsRightly
    <2>2. ExamplesInv => SamplesOverTheirTime
      BY DEF ExamplesInv, TopInv, SamplesOverTheirTime
    <2> QED BY <2>1, <2>2, FilterIsSet, QueueIsWhole DEF HandlersRight
  <1> QED BY <1>1, AlwaysExamples, PTL

-----------------------------------------------------------------------------
(* The types of UserBridge's variables.                                    *)

(* No more goes out than was tried, no more is tried than came in, and no   *)
(* more comes in than the bound.                                            *)
Captured == 1..MaxCaptured

HistoriesFit ==
    /\ captured \in [Sides -> Seq(Captured)] /\ came \in [Sides -> Seq(Captured)]
    /\ went \in [Sides -> Seq(Captured)] /\ tried \in [Sides -> Seq(Captured)]
    /\ Len(came[0]) + Len(came[1]) <= MaxCaptured
    /\ \A t \in Sides : Len(tried[t]) <= Len(came[t]) /\ Len(went[Other(t)]) <= Len(tried[t])

(* A thread that has a packet in hand got it from its adapter.              *)
Carries(place) == place \in {"print", "in_print", "send"}
PacketFits(t) ==
    /\ thread[t].pkt \in Captured \cup {None}
    /\ Carries(thread[t].pc) => thread[t].pkt \in Captured

FlagsTyped ==
    kill_forwaders \in BOOLEAN /\ handler \in {"default", "installed", "waiting"}

Bounded == HistoriesFit /\ (\A t \in Sides : PacketFits(t)) /\ FlagsTyped

(* One packet more on either side, and one that is followed by others.      *)
LEMMA OneMore ==
    \A n, m, most \in Nat : n + m + 1 <= most =>
        \A x, y : (x = n + 1 /\ y = m) \/ (x = n /\ y = m + 1) => x + y <= most
  OBVIOUS

(* A packet that is followed by others is one more than those before it.    *)
LEMMA OneAndRest == \A n, m \in Nat : n + 1 <= n + 1 + m
  OBVIOUS

(* What comes in is numbered within the bound.                              *)
LEMMA ComeFits ==
    ASSUME BridgeTyped, HistoriesFit, NEW a \in Sides, Come(a)
    PROVE  HistoriesFit'
  <1>1. PICK n0 \in Nat, n1 \in Nat : n0 = Len(came[0]) /\ n1 = Len(came[1])
    BY DEF BridgeTyped, Sides
  <1>2. PICK p : p = n0 + n1 + 1
    OBVIOUS
  <1>3. /\ p <= MaxCaptured /\ came' = [came EXCEPT ![a] = Append(@, p)]
        /\ captured' = [captured EXCEPT ![a] = Append(@, p)] /\ UNCHANGED <<went, tried>>
    BY <1>1, <1>2 DEF Come
  <1>4. p \in Captured
    <2>1. p <= MaxCaptured
      BY <1>3
    <2>2. p \in Nat /\ p >= 1
      BY <1>2
    <2> QED BY <2>1, <2>2, UserBridgeAssumption DEF Captured
  <1>5. came[a] \in Seq(Captured) /\ captured[a] \in Seq(Captured)
    BY DEF HistoriesFit
  <1>6. /\ Append(came[a], p) \in Seq(Captured) /\ Append(captured[a], p) \in Seq(Captured)
        /\ Len(Append(came[a], p)) = Len(came[a]) + 1 /\ Len(came[a]) \in Nat
    BY <1>4, <1>5
  <1>7. /\ came' \in [Sides -> Seq(Captured)] /\ captured' \in [Sides -> Seq(Captured)]
    BY <1>3, <1>6 DEF HistoriesFit
  <1>8. /\ Len(came'[a]) = Len(came[a]) + 1
        /\ \A u \in Sides : u # a => came'[u] = came[u]
    BY <1>3, <1>6 DEF HistoriesFit
  <1>9. Len(came'[0]) + Len(came'[1]) <= MaxCaptured
    <2>1. n0 + n1 + 1 <= MaxCaptured
      BY <1>2, <1>3
    <2>2. \/ Len(came'[0]) = n0 + 1 /\ Len(came'[1]) = n1
          \/ Len(came'[0]) = n0 /\ Len(came'[1]) = n1 + 1
      BY <1>1, <1>8 DEF Sides
    <2>3. MaxCaptured \in Nat /\ n0 \in Nat /\ n1 \in Nat
      BY <1>1, UserBridgeAssumption
    <2> QED BY <2>1, <2>2, <2>3, OneMore
  <1>10. ASSUME NEW t \in Sides PROVE Len(tried[t]) <= Len(came'[t])
    <2>1. Len(tried[t]) <= Len(came[t]) /\ Len(tried[t]) \in Nat
      BY DEF HistoriesFit
    <2> QED BY <1>6, <1>8, <2>1
  <1> QED BY <1>3, <1>7, <1>9, <1>10 DEF HistoriesFit

(* What a thread takes from its adapter waits there no more.                *)
LEMMA NextFits ==
    ASSUME HistoriesFit, NEW t \in Sides, NextEx(t)
    PROVE  HistoriesFit' /\ (captured[t] # <<>> => Head(captured[t]) \in Captured)
  <1>1. captured[t] \in Seq(Captured)
    BY DEF HistoriesFit
  <1>2. captured[t] # <<>> => Head(captured[t]) \in Captured /\ Tail(captured[t]) \in Seq(Captured)
    BY <1>1
  <1>3. captured' = captured \/ (captured[t] # <<>>
                                 /\ captured' = [captured EXCEPT ![t] = Tail(captured[t])])
    BY DEF NextEx
  <1>4. captured' \in [Sides -> Seq(Captured)]
    BY <1>2, <1>3 DEF HistoriesFit
  <1>5. UNCHANGED <<came, went, tried>>
    BY DEF NextEx
  <1> QED BY <1>2, <1>4, <1>5 DEF HistoriesFit

(* The packet in hand had come in and was not tried yet.                    *)
LEMMA SendFits ==
    ASSUME BridgeTyped, ThreadsInv, HistoriesFit, NEW t \in Sides, PacketFits(t), SendOn(t)
    PROVE  HistoriesFit'
  <1>1. /\ Running /\ thread[t].pc = "send" /\ UNCHANGED <<captured, came>>
    BY DEF SendOn, At, CaptureLocal
  <1>2. PICK p \in Captured : p = thread[t].pkt
    BY <1>1 DEF PacketFits, Carries
  <1>3. /\ tried[t] \in Seq(Captured) /\ captured[t] \in Seq(Captured)
        /\ Other(t) \in Sides /\ went[Other(t)] \in Seq(Captured)
    BY DEF HistoriesFit, Other, Sides
  <1>4. tried' = [tried EXCEPT ![t] = Append(@, p)]
    BY <1>2 DEF SendOn
  <1>5. went' = went \/ went' = [went EXCEPT ![Other(t)] = Append(@, p)]
    BY <1>2 DEF SendOn
  <1>6. /\ Append(tried[t], p) \in Seq(Captured) /\ Append(went[Other(t)], p) \in Seq(Captured)
        /\ Len(Append(tried[t], p)) = Len(tried[t]) + 1 /\ Len(tried[t]) \in Nat
        /\ Len(Append(went[Other(t)], p)) = Len(went[Other(t)]) + 1 /\ Len(went[Other(t)]) \in Nat
    BY <1>3
  <1>7. /\ tried' \in [Sides -> Seq(Captured)] /\ went' \in [Sides -> Seq(Captured)]
    BY <1>4, <1>5, <1>6 DEF HistoriesFit
  <1>8. /\ Len(tried'[t]) = Len(tried[t]) + 1
        /\ \A u \in Sides : u # t => tried'[u] = tried[u]
    BY <1>4, <1>6 DEF HistoriesFit
  <1>9. /\ Len(went'[Other(t)]) <= Len(went[Other(t)]) + 1
        /\ \A u \in Sides : u # t => went'[Other(u)] = went[Other(u)]
    <2>1. \A u \in Sides : u # t => Other(u) # Other(t) /\ Other(u) \in Sides
      BY DEF Other, Sides
    <2>2. CASE went' = went
      BY <1>6, <2>2
    <2>3. CASE went' = [went EXCEPT ![Other(t)] = Append(@, p)]
      BY <1>3, <1>6, <2>1, <2>3 DEF HistoriesFit
    <2> QED BY <1>5, <2>2, <2>3
  <1>10. Len(tried[t]) + 1 <= Len(came[t])
    <2>1. InHand(t) = <<p>> /\ thread[t] # Idle
      BY <1>1, <1>2 DEF InHand, Idle
    <2>2. came[t] = tried[t] \o <<p>> \o captured[t]
      BY <1>1, <2>1 DEF ThreadsInv, ThreadInv, Kept
    <2>3. PICK one \in Seq(Captured) : one = <<p>> /\ Len(one) = 1
      <3>1. <<p>> \in Seq(Captured) /\ Len(<<p>>) = 1
        OBVIOUS
      <3> QED BY <3>1
    <2>4. Len(tried[t] \o one \o captured[t]) = Len(tried[t]) + 1 + Len(captured[t])
      BY <1>3, <2>3
    <2>5. Len(captured[t]) \in Nat
      BY <1>3
    <2>6. Len(came[t]) = Len(tried[t]) + 1 + Len(captured[t])
      BY <2>2, <2>3, <2>4
    <2>7. Len(tried[t]) \in Nat
      BY <1>6
    <2>8. PICK n \in Nat, m \in Nat : n = Len(tried[t]) /\ m = Len(captured[t])
      BY <2>5, <2>7
    <2>9. n + 1 <= n + 1 + m
      BY OneAndRest
    <2>10. Len(came[t]) = n + 1 + m
      BY <2>6, <2>8
    <2> QED BY <2>8, <2>9, <2>10
  <1>11. ASSUME NEW u \in Sides
         PROVE  Len(tried'[u]) <= Len(came[u]) /\ Len(went'[Other(u)]) <= Len(tried'[u])
    <2>1. Len(tried[u]) <= Len(came[u]) /\ Len(went[Other(u)]) <= Len(tried[u])
      BY DEF HistoriesFit
    <2>2. CASE u = t
      <3>1. went'[Other(t)] \in Seq(Captured)
        BY <1>3, <1>7
      <3>2. Len(went'[Other(t)]) \in Nat
        BY <3>1
      <3> QED BY <1>6, <1>8, <1>9, <1>10, <2>1, <2>2, <3>2
    <2>3. CASE u # t
      BY <1>8, <1>9, <2>1, <2>3
    <2> QED BY <2>2, <2>3
  <1> QED BY <1>1, <1>7, <1>11 DEF HistoriesFit

(* A thread that has nothing new in hand.                                   *)
LEMMA PacketStays ==
    ASSUME NEW t \in Sides, PacketFits(t), thread'[t].pkt = thread[t].pkt,
           Carries(thread'[t].pc) => Carries(thread[t].pc)
    PROVE  PacketFits(t)'
  BY DEF PacketFits

(* A thread's step keeps within the bounds.                                 *)
LEMMA ThreadStepFits ==
    ASSUME BridgeTyped, ThreadsInv, Bounded, NEW t \in Sides, Forward(t)
    PROVE  Bounded'
  <1>1. HistoriesFit /\ (\A u \in Sides : PacketFits(u)) /\ FlagsTyped
    BY DEF Bounded
  <1>2. FlagsTyped'
    BY <1>1 DEF FlagsTyped, Forward, LoopTestKill, NextEx, NextExFails, Enter, Leave, SendOn
  <1>3. HistoriesFit'
    <2>1. CASE NextEx(t)
      BY <1>1, <2>1, NextFits
    <2>2. CASE SendOn(t)
      BY <1>1, <2>2, SendFits
    <2>3. CASE LoopTestKill(t) \/ NextExFails(t) \/ Enter(t) \/ Leave(t)
      BY <1>1, <2>3 DEF HistoriesFit, LoopTestKill, NextExFails, Enter, Leave
    <2> QED BY <2>1, <2>2, <2>3 DEF Forward
  <1>4. \A u \in Sides : u # t => thread'[u] = thread[u]
    BY DEF Forward, LoopTestKill, NextEx, NextExFails, Enter, Leave, SendOn, Goto, BridgeTyped
  <1>5. PacketFits(t)'
    <2>1. CASE LoopTestKill(t) \/ NextExFails(t) \/ SendOn(t)
      <3>1. thread'[t].pkt = thread[t].pkt /\ ~Carries(thread'[t].pc)
        <4>1. CASE LoopTestKill(t)
          BY <4>1 DEF LoopTestKill, Goto, BridgeTyped, Carries
        <4>2. CASE NextExFails(t)
          BY <4>2 DEF NextExFails, BridgeTyped, Carries
        <4>3. CASE SendOn(t)
          <5>1. \/ thread' = [thread EXCEPT ![t].pc = "test", ![t].n_fwd = @ + 1]
                \/ thread' = [thread EXCEPT ![t].pc = "error"]
            BY <4>3 DEF SendOn, Goto
          <5>2. CASE thread' = [thread EXCEPT ![t].pc = "error"]
            BY <5>2 DEF BridgeTyped, Carries
          <5>3. CASE thread' = [thread EXCEPT ![t].pc = "test", ![t].n_fwd = @ + 1]
            BY <5>3 DEF BridgeTyped, Carries
          <5> QED BY <5>1, <5>2, <5>3
        <4> QED BY <2>1, <4>1, <4>2, <4>3
      <3> QED BY <1>1, <3>1, PacketStays
    <2>2. CASE NextEx(t)
      <3>1. CASE captured[t] = <<>>
        <4>1. thread'[t].pkt = thread[t].pkt /\ thread'[t].pc = "test"
          BY <2>2, <3>1 DEF NextEx, Goto, BridgeTyped
        <4> QED BY <1>1, <4>1, PacketStays DEF Carries
      <3>2. CASE captured[t] # <<>>
        <4>1. thread'[t].pkt = Head(captured[t])
          BY <2>2, <3>2 DEF NextEx, BridgeTyped
        <4> QED BY <1>1, <2>2, <3>2, <4>1, NextFits DEF PacketFits
      <3> QED BY <3>1, <3>2
    <2>3. CASE Enter(t)
      <3>1. PICK place \in Printing : At(t, place) /\ Goto(t, Within(place))
        BY <2>3 DEF Enter
      <3>2. thread'[t].pkt = thread[t].pkt /\ thread'[t].pc = Within(place)
        BY <3>1 DEF Goto, BridgeTyped
      <3>3. Carries(Within(place)) => place = "print"
        BY <3>1 DEF Carries, Within, Printing
      <3> QED BY <1>1, <3>1, <3>2, <3>3, PacketStays DEF At, Carries
    <2>4. CASE Leave(t)
      <3>1. \/ At(t, "in_print") /\ Goto(t, "send")
            \/ Goto(t, "test")
            \/ Goto(t, "ended")
        BY <2>4 DEF Leave
      <3>2. /\ thread'[t].pkt = thread[t].pkt
            /\ thread'[t].pc = "send" => thread[t].pc = "in_print"
            /\ thread'[t].pc \in {"send", "test", "ended"}
        BY <3>1 DEF Goto, At, BridgeTyped
      <3> QED BY <1>1, <3>2, PacketStays DEF Carries
    <2> QED BY <2>1, <2>2, <2>3, <2>4 DEF Forward
  <1>6. ASSUME NEW u \in Sides PROVE PacketFits(u)'
    <2>1. CASE u = t
      BY <1>5, <2>1
    <2>2. CASE u # t
      BY <1>1, <1>4, <2>2, PacketStays
    <2> QED BY <2>1, <2>2
  <1> QED BY <1>2, <1>3, <1>6 DEF Bounded

(* So does every step, main's and the other programs' included.             *)
LEMMA BoundedKeeps ==
    ASSUME BridgeInv, Bounded, [Next]_winVars
    PROVE  Bounded'
  <1>1. HistoriesFit /\ (\A t \in Sides : PacketFits(t)) /\ FlagsTyped
    BY DEF Bounded
  <1>2. ASSUME UNCHANGED <<captured, came, went, tried>>, FlagsTyped',
               \A t \in Sides : /\ thread'[t].pkt \in {thread[t].pkt, None}
                                /\ Carries(thread'[t].pc) => thread'[t] = thread[t]
        PROVE  Bounded'
    <2>1. HistoriesFit'
      BY <1>1, <1>2 DEF HistoriesFit
    <2>2. \A t \in Sides : PacketFits(t)'
      BY <1>1, <1>2 DEF PacketFits
    <2> QED BY <1>2, <2>1, <2>2 DEF Bounded
  <1>3. CASE UNCHANGED bridgeVars
    <2>1. UNCHANGED <<captured, came, went, tried, thread, kill_forwaders, handler>>
      BY <1>3 DEF bridgeVars, threadVars
    <2> QED BY <1>1, <1>2, <2>1 DEF FlagsTyped
  <1>4. CASE IsBridge /\ BridgeNext
    <2>1. BridgeTyped /\ ThreadsInv
      BY <1>4 DEF BridgeInv
    <2>2. CASE BridgeDoes
      <3>1. /\ UNCHANGED <<captured, came, went, tried>> /\ FlagsTyped'
        BY <1>1, <2>2 DEF BridgeDoes, FlagsTyped
      <3>2. thread' = thread \/ \E t \in Sides : thread' = [thread EXCEPT ![t].pc = "test"]
        BY <2>2 DEF BridgeDoes, Sides
      <3>3. \A t \in Sides : /\ thread'[t].pkt = thread[t].pkt
                             /\ thread'[t] = thread[t] \/ thread'[t].pc = "test"
        <4>1. ASSUME NEW u \in Sides, thread' = [thread EXCEPT ![u].pc = "test"], NEW t \in Sides
              PROVE  /\ thread'[t].pkt = thread[t].pkt
                     /\ thread'[t] = thread[t] \/ thread'[t].pc = "test"
          <5>1. "test" \in Points
            BY DEF Points
          <5>2. CASE t = u
            BY <2>1, <4>1, <5>1, <5>2, GoesTo
          <5>3. CASE t # u
            <6>1. thread'[t] = thread[t]
              BY <2>1, <4>1, <5>1, <5>3, GoesTo
            <6> QED BY <6>1
          <5> QED BY <5>2, <5>3
        <4> QED BY <3>2, <4>1
      <3> QED BY <1>2, <3>1, <3>3 DEF Carries
    <2>3. ASSUME BridgeFails \/ (\E n \in DOMAIN UndoOrder : TakeBack(n)) PROVE Bounded'
      <3>1. UNCHANGED <<captured, came, went, tried, kill_forwaders, handler>>
        BY <2>3 DEF BridgeFails, TakeBack, threadVars
      <3>2. \A t \in Sides : thread'[t] = Idle \/ thread'[t] = thread[t]
        <4>1. thread' = thread \/ thread' = [thread EXCEPT ![0] = Idle]
          BY <2>3 DEF BridgeFails, TakeBack, threadVars
        <4> QED BY <2>1, <4>1 DEF BridgeTyped, Sides
      <3>3. Idle.pkt = None /\ ~Carries(Idle.pc)
        BY DEF Idle, Carries
      <3> QED BY <1>1, <1>2, <3>1, <3>2, <3>3 DEF FlagsTyped
    <2>4. CASE CtrlC
      BY <1>1, <1>2, <2>4 DEF CtrlC, FlagsTyped
    <2>5. CASE \/ CtrlCUnhandled \/ WaitAll \/ WaitTimeout
               \/ (Awake /\ GoDown /\ UNCHANGED bridgeVars) \/ FreedAgain
      BY <1>3, <2>5 DEF CtrlCUnhandled, WaitAll, WaitTimeout, Exit, FreedAgain
    <2>6. ASSUME NEW t \in Sides, Come(t) PROVE Bounded'
      <3>1. HistoriesFit'
        BY <1>1, <2>1, <2>6, ComeFits
      <3>2. UNCHANGED <<thread, kill_forwaders, handler>>
        BY <2>6 DEF Come
      <3> QED BY <1>1, <3>1, <3>2 DEF Bounded, PacketFits, FlagsTyped
    <2>7. ASSUME NEW t \in Sides, Forward(t) PROVE Bounded'
      BY <2>1, <2>7, ThreadStepFits
    <2> QED BY <1>4, <2>2, <2>3, <2>4, <2>5, <2>6, <2>7 DEF BridgeNext
  <1>5. UNCHANGED bridgeVars \/ (IsBridge /\ BridgeNext)
    BY DEF Next, OfPcap, OfPacket, OfBridge, BridgeCalls, IsBridge, winVars
  <1> QED BY <1>3, <1>4, <1>5

(* Nothing has come in at the start.                                        *)
LEMMA InitBounded == Init => Bounded
  <1> SUFFICES ASSUME Init PROVE Bounded
    OBVIOUS
  <1>1. /\ thread = [t \in Sides |-> Idle] /\ kill_forwaders = FALSE /\ handler = "default"
        /\ captured = [a \in Sides |-> <<>>] /\ came = [a \in Sides |-> <<>>]
        /\ went = [a \in Sides |-> <<>>] /\ tried = [a \in Sides |-> <<>>]
    BY DEF Init, BridgeInit, BridgeIdle
  <1>2. HistoriesFit
    <2>1. <<>> \in Seq(Captured) /\ Len(<<>>) = 0 /\ MaxCaptured >= 0 /\ 0 + 0 = 0
      BY UserBridgeAssumption
    <2>2. \A t \in Sides : Other(t) \in Sides
      BY DEF Other, Sides
    <2>3. 0 \in Sides /\ 1 \in Sides
      BY DEF Sides
    <2> QED BY <1>1, <2>1, <2>2, <2>3 DEF HistoriesFit
  <1>3. \A t \in Sides : PacketFits(t)
    BY <1>1 DEF PacketFits, Idle, Carries
  <1> QED BY <1>1, <1>2, <1>3 DEF Bounded, FlagsTyped

(* Within the bounds, the variables hold values of their types.             *)
LEMMA BoundedIsTyped == BridgeInv /\ Bounded => BridgeTypeOK
  <1> SUFFICES ASSUME BridgeInv, Bounded PROVE BridgeTypeOK
    OBVIOUS
  <1>1. HistoriesFit /\ (\A t \in Sides : PacketFits(t)) /\ FlagsTyped
    BY DEF Bounded
  <1>2. ASSUME NEW t \in Sides
        PROVE  Len(went[Other(t)]) \in 0..MaxCaptured
    <2>1. /\ Len(came[0]) + Len(came[1]) <= MaxCaptured
          /\ Len(tried[t]) <= Len(came[t]) /\ Len(went[Other(t)]) <= Len(tried[t])
      BY <1>1 DEF HistoriesFit
    <2>2. came[0] \in Seq(Captured) /\ came[1] \in Seq(Captured) /\ tried[t] \in Seq(Captured)
          /\ went[Other(t)] \in Seq(Captured)
      BY <1>1 DEF HistoriesFit, Sides, Other
    <2>3. /\ Len(came[0]) \in Nat /\ Len(came[1]) \in Nat /\ Len(tried[t]) \in Nat
          /\ Len(went[Other(t)]) \in Nat
      BY <2>2
    <2>4. MaxCaptured \in Nat
      BY UserBridgeAssumption
    <2>5. Len(came[t]) <= MaxCaptured /\ Len(came[t]) \in Nat
      <3>1. PICK n0 \in Nat, n1 \in Nat : n0 = Len(came[0]) /\ n1 = Len(came[1])
        BY <2>3
      <3>2. n0 + n1 <= MaxCaptured
        BY <2>1, <3>1
      <3>3. Len(came[t]) = n0 \/ Len(came[t]) = n1
        BY <3>1 DEF Sides
      <3> QED BY <2>4, <3>2, <3>3
    <2> QED BY <2>1, <2>3, <2>4, <2>5
  <1>3. /\ thread \in [Sides -> [pc : Points, pkt : Nat, n_fwd : Nat, res : {0, -1}]]
        /\ print_cs \in Sides \cup {Nobody} /\ console \in [Sides -> Int]
    <2>1. CASE IsBridge
      BY <2>1 DEF BridgeInv, BridgeTyped
    <2>2. CASE ~IsBridge
      <3>1. Idle \in [pc : Points, pkt : Nat, n_fwd : Nat, res : {0, -1}]
        BY DEF Idle, Points, None
      <3> QED BY <2>2, <3>1 DEF BridgeInv, BridgeIdle, Unreported
    <2> QED BY <2>1, <2>2
  <1>4. ASSUME NEW t \in Sides
        PROVE  thread[t].n_fwd \in 0..MaxCaptured /\ console[t] \in Unreported..MaxCaptured
    <2>1. 0 \in 0..MaxCaptured /\ Unreported \in Unreported..MaxCaptured
          /\ \A n \in 0..MaxCaptured : n \in Unreported..MaxCaptured
      BY UserBridgeAssumption DEF Unreported
    <2>2. Idle.n_fwd = 0
      BY DEF Idle
    <2>3. CASE IsBridge
      <3>1. thread[t] # Idle => thread[t].n_fwd = Len(went[Other(t)])
        BY <2>3 DEF BridgeInv, ThreadsInv, ThreadInv, Kept
      <3>2. console[t] # Unreported => console[t] = Len(went[Other(t)])
        BY <2>3 DEF BridgeInv, ThreadsInv, ConsoleInv
      <3> QED BY <1>2, <2>1, <2>2, <3>1, <3>2
    <2>4. CASE ~IsBridge
      <3>1. thread[t] = Idle /\ console[t] = Unreported
        BY <2>4 DEF BridgeInv, BridgeIdle
      <3> QED BY <2>1, <2>2, <3>1
    <2> QED BY <2>3, <2>4
  <1> DEFINE Thread == [pc : Points, pkt : Captured \cup {None}, n_fwd : 0..MaxCaptured,
                        res : {0, -1}]
  <1>5. ASSUME NEW t \in Sides PROVE thread[t] \in Thread
    <2>1. thread[t] \in [pc : Points, pkt : Nat, n_fwd : Nat, res : {0, -1}]
      BY <1>3
    <2>2. thread[t].pkt \in Captured \cup {None} /\ thread[t].n_fwd \in 0..MaxCaptured
      BY <1>1, <1>4 DEF PacketFits
    <2> QED BY <2>1, <2>2
  <1>6. thread \in [Sides -> Thread]
    <2> HIDE DEF Thread
    <2> QED BY <1>3, <1>5
  <1>7. console \in [Sides -> Unreported..MaxCaptured]
    BY <1>3, <1>4
  <1>8. {captured, came, went, tried} \subseteq [Sides -> Seq(Captured)]
    BY <1>1 DEF HistoriesFit
  <1>9. undo \subseteq CleanAll \cup {"thread0"}
    BY DEF BridgeInv, MainInv, BridgeIdle
  <1> QED BY <1>1, <1>3, <1>6, <1>7, <1>8, <1>9 DEF BridgeTypeOK, Points, Captured, FlagsTyped

(* Whatever program runs and whatever happens to it, the variables hold     *)
(* values of their types: main is at one of its calls, what was handled was *)
(* captured or read, no more is transmitted than was queued, and UserBridge *)
(* sends no more than came in (the programs' mains, handlers and threads).  *)
THEOREM WinPcapTyping == Spec => []TypeOK
  <1>1. ExamplesInv /\ BridgeInv /\ Bounded => TypeOK
    <2>1. ExamplesInv => CallsTypeOK /\ PcapTypeOK
      BY DEF ExamplesInv, MainIsSomewhere, ExamplesTyped, NotesTyped, PcapTypeOK
    <2> QED BY <2>1, BoundedIsTyped DEF TypeOK
  <1>2. Spec => []Bounded
    <2>1. BridgeInv /\ Bounded /\ [Next]_winVars => Bounded'
      BY BoundedKeeps
    <2> QED BY <2>1, InitBounded, AlwaysBridge, PTL DEF Spec
  <1> QED BY <1>1, <1>2, AlwaysExamples, AlwaysBridge, PTL

-----------------------------------------------------------------------------
(* The blocks of packets.                                                  *)

(* A number rounded up to a word is the number and what it takes to the     *)
(* next word, less than a word.                                             *)
LEMMA RoundedUp ==
    ASSUME NEW e \in Nat
    PROVE  WordAlign(e) = e + ((0 - e) % Alignment) /\ WordAlign(e) \in Nat /\ WordAlign(e) >= e
  <1>1. Alignment \in Nat \ {0}
    BY PacketExamplesAssumption
  <1>2. PICK a \in Nat \ {0} : a = Alignment
    BY <1>1
  <1> DEFINE q == (e + a - 1) \div a
             r == (e + a - 1) % a
  <1>3. q \in Int /\ r \in 0..a - 1 /\ e + a - 1 = a * q + r
    BY <1>2
  <1>4. PICK qq \in Int, rr \in 0..a - 1 : qq = q /\ rr = r /\ e + a - 1 = a * qq + rr
    BY <1>3
  <1>5. WordAlign(e) = qq * a
    BY <1>2, <1>4 DEF WordAlign
  <1>6. 0 - e = a * (0 - qq) + (a - 1 - rr)
    BY <1>4
  <1>7. (0 - e) % a = a - 1 - rr
    <2>1. PICK x \in Int : x = 0 - e
      OBVIOUS
    <2>2. x = a * (x \div a) + (x % a) /\ x % a \in 0..a - 1 /\ x \div a \in Int
      OBVIOUS
    <2>3. PICK d \in Int, m \in 0..a - 1 : d = x \div a /\ m = x % a /\ x = a * d + m
      BY <2>2
    <2>4. PICK k \in Int : k = d + qq
      OBVIOUS
    <2>5. a * k = (a - 1 - rr) - m
      BY <1>6, <2>1, <2>3, <2>4
    <2>6. k >= 1 => a * k >= a
      OBVIOUS
    <2>7. k <= -1 => a * k <= -a
      OBVIOUS
    <2>8. ~(k >= 1) /\ ~(k <= -1)
      BY <2>5, <2>6, <2>7
    <2>9. k = 0
      BY <2>8
    <2>10. a * k = 0
      BY <2>9
    <2>11. m = a - 1 - rr
      BY <2>5, <2>10
    <2> QED BY <2>1, <2>3, <2>11
  <1> QED BY <1>2, <1>4, <1>5, <1>7

(* Where the headers of a block are: the first at its beginning, each other *)
(* at the next word behind the packet before it.                            *)
LEMMA Headers ==
    ASSUME NEW lens \in Seq(CapLens)
    PROVE  /\ HeaderAt(lens, 1) = 0
           /\ \A n \in 1..Len(lens) : /\ HeaderAt(lens, n) \in Nat
                                      /\ HeaderAt(lens, n + 1)
                                           = WordAlign(HeaderAt(lens, n) + HdrLen + lens[n])
                                      /\ HeaderAt(lens, n) + HdrLen + lens[n] <= HeaderAt(lens, n + 1)
                                      /\ HeaderAt(lens, n + 1) \in Nat
  <1> DEFINE L == Len(lens)
             G == [x \in Nat \X (1..L) |-> WordAlign(x[1] + HdrLen + lens[x[2]])]
  <1>1. L \in Nat /\ HdrLen \in Nat /\ \A i \in 1..L : lens[i] \in Nat
    <2>1. \A i \in 1..L : lens[i] \in CapLens
      OBVIOUS
    <2>2. CapLens \subseteq Nat /\ HdrLen \in Nat
      BY PacketExamplesAssumption
    <2> HIDE DEF L
    <2>3. \A i \in 1..L : lens[i] \in Nat
      BY <2>1, <2>2
    <2> QED BY <2>2, <2>3 DEF L
  <1>2. G \in [Nat \X (1..L) -> Nat]
    <2>1. ASSUME NEW x \in Nat \X (1..L) PROVE WordAlign(x[1] + HdrLen + lens[x[2]]) \in Nat
      <3>1. x[1] \in Nat /\ x[2] \in 1..L
        OBVIOUS
      <3>2. lens[x[2]] \in Nat
        BY <1>1, <3>1
      <3>3. x[1] + HdrLen + lens[x[2]] \in Nat
        BY <1>1, <3>1, <3>2
      <3> QED BY <3>3, RoundedUp
    <2> QED BY <2>1
  <1> DEFINE next(end) == end + ((0 - end) % Alignment)
             heads(f) == [i \in 0..L |-> IF i = 0 THEN 0 ELSE next(f[i - 1] + HdrLen + lens[i])]
             at == CHOOSE f : f = heads(f)
  <1>3. \E f : f = heads(f)
    <2> HIDE DEF G, L
    <2>1. PICK f \in [0..L -> Nat] : f[0] = 0 /\ \A i \in 1..L : f[i] = G[<<f[i - 1], i>>]
      <3>1. L \in Nat /\ 0 \in Nat
        BY <1>1
      <3>2. PICK f : Iterates(f, L, Nat, 0, G)
        BY <1>2, <3>1, RecursiveExists
      <3> QED BY <3>2 DEF Iterates
    <2>2. ASSUME NEW i \in 0..L, i # 0 PROVE f[i] = next(f[i - 1] + HdrLen + lens[i])
      <3>1. i \in 1..L /\ i - 1 \in 0..L
        BY <1>1, <2>2
      <3>2. f[i - 1] \in Nat
        BY <2>1, <3>1
      <3>3. f[i - 1] + HdrLen + lens[i] \in Nat
        BY <1>1, <3>1, <3>2
      <3>4. f[i] = WordAlign(f[i - 1] + HdrLen + lens[i])
        BY <2>1, <3>1, <3>2 DEF G
      <3> QED BY <3>3, <3>4, RoundedUp
    <2>3. f = [i \in 0..L |-> f[i]]
      OBVIOUS
    <2>4. \A i \in 0..L : f[i] = IF i = 0 THEN 0 ELSE next(f[i - 1] + HdrLen + lens[i])
      BY <2>1, <2>2
    <2> HIDE DEF next
    <2> QED BY <2>3, <2>4
  <1> HIDE DEF heads
  <1>4. at = heads(at)
    BY <1>3
  <1>5. \A n : HeaderAt(lens, n) = at[n - 1]
    BY DEF HeaderAt, heads
  <1> HIDE DEF at, L
  <1>6. at[0] = 0
    <2>1. heads(at)[0] = 0
      BY <1>1 DEF heads
    <2> QED BY <1>4, <2>1
  <1>7. ASSUME NEW i \in 1..L PROVE at[i] = next(at[i - 1] + HdrLen + lens[i])
    <2>1. heads(at)[i] = next(at[i - 1] + HdrLen + lens[i])
      BY <1>1 DEF heads
    <2> QED BY <1>4, <2>1
  <1>8. ASSUME NEW n \in 1..L, at[n - 1] \in Nat
        PROVE  /\ at[n] = WordAlign(at[n - 1] + HdrLen + lens[n]) /\ at[n] \in Nat
               /\ at[n - 1] + HdrLen + lens[n] <= at[n]
    <2>1. at[n - 1] + HdrLen + lens[n] \in Nat
      BY <1>1, <1>8
    <2> HIDE DEF next
    <2>2. WordAlign(at[n - 1] + HdrLen + lens[n]) = next(at[n - 1] + HdrLen + lens[n])
      BY <2>1, RoundedUp DEF next
    <2> QED BY <1>7, <2>1, <2>2, RoundedUp
  <1>9. ASSUME NEW n \in 0..L PROVE at[n] \in Nat
    <2> DEFINE Bad == {i \in 0..L : at[i] \notin Nat}
    <2>1. SUFFICES ASSUME Bad # {} PROVE FALSE
      OBVIOUS
    <2>2. PICK m \in Bad : \A i \in Bad : m <= i
      <3>1. Bad \subseteq Nat
        BY <1>1
      <3> HIDE DEF Bad
      <3> QED BY <2>1, <3>1, LeastOf
    <2>3. m # 0
      BY <1>6, <2>2
    <2>4. m \in 1..L /\ m - 1 \in 0..L /\ m - 1 \notin Bad
      BY <1>1, <2>2, <2>3
    <2> QED BY <1>8, <2>2, <2>4
  <1>10. ASSUME NEW n \in 1..L
         PROVE  /\ HeaderAt(lens, n) = at[n - 1] /\ at[n - 1] \in Nat
                /\ HeaderAt(lens, n + 1) = at[n]
    <2>1. n - 1 \in 0..L /\ (n + 1) - 1 = n
      BY <1>1
    <2> QED BY <1>5, <1>9, <2>1
  <1>11. HeaderAt(lens, 1) = 0
    <2>1. 1 - 1 = 0
      OBVIOUS
    <2> QED BY <1>5, <1>6, <2>1
  <1> QED BY <1>8, <1>10, <1>11 DEF L

(* Each header is behind all those before it.                               *)
LEMMA HeadersAscend ==
    ASSUME NEW lens \in Seq(CapLens)
    PROVE  \A n \in 1..Len(lens) + 1 : /\ HeaderAt(lens, n) \in Nat
                                       /\ \A m \in 1..n - 1 : HeaderAt(lens, m) < HeaderAt(lens, n)
  <1> DEFINE L == Len(lens)
             H(n) == HeaderAt(lens, n)
             Good(n) == H(n) \in Nat /\ \A m \in 1..n - 1 : H(m) < H(n)
             Bad == {n \in 1..L + 1 : ~Good(n)}
  <1>1. L \in Nat /\ HdrLen \in Nat /\ HdrLen > 0 /\ \A i \in 1..L : lens[i] \in Nat
    <2>1. \A i \in 1..L : lens[i] \in CapLens
      OBVIOUS
    <2>2. CapLens \subseteq Nat /\ HdrLen \in Nat \ {0}
      BY PacketExamplesAssumption
    <2> HIDE DEF L
    <2>3. \A i \in 1..L : lens[i] \in Nat
      BY <2>1, <2>2
    <2> QED BY <2>2, <2>3 DEF L
  <1>2. H(1) = 0 /\ \A n \in 1..L : /\ H(n) \in Nat /\ H(n + 1) \in Nat
                                    /\ H(n) + HdrLen + lens[n] <= H(n + 1)
    BY Headers
  <1> HIDE DEF L, H
  <1>3. SUFFICES ASSUME Bad # {} PROVE FALSE
    BY DEF L, H
  <1>4. PICK n \in Bad : \A k \in Bad : n <= k
    <2>1. Bad \subseteq Nat
      BY <1>1
    <2> HIDE DEF Bad
    <2> QED BY <1>3, <2>1, LeastOf
  <1>5. n # 1
    BY <1>2, <1>4
  <1>6. n - 1 \in 1..L /\ n - 1 \in 1..L + 1 /\ n - 1 \notin Bad /\ (n - 1) + 1 = n
    BY <1>1, <1>4, <1>5
  <1>7. H(n - 1) \in Nat /\ H(n) \in Nat /\ H(n - 1) < H(n)
    <2>1. H(n - 1) + HdrLen + lens[n - 1] <= H((n - 1) + 1) /\ H(n - 1) \in Nat /\ H((n - 1) + 1) \in Nat
      BY <1>2, <1>6
    <2> QED BY <1>1, <1>6, <2>1
  <1>8. ASSUME NEW m \in 1..n - 1 PROVE H(m) < H(n)
    <2>1. CASE m = n - 1
      BY <1>7, <2>1
    <2>2. CASE m # n - 1
      <3>1. m \in 1..(n - 1) - 1 /\ m \in 1..L
        <4>1. n \in Int /\ m \in Int
          BY <1>4
        <4> QED BY <1>1, <1>4, <1>6, <2>2, <4>1
      <3>2. H(m) < H(n - 1) /\ H(m) \in Nat
        BY <1>2, <1>6, <3>1
      <3> QED BY <1>7, <3>2
    <2> QED BY <2>1, <2>2
  <1> QED BY <1>4, <1>7, <1>8

-----------------------------------------------------------------------------
(* The list of adapters.                                                   *)

Text == Chars \cup {Nul}

NulsIn(u) == {i \in 1..Len(u) : u[i] = Nul}
Pieces(u, ends) ==
    [i \in DOMAIN ends |-> SubSeq(u, IF i = 1 THEN 1 ELSE ends[i - 1] + 1, ends[i] - 1)]

(* What comes behind a text does not change its parts.                      *)
LEMMA PartOfBoth ==
    ASSUME NEW S, NEW s \in Seq(S), NEW t \in Seq(S), NEW m \in Nat \ {0}, NEW n \in Int, n <= Len(s)
    PROVE  SubSeq(s \o t, m, n) = SubSeq(s, m, n)
  <1>1. CASE n < m
    BY <1>1, SubSeqEmpty
  <1>2. CASE m <= n
    <2>1. m \in 1..Len(s) /\ n \in 1..Len(s)
      BY <1>2
    <2> QED BY <2>1, SubSeqOfConcat1
  <1> QED BY <1>1, <1>2

(* Nor does it change the pieces it is cut into.                            *)
LEMMA PiecesOfBoth ==
    ASSUME NEW S, NEW s \in Seq(S), NEW t \in Seq(S), NEW ends \in Seq(1..Len(s))
    PROVE  Pieces(s \o t, ends) = Pieces(s, ends)
  <1>1. ASSUME NEW i \in DOMAIN ends
        PROVE  SubSeq(s \o t, IF i = 1 THEN 1 ELSE ends[i - 1] + 1, ends[i] - 1)
                 = SubSeq(s, IF i = 1 THEN 1 ELSE ends[i - 1] + 1, ends[i] - 1)
    <2> DEFINE m == IF i = 1 THEN 1 ELSE ends[i - 1] + 1
    <2>1. i \in 1..Len(ends) /\ (i # 1 => i - 1 \in 1..Len(ends))
      OBVIOUS
    <2>2. ends[i] \in 1..Len(s) /\ (i # 1 => ends[i - 1] \in 1..Len(s))
      BY <2>1
    <2>3. m \in Nat \ {0} /\ ends[i] - 1 \in Int /\ ends[i] - 1 <= Len(s)
      BY <2>2
    <2> HIDE DEF m
    <2>4. SubSeq(s \o t, m, ends[i] - 1) = SubSeq(s, m, ends[i] - 1)
      BY <2>3, PartOfBoth
    <2> QED BY <2>4 DEF m
  <1> QED BY <1>1 DEF Pieces

(* The last end of a text that ends with Nul is its last place.             *)
LEMMA LastEnd ==
    ASSUME NEW u \in Seq(Text), u # <<>>, u[Len(u)] = Nul
    PROVE  LET ends == InOrderOf(NulsIn(u))
           IN  Len(ends) \in Nat \ {0} /\ ends[Len(ends)] = Len(u)
  <1> DEFINE S == NulsIn(u) \ {Len(u)}
  <1>1. Len(u) \in Nat \ {0} /\ Len(u) - 1 \in Nat /\ (Len(u) - 1) + 1 = Len(u)
    OBVIOUS
  <1>2. S \in SUBSET (1..Len(u) - 1) /\ NulsIn(u) = S \cup {(Len(u) - 1) + 1}
    BY <1>1 DEF NulsIn
  <1>3. /\ InOrderOf(S) \in Seq(1..Len(u) - 1)
        /\ InOrderOf(NulsIn(u)) = Append(InOrderOf(S), (Len(u) - 1) + 1)
    <2> HIDE DEF S
    <2> QED BY <1>1, <1>2, OrderedType, OrderedAdded
  <1> HIDE DEF S
  <1> QED BY <1>1, <1>3

(* A name put behind a text, and a Nul behind the name, is one piece more.  *)
LEMMA NameAdded ==
    ASSUME NEW u \in Seq(Text), u # <<>> => u[Len(u)] = Nul,
           NEW name \in Seq(Chars)
    PROVE  LET v == u \o Append(name, Nul)
           IN  Pieces(v, InOrderOf(NulsIn(v))) = Append(Pieces(u, InOrderOf(NulsIn(u))), name)
  <1> DEFINE t == Append(name, Nul)
             v == u \o t
             U == NulsIn(u)
             ends == InOrderOf(U)
             n == Len(ends)
             last == Len(u) + Len(name)
  <1>1. /\ t \in Seq(Text) /\ v \in Seq(Text) /\ Len(t) = Len(name) + 1 /\ Len(v) = last + 1
        /\ last \in Nat /\ Len(u) \in Nat /\ Len(name) \in Nat
    BY DEF Text
  <1>2. \A i \in 1..Len(name) : name[i] \in Chars /\ name[i] # Nul
    BY PacketExamplesAssumption
  <1>3. U \in SUBSET (1..last) /\ U \in SUBSET (1..Len(u))
    BY <1>1 DEF NulsIn
  <1>4. NulsIn(v) = U \cup {last + 1}
    <2>1. \A i \in 1..Len(u) : v[i] = u[i]
      BY <1>1
    <2>2. \A i \in Len(u) + 1..last : v[i] = name[i - Len(u)] /\ i - Len(u) \in 1..Len(name)
      BY <1>1
    <2>3. v[last + 1] = Nul
      BY <1>1
    <2>4. \A i \in 1..last + 1 : i \in 1..Len(u) \/ i \in Len(u) + 1..last \/ i = last + 1
      BY <1>1
    <2>5. ASSUME NEW i \in 1..last + 1 PROVE v[i] = Nul <=> i \in U \/ i = last + 1
      <3>1. CASE i \in 1..Len(u)
        BY <1>1, <2>1, <3>1 DEF NulsIn
      <3>2. CASE i \in Len(u) + 1..last
        <4>1. v[i] # Nul /\ i \notin 1..Len(u) /\ i # last + 1
          BY <1>1, <1>2, <2>2, <3>2
        <4> QED BY <1>3, <4>1
      <3>3. CASE i = last + 1
        BY <2>3, <3>3
      <3> QED BY <2>4, <3>1, <3>2, <3>3
    <2>6. 1..Len(v) = 1..last + 1
      BY <1>1
    <2> HIDE DEF v, U, last
    <2>7. \A i \in U : i \in 1..last + 1
      BY <1>1, <1>3
    <2>8. last + 1 \in 1..last + 1
      BY <1>1
    <2> QED BY <2>5, <2>6, <2>7, <2>8 DEF NulsIn
  <1>5. /\ ends \in Seq(1..Len(u)) /\ n \in Nat
        /\ InOrderOf(NulsIn(v)) = Append(ends, last + 1)
    <2> HIDE DEF U, v
    <2>1. ends \in Seq(1..Len(u)) /\ n \in Nat
      <3>1. InOrderOf(U) \in Seq(1..Len(u))
        BY <1>1, <1>3, OrderedType
      <3> QED BY <3>1
    <2>2. InOrderOf(U \cup {last + 1}) = Append(InOrderOf(U), last + 1)
      <3> HIDE DEF last
      <3> QED BY <1>1, <1>3, OrderedAdded
    <2> HIDE DEF ends, n, last
    <2>3. InOrderOf(NulsIn(v)) = Append(ends, last + 1)
      BY <1>4, <2>2 DEF ends
    <2> QED BY <2>1, <2>3
  <1>6. (n = 0 => Len(u) = 0) /\ (n # 0 => ends[n] = Len(u))
    <2>1. CASE u = <<>>
      <3>1. U = {}
        BY <2>1 DEF NulsIn
      <3>2. n = 0
        BY <3>1, FS_EmptySet DEF InOrderOf
      <3> QED BY <2>1, <3>2
    <2>2. CASE u # <<>>
      <3>1. Len(ends) \in Nat \ {0} /\ ends[Len(ends)] = Len(u)
        BY <2>2, LastEnd
      <3> QED BY <3>1
    <2> QED BY <2>1, <2>2
  <1> DEFINE more == Append(ends, last + 1)
             ps == Pieces(u, ends)
             qs == Pieces(v, more)
  <1> HIDE DEF t, v, U, ends, n, last
  <1>7. /\ Len(ends) = n /\ DOMAIN ends = 1..n /\ DOMAIN more = 1..n + 1 /\ more[n + 1] = last + 1
        /\ \A i \in 1..n : more[i] = ends[i]
    BY <1>5 DEF n
  <1>8. IsTuple(n, ps) /\ IsTuple(n + 1, qs)
    BY <1>7 DEF IsTuple, Pieces
  <1>9. ASSUME NEW i \in 1..n PROVE qs[i] = ps[i]
    <2>1. i \in 1..n + 1 /\ more[i] = ends[i] /\ (i # 1 => i - 1 \in 1..n)
      BY <1>5, <1>7
    <2>2. i # 1 => more[i - 1] = ends[i - 1]
      BY <1>7, <2>1
    <2>3. qs[i] = SubSeq(v, IF i = 1 THEN 1 ELSE ends[i - 1] + 1, ends[i] - 1)
      BY <1>7, <2>1, <2>2 DEF Pieces
    <2>4. qs[i] = Pieces(v, ends)[i]
      BY <1>7, <2>3 DEF Pieces
    <2>5. Pieces(u \o t, ends) = Pieces(u, ends)
      <3>1. \A ss \in Seq(1..Len(u)) : Pieces(u \o t, ss) = Pieces(u, ss)
        BY <1>1, PiecesOfBoth
      <3> QED BY <1>5, <3>1
    <2> QED BY <2>4, <2>5 DEF v
  <1>10. qs[n + 1] = name
    <2>1. qs[n + 1] = SubSeq(v, Len(u) + 1, last)
      <3>1. n + 1 \in 1..n + 1 /\ (n + 1 = 1 <=> n = 0) /\ (n # 0 => n \in 1..n) /\ (n + 1) - 1 = n
        BY <1>5
      <3>2. (IF n + 1 = 1 THEN 1 ELSE more[(n + 1) - 1] + 1) = Len(u) + 1
        BY <1>1, <1>6, <1>7, <3>1
      <3>3. more[n + 1] - 1 = last
        BY <1>1, <1>7
      <3>4. qs[n + 1] = SubSeq(v, IF n + 1 = 1 THEN 1 ELSE more[(n + 1) - 1] + 1, more[n + 1] - 1)
        BY <1>7, <3>1 DEF Pieces
      <3> QED BY <3>2, <3>3, <3>4
    <2>2. CASE name = <<>>
      <3>1. last < Len(u) + 1
        BY <1>1, <2>2 DEF last
      <3> QED BY <1>1, <2>1, <2>2, <3>1, SubSeqEmpty
    <2>3. CASE name # <<>>
      <3>1. Len(name) \in Nat \ {0}
        BY <2>3
      <3>2. /\ Len(u) + 1 \in Len(u) + 1..Len(u) + Len(t)
            /\ last \in Len(u) + 1..Len(u) + Len(t)
            /\ (Len(u) + 1) - Len(u) = 1 /\ last - Len(u) = Len(name)
        BY <1>1, <3>1 DEF last
      <3>3. SubSeq(u \o t, Len(u) + 1, last) = SubSeq(t, (Len(u) + 1) - Len(u), last - Len(u))
        BY <1>1, <3>2, SubSeqOfConcat2
      <3>4. SubSeq(t, 1, Len(name)) = SubSeq(name, 1, Len(name))
        <4>1. name \in Seq(Text) /\ <<Nul>> \in Seq(Text) /\ t = name \o <<Nul>>
          BY DEF t, Text
        <4> QED BY <1>1, <4>1, PartOfBoth
      <3>5. SubSeq(name, 1, Len(name)) = name
        BY SubSeqFull
      <3> QED BY <2>1, <3>2, <3>3, <3>4, <3>5 DEF v
    <2> QED BY <2>2, <2>3
  <1> HIDE DEF ps, qs
  <1>11. qs = Append(ps, name)
    BY <1>5, <1>8, <1>9, <1>10, OneMoreAtEnd
  <1> QED BY <1>5, <1>11 DEF ps, qs, more, v, t, U, ends

(* A text is made of its names one after the other: it is cut into them,    *)
(* starts with none and ends with a Nul, and has no two Nul in a row.       *)
WellPut(u, names, n) ==
    /\ u \in Seq(Text)
    /\ n = 0 => u = <<>>
    /\ n # 0 => u # <<>> /\ u[1] # Nul /\ u[Len(u)] = Nul
    /\ \A i \in 2..Len(u) : ~(u[i] = Nul /\ u[i - 1] = Nul)
    /\ Pieces(u, InOrderOf(NulsIn(u))) = [i \in 1..n |-> names[i]]

(* No name yet.                                                             *)
LEMMA NothingPut == ASSUME NEW names PROVE WellPut(<<>>, names, 0)
  <1>1. NulsIn(<<>>) = {}
    BY DEF NulsIn
  <1>2. DOMAIN InOrderOf({}) = {}
    BY FS_EmptySet DEF InOrderOf
  <1>3. Pieces(<<>>, InOrderOf(NulsIn(<<>>))) = [i \in 1..0 |-> names[i]]
    <2>1. DOMAIN InOrderOf(NulsIn(<<>>)) = 1..0
      BY <1>1, <1>2
    <2>2. \A i \in 1..0 : FALSE
      OBVIOUS
    <2> QED BY <2>1, <2>2 DEF Pieces
  <1> QED BY <1>3 DEF WellPut

(* One name more.                                                           *)
LEMMA OnePut ==
    ASSUME NEW names \in Seq(Seq(Chars) \ {<<>>}), NEW n \in Nat, n + 1 \in 1..Len(names),
           NEW u, WellPut(u, names, n)
    PROVE  WellPut(u \o Append(names[n + 1], Nul), names, n + 1)
  <1> DEFINE name == names[n + 1]
             v == u \o Append(name, Nul)
             ps == Pieces(u, InOrderOf(NulsIn(u)))
             qs == Pieces(v, InOrderOf(NulsIn(v)))
  <1>1. name \in Seq(Chars) /\ name # <<>> /\ u \in Seq(Text)
    BY DEF WellPut
  <1>2. qs = Append(ps, name)
    <2>1. u # <<>> => u[Len(u)] = Nul
      BY DEF WellPut
    <2> HIDE DEF name
    <2> QED BY <1>1, <2>1, NameAdded
  <1>3. qs = [i \in 1..n + 1 |-> names[i]]
    <2> DEFINE a == [i \in 1..n |-> names[i]]
               b == [i \in 1..n + 1 |-> names[i]]
    <2>1. IsTuple(n, a) /\ IsTuple(n + 1, b) /\ b[n + 1] = name /\ \A k \in 1..n : b[k] = a[k]
      BY DEF IsTuple
    <2> HIDE DEF a, b, name
    <2>2. b = Append(a, name)
      BY <2>1, OneMoreAtEnd
    <2>3. ps = a
      BY DEF WellPut, a
    <2> HIDE DEF ps, qs
    <2> QED BY <1>2, <2>2, <2>3 DEF b
  <1>4. \A i \in 1..Len(name) : name[i] \in Chars /\ name[i] # Nul
    <2> HIDE DEF name
    <2> QED BY <1>1, PacketExamplesAssumption
  <1> DEFINE l == Len(u)
             k == Len(name)
  <1> HIDE DEF name, ps, qs
  <1>5. /\ v \in Seq(Text) /\ Len(v) = l + k + 1 /\ l \in Nat /\ k \in Nat \ {0}
        /\ \A i \in 1..l : v[i] = u[i]
        /\ \A i \in l + 1..l + k : v[i] = name[i - l]
        /\ v[l + k + 1] = Nul
    <2>1. Append(name, Nul) \in Seq(Text) /\ Len(Append(name, Nul)) = k + 1 /\ k \in Nat \ {0}
      BY <1>1 DEF Text
    <2> QED BY <1>1, <2>1
  <1> HIDE DEF v, l, k
  <1>6. \A i \in l + 1..l + k : v[i] # Nul
    <2>1. \A i \in l + 1..l + k : i - l \in 1..k
      BY <1>5
    <2> QED BY <1>4, <1>5, <2>1 DEF k
  <1>7. v # <<>> /\ v[1] # Nul /\ v[Len(v)] = Nul
    <2>1. v # <<>> /\ v[Len(v)] = Nul
      BY <1>5
    <2>2. CASE l = 0
      <3>1. 1 \in l + 1..l + k
        BY <1>5, <2>2
      <3> QED BY <1>6, <2>1, <3>1
    <2>3. CASE l # 0
      <3>1. 1 \in 1..l /\ n # 0
        BY <1>5, <2>3 DEF WellPut, l
      <3> QED BY <1>5, <2>1, <3>1 DEF WellPut
    <2> QED BY <2>2, <2>3
  <1>8. ASSUME NEW i \in 2..Len(v) PROVE ~(v[i] = Nul /\ v[i - 1] = Nul)
    <2>1. i \in 2..l + k + 1 /\ (i <= l \/ i \in l + 1..l + k \/ i = l + k + 1)
      BY <1>5
    <2>2. CASE i <= l
      <3>1. i \in 2..l /\ i \in 1..l /\ i - 1 \in 1..l
        BY <1>5, <2>1, <2>2
      <3>2. ~(u[i] = Nul /\ u[i - 1] = Nul)
        BY <3>1 DEF WellPut, l
      <3> QED BY <1>5, <3>1, <3>2
    <2>3. CASE i \in l + 1..l + k
      BY <1>6, <2>3
    <2>4. CASE i = l + k + 1
      <3>1. i - 1 \in l + 1..l + k
        BY <1>5, <2>4
      <3> QED BY <1>6, <3>1
    <2> QED BY <2>1, <2>2, <2>3, <2>4
  <1>9. WellPut(v, names, n + 1)
    <2>1. n + 1 # 0
      OBVIOUS
    <2> QED BY <1>3, <1>5, <1>7, <1>8, <2>1 DEF WellPut, qs
  <1> QED BY <1>9 DEF v, name

(* All names of a list.                                                     *)
LEMMA AllPut ==
    ASSUME NEW names \in Seq(Seq(Chars) \ {<<>>})
    PROVE  \E u : /\ WellPut(u, names, Len(names))
                  /\ TextOf(names) = u \o (IF names = <<>> THEN <<Nul, Nul>>
                                           ELSE <<Nul, "d", Nul, Nul>>)
  <1> DEFINE N == Len(names)
             G == [x \in Seq(Text) \X (1..N) |-> x[1] \o Append(names[x[2]], Nul)]
             texts(f) == [n \in 0..N |-> IF n = 0 THEN <<>> ELSE f[n - 1] \o Append(names[n], Nul)]
             text == CHOOSE f : f = texts(f)
  <1>1. N \in Nat
    OBVIOUS
  <1>2. \A i \in 1..N : Append(names[i], Nul) \in Seq(Text)
    <2>1. \A name \in Seq(Chars) : Append(name, Nul) \in Seq(Text)
      BY DEF Text
    <2>2. \A i \in 1..N : names[i] \in Seq(Chars)
      OBVIOUS
    <2> QED BY <2>1, <2>2
  <1>3. \E f : f = texts(f)
    <2> HIDE DEF N
    <2>1. G \in [Seq(Text) \X (1..N) -> Seq(Text)]
      <3>1. ASSUME NEW x \in Seq(Text) \X (1..N) PROVE x[1] \o Append(names[x[2]], Nul) \in Seq(Text)
        <4>1. x[1] \in Seq(Text) /\ Append(names[x[2]], Nul) \in Seq(Text)
          BY <1>2
        <4> QED BY <4>1, ConcatProperties
      <3> QED BY <3>1
    <2> HIDE DEF G
    <2>2. PICK f : Iterates(f, N, Seq(Text), <<>>, G)
      <3>1. <<>> \in Seq(Text)
        OBVIOUS
      <3> QED BY <1>1, <2>1, <3>1, RecursiveExists
    <2>3. f \in [0..N -> Seq(Text)] /\ f[0] = <<>> /\ \A i \in 1..N : f[i] = G[<<f[i - 1], i>>]
      BY <2>2 DEF Iterates
    <2>4. ASSUME NEW i \in 0..N, i # 0 PROVE f[i] = f[i - 1] \o Append(names[i], Nul)
      <3>1. i \in 1..N /\ i - 1 \in 0..N
        BY <1>1, <2>4
      <3>2. f[i - 1] \in Seq(Text)
        BY <2>3, <3>1
      <3>3. G[<<f[i - 1], i>>] = f[i - 1] \o Append(names[i], Nul)
        BY <3>1, <3>2 DEF G
      <3> QED BY <2>3, <3>1, <3>3
    <2>5. f = [i \in 0..N |-> f[i]]
      BY <2>3
    <2>6. f = [n \in 0..N |-> IF n = 0 THEN <<>> ELSE f[n - 1] \o Append(names[n], Nul)]
      BY <2>3, <2>4, <2>5
    <2> QED BY <2>6
  <1> HIDE DEF texts
  <1>4. text = texts(text)
    BY <1>3
  <1>5. TextOf(names) = text[N] \o (IF names = <<>> THEN <<Nul, Nul>>
                                    ELSE <<Nul, "d", Nul, Nul>>)
    BY DEF TextOf, texts
  <1> HIDE DEF text, N
  <1>6. text[0] = <<>>
    <2>1. texts(text)[0] = <<>>
      BY <1>1 DEF texts
    <2> QED BY <1>4, <2>1
  <1>7. ASSUME NEW n \in 1..N PROVE text[n] = text[n - 1] \o Append(names[n], Nul)
    <2>1. texts(text)[n] = text[n - 1] \o Append(names[n], Nul)
      <3>1. n \in 0..N /\ n # 0
        BY <1>1
      <3> QED BY <3>1 DEF texts
    <2> QED BY <1>4, <2>1
  <1>8. \A n \in 0..N : WellPut(text[n], names, n)
    <2> DEFINE Bad == {n \in 0..N : ~WellPut(text[n], names, n)}
    <2>1. SUFFICES ASSUME Bad # {} PROVE FALSE
      OBVIOUS
    <2>2. PICK m \in Bad : \A n \in Bad : m <= n
      <3>1. Bad \subseteq Nat
        BY <1>1
      <3> HIDE DEF Bad
      <3> QED BY <2>1, <3>1, LeastOf
    <2>3. m # 0
      BY <1>6, <2>2, NothingPut
    <2>4. m \in 1..N /\ m - 1 \in 0..N /\ m - 1 \in Nat /\ (m - 1) + 1 = m /\ m - 1 \notin Bad
      BY <1>1, <2>2, <2>3
    <2>5. WellPut(text[m - 1], names, m - 1) /\ (m - 1) + 1 \in 1..Len(names)
      BY <2>4 DEF N
    <2>6. WellPut(text[m - 1] \o Append(names[(m - 1) + 1], Nul), names, (m - 1) + 1)
      BY <2>4, <2>5, OnePut
    <2>7. WellPut(text[m], names, m)
      BY <1>7, <2>4, <2>6
    <2> QED BY <2>2, <2>7
  <1>9. WellPut(text[N], names, N)
    BY <1>1, <1>8
  <1> QED BY <1>5, <1>9 DEF N

(* No place in order, and one.                                              *)
LEMMA NoPlaces == InOrderOf({}) = <<>> /\ InOrderOf({1}) = <<1>>
  <1>1. InOrderOf({}) = <<>>
    BY FS_EmptySet DEF InOrderOf
  <1>2. InOrderOf({} \cup {0 + 1}) = Append(InOrderOf({}), 0 + 1)
    <2>1. {} \in SUBSET (1..0) /\ 0 \in Nat
      OBVIOUS
    <2> QED BY <2>1, OrderedAdded
  <1>3. {} \cup {0 + 1} = {1} /\ 0 + 1 = 1
    OBVIOUS
  <1>4. InOrderOf({1}) = Append(<<>>, 1)
    BY <1>1, <1>2, <1>3
  <1> QED BY <1>1, <1>4

(* The loop takes the names out of a text as they were put in; if there are *)
(* none and the character in front of the text is no Nul it makes up an     *)
(* empty one.                                                               *)
LEMMA SplitAgain ==
    ASSUME NEW names \in Seq(Seq(Chars) \ {<<>>}), NEW first
    PROVE  SplitNames(TextOf(names), first) =
             IF names = <<>> /\ first # Nul THEN <<(<<>>)>> ELSE names
  <1> DEFINE text == TextOf(names)
             Back(temp) == IF temp = 1 THEN first ELSE text[temp - 1]
             stops == {temp \in DOMAIN text : text[temp] = Nul /\ Back(temp) = Nul}
             stop == Min(stops)
             nuls == {temp \in 1..stop - 1 : text[temp] = Nul}
             ends == InOrderOf(nuls)
  <1>1. SplitNames(text, first) = Pieces(text, ends)
    BY DEF SplitNames, Pieces
  <1>2. PICK u : /\ WellPut(u, names, Len(names))
                 /\ text = u \o (IF names = <<>> THEN <<Nul, Nul>> ELSE <<Nul, "d", Nul, Nul>>)
    BY AllPut
  <1>3. Len(names) \in Nat /\ (names = <<>> <=> Len(names) = 0)
    OBVIOUS
  <1> HIDE DEF text, stop
  <1>4. ASSUME NEW n \in Nat, n \in stops, \A m \in stops : n <= m PROVE stop = n
    <2>1. \A k \in stops : (\A m \in stops : k <= m) => k = n
      <3>1. stops \subseteq Int
        BY <1>2 DEF WellPut
      <3> HIDE DEF stops
      <3> QED BY <1>4, <3>1
    <2> HIDE DEF stops
    <2> QED BY <1>4, <2>1 DEF stop, Min
  <1>5. CASE names = <<>>
    <2>1. text = <<Nul, Nul>>
      <3>1. u = <<>>
        BY <1>2, <1>3, <1>5 DEF WellPut
      <3> QED BY <1>2, <1>5, <3>1
    <2>2. CASE first = Nul
      <3>1. stop = 1
        BY <1>4, <2>1, <2>2
      <3>2. nuls = {}
        BY <3>1
      <3> HIDE DEF nuls
      <3>3. ends = <<>>
        BY <3>2, NoPlaces
      <3> HIDE DEF ends
      <3>4. Pieces(text, ends) = <<>>
        BY <3>3 DEF Pieces
      <3> QED BY <1>1, <1>5, <2>2, <3>4 DEF text
    <2>3. CASE first # Nul
      <3>1. stop = 2
        <4>1. 2 \in stops /\ 1 \notin stops /\ DOMAIN text = 1..2
          BY <2>1, <2>3
        <4>2. \A m \in stops : m \in 1..2
          BY <4>1
        <4> HIDE DEF stops
        <4>3. \A m \in stops : 2 <= m
          BY <4>1, <4>2
        <4> QED BY <1>4, <4>1, <4>3
      <3>2. nuls = {1}
        BY <2>1, <3>1
      <3> HIDE DEF nuls
      <3>3. ends = <<1>>
        BY <3>2, NoPlaces
      <3> HIDE DEF ends
      <3>4. Pieces(text, ends) = <<SubSeq(text, 1, 0)>>
        BY <3>3 DEF Pieces
      <3>5. SubSeq(text, 1, 0) = <<>>
        BY SubSeqEmpty
      <3> QED BY <1>1, <1>5, <2>3, <3>4, <3>5 DEF text
    <2> QED BY <2>2, <2>3
  <1>6. CASE names # <<>>
    <2> DEFINE t == <<Nul, "d", Nul, Nul>>
               l == Len(u)
    <2>1. text = u \o t /\ u \in Seq(Text) /\ l \in Nat \ {0} /\ u[1] # Nul /\ u[l] = Nul
      BY <1>2, <1>3, <1>6 DEF WellPut
    <2>2. /\ \A i \in 1..l : text[i] = u[i]
          /\ text[l + 1] = Nul /\ DOMAIN text = 1..l + 4
      BY <2>1
    <2>3. stop = l + 1
      <3>1. l + 1 \in stops
        BY <2>1, <2>2
      <3>2. ASSUME NEW m \in stops, ~(l + 1 <= m) PROVE FALSE
        <4>1. m \in 1..l
          BY <2>1, <2>2, <3>2
        <4>2. CASE m = 1
          BY <2>1, <2>2, <4>1, <4>2
        <4>3. CASE m # 1
          <5>1. m \in 2..l /\ m - 1 \in 1..l
            BY <4>1, <4>3
          <5>2. u[m] = Nul /\ u[m - 1] = Nul
            BY <2>2, <4>1, <4>3, <5>1
          <5> QED BY <1>2, <5>1, <5>2 DEF WellPut
        <4> QED BY <4>2, <4>3
      <3> HIDE DEF stops
      <3> QED BY <1>4, <2>1, <3>1, <3>2
    <2>4. nuls = NulsIn(u)
      <3>1. 1..stop - 1 = 1..l
        BY <2>1, <2>3
      <3> QED BY <2>2, <3>1 DEF NulsIn
    <2>5. ends = InOrderOf(NulsIn(u))
      BY <2>4
    <2>6. InOrderOf(NulsIn(u)) \in Seq(1..l)
      <3>1. NulsIn(u) \in SUBSET (1..l) /\ l \in Nat
        BY <2>1 DEF NulsIn
      <3> HIDE DEF l
      <3> QED BY <3>1, OrderedType
    <2>7. Pieces(text, ends) = [i \in 1..Len(names) |-> names[i]]
      <3> DEFINE es == InOrderOf(NulsIn(u))
      <3>1. Pieces(u, es) = [i \in 1..Len(names) |-> names[i]]
        BY <1>2 DEF WellPut
      <3>2. ends = es /\ es \in Seq(1..Len(u))
        BY <2>5, <2>6
      <3> HIDE DEF ends, es
      <3>3. Pieces(u \o <<Nul, "d", Nul, Nul>>, es) = Pieces(u, es)
        <4> DEFINE Wide == Text \cup {"d"}
        <4>1. u \in Seq(Wide) /\ <<Nul, "d", Nul, Nul>> \in Seq(Wide)
          BY <2>1 DEF Text
        <4> HIDE DEF Wide
        <4> QED BY <3>2, <4>1, PiecesOfBoth
      <3> QED BY <2>1, <3>1, <3>2, <3>3
    <2>8. names = [i \in 1..Len(names) |-> names[i]]
      OBVIOUS
    <2> QED BY <1>1, <1>6, <2>7, <2>8 DEF text
  <1> QED BY <1>5, <1>6

-----------------------------------------------------------------------------
(* The invariant of the programs for packet.dll.                           *)

(* The packets of the block that are printed are the first ones, and the    *)
(* next header is where PrintPackets is.                                    *)
PrintsInOrder ==
    \E k \in 0..Len(block) : /\ printed = [n \in 1..k |-> n]
                             /\ off # NotPrinting => off = HeaderAt(block, k + 1)

TooManyNames == Len(SplitNames(AdapterName, before)) > Max_Num_Adapter

PacketInv ==
    /\ block \in Seq(CapLens) /\ received \in LengthsOf(block) /\ PrintsInOrder
    /\ AdapterList = <<>> \/ AdapterList = SplitNames(AdapterName, before)
    /\ prog \in DOMAIN PacketCalls /\ status = "crashed" => TooManyNames \/ Call.down

(* With no list and no block there is nothing to take apart yet.            *)
LEMMA IdleIsFine == PacketIdle /\ status = "running" => PacketInv
  <1> SUFFICES ASSUME PacketIdle, status = "running" PROVE PacketInv
    OBVIOUS
  <1>1. block = <<>> /\ block \in Seq(CapLens) /\ Len(block) = 0
    BY DEF PacketIdle
  <1>2. received \in LengthsOf(block)
    BY <1>1 DEF PacketIdle, LengthsOf
  <1>3. PrintsInOrder
    <2>1. 0 \in 0..Len(block) /\ printed = [n \in 1..0 |-> n] /\ off = NotPrinting
      BY <1>1 DEF PacketIdle
    <2> QED BY <2>1 DEF PrintsInOrder
  <1> QED BY <1>1, <1>2, <1>3 DEF PacketInv, PacketIdle

(* Every program starts so.                                                 *)
LEMMA InitPackets == Init => PacketInv
  <1>1. Init => PacketIdle /\ status = "running"
    BY DEF Init, PcapInit, PacketInit, BridgeInit, Start
  <1> QED BY <1>1, IdleIsFine

(* Nothing is disturbed by a step that leaves list and block alone and does *)
(* not bring the program down but where its call says so.                   *)
LEMMA PacketsLeftAlone ==
    ASSUME PacketInv, UNCHANGED <<textVars, block, received, off, printed>>,
           prog' \in DOMAIN PacketCalls /\ status' = "crashed" =>
             \/ prog \in DOMAIN PacketCalls /\ status = "crashed" /\ Call' = Call
             \/ Call'.down
    PROVE  PacketInv'
  <1>1. UNCHANGED <<AdapterName, before, AdapterList>>
    BY DEF textVars
  <1>2. PrintsInOrder'
    BY DEF PacketInv, PrintsInOrder
  <1>3. TooManyNames <=> TooManyNames'
    BY <1>1 DEF TooManyNames
  <1> QED BY <1>1, <1>2, <1>3 DEF PacketInv

(* No call that is done, no error and no Ctrl+C is a crash.                 *)
LEMMA NoCrash == /\ Running /\ Succeed => status' # "crashed"
                 /\ Fail => status' # "crashed"
                 /\ Interrupt => status' # "crashed"
                 /\ UNCHANGED callVars => status' = status /\ prog' = prog /\ Call' = Call
  BY DEF Running, Succeed, Advance, Fail, Interrupt, End, callVars, Call, calls

(* The names are taken apart.                                               *)
LEMMA SplitKeeps == ASSUME PacketInv, Running, SplitList PROVE PacketInv'
  <1> DEFINE names == SplitNames(AdapterName, before)
  <1>1. UNCHANGED <<AdapterName, before, block, received, off, printed>>
    BY DEF SplitList
  <1>2. PrintsInOrder' /\ received' \in LengthsOf(block') /\ block' \in Seq(CapLens)
    BY <1>1 DEF PacketInv, PrintsInOrder
  <1>3. names' = names
    BY <1>1
  <1>4. CASE Len(names) > Max_Num_Adapter
    <2>1. AdapterList' = AdapterList
      BY <1>4 DEF SplitList
    <2>2. TooManyNames'
      BY <1>3, <1>4 DEF TooManyNames
    <2> QED BY <1>2, <1>3, <2>1, <2>2 DEF PacketInv
  <1>5. CASE ~(Len(names) > Max_Num_Adapter)
    <2>1. Succeed /\ AdapterList' = names
      BY <1>5 DEF SplitList
    <2> QED BY <1>2, <1>3, <2>1, NoCrash DEF PacketInv
  <1> QED BY <1>4, <1>5

(* A block comes in, and nothing of it is printed yet.                      *)
LEMMA ReceiveKeeps == ASSUME PacketInv, Receive PROVE PacketInv'
  <1>1. block' \in Seq(CapLens) /\ Len(block') \in Nat
    <2>1. PICK n \in 0..MaxRecords : block' \in [1..n -> CapLens]
      BY DEF Receive
    <2>2. n \in Nat
      BY PacketExamplesAssumption
    <2> QED BY <2>1, <2>2
  <1>2. received' \in LengthsOf(block') /\ off' = 0 /\ printed' = <<>>
    BY DEF Receive
  <1>3. HeaderAt(block', 1) = 0
    BY <1>1, Headers
  <1>4. PrintsInOrder'
    <2>1. 0 \in 0..Len(block') /\ printed' = [n \in 1..0 |-> n] /\ off' = HeaderAt(block', 0 + 1)
      BY <1>1, <1>2, <1>3
    <2> QED BY <2>1 DEF PrintsInOrder
  <1>5. UNCHANGED <<AdapterName, before, AdapterList>> /\ status' = status /\ Running
    BY DEF Receive, textVars, callVars, Looping
  <1> QED BY <1>1, <1>2, <1>4, <1>5 DEF PacketInv, Running

(* How many bytes came: up to the last packet's end or the next word.       *)
LEMMA LengthsAre ==
    ASSUME NEW lens \in Seq(CapLens), NEW bytes \in LengthsOf(lens)
    PROVE  /\ bytes \in Int /\ bytes <= HeaderAt(lens, Len(lens) + 1)
           /\ lens # <<>> => bytes > HeaderAt(lens, Len(lens))
  <1>1. CASE lens = <<>>
    <2>1. Len(lens) + 1 = 1 /\ bytes = 0
      BY <1>1 DEF LengthsOf
    <2>2. HeaderAt(lens, Len(lens) + 1) = 0
      BY <2>1, Headers
    <2> QED BY <1>1, <2>1, <2>2
  <1>2. CASE lens # <<>>
    <2> DEFINE L == Len(lens)
    <2>1. L \in 1..L /\ Last(lens) = lens[L] /\ lens[L] \in CapLens
      BY <1>2 DEF Last
    <2>2. lens[L] \in Nat /\ HdrLen \in Nat /\ HdrLen > 0
      <3>1. CapLens \subseteq Nat /\ HdrLen \in Nat \ {0}
        BY PacketExamplesAssumption
      <3>2. lens[L] \in CapLens
        BY <2>1
      <3> HIDE DEF L
      <3>3. lens[L] \in Nat
        BY <3>1, <3>2, Zenon
      <3>4. HdrLen \in Nat /\ HdrLen > 0
        BY <3>1
      <3> QED BY <3>3, <3>4
    <2>3. /\ HeaderAt(lens, L) \in Nat /\ HeaderAt(lens, L + 1) \in Nat
          /\ HeaderAt(lens, L) + HdrLen + lens[L] <= HeaderAt(lens, L + 1)
      BY <2>1, Headers
    <2>4. \/ bytes = HeaderAt(lens, L) + HdrLen + lens[L]
          \/ bytes = HeaderAt(lens, L + 1)
      BY <1>2, <2>1 DEF LengthsOf
    <2> HIDE DEF L
    <2>5. bytes \in Int /\ bytes <= HeaderAt(lens, L + 1) /\ bytes > HeaderAt(lens, L)
      BY <2>2, <2>3, <2>4
    <2> QED BY <2>5 DEF L
  <1> QED BY <1>1, <1>2

(* The next packet is printed: the header at PrintPackets' place is its, so *)
(* nothing brings the program down here.                                    *)
LEMMA PrintKeeps == ASSUME PacketInv, PrintPacket PROVE PacketInv'
  <1>1. PICK k \in 0..Len(block) : /\ printed = [n \in 1..k |-> n]
                                   /\ off # NotPrinting => off = HeaderAt(block, k + 1)
    BY DEF PacketInv, PrintsInOrder
  <1>2. block \in Seq(CapLens) /\ Len(block) \in Nat /\ received \in LengthsOf(block)
    BY DEF PacketInv
  <1>3. off \in 0..received - 1
    BY DEF PrintPacket
  <1>4. off = HeaderAt(block, k + 1)
    BY <1>1, <1>3 DEF NotPrinting
  <1>5. received <= HeaderAt(block, Len(block) + 1)
    BY <1>2, LengthsAre
  <1>6. k + 1 \in DOMAIN block
    <2>1. HeaderAt(block, Len(block) + 1) \in Nat
      BY <1>2, HeadersAscend
    <2>2. received \in Int /\ off < received
      BY <1>3, LengthsAre, <1>2
    <2>3. k # Len(block)
      BY <1>4, <1>5, <2>1, <2>2
    <2> QED BY <1>2, <2>3
  <1>7. {n \in DOMAIN block : HeaderAt(block, n) = off} = {k + 1}
    <2> DEFINE H(n) == HeaderAt(block, n)
    <2>1. \A n \in 1..Len(block) + 1 : H(n) \in Nat /\ \A m \in 1..n - 1 : H(m) < H(n)
      BY <1>2, HeadersAscend
    <2> HIDE DEF H
    <2>2. ASSUME NEW n \in 1..Len(block), n # k + 1 PROVE H(n) # H(k + 1)
      <3>1. n \in 1..Len(block) + 1 /\ k + 1 \in 1..Len(block) + 1
        BY <1>2, <1>6
      <3>2. n \in 1..(k + 1) - 1 \/ k + 1 \in 1..n - 1
        BY <1>2, <1>6, <2>2
      <3>3. H(n) < H(k + 1) \/ H(k + 1) < H(n)
        BY <2>1, <3>1, <3>2
      <3> QED BY <2>1, <3>1, <3>3
    <2>3. off = H(k + 1)
      BY <1>4 DEF H
    <2>4. {n \in DOMAIN block : H(n) = off} = {k + 1}
      BY <1>2, <1>6, <2>2, <2>3
    <2> QED BY <2>4 DEF H
  <1>8. /\ printed' = Append(printed, k + 1) /\ off' = WordAlign(off + HdrLen + block[k + 1])
        /\ UNCHANGED callVars
    BY <1>7 DEF PrintPacket
  <1>9. UNCHANGED <<AdapterName, before, AdapterList, block, received>>
    BY DEF PrintPacket, textVars
  <1>10. off' = HeaderAt(block, (k + 1) + 1)
    <2>1. k + 1 \in 1..Len(block)
      BY <1>6
    <2> QED BY <1>2, <1>4, <1>8, <2>1, Headers
  <1>11. printed' = [n \in 1..k + 1 |-> n]
    <2> DEFINE u == [n \in 1..k |-> n]
               v == [n \in 1..k + 1 |-> n]
    <2>1. k \in Nat /\ IsTuple(k, u) /\ IsTuple(k + 1, v) /\ v[k + 1] = k + 1
      BY <1>2 DEF IsTuple
    <2>2. \A n \in 1..k : v[n] = u[n]
      BY <1>2
    <2> HIDE DEF u, v
    <2>3. v = Append(u, k + 1)
      BY <2>1, <2>2, OneMoreAtEnd
    <2> QED BY <1>1, <1>8, <2>3 DEF u, v
  <1>12. PrintsInOrder'
    <2>1. k + 1 \in 0..Len(block')
      BY <1>2, <1>6, <1>9
    <2> QED BY <1>9, <1>10, <1>11, <2>1 DEF PrintsInOrder
  <1>13. TooManyNames <=> TooManyNames'
    BY <1>9 DEF TooManyNames
  <1> QED BY <1>8, <1>9, <1>12, <1>13, NoCrash DEF PacketInv

(* PrintPackets comes to its end.                                           *)
LEMMA PrintEndKeeps == ASSUME PacketInv, PrintEnd PROVE PacketInv'
  <1>1. /\ off' = NotPrinting /\ UNCHANGED callVars
        /\ UNCHANGED <<AdapterName, before, AdapterList, block, received, printed>>
    BY DEF PrintEnd, textVars
  <1>2. PrintsInOrder'
    BY <1>1 DEF PacketInv, PrintsInOrder
  <1>3. TooManyNames <=> TooManyNames'
    BY <1>1 DEF TooManyNames
  <1> QED BY <1>1, <1>2, <1>3, NoCrash DEF PacketInv

(* No step of any program disturbs this.                                    *)
LEMMA PacketStep == ASSUME PacketInv, [Next]_winVars PROVE PacketInv'
  <1>1. CASE OfPacket(PacketNext)
    <2>1. CASE Running /\ SplitList
      BY <2>1, SplitKeeps
    <2>2. CASE Receive
      BY <2>2, ReceiveKeeps
    <2>3. CASE PrintPacket
      BY <2>3, PrintKeeps
    <2>4. CASE PrintEnd
      BY <2>4, PrintEndKeeps
    <2>5. CASE Plain \/ (Running /\ SelectAdapter) \/ ReceiveFails \/ LoopEnd \/ PressKey
               \/ (Interrupt /\ UNCHANGED packetVars)
      <3>1. UNCHANGED <<textVars, block, received, off, printed>>
        BY <2>5 DEF Plain, SelectAdapter, ReceiveFails, LoopEnd, PressKey, packetVars, textVars
      <3>2. (Running /\ Succeed) \/ Fail \/ Interrupt \/ UNCHANGED callVars
        BY <2>5 DEF Plain, SelectAdapter, ReceiveFails, LoopEnd, PressKey, Looping
      <3>3. prog' \in DOMAIN PacketCalls /\ status' = "crashed" =>
              prog \in DOMAIN PacketCalls /\ status = "crashed" /\ Call' = Call
        BY <3>2, NoCrash
      <3> QED BY <3>1, <3>3, PacketsLeftAlone
    <2>6. CASE GoDown /\ UNCHANGED packetVars
      <3>1. UNCHANGED <<textVars, block, received, off, printed>>
        BY <2>6 DEF packetVars, textVars
      <3>2. Call.down /\ UNCHANGED <<prog, way, pc>>
        BY <2>6 DEF GoDown, End
      <3>3. Call'.down
        BY <3>2 DEF Call, calls
      <3> QED BY <3>1, <3>3, PacketsLeftAlone
    <2> QED BY <1>1, <2>1, <2>2, <2>3, <2>4, <2>5, <2>6 DEF OfPacket, PacketNext, PacketMain
  <1>2. CASE OfPcap(PcapNext) \/ OfBridge(BridgeNext) \/ UNCHANGED winVars
    <2>1. UNCHANGED packetVars
      BY <1>2 DEF OfPcap, OfBridge, winVars
    <2>2. UNCHANGED <<textVars, block, received, off, printed>>
      BY <2>1 DEF packetVars, textVars
    <2>3. prog' = prog /\ (prog \in DOMAIN PacketCalls => status' = status /\ Call' = Call)
      <3>1. prog' = prog
        BY ProgramStays
      <3>2. OfPcap(PcapNext) \/ OfBridge(BridgeNext) => prog \notin DOMAIN PacketCalls
        BY DEF OfPcap, OfBridge, PcapCalls, PacketCalls, BridgeCalls
      <3>3. UNCHANGED winVars => status' = status /\ Call' = Call
        BY DEF winVars, callVars, Call, calls
      <3> QED BY <1>2, <3>1, <3>2, <3>3
    <2> QED BY <2>2, <2>3, PacketsLeftAlone
  <1> QED BY <1>1, <1>2 DEF Next

(* The invariant holds in every run.                                        *)
LEMMA AlwaysPackets == Spec => []PacketInv
  <1>1. PacketInv /\ [Next]_winVars => PacketInv'
    BY PacketStep
  <1> QED BY InitPackets, <1>1, PTL DEF Spec

(* A list that was taken apart has the names of its text.                   *)
LEMMA NamesTakenApart == PacketInv => ListHasTheNames
  <1> SUFFICES ASSUME PacketInv, NEW names \in AdapterNames, AdapterName = TextOf(names),
                      AdapterList # <<>>
               PROVE  \/ AdapterList = names
                      \/ names = <<>> /\ before # Nul /\ AdapterList = <<(<<>>)>>
    BY DEF ListHasTheNames
  <1>1. names \in Seq(Seq(Chars) \ {<<>>})
    BY PacketExamplesAssumption
  <1>2. AdapterList = SplitNames(TextOf(names), before)
    BY DEF PacketInv
  <1> QED BY <1>1, <1>2, SplitAgain

-----------------------------------------------------------------------------
(* What the programs have at each of their calls.                          *)

(* What a call's error leaves behind is what WinPcap's table says.          *)
LeavesTidy(p, name, objects) ==
    \A o \in objects \ {"fcode"} : <<p, name, o>> \in LeftWhenFailed

(* And so is what main leaves behind at its end.                            *)
EndsTidy(p, objects) == \A o \in objects \ {"fcode"} : <<p, o>> \in LeftWhenDone

(* The call works on objects the program has, or on the list where the      *)
(* table says so, and has been given the list back before it captures; and  *)
(* the program goes down at it only if the table says so.                   *)
Step(p, c, has, then) ==
    /\ Touched(c) \subseteq has \cup StaleIn(p, c.name)
    /\ c.from # "" => p \in KeepsList \/ "alldevs" \notin has
    /\ c.fails => LeavesTidy(p, c.name, has \ c.cleanup)
    /\ c.down => <<p, c.name>> \in GoesDownAt
    /\ then = (has \cup c.gets) \ c.drops

(* Call by call through a list; H[k] is what the program has at the call k. *)
Course(p, s, H) == IsList(s) /\ \A k \in 1..Len(s) : Step(p, s[k], H[k], H[k + 1])

Passes(p, s, has, then) == \E H : Course(p, s, H) /\ H[1] = has /\ H[Len(s) + 1] = then

(* A call that cannot fail.                                                 *)
LEMMA UsesStep ==
    ASSUME NEW p, NEW name, NEW objects, NEW A, objects \subseteq A \cup StaleIn(p, name)
    PROVE  Step(p, Uses(name, objects), A, A)
  <1>1. PICK c : c = Uses(name, objects)
    OBVIOUS
  <1>2. /\ c.name = name /\ c.uses = objects /\ c.gets = {} /\ c.drops = {}
        /\ c.fails = FALSE /\ c.cleanup = {} /\ c.from = "" /\ c.down = FALSE
    BY <1>1 DEF Uses
  <1>3. Touched(c) \subseteq A \cup StaleIn(p, c.name)
    BY <1>2 DEF Touched
  <1>4. A = (A \cup c.gets) \ c.drops
    BY <1>2
  <1> QED BY <1>1, <1>2, <1>3, <1>4 DEF Step

(* A call that may fail.                                                    *)
LEMMA ChecksStep ==
    ASSUME NEW p, NEW name, NEW objects, NEW cleanup, NEW A,
           objects \subseteq A, cleanup \subseteq A, LeavesTidy(p, name, A \ cleanup)
    PROVE  Step(p, Checks(name, objects, cleanup), A, A)
  <1>1. PICK c : c = Checks(name, objects, cleanup)
    OBVIOUS
  <1>2. /\ c.name = name /\ c.uses = objects /\ c.gets = {} /\ c.drops = {}
        /\ c.fails = TRUE /\ c.cleanup = cleanup /\ c.from = "" /\ c.down = FALSE
    BY <1>1 DEF Checks, Uses
  <1>3. Touched(c) \subseteq A \cup StaleIn(p, c.name)
    BY <1>2 DEF Touched
  <1>4. A = (A \cup c.gets) \ c.drops
    BY <1>2
  <1> QED BY <1>1, <1>2, <1>3, <1>4 DEF Step

(* A call that hands out an object, or fails.                               *)
LEMMA GetsStep ==
    ASSUME NEW p, NEW name, NEW o, NEW objects, NEW cleanup, NEW A, NEW B,
           objects \subseteq A, cleanup \subseteq A \cup StaleIn(p, name),
           LeavesTidy(p, name, A \ cleanup), B = A \cup {o}
    PROVE  Step(p, Gets(name, o, objects, cleanup), A, B)
  <1>1. PICK c : c = Gets(name, o, objects, cleanup)
    OBVIOUS
  <1>2. /\ c.name = name /\ c.uses = objects /\ c.gets = {o} /\ c.drops = {}
        /\ c.fails = TRUE /\ c.cleanup = cleanup /\ c.from = "" /\ c.down = FALSE
    BY <1>1 DEF Gets, Checks, Uses
  <1>3. Touched(c) \subseteq A \cup StaleIn(p, c.name)
    BY <1>2 DEF Touched
  <1>4. B = (A \cup c.gets) \ c.drops
    BY <1>2
  <1> QED BY <1>1, <1>2, <1>3, <1>4 DEF Step

(* A call that takes one back.                                              *)
LEMMA DropsStep ==
    ASSUME NEW p, NEW name, NEW o, NEW A, NEW B, o \in A, B = A \ {o}
    PROVE  Step(p, Drops(name, o), A, B)
  <1>1. PICK c : c = Drops(name, o)
    OBVIOUS
  <1>2. /\ c.name = name /\ c.uses = {o} /\ c.gets = {} /\ c.drops = {o}
        /\ c.fails = FALSE /\ c.cleanup = {} /\ c.from = "" /\ c.down = FALSE
    BY <1>1 DEF Drops, Uses
  <1>3. Touched(c) \subseteq A \cup StaleIn(p, c.name)
    BY <1>2 DEF Touched
  <1>4. B = (A \cup c.gets) \ c.drops
    BY <1>2
  <1> QED BY <1>1, <1>2, <1>3, <1>4 DEF Step

(* The loop over the packets.                                               *)
LEMMA LoopStep ==
    ASSUME NEW p, NEW h, NEW from, NEW do, NEW A, h \in A, p \in KeepsList \/ "alldevs" \notin A
    PROVE  Step(p, Loop(h, from, do), A, A)
  <1>1. PICK c : c = Loop(h, from, do)
    OBVIOUS
  <1>2. /\ c.uses = {h} /\ c.gets = {} /\ c.drops = {}
        /\ c.fails = FALSE /\ c.cleanup = {} /\ c.down = FALSE
    BY <1>1 DEF Loop, Uses
  <1>3. Touched(c) \subseteq A \cup StaleIn(p, c.name)
    BY <1>2 DEF Touched
  <1>4. A = (A \cup c.gets) \ c.drops
    BY <1>2
  <1> QED BY <1>1, <1>2, <1>3, <1>4 DEF Step

(* The loop that an error ends, and main with it.                           *)
LEMMA LoopOrReturnStep ==
    ASSUME NEW p, NEW h, NEW from, NEW do, NEW cleanup, NEW A, h \in A, cleanup \subseteq A,
           p \in KeepsList \/ "alldevs" \notin A, LeavesTidy(p, "pcap_loop", A \ cleanup)
    PROVE  Step(p, LoopOrReturn(h, from, do, cleanup), A, A)
  <1>1. PICK c : c = LoopOrReturn(h, from, do, cleanup)
    OBVIOUS
  <1>2. /\ c.name = "pcap_loop" /\ c.uses = {h} /\ c.gets = {} /\ c.drops = {}
        /\ c.fails = TRUE /\ c.cleanup = cleanup /\ c.down = FALSE
    BY <1>1 DEF LoopOrReturn, Loop, Uses
  <1>3. Touched(c) \subseteq A \cup StaleIn(p, c.name)
    BY <1>2 DEF Touched
  <1>4. A = (A \cup c.gets) \ c.drops
    BY <1>2
  <1> QED BY <1>1, <1>2, <1>3, <1>4 DEF Step

(* The queue is taken to be there.                                          *)
LEMMA QueueStep ==
    ASSUME NEW p, NEW A, NEW B, B = A \cup {"squeue"}
    PROVE  Step(p, [Uses("pcap_sendqueue_alloc", {}) EXCEPT !.gets = {"squeue"}], A, B)
  <1>1. PICK c : c = [Uses("pcap_sendqueue_alloc", {}) EXCEPT !.gets = {"squeue"}]
    OBVIOUS
  <1>2. /\ c.uses = {} /\ c.gets = {"squeue"} /\ c.drops = {}
        /\ c.fails = FALSE /\ c.cleanup = {} /\ c.from = "" /\ c.down = FALSE
    BY <1>1 DEF Uses
  <1>3. Touched(c) \subseteq A
    BY <1>2 DEF Touched
  <1>4. B = (A \cup c.gets) \ c.drops
    BY <1>2
  <1> QED BY <1>1, <1>2, <1>3, <1>4 DEF Step

(* The same call, but the program may go down at it.                        *)
LEMMA RiskyUsesStep ==
    ASSUME NEW p, NEW name, NEW objects, NEW A, NEW B, Step(p, Uses(name, objects), A, B),
           <<p, name>> \in GoesDownAt
    PROVE  Step(p, Risky(Uses(name, objects)), A, B)
  <1>1. PICK c : c = Uses(name, objects)
    OBVIOUS
  <1>2. PICK d : d = Risky(c)
    OBVIOUS
  <1>3. /\ d.name = c.name /\ d.uses = c.uses /\ d.gets = c.gets /\ d.drops = c.drops
        /\ d.fails = c.fails /\ d.cleanup = c.cleanup /\ d.from = c.from /\ c.name = name
    BY <1>1, <1>2 DEF Risky, Uses
  <1> QED BY <1>1, <1>2, <1>3 DEF Step, Touched

(* Or where it hands out an object.                                         *)
LEMMA RiskyGetsStep ==
    ASSUME NEW p, NEW name, NEW o, NEW objects, NEW cleanup, NEW A, NEW B,
           Step(p, Gets(name, o, objects, cleanup), A, B), <<p, name>> \in GoesDownAt
    PROVE  Step(p, Risky(Gets(name, o, objects, cleanup)), A, B)
  <1>1. PICK c : c = Gets(name, o, objects, cleanup)
    OBVIOUS
  <1>2. PICK d : d = Risky(c)
    OBVIOUS
  <1>3. /\ d.name = c.name /\ d.uses = c.uses /\ d.gets = c.gets /\ d.drops = c.drops
        /\ d.fails = c.fails /\ d.cleanup = c.cleanup /\ d.from = c.from /\ c.name = name
    BY <1>1, <1>2 DEF Risky, Gets, Checks, Uses
  <1> QED BY <1>1, <1>2, <1>3 DEF Step, Touched
(* One list after the other.                                                *)
LEMMA JoinedPasses ==
    ASSUME NEW p, NEW s, NEW t, NEW A, NEW B, NEW C, Passes(p, s, A, B), Passes(p, t, B, C)
    PROVE  Passes(p, s \o t, A, C)
  <1>1. PICK F : Course(p, s, F) /\ F[1] = A /\ F[Len(s) + 1] = B
    BY DEF Passes
  <1>2. PICK G : Course(p, t, G) /\ G[1] = B /\ G[Len(t) + 1] = C
    BY DEF Passes
  <1>3. IsList(s) /\ IsList(t)
    BY <1>1, <1>2 DEF Course
  <1>4. /\ IsList(s \o t) /\ Len(s \o t) = Len(s) + Len(t)
        /\ \A i \in 1..Len(s) : (s \o t)[i] = s[i]
        /\ \A i \in 1..Len(t) : (s \o t)[Len(s) + i] = t[i]
    BY <1>3, JoinedAt
  <1>5. Len(s) \in Nat \ {0} /\ Len(t) \in Nat \ {0}
    BY <1>3 DEF IsList
  <1> DEFINE n == Len(s)
             m == Len(t)
             H == [k \in 1..n + m + 1 |-> IF k <= n + 1 THEN F[k] ELSE G[k - n]]
  <1>6. /\ \A k \in 1..n + 1 : H[k] = F[k]
        /\ \A k \in 1..m + 1 : H[n + k] = G[k]
    <2>1. ASSUME NEW k \in 1..m + 1 PROVE H[n + k] = G[k]
      <3>1. n + k \in 1..n + m + 1 /\ (n + k) - n = k
        BY <1>5
      <3>2. CASE k = 1
        <4>1. H[n + k] = F[n + 1]
          BY <1>5, <3>1, <3>2
        <4> QED BY <1>1, <1>2, <3>2, <4>1
      <3>3. CASE k # 1
        BY <1>5, <3>1, <3>3
      <3> QED BY <3>2, <3>3
    <2> QED BY <1>5, <2>1
  <1>7. ASSUME NEW k \in 1..n + m PROVE Step(p, (s \o t)[k], H[k], H[k + 1])
    <2>1. CASE k <= n
      <3>1. k \in 1..n + 1 /\ k + 1 \in 1..n + 1 /\ k \in 1..n
        BY <1>5, <1>7, <2>1
      <3>2. H[k] = F[k] /\ H[k + 1] = F[k + 1] /\ (s \o t)[k] = s[k]
        BY <1>4, <1>6, <3>1
      <3> QED BY <1>1, <3>1, <3>2 DEF Course
    <2>2. CASE k > n
      <3>1. PICK i \in 1..m : k = n + i
        <4>1. k - n \in 1..m /\ k = n + (k - n)
          BY <1>5, <1>7, <2>2
        <4> QED BY <4>1
      <3>2. i \in 1..m + 1 /\ i + 1 \in 1..m + 1 /\ k + 1 = n + (i + 1)
        BY <1>5, <3>1
      <3>3. H[k] = G[i] /\ H[k + 1] = G[i + 1] /\ (s \o t)[k] = t[i]
        BY <1>4, <1>6, <3>1, <3>2
      <3> QED BY <1>2, <3>1, <3>3 DEF Course
    <2> QED BY <1>5, <2>1, <2>2
  <1>8. Course(p, s \o t, H)
    BY <1>4, <1>7 DEF Course
  <1>9. H[1] = A /\ H[Len(s \o t) + 1] = C
    <2>1. 1 \in 1..n + 1 /\ m + 1 \in 1..m + 1 /\ (n + m) + 1 = n + (m + 1)
      BY <1>5
    <2> QED BY <1>1, <1>2, <1>4, <1>6, <2>1
  <1> HIDE DEF H
  <1> QED BY <1>8, <1>9 DEF Passes

(* A list of one call.                                                      *)
LEMMA PassesOfOne ==
    ASSUME NEW p, NEW c1, NEW A1, NEW A2, Step(p, c1, A1, A2)
    PROVE  Passes(p, <<c1>>, A1, A2)
  <1>1. PICK s : s = <<c1>>
    OBVIOUS
  <1>2. PICK H : H = <<A1, A2>>
    OBVIOUS
  <1>3. IsList(s) /\ Len(s) = 1
    BY <1>1, IsListOfOne
  <1>4. \A k \in 1..1 : Step(p, s[k], H[k], H[k + 1])
    BY <1>1, <1>2
  <1>5. H[1] = A1 /\ H[1 + 1] = A2
    BY <1>2
  <1>6. Course(p, s, H)
    BY <1>3, <1>4 DEF Course
  <1> QED BY <1>1, <1>3, <1>5, <1>6 DEF Passes

(* Two calls.                                                               *)
LEMMA PassesOfTwo ==
    ASSUME NEW p, NEW c1, NEW c2, NEW A1, NEW A2, NEW A3, Step(p, c1, A1, A2),
           Step(p, c2, A2, A3)
    PROVE  Passes(p, <<c1, c2>>, A1, A3)
  <1>1. PICK s : s = <<c1, c2>>
    OBVIOUS
  <1>2. PICK H : H = <<A1, A2, A3>>
    OBVIOUS
  <1>3. IsList(s) /\ Len(s) = 2
    BY <1>1, IsListOfTwo
  <1>4. \A k \in 1..2 : Step(p, s[k], H[k], H[k + 1])
    BY <1>1, <1>2
  <1>5. H[1] = A1 /\ H[2 + 1] = A3
    BY <1>2
  <1>6. Course(p, s, H)
    BY <1>3, <1>4 DEF Course
  <1> QED BY <1>1, <1>3, <1>5, <1>6 DEF Passes

(* Three calls.                                                             *)
LEMMA PassesOfThree ==
    ASSUME NEW p, NEW c1, NEW c2, NEW c3, NEW A1, NEW A2, NEW A3, NEW A4, Step(p, c1, A1, A2),
           Step(p, c2, A2, A3), Step(p, c3, A3, A4)
    PROVE  Passes(p, <<c1, c2, c3>>, A1, A4)
  <1>1. PICK s : s = <<c1, c2, c3>>
    OBVIOUS
  <1>2. PICK H : H = <<A1, A2, A3, A4>>
    OBVIOUS
  <1>3. IsList(s) /\ Len(s) = 3
    BY <1>1, IsListOfThree
  <1>4. \A k \in 1..3 : Step(p, s[k], H[k], H[k + 1])
    BY <1>1, <1>2
  <1>5. H[1] = A1 /\ H[3 + 1] = A4
    BY <1>2
  <1>6. Course(p, s, H)
    BY <1>3, <1>4 DEF Course
  <1> QED BY <1>1, <1>3, <1>5, <1>6 DEF Passes

(* Four calls.                                                              *)
LEMMA PassesOfFour ==
    ASSUME NEW p, NEW c1, NEW c2, NEW c3, NEW c4, NEW A1, NEW A2, NEW A3, NEW A4, NEW A5,
           Step(p, c1, A1, A2), Step(p, c2, A2, A3), Step(p, c3, A3, A4), Step(p, c4, A4, A5)
    PROVE  Passes(p, <<c1, c2, c3, c4>>, A1, A5)
  <1>1. PICK s : s = <<c1, c2, c3, c4>>
    OBVIOUS
  <1>2. PICK H : H = <<A1, A2, A3, A4, A5>>
    OBVIOUS
  <1>3. IsList(s) /\ Len(s) = 4
    BY <1>1, IsListOfFour
  <1>4. \A k \in 1..4 : Step(p, s[k], H[k], H[k + 1])
    BY <1>1, <1>2
  <1>5. H[1] = A1 /\ H[4 + 1] = A5
    BY <1>2
  <1>6. Course(p, s, H)
    BY <1>3, <1>4 DEF Course
  <1> QED BY <1>1, <1>3, <1>5, <1>6 DEF Passes

(* A list of six calls.                                                       *)
LEMMA PassesAllSix ==
    ASSUME NEW p, NEW s, NEW H, IsList(s), Len(s) = 6,
           Step(p, s[1], H[1], H[2]), Step(p, s[2], H[2], H[3]), Step(p, s[3], H[3], H[4]),
           Step(p, s[4], H[4], H[5]), Step(p, s[5], H[5], H[6]), Step(p, s[6], H[6], H[7])
    PROVE  Passes(p, s, H[1], H[7])
  <1>1. ASSUME NEW k \in 1..6 PROVE Step(p, s[k], H[k], H[k + 1])
    <2>1. \/ k = 1 \/ k = 2 \/ k = 3 \/ k = 4 \/ k = 5 \/ k = 6
      OBVIOUS
    <2> QED BY <2>1
  <1>2. Course(p, s, H)
    BY <1>1 DEF Course
  <1> QED BY <1>2 DEF Passes

(* A list of seven calls.                                                     *)
LEMMA PassesAllSeven ==
    ASSUME NEW p, NEW s, NEW H, IsList(s), Len(s) = 7,
           Step(p, s[1], H[1], H[2]), Step(p, s[2], H[2], H[3]), Step(p, s[3], H[3], H[4]),
           Step(p, s[4], H[4], H[5]), Step(p, s[5], H[5], H[6]), Step(p, s[6], H[6], H[7]),
           Step(p, s[7], H[7], H[8])
    PROVE  Passes(p, s, H[1], H[8])
  <1>1. ASSUME NEW k \in 1..7 PROVE Step(p, s[k], H[k], H[k + 1])
    <2>1. \/ k = 1 \/ k = 2 \/ k = 3 \/ k = 4 \/ k = 5 \/ k = 6 \/ k = 7
      OBVIOUS
    <2> QED BY <2>1
  <1>2. Course(p, s, H)
    BY <1>1 DEF Course
  <1> QED BY <1>2 DEF Passes

(* A list of eight calls.                                                     *)
LEMMA PassesAllEight ==
    ASSUME NEW p, NEW s, NEW H, IsList(s), Len(s) = 8,
           Step(p, s[1], H[1], H[2]), Step(p, s[2], H[2], H[3]), Step(p, s[3], H[3], H[4]),
           Step(p, s[4], H[4], H[5]), Step(p, s[5], H[5], H[6]), Step(p, s[6], H[6], H[7]),
           Step(p, s[7], H[7], H[8]), Step(p, s[8], H[8], H[9])
    PROVE  Passes(p, s, H[1], H[9])
  <1>1. ASSUME NEW k \in 1..8 PROVE Step(p, s[k], H[k], H[k + 1])
    <2>1. \/ k = 1 \/ k = 2 \/ k = 3 \/ k = 4 \/ k = 5 \/ k = 6 \/ k = 7
          \/ k = 8
      OBVIOUS
    <2> QED BY <2>1
  <1>2. Course(p, s, H)
    BY <1>1 DEF Course
  <1> QED BY <1>2 DEF Passes

(* A list of nine calls.                                                      *)
LEMMA PassesAllNine ==
    ASSUME NEW p, NEW s, NEW H, IsList(s), Len(s) = 9,
           Step(p, s[1], H[1], H[2]), Step(p, s[2], H[2], H[3]), Step(p, s[3], H[3], H[4]),
           Step(p, s[4], H[4], H[5]), Step(p, s[5], H[5], H[6]), Step(p, s[6], H[6], H[7]),
           Step(p, s[7], H[7], H[8]), Step(p, s[8], H[8], H[9]), Step(p, s[9], H[9], H[10])
    PROVE  Passes(p, s, H[1], H[10])
  <1>1. ASSUME NEW k \in 1..9 PROVE Step(p, s[k], H[k], H[k + 1])
    <2>1. \/ k = 1 \/ k = 2 \/ k = 3 \/ k = 4 \/ k = 5 \/ k = 6 \/ k = 7
          \/ k = 8 \/ k = 9
      OBVIOUS
    <2> QED BY <2>1
  <1>2. Course(p, s, H)
    BY <1>1 DEF Course
  <1> QED BY <1>2 DEF Passes

(* A list of fourteen calls.                                                  *)
LEMMA PassesAllFourteen ==
    ASSUME NEW p, NEW s, NEW H, IsList(s), Len(s) = 14,
           Step(p, s[1], H[1], H[2]), Step(p, s[2], H[2], H[3]), Step(p, s[3], H[3], H[4]),
           Step(p, s[4], H[4], H[5]), Step(p, s[5], H[5], H[6]), Step(p, s[6], H[6], H[7]),
           Step(p, s[7], H[7], H[8]), Step(p, s[8], H[8], H[9]), Step(p, s[9], H[9], H[10]),
           Step(p, s[10], H[10], H[11]), Step(p, s[11], H[11], H[12]),
           Step(p, s[12], H[12], H[13]), Step(p, s[13], H[13], H[14]),
           Step(p, s[14], H[14], H[15])
    PROVE  Passes(p, s, H[1], H[15])
  <1>1. ASSUME NEW k \in 1..14 PROVE Step(p, s[k], H[k], H[k + 1])
    <2>1. \/ k = 1 \/ k = 2 \/ k = 3 \/ k = 4 \/ k = 5 \/ k = 6 \/ k = 7
          \/ k = 8 \/ k = 9 \/ k = 10 \/ k = 11 \/ k = 12 \/ k = 13 \/ k = 14
      OBVIOUS
    <2> QED BY <2>1
  <1>2. Course(p, s, H)
    BY <1>1 DEF Course
  <1> QED BY <1>2 DEF Passes

(* A list of twenty calls.                                                    *)
LEMMA PassesAllTwenty ==
    ASSUME NEW p, NEW s, NEW H, IsList(s), Len(s) = 20,
           Step(p, s[1], H[1], H[2]), Step(p, s[2], H[2], H[3]), Step(p, s[3], H[3], H[4]),
           Step(p, s[4], H[4], H[5]), Step(p, s[5], H[5], H[6]), Step(p, s[6], H[6], H[7]),
           Step(p, s[7], H[7], H[8]), Step(p, s[8], H[8], H[9]), Step(p, s[9], H[9], H[10]),
           Step(p, s[10], H[10], H[11]), Step(p, s[11], H[11], H[12]),
           Step(p, s[12], H[12], H[13]), Step(p, s[13], H[13], H[14]),
           Step(p, s[14], H[14], H[15]), Step(p, s[15], H[15], H[16]),
           Step(p, s[16], H[16], H[17]), Step(p, s[17], H[17], H[18]),
           Step(p, s[18], H[18], H[19]), Step(p, s[19], H[19], H[20]),
           Step(p, s[20], H[20], H[21])
    PROVE  Passes(p, s, H[1], H[21])
  <1>1. ASSUME NEW k \in 1..20 PROVE Step(p, s[k], H[k], H[k + 1])
    <2>1. \/ k = 1 \/ k = 2 \/ k = 3 \/ k = 4 \/ k = 5 \/ k = 6 \/ k = 7
          \/ k = 8 \/ k = 9 \/ k = 10 \/ k = 11 \/ k = 12 \/ k = 13 \/ k = 14
          \/ k = 15 \/ k = 16 \/ k = 17 \/ k = 18 \/ k = 19 \/ k = 20
      OBVIOUS
    <2> QED BY <2>1
  <1>2. Course(p, s, H)
    BY <1>1 DEF Course
  <1> QED BY <1>2 DEF Passes

-----------------------------------------------------------------------------
(* The programs, one by one.                                               *)

(* main comes to its end and leaves no more than it is known to leave.      *)
Runs(p, s) == \E objects : Passes(p, s, {}, objects) /\ EndsTidy(p, objects)

(* A call's error that leaves nothing behind, but for the filter.           *)
LEMMA LeavesNothing ==
    ASSUME NEW p, NEW name, NEW A, A \subseteq {"fcode"}
    PROVE  LeavesTidy(p, name, A)
  BY DEF LeavesTidy

(* And an end that does.                                                    *)
LEMMA EndsWithNothing ==
    ASSUME NEW p, NEW A, A \subseteq {"fcode"}
    PROVE  EndsTidy(p, A)
  BY DEF EndsTidy

(* The devices are found and one is chosen.                                 *)
LEMMA PickPasses ==
    ASSUME NEW p
    PROVE  Passes(p, Pick, {}, {"alldevs"})
  <1>1. PICK s : /\ s = <<Find, Checks("no_devices", {"alldevs"}, {"alldevs"}),
                          Checks("inum", {"alldevs"}, {"alldevs"})>>
                 /\ Passes(p, s, {}, {"alldevs"})
    <2>1. Step(p, Find, {}, {"alldevs"})
      BY GetsStep, LeavesNothing DEF Find
    <2>2. Step(p, Checks("no_devices", {"alldevs"}, {"alldevs"}), {"alldevs"}, {"alldevs"})
      BY ChecksStep, LeavesNothing
    <2>3. Step(p, Checks("inum", {"alldevs"}, {"alldevs"}), {"alldevs"}, {"alldevs"})
      BY ChecksStep, LeavesNothing
    <2> QED BY <2>1, <2>2, <2>3, PassesOfThree
  <1>2. s = Pick
    BY <1>1 DEF Pick
  <1> QED BY <1>1, <1>2

(* And opened.                                                              *)
LEMMA PickAndOpenPasses ==
    ASSUME NEW p
    PROVE  Passes(p, PickAndOpen, {}, {"alldevs", "adhandle"})
  <1>1. PICK s : /\ s = <<OpenChosen("adhandle", {"alldevs"})>>
                 /\ Passes(p, s, {"alldevs"}, {"alldevs", "adhandle"})
    <2>1. Step(p, OpenChosen("adhandle", {"alldevs"}), {"alldevs"}, {"alldevs", "adhandle"})
      BY GetsStep, LeavesNothing DEF OpenChosen
    <2> QED BY <2>1, PassesOfOne
  <1>2. Pick \o s = PickAndOpen
    BY <1>1 DEF PickAndOpen
  <1> QED BY <1>1, <1>2, PickPasses, JoinedPasses

(* basic_dump, whose remote variant leaves the capture open.                *)
LEMMA BasicDumpsRun ==
    ASSUME NEW p
    PROVE  /\ Runs(p, BasicDump[1])
           /\ p = "basic_dump_remote" => Runs(p, BasicDumpRemote[1])
  <1>1. PICK s : /\ s = <<Listening, FreeDevs, Loop("adhandle", "net", "print"), Close("adhandle")>>
                 /\ Passes(p, s, {"alldevs", "adhandle"}, {})
    <2>1. Step(p, Listening, {"alldevs", "adhandle"}, {"alldevs", "adhandle"})
      BY UsesStep DEF Listening
    <2>2. Step(p, FreeDevs, {"alldevs", "adhandle"}, {"adhandle"})
      BY DropsStep DEF FreeDevs
    <2>3. Step(p, Loop("adhandle", "net", "print"), {"adhandle"}, {"adhandle"})
      BY LoopStep
    <2>4. Step(p, Close("adhandle"), {"adhandle"}, {})
      BY DropsStep DEF Close
    <2> QED BY <2>1, <2>2, <2>3, <2>4, PassesOfFour
  <1>2. PICK t : /\ t = <<Listening, FreeDevs, Loop("adhandle", "net", "print")>>
                 /\ Passes(p, t, {"alldevs", "adhandle"}, {"adhandle"})
    <2>1. Step(p, Listening, {"alldevs", "adhandle"}, {"alldevs", "adhandle"})
      BY UsesStep DEF Listening
    <2>2. Step(p, FreeDevs, {"alldevs", "adhandle"}, {"adhandle"})
      BY DropsStep DEF FreeDevs
    <2>3. Step(p, Loop("adhandle", "net", "print"), {"adhandle"}, {"adhandle"})
      BY LoopStep
    <2> QED BY <2>1, <2>2, <2>3, PassesOfThree
  <1>3. Runs(p, BasicDump[1])
    <2>1. Passes(p, PickAndOpen \o s, {}, {})
      BY <1>1, PickAndOpenPasses, JoinedPasses
    <2>2. PickAndOpen \o s = BasicDump[1]
      BY <1>1 DEF BasicDump
    <2>3. EndsTidy(p, {})
      BY EndsWithNothing
    <2> QED BY <2>1, <2>2, <2>3 DEF Runs
  <1>4. ASSUME p = "basic_dump_remote" PROVE Runs(p, BasicDumpRemote[1])
    <2>1. Passes(p, PickAndOpen \o t, {}, {"adhandle"})
      BY <1>2, PickAndOpenPasses, JoinedPasses
    <2>2. PickAndOpen \o t = BasicDumpRemote[1]
      BY <1>2 DEF BasicDumpRemote
    <2>3. EndsTidy(p, {"adhandle"})
      BY <1>4 DEF EndsTidy, LeftWhenDone
    <2> QED BY <2>1, <2>2, <2>3 DEF Runs
  <1> QED BY <1>3, <1>4

(* basic_dump_ex, which leaves it open where an error ends the capture.     *)
LEMMA BasicDumpExsRun ==
    ASSUME NEW p, p \in {"basic_dump_ex", "basic_dump_ex_remote"}
    PROVE  /\ Runs(p, BasicDumpEx[1])
           /\ p = "basic_dump_ex_remote" => Runs(p, BasicDumpExRemote[1])
  <1>1. PICK s : /\ s = <<Listening, FreeDevs, LoopOrReturn("adhandle", "net", "print", {}),
                          Close("adhandle")>>
                 /\ Passes(p, s, {"alldevs", "adhandle"}, {})
    <2>1. Step(p, Listening, {"alldevs", "adhandle"}, {"alldevs", "adhandle"})
      BY UsesStep DEF Listening
    <2>2. Step(p, FreeDevs, {"alldevs", "adhandle"}, {"adhandle"})
      BY DropsStep DEF FreeDevs
    <2>3. Step(p, LoopOrReturn("adhandle", "net", "print", {}), {"adhandle"}, {"adhandle"})
      <3>1. LeavesTidy(p, "pcap_loop", {"adhandle"} \ {})
        BY DEF LeavesTidy, LeftWhenFailed
      <3> QED BY <3>1, LoopOrReturnStep
    <2>4. Step(p, Close("adhandle"), {"adhandle"}, {})
      BY DropsStep DEF Close
    <2> QED BY <2>1, <2>2, <2>3, <2>4, PassesOfFour
  <1>2. PICK t : /\ t = <<Listening, FreeDevs, LoopOrReturn("adhandle", "net", "print", {})>>
                 /\ Passes(p, t, {"alldevs", "adhandle"}, {"adhandle"})
    <2>1. Step(p, Listening, {"alldevs", "adhandle"}, {"alldevs", "adhandle"})
      BY UsesStep DEF Listening
    <2>2. Step(p, FreeDevs, {"alldevs", "adhandle"}, {"adhandle"})
      BY DropsStep DEF FreeDevs
    <2>3. Step(p, LoopOrReturn("adhandle", "net", "print", {}), {"adhandle"}, {"adhandle"})
      <3>1. LeavesTidy(p, "pcap_loop", {"adhandle"} \ {})
        BY DEF LeavesTidy, LeftWhenFailed
      <3> QED BY <3>1, LoopOrReturnStep
    <2> QED BY <2>1, <2>2, <2>3, PassesOfThree
  <1>3. Runs(p, BasicDumpEx[1])
    <2>1. Passes(p, PickAndOpen \o s, {}, {})
      BY <1>1, PickAndOpenPasses, JoinedPasses
    <2>2. PickAndOpen \o s = BasicDumpEx[1]
      BY <1>1 DEF BasicDumpEx
    <2>3. EndsTidy(p, {})
      BY EndsWithNothing
    <2> QED BY <2>1, <2>2, <2>3 DEF Runs
  <1>4. ASSUME p = "basic_dump_ex_remote" PROVE Runs(p, BasicDumpExRemote[1])
    <2>1. Passes(p, PickAndOpen \o t, {}, {"adhandle"})
      BY <1>2, PickAndOpenPasses, JoinedPasses
    <2>2. PickAndOpen \o t = BasicDumpExRemote[1]
      BY <1>2 DEF BasicDumpExRemote
    <2>3. EndsTidy(p, {"adhandle"})
      BY <1>4 DEF EndsTidy, LeftWhenDone
    <2> QED BY <2>1, <2>2, <2>3 DEF Runs
  <1> QED BY <1>3, <1>4

(* savedump, which leaves everything where the dump file is not opened.     *)
LEMMA SavedumpsRun ==
    ASSUME NEW p, p \in {"savedump", "savedump_remote"}
    PROVE  /\ Runs(p, Savedump[1])
           /\ p = "savedump_remote" => Runs(p, SavedumpRemote[1])
  <1>1. PICK s : s = <<Argc>> /\ Passes(p, s, {}, {})
    <2>1. Step(p, Argc, {}, {})
      BY ChecksStep, LeavesNothing DEF Argc
    <2> QED BY <2>1, PassesOfOne
  <1>2. PICK t : /\ t = <<DumpOpen("adhandle", {}), Listening, FreeDevs,
                          Loop("adhandle", "net", "dump")>>
                 /\ Passes(p, t, {"alldevs", "adhandle"}, {"adhandle", "dumpfile"})
    <2>1. Step(p, DumpOpen("adhandle", {}),
              {"alldevs", "adhandle"}, {"alldevs", "adhandle", "dumpfile"})
      <3>1. LeavesTidy(p, "pcap_dump_open", {"alldevs", "adhandle"} \ {})
        BY DEF LeavesTidy, LeftWhenFailed
      <3> QED BY <3>1, GetsStep DEF DumpOpen
    <2>2. Step(p, Listening,
              {"alldevs", "adhandle", "dumpfile"}, {"alldevs", "adhandle", "dumpfile"})
      BY UsesStep DEF Listening
    <2>3. Step(p, FreeDevs, {"alldevs", "adhandle", "dumpfile"}, {"adhandle", "dumpfile"})
      BY DropsStep DEF FreeDevs
    <2>4. Step(p, Loop("adhandle", "net", "dump"),
              {"adhandle", "dumpfile"}, {"adhandle", "dumpfile"})
      BY LoopStep
    <2> QED BY <2>1, <2>2, <2>3, <2>4, PassesOfFour
  <1>3. PICK u : u = <<Close("adhandle")>> /\ Passes(p, u, {"adhandle", "dumpfile"}, {"dumpfile"})
    <2>1. Step(p, Close("adhandle"), {"adhandle", "dumpfile"}, {"dumpfile"})
      BY DropsStep DEF Close
    <2> QED BY <2>1, PassesOfOne
  <1>4. Runs(p, Savedump[1])
    <2>1. Passes(p, s \o PickAndOpen \o t \o u, {}, {"dumpfile"})
      BY <1>1, <1>2, <1>3, PickAndOpenPasses, JoinedPasses
    <2>2. s \o PickAndOpen \o t \o u = Savedump[1]
      BY <1>1, <1>2, <1>3 DEF Savedump, SavedumpStart
    <2>3. EndsTidy(p, {"dumpfile"})
      BY DEF EndsTidy, LeftWhenDone
    <2> QED BY <2>1, <2>2, <2>3 DEF Runs
  <1>5. ASSUME p = "savedump_remote" PROVE Runs(p, SavedumpRemote[1])
    <2>1. Passes(p, s \o PickAndOpen \o t, {}, {"adhandle", "dumpfile"})
      BY <1>1, <1>2, PickAndOpenPasses, JoinedPasses
    <2>2. s \o PickAndOpen \o t = SavedumpRemote[1]
      BY <1>1, <1>2 DEF SavedumpRemote, SavedumpStart
    <2>3. EndsTidy(p, {"adhandle", "dumpfile"})
      BY <1>5 DEF EndsTidy, LeftWhenDone
    <2> QED BY <2>1, <2>2, <2>3 DEF Runs
  <1> QED BY <1>4, <1>5

(* The programs that read a file.                                           *)
LEMMA ReadersRun ==
    ASSUME NEW p
    PROVE  /\ Runs(p, Readfile[1])
           /\ Runs(p, ReadfileEx[1])
           /\ p = "readfile_remote" => Runs(p, ReadfileRemote[1])
           /\ p = "readfile_ex_remote" => Runs(p, ReadfileExRemote[1])
  <1>1. PICK s : /\ s = <<Argc, Open("fp", {}), Loop("fp", "file", "print"), Close("fp")>>
                 /\ Passes(p, s, {}, {})
    <2>1. Step(p, Argc, {}, {})
      BY ChecksStep, LeavesNothing DEF Argc
    <2>2. Step(p, Open("fp", {}), {}, {"fp"})
      BY GetsStep, LeavesNothing DEF Open
    <2>3. Step(p, Loop("fp", "file", "print"), {"fp"}, {"fp"})
      BY LoopStep
    <2>4. Step(p, Close("fp"), {"fp"}, {})
      BY DropsStep DEF Close
    <2> QED BY <2>1, <2>2, <2>3, <2>4, PassesOfFour
  <1>2. PICK t : /\ t = <<Argc, SourceName, Open("fp", {}), Loop("fp", "file", "print")>>
                 /\ Passes(p, t, {}, {"fp"})
    <2>1. Step(p, Argc, {}, {})
      BY ChecksStep, LeavesNothing DEF Argc
    <2>2. Step(p, SourceName, {}, {})
      BY ChecksStep, LeavesNothing DEF SourceName
    <2>3. Step(p, Open("fp", {}), {}, {"fp"})
      BY GetsStep, LeavesNothing DEF Open
    <2>4. Step(p, Loop("fp", "file", "print"), {"fp"}, {"fp"})
      BY LoopStep
    <2> QED BY <2>1, <2>2, <2>3, <2>4, PassesOfFour
  <1>3. Runs(p, Readfile[1])
    <2>1. Passes(p, s, {}, {})
      BY <1>1
    <2>2. s = Readfile[1]
      BY <1>1 DEF Readfile
    <2>3. EndsTidy(p, {})
      BY EndsWithNothing
    <2> QED BY <2>1, <2>2, <2>3 DEF Runs
  <1>4. Runs(p, ReadfileEx[1])
    <2>1. Passes(p, s, {}, {})
      BY <1>1
    <2>2. s = ReadfileEx[1]
      BY <1>1 DEF ReadfileEx
    <2>3. EndsTidy(p, {})
      BY EndsWithNothing
    <2> QED BY <2>1, <2>2, <2>3 DEF Runs
  <1>5. ASSUME p = "readfile_remote" PROVE Runs(p, ReadfileRemote[1])
    <2>1. Passes(p, t, {}, {"fp"})
      BY <1>2
    <2>2. t = ReadfileRemote[1]
      BY <1>2 DEF ReadfileRemote
    <2>3. EndsTidy(p, {"fp"})
      BY <1>5 DEF EndsTidy, LeftWhenDone
    <2> QED BY <2>1, <2>2, <2>3 DEF Runs
  <1>6. ASSUME p = "readfile_ex_remote" PROVE Runs(p, ReadfileExRemote[1])
    <2>1. Passes(p, t, {}, {"fp"})
      BY <1>2
    <2>2. t = ReadfileExRemote[1]
      BY <1>2 DEF ReadfileExRemote
    <2>3. EndsTidy(p, {"fp"})
      BY <1>6 DEF EndsTidy, LeftWhenDone
    <2> QED BY <2>1, <2>2, <2>3 DEF Runs
  <1> QED BY <1>3, <1>4, <1>5, <1>6

(* The programs that send one packet.                                       *)
LEMMA SendersRun ==
    ASSUME NEW p, p \in {"sendpack", "sendpack_remote"}
    PROVE  /\ Runs(p, Sendpack[1])
           /\ p = "sendpack_remote" => Runs(p, SendpackRemote[1])
  <1>1. PICK s : /\ s = <<Argc, Open("fp", {}), SendPacket("fp"), Close("fp")>>
                 /\ Passes(p, s, {}, {})
    <2>1. Step(p, Argc, {}, {})
      BY ChecksStep, LeavesNothing DEF Argc
    <2>2. Step(p, Open("fp", {}), {}, {"fp"})
      BY GetsStep, LeavesNothing DEF Open
    <2>3. Step(p, SendPacket("fp"), {"fp"}, {"fp"})
      <3>1. LeavesTidy(p, "pcap_sendpacket", {"fp"} \ {})
        BY DEF LeavesTidy, LeftWhenFailed
      <3> QED BY <3>1, ChecksStep DEF SendPacket
    <2>4. Step(p, Close("fp"), {"fp"}, {})
      BY DropsStep DEF Close
    <2> QED BY <2>1, <2>2, <2>3, <2>4, PassesOfFour
  <1>2. PICK t : t = <<Argc, Open("fp", {}), SendPacket("fp")>> /\ Passes(p, t, {}, {"fp"})
    <2>1. Step(p, Argc, {}, {})
      BY ChecksStep, LeavesNothing DEF Argc
    <2>2. Step(p, Open("fp", {}), {}, {"fp"})
      BY GetsStep, LeavesNothing DEF Open
    <2>3. Step(p, SendPacket("fp"), {"fp"}, {"fp"})
      <3>1. LeavesTidy(p, "pcap_sendpacket", {"fp"} \ {})
        BY DEF LeavesTidy, LeftWhenFailed
      <3> QED BY <3>1, ChecksStep DEF SendPacket
    <2> QED BY <2>1, <2>2, <2>3, PassesOfThree
  <1>3. Runs(p, Sendpack[1])
    <2>1. Passes(p, s, {}, {})
      BY <1>1
    <2>2. s = Sendpack[1]
      BY <1>1 DEF Sendpack
    <2>3. EndsTidy(p, {})
      BY EndsWithNothing
    <2> QED BY <2>1, <2>2, <2>3 DEF Runs
  <1>4. ASSUME p = "sendpack_remote" PROVE Runs(p, SendpackRemote[1])
    <2>1. Passes(p, t, {}, {"fp"})
      BY <1>2
    <2>2. t = SendpackRemote[1]
      BY <1>2 DEF SendpackRemote
    <2>3. EndsTidy(p, {"fp"})
      BY <1>4 DEF EndsTidy, LeftWhenDone
    <2> QED BY <2>1, <2>2, <2>3 DEF Runs
  <1> QED BY <1>3, <1>4

(* pktdump_ex, which keeps the list.                                        *)
LEMMA PktdumpsRun ==
    ASSUME NEW p, p \in {"pktdump_ex", "pktdump_ex_remote"}
    PROVE  /\ Runs(p, PktdumpEx[1])
           /\ Runs(p, PktdumpEx[2])
           /\ p = "pktdump_ex_remote" => Runs(p, PktdumpExRemote[1])
           /\ p = "pktdump_ex_remote" => Runs(p, PktdumpExRemote[2])
           /\ p = "pktdump_ex_remote" => Runs(p, PktdumpExRemote[3])
  <1>1. PICK s : /\ s = <<OpenChosen("fp", {}), LoopOrReturn("fp", "net", "print", {}),
                          Close("fp")>>
                 /\ Passes(p, s, {"alldevs"}, {"alldevs"})
    <2>1. Step(p, OpenChosen("fp", {}), {"alldevs"}, {"alldevs", "fp"})
      <3>1. LeavesTidy(p, "pcap_open", {"alldevs"} \ {})
        BY DEF LeavesTidy, LeftWhenFailed
      <3> QED BY <3>1, GetsStep DEF OpenChosen
    <2>2. Step(p, LoopOrReturn("fp", "net", "print", {}), {"alldevs", "fp"}, {"alldevs", "fp"})
      <3>1. LeavesTidy(p, "pcap_loop", {"alldevs", "fp"} \ {})
        BY DEF LeavesTidy, LeftWhenFailed
      <3>2. p \in KeepsList
        BY DEF KeepsList
      <3> QED BY <3>1, <3>2, LoopOrReturnStep
    <2>3. Step(p, Close("fp"), {"alldevs", "fp"}, {"alldevs"})
      BY DropsStep DEF Close
    <2> QED BY <2>1, <2>2, <2>3, PassesOfThree
  <1>2. PICK t : /\ t = <<Open("fp", {}), LoopOrReturn("fp", "net", "print", {}), Close("fp")>>
                 /\ Passes(p, t, {}, {})
    <2>1. Step(p, Open("fp", {}), {}, {"fp"})
      BY GetsStep, LeavesNothing DEF Open
    <2>2. Step(p, LoopOrReturn("fp", "net", "print", {}), {"fp"}, {"fp"})
      <3>1. LeavesTidy(p, "pcap_loop", {"fp"} \ {})
        BY DEF LeavesTidy, LeftWhenFailed
      <3> QED BY <3>1, LoopOrReturnStep
    <2>3. Step(p, Close("fp"), {"fp"}, {})
      BY DropsStep DEF Close
    <2> QED BY <2>1, <2>2, <2>3, PassesOfThree
  <1>3. PICK u : /\ u = <<OpenChosen("fp", {}), LoopOrReturn("fp", "net", "print", {})>>
                 /\ Passes(p, u, {"alldevs"}, {"alldevs", "fp"})
    <2>1. Step(p, OpenChosen("fp", {}), {"alldevs"}, {"alldevs", "fp"})
      <3>1. LeavesTidy(p, "pcap_open", {"alldevs"} \ {})
        BY DEF LeavesTidy, LeftWhenFailed
      <3> QED BY <3>1, GetsStep DEF OpenChosen
    <2>2. Step(p, LoopOrReturn("fp", "net", "print", {}), {"alldevs", "fp"}, {"alldevs", "fp"})
      <3>1. LeavesTidy(p, "pcap_loop", {"alldevs", "fp"} \ {})
        BY DEF LeavesTidy, LeftWhenFailed
      <3>2. p \in KeepsList
        BY DEF KeepsList
      <3> QED BY <3>1, <3>2, LoopOrReturnStep
    <2> QED BY <2>1, <2>2, PassesOfTwo
  <1>4. PICK v : /\ v = <<Open("fp", {}), LoopOrReturn("fp", "net", "print", {})>>
                 /\ Passes(p, v, {}, {"fp"})
    <2>1. Step(p, Open("fp", {}), {}, {"fp"})
      BY GetsStep, LeavesNothing DEF Open
    <2>2. Step(p, LoopOrReturn("fp", "net", "print", {}), {"fp"}, {"fp"})
      <3>1. LeavesTidy(p, "pcap_loop", {"fp"} \ {})
        BY DEF LeavesTidy, LeftWhenFailed
      <3> QED BY <3>1, LoopOrReturnStep
    <2> QED BY <2>1, <2>2, PassesOfTwo
  <1>5. PICK w : /\ w = <<Open("fp", {}), LoopOrReturn("fp", "file", "print", {})>>
                 /\ Passes(p, w, {}, {"fp"})
    <2>1. Step(p, Open("fp", {}), {}, {"fp"})
      BY GetsStep, LeavesNothing DEF Open
    <2>2. Step(p, LoopOrReturn("fp", "file", "print", {}), {"fp"}, {"fp"})
      <3>1. LeavesTidy(p, "pcap_loop", {"fp"} \ {})
        BY DEF LeavesTidy, LeftWhenFailed
      <3> QED BY <3>1, LoopOrReturnStep
    <2> QED BY <2>1, <2>2, PassesOfTwo
  <1>6. Runs(p, PktdumpEx[1])
    <2>1. Passes(p, Pick \o s, {}, {"alldevs"})
      BY <1>1, PickPasses, JoinedPasses
    <2>2. Pick \o s = PktdumpEx[1]
      BY <1>1 DEF PktdumpEx
    <2>3. EndsTidy(p, {"alldevs"})
      BY DEF EndsTidy, LeftWhenDone
    <2> QED BY <2>1, <2>2, <2>3 DEF Runs
  <1>7. Runs(p, PktdumpEx[2])
    <2>1. Passes(p, t, {}, {})
      BY <1>2
    <2>2. t = PktdumpEx[2]
      BY <1>2 DEF PktdumpEx
    <2>3. EndsTidy(p, {})
      BY EndsWithNothing
    <2> QED BY <2>1, <2>2, <2>3 DEF Runs
  <1>8. ASSUME p = "pktdump_ex_remote" PROVE Runs(p, PktdumpExRemote[1])
    <2>1. Passes(p, Pick \o u, {}, {"alldevs", "fp"})
      BY <1>3, PickPasses, JoinedPasses
    <2>2. Pick \o u = PktdumpExRemote[1]
      BY <1>3 DEF PktdumpExRemote
    <2>3. EndsTidy(p, {"alldevs", "fp"})
      BY <1>8 DEF EndsTidy, LeftWhenDone
    <2> QED BY <2>1, <2>2, <2>3 DEF Runs
  <1>9. ASSUME p = "pktdump_ex_remote" PROVE Runs(p, PktdumpExRemote[2])
    <2>1. Passes(p, v, {}, {"fp"})
      BY <1>4
    <2>2. v = PktdumpExRemote[2]
      BY <1>4 DEF PktdumpExRemote
    <2>3. EndsTidy(p, {"fp"})
      BY <1>9 DEF EndsTidy, LeftWhenDone
    <2> QED BY <2>1, <2>2, <2>3 DEF Runs
  <1>10. ASSUME p = "pktdump_ex_remote" PROVE Runs(p, PktdumpExRemote[3])
    <2>1. Passes(p, w, {}, {"fp"})
      BY <1>5
    <2>2. w = PktdumpExRemote[3]
      BY <1>5 DEF PktdumpExRemote
    <2>3. EndsTidy(p, {"fp"})
      BY <1>10 DEF EndsTidy, LeftWhenDone
    <2> QED BY <2>1, <2>2, <2>3 DEF Runs
  <1> QED BY <1>6, <1>7, <1>8, <1>9, <1>10

(* smp_1, which keeps it, too.                                              *)
LEMMA SmpRuns ==
    ASSUME NEW p, p = "smp_1"
    PROVE  Runs(p, Smp1[1])
  <1>1. PICK s : /\ s = <<OpenChosen("fp", {"alldevs"}), Uses("clear_old", {}),
                          LoopOrReturn("fp", "net", "consistent", {})>>
                 /\ Passes(p, s, {"alldevs"}, {"alldevs", "fp"})
    <2>1. Step(p, OpenChosen("fp", {"alldevs"}), {"alldevs"}, {"alldevs", "fp"})
      BY GetsStep, LeavesNothing DEF OpenChosen
    <2>2. Step(p, Uses("clear_old", {}), {"alldevs", "fp"}, {"alldevs", "fp"})
      BY UsesStep
    <2>3. Step(p, LoopOrReturn("fp", "net", "consistent", {}),
              {"alldevs", "fp"}, {"alldevs", "fp"})
      <3>1. LeavesTidy(p, "pcap_loop", {"alldevs", "fp"} \ {})
        BY DEF LeavesTidy, LeftWhenFailed
      <3>2. p \in KeepsList
        BY DEF KeepsList
      <3> QED BY <3>1, <3>2, LoopOrReturnStep
    <2> QED BY <2>1, <2>2, <2>3, PassesOfThree
  <1>2. Runs(p, Smp1[1])
    <2>1. Passes(p, Pick \o s, {}, {"alldevs", "fp"})
      BY <1>1, PickPasses, JoinedPasses
    <2>2. Pick \o s = Smp1[1]
      BY <1>1 DEF Smp1
    <2>3. EndsTidy(p, {"alldevs", "fp"})
      BY DEF EndsTidy, LeftWhenDone
    <2> QED BY <2>1, <2>2, <2>3 DEF Runs
  <1> QED BY <1>2

(* UDPdump, which frees the list where it gives up.                         *)
LEMMA UDPdumpRuns ==
    ASSUME NEW p, p \in {"UDPdump", "UDPdump_remote"}
    PROVE  Runs(p, UDPdump[1])
  <1>1. PICK s : /\ s = <<Risky(OpenChosen("adhandle", {"alldevs"})),
                          Checks("pcap_datalink", {"adhandle"}, {"alldevs"}),
                          Risky(Uses("netmask", {"alldevs"})), Compile("adhandle", {"alldevs"}),
                          SetFilter("adhandle", {"alldevs"}), Listening, FreeDevs,
                          Loop("adhandle", "net", "udp")>>
                 /\ Passes(p, s, {"alldevs"}, {"adhandle", "fcode"})
    <2>1. Step(p, Risky(OpenChosen("adhandle", {"alldevs"})), {"alldevs"}, {"alldevs", "adhandle"})
      <3>1. <<p, "pcap_open">> \in GoesDownAt
        BY DEF GoesDownAt
      <3>2. Step(p, OpenChosen("adhandle", {"alldevs"}), {"alldevs"}, {"alldevs", "adhandle"})
        BY GetsStep, LeavesNothing DEF OpenChosen
      <3> QED BY <3>1, <3>2, RiskyGetsStep DEF OpenChosen
    <2>2. Step(p, Checks("pcap_datalink", {"adhandle"}, {"alldevs"}),
              {"alldevs", "adhandle"}, {"alldevs", "adhandle"})
      <3>1. LeavesTidy(p, "pcap_datalink", {"alldevs", "adhandle"} \ {"alldevs"})
        BY DEF LeavesTidy, LeftWhenFailed
      <3> QED BY <3>1, ChecksStep
    <2>3. Step(p, Risky(Uses("netmask", {"alldevs"})),
              {"alldevs", "adhandle"}, {"alldevs", "adhandle"})
      <3>1. <<p, "netmask">> \in GoesDownAt
        BY DEF GoesDownAt
      <3>2. Step(p, Uses("netmask", {"alldevs"}), {"alldevs", "adhandle"}, {"alldevs", "adhandle"})
        BY UsesStep
      <3> QED BY <3>1, <3>2, RiskyUsesStep
    <2>4. Step(p, Compile("adhandle", {"alldevs"}),
              {"alldevs", "adhandle"}, {"alldevs", "adhandle", "fcode"})
      <3>1. LeavesTidy(p, "pcap_compile", {"alldevs", "adhandle"} \ {"alldevs"})
        BY DEF LeavesTidy, LeftWhenFailed
      <3> QED BY <3>1, GetsStep DEF Compile
    <2>5. Step(p, SetFilter("adhandle", {"alldevs"}),
              {"alldevs", "adhandle", "fcode"}, {"alldevs", "adhandle", "fcode"})
      <3>1. LeavesTidy(p, "pcap_setfilter", {"alldevs", "adhandle", "fcode"} \ {"alldevs"})
        BY DEF LeavesTidy, LeftWhenFailed
      <3> QED BY <3>1, ChecksStep DEF SetFilter
    <2>6. Step(p, Listening, {"alldevs", "adhandle", "fcode"}, {"alldevs", "adhandle", "fcode"})
      BY UsesStep DEF Listening
    <2>7. Step(p, FreeDevs, {"alldevs", "adhandle", "fcode"}, {"adhandle", "fcode"})
      BY DropsStep DEF FreeDevs
    <2>8. Step(p, Loop("adhandle", "net", "udp"), {"adhandle", "fcode"}, {"adhandle", "fcode"})
      BY LoopStep
    <2>9. PICK s : s = <<Risky(OpenChosen("adhandle", {"alldevs"})),
                         Checks("pcap_datalink", {"adhandle"}, {"alldevs"}),
                         Risky(Uses("netmask", {"alldevs"})), Compile("adhandle", {"alldevs"}),
                         SetFilter("adhandle", {"alldevs"}), Listening, FreeDevs,
                         Loop("adhandle", "net", "udp")>>
      OBVIOUS
    <2>10. PICK H : H = <<{"alldevs"}, {"alldevs", "adhandle"}, {"alldevs", "adhandle"},
                          {"alldevs", "adhandle"}, {"alldevs", "adhandle", "fcode"},
                          {"alldevs", "adhandle", "fcode"}, {"alldevs", "adhandle", "fcode"},
                          {"adhandle", "fcode"}, {"adhandle", "fcode"}>>
      OBVIOUS
    <2>11. IsList(s) /\ Len(s) = 8
      BY <2>9, IsListOfEight
    <2>12. /\ Step(p, s[1], H[1], H[2])
           /\ Step(p, s[2], H[2], H[3])
           /\ Step(p, s[3], H[3], H[4])
           /\ Step(p, s[4], H[4], H[5])
           /\ Step(p, s[5], H[5], H[6])
           /\ Step(p, s[6], H[6], H[7])
           /\ Step(p, s[7], H[7], H[8])
           /\ Step(p, s[8], H[8], H[9])
      BY <2>1, <2>2, <2>3, <2>4, <2>5, <2>6, <2>7, <2>8, <2>9, <2>10
    <2>13. Passes(p, s, H[1], H[9])
      BY <2>11, <2>12, PassesAllEight
    <2> QED BY <2>9, <2>10, <2>13
  <1>2. Runs(p, UDPdump[1])
    <2>1. Passes(p, Pick \o s, {}, {"adhandle", "fcode"})
      BY <1>1, PickPasses, JoinedPasses
    <2>2. Pick \o s = UDPdump[1]
      BY <1>1 DEF UDPdump
    <2>3. EndsTidy(p, {"adhandle", "fcode"})
      BY DEF EndsTidy, LeftWhenDone
    <2> QED BY <2>1, <2>2, <2>3 DEF Runs
  <1> QED BY <1>2

(* iflist, which only prints the list.                                      *)
LEMMA IfListRuns ==
    ASSUME NEW p
    PROVE  Runs(p, IfList[1])
  <1>1. PICK s : s = <<Find, Uses("ifprint", {"alldevs"}), FreeDevs>> /\ Passes(p, s, {}, {})
    <2>1. Step(p, Find, {}, {"alldevs"})
      BY GetsStep, LeavesNothing DEF Find
    <2>2. Step(p, Uses("ifprint", {"alldevs"}), {"alldevs"}, {"alldevs"})
      BY UsesStep
    <2>3. Step(p, FreeDevs, {"alldevs"}, {})
      BY DropsStep DEF FreeDevs
    <2> QED BY <2>1, <2>2, <2>3, PassesOfThree
  <1>2. Runs(p, IfList[1])
    <2>1. Passes(p, s, {}, {})
      BY <1>1
    <2>2. s = IfList[1]
      BY <1>1 DEF IfList
    <2>3. EndsTidy(p, {})
      BY EndsWithNothing
    <2> QED BY <2>1, <2>2, <2>3 DEF Runs
  <1> QED BY <1>2

(* tcptop, which leaves the capture open where the filter is not compiled.  *)
LEMMA TcptopRuns ==
    ASSUME NEW p, p = "tcptop"
    PROVE  Runs(p, Tcptop[1])
  <1>1. PICK t : /\ t = <<Argc, Open("fp", {}), Compile("fp", {}), SetFilter("fp", {"fp"}),
                          Checks("pcap_setmode", {"fp"}, {"fp"}), Loop("fp", "net", "sample"),
                          Close("fp")>>
                 /\ Passes(p, t, {}, {"fcode"})
    <2>1. Step(p, Argc, {}, {})
      BY ChecksStep, LeavesNothing DEF Argc
    <2>2. Step(p, Open("fp", {}), {}, {"fp"})
      BY GetsStep, LeavesNothing DEF Open
    <2>3. Step(p, Compile("fp", {}), {"fp"}, {"fp", "fcode"})
      <3>1. LeavesTidy(p, "pcap_compile", {"fp"} \ {})
        BY DEF LeavesTidy, LeftWhenFailed
      <3> QED BY <3>1, GetsStep DEF Compile
    <2>4. Step(p, SetFilter("fp", {"fp"}), {"fp", "fcode"}, {"fp", "fcode"})
      BY ChecksStep, LeavesNothing DEF SetFilter
    <2>5. Step(p, Checks("pcap_setmode", {"fp"}, {"fp"}), {"fp", "fcode"}, {"fp", "fcode"})
      BY ChecksStep, LeavesNothing
    <2>6. Step(p, Loop("fp", "net", "sample"), {"fp", "fcode"}, {"fp", "fcode"})
      BY LoopStep
    <2>7. Step(p, Close("fp"), {"fp", "fcode"}, {"fcode"})
      BY DropsStep DEF Close
    <2>8. PICK t : t = <<Argc, Open("fp", {}), Compile("fp", {}), SetFilter("fp", {"fp"}),
                         Checks("pcap_setmode", {"fp"}, {"fp"}), Loop("fp", "net", "sample"),
                         Close("fp")>>
      OBVIOUS
    <2>9. PICK H : H = <<{}, {}, {"fp"}, {"fp", "fcode"}, {"fp", "fcode"}, {"fp", "fcode"},
                         {"fp", "fcode"}, {"fcode"}>>
      OBVIOUS
    <2>10. IsList(t) /\ Len(t) = 7
      BY <2>8, IsListOfSeven
    <2>11. /\ Step(p, t[1], H[1], H[2])
           /\ Step(p, t[2], H[2], H[3])
           /\ Step(p, t[3], H[3], H[4])
           /\ Step(p, t[4], H[4], H[5])
           /\ Step(p, t[5], H[5], H[6])
           /\ Step(p, t[6], H[6], H[7])
           /\ Step(p, t[7], H[7], H[8])
      BY <2>1, <2>2, <2>3, <2>4, <2>5, <2>6, <2>7, <2>8, <2>9
    <2>12. Passes(p, t, H[1], H[8])
      BY <2>10, <2>11, PassesAllSeven
    <2> QED BY <2>8, <2>9, <2>12
  <1>2. Runs(p, Tcptop[1])
    <2>1. Passes(p, t, {}, {"fcode"})
      BY <1>1
    <2>2. t = Tcptop[1]
      BY <1>1 DEF Tcptop
    <2>3. EndsTidy(p, {"fcode"})
      BY EndsWithNothing
    <2> QED BY <2>1, <2>2, <2>3 DEF Runs
  <1> QED BY <1>2

(* pcap_fopen, which leaves the pipe open where it is not read.             *)
LEMMA PcapFopenRuns ==
    ASSUME NEW p, p = "pcap_fopen"
    PROVE  Runs(p, PcapFopen[1])
  <1>1. PICK u : /\ u = <<Argc, Checks("GetShortPathNameW", {}, {}),
                          Gets("_wpopen", "tshark_out", {}, {}),
                          Gets("pcap_fopen_offline", "pcap", {"tshark_out"}, {}),
                          Loop("pcap", "file", "print"), Drops("pcap_close", "pcap"),
                          Drops("_pclose", "tshark_out")>>
                 /\ Passes(p, u, {}, {})
    <2>1. Step(p, Argc, {}, {})
      BY ChecksStep, LeavesNothing DEF Argc
    <2>2. Step(p, Checks("GetShortPathNameW", {}, {}), {}, {})
      BY ChecksStep, LeavesNothing
    <2>3. Step(p, Gets("_wpopen", "tshark_out", {}, {}), {}, {"tshark_out"})
      BY GetsStep, LeavesNothing
    <2>4. Step(p, Gets("pcap_fopen_offline", "pcap", {"tshark_out"}, {}),
              {"tshark_out"}, {"tshark_out", "pcap"})
      <3>1. LeavesTidy(p, "pcap_fopen_offline", {"tshark_out"} \ {})
        BY DEF LeavesTidy, LeftWhenFailed
      <3> QED BY <3>1, GetsStep
    <2>5. Step(p, Loop("pcap", "file", "print"), {"tshark_out", "pcap"}, {"tshark_out", "pcap"})
      BY LoopStep
    <2>6. Step(p, Drops("pcap_close", "pcap"), {"tshark_out", "pcap"}, {"tshark_out"})
      BY DropsStep
    <2>7. Step(p, Drops("_pclose", "tshark_out"), {"tshark_out"}, {})
      BY DropsStep
    <2>8. PICK u : u = <<Argc, Checks("GetShortPathNameW", {}, {}),
                         Gets("_wpopen", "tshark_out", {}, {}),
                         Gets("pcap_fopen_offline", "pcap", {"tshark_out"}, {}),
                         Loop("pcap", "file", "print"), Drops("pcap_close", "pcap"),
                         Drops("_pclose", "tshark_out")>>
      OBVIOUS
    <2>9. PICK H : H = <<{}, {}, {}, {"tshark_out"}, {"tshark_out", "pcap"},
                         {"tshark_out", "pcap"}, {"tshark_out"}, {}>>
      OBVIOUS
    <2>10. IsList(u) /\ Len(u) = 7
      BY <2>8, IsListOfSeven
    <2>11. /\ Step(p, u[1], H[1], H[2])
           /\ Step(p, u[2], H[2], H[3])
           /\ Step(p, u[3], H[3], H[4])
           /\ Step(p, u[4], H[4], H[5])
           /\ Step(p, u[5], H[5], H[6])
           /\ Step(p, u[6], H[6], H[7])
           /\ Step(p, u[7], H[7], H[8])
      BY <2>1, <2>2, <2>3, <2>4, <2>5, <2>6, <2>7, <2>8, <2>9
    <2>12. Passes(p, u, H[1], H[8])
      BY <2>10, <2>11, PassesAllSeven
    <2> QED BY <2>8, <2>9, <2>12
  <1>2. Runs(p, PcapFopen[1])
    <2>1. Passes(p, u, {}, {})
      BY <1>1
    <2>2. u = PcapFopen[1]
      BY <1>1 DEF PcapFopen
    <2>3. EndsTidy(p, {})
      BY EndsWithNothing
    <2> QED BY <2>1, <2>2, <2>3 DEF Runs
  <1> QED BY <1>2

(* sendcap, which leaves its captures open where one of them fails.         *)
LEMMA SendcapRuns ==
    ASSUME NEW p, p = "sendcap"
    PROVE  Runs(p, Sendcap[1])
  <1>1. PICK s : /\ s = <<Argc, Gets("fopen_s", "capfile", {}, {}), Uses("ftell", {"capfile"}),
                          Drops("fclose", "capfile"), SourceName, Open("indesc", {}),
                          Open("outdesc", {}), Uses("pcap_datalink", {"indesc", "outdesc"}),
                          [Uses("pcap_sendqueue_alloc", {}) EXCEPT !.gets = {"squeue"}],
                          LoopOrReturn("indesc", "file", "queue", {"squeue"}),
                          Uses("pcap_sendqueue_transmit", {"outdesc", "squeue"}),
                          Drops("pcap_sendqueue_destroy", "squeue"), Close("indesc"),
                          Close("outdesc")>>
                 /\ Passes(p, s, {}, {})
    <2>1. Step(p, Argc, {}, {})
      BY ChecksStep, LeavesNothing DEF Argc
    <2>2. Step(p, Gets("fopen_s", "capfile", {}, {}), {}, {"capfile"})
      BY GetsStep, LeavesNothing
    <2>3. Step(p, Uses("ftell", {"capfile"}), {"capfile"}, {"capfile"})
      BY UsesStep
    <2>4. Step(p, Drops("fclose", "capfile"), {"capfile"}, {})
      BY DropsStep
    <2>5. Step(p, SourceName, {}, {})
      BY ChecksStep, LeavesNothing DEF SourceName
    <2>6. Step(p, Open("indesc", {}), {}, {"indesc"})
      BY GetsStep, LeavesNothing DEF Open
    <2>7. Step(p, Open("outdesc", {}), {"indesc"}, {"indesc", "outdesc"})
      <3>1. LeavesTidy(p, "pcap_open", {"indesc"} \ {})
        BY DEF LeavesTidy, LeftWhenFailed
      <3> QED BY <3>1, GetsStep DEF Open
    <2>8. Step(p, Uses("pcap_datalink", {"indesc", "outdesc"}),
              {"indesc", "outdesc"}, {"indesc", "outdesc"})
      BY UsesStep
    <2>9. Step(p, [Uses("pcap_sendqueue_alloc", {}) EXCEPT !.gets = {"squeue"}],
              {"indesc", "outdesc"}, {"indesc", "outdesc", "squeue"})
      BY QueueStep
    <2>10. Step(p, LoopOrReturn("indesc", "file", "queue", {"squeue"}),
              {"indesc", "outdesc", "squeue"}, {"indesc", "outdesc", "squeue"})
      <3>1. LeavesTidy(p, "pcap_loop", {"indesc", "outdesc", "squeue"} \ {"squeue"})
        BY DEF LeavesTidy, LeftWhenFailed
      <3> QED BY <3>1, LoopOrReturnStep
    <2>11. Step(p, Uses("pcap_sendqueue_transmit", {"outdesc", "squeue"}),
              {"indesc", "outdesc", "squeue"}, {"indesc", "outdesc", "squeue"})
      BY UsesStep
    <2>12. Step(p, Drops("pcap_sendqueue_destroy", "squeue"),
              {"indesc", "outdesc", "squeue"}, {"indesc", "outdesc"})
      BY DropsStep
    <2>13. Step(p, Close("indesc"), {"indesc", "outdesc"}, {"outdesc"})
      BY DropsStep DEF Close
    <2>14. Step(p, Close("outdesc"), {"outdesc"}, {})
      BY DropsStep DEF Close
    <2>15. PICK s : s = <<Argc, Gets("fopen_s", "capfile", {}, {}), Uses("ftell", {"capfile"}),
                          Drops("fclose", "capfile"), SourceName, Open("indesc", {}),
                          Open("outdesc", {}), Uses("pcap_datalink", {"indesc", "outdesc"}),
                          [Uses("pcap_sendqueue_alloc", {}) EXCEPT !.gets = {"squeue"}],
                          LoopOrReturn("indesc", "file", "queue", {"squeue"}),
                          Uses("pcap_sendqueue_transmit", {"outdesc", "squeue"}),
                          Drops("pcap_sendqueue_destroy", "squeue"), Close("indesc"),
                          Close("outdesc")>>
      OBVIOUS
    <2>16. PICK H : H = <<{}, {}, {"capfile"}, {"capfile"}, {}, {}, {"indesc"},
                          {"indesc", "outdesc"}, {"indesc", "outdesc"},
                          {"indesc", "outdesc", "squeue"}, {"indesc", "outdesc", "squeue"},
                          {"indesc", "outdesc", "squeue"}, {"indesc", "outdesc"}, {"outdesc"}, {}>>
      OBVIOUS
    <2>17. IsList(s) /\ Len(s) = 14
      BY <2>15, IsListOfFourteen
    <2>18. /\ Step(p, s[1], H[1], H[2])
           /\ Step(p, s[2], H[2], H[3])
           /\ Step(p, s[3], H[3], H[4])
           /\ Step(p, s[4], H[4], H[5])
           /\ Step(p, s[5], H[5], H[6])
           /\ Step(p, s[6], H[6], H[7])
           /\ Step(p, s[7], H[7], H[8])
           /\ Step(p, s[8], H[8], H[9])
           /\ Step(p, s[9], H[9], H[10])
           /\ Step(p, s[10], H[10], H[11])
           /\ Step(p, s[11], H[11], H[12])
           /\ Step(p, s[12], H[12], H[13])
           /\ Step(p, s[13], H[13], H[14])
           /\ Step(p, s[14], H[14], H[15])
      BY <2>1, <2>2, <2>3, <2>4, <2>5, <2>6, <2>7, <2>8, <2>9, <2>10, <2>11, <2>12, <2>13, <2>14,
         <2>15, <2>16
    <2>19. Passes(p, s, H[1], H[15])
      BY <2>17, <2>18, PassesAllFourteen
    <2> QED BY <2>15, <2>16, <2>19
  <1>2. Runs(p, Sendcap[1])
    <2>1. Passes(p, s, {}, {})
      BY <1>1
    <2>2. s = Sendcap[1]
      BY <1>1 DEF Sendcap
    <2>3. EndsTidy(p, {})
      BY EndsWithNothing
    <2> QED BY <2>1, <2>2, <2>3 DEF Runs
  <1> QED BY <1>2

(* Nothing is joined to a list.                                             *)
LEMMA NothingJoined == \A s : IsList(s) => s \o <<>> = s
  BY DEF IsList

(* Where a call of pcap_filter fails behind the opening.                    *)
LEMMA FilterLeaves ==
    ASSUME NEW p \in {"pcap_filter", "pcap_filter_remote"}, NEW cleanup \in SUBSET {"fp"},
           cleanup = {"fp"} \/ p = "pcap_filter_remote",
           NEW name \in {"pcap_compile", "pcap_setfilter", "pcap_dump_open"},
           NEW A \in {{"fp"}, {"fp", "fcode"}}
    PROVE  LeavesTidy(p, name, A \ cleanup)
  <1>1. CASE cleanup = {"fp"}
    <2>1. A \ cleanup \subseteq {"fcode"}
      BY <1>1
    <2> QED BY <2>1, LeavesNothing
  <1>2. CASE p = "pcap_filter_remote"
    <2>1. \A o \in A \ cleanup : o = "fcode" \/ o = "fp"
      OBVIOUS
    <2> QED BY <1>2, <2>1 DEF LeavesTidy, LeftWhenFailed
  <1> QED BY <1>1, <1>2

(* pcap_filter's calls, with and without a filter.                          *)
LEMMA PcapFiltersRun ==
    ASSUME NEW p \in {"pcap_filter", "pcap_filter_remote"}, NEW cleanup \in SUBSET {"fp"},
           cleanup = {"fp"} \/ p = "pcap_filter_remote", NEW end,
           \/ p = "pcap_filter_remote" /\ end = <<>>
           \/ end = <<Close("fp"), Drops("pcap_dump_close", "dumpfile")>>
    PROVE  /\ Runs(p, PcapFilterCalls(cleanup, end)[1])
           /\ Runs(p, PcapFilterCalls(cleanup, end)[2])
  <1>1. PICK s : /\ s = <<Argc, Checks("usage", {}, {}), Open("fp", {})>>
                 /\ Passes(p, s, {}, {"fp"})
    <2>1. Step(p, Argc, {}, {})
      BY ChecksStep, LeavesNothing DEF Argc
    <2>2. Step(p, Checks("usage", {}, {}), {}, {})
      BY ChecksStep, LeavesNothing
    <2>3. Step(p, Open("fp", {}), {}, {"fp"})
      BY GetsStep, LeavesNothing DEF Open
    <2> QED BY <2>1, <2>2, <2>3, PassesOfThree
  <1>2. PICK f : /\ f = <<Compile("fp", cleanup), SetFilter("fp", cleanup)>>
                 /\ Passes(p, f, {"fp"}, {"fp", "fcode"})
    <2>1. Step(p, Compile("fp", cleanup), {"fp"}, {"fp", "fcode"})
      <3>1. LeavesTidy(p, "pcap_compile", {"fp"} \ cleanup)
        BY FilterLeaves
      <3> QED BY <3>1, GetsStep DEF Compile
    <2>2. Step(p, SetFilter("fp", cleanup), {"fp", "fcode"}, {"fp", "fcode"})
      <3>1. LeavesTidy(p, "pcap_setfilter", {"fp", "fcode"} \ cleanup)
        BY FilterLeaves
      <3> QED BY <3>1, ChecksStep DEF SetFilter
    <2> QED BY <2>1, <2>2, PassesOfTwo
  <1>3. PICK t : /\ t = <<Checks("usage", {}, {}), DumpOpen("fp", cleanup),
                          Loop("fp", "net", "dump")>>
                 /\ Passes(p, t, {"fp"}, {"fp", "dumpfile"})
    <2>1. Step(p, Checks("usage", {}, {}), {"fp"}, {"fp"})
      <3>1. LeavesTidy(p, "usage", {"fp"} \ {})
        BY DEF LeavesTidy, LeftWhenFailed
      <3> QED BY <3>1, ChecksStep
    <2>2. Step(p, DumpOpen("fp", cleanup), {"fp"}, {"fp", "dumpfile"})
      <3>1. LeavesTidy(p, "pcap_dump_open", {"fp"} \ cleanup)
        BY FilterLeaves
      <3> QED BY <3>1, GetsStep DEF DumpOpen
    <2>3. Step(p, Loop("fp", "net", "dump"),
               {"fp", "dumpfile"}, {"fp", "dumpfile"})
      BY LoopStep
    <2> QED BY <2>1, <2>2, <2>3, PassesOfThree
  <1>4. PICK u : /\ u = <<Checks("usage", {}, {}), DumpOpen("fp", cleanup),
                          Loop("fp", "net", "dump")>>
                 /\ Passes(p, u, {"fp", "fcode"}, {"fp", "fcode", "dumpfile"})
    <2>1. Step(p, Checks("usage", {}, {}), {"fp", "fcode"}, {"fp", "fcode"})
      <3>1. LeavesTidy(p, "usage", {"fp", "fcode"} \ {})
        BY DEF LeavesTidy, LeftWhenFailed
      <3> QED BY <3>1, ChecksStep
    <2>2. Step(p, DumpOpen("fp", cleanup), {"fp", "fcode"}, {"fp", "fcode", "dumpfile"})
      <3>1. LeavesTidy(p, "pcap_dump_open", {"fp", "fcode"} \ cleanup)
        BY FilterLeaves
      <3> QED BY <3>1, GetsStep DEF DumpOpen
    <2>3. Step(p, Loop("fp", "net", "dump"),
               {"fp", "fcode", "dumpfile"}, {"fp", "fcode", "dumpfile"})
      BY LoopStep
    <2> QED BY <2>1, <2>2, <2>3, PassesOfThree
  <1>5. ASSUME NEW v, NEW A, Passes(p, v, {}, A), {"fp", "dumpfile"} \subseteq A,
               A \subseteq {"fp", "fcode", "dumpfile"}
        PROVE  Runs(p, v \o end)
    <2>1. CASE p = "pcap_filter_remote" /\ end = <<>>
      <3>1. IsList(v)
        BY <1>5 DEF Passes, Course
      <3>2. v \o end = v
        BY <2>1, <3>1, NothingJoined
      <3>3. EndsTidy(p, A)
        BY <1>5, <2>1 DEF EndsTidy, LeftWhenDone
      <3> QED BY <1>5, <3>2, <3>3 DEF Runs
    <2>2. CASE end = <<Close("fp"), Drops("pcap_dump_close", "dumpfile")>>
      <3>1. PICK B : B = A \ {"fp"}
        OBVIOUS
      <3>2. PICK C : C = B \ {"dumpfile"}
        OBVIOUS
      <3>3. Step(p, Close("fp"), A, B)
        BY <1>5, <3>1, DropsStep DEF Close
      <3>4. "dumpfile" \in B
        BY <1>5, <3>1
      <3>5. Step(p, Drops("pcap_dump_close", "dumpfile"), B, C)
        BY <3>2, <3>4, DropsStep
      <3>6. Passes(p, end, A, C)
        BY <2>2, <3>3, <3>5, PassesOfTwo
      <3>7. Passes(p, v \o end, {}, C)
        BY <1>5, <3>6, JoinedPasses
      <3>8. C \subseteq {"fcode"}
        BY <1>5, <3>1, <3>2
      <3> QED BY <3>7, <3>8, EndsWithNothing DEF Runs
    <2> QED BY <2>1, <2>2
  <1>6. Runs(p, s \o t \o end)
    <2>1. Passes(p, s \o t, {}, {"fp", "dumpfile"})
      BY <1>1, <1>3, JoinedPasses
    <2> QED BY <1>5, <2>1
  <1>7. Runs(p, s \o f \o t \o end)
    <2>1. Passes(p, s \o f, {}, {"fp", "fcode"})
      BY <1>1, <1>2, JoinedPasses
    <2>2. t = u
      BY <1>3, <1>4
    <2>3. Passes(p, s \o f \o t, {}, {"fp", "fcode", "dumpfile"})
      BY <1>4, <2>1, <2>2, JoinedPasses
    <2> QED BY <1>5, <2>3
  <1>8. s \o <<>> = s
    <2>1. IsList(s)
      BY <1>1 DEF Passes, Course
    <2> QED BY <2>1, NothingJoined
  <1>9. PcapFilterCalls(cleanup, end) = <<s \o <<>> \o t \o end, s \o f \o t \o end>>
    BY <1>1, <1>2, <1>3 DEF PcapFilterCalls
  <1> QED BY <1>6, <1>7, <1>8, <1>9

(* A program for packet.dll opens the adapter chosen.                       *)
LEMMA ChooseAndOpenPasses ==
    ASSUME NEW p
    PROVE  Passes(p, ChooseAndOpen, {}, {"lpAdapter"})
  <1>1. PICK s : s = <<GetNames, Split, Select, OpenAdapter>> /\ Passes(p, s, {}, {"lpAdapter"})
    <2>1. Step(p, GetNames, {}, {})
      BY ChecksStep, LeavesNothing DEF GetNames
    <2>2. Step(p, Split, {}, {})
      BY UsesStep DEF Split
    <2>3. Step(p, Select, {}, {})
      BY UsesStep DEF Select
    <2>4. Step(p, OpenAdapter, {}, {"lpAdapter"})
      BY GetsStep, LeavesNothing DEF OpenAdapter
    <2> QED BY <2>1, <2>2, <2>3, <2>4, PassesOfFour
  <1>2. s = ChooseAndOpen
    BY <1>1 DEF ChooseAndOpen
  <1> QED BY <1>1, <1>2

(* TestPacketCapture, which closes it only in the end.                      *)
LEMMA TestPacketCaptureRuns ==
    ASSUME NEW p, p = "TestPacketCapture"
    PROVE  Runs(p, TestPacketCapture[1])
  <1>1. PICK s : /\ s = <<Uses("PacketSetHwFilter", {"lpAdapter"}),
                          Checks("PacketSetBuff", {"lpAdapter"}, {}),
                          Uses("PacketSetReadTimeout", {"lpAdapter"}), Allocate, InitPacket,
                          LoopOrReturn("lpAdapter", "driver", "PrintPackets", {}),
                          Uses("PacketGetStats", {"lpAdapter"}), FreePacket, CloseAdapter>>
                 /\ Passes(p, s, {"lpAdapter"}, {})
    <2>1. Step(p, Uses("PacketSetHwFilter", {"lpAdapter"}), {"lpAdapter"}, {"lpAdapter"})
      BY UsesStep
    <2>2. Step(p, Checks("PacketSetBuff", {"lpAdapter"}, {}), {"lpAdapter"}, {"lpAdapter"})
      <3>1. LeavesTidy(p, "PacketSetBuff", {"lpAdapter"} \ {})
        BY DEF LeavesTidy, LeftWhenFailed
      <3> QED BY <3>1, ChecksStep
    <2>3. Step(p, Uses("PacketSetReadTimeout", {"lpAdapter"}), {"lpAdapter"}, {"lpAdapter"})
      BY UsesStep
    <2>4. Step(p, Allocate, {"lpAdapter"}, {"lpAdapter", "lpPacket"})
      <3>1. LeavesTidy(p, "PacketAllocatePacket", {"lpAdapter"} \ {})
        BY DEF LeavesTidy, LeftWhenFailed
      <3> QED BY <3>1, GetsStep DEF Allocate
    <2>5. Step(p, InitPacket, {"lpAdapter", "lpPacket"}, {"lpAdapter", "lpPacket"})
      BY UsesStep DEF InitPacket
    <2>6. Step(p, LoopOrReturn("lpAdapter", "driver", "PrintPackets", {}),
              {"lpAdapter", "lpPacket"}, {"lpAdapter", "lpPacket"})
      <3>1. LeavesTidy(p, "pcap_loop", {"lpAdapter", "lpPacket"} \ {})
        BY DEF LeavesTidy, LeftWhenFailed
      <3> QED BY <3>1, LoopOrReturnStep
    <2>7. Step(p, Uses("PacketGetStats", {"lpAdapter"}),
              {"lpAdapter", "lpPacket"}, {"lpAdapter", "lpPacket"})
      BY UsesStep
    <2>8. Step(p, FreePacket, {"lpAdapter", "lpPacket"}, {"lpAdapter"})
      BY DropsStep DEF FreePacket
    <2>9. Step(p, CloseAdapter, {"lpAdapter"}, {})
      BY DropsStep DEF CloseAdapter
    <2>10. PICK s : s = <<Uses("PacketSetHwFilter", {"lpAdapter"}),
                          Checks("PacketSetBuff", {"lpAdapter"}, {}),
                          Uses("PacketSetReadTimeout", {"lpAdapter"}), Allocate, InitPacket,
                          LoopOrReturn("lpAdapter", "driver", "PrintPackets", {}),
                          Uses("PacketGetStats", {"lpAdapter"}), FreePacket, CloseAdapter>>
      OBVIOUS
    <2>11. PICK H : H = <<{"lpAdapter"}, {"lpAdapter"}, {"lpAdapter"}, {"lpAdapter"},
                          {"lpAdapter", "lpPacket"}, {"lpAdapter", "lpPacket"},
                          {"lpAdapter", "lpPacket"}, {"lpAdapter", "lpPacket"}, {"lpAdapter"}, {}>>
      OBVIOUS
    <2>12. IsList(s) /\ Len(s) = 9
      BY <2>10, IsListOfNine
    <2>13. /\ Step(p, s[1], H[1], H[2])
           /\ Step(p, s[2], H[2], H[3])
           /\ Step(p, s[3], H[3], H[4])
           /\ Step(p, s[4], H[4], H[5])
           /\ Step(p, s[5], H[5], H[6])
           /\ Step(p, s[6], H[6], H[7])
           /\ Step(p, s[7], H[7], H[8])
           /\ Step(p, s[8], H[8], H[9])
           /\ Step(p, s[9], H[9], H[10])
      BY <2>1, <2>2, <2>3, <2>4, <2>5, <2>6, <2>7, <2>8, <2>9, <2>10, <2>11
    <2>14. Passes(p, s, H[1], H[10])
      BY <2>12, <2>13, PassesAllNine
    <2> QED BY <2>10, <2>11, <2>14
  <1>2. Runs(p, TestPacketCapture[1])
    <2>1. Passes(p, ChooseAndOpen \o s, {}, {})
      BY <1>1, ChooseAndOpenPasses, JoinedPasses
    <2>2. ChooseAndOpen \o s = TestPacketCapture[1]
      BY <1>1 DEF TestPacketCapture
    <2>3. EndsTidy(p, {})
      BY EndsWithNothing
    <2> QED BY <2>1, <2>2, <2>3 DEF Runs
  <1> QED BY <1>2

(* So does TestPacketSend, be the adapter named or chosen.                  *)
LEMMA TestPacketSendRuns ==
    ASSUME NEW p, p = "TestPacketSend"
    PROVE  /\ Runs(p, TestPacketSend[1])
           /\ Runs(p, TestPacketSend[2])
  <1>1. PICK s : s = <<Argc>> /\ Passes(p, s, {}, {})
    <2>1. Step(p, Argc, {}, {})
      BY ChecksStep, LeavesNothing DEF Argc
    <2> QED BY <2>1, PassesOfOne
  <1>2. PICK u : /\ u = <<Allocate, InitPacket, Uses("PacketSetNumWrites", {"lpAdapter"}),
                          Checks("PacketSendPacket", {"lpAdapter", "lpPacket"}, {}), FreePacket,
                          CloseAdapter>>
                 /\ Passes(p, u, {"lpAdapter"}, {})
    <2>1. Step(p, Allocate, {"lpAdapter"}, {"lpAdapter", "lpPacket"})
      <3>1. LeavesTidy(p, "PacketAllocatePacket", {"lpAdapter"} \ {})
        BY DEF LeavesTidy, LeftWhenFailed
      <3> QED BY <3>1, GetsStep DEF Allocate
    <2>2. Step(p, InitPacket, {"lpAdapter", "lpPacket"}, {"lpAdapter", "lpPacket"})
      BY UsesStep DEF InitPacket
    <2>3. Step(p, Uses("PacketSetNumWrites", {"lpAdapter"}),
              {"lpAdapter", "lpPacket"}, {"lpAdapter", "lpPacket"})
      BY UsesStep
    <2>4. Step(p, Checks("PacketSendPacket", {"lpAdapter", "lpPacket"}, {}),
              {"lpAdapter", "lpPacket"}, {"lpAdapter", "lpPacket"})
      <3>1. LeavesTidy(p, "PacketSendPacket", {"lpAdapter", "lpPacket"} \ {})
        BY DEF LeavesTidy, LeftWhenFailed
      <3> QED BY <3>1, ChecksStep
    <2>5. Step(p, FreePacket, {"lpAdapter", "lpPacket"}, {"lpAdapter"})
      BY DropsStep DEF FreePacket
    <2>6. Step(p, CloseAdapter, {"lpAdapter"}, {})
      BY DropsStep DEF CloseAdapter
    <2>7. PICK u : u = <<Allocate, InitPacket, Uses("PacketSetNumWrites", {"lpAdapter"}),
                         Checks("PacketSendPacket", {"lpAdapter", "lpPacket"}, {}), FreePacket,
                         CloseAdapter>>
      OBVIOUS
    <2>8. PICK H : H = <<{"lpAdapter"}, {"lpAdapter", "lpPacket"}, {"lpAdapter", "lpPacket"},
                         {"lpAdapter", "lpPacket"}, {"lpAdapter", "lpPacket"}, {"lpAdapter"}, {}>>
      OBVIOUS
    <2>9. IsList(u) /\ Len(u) = 6
      BY <2>7, IsListOfSix
    <2>10. /\ Step(p, u[1], H[1], H[2])
           /\ Step(p, u[2], H[2], H[3])
           /\ Step(p, u[3], H[3], H[4])
           /\ Step(p, u[4], H[4], H[5])
           /\ Step(p, u[5], H[5], H[6])
           /\ Step(p, u[6], H[6], H[7])
      BY <2>1, <2>2, <2>3, <2>4, <2>5, <2>6, <2>7, <2>8
    <2>11. Passes(p, u, H[1], H[7])
      BY <2>9, <2>10, PassesAllSix
    <2> QED BY <2>7, <2>8, <2>11
  <1>3. PICK t : /\ t = <<Risky(Uses("sscanf_s", {})), OpenAdapter>>
                 /\ Passes(p, t, {}, {"lpAdapter"})
    <2>1. Step(p, Risky(Uses("sscanf_s", {})), {}, {})
      <3>1. <<p, "sscanf_s">> \in GoesDownAt
        BY DEF GoesDownAt
      <3>2. Step(p, Uses("sscanf_s", {}), {}, {})
        BY UsesStep
      <3> QED BY <3>1, <3>2, RiskyUsesStep
    <2>2. Step(p, OpenAdapter, {}, {"lpAdapter"})
      BY GetsStep, LeavesNothing DEF OpenAdapter
    <2> QED BY <2>1, <2>2, PassesOfTwo
  <1>4. Runs(p, TestPacketSend[1])
    <2>1. Passes(p, s \o ChooseAndOpen \o u, {}, {})
      BY <1>1, <1>2, ChooseAndOpenPasses, JoinedPasses
    <2>2. s \o ChooseAndOpen \o u = TestPacketSend[1]
      BY <1>1, <1>2 DEF TestPacketSend
    <2>3. EndsTidy(p, {})
      BY EndsWithNothing
    <2> QED BY <2>1, <2>2, <2>3 DEF Runs
  <1>5. Runs(p, TestPacketSend[2])
    <2>1. Passes(p, s \o t \o u, {}, {})
      BY <1>1, <1>3, <1>2, JoinedPasses
    <2>2. s \o t \o u = TestPacketSend[2]
      BY <1>1, <1>3, <1>2 DEF TestPacketSend
    <2>3. EndsTidy(p, {})
      BY EndsWithNothing
    <2> QED BY <2>1, <2>2, <2>3 DEF Runs
  <1> QED BY <1>4, <1>5

(* GetMacAddress closes it if memory is short, too.                         *)
LEMMA GetMacAddressRuns ==
    ASSUME NEW p
    PROVE  Runs(p, GetMacAddress[1])
  <1>1. PICK s : /\ s = <<Gets("malloc", "OidData", {}, {"lpAdapter"}),
                          Uses("PacketRequest", {"lpAdapter", "OidData"}),
                          Drops("free", "OidData"), CloseAdapter>>
                 /\ Passes(p, s, {"lpAdapter"}, {})
    <2>1. Step(p, Gets("malloc", "OidData", {}, {"lpAdapter"}),
              {"lpAdapter"}, {"lpAdapter", "OidData"})
      BY GetsStep, LeavesNothing
    <2>2. Step(p, Uses("PacketRequest", {"lpAdapter", "OidData"}),
              {"lpAdapter", "OidData"}, {"lpAdapter", "OidData"})
      BY UsesStep
    <2>3. Step(p, Drops("free", "OidData"), {"lpAdapter", "OidData"}, {"lpAdapter"})
      BY DropsStep
    <2>4. Step(p, CloseAdapter, {"lpAdapter"}, {})
      BY DropsStep DEF CloseAdapter
    <2> QED BY <2>1, <2>2, <2>3, <2>4, PassesOfFour
  <1>2. Runs(p, GetMacAddress[1])
    <2>1. Passes(p, ChooseAndOpen \o s, {}, {})
      BY <1>1, ChooseAndOpenPasses, JoinedPasses
    <2>2. ChooseAndOpen \o s = GetMacAddress[1]
      BY <1>1 DEF GetMacAddress
    <2>3. EndsTidy(p, {})
      BY EndsWithNothing
    <2> QED BY <2>1, <2>2, <2>3 DEF Runs
  <1> QED BY <1>2

(* The clean-up behind UserBridge's filters: both adapters and the list.    *)
LEMMA CleansAll == CleanAll = {"adhandle1", "adhandle2", "alldevs"}
  BY DEF CleanAll, AllHandles

(* UserBridge.                                                              *)
LEMMA BridgeRuns == Runs("UserBridge", Bridge[1])
  <1>1. PICK s : /\ s = <<Find, Checks("no_devices", {"alldevs"}, {"alldevs"}),
                          Checks("inum1", {"alldevs"}, {"alldevs"}),
                          Checks("inum2", {"alldevs"}, {"alldevs"}),
                          Checks("inums_differ", {"alldevs"}, {"alldevs"}),
                          OpenChosen("adhandle1", {"alldevs"}),
                          Risky(Uses("netmask1", {"alldevs"})),
                          OpenChosen("adhandle2", {"alldevs"}),
                          Risky(Uses("netmask2", {"alldevs"})), Compile("adhandle1", CleanAll),
                          SetFilter("adhandle1", CleanAll), Compile("adhandle2", CleanAll),
                          SetFilter("adhandle2", CleanAll), FreeDevs,
                          Uses("InitializeCriticalSection", {}), CreateThread("thread0", {}),
                          CreateThread("thread1", {"thread0"}), Uses("signal", {}),
                          Risky(Listening), Uses("Sleep", {})>>
                 /\ Passes("UserBridge", s, {},
                           {"adhandle1", "adhandle2", "fcode", "thread0", "thread1"})
    <2>1. Step("UserBridge", Find, {}, {"alldevs"})
      BY GetsStep, LeavesNothing DEF Find
    <2>2. Step("UserBridge", Checks("no_devices", {"alldevs"}, {"alldevs"}),
              {"alldevs"}, {"alldevs"})
      BY ChecksStep, LeavesNothing
    <2>3. Step("UserBridge", Checks("inum1", {"alldevs"}, {"alldevs"}), {"alldevs"}, {"alldevs"})
      BY ChecksStep, LeavesNothing
    <2>4. Step("UserBridge", Checks("inum2", {"alldevs"}, {"alldevs"}), {"alldevs"}, {"alldevs"})
      BY ChecksStep, LeavesNothing
    <2>5. Step("UserBridge", Checks("inums_differ", {"alldevs"}, {"alldevs"}),
              {"alldevs"}, {"alldevs"})
      BY ChecksStep, LeavesNothing
    <2>6. Step("UserBridge", OpenChosen("adhandle1", {"alldevs"}),
              {"alldevs"}, {"alldevs", "adhandle1"})
      BY GetsStep, LeavesNothing DEF OpenChosen
    <2>7. Step("UserBridge", Risky(Uses("netmask1", {"alldevs"})),
              {"alldevs", "adhandle1"}, {"alldevs", "adhandle1"})
      <3>1. <<"UserBridge", "netmask1">> \in GoesDownAt
        BY DEF GoesDownAt
      <3>2. Step("UserBridge", Uses("netmask1", {"alldevs"}),
                {"alldevs", "adhandle1"},
                {"alldevs", "adhandle1"})
        BY UsesStep
      <3> QED BY <3>1, <3>2, RiskyUsesStep
    <2>8. Step("UserBridge", OpenChosen("adhandle2", {"alldevs"}),
              {"alldevs", "adhandle1"}, {"alldevs", "adhandle1", "adhandle2"})
      <3>1. LeavesTidy("UserBridge", "pcap_open", {"alldevs", "adhandle1"} \ {"alldevs"})
        BY DEF LeavesTidy, LeftWhenFailed
      <3> QED BY <3>1, GetsStep DEF OpenChosen
    <2>9. Step("UserBridge", Risky(Uses("netmask2", {"alldevs"})),
              {"alldevs", "adhandle1", "adhandle2"}, {"alldevs", "adhandle1", "adhandle2"})
      <3>1. <<"UserBridge", "netmask2">> \in GoesDownAt
        BY DEF GoesDownAt
      <3>2. Step("UserBridge", Uses("netmask2", {"alldevs"}),
                {"alldevs", "adhandle1", "adhandle2"},
                {"alldevs", "adhandle1", "adhandle2"})
        BY UsesStep
      <3> QED BY <3>1, <3>2, RiskyUsesStep
    <2>10. Step("UserBridge", Compile("adhandle1", CleanAll),
              {"alldevs", "adhandle1", "adhandle2"},
              {"alldevs", "adhandle1", "adhandle2", "fcode"})
      BY GetsStep, LeavesNothing, CleansAll DEF Compile
    <2>11. Step("UserBridge", SetFilter("adhandle1", CleanAll),
              {"alldevs", "adhandle1", "adhandle2", "fcode"},
              {"alldevs", "adhandle1", "adhandle2", "fcode"})
      BY ChecksStep, LeavesNothing, CleansAll DEF SetFilter
    <2>12. Step("UserBridge", Compile("adhandle2", CleanAll),
              {"alldevs", "adhandle1", "adhandle2", "fcode"},
              {"alldevs", "adhandle1", "adhandle2", "fcode"})
      BY GetsStep, LeavesNothing, CleansAll DEF Compile
    <2>13. Step("UserBridge", SetFilter("adhandle2", CleanAll),
              {"alldevs", "adhandle1", "adhandle2", "fcode"},
              {"alldevs", "adhandle1", "adhandle2", "fcode"})
      BY ChecksStep, LeavesNothing, CleansAll DEF SetFilter
    <2>14. Step("UserBridge", FreeDevs,
              {"alldevs", "adhandle1", "adhandle2", "fcode"},
              {"adhandle1", "adhandle2", "fcode"})
      BY DropsStep DEF FreeDevs
    <2>15. Step("UserBridge", Uses("InitializeCriticalSection", {}),
              {"adhandle1", "adhandle2", "fcode"}, {"adhandle1", "adhandle2", "fcode"})
      BY UsesStep
    <2>16. Step("UserBridge", CreateThread("thread0", {}),
              {"adhandle1", "adhandle2", "fcode"},
              {"adhandle1", "adhandle2", "fcode", "thread0"})
      <3>1. StaleIn("UserBridge", "CreateThread") = {"alldevs"}
        BY DEF StaleIn
      <3> QED BY <3>1, GetsStep, LeavesNothing, CleansAll DEF CreateThread
    <2>17. Step("UserBridge", CreateThread("thread1", {"thread0"}),
              {"adhandle1", "adhandle2", "fcode", "thread0"},
              {"adhandle1", "adhandle2", "fcode", "thread0", "thread1"})
      <3>1. StaleIn("UserBridge", "CreateThread") = {"alldevs"}
        BY DEF StaleIn
      <3> QED BY <3>1, GetsStep, LeavesNothing, CleansAll DEF CreateThread
    <2>18. Step("UserBridge", Uses("signal", {}),
              {"adhandle1", "adhandle2", "fcode", "thread0", "thread1"},
              {"adhandle1", "adhandle2", "fcode", "thread0", "thread1"})
      BY UsesStep
    <2>19. Step("UserBridge", Risky(Listening),
              {"adhandle1", "adhandle2", "fcode", "thread0", "thread1"},
              {"adhandle1", "adhandle2", "fcode", "thread0", "thread1"})
      <3>1. StaleIn("UserBridge", "printf") = {"alldevs"}
        BY DEF StaleIn
      <3>2. <<"UserBridge", "printf">> \in GoesDownAt
        BY DEF GoesDownAt
      <3>3. Step("UserBridge", Listening,
                {"adhandle1", "adhandle2", "fcode", "thread0", "thread1"},
                {"adhandle1", "adhandle2", "fcode", "thread0", "thread1"})
        BY <3>1, UsesStep DEF Listening
      <3> QED BY <3>2, <3>3, RiskyUsesStep DEF Listening
    <2>20. Step("UserBridge", Uses("Sleep", {}),
              {"adhandle1", "adhandle2", "fcode", "thread0", "thread1"},
              {"adhandle1", "adhandle2", "fcode", "thread0", "thread1"})
      BY UsesStep
    <2>21. PICK s : s = <<Find, Checks("no_devices", {"alldevs"}, {"alldevs"}),
                          Checks("inum1", {"alldevs"}, {"alldevs"}),
                          Checks("inum2", {"alldevs"}, {"alldevs"}),
                          Checks("inums_differ", {"alldevs"}, {"alldevs"}),
                          OpenChosen("adhandle1", {"alldevs"}),
                          Risky(Uses("netmask1", {"alldevs"})),
                          OpenChosen("adhandle2", {"alldevs"}),
                          Risky(Uses("netmask2", {"alldevs"})), Compile("adhandle1", CleanAll),
                          SetFilter("adhandle1", CleanAll), Compile("adhandle2", CleanAll),
                          SetFilter("adhandle2", CleanAll), FreeDevs,
                          Uses("InitializeCriticalSection", {}), CreateThread("thread0", {}),
                          CreateThread("thread1", {"thread0"}), Uses("signal", {}),
                          Risky(Listening), Uses("Sleep", {})>>
      OBVIOUS
    <2>22. PICK H : H = <<{}, {"alldevs"}, {"alldevs"}, {"alldevs"}, {"alldevs"}, {"alldevs"},
                          {"alldevs", "adhandle1"}, {"alldevs", "adhandle1"},
                          {"alldevs", "adhandle1", "adhandle2"},
                          {"alldevs", "adhandle1", "adhandle2"},
                          {"alldevs", "adhandle1", "adhandle2", "fcode"},
                          {"alldevs", "adhandle1", "adhandle2", "fcode"},
                          {"alldevs", "adhandle1", "adhandle2", "fcode"},
                          {"alldevs", "adhandle1", "adhandle2", "fcode"},
                          {"adhandle1", "adhandle2", "fcode"},
                          {"adhandle1", "adhandle2", "fcode"},
                          {"adhandle1", "adhandle2", "fcode", "thread0"},
                          {"adhandle1", "adhandle2", "fcode", "thread0", "thread1"},
                          {"adhandle1", "adhandle2", "fcode", "thread0", "thread1"},
                          {"adhandle1", "adhandle2", "fcode", "thread0", "thread1"},
                          {"adhandle1", "adhandle2", "fcode", "thread0", "thread1"}>>
      OBVIOUS
    <2>23. IsList(s) /\ Len(s) = 20
      BY <2>21, IsListOfTwenty
    <2>24. /\ Step("UserBridge", s[1], H[1], H[2])
           /\ Step("UserBridge", s[2], H[2], H[3])
           /\ Step("UserBridge", s[3], H[3], H[4])
           /\ Step("UserBridge", s[4], H[4], H[5])
           /\ Step("UserBridge", s[5], H[5], H[6])
           /\ Step("UserBridge", s[6], H[6], H[7])
           /\ Step("UserBridge", s[7], H[7], H[8])
           /\ Step("UserBridge", s[8], H[8], H[9])
           /\ Step("UserBridge", s[9], H[9], H[10])
           /\ Step("UserBridge", s[10], H[10], H[11])
           /\ Step("UserBridge", s[11], H[11], H[12])
           /\ Step("UserBridge", s[12], H[12], H[13])
           /\ Step("UserBridge", s[13], H[13], H[14])
           /\ Step("UserBridge", s[14], H[14], H[15])
           /\ Step("UserBridge", s[15], H[15], H[16])
           /\ Step("UserBridge", s[16], H[16], H[17])
           /\ Step("UserBridge", s[17], H[17], H[18])
           /\ Step("UserBridge", s[18], H[18], H[19])
           /\ Step("UserBridge", s[19], H[19], H[20])
           /\ Step("UserBridge", s[20], H[20], H[21])
      BY <2>1, <2>2, <2>3, <2>4, <2>5, <2>6, <2>7, <2>8, <2>9, <2>10, <2>11, <2>12, <2>13,
         <2>14, <2>15, <2>16, <2>17, <2>18, <2>19, <2>20, <2>21, <2>22
    <2>25. Passes("UserBridge", s, H[1], H[21])
      BY <2>23, <2>24, PassesAllTwenty
    <2> QED BY <2>21, <2>22, <2>25
  <1>2. s = Bridge[1]
    BY <1>1 DEF Bridge
  <1>3. EndsTidy("UserBridge", {"adhandle1", "adhandle2", "fcode", "thread0", "thread1"})
    BY DEF EndsTidy, LeftWhenDone, AllHandles
  <1> QED BY <1>1, <1>2, <1>3 DEF Runs

-----------------------------------------------------------------------------
(* All programs.                                                           *)

(* Whichever way the command line leads.                                    *)
AllRun(p, ways) == \A w \in DOMAIN ways : Runs(p, ways[w])

(* The programs that print or save what they capture.                       *)
LEMMA DumpsRun ==
    /\ AllRun("basic_dump", BasicDump)
    /\ AllRun("basic_dump_remote", BasicDumpRemote)
    /\ AllRun("basic_dump_ex", BasicDumpEx)
    /\ AllRun("basic_dump_ex_remote", BasicDumpExRemote)
    /\ AllRun("savedump", Savedump)
    /\ AllRun("savedump_remote", SavedumpRemote)
  <1>1. AllRun("basic_dump", BasicDump)
    <2>1. DOMAIN BasicDump = 1..1
      BY DEF BasicDump
    <2> QED BY <2>1, BasicDumpsRun DEF AllRun
  <1>2. AllRun("basic_dump_remote", BasicDumpRemote)
    <2>1. DOMAIN BasicDumpRemote = 1..1
      BY DEF BasicDumpRemote
    <2> QED BY <2>1, BasicDumpsRun DEF AllRun
  <1>3. AllRun("basic_dump_ex", BasicDumpEx)
    <2>1. DOMAIN BasicDumpEx = 1..1
      BY DEF BasicDumpEx
    <2> QED BY <2>1, BasicDumpExsRun DEF AllRun
  <1>4. AllRun("basic_dump_ex_remote", BasicDumpExRemote)
    <2>1. DOMAIN BasicDumpExRemote = 1..1
      BY DEF BasicDumpExRemote
    <2> QED BY <2>1, BasicDumpExsRun DEF AllRun
  <1>5. AllRun("savedump", Savedump)
    <2>1. DOMAIN Savedump = 1..1
      BY DEF Savedump
    <2> QED BY <2>1, SavedumpsRun DEF AllRun
  <1>6. AllRun("savedump_remote", SavedumpRemote)
    <2>1. DOMAIN SavedumpRemote = 1..1
      BY DEF SavedumpRemote
    <2> QED BY <2>1, SavedumpsRun DEF AllRun
  <1> QED BY <1>1, <1>2, <1>3, <1>4, <1>5, <1>6

(* Those that read a file, send a packet or take any source.                *)
LEMMA FilesRun ==
    /\ AllRun("readfile", Readfile)
    /\ AllRun("readfile_remote", ReadfileRemote)
    /\ AllRun("readfile_ex", ReadfileEx)
    /\ AllRun("readfile_ex_remote", ReadfileExRemote)
    /\ AllRun("sendpack", Sendpack)
    /\ AllRun("sendpack_remote", SendpackRemote)
    /\ AllRun("pktdump_ex", PktdumpEx)
    /\ AllRun("pktdump_ex_remote", PktdumpExRemote)
  <1>1. AllRun("readfile", Readfile)
    <2>1. DOMAIN Readfile = 1..1
      BY DEF Readfile
    <2> QED BY <2>1, ReadersRun DEF AllRun
  <1>2. AllRun("readfile_remote", ReadfileRemote)
    <2>1. DOMAIN ReadfileRemote = 1..1
      BY DEF ReadfileRemote
    <2> QED BY <2>1, ReadersRun DEF AllRun
  <1>3. AllRun("readfile_ex", ReadfileEx)
    <2>1. DOMAIN ReadfileEx = 1..1
      BY DEF ReadfileEx
    <2> QED BY <2>1, ReadersRun DEF AllRun
  <1>4. AllRun("readfile_ex_remote", ReadfileExRemote)
    <2>1. DOMAIN ReadfileExRemote = 1..1
      BY DEF ReadfileExRemote
    <2> QED BY <2>1, ReadersRun DEF AllRun
  <1>5. AllRun("sendpack", Sendpack)
    <2>1. DOMAIN Sendpack = 1..1
      BY DEF Sendpack
    <2> QED BY <2>1, SendersRun DEF AllRun
  <1>6. AllRun("sendpack_remote", SendpackRemote)
    <2>1. DOMAIN SendpackRemote = 1..1
      BY DEF SendpackRemote
    <2> QED BY <2>1, SendersRun DEF AllRun
  <1>7. AllRun("pktdump_ex", PktdumpEx)
    <2>1. DOMAIN PktdumpEx = 1..2
      BY DEF PktdumpEx
    <2> QED BY <2>1, PktdumpsRun DEF AllRun
  <1>8. AllRun("pktdump_ex_remote", PktdumpExRemote)
    <2>1. DOMAIN PktdumpExRemote = 1..3
      BY DEF PktdumpExRemote
    <2> QED BY <2>1, PktdumpsRun DEF AllRun
  <1> QED BY <1>1, <1>2, <1>3, <1>4, <1>5, <1>6, <1>7, <1>8

(* Those with a filter.                                                     *)
LEMMA FiltersRun ==
    /\ AllRun("pcap_filter", PcapFilter)
    /\ AllRun("pcap_filter_remote", PcapFilterRemote)
    /\ AllRun("UDPdump", UDPdump)
    /\ AllRun("UDPdump_remote", UDPdumpRemote)
    /\ AllRun("tcptop", Tcptop)
  <1>1. AllRun("pcap_filter", PcapFilter)
    <2>1. PcapFilter = PcapFilterCalls({"fp"},
                              <<Close("fp"), Drops("pcap_dump_close", "dumpfile")>>)
      BY DEF PcapFilter
    <2>2. DOMAIN PcapFilter = 1..2
      BY DEF PcapFilter, PcapFilterCalls
    <2>3. {"fp"} \in SUBSET {"fp"}
      OBVIOUS
    <2> QED BY <2>1, <2>2, <2>3, PcapFiltersRun DEF AllRun
  <1>2. AllRun("pcap_filter_remote", PcapFilterRemote)
    <2>1. PcapFilterRemote = PcapFilterCalls({},
                              <<>>)
      BY DEF PcapFilterRemote
    <2>2. DOMAIN PcapFilterRemote = 1..2
      BY DEF PcapFilterRemote, PcapFilterCalls
    <2>3. {} \in SUBSET {"fp"}
      OBVIOUS
    <2> QED BY <2>1, <2>2, <2>3, PcapFiltersRun DEF AllRun
  <1>3. AllRun("UDPdump", UDPdump)
    <2>1. DOMAIN UDPdump = 1..1
      BY DEF UDPdump
    <2> QED BY <2>1, UDPdumpRuns DEF AllRun
  <1>4. AllRun("UDPdump_remote", UDPdumpRemote)
    <2>1. DOMAIN UDPdumpRemote = 1..1
      BY DEF UDPdumpRemote, UDPdump
    <2> QED BY <2>1, UDPdumpRuns DEF AllRun, UDPdumpRemote
  <1>5. AllRun("tcptop", Tcptop)
    <2>1. DOMAIN Tcptop = 1..1
      BY DEF Tcptop
    <2> QED BY <2>1, TcptopRuns DEF AllRun
  <1> QED BY <1>1, <1>2, <1>3, <1>4, <1>5

(* And the rest that capture.                                               *)
LEMMA RestRun ==
    /\ AllRun("iflist", IfList)
    /\ AllRun("iflist_remote", IfListRemote)
    /\ AllRun("smp_1", Smp1)
    /\ AllRun("sendcap", Sendcap)
    /\ AllRun("pcap_fopen", PcapFopen)
  <1>1. AllRun("iflist", IfList)
    <2>1. DOMAIN IfList = 1..1
      BY DEF IfList
    <2> QED BY <2>1, IfListRuns DEF AllRun
  <1>2. AllRun("iflist_remote", IfListRemote)
    <2>1. DOMAIN IfListRemote = 1..1
      BY DEF IfListRemote, IfList
    <2> QED BY <2>1, IfListRuns DEF AllRun, IfListRemote
  <1>3. AllRun("smp_1", Smp1)
    <2>1. DOMAIN Smp1 = 1..1
      BY DEF Smp1
    <2> QED BY <2>1, SmpRuns DEF AllRun
  <1>4. AllRun("sendcap", Sendcap)
    <2>1. DOMAIN Sendcap = 1..1
      BY DEF Sendcap
    <2> QED BY <2>1, SendcapRuns DEF AllRun
  <1>5. AllRun("pcap_fopen", PcapFopen)
    <2>1. DOMAIN PcapFopen = 1..1
      BY DEF PcapFopen
    <2> QED BY <2>1, PcapFopenRuns DEF AllRun
  <1> QED BY <1>1, <1>2, <1>3, <1>4, <1>5

(* Those for packet.dll.                                                    *)
LEMMA PacketsRun ==
    /\ AllRun("TestPacketCapture", TestPacketCapture)
    /\ AllRun("TestPacketSend", TestPacketSend)
    /\ AllRun("GetMacAddress", GetMacAddress)
  <1>1. AllRun("TestPacketCapture", TestPacketCapture)
    <2>1. DOMAIN TestPacketCapture = 1..1
      BY DEF TestPacketCapture
    <2> QED BY <2>1, TestPacketCaptureRuns DEF AllRun
  <1>2. AllRun("TestPacketSend", TestPacketSend)
    <2>1. DOMAIN TestPacketSend = 1..2
      BY DEF TestPacketSend
    <2> QED BY <2>1, TestPacketSendRuns DEF AllRun
  <1>3. AllRun("GetMacAddress", GetMacAddress)
    <2>1. DOMAIN GetMacAddress = 1..1
      BY DEF GetMacAddress
    <2> QED BY <2>1, GetMacAddressRuns DEF AllRun
  <1> QED BY <1>1, <1>2, <1>3

(* Every program, every way.                                                *)
LEMMA EveryProgramRuns ==
    ASSUME NEW p \in DOMAIN Programs, NEW w \in DOMAIN Programs[p]
    PROVE  Runs(p, Programs[p][w])
  <1>1. CASE p \in DOMAIN PcapCalls
    <2>1. Programs[p] = PcapCalls[p]
      BY <1>1, ProgramsOfTheirOwn
    <2>2. DOMAIN PcapCalls = {"basic_dump", "basic_dump_remote", "basic_dump_ex",
                              "basic_dump_ex_remote", "savedump", "savedump_remote", "readfile",
                              "readfile_remote", "readfile_ex", "readfile_ex_remote", "sendpack",
                              "sendpack_remote", "pktdump_ex", "pktdump_ex_remote", "pcap_filter",
                              "pcap_filter_remote", "UDPdump", "UDPdump_remote", "iflist",
                              "iflist_remote", "smp_1", "tcptop", "sendcap", "pcap_fopen"}
      BY DEF PcapCalls
    <2>3. CASE p \in {"basic_dump", "basic_dump_remote", "basic_dump_ex",
                          "basic_dump_ex_remote", "savedump", "savedump_remote"}
      <3>1. /\ PcapCalls["basic_dump"] = BasicDump
            /\ PcapCalls["basic_dump_remote"] = BasicDumpRemote
            /\ PcapCalls["basic_dump_ex"] = BasicDumpEx
            /\ PcapCalls["basic_dump_ex_remote"] = BasicDumpExRemote
            /\ PcapCalls["savedump"] = Savedump
            /\ PcapCalls["savedump_remote"] = SavedumpRemote
        BY DEF PcapCalls
      <3> QED BY <2>1, <2>3, <3>1, DumpsRun DEF AllRun
    <2>4. CASE p \in {"readfile", "readfile_remote", "readfile_ex",
                          "readfile_ex_remote", "sendpack", "sendpack_remote", "pktdump_ex",
                          "pktdump_ex_remote"}
      <3>1. /\ PcapCalls["readfile"] = Readfile
            /\ PcapCalls["readfile_remote"] = ReadfileRemote
            /\ PcapCalls["readfile_ex"] = ReadfileEx
            /\ PcapCalls["readfile_ex_remote"] = ReadfileExRemote
            /\ PcapCalls["sendpack"] = Sendpack
            /\ PcapCalls["sendpack_remote"] = SendpackRemote
            /\ PcapCalls["pktdump_ex"] = PktdumpEx
            /\ PcapCalls["pktdump_ex_remote"] = PktdumpExRemote
        BY DEF PcapCalls
      <3> QED BY <2>1, <2>4, <3>1, FilesRun DEF AllRun
    <2>5. CASE p \in {"pcap_filter", "pcap_filter_remote", "UDPdump", "UDPdump_remote",
                          "tcptop"}
      <3>1. /\ PcapCalls["pcap_filter"] = PcapFilter
            /\ PcapCalls["pcap_filter_remote"] = PcapFilterRemote
            /\ PcapCalls["UDPdump"] = UDPdump
            /\ PcapCalls["UDPdump_remote"] = UDPdumpRemote
            /\ PcapCalls["tcptop"] = Tcptop
        BY DEF PcapCalls
      <3> QED BY <2>1, <2>5, <3>1, FiltersRun DEF AllRun
    <2>6. CASE p \in {"iflist", "iflist_remote", "smp_1", "sendcap", "pcap_fopen"}
      <3>1. /\ PcapCalls["iflist"] = IfList
            /\ PcapCalls["iflist_remote"] = IfListRemote
            /\ PcapCalls["smp_1"] = Smp1
            /\ PcapCalls["sendcap"] = Sendcap
            /\ PcapCalls["pcap_fopen"] = PcapFopen
        BY DEF PcapCalls
      <3> QED BY <2>1, <2>6, <3>1, RestRun DEF AllRun
    <2> QED BY <1>1, <2>2, <2>3, <2>4, <2>5, <2>6
  <1>2. CASE p \in DOMAIN PacketCalls
    <2>1. Programs[p] = PacketCalls[p]
      BY <1>2, ProgramsOfTheirOwn
    <2>2. DOMAIN PacketCalls = {"TestPacketCapture", "TestPacketSend", "GetMacAddress"}
      BY DEF PacketCalls
    <2>3. /\ PacketCalls["TestPacketCapture"] = TestPacketCapture
          /\ PacketCalls["TestPacketSend"] = TestPacketSend
          /\ PacketCalls["GetMacAddress"] = GetMacAddress
      BY DEF PacketCalls
    <2> QED BY <1>2, <2>1, <2>2, <2>3, PacketsRun DEF AllRun
  <1>3. CASE p \in DOMAIN BridgeCalls
    <2>1. p = "UserBridge"
      BY <1>3 DEF BridgeCalls
    <2>2. DOMAIN Bridge = 1..1
      BY DEF Bridge
    <2> QED BY <2>1, <2>2, BridgeProgram, BridgeRuns
  <1> QED BY <1>1, <1>2, <1>3, ProgramsOfTheirOwn

-----------------------------------------------------------------------------
(* The invariant of what is held.                                          *)

(* What the program that runs has at each of its calls.                     *)
HadBy(p, w) ==
    CHOOSE H : /\ Course(p, Programs[p][w], H) /\ H[1] = {}
               /\ EndsTidy(p, H[Len(Programs[p][w]) + 1])
Had == HadBy(prog, way)

(* What main has taken back so far, where it gives up step by step.         *)
TakenBack == IF undo = {} THEN {} ELSE Call.cleanup \ undo

(* UserBridge's handler is there from the call after signal() on.           *)
HeldInv ==
    /\ Running => held = Had[pc] \ TakenBack
    /\ undo \subseteq Call.cleanup
    /\ undo # {} => Call.fails
    /\ status = "failed" => Call.fails /\ held = Had[pc] \ Call.cleanup
    /\ status = "returned" => held = Had[Len(calls) + 1]
    /\ IsBridge /\ handler # "default" => pc >= 19
    /\ IsBridge /\ status = "crashed" => <<prog, Call.name>> \in GoesDownAt

(* main runs along it.                                                      *)
LEMMA HadRuns ==
    ASSUME MainIsSomewhere
    PROVE  /\ \A k \in 1..Len(calls) : Step(prog, calls[k], Had[k], Had[k + 1])
           /\ Had[1] = {} /\ EndsTidy(prog, Had[Len(calls) + 1])
           /\ pc \in 1..Len(calls) /\ Len(calls) \in Nat
  <1>1. prog \in DOMAIN Programs /\ way \in DOMAIN Programs[prog]
    BY DEF MainIsSomewhere
  <1>2. Runs(prog, calls)
    BY <1>1, EveryProgramRuns DEF calls
  <1>3. \E H : Course(prog, calls, H) /\ H[1] = {} /\ EndsTidy(prog, H[Len(calls) + 1])
    BY <1>2 DEF Runs, Passes
  <1>4. Course(prog, calls, Had) /\ Had[1] = {} /\ EndsTidy(prog, Had[Len(calls) + 1])
    BY <1>3 DEF Had, HadBy, calls
  <1>5. pc \in 1..Len(calls) /\ Len(calls) \in Nat
    BY <1>1, CallsAreAList DEF MainIsSomewhere, CallsTypeOK
  <1> QED BY <1>4, <1>5 DEF Course

(* The call main is at.                                                     *)
LEMMA StepHere == MainIsSomewhere => Step(prog, Call, Had[pc], Had[pc + 1])
  BY HadRuns DEF Call

(* Nothing is worked on that is not there.                                  *)
LEMMA HeldIsUsed == MainIsSomewhere /\ HeldInv => NothingStale
  <1> SUFFICES ASSUME MainIsSomewhere, HeldInv, Running
               PROVE  (IF undo = {} THEN Touched(Call) ELSE undo)
                          \subseteq held \cup StaleIn(prog, Call.name)
    BY DEF NothingStale
  <1>1. Touched(Call) \subseteq Had[pc] \cup StaleIn(prog, Call.name)
    BY StepHere DEF Step
  <1>2. CASE undo = {}
    BY <1>1, <1>2 DEF HeldInv, TakenBack
  <1>3. CASE undo # {}
    <2>1. undo \subseteq Had[pc] \cup StaleIn(prog, Call.name)
      BY <1>1 DEF HeldInv, Touched
    <2>2. held = Had[pc] \ (Call.cleanup \ undo)
      BY <1>3 DEF HeldInv, TakenBack
    <2> QED BY <1>3, <2>1, <2>2
  <1> QED BY <1>2, <1>3

(* What is freed again is known to be.                                      *)
LEMMA FreedAgainThere ==
    ASSUME MainIsSomewhere, HeldInv, IsBridge, Running, undo # {}, undo \cap held = {}
    PROVE  <<prog, Call.name>> \in GoesDownAt
  <1>1. undo \subseteq StaleIn(prog, Call.name)
    BY HeldIsUsed DEF NothingStale
  <1>2. StaleIn(prog, Call.name) # {}
    BY <1>1
  <1>3. Call.name \in {"CreateThread", "printf"}
    BY <1>2 DEF StaleIn
  <1> QED BY <1>3 DEF IsBridge, GoesDownAt

(* Why UserBridge may go down.                                              *)
GoesWrong == Running /\ (Call.down \/ (undo # {} /\ undo \cap held = {}))

(* A step goes on by a call, gives up at one or leaves main where it is; or *)
(* UserBridge gives up step by step, or its handler ends it.                *)
GoesOn ==
    \/ UNCHANGED <<callVars, undo>>
    \/ Running /\ undo = {} /\ undo' = {} /\ (Succeed \/ Fail)
    \/ UNCHANGED undo /\ (End("stopped") \/ (End("crashed") /\ (IsBridge => GoesWrong)))
    \/ IsBridge /\ (BridgeFails \/ \E n \in DOMAIN UndoOrder : TakeBack(n))
    \/ IsBridge /\ Running /\ handler = "waiting" /\ End("returned") /\ UNCHANGED undo

(* No step of any program does anything else.                               *)
LEMMA EveryStepGoesOn == BridgeInv /\ [Next]_winVars => GoesOn
  <1> SUFFICES ASSUME BridgeInv, [Next]_winVars PROVE GoesOn
    OBVIOUS
  <1>0. ~IsBridge => undo = {}
    BY DEF BridgeInv, BridgeIdle
  <1>1. CASE OfPcap(PcapNext)
    <2>0. ~IsBridge /\ undo' = {} /\ undo = {}
      BY <1>0, <1>1 DEF OfPcap, PcapCalls, IsBridge, bridgeVars
    <2>1. CASE Main
      <3>1. CASE ReadPacket
        BY <2>0, <3>1 DEF ReadPacket, HandleSample, HandleConsistent, HandleOther, GoesOn
      <3>2. CASE ReadRecord
        BY <2>0, <3>2 DEF ReadRecord, Looping, GoesOn
      <3>3. CASE ReadError
        BY <2>0, <3>3 DEF ReadError, Looping, GoesOn
      <3>4. CASE DoCall \/ FailCall \/ GoDown \/ ReadNothing \/ ReadEnd
        BY <2>0, <3>4 DEF DoCall, FailCall, GoDown, ReadNothing, ReadEnd, Looping, GoesOn
      <3> QED BY <2>1, <3>1, <3>2, <3>3, <3>4 DEF Main
    <2>2. CASE Arrive \/ Grow
      BY <2>0, <2>2 DEF Arrive, Grow, GoesOn
    <2>3. CASE Interrupt
      BY <2>0, <2>3 DEF Interrupt, GoesOn
    <2> QED BY <1>1, <2>1, <2>2, <2>3 DEF OfPcap, PcapNext
  <1>2. CASE OfPacket(PacketNext)
    <2>0. ~IsBridge /\ undo' = {} /\ undo = {}
      BY <1>0, <1>2 DEF OfPacket, PacketCalls, IsBridge, bridgeVars
    <2>1. CASE PacketMain
      <3>1. CASE Running /\ (SplitList \/ SelectAdapter)
        BY <2>0, <3>1 DEF SplitList, SelectAdapter, GoesOn
      <3>2. CASE PrintPacket
        <4>1. End("crashed") \/ UNCHANGED callVars
          BY <3>2 DEF PrintPacket
        <4> QED BY <2>0, <4>1 DEF GoesOn
      <3>3. CASE Plain \/ GoDown \/ Receive \/ ReceiveFails \/ PrintEnd \/ LoopEnd
        BY <2>0, <3>3 DEF Plain, GoDown, Receive, ReceiveFails, PrintEnd, LoopEnd, Looping, GoesOn
      <3> QED BY <2>1, <3>1, <3>2, <3>3 DEF PacketMain
    <2>2. CASE PressKey
      BY <2>0, <2>2 DEF PressKey, GoesOn
    <2>3. CASE Interrupt
      BY <2>0, <2>3 DEF Interrupt, GoesOn
    <2> QED BY <1>2, <2>1, <2>2, <2>3 DEF OfPacket, PacketNext
  <1>3. CASE OfBridge(BridgeNext)
    <2>0. IsBridge
      BY <1>3 DEF OfBridge, BridgeCalls, IsBridge
    <2>1. ASSUME NEW t \in Sides, Come(t) \/ Forward(t) PROVE GoesOn
      BY <2>1 DEF Come, Forward, LoopTestKill, NextEx, NextExFails, Enter, Leave, SendOn, GoesOn
    <2>2. CASE BridgeDoes \/ CtrlC
      BY <2>2 DEF BridgeDoes, CtrlC, Awake, GoesOn
    <2>3. CASE CtrlCUnhandled
      BY <2>3 DEF CtrlCUnhandled, Interrupt, GoesOn, bridgeVars
    <2>4. CASE WaitAll \/ WaitTimeout
      BY <2>0, <2>4 DEF WaitAll, WaitTimeout, Exit, GoesOn, bridgeVars
    <2>5. CASE BridgeFails \/ (\E n \in DOMAIN UndoOrder : TakeBack(n))
      BY <2>0, <2>5 DEF GoesOn
    <2>6. CASE (Awake /\ GoDown /\ UNCHANGED bridgeVars) \/ FreedAgain
      BY <2>6 DEF GoDown, FreedAgain, GoesOn, GoesWrong, bridgeVars
    <2> QED BY <1>3, <2>1, <2>2, <2>3, <2>4, <2>5, <2>6 DEF OfBridge, BridgeNext
  <1>4. CASE UNCHANGED winVars
    BY <1>4 DEF winVars, bridgeVars, GoesOn
  <1> QED BY <1>1, <1>2, <1>3, <1>4 DEF Next

(* Only the call of signal() sets up the handler, and main stays behind it. *)
LEMMA HandlerComesLast ==
    ASSUME IsBridge, MainInv, handler # "default" => pc >= 19, [Next]_winVars
    PROVE  handler' # "default" => pc' >= 19
  <1>1. Len(calls) = 20 /\ BridgeCall(pc, Call) /\ pc \in 1..20
    BY BridgeCallFacts DEF IsBridge, MainInv
  <1>2. CASE UNCHANGED winVars
    BY <1>2 DEF winVars, callVars, bridgeVars, threadVars
  <1>3. CASE Next
    <2>1. BridgeNext
      BY <1>3 DEF Next, OfPcap, OfPacket, OfBridge, PcapCalls, PacketCalls, IsBridge
    <2>2. CASE BridgeDoes
      <3>1. pc \in 1..19
        BY <1>1, <2>2 DEF BridgeDoes, Awake, BridgeCall
      <3>2. pc' = pc + 1
        BY <1>1, <2>2, <3>1 DEF BridgeDoes, Succeed, Advance
      <3>3. handler' = handler \/ pc = 18
        BY <1>1, <2>2 DEF BridgeDoes, BridgeCall
      <3> QED BY <3>1, <3>2, <3>3
    <2>3. CASE BridgeFails \/ (\E n \in DOMAIN UndoOrder : TakeBack(n))
      BY <2>3 DEF BridgeFails, TakeBack, threadVars
    <2>4. CASE \/ CtrlC \/ CtrlCUnhandled \/ WaitAll \/ WaitTimeout
               \/ (Awake /\ GoDown /\ UNCHANGED bridgeVars) \/ FreedAgain
      <3>1. pc' = pc /\ (handler' = handler \/ handler # "default")
        BY <2>4 DEF CtrlC, CtrlCUnhandled, Interrupt, WaitAll, WaitTimeout, Exit, GoDown,
                    FreedAgain, End, callVars, bridgeVars, threadVars
      <3> QED BY <3>1
    <2>5. ASSUME NEW t \in Sides, Come(t) \/ Forward(t) PROVE UNCHANGED <<handler, pc>>
      BY <2>5 DEF Come, Forward, LoopTestKill, NextEx, NextExFails, Enter, Leave, SendOn, callVars
    <2> QED BY <2>1, <2>2, <2>3, <2>4, <2>5 DEF BridgeNext
  <1> QED BY <1>2, <1>3

(* UserBridge's last calls neither hand out nor take back.                  *)
LEMMA LastCallsHold ==
    ASSUME MainIsSomewhere, IsBridge, MainInv, pc >= 19
    PROVE  Had[Len(calls) + 1] = Had[pc] /\ Call.cleanup = {}
  <1>1. Len(calls) = 20 /\ BridgeCall(pc, Call) /\ pc \in {19, 20}
    BY BridgeCallFacts DEF IsBridge, MainInv
  <1>2. calls[19] = Risky(Listening) /\ calls[20] = Uses("Sleep", {})
    BY BridgeCallList DEF IsBridge, MainInv
  <1>3. Step(prog, calls[19], Had[19], Had[19 + 1]) /\ Step(prog, calls[20], Had[20], Had[20 + 1])
    BY <1>1, HadRuns
  <1>4. /\ calls[19].gets = {} /\ calls[19].drops = {}
        /\ calls[20].gets = {} /\ calls[20].drops = {}
    BY <1>2, UsesFields, RiskyFields DEF Listening
  <1>7. Had[19 + 1] = Had[19]
    BY <1>3, <1>4 DEF Step
  <1>8. Had[20 + 1] = Had[20]
    BY <1>3, <1>4 DEF Step
  <1>5. Had[21] = Had[20] /\ Had[20] = Had[19]
    BY <1>7, <1>8
  <1>6. Call.cleanup = {}
    BY <1>1 DEF BridgeCall
  <1> QED BY <1>1, <1>5, <1>6

(* Giving up step by step keeps to the course.                              *)
LEMMA UndoKeeps ==
    ASSUME HeldInv, IsBridge, Call' = Call, Had' = Had,
           BridgeFails \/ (\E n \in DOMAIN UndoOrder : TakeBack(n))
    PROVE  /\ pc' = pc /\ undo' \subseteq Call.cleanup /\ (undo' # {} => Call.fails)
           /\ Running' => held' = Had[pc] \ TakenBack'
           /\ status' = "failed" => Call.fails /\ held' = Had[pc] \ Call.cleanup
           /\ status' \in {"running", "failed"}
  <1>1. CASE BridgeFails
    <2>1. /\ undo = {} /\ Call.fails /\ Running /\ undo' = Call.cleanup /\ pc' = pc
          /\ held' = held /\ status' = IF Call.cleanup = {} THEN "failed" ELSE "running"
      BY <1>1 DEF BridgeFails, Awake, Running
    <2>2. held' = Had[pc]
      BY <2>1 DEF HeldInv, TakenBack
    <2>3. TakenBack' = {}
      BY <2>1 DEF TakenBack
    <2> QED BY <2>1, <2>2, <2>3
  <1>2. ASSUME NEW n \in DOMAIN UndoOrder, TakeBack(n)
        PROVE  /\ pc' = pc /\ undo' \subseteq Call.cleanup /\ (undo' # {} => Call.fails)
               /\ Running' => held' = Had[pc] \ TakenBack'
               /\ status' = "failed" => Call.fails /\ held' = Had[pc] \ Call.cleanup
               /\ status' \in {"running", "failed"}
    <2>1. PICK o : o = UndoOrder[n]
      OBVIOUS
    <2>2. /\ o \in undo /\ Running /\ held' = held \ {o} /\ undo' = undo \ {o} /\ pc' = pc
          /\ status' = IF undo' = {} THEN "failed" ELSE "running"
      BY <1>2, <2>1 DEF TakeBack, Running
    <2>3. held = Had[pc] \ (Call.cleanup \ undo)
      BY <2>2 DEF HeldInv, TakenBack
    <2>4. undo \subseteq Call.cleanup /\ Call.fails
      BY <2>2 DEF HeldInv
    <2>5. held' = Had[pc] \ (Call.cleanup \ undo')
      BY <2>2, <2>3, <2>4
    <2>6. undo' # {} => TakenBack' = Call.cleanup \ undo'
      BY DEF TakenBack
    <2>7. undo' = {} => held' = Had[pc] \ Call.cleanup
      BY <2>5
    <2>8. Running' => undo' # {}
      BY <2>2 DEF Running
    <2> QED BY <2>2, <2>4, <2>5, <2>6, <2>7, <2>8
  <1> QED BY <1>1, <1>2

(* Every step keeps to the course.                                          *)
LEMMA HeldKeeps ==
    ASSUME MainIsSomewhere, BridgeInv, HeldInv, [Next]_winVars
    PROVE  HeldInv'
  <1>1. UNCHANGED <<prog, way>>
    BY ProgramStays
  <1>2. calls' = calls /\ Had' = Had /\ (IsBridge <=> IsBridge')
    BY <1>1 DEF calls, Had, IsBridge
  <1>3. IsBridge' /\ handler' # "default" => pc' >= 19
    BY <1>2, HandlerComesLast DEF HeldInv, BridgeInv
  <1>4. /\ Running' => held' = Had[pc'] \ TakenBack'
        /\ undo' \subseteq Call'.cleanup /\ (undo' # {} => Call'.fails)
        /\ status' = "failed" => Call'.fails /\ held' = Had[pc'] \ Call'.cleanup
        /\ status' = "returned" => held' = Had[Len(calls) + 1]
        /\ IsBridge /\ status' = "crashed" => <<prog, Call'.name>> \in GoesDownAt
    <2>0. pc' = pc => Call' = Call
      BY <1>2 DEF Call
    <2>1. CASE UNCHANGED <<callVars, undo>>
      <3>1. pc' = pc /\ held' = held /\ status' = status /\ Call' = Call /\ undo' = undo
        BY <2>0, <2>1 DEF callVars
      <3>2. TakenBack' = TakenBack
        BY <3>1 DEF TakenBack
      <3> QED BY <3>1, <3>2 DEF HeldInv, Running
    <2>2. CASE Running /\ undo = {} /\ undo' = {} /\ Succeed
      <3>1. pc \in 1..Len(calls) /\ Len(calls) \in Nat /\ Step(prog, Call, Had[pc], Had[pc + 1])
        BY HadRuns, StepHere
      <3>2. held' = Had[pc + 1]
        BY <2>2, <3>1 DEF Step, Succeed, HeldInv, TakenBack
      <3>3. TakenBack' = {}
        BY <2>2 DEF TakenBack
      <3>4. CASE pc = Len(calls)
        BY <2>2, <3>2, <3>4 DEF Succeed, Advance, Running
      <3>5. CASE pc # Len(calls)
        BY <2>2, <3>2, <3>3, <3>5 DEF Succeed, Advance, Running
      <3> QED BY <3>4, <3>5
    <2>3. CASE Running /\ undo = {} /\ undo' = {} /\ Fail
      <3>1. pc' = pc /\ Call' = Call
        BY <2>0, <2>3 DEF Fail
      <3>2. held = Had[pc]
        BY <2>3 DEF HeldInv, TakenBack
      <3> QED BY <2>3, <3>1, <3>2 DEF Fail, Running
    <2>4. CASE UNCHANGED undo /\ (End("stopped") \/ (End("crashed") /\ (IsBridge => GoesWrong)))
      <3>1. pc' = pc /\ Call' = Call /\ ~Running' /\ status' \in {"stopped", "crashed"}
        BY <2>0, <2>4 DEF End, Running
      <3>2. ASSUME IsBridge, status' = "crashed" PROVE <<prog, Call.name>> \in GoesDownAt
        <4>1. GoesWrong
          BY <2>4, <3>2 DEF End
        <4>2. Call.down => <<prog, Call.name>> \in GoesDownAt
          BY StepHere DEF Step
        <4> QED BY <3>2, <4>1, <4>2, FreedAgainThere DEF GoesWrong
      <3> QED BY <2>4, <3>1, <3>2 DEF HeldInv
    <2>5. CASE IsBridge /\ (BridgeFails \/ \E n \in DOMAIN UndoOrder : TakeBack(n))
      <3>1. pc' = pc
        BY <2>5 DEF BridgeFails, TakeBack
      <3> QED BY <1>2, <2>0, <2>5, <3>1, UndoKeeps
    <2>6. CASE /\ IsBridge /\ Running /\ handler = "waiting" /\ End("returned") /\ UNCHANGED undo
      <3>1. pc >= 19 /\ pc' = pc /\ held' = held /\ status' = "returned" /\ Call' = Call
        BY <2>0, <2>6 DEF HeldInv, End
      <3>2. Had[Len(calls) + 1] = Had[pc] /\ Call.cleanup = {}
        BY <2>6, <3>1, LastCallsHold DEF BridgeInv
      <3>3. undo = {} /\ held = Had[pc]
        BY <2>6, <3>2 DEF HeldInv, TakenBack
      <3> QED BY <2>6, <3>1, <3>2, <3>3 DEF Running
    <2> QED BY <2>1, <2>2, <2>3, <2>4, <2>5, <2>6, EveryStepGoesOn DEF GoesOn
  <1> QED BY <1>2, <1>3, <1>4, <1>1 DEF HeldInv

(* Nothing is held at the start, and there is no handler.                   *)
LEMMA InitHeld == Init => HeldInv
  <1> SUFFICES ASSUME Init PROVE HeldInv
    OBVIOUS
  <1>1. MainIsSomewhere
    BY AtStart
  <1>2. pc = 1 /\ held = {} /\ status = "running" /\ handler = "default" /\ undo = {}
    BY DEF Init, PcapInit, PacketInit, BridgeInit, Start, BridgeIdle
  <1>3. Had[1] = {}
    BY <1>1, HadRuns
  <1> QED BY <1>2, <1>3 DEF HeldInv, TakenBack

(* Whatever happens, the program has what it is meant to have.              *)
LEMMA AlwaysHeld == Spec => []HeldInv
  <1>1. ExamplesInv => MainIsSomewhere
    BY DEF ExamplesInv
  <1>2. MainIsSomewhere /\ BridgeInv /\ HeldInv /\ [Next]_winVars => HeldInv'
    BY HeldKeeps
  <1> QED BY <1>1, <1>2, InitHeld, AlwaysExamples, AlwaysBridge, PTL DEF Spec

(* Whatever calls fail and wherever the user stops it: no call of the       *)
(* programs, and no step of a clean-up behind one, works on what is not     *)
(* there any more, but for UserBridge's list of devices behind CreateThread *)
(* and in its last message (the mains of all examples).                     *)
THEOREM NothingStaleUsed == Spec => []NothingStale
  <1>1. ExamplesInv => MainIsSomewhere
    BY DEF ExamplesInv
  <1> QED BY <1>1, HeldIsUsed, AlwaysHeld, AlwaysExamples, PTL

(* Wherever a program ends, it has given back everything it was handed but  *)
(* what it is known to leave, by program, call and object, and the list of  *)
(* devices before it captures (the mains of all examples).                  *)
THEOREM EverythingGivenBack == Spec => []GivesBack
  <1>1. MainIsSomewhere /\ HeldInv => GivesBack
    <2> SUFFICES ASSUME MainIsSomewhere, HeldInv PROVE GivesBack
      OBVIOUS
    <2>1. Step(prog, Call, Had[pc], Had[pc + 1])
      BY StepHere
    <2>2. status = "failed" => LeavesTidy(prog, Call.name, held)
      BY <2>1 DEF HeldInv, Step
    <2>3. status = "returned" => EndsTidy(prog, held)
      BY HadRuns DEF HeldInv
    <2>4. Looping /\ "alldevs" \in held => prog \in KeepsList
      BY <2>1 DEF HeldInv, Looping, Step
    <2> QED BY <2>2, <2>3, <2>4 DEF GivesBack, LeavesTidy, EndsTidy
  <1>2. ExamplesInv => MainIsSomewhere
    BY DEF ExamplesInv
  <1> QED BY <1>1, <1>2, AlwaysHeld, AlwaysExamples, PTL

(* Whatever comes in: a program goes down only at the calls the table       *)
(* names, tcptop also at a sample with the time of the one before, sendcap  *)
(* at a file without a whole header, and the programs for packet.dll where  *)
(* there are more adapters than rows (UDPdump's, UserBridge's and           *)
(* TestPacketSend's mains, dispatcher_handler, sendcap's main and           *)
(* TestPacketCapture's loop over the names).                                *)
THEOREM GoesDownOnlyThere == Spec => []CrashOnlyWhere
  <1>1. MainIsSomewhere /\ ExamplesInv /\ PacketInv /\ HeldInv => CrashOnlyWhere
    <2> SUFFICES ASSUME MainIsSomewhere, ExamplesInv, PacketInv, HeldInv, status = "crashed"
                 PROVE  \/ <<prog, Call.name>> \in GoesDownAt
                        \/ prog = "tcptop" /\ StandsStill
                        \/ prog = "sendcap" /\ measured < 0
                        \/ prog \in DOMAIN PacketCalls /\ TooManyNames
      BY DEF CrashOnlyWhere, TooManyNames
    <2>1. Call.down => <<prog, Call.name>> \in GoesDownAt
      BY StepHere DEF Step
    <2>2. CASE prog \in DOMAIN PcapCalls
      BY <2>1, <2>2 DEF ExamplesInv, CrashFacts
    <2>3. CASE prog \in DOMAIN PacketCalls
      BY <2>1, <2>3 DEF PacketInv
    <2>4. CASE prog \in DOMAIN BridgeCalls
      BY <2>4 DEF HeldInv, IsBridge, BridgeCalls
    <2> QED BY <2>2, <2>3, <2>4, ProgramsOfTheirOwn DEF MainIsSomewhere
  <1>2. ExamplesInv => MainIsSomewhere
    BY DEF ExamplesInv
  <1> QED BY <1>1, <1>2, AlwaysHeld, AlwaysExamples, AlwaysPackets, PTL

(* A block that PrintPackets is at the end of was printed as a whole.       *)
LEMMA BlockPrinted == MainIsSomewhere /\ PacketInv => PrintsTheBlock
  <1> SUFFICES ASSUME MainIsSomewhere, PacketInv PROVE PrintsTheBlock
    OBVIOUS
  <1>1. PICK k \in 0..Len(block) : /\ printed = [n \in 1..k |-> n]
                                   /\ off # NotPrinting => off = HeaderAt(block, k + 1)
    BY DEF PacketInv, PrintsInOrder
  <1>2. block \in Seq(CapLens) /\ Len(block) \in Nat /\ received \in LengthsOf(block)
    BY DEF PacketInv
  <1>3. Len(printed) = k
    BY <1>1, <1>2
  <1>4. ASSUME off >= received, off # NotPrinting PROVE k = Len(block)
    <2> DEFINE H(n) == HeaderAt(block, n)
    <2>1. \A n \in 1..Len(block) + 1 : H(n) \in Nat /\ \A m \in 1..n - 1 : H(m) < H(n)
      BY <1>2, HeadersAscend
    <2>2. off = H(k + 1)
      BY <1>1, <1>4
    <2>3. block # <<>> => received > H(Len(block))
      BY <1>2, LengthsAre
    <2>4. received \in Int
      BY <1>2, LengthsAre
    <2> HIDE DEF H
    <2>5. SUFFICES ASSUME k # Len(block) PROVE FALSE
      OBVIOUS
    <2>6. block # <<>> /\ k + 1 \in 1..Len(block)
      BY <1>2, <2>5
    <2>7. H(k + 1) <= H(Len(block)) /\ H(k + 1) \in Nat /\ H(Len(block)) \in Nat
      <3>1. k + 1 = Len(block) \/ k + 1 \in 1..Len(block) - 1
        BY <1>2, <2>6
      <3>2. k + 1 \in 1..Len(block) + 1 /\ Len(block) \in 1..Len(block) + 1
        BY <1>2, <2>6
      <3>3. H(k + 1) \in Nat /\ H(Len(block)) \in Nat
        BY <2>1, <3>2
      <3>4. k + 1 \in 1..Len(block) - 1 => H(k + 1) < H(Len(block))
        BY <2>1, <3>2
      <3> QED BY <3>1, <3>3, <3>4
    <2> QED BY <1>4, <2>2, <2>3, <2>4, <2>6, <2>7
  <1>5. ASSUME prog \in DOMAIN PacketCalls, status = "crashed"
        PROVE  TooManyNames \/ Call.name = "sscanf_s"
    <2>1. Call.down => <<prog, Call.name>> \in GoesDownAt
      BY StepHere DEF Step
    <2>2. prog \in {"TestPacketCapture", "TestPacketSend", "GetMacAddress"}
      BY <1>5 DEF PacketCalls
    <2>3. Call.down => Call.name = "sscanf_s"
      BY <2>1, <2>2 DEF GoesDownAt
    <2> QED BY <1>5, <2>3 DEF PacketInv
  <1>6. printed = [n \in 1..Len(printed) |-> n]
    BY <1>1, <1>3
  <1>7. off >= received /\ off # NotPrinting => Len(printed) = Len(block)
    BY <1>3, <1>4
  <1> QED BY <1>5, <1>6, <1>7 DEF PrintsTheBlock, TooManyNames

(* Whatever adapters there are and whatever packets the driver hands over:  *)
(* the programs for packet.dll find the names of the list as they were put  *)
(* in, and every packet of a block in order and nothing else; more adapters *)
(* than AdapterList has rows, or one named on the command line, is all that *)
(* brings them down (the loop of TestPacketCapture's main, and              *)
(* PrintPackets).                                                           *)
THEOREM TakenApartRight == Spec => []TakesApart
  <1>1. MainIsSomewhere /\ PacketInv => TakesApart
    BY NamesTakenApart, BlockPrinted DEF TakesApart
  <1>2. ExamplesInv => MainIsSomewhere
    BY DEF ExamplesInv
  <1> QED BY <1>1, <1>2, AlwaysPackets, AlwaysExamples, PTL
=============================================================================
