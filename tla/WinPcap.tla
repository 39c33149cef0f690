------------------------------- MODULE WinPcap -------------------------------
(***************************************************************************)
(* All programs that come with WinPcap: any one of them is run.            *)
(***************************************************************************)
EXTENDS PcapExamples, PacketExamples, UserBridge

winVars == <<callVars, pcapVars, packetVars, bridgeVars>>

NoText == AdapterName = <<>> /\ before = Nul

Init ==
    \/ PcapInit /\ PacketIdle /\ NoText /\ BridgeIdle
    \/ PacketInit /\ PcapIdle /\ BridgeIdle
    \/ BridgeInit /\ PcapIdle /\ PacketIdle /\ NoText

(* A step of the program that runs. *)
OfPcap(A)   == prog \in DOMAIN PcapCalls /\ A /\ UNCHANGED <<packetVars, bridgeVars>>
OfPacket(A) == prog \in DOMAIN PacketCalls /\ A /\ UNCHANGED <<pcapVars, bridgeVars>>
OfBridge(A) == prog \in DOMAIN BridgeCalls /\ A /\ UNCHANGED <<pcapVars, packetVars>>

Next == OfPcap(PcapNext) \/ OfPacket(PacketNext) \/ OfBridge(BridgeNext)

(* The threads of UserBridge run, and Windows lets the wait for them end.   *)
Fairness ==
    /\ \A t \in Sides : WF_winVars(OfBridge(Forward(t)))
    /\ WF_winVars(OfBridge(WaitAll))

Spec     == Init /\ [][Next]_winVars
FairSpec == Spec /\ Fairness

-----------------------------------------------------------------------------
(* The variables hold values of their declared types. *)
TypeOK ==
    /\ CallsTypeOK /\ PcapTypeOK /\ BridgeTypeOK

(* UserBridge works on the list of devices after it was freed, in the       *)
(* clean-up after CreateThread and in its last message.                     *)
StaleIn(p, name) ==
    IF p = "UserBridge" /\ name \in {"CreateThread", "printf"} THEN {"alldevs"} ELSE {}

(* No call works on a list that was freed, a capture that was closed or was *)
(* never opened, a filter that was not compiled; nor does the clean-up      *)
(* after a call that failed, but for the two places in UserBridge.          *)
NothingStale ==
    Running => (IF undo = {} THEN Touched(Call) ELSE undo) \subseteq
                   held \cup StaleIn(prog, Call.name)

(* What is left to Windows where main comes to its end, by program: the     *)
(* captures and dump files that are not closed, the list that is not freed. *)
LeftWhenDone ==
    UNION {{"basic_dump_remote", "basic_dump_ex_remote", "UDPdump", "UDPdump_remote"} \X {"adhandle"},
           {"readfile_remote", "readfile_ex_remote", "sendpack_remote"} \X {"fp"},
           {"savedump"} \X {"dumpfile"}, {"savedump_remote"} \X {"adhandle", "dumpfile"},
           {"pktdump_ex"} \X {"alldevs"}, {"pktdump_ex_remote", "smp_1"} \X {"alldevs", "fp"},
           {"pcap_filter_remote"} \X {"fp", "dumpfile"},
           {"UserBridge"} \X (AllHandles \cup {"thread0", "thread1"})}

(* And where it gives up, by program and the call that failed. *)
LeftWhenFailed ==
    UNION {{"basic_dump_ex", "basic_dump_ex_remote"} \X {"pcap_loop"} \X {"adhandle"},
           {"savedump", "savedump_remote"} \X {"pcap_dump_open"} \X {"alldevs", "adhandle"},
           {"sendpack", "sendpack_remote"} \X {"pcap_sendpacket"} \X {"fp"},
           {"pktdump_ex", "pktdump_ex_remote"} \X {"pcap_open"} \X {"alldevs"},
           {"pktdump_ex", "pktdump_ex_remote", "smp_1"} \X {"pcap_loop"} \X {"alldevs", "fp"},
           {"pcap_filter", "pcap_filter_remote"} \X {"usage"} \X {"fp"},
           {"pcap_filter_remote"} \X {"pcap_compile", "pcap_setfilter", "pcap_dump_open"} \X {"fp"},
           {"UDPdump", "UDPdump_remote"} \X {"pcap_datalink", "pcap_compile", "pcap_setfilter"}
              \X {"adhandle"},
           {"tcptop"} \X {"pcap_compile"} \X {"fp"},
           {"sendcap"} \X {"pcap_open"} \X {"indesc"},
           {"sendcap"} \X {"pcap_loop"} \X {"indesc", "outdesc"},
           {"pcap_fopen"} \X {"pcap_fopen_offline"} \X {"tshark_out"},
           {"TestPacketCapture"} \X {"PacketSetBuff", "PacketAllocatePacket"} \X {"lpAdapter"},
           {"TestPacketCapture"} \X {"pcap_loop"} \X {"lpAdapter", "lpPacket"},
           {"TestPacketSend"} \X {"PacketAllocatePacket"} \X {"lpAdapter"},
           {"TestPacketSend"} \X {"PacketSendPacket"} \X {"lpAdapter", "lpPacket"},
           {"UserBridge"} \X {"pcap_open"} \X {"adhandle1"}}

(* What a program was handed it gives back before it returns, but for what  *)
(* is named above, and the compiled filter, which none of them frees; and   *)
(* the list of devices before it captures, unless it never frees it.        *)
GivesBack ==
    /\ Looping /\ "alldevs" \in held => prog \in KeepsList
    /\ \A o \in held \ {"fcode"} :
         /\ status = "returned" => <<prog, o>> \in LeftWhenDone
         /\ status = "failed" => <<prog, Call.name, o>> \in LeftWhenFailed

(* Where a program may go down by what it does around a call: a message     *)
(* without the name it prints, an address without the netmask that is read, *)
(* a name read without regard to the room for it, a list that was freed.    *)
GoesDownAt ==
    UNION {{"UDPdump", "UDPdump_remote"} \X {"pcap_open", "netmask"},
           {"UserBridge"} \X {"netmask1", "netmask2", "CreateThread", "printf"},
           {"TestPacketSend"} \X {"sscanf_s"}}

(* The programs go down only there, where tcptop is given a sample with the *)
(* time of the one before, where sendcap measured a file that had no whole  *)
(* header yet, and where there are more adapters than rows in a list.       *)
CrashOnlyWhere ==
    status = "crashed" =>
        \/ <<prog, Call.name>> \in GoesDownAt
        \/ prog = "tcptop" /\ StandsStill
        \/ prog = "sendcap" /\ measured < 0
        \/ prog \in DOMAIN PacketCalls /\ Len(SplitNames(AdapterName, before)) > Max_Num_Adapter
=============================================================================
