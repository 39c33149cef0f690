------------------------------ MODULE Programs ------------------------------
(***************************************************************************)
(* The programs that come with WinPcap, each as the calls of its main: one *)
(* list for each way the command line leads.  The names are those of the   *)
(* directories; a name that ends in "remote" is the variant in             *)
(* Examples-remote of a program that Examples-pcap has as well.            *)
(***************************************************************************)
EXTENDS Calls, Sequences

(* The calls the programs share. *)
Argc        == Checks("argc", {}, {})
Find        == Gets("pcap_findalldevs", "alldevs", {}, {})
SourceName  == Checks("pcap_createsrcstr", {}, {})
Open(h, cleanup)       == Gets("pcap_open", h, {}, cleanup)
OpenChosen(h, cleanup) == Gets("pcap_open", h, {"alldevs"}, cleanup)
Compile(h, cleanup)    == Gets("pcap_compile", "fcode", {h}, cleanup)
SetFilter(h, cleanup)  == Checks("pcap_setfilter", {h, "fcode"}, cleanup)
DumpOpen(h, cleanup)   == Gets("pcap_dump_open", "dumpfile", {h}, cleanup)
FreeDevs    == Drops("pcap_freealldevs", "alldevs")
Close(h)    == Drops("pcap_close", h)
SendPacket(h) == Checks("pcap_sendpacket", {h}, {})

(* The devices are found and listed and the user picks one.  A list that    *)
(* is empty is no list and needs no freeing.                                *)
Pick == <<Find, Checks("no_devices", {"alldevs"}, {"alldevs"}),
          Checks("inum", {"alldevs"}, {"alldevs"})>>

(* "listening on" the device, by its description. *)
Listening == Uses("printf", {"alldevs"})

PickAndOpen == Pick \o <<OpenChosen("adhandle", {"alldevs"})>>

-----------------------------------------------------------------------------
(* Slip: the list is freed before the device is opened by its name in it.   *)
BasicDumpFreesEarly ==
    <<Pick \o <<FreeDevs, OpenChosen("adhandle", {}), Loop("adhandle", "net", "print"),
               Close("adhandle")>>>>

BasicDump ==
    <<PickAndOpen \o <<Listening, FreeDevs, Loop("adhandle", "net", "print"),
                      Close("adhandle")>>>>

BasicDumpRemote ==
    <<PickAndOpen \o <<Listening, FreeDevs, Loop("adhandle", "net", "print")>>>>

(* Slip: the list is kept where opening fails. *)
BasicDumpExKeepsList ==
    <<Pick \o <<OpenChosen("adhandle", {}), Listening, FreeDevs,
               LoopOrReturn("adhandle", "net", "print", {}), Close("adhandle")>>>>

BasicDumpEx ==
    <<PickAndOpen \o <<Listening, FreeDevs, LoopOrReturn("adhandle", "net", "print", {}),
                      Close("adhandle")>>>>

BasicDumpExRemote ==
    <<PickAndOpen \o <<Listening, FreeDevs, LoopOrReturn("adhandle", "net", "print", {})>>>>

SavedumpStart ==
    <<Argc>> \o PickAndOpen \o
    <<DumpOpen("adhandle", {}), Listening, FreeDevs, Loop("adhandle", "net", "dump")>>

Savedump       == <<Append(SavedumpStart, Close("adhandle"))>>
SavedumpRemote == <<SavedumpStart>>

Readfile ==
    <<<<Argc, Open("fp", {}), Loop("fp", "file", "print"), Close("fp")>>>>

ReadfileRemote ==
    <<<<Argc, SourceName, Open("fp", {}), Loop("fp", "file", "print")>>>>

(* An error while reading is reported, and the program goes on to its end.  *)
ReadfileEx ==
    <<<<Argc, Open("fp", {}), Loop("fp", "file", "print"), Close("fp")>>>>

ReadfileExRemote ==
    <<<<Argc, SourceName, Open("fp", {}), Loop("fp", "file", "print")>>>>

Sendpack       == <<<<Argc, Open("fp", {}), SendPacket("fp"), Close("fp")>>>>
SendpackRemote == <<<<Argc, Open("fp", {}), SendPacket("fp")>>>>

(* With no source on the command line the user picks a device, and its list *)
(* is never freed.                                                          *)
PktdumpEx ==
    <<Pick \o <<OpenChosen("fp", {}), LoopOrReturn("fp", "net", "print", {}), Close("fp")>>,
     <<Open("fp", {}), LoopOrReturn("fp", "net", "print", {}), Close("fp")>>>>

(* Here the source may be a file. *)
PktdumpExRemote ==
    <<Pick \o <<OpenChosen("fp", {}), LoopOrReturn("fp", "net", "print", {})>>,
     <<Open("fp", {}), LoopOrReturn("fp", "net", "print", {})>>,
     <<Open("fp", {}), LoopOrReturn("fp", "file", "print", {})>>>>

(* usage() ends the program where the source or the dump file is not named; *)
(* the filter is optional.                                                  *)
PcapFilterCalls(cleanup, end) ==
    LET with(filtering) ==
          <<Argc, Checks("usage", {}, {}), Open("fp", {})>> \o filtering \o
          <<Checks("usage", {}, {}), DumpOpen("fp", cleanup), Loop("fp", "net", "dump")>> \o end
    IN  <<with(<<>>), with(<<Compile("fp", cleanup), SetFilter("fp", cleanup)>>)>>

PcapFilter == PcapFilterCalls({"fp"}, <<Close("fp"), Drops("pcap_dump_close", "dumpfile")>>)
PcapFilterRemote == PcapFilterCalls({}, <<>>)

(* A message that opening failed lacks the name it prints, and the address  *)
(* the device is said to have may be one without a netmask.                 *)
UDPdump ==
    <<Pick \o
     <<Risky(OpenChosen("adhandle", {"alldevs"})),
       Checks("pcap_datalink", {"adhandle"}, {"alldevs"}), Risky(Uses("netmask", {"alldevs"})),
       Compile("adhandle", {"alldevs"}), SetFilter("adhandle", {"alldevs"}),
       Listening, FreeDevs, Loop("adhandle", "net", "udp")>>>>

UDPdumpRemote == UDPdump

IfList       == <<<<Find, Uses("ifprint", {"alldevs"}), FreeDevs>>>>
IfListRemote == IfList

Smp1 ==
    <<Pick \o <<OpenChosen("fp", {"alldevs"}), Uses("clear_old", {}),
               LoopOrReturn("fp", "net", "consistent", {})>>>>

Tcptop ==
    <<<<Argc, Open("fp", {}), Compile("fp", {}), SetFilter("fp", {"fp"}),
       Checks("pcap_setmode", {"fp"}, {"fp"}), Loop("fp", "net", "sample"), Close("fp")>>>>

(* pcap_sendqueue_alloc's result is not looked at; memory is taken to do.   *)
Sendcap ==
    <<<<Argc, Gets("fopen_s", "capfile", {}, {}), Uses("ftell", {"capfile"}),
       Drops("fclose", "capfile"), SourceName, Open("indesc", {}), Open("outdesc", {}),
       Uses("pcap_datalink", {"indesc", "outdesc"}),
       [Uses("pcap_sendqueue_alloc", {}) EXCEPT !.gets = {"squeue"}],
       LoopOrReturn("indesc", "file", "queue", {"squeue"}),
       Uses("pcap_sendqueue_transmit", {"outdesc", "squeue"}),
       Drops("pcap_sendqueue_destroy", "squeue"), Close("indesc"), Close("outdesc")>>>>

(* What tshark writes to a pipe is read like a file. *)
PcapFopen ==
    <<<<Argc, Checks("GetShortPathNameW", {}, {}), Gets("_wpopen", "tshark_out", {}, {}),
       Gets("pcap_fopen_offline", "pcap", {"tshark_out"}, {}), Loop("pcap", "file", "print"),
       Drops("pcap_close", "pcap"), Drops("_pclose", "tshark_out")>>>>

-----------------------------------------------------------------------------
(* The programs for packet.dll. *)
GetNames  == Checks("PacketGetAdapterNames", {}, {})
Split     == Uses("split", {})
Select    == Uses("select", {})
OpenAdapter == Gets("PacketOpenAdapter", "lpAdapter", {}, {})
Allocate  == Gets("PacketAllocatePacket", "lpPacket", {}, {})
InitPacket == Uses("PacketInitPacket", {"lpPacket"})
FreePacket == Drops("PacketFreePacket", "lpPacket")
CloseAdapter == Drops("PacketCloseAdapter", "lpAdapter")
ChooseAndOpen == <<GetNames, Split, Select, OpenAdapter>>

TestPacketCapture ==
    <<ChooseAndOpen \o
     <<Uses("PacketSetHwFilter", {"lpAdapter"}), Checks("PacketSetBuff", {"lpAdapter"}, {}),
       Uses("PacketSetReadTimeout", {"lpAdapter"}), Allocate, InitPacket,
       LoopOrReturn("lpAdapter", "driver", "PrintPackets", {}),
       Uses("PacketGetStats", {"lpAdapter"}), FreePacket, CloseAdapter>>>>

(* The adapter is chosen, or named on the command line: the name is read    *)
(* without a word of how much room there is for it.                         *)
TestPacketSend ==
    LET with(open) ==
          <<Argc>> \o open \o
          <<Allocate, InitPacket, Uses("PacketSetNumWrites", {"lpAdapter"}),
            Checks("PacketSendPacket", {"lpAdapter", "lpPacket"}, {}),
            FreePacket, CloseAdapter>>
    IN  <<with(ChooseAndOpen), with(<<Risky(Uses("sscanf_s", {})), OpenAdapter>>)>>

GetMacAddress ==
    <<ChooseAndOpen \o
     <<Gets("malloc", "OidData", {}, {"lpAdapter"}),
       Uses("PacketRequest", {"lpAdapter", "OidData"}),
       Drops("free", "OidData"), CloseAdapter>>>>

-----------------------------------------------------------------------------
AllHandles == {"adhandle1", "adhandle2"}

(* UserBridge: the clean-up after the filters' errors closes both adapters  *)
(* and frees the list, and so does that after CreateThread's, long after    *)
(* the list was freed; and main's last message still has a device of the    *)
(* list for an argument.  An address may be without a netmask, as above.    *)
CleanAll == AllHandles \cup {"alldevs"}

CreateThread(t, others) == Gets("CreateThread", t, {}, CleanAll \cup others)

Bridge ==
    <<<<Find, Checks("no_devices", {"alldevs"}, {"alldevs"}),
       Checks("inum1", {"alldevs"}, {"alldevs"}), Checks("inum2", {"alldevs"}, {"alldevs"}),
       Checks("inums_differ", {"alldevs"}, {"alldevs"}),
       OpenChosen("adhandle1", {"alldevs"}), Risky(Uses("netmask1", {"alldevs"})),
       OpenChosen("adhandle2", {"alldevs"}), Risky(Uses("netmask2", {"alldevs"})),
       Compile("adhandle1", CleanAll), SetFilter("adhandle1", CleanAll),
       Compile("adhandle2", CleanAll), SetFilter("adhandle2", CleanAll),
       FreeDevs, Uses("InitializeCriticalSection", {}),
       CreateThread("thread0", {}), CreateThread("thread1", {"thread0"}), Uses("signal", {}),
       Risky(Listening), Uses("Sleep", {})>>>>

-----------------------------------------------------------------------------
PcapCalls ==
    [basic_dump |-> BasicDump, basic_dump_remote |-> BasicDumpRemote,
     basic_dump_ex |-> BasicDumpEx, basic_dump_ex_remote |-> BasicDumpExRemote,
     savedump |-> Savedump, savedump_remote |-> SavedumpRemote,
     readfile |-> Readfile, readfile_remote |-> ReadfileRemote,
     readfile_ex |-> ReadfileEx, readfile_ex_remote |-> ReadfileExRemote,
     sendpack |-> Sendpack, sendpack_remote |-> SendpackRemote,
     pktdump_ex |-> PktdumpEx, pktdump_ex_remote |-> PktdumpExRemote,
     pcap_filter |-> PcapFilter, pcap_filter_remote |-> PcapFilterRemote,
     UDPdump |-> UDPdump, UDPdump_remote |-> UDPdumpRemote,
     iflist |-> IfList, iflist_remote |-> IfListRemote,
     smp_1 |-> Smp1, tcptop |-> Tcptop, sendcap |-> Sendcap,
     pcap_fopen |-> PcapFopen]

PacketCalls ==
    [TestPacketCapture |-> TestPacketCapture, TestPacketSend |-> TestPacketSend,
     GetMacAddress |-> GetMacAddress]

BridgeCalls == [UserBridge |-> Bridge]

Programs ==
    [p \in DOMAIN PcapCalls \cup DOMAIN PacketCalls \cup DOMAIN BridgeCalls |->
        CASE p \in DOMAIN PcapCalls   -> PcapCalls[p]
          [] p \in DOMAIN PacketCalls -> PacketCalls[p]
          [] p \in DOMAIN BridgeCalls -> BridgeCalls[p]]

(* Programs that keep the list of devices while they capture. *)
KeepsList == {"pktdump_ex", "pktdump_ex_remote", "smp_1"}
=============================================================================
