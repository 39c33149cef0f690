# A TLA+ model of FileTransferWithMFC

Two programs, one on each of two computers, exchange chat texts and files in
raw Ethernet frames.  A program is a stack of layers: a dialog, a chat layer and
a file layer side by side, an Ethernet layer, and a network interface layer on
WinPcap.  This directory models the stack in TLA+, checks small instances of it
with TLC, and proves its safety properties for every instance with TLAPS: those
of file transfer, of chat, of the Ethernet layer, of the session with the
network and of the bridge among the example programs.

The program's own code is in `src/ipc2019/*.cpp` and `*.h`.  There are no tests.
The only document is `src/README.md`; several sources have comments in code
page 949.  `src/ipc2019/WpdPack`, WinPcap's developer's pack, is part of the
repository: headers, binary libraries, and 28 example programs in C, which are
modelled as well.

## 1. The parts of the system

| Part | State it keeps | Operations |
|---|---|---|
| `Cipc2019Dlg`, the window (`ipc2019Dlg.cpp`) | `m_bSendReady`, the source and destination address (`m_ucSrcAddr`, `m_ucDstAddr` and their texts), `FilePath`, which controls are enabled, the chat list | choose an adapter, type an address, the address button (turns reading on and off), send a text, choose and send a file, `Receive` of a text |
| `CChatAppLayer` | `Head` (list of pieces), `totalLength`, `GetBuff` | `Send` (cuts a text), `Receive` (puts it together) |
| `FileTransLayer` | `mHeader` (the frame under construction), `WriteFile` (the file being received) | `FILE_SEND` (a thread per file sent), `Send`, `SetHeader`, `Receive` |
| `CEthernetLayer` | `m_sHeader` (the frame under construction, and both addresses) | the address setters, `Send`, `Receive` |
| `CNILayer` | `m_AdapterObject` (capture handle), `canRead`, `data` (the packet just read) | `SetAdapter`, `flip`, `Send`, `Receive`, the receive thread |
| `CLayerManager`, `CBaseLayer` | registered layers, a stack, the pointers between layers | `AddLayer`, `ConnectLayers`, `SetUpperUnderLayer` |
| `CFileLayer`, `Cipc2019App` | - | dead code; start-up |
| WinPcap's 28 example programs | per program: the devices, captures, filters, files, packets it holds; the threads of `UserBridge` | the calls of `main` on each way of its command line, the packet loops, two forwarding threads, Ctrl+C |
| WinPcap, packet.dll, MFC | captures, files, boxes | modelled as far as the code uses them |

**How they interact.**  Down the stack by plain calls: the window's thread calls
`CChatAppLayer::Send`, a worker thread per press of the send-file button runs
`FILE_SEND`; both call `CEthernetLayer::Send` and through it `CNILayer::Send`.
Up the stack by plain calls of a receive thread, which runs
`CNILayer::Receive`, `CEthernetLayer::Receive` and the `Receive` of the chat or
the file layer, and there waits in a message box until the user closes it.
There is no lock and no event in the program; three kinds of threads share
`m_sHeader`, `mHeader`, `data`, `canRead`, `m_AdapterObject` and the addresses.
No frame is acknowledged, numbered across files or texts, or sent again.
The example programs are programs of their own; what they share with the rest is
the way captures and adapters behave.

**What is hard here.**

- worker threads share one `mHeader`, and with the window's thread one
  `m_sHeader`, with nothing between filling it and sending it;
- `flip` toggles a flag that a receive thread tests only between reads that may
  last a second, so that an old and a new thread can be alive at once;
- the source address is handed to the Ethernet layer by one button and the
  adapter is changed by another control;
- a lost frame: chunks are placed by number but not counted, a lost
  `FILE_INFO` leaves no open file and a lost `FILE_LAST` leaves one; the chat
  list keeps the pieces of a text whose last frame was lost;
- 32-bit lengths, a sequence number that starts at -1, and lengths around
  multiples of the frame size;
- results that are not looked at: `CFile::Open`, `sscanf_s`, `pcap_open_live`,
  `PacketRequest`;
- copies longer than what they copy to: a packet into `data`, an `int` into a
  byte of an address;
- boxes that hold the receive thread;
- in the example programs a dozen ways out of each `main`, every one with a
  clean-up of its own; a file that grows while it is read; time stamps that
  nothing set; blocks of packets walked by rounded lengths; and `UserBridge`,
  two threads with a critical section, told to end by a signal handler that
  waits for them.

**What makes each part correct.**

- chat and file layer: what one user hands to the layer is what the other user
  gets, whole, once and in order (`Courier`); a lost frame does as little harm
  as the format allows; every send returns;
- Ethernet layer: a frame goes out with the bytes, type and addresses its
  caller meant, and a peer's layer is handed what the same layer sent to that
  peer and nothing else;
- network interface and window: what the window shows is what the layers do;
  packets are passed up once, in order, all of them; threads told to stop do;
- layer manager: the pointers are those the text describes;
- example programs: nothing is used before it is had or after it was given
  back, and nothing is kept; handlers make of the packets what they say they
  do; the bridge forwards what came in, and nothing else, once.

Every hazard is listed at its line in `PROJECT.json`, with the properties that
are about it.

## 2. The modules

| Module | Models | Used by |
|---|---|---|
| `Bytes` | `memcpy`, C strings, reading past a buffer, `CFile` writes | `FileTrans`, `ChatApp` |
| `Places` | sets of places in a sequence, and their order | `Ethernet`, `LayerStack`, `PacketExamples` |
| `Courier` | abstract specification: items posted, items delivered, in order | refinement target of `FileTrans`, `ChatApp`, `Ethernet` |
| `FileTrans` | `FileTransLayer` at both ends, the file buttons of the window | |
| `FileTransInv` | the inductive invariants: `OnTrack` with its premises `Favourable`, `UnderLoss` with `OneRun` | |
| `ChatApp` | `CChatAppLayer` at both ends | |
| `ChatAppInv` | the inductive invariants: `Sound`, whatever is lost, and `InTurn` | |
| `Ethernet` | `CEthernetLayer` of a sender, and that of the peers | |
| `Addresses` | `Stouc`: how an address is read from a text, with what `sscanf_s` stores | `Session` |
| `Session` | `Cipc2019Dlg` and `CNILayer`: adapters, addresses, reading on and off | |
| `LayerStack` | `CLayerManager`, `CBaseLayer` | |
| `Calls`, `Programs` | the calls of each example program's `main`, as data | `Mains` |
| `Mains` | a `main` that makes one call after the other, and gives up | the next three |
| `PcapExamples` | the 24 programs that work through wpcap: traffic, filters, capture files, handlers | `WinPcap` |
| `PacketExamples` | the three that work through packet.dll: list of adapters, blocks of packets | `WinPcap` |
| `UserBridge` | `UserBridge`: two threads, the critical section, Ctrl+C | `WinPcap` |
| `WinPcap` | any one of the 28 programs is run | |
| `MCFileTrans`, `MCChatApp`, `MCEthernet`, `MCSession`, `MCWinPcap` | values for TLC; the refinement mapping of `Ethernet` | |
| `BytesProofs`, `PlacesProofs`, `FileTransProofs`, `ChatAppProofs`, `EthernetProofs`, `SessionProofs`, `LayerStackProofs`, `WinPcapProofs` | proofs | |

`LayerStack` is run as it is: its constants are plain sets.

A definition named `...No...`, `...Once`, `...Short` and the like under a
comment that begins with "Slip:" is not the program: it is a plausible mistake
in the definition after it, and each property is known to fail when the slip
takes that definition's place (`mutants` in `PROJECT.json`).

### 2.1 FileTrans

`thread[t]` holds the locals of one run of `FILE_SEND`; its `pc` says which of
its calls comes next.

| Action | Code |
|---|---|
| `SelectFile`, `SendFileButton` | `OnBnClickedButtonSelFile`, `OnBnClickedButtonSendFile` (which starts a thread at every press) |
| `OpenSendFile`, `SendFileFails` | `FILE_SEND` up to `SetHeader(totallength, FILE_INFO, seq, name)`; `GetLength` throws when `Open` failed |
| `SendInfo` | `Send` of `FILE_INFO`: the header and the name with its NUL |
| `ReadChunk`, `SendChunk` | the loop over `read_file.Read`: `SetHeader(FILE_MORE)`, then `Send` and the countdown of `totallength` |
| `ReadEnd`, `SendLast` | `FILE_LAST` |
| `ReceiveInfo`, `ReceiveInfoFails` | `Receive` of `FILE_INFO`: `Open` creates the file, `SetLength` |
| `ReceiveMore`, `ReceiveMoreFails` | `Receive` of `FILE_MORE`: `Seek(seq * MAX_APP_DATA)`, `Write` |
| `SendFileRefused`, `ReceiveInfoRefused`, `ReceiveMoreRefused` | the system refuses to open, read, lengthen or write a file (`Refusals`): read-only, in use, gone, the disk full; the result of `Open` is not looked at, and what comes next throws |
| `ReceiveLast`, `Dismiss` | the other types: `Close` and the arrival box; the user closes it |

A byte is a tuple that says where it comes from, `<<"data", f, i>>` or
`<<"name", f, i>>`, so that a wrong, stale or missing byte is seen.  Names are
shorter than a frame, as file names on Windows are.  `SetHeader` is one step and
`Send` is one step: two runs may come between each other's `SetHeader` and
`Send`, not between the assignments of a single `SetHeader`.  The layers below
are a `wire`, a queue that may lose the frame types in `Unreliable`; `lost` and
`refused` are histories of what was lost and what the receiver was refused.

### 2.2 ChatApp

`sending` holds the locals of `CChatAppLayer::Send`; one action per frame it
makes.  `add` keeps the list sorted.  `ReceiveLast` fills `GetBuff`, finds the
lengths right and shows the box, in which the thread stays until `Dismiss`;
`ReceiveLastDropped` finds them wrong.  All pieces are copied into `GetBuff`
*before* the check, so that too many of them are written past its end (`heap`).
`lost` is a history of the type and the text of each frame lost.
The window sends one text at a time, since `Send` runs in its thread.

### 2.3 Ethernet

The one `m_sHeader` and its users: the window's thread (`UI`: chat frames and
the two address setters) and worker threads (file frames).  `Send` is
`memcpy` (one action per cell), the type, and the hand-over of whatever
`m_sHeader` holds by then.  An address, six bytes, is copied in one step.  A
peer captures each frame; `Receive` compares the destination and passes the
frame to the layer its type names.  `OtherTraffic` are frames of a third
computer, any addresses and any type.  `overlapped` is a history: the calls of
`Send` during which another thread was at work on `m_sHeader`.  `calls` and
`sent`, taken per thread, are what a `Courier` was given and delivered.

### 2.4 Addresses and Session

The window's handlers and the receive threads, with `canRead`,
`m_AdapterObject`, `data` and the addresses between them.  `TurnOn` stops after
`flip`; `SetAddresses` is the rest of the handler, since a receive thread may
run in between.  A receive thread tests `canRead` and the handle (`LoopTest`),
comes back from `pcap_next_ex` with a packet or after its second
(`ReadPacket`, `ReadTimeout`), copies the packet to `data` (`CopyPacket`) and
passes up what is in `data` (`PassUp`).

| Action | Code |
|---|---|
| `ChooseAdapter` | `OnCbnSelchangeComboAdapterList` and all of `SetAdapter`: `pcap_open_live`, which may fail, and the request for the address, which may fail too |
| `TypeDestination` | the destination field, while it is enabled |
| `TurnOn`, `SetAddresses`, `TurnOff` | `OnBnClickedButtonAddr` |
| `SendNowhere` | `CNILayer::Send` without a capture |
| `LoopTest` to `PassUp` | `ThreadFunction_RECEIVE`, `CNILayer::Receive` |
| `Arrive` | the network |

An adapter stands for its address.  A capture is never closed (`pcap_close` is
called nowhere but in the destructor), so `buffer` and `on` only grow.  A text
is the numbers `sscanf_s` finds in it; each is stored as an `int` of four bytes,
which clears the three bytes behind the one it is meant for, and those of the
last number lie behind `m_ucDstAddr` (line 404 of `ipc2019Dlg.cpp`): in padding
on x64, in `m_progressFile` on x86, so that the nine bytes `m_ucDstAddr` of the
model are six of the address and three of something else.  `data` is the packet
whose first 1500 bytes are in `CNILayer::data` and the one whose last 14 are in
`errbuf` behind it, where `memcpy` puts them and where a failing
`pcap_open_live` writes its words.

`rushed` is a history: the user turned reading on, or chose an adapter, while a
receive thread was alive.  Several properties hold for a user who has not been
in a hurry; the models of a hurried user are the same, only the promise is not.

### 2.5 LayerStack

`LinkLayer` reads the text token by token.  A text is well formed: names
outside parentheses come first, a parenthesis follows a name.

### 2.6 The programs that come with WinPcap

`Programs` has the `main` of each as a sequence of calls, one sequence for each
way of the command line.  A call (`Calls`) names the objects it works on, the
one it hands out or takes back, whether it may fail and what the program takes
back before it returns then, and whether the program may go down at it
(`Risky`): where it does what C does not define, a `%s` without an argument, an
address whose netmask is not looked at before it is read, a `sscanf_s` that is
not told how much room there is.  The loop over packets is one of the calls.
`Mains` makes them in turn: `Succeed`, `Fail`, `GoDown`, `Interrupt`; `held` is
what the program has.  What is not defined goes on or ends the program; nothing
else is said of it.  The programs of `Examples-remote` that have a sister in
`Examples-pcap` differ from it in what they close and in where packets come
from, and are listed under the sister's name with `_remote`.

`PcapExamples` adds what the calls do: packets `Arrive`, match the filter or
not, wait in the capture's buffer; a capture file `Grow`s while it is read, as
one that another program writes.  The handlers are `HandleSample` (`tcptop`:
the time since the last sample, a `u_int` that is divided by),
`HandleConsistent` (`smp_1`: is the time stamp before the last one), and those
that print or dump; `sendcap` fills a queue measured beforehand.  Each packet
and sample of these two has any of the time stamps (`Traffic`): the clock may
stand still and run backwards.  What nothing has set before the first packet
(`st_ts`) is any of them, too.

`PacketExamples` has the loop that takes the list of adapters apart character
by character, and `PrintPackets`, which walks through a block of packets from
header to header.  `TestPacketSend` has two ways, the adapter chosen or named by
`-i`; an option without a name leads the first way.

`UserBridge` has the two threads (`LoopTestKill`, `NextEx`, `Enter` and `Leave`
of the critical section, `SendOn`), the handler of Ctrl+C (`CtrlC`, `WaitAll`,
`WaitTimeout`), and the ways `main` ends before it sleeps.  There it takes back
one thing after the other (`undo`, `TakeBack`, in `UndoOrder`: the first thread,
the two adapters, the list of devices) while a thread that was started goes
on; freeing the list a second time may bring it down (`FreedAgain`).

## 3. The runs

All are listed in `PROJECT.json` with their properties.  None of them checks
deadlock: the histories are bounded, and when the user does nothing more the
program rests.

| Run | Question | Bounds |
|---|---|---|
| `file_reliable` | one file at a time, nothing lost, files longer than their names: is file transfer a courier of files? does all of `OnTrack` hold? | chunks of 3 bytes, files of 5 (a full and a partial chunk) and 6 bytes (two full ones), 3 sends of any of them, so that a file follows another one and itself; counters modulo 16, so that seq -1 wraps |
| `file_lossy` | any frame may be lost, any file operation refused, files may be empty or as short as their name: what can and cannot happen? | 2 sends of 3 files; a loss in the first and its effect on the second; refusals of each operation |
| `file_short_name` | (violated) does every file arrive under its name? | as `file_lossy`, nothing lost |
| `file_overlap` | (violated) the same for two sends at once | two threads |
| `chat_reliable` | is chat a courier of texts? | pieces of 2 bytes, lengths 1 to 6: no cut, NUL alone in the last frame, exact multiples, a middle frame; 3 texts |
| `chat_lossy` | any frame may be lost | lengths 1, 2, 4, 5, 3 texts: leftovers of one text meet two later ones |
| `chat_mixed` | (violated) are only whole texts shown? | as `chat_lossy` |
| `ether` | a chat send, a file send and the address button in any interleaving: is the layer a courier of each thread's frames, which go out whole unless the threads overlap, and does each reach the layer it is for? | two callers, frames of 1 and 2 cells, 2 sends, one frame of a third computer, which has the program's own type or another one and names the peer or does not, a peer and an address nobody has |
| `ether_peer` | (violated) is only what the peer sent passed up? | as `ether` |
| `session` | a user who does anything at any time; captures that fail to open, addresses that cannot be read: does the window show what the layers do, do threads told to stop do so, and does a user who is not in a hurry get every packet once, whole, in order, and through the right filter? | 2 adapters, 2 threads, 2 choices (`MaxChoices`), 2 packets, 1 once the user was in a hurry (`HastyPackets`), texts of six and of two numbers |
| `layer_link` | are layers linked as the text says? | 3 names, any of them registered, all texts of up to 9 tokens: three levels deep, as the program's own text is, and a second name at each level; a name may come twice |
| `winpcap` | any of the 28 programs, on every way of its command line and through every failure: see 2.6 and the properties below | 2 packets or records, of 2 sizes; seconds of 2 microseconds and a `u_int` modulo 16; lists of 0, 1, 2 and 3 adapters for 2 rows; blocks of up to 2 packets, padded or not; 2 packets for the bridge |

The bounds are small because the code treats all frames, texts and files
alike: what matters is the position of a length relative to the frame size
(all positions occur), what one transfer leaves behind for the next (two or
three transfers occur), and which two threads meet (two threads occur).  In the
session two adapters and two choices are a first capture and its replacement,
or a failure in either place; a third thread needs a third press and meets the
others as the second does.  A sample, a time stamp and a record have something
before them with two packets.  What section 4 lists is proved without the
bounds.

The properties of `winpcap` have several named parts each:

- `NothingStale`: every call, and every step of a clean-up, works on objects
  the program has; `StaleIn` names the calls of `UserBridge` where it does not.
- `GivesBack`: what is still held at the end is what the tables `LeftWhenDone`
  (by program and object) and `LeftWhenFailed` (by program, call that failed and
  object) name, or the compiled filter, which no program frees; and the list of
  devices goes back before packets are captured.
- `HandlersRight`: `UDPdumpFilters`, `ComplainsRightly`, `SamplesOverTheirTime`,
  `SendsWhatWasMeasured`.
- `CrashOnlyWhere`: the calls of `GoesDownAt`, a division by zero, a queue of
  negative size, more adapters than rows.
- `TakesApart`: `ListHasTheNames`, `PrintsTheBlock`.
- `BridgesSafely`: `ForwardsWhatCame` (what one thread sends the other does not
  take for a packet), `ReportsItsCount`, `PrintsAlone`, `HandlesOutliveThreads`.
- `NeverStuck`: `CtrlCEnds`, `Forwarded`.

**Fairness.**  Only what the system's scheduler and the code give: a thread that can
take its next step takes it at last (`WF` of each thread's steps; no thread waits for
another one); `pcap_next_ex` returns after a second; a handler that was begun
goes on.  One assumption is about the user: boxes that come up are closed, and with
that what a receive thread passes up comes back to it.
The user need not press, type or choose anything.  In `winpcap` only the two
threads of `UserBridge` and the wait for them are fair: nothing is promised of
a `main` that may wait for a packet or a key.

**Disagreements the runs show** (`findings` in `PROJECT.json`).

- `file_short_name`: `SetHeader` copies no more of the file name than the file
  is long; a file shorter than its name arrives under a name that ends in what
  an earlier frame left in `mHeader`.
- `file_overlap`: two presses of the send-file button; what is stored is
  neither file.
- `chat_mixed`: the check that all frames came in compares lengths only; pieces
  left over from one text complete another one.
- `ether_peer`: the README of the repository says that a packet is checked to
  come from the other PC and discarded if not; the code compares the destination
  alone, and the frame of anybody who runs the same program, or sends its types,
  is passed up.  `FileTrans` and `ChatApp` leave such frames out: they speak of
  two programs that nobody else sends to.

Further facts about the code that the models show, stated in the passing runs
as the condition under which no harm is done:

- `SendsWhole` and `LayersGetTheirs` except the calls in `overlapped`: frames
  *are* damaged when a chat send and a file send overlap.
- `PassedInOrder`, `PassedWhole`, `PacketsHeard` and `FilterIsAdapter` except a
  user in a hurry: off and on again within a second leaves two receive threads
  that share `data`, so that a packet can be passed up twice and another one
  never; and after another adapter is chosen with reading on, the Ethernet
  layer goes on comparing the address of the former one.
- `FilterIsAdapter` except `misread`: an address that could not be read is that
  of the adapter before.
- `ReaderDownNeedsFailedOpen`: the null handle is used after a failed
  `pcap_open_live`.
- `DeathNeedsLostFrame`, `LeakNeedsLostLast`, `OverrunNeedsLoss`: what it takes
  to end the receiving program, leave a file open, or write past `GetBuff`.
- A file of 4 GiB or more loses bytes, since `totallength` has 32 bits: it is
  outside the premises of the proofs (`FileLen[f] < LongMod`).
- In `NothingStale`: `UserBridge` frees the list of devices before it starts its
  threads ("At this point, we don't need the device list any more", line 289), frees
  it again where one of them cannot be started (lines 323 and 346), and reads a
  device of it for its last message (line 359).
- In `GivesBack`: most programs leave something to Windows somewhere.
  `UDPdump` and the remote variants do not close their capture at all;
  `tcptop` leaves it where its filter cannot be compiled, `TestPacketCapture` and
  `TestPacketSend` their adapter where memory or the driver fails, `savedump`
  the list and the capture where the dump file cannot be opened, `UserBridge`
  the first adapter where the second cannot be opened; `pktdump_ex` and `smp_1`
  never free the list.  The two tables are complete.
- In `CrashOnlyWhere`: `tcptop` divides by zero at a sample with the time of the
  one before, which for the first is the time its uninitialised `st_ts` has;
  `sendcap` allocates a queue of negative size for a file without a whole
  header; `UDPdump` prints a name it does not pass where opening fails, and reads
  a netmask that may be missing, as `UserBridge` does; `TestPacketSend` reads the
  name of an adapter without regard to its length.
- `Push` lets one more layer through than the stack has room for; the text of
  the program nests three deep and the stack has 255 places.

## 4. The proofs

| Theorem | Says | Premises |
|---|---|---|
| `Typing` (`FileTransProofs`) | `Spec => []TypeOK` | |
| `Placed` | `Spec => []BytesInPlace` | `OneRun(t)` |
| `Leaks`, `Deaths` | `Spec => []LeakNeedsLostLast`, `Spec => []DeathNeedsLostFrame` | `OneRun(t)` |
| `LostChunks` | `Spec => []LostChunksLeaveHoles` | `OneRun(t)` |
| `Survives` | `Spec => []UnderLoss`, which the last three follow from | `OneRun(t)` |
| `InStep` | `Spec => []OnTrack` | `Favourable(t)` |
| `Delivery` | `Spec => []ArrivedIntact` | `Favourable(t)` |
| `Implements` | initial states and steps of `FileTrans` are those of `Courier` | `Favourable(t)` |
| `Typing` (`ChatAppProofs`) | `Spec => []TypeOK` | |
| `OnlyWhatWasTyped` | `Spec => []NoForeignBytes` | |
| `CopiesInside` | `Spec => []OverrunNeedsLoss` | |
| `ListDrained` | `Spec => []NoLeftOvers` | |
| `OtherTextsArrive` | `Spec => []LostWholeCostsOneText`: every text of which no frame was lost is shown or under way | |
| `Implements` | initial states and steps of `ChatApp` are those of `Courier` | `Unreliable = {}` |
| `Typing` (`EthernetProofs`) | `Spec => []TypeOK` | |
| `LayersAlwaysGetTheirs` | `Spec => []LayersGetTheirs`, whatever other computers send | |
| `PassedUpInOrder` | `Spec => []HandedInOrder` | |
| `Implements` | for each thread `c`, initial states and steps of `Ethernet` are those of the `Courier` `Thread(c)` | |
| `Typing` (`SessionProofs`) | `Spec => []TypeOK` | |
| `FramesFollowField` | `Spec => []FramesGoWhereShown` | |
| `AddressFollowsText` | `Spec => AddressAsTyped`, an action property | |
| `WindowAlwaysAgrees` | `Spec => []WindowAgrees` | |
| `DownOnlyAfterFailedOpen` | `Spec => []ReaderDownNeedsFailedOpen` | |
| `FilterFollowsAdapter` | `Spec => []FilterIsAdapter` | |
| `PacketsStayWhole`, `PacketsStayInOrder` | `Spec => []PassedWhole`, `Spec => []PassedInOrder` | |
| `LinksWhatIsWritten` (`LayerStackProofs`) | `Spec => [](Shallow => NeverDown /\ LinkedAsWritten)` | |
| `LinksTexts`, `NeverCallsNull` | `Spec => []LinkedAsWritten`, `Spec => []NeverDown` | `MaxTokens <= 2 * StackSize + 2` |
| `BridgedSafely` (`WinPcapProofs`) | `Spec => []BridgesSafely` | |
| `HandledRightly` | `Spec => []HandlersRight` | |
| `GoesDownOnlyThere` | `Spec => []CrashOnlyWhere` | |
| `WinPcapTyping` | `Spec => []TypeOK` | |
| `TakenApartRight` | `Spec => []TakesApart` | |
| `NothingStaleUsed` | `Spec => []NothingStale` | |
| `EverythingGivenBack` | `Spec => []GivesBack` | |

Each rests on the named assumptions on the constants in the module it is about;
a premise beyond them is listed.

**File transfer, nothing lost.**  The theorems hold for all files, names, sizes,
chunk sizes and counter widths.
`Favourable(t)` says: `t` is the one worker thread, the wire loses nothing, the
system refuses no operation on a file, and
every file is longer than its name and shorter than `LongMod`.  Each part of it
is needed: `file_overlap`, `file_lossy` and `file_short_name` show what happens
without it.  The constants' assumptions are in `FileTrans`: a name fits into a
frame, and a frame's length into the counter.

`ArrivedIntact` is not inductive: it says nothing of what is on the wire, in
`mHeader` or in `WriteFile`.  `OnTrack` does.  All frames a sender ever sends
form one *stream*: for each job `FILE_INFO`, its chunks by number,
`FILE_LAST`, and then the next job (`Follows`).  `OnTrack` says that the wire
holds a stretch of the stream (`Chain`) that starts at the frame the receiver
waits for (`Awaits`, which also says which bytes of the file were written) and
ends just before the one the sender sends next (`NextOut`, `Sends`, which also
say what `mHeader` holds).  A step of the sender appends the frame at its own
place (`ChainAppend`), a step of the receiver removes the frame at its place
(`ChainTail`), and a new job leaves the places of older frames alone
(`ChainJobs`).  There is one lemma per action.  `Implements` follows: opening a
file posts it, and the arrival box delivers the next one, since what it
announces is intact.  `file_reliable` checks `OnTrack` on an instance.

`BytesProofs` has the lemmas about the byte operations.

**File transfer under loss.**  `OneRun(t)` says that `t` is the one worker
thread and that the counters can count every file; the wire may lose frames of
any type, and names may be longer than files.  Without one run at a time none
of the theorems holds: `file_overlap` shows chunks of one file under the numbers
of another.  What the sender makes is still the stream, and each frame is right
by itself (`FramesRight`), whatever becomes of the frames before it; with it
a chunk can only be stored at its place (`Placed`).  `LossLine` says what the
frames left on the wire are to the receiver while no `FILE_LAST` is lost: a
`FILE_INFO` comes after nothing but a `FILE_LAST` (`After`), so that none ever
meets an open file, and while no `FILE_INFO` is lost either each chunk comes
after the `FILE_INFO` of its own file.
`OnlyChunksLost` is about the contents while only chunks are lost: each byte of
a file in the receiver's hands is there, or its chunk was lost, or it is still
to come (`StillToCome`), on the wire or from the sender; and each byte of a file
behind it was lost or is still to come.  When a `FILE_LAST` is taken nothing of
its file is, since on the wire and at the sender no frame of a job follows its
`FILE_LAST` (`Closing`): so a hole in a file that arrived is at a byte whose own
chunk was lost, and everything else is there (`LostChunks`).
`UnderLoss` is the conjunction; it was checked with TLC on the constants of
`file_lossy` before it was proved.

**Chat.**  All texts and all sizes of a piece.  `Sound` holds whatever is lost:
each frame is as `make_frame` built it (`FrameSound`), and each byte in the list
of pieces stands at an offset it has in some text.  It is the invariant for the
types and for `NoForeignBytes`; it does not say which texts are shown, since a
lost frame lets pieces of two texts meet.  `InTurn` holds while no more than
frames of uncut texts are lost: for some text `g` the list holds the first
pieces of `g`, and what the list ends with, the frames on the wire and what
`Send` makes next form a chain (`Follows`), in which only texts that lost a
frame may be missing; the same is true of the texts shown (`Behind`).  `add`
then always appends (its cases for a piece that comes before another one are
not met), a last frame finds the lengths right (`ReceiveLastDropped` is not
enabled), and `GetBuff` is not overrun.  With
nothing lost the texts shown are all those before `g` (`All`), which makes every
step one of `Courier`.  A text above `g` that is not lost is found on the chain
by its first place that reaches it (`ChainCovers`).

**Ethernet.**  Any number of threads, peers and addresses.  `LayersGetTheirs`
speaks of what was handed up; the invariant `Inv` follows a frame to there.
`Working`: a thread in `Send` works on its call and within its length.  `Alone`:
unless its call is overlapped it is the one thread at work, and the header holds
what `Send` has put into it so far.  `FramesSound`: a frame on its way is
another computer's, or damaged by an overlap, or `Wanted`.  A call that begins
while another thread is at work overlaps with it (`CallKept`), so that the step
of another thread disturbs no call outside `overlapped` (`OneSends`).
`HandedInOrder` is inductive by itself: it says that a peer has looked at all
frames but those it still has before it, and that the frame it was handed
`n`-th is the one of rank `n` among those for it (`Theirs`).
`Implements` is the safety half of `SendsWhole` for any number of threads: what
thread `c` asks for goes out once, in order, and whole unless its call is
overlapped.  `InTurn` says that the `j`-th frame of a thread in `sent` is that of
its `j`-th call, and that a thread in `Send` has one call more than frames, the
last one; with `Sound` for all that went out, what `SentBy` lists are the first
calls of `PostedBy`.  `PlacesProofs` has the lemmas about the order of such sets
of places, for sets of any size.

**Session.**  Any number of adapters, choices, threads and packets.  `Inv` has
five parts.  `TypeInv` and `BoundsInv` are the types.  `WindowInv` relates the
window, the adapter and the address: reading needs an address, an address needs a choice,
a choice leaves a capture or a failure behind; and while the window is ready a
thread is alive, so that choosing another adapter then *is* being in a hurry,
which is why `FilterIsAdapter` may except it.  `ReaderInv` says that without
hurry there is one live receive thread at most (`OneReader`), and that what was
passed up, what is in that thread's hands and what waits in its capture follow
each other (`InTurn`).  That nothing else writes to `data` between the copy and
the passing up is `InHand`.  `AddressInv` says that an enabled window has sent
the destination field's text through `Stouc` into `m_ucDstAddr` and from there
to the Ethernet layer.  `Stouc` writes number after number, each with the three
bytes behind it; what that leaves is `Typed`, of the proofs alone.  They unroll
it, since a text has at most as many numbers as an address has bytes (`Stouc`
reads six).

**LayerStack.**  Texts of any length over any names, of which any are
registered.  `Shallow` says that no more parentheses have been open at once than
`Push` lets layers through; `LinksTexts` and `NeverCallsNull` have it from the
length of the text, since each level takes a name and a parenthesis
(`LengthInv`).  The program's text nests three deep, its stack has 255 places.
`LinkedAsWritten` reads the text backwards: a name belongs to the last name
before it that is one level further out.  `LinkLayer` reads it forwards and asks
its stack.  `Inv` ties the two: for each level that is open, the stack holds the
last name of that level (`StackInv`), and there is one (`TextInv`); `pLayer` is
the last name read until an unknown one has been, then nothing, for good
(`LayerInv`).  A token at the end changes no depth before it (`DepthsStay`) and
so no pointer but those of the name it brings (`NameLinked`).  The upper layers
come in the text's order (`Nth`); that each rank is taken by one place
(`EveryRank`) and that a place behind all others takes the next one (`NthAdded`)
is proved in `PlacesProofs`, without induction, from the least bound for which
it would fail.

**UserBridge.**  Any number of packets.  `BridgeInv` ties three things to the
place `main` is at: which threads run, what `main` holds, and who may print.
The two adapters are held from the call that opens them (`MainFacts`), threads
start after that, and where `main` gives up the first thread, the only one there
may be then, is the first thing it takes back (`UndoFacts`): so the adapters
outlive the threads at every step of the clean-up (`MainInv`).  The
critical section belongs to the thread whose `pc` is between `Enter` and
`Leave` (`PrintInv`); what each thread took, tried to send and still has before
it is what came in on its side, as long as `main` has not terminated it
(`Kept`, `ThreadInv`), and its count is what went out when it was printed
(`ConsoleInv`).  No other program changes any of it.
Its types need `Bounded` as well: a history is no longer than the one it
follows, so that a number in it is one of `1..MaxCaptured`.

**The programs that capture and read files.**  Any number of packets and
records, records of any size from `Sizes`, any number `USec` of microseconds a
second and any width of `u_int` that holds two seconds; time stamps are of two
seconds (`Times`).  `ExamplesInv` says where `main` is (`MainIsSomewhere`) and
of what type everything is (`ExamplesTyped`), and then, by the place `main` is
at, what holds of the programs that `HandlersRight` is about.  It says more than
the properties do, since a step does not keep them by themselves:

- `UdpInv`: `UDPdumpFilters` speaks of the loop only.  A packet that arrived
  behind the filter matches it already in `buffer`, and the loop is behind the
  call that sets the filter.
- `SmpInv`, `TopInv`: a handler compares with `old`, the properties with the
  packet handled before.  `OldIsLast` says that the two are the same; for `smp_1`
  also that `old` is cleared when its loop begins.  For `tcptop` the packets in
  `buffer` are behind those handled, in the order they arrived in, whatever
  their times are: so the sample it divides by zero for is one not handled yet,
  with the time of the last one handled (`StandsStill`), or of `st_ts` if there
  is none.
- `CrashFacts`: a program is brought down by a `Risky` call or by one of the two
  above.
- `CapInv`: while `sendcap` fills its queue the records handled end within
  `measured`; when it transmits, they are all that do.  For this `EndOf`, which
  sums the sizes of the records, must grow with each record and stay as it is
  while the file grows.  `EndOf` is a recursive function; that it is defined at every
  record is proved by taking the least one where it would not be (`EndsExist`).

That each program's calls are what the cases above take them for is read off
the lists in `PcapExamples` (`UdpCalls`, `SmpCalls`, `TopCalls`, `CapCalls`);
every way of every program is a list (`ProgramsAreLists`), and what a step does
to this state goes by the name of the call `main` is at (`EveryStepHappens`).

**The programs for packet.dll.**  Any names of any characters but NUL, any
number of adapters, packets of any length, headers and words of any size.
`PacketInv` says that the packets printed are the first of the block and that
`PrintPackets` is at the next one's header (`PrintsInOrder`), which the last
part of `PrintsTheBlock` needs: no step but one at a header goes on.  Headers
ascend (`HeadersAscend`) because `WordAlign` is the number and what it takes to
the next word (`RoundedUp`), which is how `HeaderAt` says what the driver does;
so one place is that of one header only.  A text is followed name by name
(`OnePut`): one more name behind a text is one more piece of it (`NameAdded`),
and two NUL in a row do not come before its end (`WellPut`), where the loop
stops.  The three programs go down only for too many names or at a `Risky` call.
That recursive functions like `HeaderAt` and `TextOf` have a value at
every number is proved in `PlacesProofs` (`RecursiveExists`).

**What the programs hold.**  `NothingStale` and `GivesBack` are about all
programs, every way of their command lines and every call that may fail; the
proof is in two parts.  One is about the lists of calls only: each passes
(`Passes`) from nothing held to something that may be held at the end
(`EndsTidy`), where every call on the way finds what it works on and what its
clean-up takes back, and a failure there leaves only what it may (`Step`,
`LeavesTidy`).  Lists that are joined pass when their parts do (`JoinedPasses`),
so what the programs share, such as `Pick` and `PickAndOpen`, is passed once for
all; `EveryProgramRuns` is about every way of every program.  In it the tables
`StaleIn`, `LeftWhenFailed`, `LeftWhenDone` and `GoesDownAt` are compared with
the lists, entry by entry.  The other part is
`HeldInv`: `held` is what that course has at `pc` (`Had`) less what a clean-up
has taken back so far (`TakenBack`), whatever packets, records, keys and threads
do meanwhile, as no step but a call's success or failure or one of the clean-up
changes it (`GoesOn`, `UndoKeeps`).  It says, too, that `UserBridge`'s handler is
there only behind `signal`: the handler ends the program from there, with
the list of devices long freed; and that what it goes down at by freeing that
list again is a `CreateThread` (`FreedAgainThere`).  `GoesDownOnlyThere` puts
`HeldInv`, `CrashFacts` and `PacketInv` together.

Before it was proved, each inductive invariant was checked with TLC on the
instances of the runs of its module.

## 5. What is only model-checked

- Everything about liveness: the fair half of `DeliversFiles`, `DeliversTexts`,
  `SendsWhole`, and `EveryRunEnds`, `EverySendReturns`, `ReadersStop`,
  `PacketsHeard`, `NeverStuck`; the provers do not handle fairness.
- The properties that do not hold (section 3): TLC's counterexamples show it.

## 6. What is not modelled

- `CFileLayer`: no object of it is made.  `Cipc2019App`: start-up.
- Painting, the system menu, the progress bar, the wording of boxes.
- The left-overs of an exercise on interprocess communication in the window
  (`OnRegSendMsg`, `OnRegAckMsg`, `OnTimer`), and the check box handler whose
  control the dialog does not have.
- The list of adapters, which is read once, before the window is shown.
- What a `Write` that fails has written of its chunk before it throws; a
  `Close` that fails.
- A failing `pcap_sendpacket` shows a box in the sending thread and its result
  is dropped: for the layers above it is a lost frame.  An error of
  `pcap_next_ex` (-1) is treated by the code as a time-out.
- What packet.dll does with the NULL that `PacketOpenAdapter` may return.
- Of the layer manager the modes `+` and `-`, `GetUpperLayer` and
  `DeAllocLayer`, which nothing uses, and blanks in the text.
- WinPcap's own buffer, which `pcap_next_ex` hands out and reuses.
- WinPcap's libraries, which are binary, and its headers, which declare them;
  what the code sees of them is in the modules of their users, marked external.
- What the example programs print, the options of their command lines beyond
  the way they lead, remote captures' authentication; memory that runs short,
  except where a program looks for it.  What a program prints or computes from
  memory that was freed, or that nothing set, beyond going on or going down.

## 7. The plan

Done: all parts of the program and the example programs are modelled and
checked, but for what section 6 lists; every invariant that holds in a run, the
action property of the session and the safety half of the three refinements
are proved, on the premises of section 4.

1. `System`: two programs, each with chat and file layers over one Ethernet
   layer and one receive thread, composed from the modules above, with a box of one
   layer holding up the frames of the other; that the wires of `FileTrans` and
   `ChatApp` are implemented by it when sends do not overlap.
2. A failing `pcap_sendpacket` with its box in the sending thread.
