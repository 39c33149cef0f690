--------------------------- MODULE PacketExamples ---------------------------
(***************************************************************************)
(* The example programs for packet.dll, the library below wpcap.  They     *)
(* take the list of adapters apart themselves, and so do they with the     *)
(* blocks of packets the driver hands over.                                *)
(***************************************************************************)
EXTENDS Mains, FiniteSets, SequencesExt, Places

CONSTANTS
    Chars,            \* the characters of a name
    Nul,              \* the character '\0'
    AdapterNames,     \* lists of adapter names
    Max_Num_Adapter,  \* rows of AdapterList
    HdrLen,           \* bh_hdrlen
    CapLens,          \* lengths of captured packets
    Alignment,        \* Packet_ALIGNMENT
    MaxRecords        \* bound: packets in a block, blocks

(* No adapter has an empty name: it would end the list for every reader.   *)
ASSUME PacketExamplesAssumption ==
    /\ Nul \notin Chars /\ AdapterNames \subseteq Seq(Seq(Chars) \ {<<>>})
    /\ CapLens \subseteq Nat /\ {HdrLen, Alignment, Max_Num_Adapter} \subseteq Nat \ {0}
    /\ MaxRecords \in Nat

VARIABLES
    AdapterName,  \* the text with the names, each ended by Nul, and one Nul more
    before,       \* the character in front of AdapterName
    AdapterList,  \* the names
    choice,       \* Open, the adapter's number in the list
    key,          \* a key was pressed
    block,        \* lengths of the packets the driver handed over last
    received,     \* ulBytesReceived
    off,          \* PrintPackets' place in the block, or NotPrinting
    printed,      \* history: numbers of the packets of the block that were printed
    blocks        \* history: blocks received

packetVars == <<AdapterName, before, AdapterList, choice, key, block, received, off,
                printed, blocks>>
textVars   == <<AdapterName, before, AdapterList>>

NotPrinting == -1

-----------------------------------------------------------------------------
(* The list of adapters. *)

(* The text for a list of names; descriptions follow the second Nul.        *)
TextOf(names) ==
    LET text[n \in 0..Len(names)] ==
            IF n = 0 THEN <<>> ELSE text[n - 1] \o Append(names[n], Nul)
    IN  text[Len(names)] \o (IF names = <<>> THEN <<Nul, Nul>> ELSE <<Nul, "d", Nul, Nul>>)

(* The loop that takes the text apart: up to two Nul in a row, a name ends  *)
(* at each Nul.  It looks at the character in front of the text, too.       *)
SplitNames(text, first) ==
    LET Back(temp) == IF temp = 1 THEN first ELSE text[temp - 1]
        stop == Min({temp \in DOMAIN text : text[temp] = Nul /\ Back(temp) = Nul})
        ends == InOrderOf({temp \in 1..stop - 1 : text[temp] = Nul})
    IN  [i \in DOMAIN ends |->
            SubSeq(text, IF i = 1 THEN 1 ELSE ends[i - 1] + 1, ends[i] - 1)]

(* Names beyond the last row of AdapterList are written behind it. *)
SplitList ==
    LET names == SplitNames(AdapterName, before)
    IN  /\ IF Len(names) > Max_Num_Adapter
           THEN End("crashed") /\ UNCHANGED AdapterList
           ELSE Succeed /\ AdapterList' = names
        /\ UNCHANGED <<AdapterName, before, choice, key, block, received, off, printed, blocks>>

(* A number that is too large is asked for again; one that is too small is not. *)
SelectAdapter ==
    /\ choice' \in -1..Len(AdapterList)
    /\ Succeed
    /\ UNCHANGED <<textVars, key, block, received, off, printed, blocks>>

-----------------------------------------------------------------------------
(* The blocks of packets. *)
WordAlignDown(x) == (x \div Alignment) * Alignment
WordAlign(x) == ((x + Alignment - 1) \div Alignment) * Alignment

(* Where the driver puts the header of packet n of a block. *)
HeaderAt(lens, n) ==
    LET next(end) == end + ((0 - end) % Alignment)
        at[i \in 0..Len(lens)] == IF i = 0 THEN 0 ELSE next(at[i - 1] + HdrLen + lens[i])
    IN  at[n - 1]

(* The last packet of a block is padded, or not. *)
LengthsOf(lens) ==
    IF lens = <<>> THEN {0}
    ELSE {HeaderAt(lens, Len(lens)) + HdrLen + Last(lens), HeaderAt(lens, Len(lens) + 1)}

Receive ==
    /\ Looping /\ Call.from = "driver" /\ ~key /\ off = NotPrinting /\ blocks < MaxRecords
    /\ \E n \in 0..MaxRecords : block' \in [1..n -> CapLens]
    /\ received' \in LengthsOf(block')
    /\ off' = 0 /\ printed' = <<>> /\ blocks' = blocks + 1
    /\ UNCHANGED <<callVars, textVars, choice, key>>

ReceiveFails ==
    /\ Looping /\ Call.from = "driver" /\ ~key /\ off = NotPrinting
    /\ Fail /\ UNCHANGED packetVars

(* PrintPackets takes a header to be at its place; what is there otherwise  *)
(* may be anything.                                                         *)
PrintPacket ==
    /\ Looping /\ Call.from = "driver" /\ off \in 0..received - 1 /\ ~key
    /\ LET here == {n \in DOMAIN block : HeaderAt(block, n) = off}
       IN  IF here = {} THEN End("crashed") /\ UNCHANGED <<off, printed>>
           ELSE LET n == CHOOSE k \in here : TRUE
                IN  /\ printed' = Append(printed, n)
                    /\ off' = WordAlign(off + HdrLen + block[n])
                    /\ UNCHANGED callVars
    /\ UNCHANGED <<textVars, choice, key, block, received, blocks>>

PrintEnd ==
    /\ Looping /\ Call.from = "driver" /\ off # NotPrinting /\ (off >= received \/ key)
    /\ off' = NotPrinting
    /\ UNCHANGED <<callVars, textVars, choice, key, block, received, printed, blocks>>

LoopEnd ==
    /\ Looping /\ Call.from = "driver" /\ key /\ off = NotPrinting
    /\ Succeed /\ UNCHANGED packetVars

PressKey ==
    /\ Looping /\ Call.from = "driver" /\ ~key /\ key' = TRUE
    /\ UNCHANGED <<callVars, textVars, choice, block, received, off, printed, blocks>>

-----------------------------------------------------------------------------
Listed == choice \in DOMAIN AdapterList

Chooses == \E call \in Range(calls) : call.name = "select"

(* A row of AdapterList that holds no name is not opened. *)
Plain ==
    /\ Running /\ ~Looping /\ Call.name \notin {"split", "select"}
    /\ \/ (Call.name = "PacketOpenAdapter" /\ Chooses => Listed) /\ Succeed
       \/ Fail
    /\ UNCHANGED packetVars

PacketMain ==
    \/ Plain \/ (GoDown /\ UNCHANGED packetVars)
    \/ Running /\ ~Looping /\ Call.name = "split" /\ SplitList
    \/ Running /\ ~Looping /\ Call.name = "select" /\ SelectAdapter
    \/ Receive \/ ReceiveFails \/ PrintPacket \/ PrintEnd \/ LoopEnd

PacketIdle ==
    /\ AdapterList = <<>> /\ choice = 0 /\ key = FALSE
    /\ block = <<>> /\ received = 0 /\ off = NotPrinting /\ printed = <<>> /\ blocks = 0

PacketInit ==
    /\ Start(PacketCalls)
    /\ AdapterName \in {TextOf(names) : names \in AdapterNames}
    /\ before \in {Nul, "x"}
    /\ PacketIdle

PacketNext == PacketMain \/ PressKey \/ (Interrupt /\ UNCHANGED packetVars)

-----------------------------------------------------------------------------
(* Properties. *)

(* The list has the names of the text, up to as many as it has rows; only   *)
(* if there are none may a name be made up from what is in front of it.     *)
ListHasTheNames ==
    \A names \in AdapterNames :
        AdapterName = TextOf(names) /\ AdapterList # <<>> =>
            \/ AdapterList = names
            \/ names = <<>> /\ before # Nul /\ AdapterList = <<(<<>>)>>

(* PrintPackets finds every packet of a block, in order: it never takes     *)
(* anything else for a header, and stops early only for a key.  Only more   *)
(* adapters than the list has rows, or one that is named on the command     *)
(* line, bring a program down.                                              *)
PrintsTheBlock ==
    /\ printed = [n \in 1..Len(printed) |-> n]
    /\ off >= received /\ off # NotPrinting => Len(printed) = Len(block)
    /\ prog \in DOMAIN PacketCalls /\ status = "crashed" =>
         Len(SplitNames(AdapterName, before)) > Max_Num_Adapter \/ Call.name = "sscanf_s"

(* The programs take the names and the blocks apart as they were put together. *)
TakesApart == ListHasTheNames /\ PrintsTheBlock
=============================================================================
