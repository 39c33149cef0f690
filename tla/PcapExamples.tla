---------------------------- MODULE PcapExamples ----------------------------
(***************************************************************************)
(* The example programs at work: the packets of a capture reach the        *)
(* handler of the program that runs, or the records of a capture file that *)
(* another program may still be writing.  A packet or record stands for    *)
(* its number.                                                             *)
(***************************************************************************)
EXTENDS Mains, FiniteSets, SequencesExt

CONSTANTS
    Sizes,         \* sizes of a record in a file, in units
    FileHeader,    \* size of the header of a file, in units
    USec,          \* microseconds of a second
    Wrap,          \* one more than the greatest u_int
    MaxPackets     \* bound: packets that arrive, records of the file

ASSUME PcapExamplesAssumption ==
    /\ Sizes \subseteq Nat \ {0} /\ FileHeader \in Nat \ {0} /\ USec \in Nat \ {0}
    /\ Wrap \in Nat /\ Wrap > 2 * USec /\ MaxPackets \in Nat

VARIABLES
    arrived,   \* history: the packets on the adapter since it was opened
    buffer,    \* packets captured and not read yet
    filter,    \* packets that had arrived when the filter was set, or NoFilter
    handled,   \* history: the packets handled, with what the handler made of them
    old,       \* time stamp of the last packet, in smp_1 and tcptop
    records,   \* sizes of the records of the file, those yet to be written included
    length,    \* length of the file
    measured,  \* sendcap's caplen
    sent       \* history: the records the adapter took from the send queue

netVars  == <<arrived, buffer, filter>>
fileVars == <<records, length>>
pcapVars == <<netVars, handled, old, fileVars, measured, sent>>

NoFilter  == -1
Unmeasured == 0 - FileHeader - 1
Times     == (0..1) \X (0..USec - 1)
Time(ts)  == ts[1] * USec + ts[2]

ReadsFile == \E call \in Range(calls) : call.from = "file"
Filters   == \E call \in Range(calls) : call.name = "pcap_setfilter"

(* Where record n of the file ends. *)
EndOf(n) == LET end[i \in 0..n] == IF i = 0 THEN FileHeader ELSE end[i - 1] + records[i]
            IN  end[n]

(* st_ts and old are not initialised; they matter to two programs only.     *)
PcapIdle ==
    /\ arrived = <<>> /\ buffer = <<>> /\ filter = NoFilter
    /\ handled = <<>> /\ measured = Unmeasured /\ sent = <<>>
    /\ old \in IF prog \in {"smp_1", "tcptop"} THEN Times ELSE {<<0, 0>>}
    /\ IF ReadsFile
       THEN /\ records \in UNION {[1..n -> Sizes] : n \in 0..MaxPackets}
            /\ length \in 0..EndOf(Len(records))
       ELSE records = <<>> /\ length = 0

PcapInit ==
    /\ Start(PcapCalls)
    /\ PcapIdle

-----------------------------------------------------------------------------
(* The network and the other program that writes the file.                  *)

(* Packets that make a difference to the program: they match its filter or  *)
(* not, and the clock that stamps them may stand still or run backwards.    *)
Traffic ==
    [match : IF Filters THEN BOOLEAN ELSE {TRUE},
     ts : IF prog \in {"smp_1", "tcptop"} THEN Times ELSE {<<0, 0>>}]

Capturing ==
    \E call \in Range(SubSeq(calls, pc, Len(calls))) : call.from = "net" /\ call.uses \subseteq held

Arrive ==
    /\ Running /\ Capturing /\ Len(arrived) < MaxPackets
    /\ \E packet \in Traffic :
         /\ arrived' = Append(arrived, packet)
         /\ buffer' = IF filter = NoFilter \/ packet.match
                      THEN Append(buffer, Len(arrived')) ELSE buffer
    /\ UNCHANGED <<callVars, filter, handled, old, fileVars, measured, sent>>

Grow ==
    /\ Running /\ length < EndOf(Len(records))
    /\ length' \in length + 1..EndOf(Len(records))
    /\ UNCHANGED <<callVars, netVars, handled, old, records, measured, sent>>

-----------------------------------------------------------------------------
(* The calls that do more than hand out and take back objects.              *)

(* Setting a filter may empty the capture's buffer. *)
SetsFilter ==
    /\ filter' = Len(arrived) /\ buffer' \in {buffer, <<>>}
    /\ UNCHANGED <<arrived, handled, old, fileVars, measured, sent>>

Measures ==
    /\ measured' = length - FileHeader
    /\ UNCHANGED <<netVars, handled, old, fileVars, sent>>

Transmits ==
    /\ sent' \in {SubSeq(handled, 1, n) : n \in 0..Len(handled)}
    /\ UNCHANGED <<netVars, handled, old, fileVars, measured>>

ClearsOld == old' = <<0, 0>> /\ UNCHANGED <<netVars, handled, fileVars, measured, sent>>

Effect(name) ==
    CASE name = "pcap_setfilter"          -> SetsFilter
      [] name = "ftell"                   -> Measures
      [] name = "pcap_sendqueue_transmit" -> Transmits
      [] name = "clear_old"              -> ClearsOld
      [] OTHER                            -> UNCHANGED pcapVars

(* A capture file that has no whole header is not opened. *)
OpensFile == \E call \in Range(calls) : call.from = "file" /\ Call.gets \cap call.uses # {}
MayOpen == OpensFile => length >= FileHeader

DoCall == Running /\ ~Looping /\ MayOpen /\ Succeed /\ Effect(Call.name)

FailCall == Running /\ ~Looping /\ Fail /\ UNCHANGED pcapVars

-----------------------------------------------------------------------------
(* The loop over the packets. *)

(* smp_1: the new time stamp is before the old one. *)
Inconsistent(ts) == old[1] > ts[1] \/ (old[1] = ts[1] /\ old[2] > ts[2])

(* Slip: the microseconds are left out. *)
delayInSeconds(ts) == ((ts[1] - old[1]) * USec) % Wrap

(* tcptop: the time since the last sample, a u_int. *)
delay(ts) == ((ts[1] - old[1]) * USec - old[2] + ts[2]) % Wrap

Handled(n, note) == handled' = Append(handled, [n |-> n, note |-> note])

Read == buffer' = Tail(buffer)

(* Slip: a sample does not become the last sample. *)
HandleSampleKeepsOld(n) ==
    LET ts == arrived[n].ts
    IN  /\ Call.do = "sample" /\ Read
        /\ IF delay(ts) = 0
           THEN End("crashed") /\ UNCHANGED <<handled, old>>
           ELSE Handled(n, delay(ts)) /\ UNCHANGED <<old, callVars>>

(* tcptop divides by the delay. *)
HandleSample(n) ==
    LET ts == arrived[n].ts
    IN  /\ Call.do = "sample" /\ Read
        /\ IF delay(ts) = 0
           THEN End("crashed") /\ UNCHANGED <<handled, old>>
           ELSE Handled(n, delay(ts)) /\ old' = ts /\ UNCHANGED callVars

HandleConsistent(n) ==
    LET ts == arrived[n].ts
    IN  /\ Call.do = "consistent" /\ Read
        /\ Handled(n, IF Inconsistent(ts) THEN 1 ELSE 0) /\ old' = ts
        /\ UNCHANGED callVars

(* The other handlers print the packet or write it to the dump file.        *)
HandleOther(n) ==
    /\ Call.do \in {"print", "dump", "udp"} /\ Read /\ Handled(n, 0)
    /\ UNCHANGED <<callVars, old>>

ReadPacket ==
    /\ Looping /\ Call.from = "net" /\ buffer # <<>>
    /\ LET n == Head(buffer) IN HandleSample(n) \/ HandleConsistent(n) \/ HandleOther(n)
    /\ UNCHANGED <<arrived, filter, fileVars, measured, sent>>

(* The read times out, and the loop goes on. *)
ReadNothing ==
    /\ Looping /\ Call.from = "net" /\ buffer = <<>>
    /\ UNCHANGED <<callVars, pcapVars>>

Queued == EndOf(Len(handled)) - FileHeader

(* The next record of the file is read and printed, or goes into sendcap's  *)
(* queue, which ends the loop when it is full.  A queue for less than       *)
(* nothing could not be allocated.                                          *)
ReadRecord ==
    LET n == Len(handled) + 1
    IN  /\ Looping /\ Call.from = "file"
        /\ n <= Len(records) /\ EndOf(n) <= length
        /\ CASE Call.do = "queue" /\ measured < 0 ->
                  End("crashed") /\ UNCHANGED handled
             [] Call.do = "queue" /\ measured >= 0 /\ Queued + records[n] > measured ->
                  Succeed /\ UNCHANGED handled
             [] OTHER -> Handled(n, 0) /\ UNCHANGED callVars
        /\ UNCHANGED <<netVars, old, fileVars, measured, sent>>

(* The file ends behind the last record. *)
ReadEnd ==
    /\ Looping /\ Call.from = "file" /\ length = EndOf(Len(handled))
    /\ Succeed
    /\ UNCHANGED pcapVars

(* The adapter fails, or the file ends within a record. *)
ReadError ==
    /\ Looping
    /\ Call.from = "file" =>
         LET n == Len(handled)
         IN  length > EndOf(n) /\ n < Len(records) /\ length < EndOf(n + 1)
    /\ IF Call.fails THEN Fail ELSE Succeed
    /\ UNCHANGED pcapVars

Main ==
    \/ DoCall \/ FailCall \/ (GoDown /\ UNCHANGED pcapVars)
    \/ ReadPacket \/ ReadNothing \/ ReadRecord \/ ReadEnd \/ ReadError

PcapNext == Main \/ Arrive \/ Grow \/ (Interrupt /\ UNCHANGED pcapVars)

-----------------------------------------------------------------------------
(* Properties. *)

(* The variables hold values of their declared types; what was handled was  *)
(* there, and no more is queued than was measured.                          *)
PcapTypeOK ==
    /\ arrived \in Seq([match : BOOLEAN, ts : Times])
    /\ buffer \in Seq(DOMAIN arrived) /\ filter \in {NoFilter} \cup 0..Len(arrived)
    /\ handled \in Seq([n : 1..MaxPackets, note : 0..Wrap - 1])
    /\ \A i \in DOMAIN handled : handled[i].n \in DOMAIN arrived \cup DOMAIN records
    /\ old \in Times /\ length \in 0..EndOf(Len(records)) /\ measured \in Int
    /\ Len(sent) <= Len(handled)

(* UDPdump prints UDP packets only, from when its filter is set.            *)
UDPdumpFilters ==
    prog \in {"UDPdump", "UDPdump_remote"} /\ Looping =>
        /\ filter # NoFilter
        /\ \A i \in DOMAIN handled :
             handled[i].n > filter => arrived[handled[i].n].match

(* smp_1 complains of exactly the packets with a time stamp before that of  *)
(* the packet before them.                                                  *)
ComplainsRightly ==
    prog = "smp_1" =>
        \A i \in DOMAIN handled :
            (handled[i].note = 1) <=>
                i > 1 /\ Time(arrived[handled[i].n].ts) < Time(arrived[handled[i-1].n].ts)

(* From the second on, tcptop's samples are taken over the time since the   *)
(* sample before, wherever the clock has run on since.                      *)
SamplesOverTheirTime ==
    prog = "tcptop" =>
        \A i \in DOMAIN handled :
            LET passed == Time(arrived[handled[i].n].ts) - Time(arrived[handled[i-1].n].ts)
            IN  i > 1 /\ passed > 0 => handled[i].note = passed

(* The queue sendcap transmits is made of the records that were whole when  *)
(* the file was measured, however it has grown since.                       *)
SendsWhatWasMeasured ==
    prog = "sendcap" /\ Running /\ Call.name = "pcap_sendqueue_transmit" =>
        Len(handled) =
            Cardinality({n \in DOMAIN records : EndOf(n) <= measured + FileHeader})

(* What the handlers and the queue make of the packets is right.            *)
HandlersRight ==
    UDPdumpFilters /\ ComplainsRightly /\ SamplesOverTheirTime /\ SendsWhatWasMeasured

(* The last sample's time; before the first it is what st_ts happens to be. *)
LastSample == IF handled = <<>> THEN old ELSE arrived[Last(handled).n].ts

(* A packet that is not handled yet has the time stamp of the last sample.  *)
StandsStill ==
    \E n \in DOMAIN arrived :
        /\ \A i \in DOMAIN handled : handled[i].n < n
        /\ arrived[n].ts = LastSample
=============================================================================
