----------------------------- MODULE FileTrans -----------------------------
(***************************************************************************)
(* File transfer: FileTransLayer::FILE_SEND, run by a worker thread of the *)
(* sending program, and FileTransLayer::Receive, run by the receive thread *)
(* of the peer.  The layers below are a wire: a frame handed to            *)
(* CEthernetLayer::Send reaches the peer's Receive in order or, when its   *)
(* type is in Unreliable, may be lost (pcap_sendpacket fails and its       *)
(* result is dropped, or the capture buffer of the peer is full).          *)
(***************************************************************************)
EXTENDS Bytes

CONSTANTS
    Files,         \* the files the user may choose
    NoFile,        \* FilePath before the first choice, the empty string
    NameLen,       \* NameLen[f]: characters in the name of f
    FileLen,       \* FileLen[f]: bytes in f
    MaxAppData,    \* MAX_APP_DATA
    LongMod,       \* unsigned long and unsigned int count modulo LongMod
    Threads,       \* worker threads that may run FILE_SEND
    Unreliable,    \* the frame types the wire may lose
    Refusals,      \* the file operations the system may refuse
    MaxJobs        \* bound: FILE_SEND runs in a behaviour

ASSUME FilesAssumption ==
    /\ NoFile \notin Files
    /\ NameLen \in [Files -> Nat \ {0}]
    /\ FileLen \in [Files -> Nat]
    /\ \A f \in Files : NameLen[f] < MaxAppData

ASSUME SizesAssumption ==
    /\ MaxAppData \in Nat \ {0}
    /\ LongMod \in Nat
    /\ MaxAppData < LongMod
    /\ MaxJobs \in Nat

(* OpenSend and Read are those of FILE_SEND on its file, the others those   *)
(* of Receive on WriteFile: a file that is gone, locked or read-only, a     *)
(* full disk.                                                               *)
ASSUME RefusalsAssumption ==
    Refusals \subseteq {"OpenSend", "Read", "Open", "SetLength", "Write"}

VARIABLES
    FilePath,      \* sender: the path the user chose last
    thread,        \* sender: locals of each FILE_SEND run
    mHeader,       \* sender: the one FILE_APP every run builds its frames in
    wire,          \* frames sent and not yet received
    WriteFile,     \* receiver: the open file, or Closed
    leaked,        \* receiver: names a second Open left open for good
    box,           \* receiver: the arrival box is up, the thread waits in it
    down,          \* programs ended by an exception nobody catches
    jobs,          \* history: the file each FILE_SEND run read, in order
    arrived,       \* history: what each arrival box announced
    lost,          \* history: job, type and number of the frames lost so far
    refused        \* history: the operations on WriteFile refused so far

sendVars == <<FilePath, thread, mHeader, jobs>>
recvVars == <<WriteFile, leaked, box, arrived, refused>>
vars == <<FilePath, thread, mHeader, wire, WriteFile, leaked, box, down,
          jobs, arrived, lost, refused>>

(* Slip: a counter that does not wrap. *)
ULongUnbounded(n) == n

ULong(n) == n % LongMod
(* Slip: every frame with data counts as full. *)
ChunkLenFull(total) == IF total > 0 THEN MaxAppData ELSE 0

ChunkLen(total) == IF total > MaxAppData THEN MaxAppData ELSE total

Name(f)    == [i \in 1..NameLen[f] |-> <<"name", f, i>>]
Content(f) == [i \in 1..FileLen[f] |-> <<"data", f, i>>]

(* MAX_APP_DATA bytes from the start of the name, whatever follows its NUL. *)
NameBuffer(f) == ReadBytes(Append(Name(f), NUL), MaxAppData)

Closed == [name |-> <<>>, bytes |-> <<>>]
Idle   == [pc |-> "idle", file |-> NoFile, job |-> 0, total |-> 0, seq |-> 0,
           pos |-> 0]

Init ==
    /\ FilePath = NoFile
    /\ thread = [t \in Threads |-> Idle]
    /\ mHeader = [totlen |-> 0, type |-> "DONT_FRAG", seq |-> 0,
                  data |-> [i \in 1..MaxAppData |-> NUL]]
    /\ wire = <<>>
    /\ WriteFile = Closed /\ leaked = {} /\ box = FALSE
    /\ down = {}
    /\ jobs = <<>> /\ arrived = <<>> /\ lost = {} /\ refused = {}

-----------------------------------------------------------------------------
(* The sending program.                                                    *)

SetHeader(len, type, seq, src) ==
    mHeader' = [totlen |-> len, type |-> type, seq |-> seq,
                data |-> Memcpy(mHeader.data, src, ChunkLen(len))]

Place(job, type, seq) == [job |-> job, type |-> type, seq |-> seq]

(* Send: the header and the first n data bytes go out as they are now.      *)
Send(t, n) ==
    LET frame == [totlen |-> mHeader.totlen, type |-> mHeader.type,
                  seq |-> mHeader.seq, data |-> SubSeq(mHeader.data, 1, n),
                  job |-> thread[t].job]
    IN  /\ UNCHANGED mHeader
        /\ \/ wire' = Append(wire, frame) /\ UNCHANGED lost
           \/ /\ frame.type \in Unreliable
              /\ lost' = lost \cup {Place(frame.job, frame.type, frame.seq)}
              /\ UNCHANGED wire

At(t, pc) == "sender" \notin down /\ thread[t].pc = pc

(* The user picks a file in the file dialog. *)
SelectFile ==
    /\ "sender" \notin down
    /\ \E f \in Files \ {FilePath} : FilePath' = f
    /\ UNCHANGED <<thread, mHeader, jobs, wire, down, lost, recvVars>>

(* The user presses the send-file button, which is never disabled. *)
SendFileButton(t) ==
    /\ At(t, "idle")
    /\ Len(jobs) + Cardinality({s \in Threads : thread[s].pc = "open"}) < MaxJobs
    /\ thread' = [thread EXCEPT ![t].pc = "open"]
    /\ UNCHANGED <<FilePath, mHeader, jobs, wire, down, lost, recvVars>>

(* SendFile holds its file with exclusive sharing. *)
InUse(f) == \E s \in Threads : thread[s].pc \notin {"idle", "open"} /\ thread[s].file = f

OpenSendFile(t) ==
    /\ At(t, "open")
    /\ FilePath # NoFile /\ ~InUse(FilePath)
    /\ LET total == ULong(FileLen[FilePath])
       IN  /\ thread' = [thread EXCEPT ![t] =
                [pc |-> "info", file |-> FilePath, job |-> Len(jobs) + 1,
                 total |-> total, seq |-> ULong(-1), pos |-> 0]]
           /\ SetHeader(total, "FILE_INFO", ULong(-1), NameBuffer(FilePath))
    /\ jobs' = Append(jobs, FilePath)
    /\ UNCHANGED <<FilePath, wire, down, lost, recvVars>>

(* Open fails, its result is not looked at, and GetLength throws. *)
SendFileFails(t) ==
    /\ At(t, "open")
    /\ FilePath = NoFile \/ InUse(FilePath)
    /\ down' = down \cup {"sender"}
    /\ UNCHANGED <<sendVars, wire, lost, recvVars>>

(* The system refuses to open the file for reading, or Read throws.         *)
SendFileRefused(t) ==
    /\ \/ At(t, "open") /\ "OpenSend" \in Refusals
       \/ At(t, "read") /\ "Read" \in Refusals
    /\ down' = down \cup {"sender"}
    /\ UNCHANGED <<sendVars, wire, lost, recvVars>>

(* Slip: the NUL that ends the name is not sent. *)
SendInfoNoNul(t) ==
    /\ At(t, "info")
    /\ Send(t, NameLen[thread[t].file])
    /\ thread' = [thread EXCEPT ![t].pc = "read"]
    /\ UNCHANGED <<FilePath, jobs, down, recvVars>>

SendInfo(t) ==
    /\ At(t, "info")
    /\ Send(t, NameLen[thread[t].file] + 1)
    /\ thread' = [thread EXCEPT ![t].pc = "read"]
    /\ UNCHANGED <<FilePath, jobs, down, recvVars>>

(* read_file.Read returns bytes: the buffer becomes the next FILE_MORE      *)
(* frame.  What it holds beyond them is never sent.                         *)
ReadChunk(t) ==
    LET th == thread[t]
        n  == Min({MaxAppData, FileLen[th.file] - th.pos})
    IN  /\ At(t, "read")
        /\ th.pos < FileLen[th.file]
        /\ SetHeader(ChunkLen(th.total), "FILE_MORE", ULong(th.seq + 1),
                     ReadBytes([i \in 1..n |-> <<"data", th.file, th.pos + i>>], MaxAppData))
        /\ thread' = [thread EXCEPT ![t].pc = "more", ![t].seq = ULong(@ + 1),
                                    ![t].pos = @ + n]
        /\ UNCHANGED <<FilePath, jobs, wire, down, lost, recvVars>>

SendChunk(t) ==
    /\ At(t, "more")
    /\ Send(t, ChunkLen(thread[t].total))
    /\ thread' = [thread EXCEPT ![t].pc = "read", ![t].total = ULong(@ - MaxAppData)]
    /\ UNCHANGED <<FilePath, jobs, down, recvVars>>

(* Slip: the closing frame has the type of a chunk. *)
ReadEndAsMore(t) ==
    /\ At(t, "read")
    /\ thread[t].pos = FileLen[thread[t].file]
    /\ SetHeader(0, "FILE_MORE", ULong(thread[t].seq + 1), <<>>)
    /\ thread' = [thread EXCEPT ![t].pc = "last", ![t].seq = ULong(@ + 1)]
    /\ UNCHANGED <<FilePath, jobs, wire, down, lost, recvVars>>

(* Slip: the loop runs until totallength, which is unsigned, is zero. *)
ReadEndAtZero(t) ==
    /\ At(t, "read")
    /\ thread[t].pos = FileLen[thread[t].file] /\ thread[t].total = 0
    /\ SetHeader(0, "FILE_LAST", ULong(thread[t].seq + 1), <<>>)
    /\ thread' = [thread EXCEPT ![t].pc = "last", ![t].seq = ULong(@ + 1)]
    /\ UNCHANGED <<FilePath, jobs, wire, down, lost, recvVars>>

(* Slip: the loop ends at a chunk that is not full, before it is sent. *)
ReadEndAtShort(t) ==
    /\ At(t, "read")
    /\ FileLen[thread[t].file] - thread[t].pos < MaxAppData
    /\ SetHeader(0, "FILE_LAST", ULong(thread[t].seq + 1), <<>>)
    /\ thread' = [thread EXCEPT ![t].pc = "last", ![t].seq = ULong(@ + 1)]
    /\ UNCHANGED <<FilePath, jobs, wire, down, lost, recvVars>>

(* read_file.Read returns 0: FILE_LAST, with no byte copied into the frame. *)
ReadEnd(t) ==
    /\ At(t, "read")
    /\ thread[t].pos = FileLen[thread[t].file]
    /\ SetHeader(0, "FILE_LAST", ULong(thread[t].seq + 1), <<>>)
    /\ thread' = [thread EXCEPT ![t].pc = "last", ![t].seq = ULong(@ + 1)]
    /\ UNCHANGED <<FilePath, jobs, wire, down, lost, recvVars>>

(* The eight filler bytes of the last frame are never looked at: none is    *)
(* kept here.  The file is closed and the thread ends.                      *)
SendLast(t) ==
    /\ At(t, "last")
    /\ Send(t, 0)
    /\ thread' = [thread EXCEPT ![t] = Idle]
    /\ UNCHANGED <<FilePath, jobs, down, recvVars>>

FileSend(t) ==
    \/ OpenSendFile(t) \/ SendFileFails(t) \/ SendInfo(t)
    \/ ReadChunk(t) \/ SendChunk(t) \/ ReadEnd(t) \/ SendLast(t)

-----------------------------------------------------------------------------
(* The receiving program.                                                  *)

Receiving(types) ==
    /\ "receiver" \notin down /\ ~box
    /\ wire # <<>> /\ Head(wire).type \in types
    /\ wire' = Tail(wire)
    /\ UNCHANGED <<sendVars, lost>>

(* Open forgets the handle of a file that is still open. *)
Leak == leaked' = leaked \cup (IF WriteFile = Closed THEN {} ELSE {WriteFile.name})

CanOpen(name) == name # <<>> /\ name \notin leaked'

(* Every byte of the name is one of a file name. *)
Proper(name) == \A i \in DOMAIN name : name[i][1] = "name"

ReceiveInfo ==
    /\ Receiving({"FILE_INFO"})
    /\ Leak
    /\ LET name == CString(Head(wire).data)
       IN  /\ CanOpen(name)
           /\ WriteFile' = [name  |-> name,
                            bytes |-> [i \in 1..Head(wire).totlen |-> Hole]]
    /\ UNCHANGED <<box, arrived, down, refused>>

(* Open fails, its result is not looked at, and SetLength throws.           *)
ReceiveInfoFails ==
    /\ Receiving({"FILE_INFO"})
    /\ Leak
    /\ LET name == CString(Head(wire).data) IN CanOpen(name) => ~Proper(name)
    /\ WriteFile' = Closed
    /\ down' = down \cup {"receiver"}
    /\ UNCHANGED <<box, arrived, refused>>

Refuses(operation) ==
    /\ operation \in Refusals
    /\ refused' = refused \cup {operation}

(* The system refuses to open the file for writing, and SetLength throws on *)
(* no handle, or it opens it and refuses its length.                        *)
ReceiveInfoRefused ==
    /\ Receiving({"FILE_INFO"})
    /\ Leak
    /\ \/ Refuses("Open") /\ WriteFile' = Closed
       \/ /\ CanOpen(CString(Head(wire).data)) /\ Refuses("SetLength")
          /\ WriteFile' = [name |-> CString(Head(wire).data), bytes |-> <<>>]
    /\ down' = down \cup {"receiver"}
    /\ UNCHANGED <<box, arrived>>

(* Slip: Seek is forgotten and the chunk is appended. *)
ReceiveMoreNoSeek ==
    /\ Receiving({"FILE_MORE"})
    /\ WriteFile # Closed
    /\ WriteFile' = [WriteFile EXCEPT !.bytes =
                        @ \o ReadBytes(Head(wire).data, Head(wire).totlen)]
    /\ UNCHANGED <<leaked, box, arrived, down, refused>>

(* Slip: a full chunk is written, whatever the frame's length. *)
ReceiveMoreFull ==
    /\ Receiving({"FILE_MORE"})
    /\ WriteFile # Closed
    /\ WriteFile' = [WriteFile EXCEPT !.bytes =
                        WriteAt(@, ULong(Head(wire).seq * MaxAppData),
                                ReadBytes(Head(wire).data, MaxAppData))]
    /\ UNCHANGED <<leaked, box, arrived, down, refused>>

ReceiveMore ==
    /\ Receiving({"FILE_MORE"})
    /\ WriteFile # Closed
    /\ WriteFile' = [WriteFile EXCEPT !.bytes =
                        WriteAt(@, ULong(Head(wire).seq * MaxAppData),
                                ReadBytes(Head(wire).data, Head(wire).totlen))]
    /\ UNCHANGED <<leaked, box, arrived, down, refused>>

(* No file is open and Seek throws. *)
ReceiveMoreFails ==
    /\ Receiving({"FILE_MORE"})
    /\ WriteFile = Closed
    /\ down' = down \cup {"receiver"}
    /\ UNCHANGED recvVars

(* Write throws.  What it wrote of the chunk before is left out.            *)
ReceiveMoreRefused ==
    /\ Receiving({"FILE_MORE"})
    /\ WriteFile # Closed
    /\ Refuses("Write")
    /\ down' = down \cup {"receiver"}
    /\ UNCHANGED <<WriteFile, leaked, box, arrived>>

(* Slip: the file is not closed. *)
ReceiveLastNoClose ==
    /\ Receiving({"DONT_FRAG", "FILE_LAST"})
    /\ arrived' = Append(arrived, WriteFile)
    /\ box' = TRUE
    /\ UNCHANGED <<WriteFile, leaked, down, refused>>

ReceiveLast ==
    /\ Receiving({"DONT_FRAG", "FILE_LAST"})
    /\ arrived' = Append(arrived, WriteFile)
    /\ WriteFile' = Closed
    /\ box' = TRUE
    /\ UNCHANGED <<leaked, down, refused>>

(* The user closes the arrival box. *)
Dismiss ==
    /\ "receiver" \notin down /\ box
    /\ box' = FALSE
    /\ UNCHANGED <<sendVars, wire, WriteFile, leaked, arrived, down, lost, refused>>

Receive ==
    \/ ReceiveInfo \/ ReceiveInfoFails \/ ReceiveInfoRefused
    \/ ReceiveMore \/ ReceiveMoreFails \/ ReceiveMoreRefused
    \/ ReceiveLast

-----------------------------------------------------------------------------
Next ==
    \/ SelectFile
    \/ \E t \in Threads : SendFileButton(t) \/ FileSend(t) \/ SendFileRefused(t)
    \/ Receive
    \/ Dismiss

Spec == Init /\ [][Next]_vars

(* Threads that can run do run, and the user closes the boxes that come up. *)
Fairness ==
    /\ \A t \in Threads : WF_vars(FileSend(t))
    /\ WF_vars(Receive)
    /\ WF_vars(Dismiss)

FairSpec == Spec /\ Fairness

-----------------------------------------------------------------------------
(* Properties. *)

NameBytes == UNION {{<<"name", f, i>> : i \in 1..NameLen[f]} : f \in Files}
DataBytes == UNION {{<<"data", f, i>> : i \in 1..FileLen[f]} : f \in Files}
Byte      == {NUL, Junk, Hole} \cup NameBytes \cup DataBytes

FrameTypes == {"DONT_FRAG", "FILE_INFO", "FILE_MORE", "FILE_LAST"}
Longs      == 0..LongMod-1
StoredFile == [name : Seq(Byte), bytes : Seq(Byte)]
Frame      == [totlen : Longs, type : FrameTypes, seq : Longs, data : Seq(Byte), job : Nat]
Run        == [pc : {"idle", "open", "info", "read", "more", "last"},
               file : Files \cup {NoFile}, job : Nat, total : Longs, seq : Longs, pos : Nat]

(* The variables hold values of the types the code declares for them, and a *)
(* run of FILE_SEND past its Open has a file.                               *)
TypeOK ==
    /\ FilePath \in Files \cup {NoFile}
    /\ thread \in [Threads -> Run]
    /\ \A t \in Threads : thread[t].pc \notin {"idle", "open"} => thread[t].file \in Files
    /\ mHeader \in [totlen : Longs, type : FrameTypes, seq : Longs,
                    data : [1..MaxAppData -> Byte]]
    /\ wire \in Seq(Frame)
    /\ WriteFile \in StoredFile
    /\ leaked \subseteq Seq(Byte)
    /\ box \in BOOLEAN
    /\ down \subseteq {"sender", "receiver"}
    /\ jobs \in Seq(Files)
    /\ arrived \in Seq(StoredFile)
    /\ lost \subseteq [job : Nat, type : FrameTypes, seq : Longs]
    /\ refused \subseteq Refusals

Parcel(f) == [name |-> Name(f), bytes |-> Content(f)]

(* The k-th arrival box announces a file with the name and every byte of    *)
(* the file of the k-th run of FILE_SEND.                                   *)
ArrivedIntact ==
    /\ Len(arrived) <= Len(jobs)
    /\ \A k \in DOMAIN arrived : arrived[k] = Parcel(jobs[k])

(* Whatever is lost, byte i of a stored file is byte i of some sent file or *)
(* a hole: Receive writes a FILE_MORE frame at the place its number names.  *)
BytesInPlace ==
    \A file \in {WriteFile} \cup {arrived[k] : k \in DOMAIN arrived} :
        \A i \in DOMAIN file.bytes :
            file.bytes[i] = Hole \/ \E f \in Files : file.bytes[i] = <<"data", f, i>>

Short(f) == FileLen[f] <= NameLen[f]
ShortSent == \E k \in DOMAIN jobs : Short(jobs[k])

LostTypes == {m.type : m \in lost}

(* The FILE_MORE frame at place m is the one that holds byte i of the file  *)
(* of the k-th run.                                                         *)
Covers(m, k, i) ==
    /\ m.type = "FILE_MORE" /\ m.job = k
    /\ m.seq * MaxAppData < i /\ i <= (m.seq + 1) * MaxAppData

LostByte(k, i) == \E m \in lost : Covers(m, k, i)

(* A lost FILE_MORE frame costs its own bytes and nothing else: every file  *)
(* that arrives has its name, its length and every byte whose own frame was *)
(* not lost; a hole is where a lost frame's bytes were to be.               *)
LostChunksLeaveHoles ==
    LostTypes \subseteq {"FILE_MORE"} /\ ~ShortSent =>
        /\ Len(arrived) <= Len(jobs)
        /\ \A k \in DOMAIN arrived :
             /\ arrived[k].name = Name(jobs[k])
             /\ Len(arrived[k].bytes) = FileLen[jobs[k]]
             /\ \A i \in 1..FileLen[jobs[k]] :
                    \/ arrived[k].bytes[i] = Content(jobs[k])[i]
                    \/ arrived[k].bytes[i] = Hole /\ LostByte(k, i)

(* The two ends never lead each other into an exception of WriteFile: it    *)
(* ends the receiving program only after a FILE_INFO or FILE_LAST frame was *)
(* lost, for a file whose name does not fit into its own length (SetHeader  *)
(* copies no more of the name than that), or because the system refused to  *)
(* open, to lengthen or to write the file.                                  *)
DeathNeedsLostFrame ==
    "receiver" \in down =>
        LostTypes \cap {"FILE_INFO", "FILE_LAST"} # {} \/ ShortSent \/ refused # {}

(* Open meets a file that is still open, and forgets its handle, only after *)
(* a FILE_LAST frame was lost.                                              *)
LeakNeedsLostLast == leaked # {} => "FILE_LAST" \in LostTypes

(* Every run of FILE_SEND comes to its end, whatever happens to its frames. *)
EveryRunEnds ==
    \A t \in Threads : thread[t].pc # "idle" ~> thread[t].pc = "idle" \/ "sender" \in down

(* Over a wire that loses nothing, for files longer than their names and    *)
(* shorter than the 32-bit counter, one at a time and with no file operation*)
(* refused, the two ends are a courier of files: what FILE_SEND read is     *)
(* what the boxes announce, whole, once, in order, and at last all of it.   *)
FileCourier == INSTANCE Courier WITH
    Item      <- {Parcel(f) : f \in Files},
    posted    <- [k \in DOMAIN jobs |-> Parcel(jobs[k])],
    delivered <- arrived
DeliversFiles == FileCourier!Spec
=============================================================================
